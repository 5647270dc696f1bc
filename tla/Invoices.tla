------------------------------ MODULE Invoices ------------------------------
(***************************************************************************)
(* Invoices, the payments allocated to them and the refunds of those       *)
(* payments: InvoiceService and InvoicePaymentService, whose transactions  *)
(* lock the invoice and then the payment and are one action each; the      *)
(* owner's createRefund, which holds the payment's lock while it asks      *)
(* Stripe; and the refund events of the webhook, which reads without a     *)
(* lock, writes, and commits.                                              *)
(***************************************************************************)
EXTENDS Integers, FiniteSets, Functions

CONSTANTS
    Invoices,
    Totals,        \* the totals an invoice may ask for
    Online,        \* payments captured by Stripe (booking_payment)
    Offline,       \* payments staff may record, named by idempotency key
    Refunds,       \* Stripe refunds
    Amount,        \* [Online \cup Offline -> Nat]: total_amount
    RefundOf,      \* [Refunds -> Online]
    RefundAmount,  \* [Refunds -> Nat]
    Deliveries,    \* calls of the webhook route that may run at once
    NoInvoice, NoRefund

Payments == Online \cup Offline

ASSUME InvoicesAssumption ==
    /\ IsFiniteSet(Online) /\ IsFiniteSet(Offline) /\ IsFiniteSet(Refunds)
    /\ Online \cap Offline = {}
    /\ NoInvoice \notin Invoices
    /\ NoRefund \notin Refunds
    /\ Totals \subseteq Nat \ {0}
    /\ Amount \in [Payments -> Nat \ {0}]
    /\ RefundOf \in [Refunds -> Online]
    /\ RefundAmount \in [Refunds -> Nat \ {0}]

VARIABLES
    invoice,     \* [Invoices -> Invoice]
    payment,     \* [Payments -> PaymentStatus]: checkout_transactions
    allocated,   \* [Payments -> Invoices \cup {NoInvoice}]
    reversed,    \* [Offline -> Nat]: the sum of its checkout_payment_reversals
    row,         \* [Refunds -> RowStatus]: stripe_refunds
    request,     \* [Online -> Request]: createRefund, holding the payment's lock
    sent,        \* the events of Stripe so far
    processed,   \* the events marked PROCESSED
    call         \* [Deliveries -> Call]: how far each webhook call has come

invoicing == <<invoice, allocated, reversed>>
vars == <<invoicing, payment, row, request, sent, processed, call>>

Invoice == [status: {"ABSENT", "DRAFT", "ISSUED", "VOID"}, total: Totals \cup {0}]

PaymentStatus == {"ABSENT", "SUCCEEDED", "REFUNDED"}

\* A row that is CREATING, or FAILED because Stripe never answered, has no
\* stripe_refund_id and no part in any sum: it counts as ABSENT.
RefundStatus == {"PENDING", "SUCCEEDED", "FAILED"}
RowStatus    == RefundStatus \cup {"ABSENT"}

\* An event carries the status its refund had then.
Event == Refunds \X RefundStatus

\* refunded is the sum it read before it asked; answer, what Stripe said.
Request == [refund: Refunds \cup {NoRefund}, refunded: Nat, answer: RowStatus]

NoRequest == [refund |-> NoRefund, refunded |-> 0, answer |-> "ABSENT"]

\* new: no row was found; locks: the trigger took the payment's lock; full: the
\* sum it read covers the payment.
Call == [step: {"idle", "read", "written"}, refund: Refunds \cup {NoRefund},
         status: RowStatus, new: BOOLEAN, locks: BOOLEAN, full: BOOLEAN]

IdleCall == [step |-> "idle", refund |-> NoRefund, status |-> "ABSENT",
             new |-> FALSE, locks |-> FALSE, full |-> FALSE]

\* Rows, events, requests and calls are well formed.
TypeOK ==
    /\ invoice \in [Invoices -> Invoice]
    /\ payment \in [Payments -> PaymentStatus]
    /\ allocated \in [Payments -> Invoices \cup {NoInvoice}]
    /\ reversed \in [Offline -> Nat]
    /\ row \in [Refunds -> RowStatus]
    /\ request \in [Online -> Request]
    /\ sent \in SUBSET Event
    /\ processed \in SUBSET Event
    /\ call \in [Deliveries -> Call]

\* What was paid online is recorded; there is no invoice yet.
Init ==
    /\ invoice = [i \in Invoices |-> [status |-> "ABSENT", total |-> 0]]
    /\ payment = [p \in Payments |-> IF p \in Online THEN "SUCCEEDED" ELSE "ABSENT"]
    /\ allocated = [p \in Payments |-> NoInvoice]
    /\ reversed = [p \in Offline |-> 0]
    /\ row = [r \in Refunds |-> "ABSENT"]
    /\ request = [p \in Online |-> NoRequest]
    /\ sent = {}
    /\ processed = {}
    /\ call = [d \in Deliveries |-> IdleCall]

-----------------------------------------------------------------------------
(* Sums and locks.                                                         *)

RefundsOf(p) == {r \in Refunds : RefundOf[r] = p}

Sum(rs) == SumFunctionOnSet(RefundAmount, rs)

\* What the rows of a payment say was refunded.
Refunded(p) == Sum({r \in RefundsOf(p) : row[r] = "SUCCEEDED"})

GivenBack(p) == IF p \in Online THEN Refunded(p) ELSE reversed[p]

\* net_minor of invoice_allocation_balances.
Net(p) == IF payment[p] = "REFUNDED" \/ GivenBack(p) > Amount[p] THEN 0
          ELSE Amount[p] - GivenBack(p)

AllocatedTo(i) == {p \in Payments : allocated[p] = i}

\* paid_minor and due_minor of invoice_balances.
Paid(i) == SumFunctionOnSet([p \in Payments |-> Net(p)], AllocatedTo(i))

\* Mutant: what is paid already is not taken off.
Due_Total(i) == invoice[i].total

Due(i) == invoice[i].total - Paid(i)

Allocated(p) == allocated[p] # NoInvoice

\* The calls that have written a row of p and not committed.
Writers(p) == {d \in Deliveries : call[d].step = "written" /\ RefundOf[call[d].refund] = p}

\* FOR UPDATE waits for whoever holds the payment or refers to it from a new row;
\* what only refers to it, or sets its status, waits for FOR UPDATE by others.
MayLock(p)      == request[p] = NoRequest
                   /\ \A d \in Writers(p) : ~call[d].locks /\ ~call[d].new
MayRefer(p, ds) == request[p] = NoRequest /\ \A d \in ds : ~call[d].locks

-----------------------------------------------------------------------------
(* Invoices.                                                               *)

WriteDraft(i, n) ==
    /\ invoice' = [invoice EXCEPT ![i] = [status |-> "DRAFT", total |-> n]]
    /\ UNCHANGED <<payment, allocated, reversed, row, request, sent, processed, call>>

\* An invoice is named by its idempotency key, which the tenant's counter guards.
Create(i, n) == invoice[i].status = "ABSENT" /\ WriteDraft(i, n)
Update(i, n) == invoice[i].status = "DRAFT" /\ WriteDraft(i, n)

Issue(i) ==
    /\ invoice[i].status = "DRAFT"
    /\ invoice' = [invoice EXCEPT ![i].status = "ISSUED"]
    /\ UNCHANGED <<payment, allocated, reversed, row, request, sent, processed, call>>

\* Mutant: what was paid is not looked at.
Voidable_Any(i) == invoice[i].status \in {"DRAFT", "ISSUED"}

Voidable(i) == invoice[i].status \in {"DRAFT", "ISSUED"} /\ Paid(i) = 0

Void(i) ==
    /\ Voidable(i)
    /\ invoice' = [invoice EXCEPT ![i].status = "VOID"]
    /\ UNCHANGED <<payment, allocated, reversed, row, request, sent, processed, call>>

\* allocate, and the trigger that repeats its checks under both locks.
Allocate(i, p) ==
    /\ invoice[i].status = "ISSUED"
    /\ payment[p] = "SUCCEEDED" /\ ~Allocated(p) /\ MayLock(p)
    /\ Net(p) > 0 /\ Net(p) <= Due(i)
    /\ allocated' = [allocated EXCEPT ![p] = i]
    /\ UNCHANGED <<invoice, payment, reversed, row, request, sent, processed, call>>

\* Mutant: a draft takes money too.
Receiving_Draft(i) == invoice[i].status \in {"DRAFT", "ISSUED"}

Receiving(i) == invoice[i].status = "ISSUED"

\* record: the payment and its allocation; a key used before changes nothing.
Record(i, p) ==
    /\ payment[p] = "ABSENT"
    /\ Receiving(i)
    /\ Amount[p] <= Due(i)
    /\ payment' = [payment EXCEPT ![p] = "SUCCEEDED"]
    /\ allocated' = [allocated EXCEPT ![p] = i]
    /\ UNCHANGED <<invoice, reversed, row, request, sent, processed, call>>

\* reverse: staff gave back n of an offline payment.
Reverse(p, n) ==
    /\ Allocated(p)
    /\ n <= Net(p)
    /\ reversed' = [reversed EXCEPT ![p] = @ + n]
    /\ UNCHANGED <<invoice, payment, allocated, row, request, sent, processed, call>>

-----------------------------------------------------------------------------
(* Stripe: it gives back what it captured, and no more.                    *)

Said(r, status) == <<r, status>> \in sent
Made(r)         == \E status \in RefundStatus : Said(r, status)

\* A refund starts out as PENDING or SUCCEEDED.
Makes(r, status) ==
    /\ ~Made(r)
    /\ status # "FAILED"
    /\ RefundAmount[r] + Sum({q \in RefundsOf(RefundOf[r]) : Made(q) /\ ~Said(q, "FAILED")})
          <= Amount[RefundOf[r]]
    /\ sent' = sent \cup {<<r, status>>}

StripeSettles(r, status) ==
    /\ Said(r, "PENDING") /\ ~Said(r, "SUCCEEDED") /\ ~Said(r, "FAILED")
    /\ status # "PENDING"
    /\ sent' = sent \cup {<<r, status>>}
    /\ UNCHANGED <<invoicing, payment, row, request, processed, call>>

\* A refund made in Stripe's dashboard.
DashboardRefund(r, status) ==
    /\ \A p \in Online : request[p].refund # r
    /\ Makes(r, status)
    /\ UNCHANGED <<invoicing, payment, row, request, processed, call>>

-----------------------------------------------------------------------------
(* createRefund.                                                           *)

\* It locks the payment, reads the sums and inserts its row ...
BeginRefund(p, r) ==
    /\ RefundOf[r] = p /\ ~Made(r)
    /\ MayLock(p)
    /\ payment[p] = "SUCCEEDED"
    /\ RefundAmount[r] + Sum({q \in RefundsOf(p) : row[q] \in {"PENDING", "SUCCEEDED"}})
          <= Amount[p]
    /\ request' = [request EXCEPT ![p] = [NoRequest EXCEPT !.refund = r,
                                                           !.refunded = Refunded(p)]]
    /\ UNCHANGED <<invoicing, payment, row, sent, processed, call>>

\* ... Stripe makes the refund ...
AskStripe(p, status) ==
    /\ request[p] # NoRequest
    /\ Makes(request[p].refund, status)
    /\ request' = [request EXCEPT ![p].answer = status]
    /\ UNCHANGED <<invoicing, payment, row, processed, call>>

\* Mutant: the row keeps the status it was inserted with.
Answer_Creating(p) == "CREATING"

Answer(p) == request[p].answer

\* ... and the answer is written.
EndRefund(p) ==
    LET r == request[p].refund IN
    /\ request[p].answer # "ABSENT"
    /\ row' = [row EXCEPT ![r] = Answer(p)]
    /\ payment' = IF Answer(p) = "SUCCEEDED"
                     /\ request[p].refunded + RefundAmount[r] >= Amount[p]
                  THEN [payment EXCEPT ![p] = "REFUNDED"] ELSE payment
    /\ request' = [request EXCEPT ![p] = NoRequest]
    /\ UNCHANGED <<invoicing, sent, processed, call>>

\* Stripe refuses, or its answer is lost, or the transaction, whatever Stripe did.
LoseRefund(p) ==
    /\ request[p] # NoRequest
    /\ request' = [request EXCEPT ![p] = NoRequest]
    /\ UNCHANGED <<invoicing, payment, row, sent, processed, call>>

-----------------------------------------------------------------------------
(* The webhook's refund events.                                            *)

Return(d) ==
    /\ call' = [call EXCEPT ![d] = IdleCall]
    /\ processed' \in {processed, processed \cup {<<call[d].refund, call[d].status>>}}

\* Mutant: a refund the platform did not make is none of its business.
Stale_Foreign(r, status) == row[r] \in {"ABSENT", status}

\* The row has the event's status already.
Stale(r, status) == row[r] = status

\* The event row and the refund's row are read without a lock.
Receive(d, r, status) ==
    /\ call[d].step = "idle"
    /\ Said(r, status) /\ <<r, status>> \notin processed
    /\ ~Stale(r, status)
    /\ call' = [call EXCEPT ![d] = [IdleCall EXCEPT !.step = "read", !.refund = r,
                                       !.status = status, !.new = row[r] = "ABSENT"]]
    /\ UNCHANGED <<invoicing, payment, row, request, sent, processed>>

Ignore(r, status) ==
    /\ Said(r, status) /\ Stale(r, status)
    /\ processed' = processed \cup {<<r, status>>}
    /\ UNCHANGED <<invoicing, payment, row, request, sent, call>>

\* What the rows say, and what this call writes.
SumWith(r, status) ==
    Sum({q \in RefundsOf(RefundOf[r]) :
            IF q = r THEN status = "SUCCEEDED" ELSE row[q] = "SUCCEEDED"})

\* Mutant: refunds on their way count too.
Covers_Pending(r, status) ==
    Sum({q \in RefundsOf(RefundOf[r]) :
            (IF q = r THEN status ELSE row[q]) \in {"PENDING", "SUCCEEDED"}}) >= Amount[RefundOf[r]]

Covers(r, status) == SumWith(r, status) >= Amount[RefundOf[r]]

\* The trigger on the refunds of an allocated payment, which locks it.
EvidenceGuard(r, status) ==
    /\ MayLock(RefundOf[r])
    /\ row[r] = "SUCCEEDED" => status = "SUCCEEDED"
    /\ status = "SUCCEEDED" => SumWith(r, status) <= Amount[RefundOf[r]]

\* The row is inserted, unless another call did so, or updated to the status of
\* the event, whatever it is by now.
Write(d) ==
    LET r == call[d].refund
        p == RefundOf[r]
    IN  /\ call[d].step = "read"
        /\ \A e \in Writers(p) : call[e].refund # r
        /\ call[d].new => row[r] = "ABSENT" /\ MayRefer(p, Writers(p))
        /\ Allocated(p) => EvidenceGuard(r, call[d].status)
        /\ call' = [call EXCEPT ![d].step = "written", ![d].locks = Allocated(p),
                       ![d].full = Covers(r, call[d].status)]
        /\ UNCHANGED <<invoicing, payment, row, request, sent, processed>>

Commit(d) ==
    LET r == call[d].refund
        p == RefundOf[r]
    IN  /\ call[d].step = "written"
        /\ call[d].full => MayRefer(p, Writers(p) \ {d})
        /\ row' = [row EXCEPT ![r] = call[d].status]
        /\ payment' = IF call[d].full THEN [payment EXCEPT ![p] = "REFUNDED"] ELSE payment
        /\ Return(d)
        /\ UNCHANGED <<invoicing, request, sent>>

\* A guard raises, a key exists already, a deadlock is broken, the process dies.
Abandon(d) ==
    /\ call[d].step # "idle"
    /\ call' = [call EXCEPT ![d] = IdleCall]
    /\ UNCHANGED <<invoicing, payment, row, request, sent, processed>>

-----------------------------------------------------------------------------
InvoiceStep(i) ==
    \/ Issue(i) \/ Void(i)
    \/ \E n \in Totals : Create(i, n) \/ Update(i, n)
    \/ \E p \in Online : Allocate(i, p)
    \/ \E p \in Offline : Record(i, p)

RefundStep(p) ==
    \/ \E r \in Refunds : BeginRefund(p, r)
    \/ \E status \in RefundStatus : AskStripe(p, status)
    \/ EndRefund(p) \/ LoseRefund(p)

EventStep(r, status) ==
    \/ StripeSettles(r, status) \/ DashboardRefund(r, status) \/ Ignore(r, status)
    \/ \E d \in Deliveries : Receive(d, r, status)

Next ==
    \/ \E i \in Invoices : InvoiceStep(i)
    \/ \E p \in Offline : \E n \in 1..Amount[p] : Reverse(p, n)
    \/ \E p \in Online : RefundStep(p)
    \/ \E r \in Refunds, status \in RefundStatus : EventStep(r, status)
    \/ \E d \in Deliveries : Write(d) \/ Commit(d) \/ Abandon(d)

Spec == Init /\ [][Next]_vars

\* A call for r may come: an event of it waits to be answered.
Awaited(r) == \E d \in Deliveries, status \in RefundStatus : ENABLED Receive(d, r, status)

\* Requests and calls end; Stripe repeats an event until a call returns, and the
\* calls do not fail every time, though they wait for locks.
Fairness ==
    /\ \A p \in Online : WF_vars(LoseRefund(p))
    /\ \A d \in Deliveries : WF_vars(Abandon(d))
    /\ \A r \in Refunds :
          []<>Awaited(r) => []<><<\E d \in Deliveries : call[d].refund = r /\ Commit(d)>>_vars

FairSpec == Spec /\ Fairness

-----------------------------------------------------------------------------
(* Properties.                                                             *)

\* The customer's money the business still has of a payment.
Kept(p) == Amount[p] - IF p \in Online
                       THEN Sum({r \in RefundsOf(p) : Said(r, "SUCCEEDED")})
                       ELSE reversed[p]

Held(i) == SumFunctionOnSet([p \in Payments |-> Kept(p)], AllocatedTo(i))

Books == INSTANCE Receivables WITH document <- invoice, held <- [i \in Invoices |-> Held(i)]

\* Staff allocating, recording, reversing and voiding, the owner and Stripe's
\* dashboard refunding, and the webhook reporting out of order: each invoice keeps
\* the promise of a receivable, counted in the money that really moved.
ImplementsReceivables == Books!ReceivableSpec

\* However allocations, voids, refunds and late events race, the money held for
\* an invoice never exceeds what it asks for, and none is held for a void one:
\* what its payments brought in was given back before, whatever the rows said.
HeldWithinTotal ==
    \A i \in Invoices :
        /\ Held(i) <= invoice[i].total
        /\ invoice[i].status = "VOID" => Held(i) = 0

\* REFUNDED, which nothing takes back and which frees an invoice of the payment
\* whatever its refunds say, is said only when Stripe gave everything back.
RefundedIsGone == \A p \in Online : payment[p] = "REFUNDED" => Kept(p) = 0

\* The books and the money agree: what an invoice holds was paid in and is still
\* there, and what the rows call gone is gone.
MoneyAccounted == HeldWithinTotal /\ RefundedIsGone

\* A refund that Stripe made gets its row, also if the owner's request died after
\* Stripe had acted or the owner used Stripe's dashboard.
RefundReachesTheBooks == \A r \in Refunds : Made(r) ~> row[r] # "ABSENT"

\* "No overpayment" (universal-invoicing.md), in what the platform itself reports:
\* the paid amount of an invoice stays within its total.
NoOverpayment == \A i \in Invoices : Paid(i) <= invoice[i].total
=============================================================================
