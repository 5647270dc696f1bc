-------------------------- MODULE BookingPayments --------------------------
(***************************************************************************)
(* Payments of appointments made on the public page: Stripe's checkout     *)
(* sessions, the attempts that mirror them, the webhook that carries one   *)
(* to the other, the checkout at the till, refunds, and the staff and      *)
(* customers who change the same appointments meanwhile.                   *)
(*                                                                         *)
(* A transaction that locks the appointment before it reads is one action. *)
(* The webhook reads the attempt without a lock and, of a session that     *)
(* expired, the appointment too: it is a step per read.                    *)
(***************************************************************************)
EXTENDS FiniteSets

CONSTANTS
    Appts,       \* appointments whose payment is due when they are booked
    Sessions,    \* Stripe checkout sessions
    Tills,       \* checkouts at the point of sale
    Deliveries,  \* calls of the webhook route that may run at once
    Desk,        \* requests of staff
    NoAppt, NoSession

ASSUME PaymentsAssumption ==
    /\ NoAppt \notin Appts
    /\ NoSession \notin Sessions
    /\ Sessions \cap Tills = {}

VARIABLES
    appt,        \* [Appts -> ApptRow]: the appointments table
    session,     \* [Sessions -> Session]: what Stripe holds
    attempt,     \* [Sessions -> AttemptStatus]: stripe_payment_attempts
    processed,   \* the sessions whose final event is marked PROCESSED
    payment,     \* [Payments -> PaymentRow]: checkout_transactions
    call,        \* [Deliveries -> Call]: how far each webhook call has come
    desk         \* [Desk -> Request]: the status each request will write

vars == <<appt, session, attempt, processed, payment, call, desk>>

Payments == Sessions \cup Tills

\* Checked in, in service and awaiting payment count as CONFIRMED, a no-show as
\* CANCELLED: no statement here tells them apart.
ApptStatus == {"PENDING", "CONFIRMED", "CANCELLED", "COMPLETED"}

\* paid is appointments.payment_status.
ApptRow == [status: ApptStatus, paid: {"PENDING", "SUCCEEDED", "FullyPaid", "REFUNDED"}]

\* created: the session exists but its row is not inserted, so that its URL has
\* not reached the customer; processing: completed, the bank has not answered.
Session == [state: {"none", "created", "open", "processing", "paid", "failed", "expired"},
            appt: Appts \cup {NoAppt}]

AttemptStatus == {"ABSENT", "OPEN", "SUCCEEDED", "FAILED", "EXPIRED", "CANCELLED"}

PaymentRow == [status: {"ABSENT", "SUCCEEDED", "REFUNDED"}, appt: Appts \cup {NoAppt}]

\* pending: the appointment was PENDING when the call looked at it.
Call == [step: {"idle", "read", "seen"},
         session: Sessions \cup {NoSession}, pending: BOOLEAN]

IdleCall == [step |-> "idle", session |-> NoSession, pending |-> FALSE]

Request == [appt: Appts \cup {NoAppt}, status: ApptStatus]

NoRequest == [appt |-> NoAppt, status |-> "PENDING"]

\* Rows, sessions, calls and requests are well formed.
TypeOK ==
    /\ appt \in [Appts -> ApptRow]
    /\ session \in [Sessions -> Session]
    /\ attempt \in [Sessions -> AttemptStatus]
    /\ processed \in SUBSET Sessions
    /\ payment \in [Payments -> PaymentRow]
    /\ call \in [Deliveries -> Call]
    /\ desk \in [Desk -> Request]

\* The appointments have been booked, with payment required.
Init ==
    /\ appt = [a \in Appts |-> [status |-> "PENDING", paid |-> "PENDING"]]
    /\ session = [s \in Sessions |-> [state |-> "none", appt |-> NoAppt]]
    /\ attempt = [s \in Sessions |-> "ABSENT"]
    /\ processed = {}
    /\ payment = [p \in Payments |-> [status |-> "ABSENT", appt |-> NoAppt]]
    /\ call = [d \in Deliveries |-> IdleCall]
    /\ desk = [k \in Desk |-> NoRequest]

-----------------------------------------------------------------------------
(* Opening a session.                                                      *)

\* The booking route opens the first one without looking at the row it has
\* just inserted, which others may have changed by then.
First(a) == \A s \in Sessions : session[s].appt # a

\* What the retry route asks of the row it read.
MayRetry(a) == /\ appt[a].status \in {"PENDING", "CONFIRMED"}
               /\ appt[a].paid # "SUCCEEDED"

\* createBookingPaymentSession, as far as Stripe's answer.
CreateSession(s, a) ==
    /\ session[s].state = "none"
    /\ First(a) \/ MayRetry(a)
    /\ session' = [session EXCEPT ![s] = [state |-> "created", appt |-> a]]
    /\ UNCHANGED <<appt, attempt, processed, payment, call, desk>>

\* createPaymentAttempt.  It may never happen: then nobody has the URL.
RecordSession(s) ==
    /\ session[s].state = "created"
    /\ session' = [session EXCEPT ![s].state = "open"]
    /\ attempt' = [attempt EXCEPT ![s] = "OPEN"]
    /\ UNCHANGED <<appt, processed, payment, call, desk>>

-----------------------------------------------------------------------------
(* Stripe.  It does not know what became of the appointment.               *)

SessionBecomes(s, from, to) ==
    /\ session[s].state \in from
    /\ session' = [session EXCEPT ![s].state = to]
    /\ UNCHANGED <<appt, attempt, processed, payment, call, desk>>

CustomerPays(s)    == SessionBecomes(s, {"open"}, "paid")
CustomerDefers(s)  == SessionBecomes(s, {"open"}, "processing")
BankPays(s)        == SessionBecomes(s, {"processing"}, "paid")
BankRefuses(s)     == SessionBecomes(s, {"processing"}, "failed")
SessionExpires(s)  == SessionBecomes(s, {"created", "open"}, "expired")

-----------------------------------------------------------------------------
(* The webhook.                                                            *)

\* Mutant: a completed session counts as paid.
Captured_Completed(s) == session[s].state \in {"processing", "paid"}

\* completed with payment_status paid, or async_payment_succeeded.
Captured(s) == session[s].state = "paid"

\* A session has one event that the code acts on, that of its final state.
Ended(s) == Captured(s) \/ session[s].state \in {"failed", "expired"}

\* The attempts an event can still change.
Unsettled == {"OPEN", "FAILED"}

\* The call returns.  The event row is marked PROCESSED after the transaction has
\* committed, if the process lives.
Return(d) ==
    /\ call' = [call EXCEPT ![d] = IdleCall]
    /\ processed' \in {processed, processed \cup {call[d].session}}

\* Stripe calls until it is told PROCESSED, also while a call is under way.  The
\* event row it finds or inserts, and the attempt it reads, are not locked.
Receive(d, s) ==
    /\ call[d].step = "idle"
    /\ Ended(s)
    /\ s \notin processed
    /\ attempt[s] \in Unsettled
    /\ call' = [call EXCEPT ![d] = [IdleCall EXCEPT !.step = "read", !.session = s]]
    /\ UNCHANGED <<appt, session, attempt, processed, payment, desk>>

\* An event that finds no attempt, or a settled one, is done with.
Dismiss(s) ==
    /\ Ended(s)
    /\ attempt[s] \notin Unsettled
    /\ processed' = processed \cup {s}
    /\ UNCHANGED <<appt, session, attempt, payment, call, desk>>

Handles(d, step, state) == /\ call[d].step = step
                           /\ session[call[d].session].state = state

\* checkout.session.async_payment_failed.
HandleFailed(d) ==
    /\ Handles(d, "read", "failed")
    /\ attempt' = [attempt EXCEPT ![call[d].session] = "FAILED"]
    /\ Return(d)
    /\ UNCHANGED <<appt, session, payment, desk>>

\* checkout.session.expired: it looks at the appointment ...
SeeAppointment(d) ==
    /\ Handles(d, "read", "expired")
    /\ call' = [call EXCEPT ![d].step = "seen",
                   ![d].pending = appt[session[call[d].session].appt].status = "PENDING"]
    /\ UNCHANGED <<appt, session, attempt, processed, payment, desk>>

\* Mutant: the appointment gets the status of its attempt.
Released_Expired(a) == [appt EXCEPT ![a].status = "EXPIRED"]

Released(a) == [appt EXCEPT ![a].status = "CANCELLED"]

\* ... and cancels what it saw PENDING, whatever it is by now.
HandleExpired(d) ==
    LET s == call[d].session
        a == session[s].appt
    IN  /\ Handles(d, "seen", "expired")
        /\ attempt' = [attempt EXCEPT ![s] = "EXPIRED"]
        /\ appt' = IF call[d].pending THEN Released(a) ELSE appt
        /\ Return(d)
        /\ UNCHANGED <<session, payment, desk>>

\* Mutant: whatever is not final is confirmed.
Confirmable_Live(a) == appt[a].status \in {"PENDING", "CONFIRMED"}

\* Mutant: a cancelled booking is confirmed too.
Confirmable_Cancelled(a) == appt[a].status \in {"PENDING", "CANCELLED"}

\* What the webhook asks under the appointment's lock.
Confirmable(a) == appt[a].status = "PENDING"

\* A payment that comes late: nothing but the attempt changes.
HandleLate(d) ==
    LET s == call[d].session IN
    /\ call[d].step = "read" /\ Captured(s)
    /\ ~Confirmable(session[s].appt)
    /\ attempt' = [attempt EXCEPT ![s] = "CANCELLED"]
    /\ Return(d)
    /\ UNCHANGED <<appt, session, payment, desk>>

\* Mutant: the appointment is confirmed and its payment_status stays.
PaidOnline_StatusOnly(a) == [appt EXCEPT ![a].status = "CONFIRMED"]

PaidOnline(a) == [appt EXCEPT ![a] = [status |-> "CONFIRMED", paid |-> "SUCCEEDED"]]

\* The attempt, the appointment and the payment in one transaction.
HandlePaid(d) ==
    LET s == call[d].session
        a == session[s].appt
    IN  /\ call[d].step = "read" /\ Captured(s)
        /\ Confirmable(a)
        /\ attempt' = [attempt EXCEPT ![s] = "SUCCEEDED"]
        /\ appt' = PaidOnline(a)
        /\ payment' = [payment EXCEPT ![s] = [status |-> "SUCCEEDED", appt |-> a]]
        /\ Return(d)
        /\ UNCHANGED <<session, desk>>

\* Mutant: Stripe is told that all is well.
Abandon_Acknowledged(d) ==
    /\ call[d].step # "idle"
    /\ processed' = processed \cup {call[d].session}
    /\ call' = [call EXCEPT ![d] = IdleCall]
    /\ UNCHANGED <<appt, session, attempt, payment, desk>>

\* A statement fails, PostgreSQL breaks a deadlock, the process dies.
Abandon(d) ==
    /\ call[d].step # "idle"
    /\ call' = [call EXCEPT ![d] = IdleCall]
    /\ UNCHANGED <<appt, session, attempt, processed, payment, desk>>

-----------------------------------------------------------------------------
(* The customer, staff, the till and refunds.                              *)

\* CustomerBookingManagementService.cancel.  The sessions stay open at Stripe.
CustomerCancel(a) ==
    /\ appt[a].status \in {"PENDING", "CONFIRMED"}
    /\ appt' = [appt EXCEPT ![a].status = "CANCELLED"]
    /\ attempt' = [s \in Sessions |-> IF session[s].appt = a /\ attempt[s] = "OPEN"
                                      THEN "CANCELLED" ELSE attempt[s]]
    /\ UNCHANGED <<session, processed, payment, call, desk>>

\* canUpdateBookingStatus and canCancelBooking.
MaySetStatus(from, to) ==
    \/ from = "PENDING" /\ to \in {"CONFIRMED", "CANCELLED"}
    \/ from = "CONFIRMED" /\ to \in {"CONFIRMED", "CANCELLED", "COMPLETED"}
    \/ from = "CANCELLED" /\ to = "CANCELLED"

\* updateBookingStatus and cancelBooking read without a lock ...
ReadStatus(k, a, to) ==
    /\ desk[k] = NoRequest
    /\ MaySetStatus(appt[a].status, to)
    /\ desk' = [desk EXCEPT ![k] = [appt |-> a, status |-> to]]
    /\ UNCHANGED <<appt, session, attempt, processed, payment, call>>

\* ... and write whatever the appointment has become.
WriteStatus(k) ==
    /\ desk[k] # NoRequest
    /\ appt' = [appt EXCEPT ![desk[k].appt].status = desk[k].status]
    /\ desk' = [desk EXCEPT ![k] = NoRequest]
    /\ UNCHANGED <<session, attempt, processed, payment, call>>

\* Mutant: the till looks at its own payments only.
Unpaid_AtTill(a) == \A p \in Tills : payment[p] # [status |-> "SUCCEEDED", appt |-> a]

\* No payment of the appointment stands.
Unpaid(a) == \A p \in Payments : payment[p] # [status |-> "SUCCEEDED", appt |-> a]

\* completeCheckout, under the appointment's lock.
TillCheckout(p, a) ==
    /\ payment[p].status = "ABSENT"
    /\ appt[a].status # "CANCELLED"
    /\ Unpaid(a)
    /\ payment' = [payment EXCEPT ![p] = [status |-> "SUCCEEDED", appt |-> a]]
    /\ appt' = [appt EXCEPT ![a] = [status |-> "COMPLETED", paid |-> "FullyPaid"]]
    /\ UNCHANGED <<session, attempt, processed, call, desk>>

\* createRefund of what was paid online, refunded at once and in full.
RefundAtOnce(s) ==
    /\ payment[s].status = "SUCCEEDED"
    /\ payment' = [payment EXCEPT ![s].status = "REFUNDED"]
    /\ UNCHANGED <<appt, session, attempt, processed, call, desk>>

\* The webhook of a refund that completes the sum, or of one more event of it.
RefundReported(p) ==
    /\ payment[p].status # "ABSENT"
    /\ payment' = [payment EXCEPT ![p].status = "REFUNDED"]
    /\ appt' = [appt EXCEPT ![payment[p].appt].paid = "REFUNDED"]
    /\ UNCHANGED <<session, attempt, processed, call, desk>>

-----------------------------------------------------------------------------
StripeStep(s) == \/ CustomerPays(s) \/ CustomerDefers(s)
                 \/ BankPays(s) \/ BankRefuses(s) \/ SessionExpires(s)

\* The steps that write, and commit.
Conclude(d) == HandleFailed(d) \/ HandleExpired(d) \/ HandleLate(d) \/ HandlePaid(d)

Next ==
    \/ \E s \in Sessions, a \in Appts : CreateSession(s, a)
    \/ \E s \in Sessions : RecordSession(s) \/ StripeStep(s) \/ Dismiss(s) \/ RefundAtOnce(s)
    \/ \E d \in Deliveries, s \in Sessions : Receive(d, s)
    \/ \E d \in Deliveries : SeeAppointment(d) \/ Conclude(d) \/ Abandon(d)
    \/ \E a \in Appts : CustomerCancel(a)
    \/ \E k \in Desk, a \in Appts, to \in ApptStatus : ReadStatus(k, a, to)
    \/ \E k \in Desk : WriteStatus(k)
    \/ \E p \in Tills, a \in Appts : TillCheckout(p, a)
    \/ \E p \in Payments : RefundReported(p)

Spec == Init /\ [][Next]_vars

\* Every call ends; Stripe calls again until it is answered, and the calls for a
\* session do not fail every time.
Fairness ==
    /\ \A d \in Deliveries : WF_vars(Abandon(d))
    /\ \A s \in Sessions :
          /\ SF_vars(\E d \in Deliveries : Receive(d, s))
          /\ SF_vars(\E d \in Deliveries : call[d].session = s /\ SeeAppointment(d))
          /\ SF_vars(\E d \in Deliveries : call[d].session = s /\ Conclude(d))

FairSpec == Spec /\ Fairness

-----------------------------------------------------------------------------
(* Properties.                                                             *)

Ledger == INSTANCE PaymentLedger WITH ledger <- payment

\* Webhooks run twice and at once, the till, retried sessions and refunds write
\* the payments of one appointment: together they keep a ledger in which a
\* payment is recorded once, beside no other that stands, and only ever refunded.
ImplementsLedger == Ledger!LedgerSpec

\* However many sessions a customer opens and pays, and whoever takes money at
\* the till, one payment of an appointment stands at most.
OnePaymentPerAppointment ==
    \A p, q \in Payments :
        payment[p].status = "SUCCEEDED" /\ payment[q].status = "SUCCEEDED"
        /\ payment[p].appt = payment[q].appt => p = q

\* An online payment is recorded only of a session that Stripe was paid for, and
\* an attempt says SUCCEEDED only if its payment is recorded, in whatever order
\* and however often its events are handled.
RecordedWasCaptured ==
    \A s \in Sessions :
        /\ payment[s].status # "ABSENT" =>
              session[s].state = "paid" /\ payment[s].appt = session[s].appt
        /\ attempt[s] = "SUCCEEDED" => payment[s].status # "ABSENT"

\* payment_status, by which the retry route refuses to open another session, is
\* PENDING exactly while no payment of the appointment was ever recorded, though
\* staff, customers and webhooks overwrite the row in between.
PaidFlagAgrees ==
    \A a \in Appts : appt[a].paid = "PENDING" <=> \A p \in Payments : payment[p].appt # a

\* Stripe's sessions, the attempts, the payments and the appointment's own flag,
\* four records that different transactions write, tell one story.
BooksAgree == RecordedWasCaptured /\ PaidFlagAgrees

\* A cancelled appointment is not brought back by the provider, however late its
\* event comes, and no payment of it is recorded; only staff can reopen it.
NoResurrection ==
    [][\A a \in Appts : appt[a].status = "CANCELLED" =>
          /\ appt'[a].status # "CANCELLED" => \E k \in Desk : WriteStatus(k)
          /\ \A p \in Payments : payment'[p].appt = a => payment[p].appt = a]_vars

\* The outcome of every session arrives in the end, though calls for it fail or die
\* at any step: its attempt is closed and, if it expired, no PENDING appointment
\* keeps the slot.
OutcomeArrives ==
    \A s \in Sessions :
        Ended(s) /\ attempt[s] = "OPEN" ~>
            /\ attempt[s] # "OPEN"
            /\ session[s].state = "expired" => appt[session[s].appt].status # "PENDING"

\* "If a late payment is captured after expiration, we must either re-book or
\* issue an automatic refund" (phase-5-3-payment-state-machine.md): once its event
\* is processed, a payment for an appointment that an earlier session's expiry
\* cancelled is at least on record.
LatePaymentHandled ==
    \A s \in processed, r \in Sessions :
        Captured(s) /\ attempt[r] = "EXPIRED" /\ session[r].appt = session[s].appt
        /\ appt[session[s].appt].status = "CANCELLED" => payment[s].status # "ABSENT"
=============================================================================
