--------------------------- MODULE InvoicesProof ---------------------------
(***************************************************************************)
(* Proofs about Invoices.  Nothing that staff do looks at the money: they  *)
(* look at rows, which late and reordered events fall behind or run past.  *)
(* The inductive invariant is what ties the two together: Stripe gives     *)
(* back no more than it captured, a row that says SUCCEEDED says what      *)
(* Stripe said, what a request or a call has summed up was given back, so  *)
(* that the rows of a payment never show less than what is left of it.     *)
(***************************************************************************)
EXTENDS Invoices, SumTheorems

-----------------------------------------------------------------------------
(* The inductive invariant.                                                *)

\* What Stripe has given back of p, and what it may have to.
Gone(p)       == Sum({r \in RefundsOf(p) : Said(r, "SUCCEEDED")})
Undertaken(p) == Sum({q \in RefundsOf(p) : Made(q) /\ ~Said(q, "FAILED")})

StripeIsHonest ==
    /\ \A r \in Refunds : ~(Said(r, "SUCCEEDED") /\ Said(r, "FAILED"))
    /\ \A p \in Online : Undertaken(p) <= Amount[p]

RowsAreTrue == \A r \in Refunds : row[r] # "ABSENT" => Said(r, row[r])

\* A request for r knows of refunds that were made, r not among them.
RequestsAreTrue ==
    \A p \in Online : request[p] # NoRequest =>
       /\ request[p].refund \in Refunds
       /\ RefundOf[request[p].refund] = p
       /\ request[p].answer # "ABSENT" => Said(request[p].refund, request[p].answer)
       /\ request[p].refunded <=
            Sum({r \in RefundsOf(p) \ {request[p].refund} : Said(r, "SUCCEEDED")})

CallsAreTrue ==
    \A d \in Deliveries : call[d].step # "idle" =>
       /\ call[d].refund \in Refunds
       /\ Said(call[d].refund, call[d].status)
       /\ call[d].step = "written" /\ call[d].full => Kept(RefundOf[call[d].refund]) = 0

OfflineIsTrue ==
    \A p \in Offline :
       /\ payment[p] # "REFUNDED"
       /\ reversed[p] <= Amount[p]
       /\ payment[p] = "ABSENT" => ~Allocated(p) /\ reversed[p] = 0

\* Payments are allocated only to invoices that were issued.
AllocationsStand ==
    \A p \in Payments : Allocated(p) => invoice[allocated[p]].status \in {"ISSUED", "VOID"}

\* What is known of the money, and what the invoices make of it.
Truth == /\ StripeIsHonest /\ RowsAreTrue /\ RequestsAreTrue /\ CallsAreTrue
         /\ OfflineIsTrue /\ RefundedIsGone

InOrder == AllocationsStand /\ HeldWithinTotal

IInv == TypeOK /\ Truth /\ InOrder

-----------------------------------------------------------------------------
(* Sums of refunds.                                                        *)

LEMMA RefundSum ==
  ASSUME NEW S \in SUBSET Refunds
  PROVE  /\ IsFiniteSet(S) /\ Sum(S) \in Nat
         /\ \A r \in S : RefundAmount[r] \in Nat
<1>1. IsFiniteSet(S) /\ \A r \in S : RefundAmount[r] \in Nat
  BY InvoicesAssumption, FS_Subset
<1> QED
  BY <1>1, SumType DEF Sum

LEMMA RefundSumGrows ==
  ASSUME NEW S \in SUBSET Refunds, NEW T \in SUBSET S
  PROVE  Sum(T) <= Sum(S)
BY RefundSum, SumSubset DEF Sum

LEMMA RefundSumAdds ==
  ASSUME NEW S \in SUBSET Refunds, NEW r \in Refunds, r \notin S
  PROVE  Sum(S \cup {r}) = Sum(S) + RefundAmount[r]
<1>1. IsFiniteSet(S) /\ \A q \in S \cup {r} : RefundAmount[q] \in Nat
  BY RefundSum, InvoicesAssumption
<1> QED
  BY <1>1, SumAdd DEF Sum

LEMMA Amounts ==
  /\ \A p \in Payments : Amount[p] \in Nat /\ Amount[p] > 0
  /\ \A r \in Refunds : RefundAmount[r] \in Nat /\ RefundAmount[r] > 0 /\ RefundOf[r] \in Online
  /\ \A p \in Payments : p \in Online <=> p \notin Offline
  /\ IsFiniteSet(Payments)
<1>1. IsFiniteSet(Payments)
  BY InvoicesAssumption, FS_Union DEF Payments
<1> QED
  BY <1>1, InvoicesAssumption DEF Payments

\* What Stripe gave back it had undertaken to.
LEMMA GoneIsUndertaken ==
  StripeIsHonest => \A p \in Online : Gone(p) \in Nat /\ Gone(p) <= Amount[p]
<1> SUFFICES ASSUME StripeIsHonest, NEW p \in Online PROVE Gone(p) \in Nat /\ Gone(p) <= Amount[p]
  OBVIOUS
<1> DEFINE S == {q \in RefundsOf(p) : Made(q) /\ ~Said(q, "FAILED")}
           T == {q \in RefundsOf(p) : Said(q, "SUCCEEDED")}
<1>1. S \in SUBSET Refunds /\ T \in SUBSET S
  BY DEF StripeIsHonest, RefundsOf, Made, RefundStatus
<1>2. Sum(S) <= Amount[p]
  BY DEF StripeIsHonest, Undertaken
<1> HIDE DEF S, T
<1>3. Sum(T) <= Sum(S) /\ Sum(S) \in Nat /\ Sum(T) \in Nat
  BY <1>1, RefundSum, RefundSumGrows
<1>4. Amount[p] \in Nat
  BY Amounts DEF Payments
<1> QED
  BY <1>2, <1>3, <1>4 DEF Gone, T

\* What is left of a payment is a part of it.
PartsKept == \A p \in Payments : Kept(p) \in Nat /\ Kept(p) <= Amount[p]

LEMMA KeptIsPart == TypeOK /\ StripeIsHonest /\ OfflineIsTrue => PartsKept
<1> SUFFICES ASSUME TypeOK, StripeIsHonest, OfflineIsTrue, NEW p \in Payments
             PROVE  Kept(p) \in Nat /\ Kept(p) <= Amount[p]
  BY DEF PartsKept
<1>1. Amount[p] \in Nat
  BY Amounts
<1>2. CASE p \in Online
  <2>1. Kept(p) = Amount[p] - Gone(p)
    BY <1>2 DEF Kept, Gone
  <2> QED
    BY <1>1, <1>2, <2>1, GoneIsUndertaken
<1>3. CASE p \in Offline
  <2>1. Kept(p) = Amount[p] - reversed[p]
    BY <1>3, Amounts DEF Kept
  <2>2. reversed[p] \in Nat /\ reversed[p] <= Amount[p]
    BY <1>3 DEF TypeOK, OfflineIsTrue
  <2> QED
    BY <1>1, <2>1, <2>2
<1> QED
  BY <1>2, <1>3 DEF Payments

LEMMA KeptIsPartAfter == TypeOK' /\ StripeIsHonest' /\ OfflineIsTrue' => PartsKept'
BY KeptIsPart, PTL

\* The rows show at least what is left.
LEMMA NetCoversKept ==
  TypeOK /\ Truth => \A p \in Payments : Net(p) \in Nat /\ Kept(p) <= Net(p)
<1> SUFFICES ASSUME TypeOK, Truth, NEW p \in Payments
             PROVE  Net(p) \in Nat /\ Kept(p) <= Net(p)
  OBVIOUS
<1>1. Kept(p) \in Nat /\ Amount[p] \in Nat
  BY KeptIsPart, Amounts DEF Truth, PartsKept
<1>2. CASE p \in Online
  <2> DEFINE S == {r \in RefundsOf(p) : Said(r, "SUCCEEDED")}
             T == {r \in RefundsOf(p) : row[r] = "SUCCEEDED"}
  <2>1. S \in SUBSET Refunds /\ T \in SUBSET S
    BY DEF Truth, RowsAreTrue, RefundsOf
  <2>2. Kept(p) = Amount[p] - Sum(S) /\ GivenBack(p) = Sum(T)
    BY <1>2 DEF Kept, GivenBack, Refunded
  <2> HIDE DEF S, T
  <2>3. Sum(T) <= Sum(S) /\ Sum(S) \in Nat /\ Sum(T) \in Nat
    BY <2>1, RefundSum, RefundSumGrows
  <2>4. CASE payment[p] = "REFUNDED"
    <3>1. Kept(p) = 0
      BY <1>2, <2>4 DEF Truth, RefundedIsGone
    <3> QED
      BY <2>4, <3>1 DEF Net
  <2>5. CASE payment[p] # "REFUNDED"
    BY <1>1, <2>2, <2>3, <2>5 DEF Net
  <2> QED
    BY <2>4, <2>5
<1>3. CASE p \in Offline
  <2>1. Kept(p) = Amount[p] - reversed[p] /\ GivenBack(p) = reversed[p]
    BY <1>3, Amounts DEF Kept, GivenBack
  <2>2. reversed[p] \in Nat /\ reversed[p] <= Amount[p] /\ payment[p] # "REFUNDED"
    BY <1>3 DEF TypeOK, Truth, OfflineIsTrue
  <2> QED
    BY <1>1, <2>1, <2>2 DEF Net
<1> QED
  BY <1>2, <1>3 DEF Payments

-----------------------------------------------------------------------------
(* What an invoice holds.                                                  *)

LEMMA Sets ==
  \A i \in Invoices : AllocatedTo(i) \in SUBSET Payments /\ IsFiniteSet(AllocatedTo(i))
BY Amounts, FS_Subset DEF AllocatedTo

LEMMA HeldIsNumber ==
  PartsKept => \A i \in Invoices :
                  /\ Held(i) \in Nat
                  /\ \A p \in AllocatedTo(i) : Kept(p) <= Held(i)
<1> SUFFICES ASSUME PartsKept, NEW i \in Invoices
             PROVE  /\ Held(i) \in Nat
                    /\ \A p \in AllocatedTo(i) : Kept(p) <= Held(i)
  OBVIOUS
<1> DEFINE K == [p \in Payments |-> Kept(p)]
           S == AllocatedTo(i)
<1>1. \A p \in Payments : K[p] = Kept(p) /\ K[p] \in Nat
  BY DEF PartsKept
<1>2. Held(i) = SumFunctionOnSet(K, S)
  BY DEF Held
<1>3. S \in SUBSET Payments /\ IsFiniteSet(S)
  BY Sets
<1> HIDE DEF K, S
<1>4. SumFunctionOnSet(K, S) \in Nat
  BY <1>1, <1>3, SumType
<1>5. ASSUME NEW p \in S PROVE Kept(p) <= Held(i)
  <2>1. SumFunctionOnSet(K, S) = K[p] + SumFunctionOnSet(K, S \ {p})
    BY <1>1, <1>3, SumRemove
  <2>2. IsFiniteSet(S \ {p})
    BY <1>3, FS_Subset
  <2>3. SumFunctionOnSet(K, S \ {p}) \in Nat
    BY <1>1, <1>3, <2>2, SumType
  <2> QED
    BY <1>1, <1>2, <1>3, <2>1, <2>3
<1> QED
  BY <1>2, <1>4, <1>5 DEF S

\* The rows of an invoice's payments show at least what it holds.
LEMMA PaidCoversHeld ==
  TypeOK /\ Truth => \A i \in Invoices : Paid(i) \in Nat /\ Held(i) <= Paid(i)
<1> SUFFICES ASSUME TypeOK, Truth, NEW i \in Invoices
             PROVE  Paid(i) \in Nat /\ Held(i) <= Paid(i)
  OBVIOUS
<1> DEFINE K == [p \in Payments |-> Kept(p)]
           N == [p \in Payments |-> Net(p)]
           S == AllocatedTo(i)
<1>1. \A p \in Payments : K[p] \in Nat /\ N[p] \in Nat /\ K[p] <= N[p]
  BY KeptIsPart, NetCoversKept DEF PartsKept, Truth
<1>2. Held(i) = SumFunctionOnSet(K, S) /\ Paid(i) = SumFunctionOnSet(N, S)
  BY DEF Held, Paid
<1>3. S \in SUBSET Payments /\ IsFiniteSet(S)
  BY Sets
<1> HIDE DEF K, N, S
<1>4. SumFunctionOnSet(N, S) \in Nat
  BY <1>1, <1>3, SumType
<1>5. SumFunctionOnSet(K, S) <= SumFunctionOnSet(N, S)
  BY <1>1, <1>3, SumPointwise
<1> QED
  BY <1>2, <1>4, <1>5

-----------------------------------------------------------------------------
(* What a step does to the invoices, their payments and the money.         *)

SameMoney == \A p \in Payments : Kept(p)' = Kept(p)

Quiet == SameMoney /\ UNCHANGED <<invoice, allocated>>

Written(i, doc) ==
    /\ invoice' = [invoice EXCEPT ![i] = doc]
    /\ \/ invoice[i].status \in {"ABSENT", "DRAFT"} /\ doc.status = "DRAFT" /\ doc.total \in Totals
       \/ invoice[i].status = "DRAFT" /\ doc = [invoice[i] EXCEPT !.status = "ISSUED"]
       \/ /\ invoice[i].status \in {"DRAFT", "ISSUED"} /\ Held(i) = 0
          /\ doc = [invoice[i] EXCEPT !.status = "VOID"]
    /\ SameMoney
    /\ UNCHANGED allocated

Taken(i, p) ==
    /\ invoice[i].status = "ISSUED" /\ ~Allocated(p)
    /\ Held(i) + Kept(p) <= invoice[i].total
    /\ allocated' = [allocated EXCEPT ![p] = i]
    /\ SameMoney
    /\ UNCHANGED invoice

Returned(p, n) ==
    /\ Kept(p)' = Kept(p) - n
    /\ \A q \in Payments : q # p => Kept(q)' = Kept(q)
    /\ UNCHANGED <<invoice, allocated>>

Effect ==
    \/ Quiet
    \/ \E i \in Invoices, doc \in Invoice : Written(i, doc)
    \/ \E i \in Invoices, p \in Payments : Taken(i, p)
    \/ \E p \in Payments, n \in Nat \ {0} : Returned(p, n)

LEMMA MoneyStays == UNCHANGED <<reversed, sent>> => SameMoney
BY DEF SameMoney, Kept, Said

LEMMA HeldStays ==
  ASSUME PartsKept, SameMoney, UNCHANGED allocated, NEW i \in Invoices
  PROVE  Held(i)' = Held(i)
<1> DEFINE K == [p \in Payments |-> Kept(p)]
           L == [p \in Payments |-> Kept(p)']
           S == AllocatedTo(i)
<1>1. \A p \in S : K[p] \in Nat /\ K[p] = L[p]
  BY DEF SameMoney, PartsKept, AllocatedTo
<1>2. Held(i) = SumFunctionOnSet(K, S) /\ Held(i)' = SumFunctionOnSet(L, S)
  BY DEF Held, AllocatedTo
<1>3. IsFiniteSet(S)
  BY Sets
<1> HIDE DEF K, L, S
<1> QED
  BY <1>1, <1>2, <1>3, SumSame

LEMMA HeldTakes ==
  ASSUME TypeOK, PartsKept, NEW i \in Invoices, NEW p \in Payments, Taken(i, p),
         NEW j \in Invoices
  PROVE  Held(j)' = IF j = i THEN Held(i) + Kept(p) ELSE Held(j)
<1> DEFINE K == [q \in Payments |-> Kept(q)]
           L == [q \in Payments |-> Kept(q)']
           S == AllocatedTo(j)
           T == AllocatedTo(j)'
<1>1. \A q \in Payments : K[q] \in Nat /\ K[q] = L[q]
  BY DEF SameMoney, PartsKept, Taken
<1>2. Held(j) = SumFunctionOnSet(K, S) /\ Held(j)' = SumFunctionOnSet(L, T)
  BY DEF Held
<1>3. S \in SUBSET Payments /\ IsFiniteSet(S)
  BY Sets
<1>4. T = IF j = i THEN S \cup {p} ELSE S
  BY InvoicesAssumption DEF Taken, Allocated, AllocatedTo, TypeOK
<1>5. p \notin S
  BY InvoicesAssumption DEF Taken, Allocated, AllocatedTo
<1>6. K[p] = Kept(p)
  OBVIOUS
<1> HIDE DEF K, L, S, T
<1>7. IsFiniteSet(T) /\ T \in SUBSET Payments
  BY <1>3, <1>4, FS_AddElement
<1>8. SumFunctionOnSet(L, T) = SumFunctionOnSet(K, T)
  BY <1>1, <1>7, SumSame
<1>9. CASE j = i
  <2>1. SumFunctionOnSet(K, S \cup {p}) = SumFunctionOnSet(K, S) + K[p]
    BY <1>1, <1>3, <1>5, SumAdd
  <2> QED
    BY <1>2, <1>4, <1>6, <1>8, <1>9, <2>1
<1>10. CASE j # i
  BY <1>2, <1>4, <1>8, <1>10
<1> QED
  BY <1>9, <1>10

LEMMA HeldReturns ==
  ASSUME TypeOK, PartsKept, PartsKept', NEW p \in Payments, NEW n \in Nat, Returned(p, n),
         NEW j \in Invoices
  PROVE  Held(j)' = IF allocated[p] = j THEN Held(j) - n ELSE Held(j)
<1> DEFINE K == [q \in Payments |-> Kept(q)]
           L == [q \in Payments |-> Kept(q)']
           S == AllocatedTo(j)
<1>1. \A q \in Payments : K[q] \in Nat /\ L[q] \in Nat /\ (q # p => K[q] = L[q])
  BY DEF PartsKept, Returned
<1>2. Held(j) = SumFunctionOnSet(K, S) /\ Held(j)' = SumFunctionOnSet(L, S)
  BY DEF Held, AllocatedTo, Returned
<1>3. S \in SUBSET Payments /\ IsFiniteSet(S)
  BY Sets
<1>4. K[p] = L[p] + n
  BY DEF PartsKept, Returned
<1>5. p \in S <=> allocated[p] = j
  BY DEF AllocatedTo
<1> HIDE DEF K, L, S
<1>6. SumFunctionOnSet(K, S) \in Nat
  BY <1>1, <1>3, SumType
<1>7. CASE p \in S
  <2>1. SumFunctionOnSet(L, S) = SumFunctionOnSet(K, S) - K[p] + L[p]
    <3>1. \A y \in S : K[y] \in Nat /\ L[y] \in Nat
      BY <1>1, <1>3
    <3>2. \A y \in S : y # p => K[y] = L[y]
      BY <1>1, <1>3
    <3> QED
      BY <1>3, <1>7, <3>1, <3>2, SumOneChanges
  <2>2. K[p] \in Nat /\ L[p] \in Nat
    BY <1>1
  <2> QED
    BY <1>2, <1>4, <1>5, <1>6, <1>7, <2>1, <2>2
<1>8. CASE p \notin S
  <2>1. \A y \in S : K[y] \in Nat /\ K[y] = L[y]
    BY <1>1, <1>3, <1>8
  <2>2. SumFunctionOnSet(K, S) = SumFunctionOnSet(L, S)
    BY <1>3, <2>1, SumSame
  <2> QED
    BY <1>2, <1>5, <1>8, <2>2
<1> QED
  BY <1>7, <1>8

LEMMA NothingHeldYet ==
  ASSUME AllocationsStand, NEW i \in Invoices, invoice[i].status \notin {"ISSUED", "VOID"}
  PROVE  Held(i) = 0
<1>1. AllocatedTo(i) = {}
  BY InvoicesAssumption DEF AllocationsStand, AllocatedTo, Allocated
<1> QED
  BY <1>1, SumEmpty DEF Held

LEMMA TotalIsNumber == TypeOK => \A i \in Invoices : invoice[i].total \in Nat
<1> SUFFICES ASSUME TypeOK, NEW i \in Invoices PROVE invoice[i].total \in Nat
  OBVIOUS
<1>1. Totals \cup {0} \subseteq Nat
  BY InvoicesAssumption
<1>2. invoice[i] \in Invoice
  BY DEF TypeOK
<1> QED
  BY <1>1, <1>2 DEF Invoice

HeldIsNatural == \A i \in Invoices : Held(i) \in Nat

LEMMA HeldIsNaturalAfter == PartsKept' => HeldIsNatural'
<1>1. PartsKept => HeldIsNatural
  BY HeldIsNumber DEF HeldIsNatural
<1> QED
  BY <1>1, PTL

LEMMA EffectKeepsOrder ==
  ASSUME TypeOK, PartsKept, PartsKept', InOrder, Effect
  PROVE  InOrder'
<1> USE DEF InOrder
<1>1. \A i \in Invoices : Held(i) \in Nat /\ invoice[i].total \in Nat
  BY TotalIsNumber, HeldIsNumber
<1>2. CASE Quiet
  <2>1. \A i \in Invoices : Held(i)' = Held(i)
    BY <1>2, HeldStays DEF Quiet
  <2> QED
    BY <1>2, <2>1 DEF Quiet, AllocationsStand, HeldWithinTotal, Allocated
<1>3. ASSUME NEW i \in Invoices, NEW doc \in Invoice, Written(i, doc) PROVE InOrder'
  <2>1. \A j \in Invoices : Held(j)' = Held(j)
    BY <1>3, HeldStays DEF Written
  <2>2. \A j \in Invoices : invoice'[j] = IF j = i THEN doc ELSE invoice[j]
    BY <1>3 DEF Written, TypeOK
  <2>3. AllocationsStand'
    <3> SUFFICES ASSUME NEW p \in Payments, Allocated(p)'
                 PROVE  invoice'[allocated[p]].status \in {"ISSUED", "VOID"}
      BY <1>3 DEF AllocationsStand, Written
    <3>1. Allocated(p) /\ allocated[p] \in Invoices
      BY <1>3 DEF Written, Allocated, TypeOK
    <3>2. invoice[allocated[p]].status \in {"ISSUED", "VOID"}
      BY <3>1 DEF AllocationsStand
    <3>3. CASE allocated[p] = i
      <4>1. doc = [invoice[i] EXCEPT !.status = "VOID"]
        BY <1>3, <3>2, <3>3 DEF Written
      <4> QED
        BY <2>2, <3>3, <4>1 DEF TypeOK, Invoice
    <3> QED
      BY <2>2, <3>1, <3>2, <3>3
  <2>4. Held(i) <= doc.total /\ (doc.status = "VOID" => Held(i) = 0)
    <3>1. CASE invoice[i].status \in {"ABSENT", "DRAFT"} /\ doc.status = "DRAFT" /\ doc.total \in Totals
      <4>1. Held(i) = 0
        BY <3>1, NothingHeldYet
      <4>2. doc.total \in Nat
        BY <3>1, InvoicesAssumption
      <4> QED
        BY <3>1, <4>1, <4>2
    <3>2. CASE invoice[i].status = "DRAFT" /\ doc = [invoice[i] EXCEPT !.status = "ISSUED"]
      BY <3>2 DEF HeldWithinTotal, TypeOK, Invoice
    <3>3. CASE Held(i) = 0 /\ doc = [invoice[i] EXCEPT !.status = "VOID"]
      BY <3>3 DEF HeldWithinTotal, TypeOK, Invoice
    <3> QED
      BY <1>3, <3>1, <3>2, <3>3 DEF Written
  <2> QED
    BY <2>1, <2>2, <2>3, <2>4 DEF HeldWithinTotal
<1>4. ASSUME NEW i \in Invoices, NEW p \in Payments, Taken(i, p) PROVE InOrder'
  <2>1. \A j \in Invoices : Held(j)' = IF j = i THEN Held(i) + Kept(p) ELSE Held(j)
    BY <1>4, HeldTakes
  <2>2. AllocationsStand'
    BY <1>4 DEF AllocationsStand, Taken, Allocated, TypeOK
  <2> QED
    BY <1>4, <2>1, <2>2 DEF HeldWithinTotal, Taken
<1>5. ASSUME NEW p \in Payments, NEW n \in Nat \ {0}, Returned(p, n) PROVE InOrder'
  <2>1. \A j \in Invoices : Held(j)' = IF allocated[p] = j THEN Held(j) - n ELSE Held(j)
    BY <1>5, HeldReturns
  <2>2. \A j \in Invoices : Held(j)' \in Nat
    BY HeldIsNaturalAfter DEF HeldIsNatural
  <2> QED
    BY <1>1, <1>5, <2>1, <2>2 DEF HeldWithinTotal, Returned, AllocationsStand, Allocated
<1> QED
  BY <1>2, <1>3, <1>4, <1>5 DEF Effect

\* Each effect is a step of the receivables, or none.
LEMMA EffectRefines ==
  ASSUME TypeOK, PartsKept, PartsKept', InOrder, InOrder', Effect
  PROVE  [Books!ReceivableNext]_(Books!receivable)
<1>0. \A i \in Invoices : Held(i) \in Nat /\ invoice[i].total \in Nat
  BY TotalIsNumber, HeldIsNumber
<1> DEFINE H == [i \in Invoices |-> Held(i)]
           G == [i \in Invoices |-> Held(i)']
<1>1. CASE Quiet
  <2>1. \A i \in Invoices : Held(i)' = Held(i)
    BY <1>1, HeldStays DEF Quiet
  <2> QED
    BY <1>1, <2>1 DEF Quiet, Books!receivable
<1>2. ASSUME NEW i \in Invoices, NEW doc \in Invoice, Written(i, doc)
      PROVE  Books!ReceivableNext
  <2>1. H = G
    BY <1>2, HeldStays DEF Written
  <2>2. CASE invoice[i].status \in {"ABSENT", "DRAFT"} /\ doc.status = "DRAFT" /\ doc.total \in Totals
    <3>1. doc = [status |-> "DRAFT", total |-> doc.total]
      BY <2>2 DEF Invoice
    <3>2. Books!Draft(i, doc.total)
      BY <1>2, <2>1, <2>2, <3>1 DEF Written, Books!Draft
    <3> QED
      BY <2>2, <3>2 DEF Books!ReceivableNext
  <2>3. CASE invoice[i].status = "DRAFT" /\ doc = [invoice[i] EXCEPT !.status = "ISSUED"]
    <3>1. Books!BecomeIssued(i)
      BY <1>2, <2>1, <2>3 DEF Written, Books!BecomeIssued
    <3> QED
      BY <3>1 DEF Books!ReceivableNext
  <2>4. CASE /\ invoice[i].status \in {"DRAFT", "ISSUED"} /\ Held(i) = 0
             /\ doc = [invoice[i] EXCEPT !.status = "VOID"]
    <3>1. Books!BecomeVoid(i)
      BY <1>2, <2>1, <2>4 DEF Written, Books!BecomeVoid
    <3> QED
      BY <3>1 DEF Books!ReceivableNext
  <2> QED
    BY <1>2, <2>2, <2>3, <2>4 DEF Written
<1>3. ASSUME NEW i \in Invoices, NEW p \in Payments, Taken(i, p)
      PROVE  [Books!ReceivableNext]_(Books!receivable)
  <2>1. \A j \in Invoices : Held(j)' = IF j = i THEN Held(i) + Kept(p) ELSE Held(j)
    BY <1>3, HeldTakes
  <2>2. Kept(p) \in Nat
    BY DEF PartsKept
  <2>3. CASE Kept(p) = 0
    <3>1. H = G
      BY <1>0, <2>1, <2>3
    <3> QED
      BY <1>3, <3>1 DEF Taken, Books!receivable
  <2>4. CASE Kept(p) > 0
    <3>1. Kept(p) \in 1..invoice[i].total
      BY <1>0, <1>3, <2>2, <2>4 DEF Taken
    <3>2. G = [H EXCEPT ![i] = @ + Kept(p)]
      BY <2>1
    <3>3. Books!Take(i, Kept(p))
      BY <1>3, <3>2 DEF Taken, Books!Take
    <3> QED
      BY <3>1, <3>3 DEF Books!ReceivableNext
  <2> QED
    BY <2>2, <2>3, <2>4
<1>4. ASSUME NEW p \in Payments, NEW n \in Nat \ {0}, Returned(p, n)
      PROVE  [Books!ReceivableNext]_(Books!receivable)
  <2>1. \A j \in Invoices : Held(j)' = IF allocated[p] = j THEN Held(j) - n ELSE Held(j)
    BY <1>4, HeldReturns
  <2>2. CASE ~Allocated(p)
    <3>1. H = G
      BY <2>1, <2>2, InvoicesAssumption DEF Allocated
    <3> QED
      BY <1>4, <3>1 DEF Returned, Books!receivable
  <2>3. CASE Allocated(p)
    <3> DEFINE i == allocated[p]
    <3>1. i \in Invoices /\ p \in AllocatedTo(i)
      BY <2>3 DEF Allocated, TypeOK, AllocatedTo
    <3>2. n <= Kept(p) /\ Kept(p) <= Held(i) /\ Kept(p) \in Nat
      BY <1>4, <3>1, HeldIsNumber DEF PartsKept, Returned
    <3>3. Held(i) <= invoice[i].total
      BY <3>1 DEF InOrder, HeldWithinTotal
    <3>4. n <= Held(i) /\ n \in 1..invoice[i].total
      BY <1>0, <3>1, <3>2, <3>3
    <3>5. G = [H EXCEPT ![i] = @ - n]
      BY <2>1
    <3>6. Books!GiveBack(i, n)
      BY <1>4, <3>1, <3>4, <3>5 DEF Returned, Books!GiveBack
    <3> QED
      BY <3>1, <3>4, <3>6 DEF Books!ReceivableNext
  <2> QED
    BY <2>2, <2>3
<1> QED
  BY <1>1, <1>2, <1>3, <1>4 DEF Effect

-----------------------------------------------------------------------------
(* What is known stays known: events are never unsaid, and money that was  *)
(* given back does not return.                                             *)

KeptFalls == \A p \in Payments : Kept(p)' <= Kept(p)

LEMMA SameMoneyKeeps == ASSUME PartsKept, SameMoney PROVE PartsKept' /\ KeptFalls
BY DEF PartsKept, SameMoney, KeptFalls

LEMMA HonestyStands == ASSUME StripeIsHonest, UNCHANGED sent PROVE StripeIsHonest'
BY DEF StripeIsHonest, Undertaken, Made, Said

LEMMA RowsStand ==
  ASSUME RowsAreTrue, sent \subseteq sent', UNCHANGED row
  PROVE  RowsAreTrue'
BY DEF RowsAreTrue, Said

LEMMA RequestsStand ==
  ASSUME TypeOK, RequestsAreTrue, sent \subseteq sent',
         \A p \in Online : request'[p] \in {request[p], NoRequest}
  PROVE  RequestsAreTrue'
<1> SUFFICES ASSUME NEW p \in Online, request'[p] # NoRequest
             PROVE  /\ request[p].refund \in Refunds
                    /\ RefundOf[request[p].refund] = p
                    /\ request[p].answer # "ABSENT" => Said(request[p].refund, request[p].answer)'
                    /\ request[p].refunded <=
                         Sum({r \in RefundsOf(p) \ {request[p].refund} : Said(r, "SUCCEEDED")'})
  BY DEF RequestsAreTrue, Said
<1> DEFINE T == {r \in RefundsOf(p) \ {request[p].refund} : Said(r, "SUCCEEDED")}
           S == {r \in RefundsOf(p) \ {request[p].refund} : Said(r, "SUCCEEDED")'}
<1>1. request[p] # NoRequest /\ request[p].refunded \in Nat
  BY DEF TypeOK, Request
<1>2. request[p].refunded <= Sum(T)
  BY <1>1 DEF RequestsAreTrue
<1>3. S \in SUBSET Refunds /\ T \in SUBSET S
  BY DEF RefundsOf, Said
<1> HIDE DEF S, T
<1>4. Sum(T) <= Sum(S) /\ Sum(S) \in Nat /\ Sum(T) \in Nat
  BY <1>3, RefundSum, RefundSumGrows
<1>5. request[p].refunded <= Sum(S)
  BY <1>1, <1>2, <1>4
<1> QED
  BY <1>1, <1>5 DEF RequestsAreTrue, Said, S

LEMMA CallsStand ==
  ASSUME CallsAreTrue, PartsKept, PartsKept', KeptFalls, sent \subseteq sent',
         \A d \in Deliveries : call'[d] \in {call[d], IdleCall}
  PROVE  CallsAreTrue'
<1> SUFFICES ASSUME NEW d \in Deliveries, call'[d].step # "idle"
             PROVE  /\ call'[d].refund \in Refunds
                    /\ Said(call[d].refund, call[d].status)'
                    /\ call'[d].step = "written" /\ call'[d].full
                          => Kept(RefundOf[call[d].refund])' = 0
  BY DEF CallsAreTrue
<1>1. call'[d] = call[d] /\ call[d].step # "idle"
  BY DEF IdleCall
<1>2. call[d].refund \in Refunds /\ RefundOf[call[d].refund] \in Payments
  BY <1>1, Amounts DEF CallsAreTrue, Payments
<1>3. Said(call[d].refund, call[d].status)'
  BY <1>1 DEF CallsAreTrue, Said
<1>4. call[d].step = "written" /\ call[d].full => Kept(RefundOf[call[d].refund])' = 0
  BY <1>1, <1>2 DEF CallsAreTrue, PartsKept, KeptFalls
<1> QED
  BY <1>1, <1>2, <1>3, <1>4

LEMMA OfflineStands ==
  ASSUME OfflineIsTrue, UNCHANGED reversed,
         \A p \in Offline : payment'[p] = payment[p] /\ allocated'[p] = allocated[p]
  PROVE  OfflineIsTrue'
BY DEF OfflineIsTrue, Allocated

LEMMA GoneStands ==
  ASSUME RefundedIsGone, PartsKept, PartsKept', KeptFalls,
         \A p \in Online : payment'[p] = payment[p]
  PROVE  RefundedIsGone'
BY DEF RefundedIsGone, PartsKept, KeptFalls, Payments

\* A step that moves no money and writes nothing about refunds.
LEMMA TruthStands ==
  ASSUME TypeOK, Truth, OfflineIsTrue', UNCHANGED <<reversed, row, request, sent, call>>,
         \A p \in Online : payment'[p] = payment[p]
  PROVE  Truth' /\ SameMoney
<1>1. PartsKept /\ SameMoney
  BY KeptIsPart, MoneyStays DEF Truth
<1>2. PartsKept' /\ KeptFalls
  BY <1>1, SameMoneyKeeps
<1>3. StripeIsHonest' /\ RowsAreTrue' /\ RequestsAreTrue'
  BY HonestyStands, RowsStand, RequestsStand DEF Truth
<1>4. CallsAreTrue' /\ RefundedIsGone'
  BY <1>1, <1>2, CallsStand, GoneStands DEF Truth
<1> QED
  BY <1>1, <1>3, <1>4 DEF Truth

-----------------------------------------------------------------------------
(* Invoices and staff.                                                     *)

LEMMA WriteDraftEffect ==
  ASSUME TypeOK, Truth, NEW i \in Invoices, NEW n \in Totals, Create(i, n) \/ Update(i, n)
  PROVE  Truth' /\ Effect
<1> DEFINE doc == [status |-> "DRAFT", total |-> n]
<1> USE DEF Create, Update, WriteDraft
<1>1. OfflineIsTrue'
  BY OfflineStands DEF Truth
<1>2. Truth' /\ SameMoney
  BY <1>1, TruthStands
<1>3. doc \in Invoice /\ Written(i, doc)
  BY <1>2 DEF Written, Invoice
<1> QED
  BY <1>2, <1>3 DEF Effect

LEMMA IssueEffect ==
  ASSUME TypeOK, Truth, NEW i \in Invoices, Issue(i)
  PROVE  Truth' /\ Effect
<1> DEFINE doc == [invoice[i] EXCEPT !.status = "ISSUED"]
<1> USE DEF Issue
<1>1. OfflineIsTrue'
  BY OfflineStands DEF Truth
<1>2. Truth' /\ SameMoney
  BY <1>1, TruthStands
<1>3. doc \in Invoice /\ invoice' = [invoice EXCEPT ![i] = doc]
  BY DEF TypeOK, Invoice
<1>4. Written(i, doc)
  BY <1>2, <1>3 DEF Written
<1> QED
  BY <1>2, <1>3, <1>4 DEF Effect

LEMMA VoidEffect ==
  ASSUME TypeOK, Truth, NEW i \in Invoices, Void(i)
  PROVE  Truth' /\ Effect
<1> DEFINE doc == [invoice[i] EXCEPT !.status = "VOID"]
<1> USE DEF Void, Voidable
<1>1. OfflineIsTrue'
  BY OfflineStands DEF Truth
<1>2. Truth' /\ SameMoney
  BY <1>1, TruthStands
<1>3. doc \in Invoice /\ invoice' = [invoice EXCEPT ![i] = doc]
  BY DEF TypeOK, Invoice
<1>4. Held(i) = 0
  BY PaidCoversHeld, KeptIsPart, HeldIsNumber DEF Truth
<1>5. Written(i, doc)
  BY <1>2, <1>3, <1>4 DEF Written
<1> QED
  BY <1>2, <1>3, <1>5 DEF Effect

\* What staff find due is due: the rows show at least what the invoice holds.
LEMMA AllocateEffect ==
  ASSUME TypeOK, Truth, NEW i \in Invoices, NEW p \in Online, Allocate(i, p)
  PROVE  Truth' /\ Effect
<1> USE DEF Allocate
<1>0. p \in Payments /\ p \notin Offline
  BY Amounts DEF Payments
<1>1. OfflineIsTrue'
  BY <1>0, OfflineStands DEF Truth, TypeOK, Payments
<1>2. Truth' /\ SameMoney
  BY <1>1, TruthStands
<1>3. Kept(p) \in Nat /\ Net(p) \in Nat /\ Kept(p) <= Net(p)
  BY <1>0, KeptIsPart, NetCoversKept DEF Truth, PartsKept
<1>4. Held(i) \in Nat /\ Paid(i) \in Nat /\ Held(i) <= Paid(i) /\ invoice[i].total \in Nat
  BY PaidCoversHeld, KeptIsPart, HeldIsNumber, TotalIsNumber DEF Truth
<1>5. Held(i) + Kept(p) <= invoice[i].total
  BY <1>3, <1>4 DEF Due
<1>6. Taken(i, p)
  BY <1>2, <1>5 DEF Taken
<1> QED
  BY <1>0, <1>2, <1>6 DEF Effect

LEMMA RecordEffect ==
  ASSUME TypeOK, Truth, NEW i \in Invoices, NEW p \in Offline, Record(i, p)
  PROVE  Truth' /\ Effect
<1> USE DEF Record, Receiving
<1>0. p \in Payments /\ p \notin Online
  BY Amounts DEF Payments
<1>1. ~Allocated(p)
  BY DEF Truth, OfflineIsTrue
<1>2. OfflineIsTrue'
  BY <1>0 DEF Truth, OfflineIsTrue, TypeOK, Payments, Allocated
<1>3. \A q \in Online : payment'[q] = payment[q]
  BY <1>0 DEF TypeOK, Payments
<1>4. Truth' /\ SameMoney
  BY <1>2, <1>3, TruthStands
<1>5. Kept(p) \in Nat /\ Kept(p) <= Amount[p] /\ Amount[p] \in Nat
  BY <1>0, KeptIsPart, Amounts DEF Truth, PartsKept
<1>6. Held(i) \in Nat /\ Paid(i) \in Nat /\ Held(i) <= Paid(i) /\ invoice[i].total \in Nat
  BY PaidCoversHeld, KeptIsPart, HeldIsNumber, TotalIsNumber DEF Truth
<1>7. Held(i) + Kept(p) <= invoice[i].total
  BY <1>5, <1>6 DEF Due
<1>8. Taken(i, p)
  BY <1>1, <1>4, <1>7 DEF Taken
<1> QED
  BY <1>0, <1>4, <1>8 DEF Effect

LEMMA ReverseEffect ==
  ASSUME TypeOK, Truth, NEW p \in Offline, NEW n \in 1..Amount[p], Reverse(p, n)
  PROVE  Truth' /\ Effect
<1> USE DEF Reverse
<1>0. p \in Payments /\ p \notin Online /\ Amount[p] \in Nat /\ n \in Nat \ {0}
  BY Amounts DEF Payments
<1>1. PartsKept
  BY KeptIsPart DEF Truth
<1>2. reversed[p] \in Nat /\ payment[p] # "REFUNDED" /\ reversed[p] <= Amount[p]
  BY DEF TypeOK, Truth, OfflineIsTrue
<1>3. n <= Amount[p] - reversed[p]
  BY <1>0, <1>2 DEF Net, GivenBack
<1>4. \A q \in Offline : reversed'[q] = IF q = p THEN reversed[p] + n ELSE reversed[q]
  BY DEF TypeOK
<1>5. OfflineIsTrue'
  BY <1>0, <1>2, <1>3, <1>4 DEF Truth, OfflineIsTrue, Allocated
<1>6. Kept(p)' = Kept(p) - n
  BY <1>0, <1>2, <1>4 DEF Kept
<1>7. \A q \in Payments : q # p => Kept(q)' = Kept(q)
  BY <1>4 DEF Kept, Said, Payments
<1>8. KeptFalls
  BY <1>0, <1>1, <1>6, <1>7 DEF KeptFalls, PartsKept
<1>9. StripeIsHonest' /\ RowsAreTrue' /\ RequestsAreTrue'
  BY HonestyStands, RowsStand, RequestsStand DEF Truth
<1>10. PartsKept'
  <2>1. Kept(p)' \in Nat /\ Kept(p)' <= Amount[p]
    BY <1>0, <1>2, <1>3, <1>4 DEF Kept
  <2> QED
    BY <1>1, <1>7, <2>1 DEF PartsKept
<1>11. CallsAreTrue' /\ RefundedIsGone'
  BY <1>1, <1>8, <1>10, CallsStand, GoneStands DEF Truth
<1>12. Returned(p, n)
  BY <1>6, <1>7 DEF Returned
<1> QED
  BY <1>0, <1>5, <1>9, <1>11, <1>12 DEF Truth, Effect

-----------------------------------------------------------------------------
(* Stripe.                                                                 *)

Speaks(r, status) ==
    /\ sent' = sent \cup {<<r, status>>}
    /\ \/ /\ ~Made(r) /\ status # "FAILED"
          /\ RefundAmount[r] + Undertaken(RefundOf[r]) <= Amount[RefundOf[r]]
       \/ /\ Said(r, "PENDING") /\ ~Said(r, "SUCCEEDED") /\ ~Said(r, "FAILED")
          /\ status # "PENDING"

LEMMA SpeaksHonestly ==
  ASSUME StripeIsHonest, NEW r \in Refunds, NEW status \in RefundStatus, Speaks(r, status)
  PROVE  StripeIsHonest'
<1> DEFINE S(p) == {q \in RefundsOf(p) : Made(q) /\ ~Said(q, "FAILED")}
           T(p) == {q \in RefundsOf(p) : Made(q)' /\ ~Said(q, "FAILED")'}
<1>1. \A q \in Refunds : ~(Said(q, "SUCCEEDED")' /\ Said(q, "FAILED")')
  BY DEF StripeIsHonest, Speaks, Said, Made, RefundStatus
<1>2. ASSUME NEW p \in Online PROVE Sum(T(p)) <= Amount[p]
  <2>1. Sum(S(p)) <= Amount[p] /\ Amount[p] \in Nat
    BY Amounts DEF StripeIsHonest, Undertaken, Payments
  <2>2. S(p) \in SUBSET Refunds
    BY DEF RefundsOf
  <2>3. CASE p # RefundOf[r]
    <3>1. T(p) = S(p)
      BY <2>3 DEF Speaks, Said, Made, RefundsOf
    <3> QED
      BY <2>1, <3>1
  <2>4. CASE p = RefundOf[r] /\ ~Made(r)
    <3>1. r \notin S(p)
      BY <2>4
    <3>2. T(p) = S(p) \cup {r}
      BY <2>4 DEF Speaks, Said, Made, RefundsOf, RefundStatus
    <3>3. RefundAmount[r] + Sum(S(p)) <= Amount[p]
      BY <2>4 DEF Speaks, Undertaken, Made, RefundStatus
    <3> HIDE DEF S, T
    <3>4. Sum(T(p)) = Sum(S(p)) + RefundAmount[r]
      BY <2>2, <3>1, <3>2, RefundSumAdds
    <3>5. Sum(S(p)) \in Nat /\ RefundAmount[r] \in Nat
      BY <2>2, RefundSum, Amounts
    <3> QED
      BY <3>3, <3>4, <3>5
  <2>5. CASE p = RefundOf[r] /\ Made(r)
    <3>1. T(p) \in SUBSET S(p)
      BY <2>5 DEF Speaks, Said, Made, RefundsOf, RefundStatus
    <3> HIDE DEF S, T
    <3>2. Sum(T(p)) <= Sum(S(p)) /\ Sum(S(p)) \in Nat
      BY <2>2, <3>1, RefundSum, RefundSumGrows
    <3>3. Sum(T(p)) \in Nat
      BY <2>2, <3>1, RefundSum
    <3> QED
      BY <2>1, <3>2, <3>3
  <2> QED
    BY <2>3, <2>4, <2>5
<1> QED
  BY <1>1, <1>2 DEF StripeIsHonest, Undertaken

\* A refund that succeeds takes its amount from its payment; nothing else moves.
LEMMA SpeaksMoney ==
  ASSUME PartsKept, UNCHANGED reversed,
         NEW r \in Refunds, NEW status \in RefundStatus, Speaks(r, status)
  PROVE  \/ SameMoney
         \/ /\ Kept(RefundOf[r])' = Kept(RefundOf[r]) - RefundAmount[r]
            /\ \A q \in Payments : q # RefundOf[r] => Kept(q)' = Kept(q)
<1> DEFINE S(p) == {q \in RefundsOf(p) : Said(q, "SUCCEEDED")}
           T(p) == {q \in RefundsOf(p) : Said(q, "SUCCEEDED")'}
<1>1. \A p \in Online : /\ Kept(p) = Amount[p] - Sum(S(p)) /\ Kept(p)' = Amount[p] - Sum(T(p))
                        /\ S(p) \in SUBSET Refunds
  BY DEF Kept, RefundsOf
<1>2. \A p \in Offline : Kept(p)' = Kept(p)
  BY Amounts DEF Kept, Payments
<1>3. \A p \in Online : p # RefundOf[r] => T(p) = S(p)
  BY DEF Speaks, Said, RefundsOf
<1>4. \A q \in Payments : q # RefundOf[r] => Kept(q)' = Kept(q)
  BY <1>1, <1>2, <1>3 DEF Payments
<1>5. RefundOf[r] \in Online /\ RefundOf[r] \in Payments /\ RefundAmount[r] \in Nat
  BY Amounts DEF Payments
<1>6. CASE status = "SUCCEEDED"
  <2>1. r \notin S(RefundOf[r])
    BY DEF Speaks, Made, RefundStatus
  <2>2. T(RefundOf[r]) = S(RefundOf[r]) \cup {r}
    BY <1>6 DEF Speaks, Said, RefundsOf
  <2>3. Amount[RefundOf[r]] \in Nat
    BY <1>5, Amounts
  <2> HIDE DEF S, T
  <2>4. Sum(T(RefundOf[r])) = Sum(S(RefundOf[r])) + RefundAmount[r]
    BY <1>1, <1>5, <2>1, <2>2, RefundSumAdds
  <2>5. Sum(S(RefundOf[r])) \in Nat
    BY <1>1, <1>5, RefundSum
  <2> QED
    BY <1>1, <1>4, <1>5, <2>3, <2>4, <2>5
<1>7. CASE status # "SUCCEEDED"
  <2>1. T(RefundOf[r]) = S(RefundOf[r])
    BY <1>7 DEF Speaks, Said, RefundsOf
  <2>2. Kept(RefundOf[r])' = Kept(RefundOf[r])
    BY <1>1, <1>5, <2>1
  <2> QED
    BY <1>4, <2>2 DEF SameMoney
<1> QED
  BY <1>6, <1>7

\* Stripe may speak to a request too, which then has its answer.
Answers(r, status) ==
    \A p \in Online :
       \/ request'[p] = request[p]
       \/ /\ request[p] # NoRequest /\ request[p].refund = r
          /\ request'[p] = [request[p] EXCEPT !.answer = status]

LEMMA SpeaksRequests ==
  ASSUME TypeOK, RequestsAreTrue, NEW r \in Refunds, NEW status \in RefundStatus,
         sent' = sent \cup {<<r, status>>}, Answers(r, status)
  PROVE  RequestsAreTrue'
<1> SUFFICES ASSUME NEW p \in Online, request'[p] # NoRequest
             PROVE  /\ request'[p].refund \in Refunds
                    /\ RefundOf[request'[p].refund] = p
                    /\ request'[p].answer # "ABSENT" => Said(request[p].refund, request[p].answer)'
                    /\ request'[p].refunded <=
                         Sum({q \in RefundsOf(p) \ {request'[p].refund} : Said(q, "SUCCEEDED")'})
  BY DEF RequestsAreTrue
<1> DEFINE T == {q \in RefundsOf(p) \ {request[p].refund} : Said(q, "SUCCEEDED")}
           S == {q \in RefundsOf(p) \ {request[p].refund} : Said(q, "SUCCEEDED")'}
<1>0. /\ request[p] # NoRequest
      /\ request'[p].refund = request[p].refund /\ request'[p].refunded = request[p].refunded
      /\ \/ request'[p].answer = request[p].answer
         \/ request[p].refund = r /\ request'[p].answer = status
  BY DEF Answers, TypeOK, Request
<1>1. request[p].refunded \in Nat
  BY DEF TypeOK, Request
<1>2. request[p].refunded <= Sum(T)
  BY <1>0 DEF RequestsAreTrue
<1>3. S \in SUBSET Refunds /\ T \in SUBSET S
  BY DEF RefundsOf, Said
<1>4. request[p].refunded <= Sum(S)
  <2> HIDE DEF S, T
  <2>1. Sum(T) <= Sum(S) /\ Sum(S) \in Nat /\ Sum(T) \in Nat
    BY <1>3, RefundSum, RefundSumGrows
  <2> QED
    BY <1>1, <1>2, <2>1
<1>5. request'[p].answer # "ABSENT" => Said(request[p].refund, request[p].answer)'
  BY <1>0 DEF RequestsAreTrue, Said
<1> QED
  BY <1>0, <1>4, <1>5 DEF RequestsAreTrue

LEMMA SpeaksEffect ==
  ASSUME TypeOK, Truth, TypeOK', NEW r \in Refunds, NEW status \in RefundStatus,
         Speaks(r, status), Answers(r, status), UNCHANGED <<invoicing, payment, row, call>>
  PROVE  Truth' /\ Effect
<1> USE DEF invoicing
<1>1. sent \subseteq sent'
  BY DEF Speaks
<1>2. StripeIsHonest' /\ OfflineIsTrue' /\ RowsAreTrue' /\ RequestsAreTrue'
  BY <1>1, SpeaksHonestly, OfflineStands, RowsStand, SpeaksRequests DEF Truth, Speaks
<1>3. PartsKept /\ PartsKept'
  BY <1>2, KeptIsPart, KeptIsPartAfter DEF Truth
<1>4. \/ SameMoney
      \/ /\ Kept(RefundOf[r])' = Kept(RefundOf[r]) - RefundAmount[r]
         /\ \A q \in Payments : q # RefundOf[r] => Kept(q)' = Kept(q)
  BY <1>3, SpeaksMoney
<1>5. RefundOf[r] \in Payments /\ RefundAmount[r] \in Nat \ {0}
  BY InvoicesAssumption DEF Payments
<1>6. KeptFalls
  BY <1>3, <1>4, <1>5 DEF KeptFalls, PartsKept, SameMoney
<1>7. CallsAreTrue' /\ RefundedIsGone'
  BY <1>1, <1>3, <1>6, CallsStand, GoneStands DEF Truth
<1>8. Effect
  BY <1>4, <1>5 DEF Effect, Quiet, Returned
<1> QED
  BY <1>2, <1>7, <1>8 DEF Truth

LEMMA StripeEffect ==
  ASSUME TypeOK, Truth, TypeOK', NEW r \in Refunds, NEW status \in RefundStatus,
         StripeSettles(r, status) \/ DashboardRefund(r, status)
  PROVE  Truth' /\ Effect
<1>1. Speaks(r, status)
  BY DEF StripeSettles, DashboardRefund, Makes, Speaks, Undertaken
<1>2. Answers(r, status) /\ UNCHANGED <<invoicing, payment, row, call>>
  BY DEF StripeSettles, DashboardRefund, Answers
<1> QED
  BY <1>1, <1>2, SpeaksEffect

-----------------------------------------------------------------------------
(* createRefund.                                                           *)

LEMMA AskStripeEffect ==
  ASSUME TypeOK, Truth, TypeOK', NEW p \in Online, NEW status \in RefundStatus,
         AskStripe(p, status)
  PROVE  Truth' /\ Effect
<1> USE DEF AskStripe
<1>1. request[p].refund \in Refunds
  BY DEF Truth, RequestsAreTrue
<1>2. Speaks(request[p].refund, status)
  BY DEF Makes, Speaks, Undertaken
<1>3. Answers(request[p].refund, status)
  BY DEF Answers, TypeOK
<1> QED
  BY <1>1, <1>2, <1>3, SpeaksEffect

LEMMA BeginRefundEffect ==
  ASSUME TypeOK, Truth, NEW p \in Online, NEW r \in Refunds, BeginRefund(p, r)
  PROVE  Truth' /\ Effect
<1> USE DEF BeginRefund, invoicing
<1>1. PartsKept /\ SameMoney
  BY KeptIsPart, MoneyStays DEF Truth
<1>2. PartsKept' /\ KeptFalls
  BY <1>1, SameMoneyKeeps
<1>3. StripeIsHonest' /\ RowsAreTrue' /\ OfflineIsTrue'
  BY HonestyStands, RowsStand, OfflineStands DEF Truth
<1>4. CallsAreTrue' /\ RefundedIsGone'
  BY <1>1, <1>2, CallsStand, GoneStands DEF Truth
<1>5. RequestsAreTrue'
  <2> DEFINE T == {q \in RefundsOf(p) : row[q] = "SUCCEEDED"}
             S == {q \in RefundsOf(p) \ {r} : Said(q, "SUCCEEDED")}
  <2>1. T \in SUBSET S /\ S \in SUBSET Refunds
    BY DEF Truth, RowsAreTrue, RefundsOf, Made, RefundStatus
  <2>2. Refunded(p) <= Sum(S)
    BY <2>1, RefundSumGrows DEF Refunded
  <2>3. /\ request'[p].refund = r /\ request'[p].answer = "ABSENT"
        /\ request'[p].refunded = Refunded(p)
    BY DEF TypeOK, NoRequest
  <2>4. \A q \in Online : q # p => request'[q] = request[q]
    BY DEF TypeOK
  <2>5. Refunded(p) <= Sum({q \in RefundsOf(p) \ {r} : Said(q, "SUCCEEDED")'})
    BY <2>2 DEF Said
  <2> SUFFICES ASSUME NEW q \in Online, request'[q] # NoRequest
               PROVE  /\ request'[q].refund \in Refunds
                      /\ RefundOf[request'[q].refund] = q
                      /\ request'[q].answer # "ABSENT"
                            => Said(request[q].refund, request[q].answer)'
                      /\ request'[q].refunded <=
                           Sum({t \in RefundsOf(q) \ {request'[q].refund} : Said(t, "SUCCEEDED")'})
    BY DEF RequestsAreTrue
  <2>6. CASE q = p
    BY <2>3, <2>5, <2>6
  <2>7. CASE q # p
    BY <2>4, <2>7 DEF Truth, RequestsAreTrue, Said
  <2> QED
    BY <2>6, <2>7
<1> QED
  BY <1>1, <1>3, <1>4, <1>5 DEF Truth, Effect, Quiet

\* A step that moves no money: what it writes of refunds must be true.
LEMMA QuietStands ==
  ASSUME TypeOK, Truth, UNCHANGED <<invoicing, sent>>,
         \A p \in Online : request'[p] \in {request[p], NoRequest},
         \A p \in Offline : payment'[p] = payment[p],
         RowsAreTrue', CallsAreTrue', RefundedIsGone'
  PROVE  Truth' /\ Effect
<1> USE DEF invoicing
<1>1. StripeIsHonest' /\ RequestsAreTrue' /\ OfflineIsTrue'
  BY HonestyStands, RequestsStand, OfflineStands DEF Truth
<1>2. Quiet
  BY MoneyStays DEF Quiet
<1> QED
  BY <1>1, <1>2 DEF Truth, Effect

LEMMA MoneyKept ==
  ASSUME TypeOK, Truth, UNCHANGED <<reversed, sent>>
  PROVE  PartsKept /\ PartsKept' /\ SameMoney /\ KeptFalls
BY KeptIsPart, MoneyStays, SameMoneyKeeps DEF Truth

\* What a request had summed up, and what it was answered, is all the money.
LEMMA EndRefundEffect ==
  ASSUME TypeOK, Truth, NEW p \in Online, EndRefund(p)
  PROVE  Truth' /\ Effect
<1> DEFINE r == request[p].refund
           S == {q \in RefundsOf(p) : Said(q, "SUCCEEDED")}
<1> USE DEF EndRefund, invoicing, Answer
<1>1. /\ request[p] # NoRequest /\ r \in Refunds /\ RefundOf[r] = p
      /\ Said(r, request[p].answer)
  <2>1. request[p].answer # "ABSENT"
    OBVIOUS
  <2> HIDE DEF EndRefund, Answer
  <2>2. request[p] # NoRequest
    BY <2>1 DEF NoRequest
  <2> QED
    BY <2>1, <2>2 DEF Truth, RequestsAreTrue
<1>2. \A q \in Refunds : row'[q] = IF q = r THEN request[p].answer ELSE row[q]
  BY DEF TypeOK
<1>3. RowsAreTrue'
  BY <1>1, <1>2 DEF Truth, RowsAreTrue, Said
<1>4. PartsKept /\ PartsKept' /\ SameMoney /\ KeptFalls
  BY MoneyKept
<1>5. CallsAreTrue'
  BY <1>4, CallsStand DEF Truth
<1>6. \A q \in Online : request'[q] \in {request[q], NoRequest}
  BY DEF TypeOK
<1>7. \A q \in Payments : q # p => payment'[q] = payment[q]
  BY DEF TypeOK
<1>8. payment'[p] # payment[p] => Kept(p) = 0
  <2> SUFFICES ASSUME request[p].answer = "SUCCEEDED",
                      request[p].refunded + RefundAmount[r] >= Amount[p]
               PROVE  Kept(p) = 0
    OBVIOUS
  <2>1. r \in S /\ S \in SUBSET Refunds
    BY <1>1 DEF RefundsOf
  <2>2. {q \in RefundsOf(p) \ {r} : Said(q, "SUCCEEDED")} = S \ {r}
    OBVIOUS
  <2>3. request[p].refunded <= Sum(S \ {r}) /\ request[p].refunded \in Nat
    BY <1>1, <2>2 DEF Truth, RequestsAreTrue, TypeOK, Request
  <2>4. Kept(p) = Amount[p] - Sum(S) /\ Kept(p) \in Nat /\ Amount[p] \in Nat
    BY <1>4, Amounts DEF Kept, PartsKept, Payments
  <2> HIDE DEF S, EndRefund
  <2>5. Sum((S \ {r}) \cup {r}) = Sum(S \ {r}) + RefundAmount[r]
    <3>1. S \ {r} \in SUBSET Refunds
      BY <2>1
    <3> QED
      BY <1>1, <3>1, RefundSumAdds
  <2>6. (S \ {r}) \cup {r} = S
    BY <2>1
  <2>7. Sum(S \ {r}) \in Nat /\ RefundAmount[r] \in Nat
    BY <1>1, <2>1, RefundSum
  <2>8. Sum(S) = Sum(S \ {r}) + RefundAmount[r]
    BY <2>5, <2>6
  <2>9. request[p].refunded + RefundAmount[r] >= Amount[p]
    OBVIOUS
  <2> HIDE DEF r
  <2>10. Sum(S) >= Amount[p]
    BY <2>3, <2>4, <2>7, <2>8, <2>9
  <2> QED
    BY <2>4, <2>7, <2>8, <2>10
<1>9. RefundedIsGone'
  BY <1>4, <1>7, <1>8 DEF Truth, RefundedIsGone, SameMoney, Payments
<1>10. \A q \in Offline : payment'[q] = payment[q]
  BY <1>7, Amounts DEF Payments
<1> QED
  BY <1>3, <1>5, <1>6, <1>9, <1>10, QuietStands

LEMMA LoseRefundEffect ==
  ASSUME TypeOK, Truth, NEW p \in Online, LoseRefund(p)
  PROVE  Truth' /\ Effect
<1> USE DEF LoseRefund, invoicing
<1>1. PartsKept /\ PartsKept' /\ KeptFalls
  BY MoneyKept
<1>2. RowsAreTrue' /\ CallsAreTrue' /\ RefundedIsGone'
  BY <1>1, RowsStand, CallsStand, GoneStands DEF Truth
<1>3. \A q \in Online : request'[q] \in {request[q], NoRequest}
  BY DEF TypeOK
<1> QED
  BY <1>2, <1>3, QuietStands

-----------------------------------------------------------------------------
(* The webhook.                                                            *)

LEMMA IgnoreEffect ==
  ASSUME TypeOK, Truth, NEW r \in Refunds, NEW status \in RefundStatus, Ignore(r, status)
  PROVE  Truth' /\ Effect
<1> USE DEF Ignore, invoicing
<1>1. PartsKept /\ PartsKept' /\ KeptFalls
  BY MoneyKept
<1>2. RowsAreTrue' /\ CallsAreTrue' /\ RefundedIsGone'
  BY <1>1, RowsStand, CallsStand, GoneStands DEF Truth
<1> QED
  BY <1>2, QuietStands

LEMMA ReceiveEffect ==
  ASSUME TypeOK, Truth, NEW r \in Refunds, NEW status \in RefundStatus, NEW d \in Deliveries,
         Receive(d, r, status)
  PROVE  Truth' /\ Effect
<1> USE DEF Receive, invoicing
<1>1. PartsKept /\ PartsKept' /\ SameMoney /\ KeptFalls
  BY MoneyKept
<1>2. RowsAreTrue' /\ RefundedIsGone'
  BY <1>1, RowsStand, GoneStands DEF Truth
<1>3. /\ call'[d].step = "read" /\ call'[d].refund = r /\ call'[d].status = status
      /\ \A e \in Deliveries : e # d => call'[e] = call[e]
  BY DEF TypeOK, IdleCall
<1>4. CallsAreTrue'
  <2> SUFFICES ASSUME NEW e \in Deliveries, call'[e].step # "idle"
               PROVE  /\ call'[e].refund \in Refunds
                      /\ Said(call[e].refund, call[e].status)'
                      /\ call'[e].step = "written" /\ call'[e].full
                            => Kept(RefundOf[call[e].refund])' = 0
    BY DEF CallsAreTrue
  <2>1. CASE e = d
    BY <1>3, <2>1 DEF Said
  <2>2. CASE e # d
    <3>1. call'[e] = call[e]
      BY <1>3, <2>2
    <3>2. RefundOf[call[e].refund] \in Payments
      BY <3>1, Amounts DEF Truth, CallsAreTrue, Payments
    <3> QED
      BY <1>1, <3>1, <3>2 DEF Truth, CallsAreTrue, SameMoney, Said
  <2> QED
    BY <2>1, <2>2
<1> QED
  BY <1>2, <1>4, QuietStands

\* The rows that a call sums up, its own among them, say what Stripe said.
LEMMA CoveredIsGone ==
  ASSUME TypeOK, Truth, NEW r \in Refunds, NEW status \in RefundStatus, Said(r, status),
         Covers(r, status)
  PROVE  Kept(RefundOf[r]) = 0
<1> DEFINE p == RefundOf[r]
           S == {q \in RefundsOf(p) : Said(q, "SUCCEEDED")}
           T == {q \in RefundsOf(p) :
                   IF q = r THEN status = "SUCCEEDED" ELSE row[q] = "SUCCEEDED"}
<1>1. p \in Online /\ p \in Payments
  BY Amounts DEF Payments
<1>2. S \in SUBSET Refunds /\ T \in SUBSET S
  BY DEF Truth, RowsAreTrue, RefundsOf
<1>3. Kept(p) = Amount[p] - Sum(S) /\ Kept(p) \in Nat /\ Amount[p] \in Nat
  BY <1>1, KeptIsPart, Amounts DEF Kept, PartsKept, Truth
<1>4. Sum(T) >= Amount[p]
  BY DEF Covers, SumWith
<1> HIDE DEF S, T
<1>5. Sum(T) <= Sum(S) /\ Sum(S) \in Nat /\ Sum(T) \in Nat
  BY <1>2, RefundSum, RefundSumGrows
<1> QED
  BY <1>3, <1>4, <1>5

LEMMA CallSaid ==
  ASSUME TypeOK, Truth, NEW d \in Deliveries, call[d].step # "idle"
  PROVE  /\ call[d].refund \in Refunds /\ call[d].status \in RefundStatus
         /\ Said(call[d].refund, call[d].status)
         /\ <<call[d].refund, call[d].status>> \in Event
<1>1. call[d].refund \in Refunds /\ <<call[d].refund, call[d].status>> \in sent
  BY DEF Truth, CallsAreTrue, Said
<1>2. <<call[d].refund, call[d].status>> \in Event
  BY <1>1 DEF TypeOK
<1> QED
  BY <1>1, <1>2 DEF Event, Said

LEMMA WriteEffect ==
  ASSUME TypeOK, Truth, NEW d \in Deliveries, Write(d)
  PROVE  Truth' /\ Effect
<1> USE DEF Write, invoicing
<1>1. PartsKept /\ PartsKept' /\ SameMoney /\ KeptFalls
  BY MoneyKept
<1>2. RowsAreTrue' /\ RefundedIsGone'
  BY <1>1, RowsStand, GoneStands DEF Truth
<1>3. /\ call[d].refund \in Refunds /\ call[d].status \in RefundStatus
      /\ Said(call[d].refund, call[d].status)
  BY CallSaid
<1>4. /\ call'[d].refund = call[d].refund /\ call'[d].status = call[d].status
      /\ call'[d].full = Covers(call[d].refund, call[d].status)
      /\ \A e \in Deliveries : e # d => call'[e] = call[e]
  BY DEF TypeOK, Call
<1>5. CallsAreTrue'
  <2>0. UNCHANGED sent
    OBVIOUS
  <2> HIDE DEF Write
  <2> SUFFICES ASSUME NEW e \in Deliveries, call'[e].step # "idle"
               PROVE  /\ call'[e].refund \in Refunds
                      /\ Said(call[e].refund, call[e].status)'
                      /\ call'[e].step = "written" /\ call'[e].full
                            => Kept(RefundOf[call[e].refund])' = 0
    BY DEF CallsAreTrue
  <2>1. CASE e = d
    <3>1. call'[e].full => Kept(RefundOf[call[d].refund]) = 0
      BY <1>3, <1>4, <2>1, CoveredIsGone
    <3>2. RefundOf[call[d].refund] \in Payments
      BY <1>3, Amounts DEF Payments
    <3> QED
      BY <1>1, <1>3, <1>4, <2>0, <2>1, <3>1, <3>2 DEF SameMoney, Said
  <2>2. CASE e # d
    <3>1. call'[e] = call[e]
      BY <1>4, <2>2
    <3>2. RefundOf[call[e].refund] \in Payments
      BY <3>1, Amounts DEF Truth, CallsAreTrue, Payments
    <3> QED
      BY <1>1, <2>0, <3>1, <3>2 DEF Truth, CallsAreTrue, SameMoney, Said
  <2> QED
    BY <2>1, <2>2
<1> QED
  BY <1>2, <1>5, QuietStands

LEMMA CommitEffect ==
  ASSUME TypeOK, Truth, NEW d \in Deliveries, Commit(d)
  PROVE  Truth' /\ Effect
<1> DEFINE r == call[d].refund
           p == RefundOf[r]
<1> USE DEF Commit, Return, invoicing
<1>1. PartsKept /\ PartsKept' /\ SameMoney /\ KeptFalls
  BY MoneyKept
<1>2. r \in Refunds /\ Said(r, call[d].status) /\ p \in Online
  BY CallSaid, Amounts
<1>3. \A q \in Refunds : row'[q] = IF q = r THEN call[d].status ELSE row[q]
  BY DEF TypeOK
<1>4. RowsAreTrue'
  BY <1>2, <1>3 DEF Truth, RowsAreTrue, Said
<1>5. CallsAreTrue'
  <2>1. \A e \in Deliveries : call'[e] \in {call[e], IdleCall}
    BY DEF TypeOK
  <2> QED
    BY <1>1, <2>1, CallsStand DEF Truth
<1>6. \A q \in Payments : q # p => payment'[q] = payment[q]
  BY DEF TypeOK
<1>7. payment'[p] # payment[p] => Kept(p) = 0
  BY <1>2 DEF Truth, CallsAreTrue
<1>8. RefundedIsGone'
  BY <1>1, <1>6, <1>7 DEF Truth, RefundedIsGone, SameMoney, Payments
<1>9. \A q \in Offline : payment'[q] = payment[q]
  BY <1>2, <1>6, Amounts DEF Payments
<1> QED
  BY <1>4, <1>5, <1>8, <1>9, QuietStands

LEMMA AbandonEffect ==
  ASSUME TypeOK, Truth, NEW d \in Deliveries, Abandon(d)
  PROVE  Truth' /\ Effect
<1> USE DEF Abandon, invoicing
<1>1. PartsKept /\ PartsKept' /\ KeptFalls
  BY MoneyKept
<1>2. \A e \in Deliveries : call'[e] \in {call[e], IdleCall}
  BY DEF TypeOK
<1>3. RowsAreTrue' /\ CallsAreTrue' /\ RefundedIsGone'
  BY <1>1, <1>2, RowsStand, CallsStand, GoneStands DEF Truth
<1> QED
  BY <1>3, QuietStands

-----------------------------------------------------------------------------
(* Every step.                                                             *)

LEMMA NextKeepsType == TypeOK /\ Truth /\ [Next]_vars => TypeOK'
<1> SUFFICES ASSUME TypeOK, Truth, [Next]_vars PROVE TypeOK'
  OBVIOUS
<1> USE DEF TypeOK, invoicing
<1>1. ASSUME NEW i \in Invoices, InvoiceStep(i) PROVE TypeOK'
  <2>1. ASSUME NEW n \in Totals, Create(i, n) \/ Update(i, n) PROVE TypeOK'
    <3>1. WriteDraft(i, n)
      BY <2>1 DEF Create, Update
    <3>2. [status |-> "DRAFT", total |-> n] \in Invoice
      BY DEF Invoice
    <3> QED
      BY <3>1, <3>2 DEF WriteDraft
  <2>2. CASE Issue(i)
    BY <2>2 DEF Issue, Invoice
  <2>3. CASE Void(i)
    BY <2>3 DEF Void, Invoice
  <2>4. ASSUME NEW p \in Online, Allocate(i, p) PROVE TypeOK'
    BY <2>4 DEF Allocate
  <2>5. ASSUME NEW p \in Offline, Record(i, p) PROVE TypeOK'
    BY <2>5 DEF Record, PaymentStatus
  <2> QED
    BY <1>1, <2>1, <2>2, <2>3, <2>4, <2>5 DEF InvoiceStep
<1>2. ASSUME NEW p \in Offline, NEW n \in 1..Amount[p], Reverse(p, n) PROVE TypeOK'
  <2>1. Amount[p] \in Nat /\ n \in Nat
    BY Amounts DEF Payments
  <2> QED
    BY <1>2, <2>1 DEF Reverse
<1>3. ASSUME NEW p \in Online, RefundStep(p) PROVE TypeOK'
  <2>1. ASSUME NEW r \in Refunds, BeginRefund(p, r) PROVE TypeOK'
    <3>1. Refunded(p) \in Nat
      BY RefundSum DEF Refunded, RefundsOf
    <3>2. [NoRequest EXCEPT !.refund = r, !.refunded = Refunded(p)] \in Request
      BY <3>1 DEF NoRequest, Request, RowStatus
    <3> QED
      BY <2>1, <3>2 DEF BeginRefund
  <2>2. ASSUME NEW status \in RefundStatus, AskStripe(p, status) PROVE TypeOK'
    <3>1. request[p].refund \in Refunds
      BY <2>2 DEF AskStripe, Truth, RequestsAreTrue
    <3>2. [request[p] EXCEPT !.answer = status] \in Request
      BY DEF Request, RowStatus
    <3>3. request' \in [Online -> Request]
      BY <2>2, <3>2 DEF AskStripe
    <3>4. sent' \in SUBSET Event
      BY <2>2, <3>1 DEF AskStripe, Makes, Event
    <3> QED
      BY <2>2, <3>3, <3>4 DEF AskStripe
  <2>3. CASE EndRefund(p)
    <3>1. NoRequest \in Request
      BY DEF NoRequest, Request, RowStatus
    <3>2. Answer(p) \in RowStatus
      BY DEF Answer, Request
    <3>3. payment' \in [Payments -> PaymentStatus] /\ row' \in [Refunds -> RowStatus]
      BY <2>3, <3>2 DEF EndRefund, PaymentStatus
    <3> QED
      BY <2>3, <3>1, <3>3 DEF EndRefund
  <2>4. CASE LoseRefund(p)
    <3>1. NoRequest \in Request
      BY DEF NoRequest, Request, RowStatus
    <3> QED
      BY <2>4, <3>1 DEF LoseRefund
  <2> QED
    BY <1>3, <2>1, <2>2, <2>3, <2>4 DEF RefundStep
<1>4. ASSUME NEW r \in Refunds, NEW status \in RefundStatus, EventStep(r, status) PROVE TypeOK'
  <2>1. CASE StripeSettles(r, status)
    BY <2>1 DEF StripeSettles, Event
  <2>2. CASE DashboardRefund(r, status)
    BY <2>2 DEF DashboardRefund, Makes, Event
  <2>3. CASE Ignore(r, status)
    BY <2>3 DEF Ignore, Event
  <2>4. ASSUME NEW d \in Deliveries, Receive(d, r, status) PROVE TypeOK'
    <3>1. [IdleCall EXCEPT !.step = "read", !.refund = r, !.status = status,
                           !.new = row[r] = "ABSENT"] \in Call
      BY DEF IdleCall, Call, RowStatus
    <3> QED
      BY <2>4, <3>1 DEF Receive
  <2> QED
    BY <1>4, <2>1, <2>2, <2>3, <2>4 DEF EventStep
<1>5. ASSUME NEW d \in Deliveries, Write(d) \/ Commit(d) \/ Abandon(d) PROVE TypeOK'
  <2>1. CASE Write(d)
    <3> DEFINE locks == Allocated(RefundOf[call[d].refund])
               full == Covers(call[d].refund, call[d].status)
    <3>0. locks \in BOOLEAN /\ full \in BOOLEAN
      BY DEF Allocated, Covers
    <3>1. [call[d] EXCEPT !.step = "written", !.locks = locks, !.full = full] \in Call
      <4> HIDE DEF locks, full
      <4> QED
        BY <3>0 DEF Call
    <3> QED
      BY <2>1, <3>1 DEF Write
  <2>2. CASE Commit(d)
    <3>1. call[d].status \in RowStatus /\ <<call[d].refund, call[d].status>> \in Event
      BY <2>2, CallSaid DEF Commit, RowStatus
    <3>2. IdleCall \in Call
      BY DEF IdleCall, Call, RowStatus
    <3>3. payment' \in [Payments -> PaymentStatus] /\ row' \in [Refunds -> RowStatus]
      BY <2>2, <3>1 DEF Commit, PaymentStatus
    <3> QED
      BY <2>2, <3>1, <3>2, <3>3 DEF Commit, Return
  <2>3. CASE Abandon(d)
    <3>1. IdleCall \in Call
      BY DEF IdleCall, Call, RowStatus
    <3> QED
      BY <2>3, <3>1 DEF Abandon
  <2> QED
    BY <1>5, <2>1, <2>2, <2>3
<1>6. CASE UNCHANGED vars
  BY <1>6 DEF vars
<1> QED
  BY <1>1, <1>2, <1>3, <1>4, <1>5, <1>6 DEF Next

LEMMA NextHasEffect == TypeOK /\ Truth /\ [Next]_vars => TypeOK' /\ Truth' /\ Effect
<1> SUFFICES ASSUME TypeOK, Truth, [Next]_vars PROVE Truth' /\ Effect
  BY NextKeepsType
<1>0. TypeOK'
  BY NextKeepsType
<1>1. ASSUME NEW i \in Invoices, InvoiceStep(i) PROVE Truth' /\ Effect
  BY <1>1, WriteDraftEffect, IssueEffect, VoidEffect, AllocateEffect, RecordEffect
     DEF InvoiceStep
<1>2. ASSUME NEW p \in Offline, NEW n \in 1..Amount[p], Reverse(p, n) PROVE Truth' /\ Effect
  BY <1>2, ReverseEffect
<1>3. ASSUME NEW p \in Online, RefundStep(p) PROVE Truth' /\ Effect
  BY <1>0, <1>3, BeginRefundEffect, AskStripeEffect, EndRefundEffect, LoseRefundEffect
     DEF RefundStep
<1>4. ASSUME NEW r \in Refunds, NEW status \in RefundStatus, EventStep(r, status)
      PROVE  Truth' /\ Effect
  BY <1>0, <1>4, StripeEffect, IgnoreEffect, ReceiveEffect DEF EventStep
<1>5. ASSUME NEW d \in Deliveries, Write(d) \/ Commit(d) \/ Abandon(d) PROVE Truth' /\ Effect
  BY <1>5, WriteEffect, CommitEffect, AbandonEffect
<1>6. CASE UNCHANGED vars
  <2> USE DEF vars, invoicing
  <2>1. PartsKept /\ PartsKept' /\ KeptFalls
    BY <1>6, MoneyKept
  <2>2. RowsAreTrue' /\ CallsAreTrue' /\ RefundedIsGone'
    BY <1>6, <2>1, RowsStand, CallsStand, GoneStands DEF Truth
  <2> QED
    BY <1>6, <2>2, QuietStands
<1> QED
  BY <1>1, <1>2, <1>3, <1>4, <1>5, <1>6 DEF Next

LEMMA InvPreserved ==
  IInv /\ [Next]_vars => IInv' /\ [Books!ReceivableNext]_(Books!receivable)
<1> SUFFICES ASSUME IInv, [Next]_vars
             PROVE  IInv' /\ [Books!ReceivableNext]_(Books!receivable)
  OBVIOUS
<1>1. TypeOK' /\ Truth' /\ Effect
  BY NextHasEffect DEF IInv
<1>2. PartsKept /\ PartsKept'
  BY <1>1, KeptIsPart, KeptIsPartAfter DEF IInv, Truth
<1>3. InOrder'
  BY <1>1, <1>2, EffectKeepsOrder DEF IInv
<1>4. [Books!ReceivableNext]_(Books!receivable)
  BY <1>1, <1>2, <1>3, EffectRefines DEF IInv
<1> QED
  BY <1>1, <1>3, <1>4 DEF IInv

LEMMA NoRefundsYet ==
  ASSUME Init, NEW p \in Payments
  PROVE  /\ Kept(p) = Amount[p]
         /\ p \in Online => Undertaken(p) = 0
<1>1. Sum({}) = 0 /\ Amount[p] \in Nat
  BY SumEmpty, Amounts DEF Sum
<1>2. {r \in RefundsOf(p) : Said(r, "SUCCEEDED")} = {}
  BY DEF Init, Said
<1>3. {r \in RefundsOf(p) : Made(r) /\ ~Said(r, "FAILED")} = {}
  BY DEF Init, Said, Made
<1>4. p \notin Online => reversed[p] = 0
  BY DEF Init, Payments
<1> QED
  BY <1>1, <1>2, <1>3, <1>4 DEF Kept, Undertaken

LEMMA InitHolds == Init => IInv /\ Books!ReceivableInit
<1> SUFFICES ASSUME Init PROVE IInv /\ Books!ReceivableInit
  OBVIOUS
<1>1. TypeOK
  BY DEF Init, TypeOK, Invoice, PaymentStatus, RowStatus, Request, NoRequest, Event, Call,
         IdleCall, Payments
<1>2. StripeIsHonest
  BY NoRefundsYet, Amounts DEF Init, StripeIsHonest, Said, Payments
<1>3. RowsAreTrue /\ RequestsAreTrue /\ CallsAreTrue /\ RefundedIsGone
  BY DEF Init, RowsAreTrue, RequestsAreTrue, CallsAreTrue, RefundedIsGone, IdleCall, Payments
<1>4. OfflineIsTrue /\ AllocationsStand
  BY Amounts DEF Init, OfflineIsTrue, AllocationsStand, Allocated, Payments
<1>5. \A i \in Invoices : Held(i) = 0
  BY <1>4, NothingHeldYet DEF Init
<1>6. HeldWithinTotal
  BY <1>5 DEF HeldWithinTotal, Init
<1>7. Books!ReceivableInit
  BY <1>5 DEF Books!ReceivableInit, Init
<1> QED
  BY <1>1, <1>2, <1>3, <1>4, <1>6, <1>7 DEF IInv, Truth, InOrder

-----------------------------------------------------------------------------
\* The invariant of Invoices: the rows, requests and calls never claim a refund
\* that Stripe did not make, whatever is late, lost or out of order.
THEOREM InvoicesInvariant == Spec => []IInv
<1>1. Init => IInv
  BY InitHolds
<1>2. IInv /\ [Next]_vars => IInv'
  BY InvPreserved
<1> QED
  BY <1>1, <1>2, PTL DEF Spec

\* Invoices, payments, refunds, requests and calls stay well formed.
THEOREM InvoicesTyped == Spec => []TypeOK
<1>1. IInv => TypeOK
  BY DEF IInv
<1> QED
  BY <1>1, InvoicesInvariant, PTL

\* With any number of invoices, payments, refunds and calls at once, the money
\* that an invoice holds stays within its total, none is held for a void invoice,
\* and a payment called REFUNDED was given back in full.
THEOREM MoneyAlwaysAccounted == Spec => []MoneyAccounted
<1>1. IInv => MoneyAccounted
  BY DEF IInv, Truth, InOrder, MoneyAccounted
<1> QED
  BY <1>1, InvoicesInvariant, PTL

\* Invoices implement the receivables: counted in the money that really moved,
\* an invoice takes only while issued and only what is due, gives back only what
\* it holds, and is void only when it holds nothing.
THEOREM InvoicesImplementReceivables == Spec => ImplementsReceivables
<1>1. Init => Books!ReceivableInit
  BY InitHolds
<1>2. IInv /\ [Next]_vars => [Books!ReceivableNext]_(Books!receivable)
  BY InvPreserved
<1> QED
  BY <1>1, <1>2, InvoicesInvariant, PTL DEF Spec, ImplementsReceivables, Books!ReceivableSpec

\* The rows of i's payments show every refund that Stripe said succeeded.
UpToDate(i) ==
    \A p \in AllocatedTo(i) : \A r \in RefundsOf(p) :
        Said(r, "SUCCEEDED") => row[r] = "SUCCEEDED"

LEMMA PaidIsHeld ==
  ASSUME TypeOK, Truth, NEW i \in Invoices, UpToDate(i)
  PROVE  Paid(i) = Held(i)
<1> DEFINE K == [p \in Payments |-> Kept(p)]
           N == [p \in Payments |-> Net(p)]
           S == AllocatedTo(i)
<1>1. Held(i) = SumFunctionOnSet(K, S) /\ Paid(i) = SumFunctionOnSet(N, S)
  BY DEF Held, Paid
<1>2. S \in SUBSET Payments /\ IsFiniteSet(S)
  BY Sets
<1>3. PartsKept
  BY KeptIsPart DEF Truth
<1>4. ASSUME NEW p \in S PROVE Kept(p) \in Nat /\ Kept(p) = Net(p)
  <2>1. Kept(p) \in Nat /\ Kept(p) <= Amount[p] /\ Amount[p] \in Nat
    BY <1>2, <1>3, Amounts DEF PartsKept
  <2>2. CASE p \in Online
    <3>1. \A r \in RefundsOf(p) : Said(r, "SUCCEEDED") <=> row[r] = "SUCCEEDED"
      BY DEF UpToDate, Truth, RowsAreTrue, RefundsOf
    <3>2. {r \in RefundsOf(p) : Said(r, "SUCCEEDED")} = {r \in RefundsOf(p) : row[r] = "SUCCEEDED"}
      BY <3>1
    <3>3. Kept(p) = Amount[p] - GivenBack(p)
      BY <2>2, <3>2 DEF Kept, GivenBack, Refunded
    <3>4. GivenBack(p) \in Nat
      <4>1. {r \in RefundsOf(p) : row[r] = "SUCCEEDED"} \in SUBSET Refunds
        BY DEF RefundsOf
      <4> QED
        BY <2>2, <4>1, RefundSum DEF GivenBack, Refunded
    <3>5. payment[p] = "REFUNDED" => Kept(p) = 0
      BY <2>2 DEF Truth, RefundedIsGone
    <3> QED
      BY <2>1, <3>3, <3>4, <3>5 DEF Net
  <2>3. CASE p \in Offline
    <3>1. Kept(p) = Amount[p] - reversed[p] /\ GivenBack(p) = reversed[p]
      BY <1>2, <2>3, Amounts DEF Kept, GivenBack
    <3>2. reversed[p] \in Nat /\ reversed[p] <= Amount[p] /\ payment[p] # "REFUNDED"
      BY <2>3 DEF TypeOK, Truth, OfflineIsTrue
    <3> QED
      BY <2>1, <3>1, <3>2 DEF Net
  <2> QED
    BY <1>2, <2>2, <2>3 DEF Payments
<1>5. \A p \in S : K[p] \in Nat /\ K[p] = N[p]
  BY <1>2, <1>4
<1> HIDE DEF K, N, S
<1> QED
  BY <1>1, <1>2, <1>5, SumSame

\* What an invoice reports as paid exceeds its total only while a row is behind
\* what Stripe said: no order of allocations, refunds and voids does it alone.
THEOREM OverpaidOnlyWhileBehind ==
    Spec => [](\A i \in Invoices : UpToDate(i) => Paid(i) <= invoice[i].total)
<1>1. IInv => \A i \in Invoices : UpToDate(i) => Paid(i) <= invoice[i].total
  BY PaidIsHeld DEF IInv, InOrder, HeldWithinTotal
<1> QED
  BY <1>1, InvoicesInvariant, PTL
=============================================================================
