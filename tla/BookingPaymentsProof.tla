------------------------ MODULE BookingPaymentsProof ------------------------
(***************************************************************************)
(* Theorems about BookingPayments for every set of appointments, sessions, *)
(* tills, webhook calls and staff requests.                                *)
(*                                                                         *)
(* Four actions write the payments; all the others are Quiet: they leave   *)
(* the payments and payment_status alone, make no appointment PENDING and  *)
(* no attempt SUCCEEDED.  What is said of money is kept by Quiet steps for *)
(* one reason, and shown of the four one by one.                           *)
(***************************************************************************)
EXTENDS BookingPayments, TLAPS

-----------------------------------------------------------------------------
(* The inductive invariant.                                                *)

\* Sessions, calls and requests are about rows that exist; no request makes an
\* appointment PENDING.
Control ==
    /\ \A s \in Sessions : session[s].state # "none" => session[s].appt \in Appts
    /\ \A d \in Deliveries : call[d].step # "idle" =>
          call[d].session \in Sessions /\ Ended(call[d].session)
    /\ \A k \in Desk : desk[k] # NoRequest =>
          desk[k].appt \in Appts /\ desk[k].status # "PENDING"

\* A payment is of an appointment as soon as it is recorded.
Recorded == \A p \in Payments : payment[p].status = "ABSENT" <=> payment[p].appt = NoAppt

\* What Confirmable tells the webhook: nothing was ever recorded of a PENDING
\* appointment.
PendingIsUnpaid ==
    \A a \in Appts : appt[a].status = "PENDING" => \A p \in Payments : payment[p].appt # a

Money == /\ Recorded
         /\ PendingIsUnpaid
         /\ OnePaymentPerAppointment
         /\ RecordedWasCaptured
         /\ PaidFlagAgrees

IInv == TypeOK /\ Control /\ Money

Quiet ==
    /\ payment' = payment
    /\ \A a \in Appts : /\ appt'[a].paid = appt[a].paid
                        /\ appt'[a].status = "PENDING" => appt[a].status = "PENDING"
    /\ \A s \in Sessions :
          /\ session[s].state = "paid" => session'[s] = session[s]
          /\ attempt'[s] = "SUCCEEDED" => attempt[s] = "SUCCEEDED"

LEMMA QuietKeepsMoney == Money /\ Quiet => Money'
  BY DEF Money, Quiet, Recorded, PendingIsUnpaid, OnePaymentPerAppointment,
         RecordedWasCaptured, PaidFlagAgrees, Payments

-----------------------------------------------------------------------------
(* Types and control, action by action.                                    *)

LEMMA InitHolds == Init => IInv
  BY PaymentsAssumption
  DEF Init, IInv, TypeOK, Control, Money, Recorded, PendingIsUnpaid,
      OnePaymentPerAppointment, RecordedWasCaptured, PaidFlagAgrees, Payments,
      ApptRow, ApptStatus, Session, AttemptStatus, PaymentRow, Call, IdleCall,
      Request, NoRequest

LEMMA SessionSteps ==
  ASSUME TypeOK, Control, NEW s \in Sessions,
         RecordSession(s) \/ StripeStep(s) \/ \E a \in Appts : CreateSession(s, a)
  PROVE  TypeOK' /\ Control' /\ Quiet
<1>1. session' \in [Sessions -> Session] /\ attempt' \in [Sessions -> AttemptStatus]
  <2>1. CASE RecordSession(s)
    BY <2>1 DEF TypeOK, Session, AttemptStatus, RecordSession
  <2>2. CASE StripeStep(s)
    <3>1. PICK to \in {"processing", "paid", "failed", "expired"} :
             session' = [session EXCEPT ![s].state = to] /\ attempt' = attempt
      BY <2>2 DEF StripeStep, CustomerPays, CustomerDefers, BankPays, BankRefuses,
                  SessionExpires, SessionBecomes
    <3> QED
      BY <3>1 DEF TypeOK, Session
  <2>3. CASE \E a \in Appts : CreateSession(s, a)
    BY <2>3 DEF TypeOK, Session, CreateSession
  <2> QED
    BY <2>1, <2>2, <2>3
<1>2. UNCHANGED <<appt, processed, payment, call, desk>>
  BY DEF RecordSession, StripeStep, CreateSession, CustomerPays, CustomerDefers,
         BankPays, BankRefuses, SessionExpires, SessionBecomes
<1>3. \A r \in Sessions : /\ Ended(r) => session'[r] = session[r]
                          /\ session'[r].state # "none" => session'[r].appt \in Appts
                          /\ attempt'[r] = "SUCCEEDED" => attempt[r] = "SUCCEEDED"
  BY DEF TypeOK, Session, AttemptStatus, Control, Ended, Captured, RecordSession,
         StripeStep, CreateSession, CustomerPays, CustomerDefers, BankPays,
         BankRefuses, SessionExpires, SessionBecomes
<1> QED
  BY <1>1, <1>2, <1>3 DEF TypeOK, Control, Ended, Captured, Quiet

LEMMA ReturnKeepsCalls ==
  ASSUME TypeOK, Control, NEW d \in Deliveries, call[d].step # "idle",
         Return(d), session' = session
  PROVE  /\ call' \in [Deliveries -> Call]
         /\ processed' \in SUBSET Sessions
         /\ \A e \in Deliveries : call'[e].step # "idle" =>
               call'[e].session \in Sessions /\ Ended(call[e].session)'
<1>1. call[d].session \in Sessions
  BY DEF Control
<1>2. IdleCall \in Call /\ IdleCall.step = "idle"
  BY DEF IdleCall, Call
<1>3. call' \in [Deliveries -> Call] /\ processed' \in SUBSET Sessions
  BY <1>1, <1>2 DEF TypeOK, Return
<1>4. ASSUME NEW e \in Deliveries, call'[e].step # "idle"
      PROVE  call'[e].session \in Sessions /\ Ended(call[e].session)'
  <2>1. call'[e] = call[e]
    BY <1>2, <1>4 DEF TypeOK, Return
  <2>2. call[e].session \in Sessions /\ Ended(call[e].session)
    BY <1>4, <2>1 DEF Control
  <2> QED
    BY <2>1, <2>2 DEF Ended, Captured
<1> QED
  BY <1>3, <1>4

LEMMA WebhookSteps ==
  ASSUME TypeOK, Control, NEW d \in Deliveries,
         \/ HandleFailed(d) \/ HandleExpired(d) \/ HandleLate(d)
         \/ SeeAppointment(d) \/ Abandon(d) \/ \E s \in Sessions : Receive(d, s)
  PROVE  TypeOK' /\ Control' /\ Quiet
<1>1. CASE HandleFailed(d) \/ HandleLate(d) \/ HandleExpired(d)
  <2>1. /\ call[d].step # "idle" /\ Return(d)
        /\ UNCHANGED <<session, payment, desk>>
    BY <1>1 DEF HandleFailed, HandleLate, HandleExpired, Handles
  <2>2. call[d].session \in Sessions
    BY <2>1 DEF Control
  <2>3. /\ attempt' \in [Sessions -> AttemptStatus]
        /\ \A r \in Sessions : attempt'[r] = "SUCCEEDED" => attempt[r] = "SUCCEEDED"
    BY <1>1, <2>2 DEF TypeOK, AttemptStatus, HandleFailed, HandleLate, HandleExpired
  <2>4. /\ appt' \in [Appts -> ApptRow]
        /\ \A a \in Appts : /\ appt'[a].paid = appt[a].paid
                            /\ appt'[a].status = "PENDING" => appt[a].status = "PENDING"
    <3>1. appt' = appt \/ appt' = Released(session[call[d].session].appt)
      BY <1>1 DEF HandleFailed, HandleLate, HandleExpired
    <3>2. CASE appt' = appt
      BY <3>2 DEF TypeOK
    <3>3. CASE appt' = Released(session[call[d].session].appt)
      BY <3>3 DEF TypeOK, ApptRow, ApptStatus, Released
    <3> QED
      BY <3>1, <3>2, <3>3
  <2>5. /\ call' \in [Deliveries -> Call]
        /\ processed' \in SUBSET Sessions
        /\ \A e \in Deliveries : call'[e].step # "idle" =>
              call'[e].session \in Sessions /\ Ended(call[e].session)'
    BY <2>1, ReturnKeepsCalls
  <2> QED
    BY <2>1, <2>3, <2>4, <2>5 DEF TypeOK, Control, Quiet
<1>2. CASE SeeAppointment(d)
  <2>1. UNCHANGED <<appt, session, attempt, processed, payment, desk>>
    BY <1>2 DEF SeeAppointment
  <2>2. /\ call' \in [Deliveries -> Call]
        /\ \A e \in Deliveries : call'[e].session = call[e].session
        /\ \A e \in Deliveries : call'[e].step # "idle" => call[e].step # "idle"
    BY <1>2 DEF TypeOK, SeeAppointment, Handles, Call
  <2> QED
    BY <2>1, <2>2 DEF TypeOK, Control, Quiet, Ended, Captured
<1>3. CASE Abandon(d)
  BY <1>3 DEF TypeOK, Control, Quiet, Abandon, Call, IdleCall, Ended, Captured
<1>4. ASSUME NEW s \in Sessions, Receive(d, s)
      PROVE  TypeOK' /\ Control' /\ Quiet
  <2> DEFINE begun == [IdleCall EXCEPT !.step = "read", !.session = s]
  <2>1. begun \in Call /\ begun.session = s
    BY DEF IdleCall, Call
  <2>2. /\ call' = [call EXCEPT ![d] = begun]
        /\ Ended(s) /\ UNCHANGED <<appt, session, attempt, processed, payment, desk>>
    BY <1>4 DEF Receive
  <2> HIDE DEF begun
  <2> QED
    BY <2>1, <2>2 DEF TypeOK, Control, Quiet, Ended, Captured
<1> QED
  BY <1>1, <1>2, <1>3, <1>4

LEMMA PeopleSteps ==
  ASSUME TypeOK, Control,
         \/ \E a \in Appts : CustomerCancel(a)
         \/ \E k \in Desk, a \in Appts, to \in ApptStatus : ReadStatus(k, a, to)
         \/ \E k \in Desk : WriteStatus(k)
  PROVE  TypeOK' /\ Control' /\ Quiet
<1>1. CASE \E a \in Appts : CustomerCancel(a)
  BY <1>1 DEF TypeOK, Control, Quiet, CustomerCancel, ApptRow, ApptStatus,
              AttemptStatus, Ended, Captured
<1>2. CASE \E k \in Desk, a \in Appts, to \in ApptStatus : ReadStatus(k, a, to)
  BY <1>2 DEF TypeOK, Control, Quiet, ReadStatus, MaySetStatus, Request, NoRequest,
              ApptStatus, Ended, Captured
<1>3. CASE \E k \in Desk : WriteStatus(k)
  BY <1>3 DEF TypeOK, Control, Quiet, WriteStatus, Request, NoRequest, ApptRow,
              ApptStatus, Ended, Captured
<1> QED
  BY <1>1, <1>2, <1>3

-----------------------------------------------------------------------------
(* The steps that write payments.                                          *)

LEMMA PaidSteps ==
  ASSUME IInv, NEW d \in Deliveries, HandlePaid(d)
  PROVE  /\ IInv'
         /\ \E p \in Payments, a \in Appts : Ledger!Record(p, a)
         /\ \A a \in Appts : appt[a].status = "CANCELLED" =>
               /\ appt'[a].status = "CANCELLED"
               /\ \A p \in Payments : payment'[p].appt = a => payment[p].appt = a
<1> DEFINE s == call[d].session
           a == session[s].appt
<1>1. /\ s \in Sessions /\ a \in Appts /\ s \in Payments /\ a = session[s].appt
      /\ session[s].state = "paid" /\ appt[a].status = "PENDING"
      /\ session' = session /\ desk' = desk
      /\ attempt' = [attempt EXCEPT ![s] = "SUCCEEDED"]
      /\ appt' = [appt EXCEPT ![a] = [status |-> "CONFIRMED", paid |-> "SUCCEEDED"]]
      /\ payment' = [payment EXCEPT ![s] = [status |-> "SUCCEEDED", appt |-> a]]
      /\ Return(d) /\ call[d].step # "idle"
  BY DEF IInv, Control, HandlePaid, Confirmable, PaidOnline, Captured, Payments
<1>2. /\ \A p \in Payments : payment[p].appt # a
      /\ payment[s] = [status |-> "ABSENT", appt |-> NoAppt]
  <2>1. \A p \in Payments : payment[p].appt # a
    BY <1>1 DEF IInv, Money, PendingIsUnpaid
  <2>2. payment[s].status = "ABSENT" /\ payment[s].appt = NoAppt
    BY <1>1, <2>1 DEF IInv, Money, RecordedWasCaptured, Recorded
  <2> QED
    BY <1>1, <2>1, <2>2 DEF IInv, TypeOK, PaymentRow
<1> HIDE DEF s, a
<1>3. TypeOK' /\ Control'
  <2>1. /\ call' \in [Deliveries -> Call]
        /\ processed' \in SUBSET Sessions
        /\ \A e \in Deliveries : call'[e].step # "idle" =>
              call'[e].session \in Sessions /\ Ended(call[e].session)'
    BY <1>1, ReturnKeepsCalls DEF IInv
  <2>2. /\ appt' \in [Appts -> ApptRow] /\ attempt' \in [Sessions -> AttemptStatus]
        /\ payment' \in [Payments -> PaymentRow]
    BY <1>1 DEF IInv, TypeOK, ApptRow, ApptStatus, AttemptStatus, PaymentRow
  <2> QED
    BY <1>1, <2>1, <2>2 DEF IInv, TypeOK, Control
<1>4. Recorded' /\ PendingIsUnpaid' /\ PaidFlagAgrees'
  BY <1>1, <1>2, PaymentsAssumption
  DEF IInv, TypeOK, Money, Recorded, PendingIsUnpaid, PaidFlagAgrees
<1>5. OnePaymentPerAppointment' /\ RecordedWasCaptured'
  <2>1. /\ \A p \in Payments \ {s} : payment'[p] = payment[p]
        /\ payment'[s] = [status |-> "SUCCEEDED", appt |-> a]
        /\ \A r \in Sessions \ {s} : attempt'[r] = attempt[r]
    BY <1>1 DEF IInv, TypeOK
  <2> QED
    BY <2>1, <1>1, <1>2 DEF IInv, Money, OnePaymentPerAppointment, RecordedWasCaptured, Payments
<1>6. Ledger!Record(s, a)
  BY <1>1, <1>2 DEF Ledger!Record, Ledger!Absent, Ledger!Stands
<1> QED
  BY <1>1, <1>3, <1>4, <1>5, <1>6 DEF IInv, TypeOK, Money

LEMMA TillSteps ==
  ASSUME IInv, NEW p \in Tills, NEW a \in Appts, TillCheckout(p, a)
  PROVE  /\ IInv'
         /\ Ledger!Record(p, a)
         /\ \A b \in Appts : appt[b].status = "CANCELLED" =>
               /\ appt'[b].status = "CANCELLED"
               /\ \A q \in Payments : payment'[q].appt = b => payment[q].appt = b
<1>1. /\ p \in Payments /\ p \notin Sessions
      /\ payment[p].status = "ABSENT" /\ payment[p].appt = NoAppt
      /\ appt[a].status # "CANCELLED"
      /\ UNCHANGED <<session, attempt, processed, call, desk>>
      /\ appt' = [appt EXCEPT ![a] = [status |-> "COMPLETED", paid |-> "FullyPaid"]]
      /\ payment' = [payment EXCEPT ![p] = [status |-> "SUCCEEDED", appt |-> a]]
      /\ \A q \in Payments : ~(payment[q].status = "SUCCEEDED" /\ payment[q].appt = a)
  BY PaymentsAssumption
  DEF IInv, TypeOK, PaymentRow, Money, Recorded, TillCheckout, Unpaid, Payments
<1>2. TypeOK' /\ Control'
  BY <1>1 DEF IInv, TypeOK, Control, ApptRow, ApptStatus, PaymentRow, Ended, Captured
<1>3. Recorded' /\ PendingIsUnpaid' /\ PaidFlagAgrees'
  BY <1>1, PaymentsAssumption
  DEF IInv, TypeOK, Money, Recorded, PendingIsUnpaid, PaidFlagAgrees
<1>4. OnePaymentPerAppointment' /\ RecordedWasCaptured'
  BY <1>1 DEF IInv, TypeOK, Money, OnePaymentPerAppointment, RecordedWasCaptured, Payments
<1>5. Ledger!Record(p, a)
  BY <1>1 DEF IInv, TypeOK, PaymentRow, Ledger!Record, Ledger!Absent, Ledger!Stands
<1> QED
  BY <1>1, <1>2, <1>3, <1>4, <1>5 DEF IInv, TypeOK, Money

LEMMA RefundSteps ==
  ASSUME IInv, NEW p \in Payments, RefundReported(p) \/ (p \in Sessions /\ RefundAtOnce(p))
  PROVE  /\ IInv'
         /\ Ledger!Refund(p) \/ payment' = payment
         /\ \A a \in Appts : appt'[a].status = appt[a].status
         /\ \A q \in Payments : payment'[q].appt = payment[q].appt
<1>1. /\ payment[p].status # "ABSENT"
      /\ payment' = [payment EXCEPT ![p].status = "REFUNDED"]
      /\ UNCHANGED <<session, attempt, processed, call, desk>>
      /\ appt' = appt \/ appt' = [appt EXCEPT ![payment[p].appt].paid = "REFUNDED"]
  BY DEF RefundReported, RefundAtOnce
<1>2. payment[p].appt \in Appts
  BY <1>1 DEF IInv, TypeOK, PaymentRow, Money, Recorded
<1>3. TypeOK' /\ Control'
  <2>1. appt' \in [Appts -> ApptRow] /\ payment' \in [Payments -> PaymentRow]
    BY <1>1, <1>2 DEF IInv, TypeOK, ApptRow, PaymentRow
  <2> QED
    BY <1>1, <2>1 DEF IInv, TypeOK, Control, Ended, Captured
<1>4. Recorded' /\ PendingIsUnpaid' /\ PaidFlagAgrees'
  BY <1>1, <1>2 DEF IInv, TypeOK, PaymentRow, ApptRow, Money, Recorded, PendingIsUnpaid, PaidFlagAgrees
<1>5. OnePaymentPerAppointment' /\ RecordedWasCaptured'
  BY <1>1 DEF IInv, TypeOK, PaymentRow, Money, OnePaymentPerAppointment, RecordedWasCaptured, Payments
<1>6. Ledger!Refund(p) \/ payment' = payment
  BY <1>1 DEF IInv, TypeOK, PaymentRow, Ledger!Refund
<1> QED
  BY <1>1, <1>2, <1>3, <1>4, <1>5, <1>6 DEF IInv, TypeOK, Money, PaymentRow, ApptRow

-----------------------------------------------------------------------------
(* The theorems.                                                           *)

\* What a step does to payments and appointments, whoever makes it.
LEMMA EveryStep ==
  ASSUME IInv, [Next]_vars
  PROVE  /\ IInv'
         /\ [Ledger!LedgerNext]_payment
         /\ \A a \in Appts : appt[a].status = "CANCELLED" =>
               /\ appt'[a].status # "CANCELLED" => \E k \in Desk : WriteStatus(k)
               /\ \A p \in Payments : payment'[p].appt = a => payment[p].appt = a
<1> USE DEF IInv
<1>1. CASE \E s \in Sessions : RecordSession(s) \/ StripeStep(s) \/ \E a \in Appts : CreateSession(s, a)
  <2>1. TypeOK' /\ Control' /\ Quiet /\ appt' = appt
    BY <1>1, SessionSteps
    DEF RecordSession, StripeStep, CreateSession, CustomerPays, CustomerDefers, BankPays,
        BankRefuses, SessionExpires, SessionBecomes
  <2> QED
    BY <2>1, QuietKeepsMoney DEF Quiet
<1>2. CASE \E d \in Deliveries :
              \/ HandleFailed(d) \/ HandleExpired(d) \/ HandleLate(d)
              \/ SeeAppointment(d) \/ Abandon(d) \/ \E s \in Sessions : Receive(d, s)
  <2>1. TypeOK' /\ Control' /\ Quiet
    BY <1>2, WebhookSteps
  <2>2. appt' = appt \/ \E a \in Appts \cup {NoAppt} : appt' = Released(a)
    <3>1. PICK d \in Deliveries :
             \/ HandleFailed(d) \/ HandleExpired(d) \/ HandleLate(d)
             \/ SeeAppointment(d) \/ Abandon(d) \/ \E s \in Sessions : Receive(d, s)
      BY <1>2
    <3>2. CASE HandleExpired(d)
      <4>1. session[call[d].session].appt \in Appts
        BY <3>2 DEF HandleExpired, Handles, TypeOK, Control
      <4> QED
        BY <3>2, <4>1 DEF HandleExpired
    <3> QED
      BY <3>1, <3>2 DEF HandleFailed, HandleLate, SeeAppointment, Abandon, Receive
  <2>3. \A a \in Appts : appt[a].status = "CANCELLED" => appt'[a].status = "CANCELLED"
    BY <2>2 DEF TypeOK, ApptRow, Released
  <2> QED
    BY <2>1, <2>3, QuietKeepsMoney DEF Quiet
<1>3. CASE \/ \E a \in Appts : CustomerCancel(a)
           \/ \E k \in Desk, a \in Appts, to \in ApptStatus : ReadStatus(k, a, to)
           \/ \E k \in Desk : WriteStatus(k)
  <2>1. TypeOK' /\ Control' /\ Quiet
    BY <1>3, PeopleSteps
  <2>2. \A a \in Appts : appt[a].status = "CANCELLED" =>
           appt'[a].status = "CANCELLED" \/ \E k \in Desk : WriteStatus(k)
    BY <1>3 DEF TypeOK, ApptRow, CustomerCancel, ReadStatus
  <2> QED
    BY <2>1, <2>2, QuietKeepsMoney DEF Quiet
<1>4. CASE \E d \in Deliveries : HandlePaid(d)
  BY <1>4, PaidSteps DEF Ledger!LedgerNext
<1>5. CASE \E p \in Tills, a \in Appts : TillCheckout(p, a)
  BY <1>5, TillSteps DEF Ledger!LedgerNext, Payments
<1>6. CASE \E p \in Payments : RefundReported(p) \/ (p \in Sessions /\ RefundAtOnce(p))
  BY <1>6, RefundSteps DEF Ledger!LedgerNext
<1>7. CASE UNCHANGED vars
  <2>1. TypeOK' /\ Control'
    BY <1>7 DEF vars, TypeOK, Control, Ended, Captured
  <2>2. Quiet /\ appt' = appt
    BY <1>7 DEF vars, Quiet
  <2> QED
    BY <2>1, <2>2, QuietKeepsMoney DEF Quiet
<1>8. CASE \E s \in Sessions : Dismiss(s)
  <2>1. TypeOK' /\ Control'
    BY <1>8 DEF Dismiss, TypeOK, Control, Ended, Captured
  <2>2. Quiet /\ appt' = appt
    BY <1>8 DEF Dismiss, Quiet
  <2> QED
    BY <2>1, <2>2, QuietKeepsMoney DEF Quiet
<1> HIDE DEF IInv
<1>9. \/ \E s \in Sessions : RecordSession(s) \/ StripeStep(s) \/ \E a \in Appts : CreateSession(s, a)
      \/ \E d \in Deliveries :
            \/ HandleFailed(d) \/ HandleExpired(d) \/ HandleLate(d)
            \/ SeeAppointment(d) \/ Abandon(d) \/ \E s \in Sessions : Receive(d, s)
      \/ \/ \E a \in Appts : CustomerCancel(a)
         \/ \E k \in Desk, a \in Appts, to \in ApptStatus : ReadStatus(k, a, to)
         \/ \E k \in Desk : WriteStatus(k)
      \/ \E d \in Deliveries : HandlePaid(d)
      \/ \E p \in Tills, a \in Appts : TillCheckout(p, a)
      \/ \E p \in Payments : RefundReported(p) \/ (p \in Sessions /\ RefundAtOnce(p))
      \/ \E s \in Sessions : Dismiss(s)
      \/ UNCHANGED vars
  <2>1. CASE \E s \in Sessions : \/ RecordSession(s) \/ StripeStep(s) \/ Dismiss(s)
                                 \/ RefundAtOnce(s) \/ \E a \in Appts : CreateSession(s, a)
    BY <2>1 DEF Payments
  <2>2. CASE \E d \in Deliveries : \/ SeeAppointment(d) \/ Conclude(d) \/ Abandon(d)
                                   \/ \E s \in Sessions : Receive(d, s)
    BY <2>2 DEF Conclude
  <2>3. CASE \E p \in Payments : RefundReported(p)
    BY <2>3
  <2> QED
    BY <2>1, <2>2, <2>3 DEF Next
<1> QED
  BY <1>1, <1>2, <1>3, <1>4, <1>5, <1>6, <1>7, <1>8, <1>9

\* Every reachable state satisfies the inductive invariant.
THEOREM Invariance == Spec => []IInv
<1>1. IInv /\ [Next]_vars => IInv'
  BY EveryStep
<1> QED
  BY InitHolds, <1>1, PTL DEF Spec

\* Rows, sessions, calls and requests are well formed.
THEOREM PaymentsTyped == Spec => []TypeOK
<1>1. IInv => TypeOK
  BY DEF IInv
<1> QED
  BY <1>1, Invariance, PTL

\* Of one appointment one payment stands at most, however many sessions are paid
\* and whoever takes money at the till.
THEOREM PaidOnce == Spec => []OnePaymentPerAppointment
<1>1. IInv => OnePaymentPerAppointment
  BY DEF IInv, Money
<1> QED
  BY <1>1, Invariance, PTL

\* What is recorded online was captured by Stripe, what an attempt says SUCCEEDED
\* of is recorded, and payment_status is PENDING exactly while nothing was.
THEOREM BooksAlwaysAgree == Spec => []BooksAgree
<1>1. IInv => BooksAgree
  BY DEF IInv, Money, BooksAgree
<1> QED
  BY <1>1, Invariance, PTL

\* The code implements the payment ledger.
THEOREM PaymentsImplementLedger == Spec => ImplementsLedger
<1>1. Init => Ledger!LedgerInit
  BY DEF Init, Ledger!LedgerInit, Ledger!Absent, Payments
<1>2. IInv /\ [Next]_vars => [Ledger!LedgerNext]_payment
  BY EveryStep
<1> QED
  BY <1>1, <1>2, Invariance, PTL DEF Spec, ImplementsLedger, Ledger!LedgerSpec

\* No event of the provider brings a cancelled appointment back or records a
\* payment of it.
THEOREM CancelledStaysUnpaid == Spec => NoResurrection
<1>1. IInv /\ [Next]_vars =>
         [\A a \in Appts : appt[a].status = "CANCELLED" =>
             /\ appt'[a].status # "CANCELLED" => \E k \in Desk : WriteStatus(k)
             /\ \A p \in Payments : payment'[p].appt = a => payment[p].appt = a]_vars
  BY EveryStep
<1> QED
  BY <1>1, Invariance, PTL DEF Spec, NoResurrection

-----------------------------------------------------------------------------
(* A captured payment leaves a trace.                                      *)

\* What an attempt says of its session, and that an event is done with only after
\* the session has ended and the attempt is closed.
Traced ==
    /\ \A s \in Sessions :
          /\ attempt[s] = "ABSENT" => session[s].state \in {"none", "created", "expired"}
          /\ attempt[s] = "FAILED" => session[s].state = "failed"
          /\ attempt[s] = "EXPIRED" => session[s].state = "expired"
    /\ \A s \in processed : Ended(s) /\ (Captured(s) => attempt[s] # "OPEN")

LEMMA StripeKeepsTrace ==
  ASSUME IInv, Traced, NEW s \in Sessions,
         RecordSession(s) \/ StripeStep(s) \/ \E a \in Appts : CreateSession(s, a)
  PROVE  Traced'
<1>1. processed' = processed /\ s \in Sessions
  BY DEF RecordSession, StripeStep, CreateSession, CustomerPays, CustomerDefers,
         BankPays, BankRefuses, SessionExpires, SessionBecomes
<1>2. CASE RecordSession(s)
  BY <1>1, <1>2 DEF IInv, TypeOK, Session, Traced, RecordSession, Ended, Captured
<1>3. CASE StripeStep(s)
  <2>1. PICK to \in {"processing", "paid", "failed", "expired"} :
           /\ session' = [session EXCEPT ![s].state = to] /\ attempt' = attempt
           /\ ~Ended(s)
           /\ session[s].state \in {"open", "processing"} \/ to = "expired"
    BY <1>3 DEF StripeStep, CustomerPays, CustomerDefers, BankPays, BankRefuses,
                SessionExpires, SessionBecomes, Ended, Captured
  <2> QED
    BY <1>1, <2>1 DEF IInv, TypeOK, Session, Traced, Ended, Captured
<1>4. CASE \E a \in Appts : CreateSession(s, a)
  BY <1>1, <1>4 DEF IInv, TypeOK, Session, Traced, CreateSession, Ended, Captured
<1> QED
  BY <1>2, <1>3, <1>4

LEMMA WebhookKeepsTrace ==
  ASSUME IInv, Traced, NEW d \in Deliveries, Conclude(d)
  PROVE  Traced'
<1> DEFINE s == call[d].session
<1>1. /\ s \in Sessions /\ s \in DOMAIN attempt /\ session' = session /\ Ended(s)
      /\ processed' \in {processed, processed \cup {s}}
  BY DEF IInv, TypeOK, Control, Conclude, HandleFailed, HandleExpired, HandleLate,
         HandlePaid, Handles, Return
<1>2. PICK to \in {"FAILED", "EXPIRED", "CANCELLED", "SUCCEEDED"} :
         /\ attempt' = [attempt EXCEPT ![s] = to]
         /\ to = "FAILED" => session[s].state = "failed"
         /\ to = "EXPIRED" => session[s].state = "expired"
  BY DEF Conclude, HandleFailed, HandleExpired, HandleLate, HandlePaid, Handles
<1> HIDE DEF s
<1>3. attempt'[s] = to /\ \A r \in Sessions \ {s} : attempt'[r] = attempt[r]
  BY <1>1, <1>2 DEF IInv, TypeOK
<1> QED
  BY <1>1, <1>2, <1>3 DEF IInv, TypeOK, Traced, Ended, Captured

LEMMA TraceKept ==
  ASSUME IInv, Traced, [Next]_vars
  PROVE  Traced'
<1>1. CASE \E s \in Sessions : RecordSession(s) \/ StripeStep(s) \/ \E a \in Appts : CreateSession(s, a)
  BY <1>1, StripeKeepsTrace
<1>2. CASE \E d \in Deliveries : Conclude(d)
  BY <1>2, WebhookKeepsTrace
<1>3. CASE \E s \in Sessions : Dismiss(s)
  BY <1>3 DEF Traced, Dismiss, Unsettled, Ended, Captured
<1>4. CASE \E a \in Appts : CustomerCancel(a)
  BY <1>4 DEF IInv, TypeOK, Traced, CustomerCancel, Ended, Captured
<1>5. CASE UNCHANGED <<session, attempt, processed>>
  BY <1>5 DEF Traced, Ended, Captured
<1>6. \/ \E s \in Sessions : RecordSession(s) \/ StripeStep(s) \/ \E a \in Appts : CreateSession(s, a)
      \/ \E d \in Deliveries : Conclude(d)
      \/ \E s \in Sessions : Dismiss(s)
      \/ \E a \in Appts : CustomerCancel(a)
      \/ UNCHANGED <<session, attempt, processed>>
  BY DEF Next, vars, Receive, SeeAppointment, Abandon, ReadStatus, WriteStatus,
         TillCheckout, RefundAtOnce, RefundReported
<1> QED
  BY <1>1, <1>2, <1>3, <1>4, <1>5, <1>6

\* Once the event of a captured session is done with, the session is on the books or
\* its attempt is marked CANCELLED, whatever webhooks ran at once, failed or were
\* repeated: money nobody expects can be found, though nothing refunds it.
THEOREM CapturesLeaveATrace ==
  Spec => [](\A s \in processed :
               Captured(s) => payment[s].status # "ABSENT" \/ attempt[s] = "CANCELLED")
<1> DEFINE Found == \A s \in processed :
             Captured(s) => payment[s].status # "ABSENT" \/ attempt[s] = "CANCELLED"
<1>1. Init => Traced
  BY DEF Init, Traced
<1>2. IInv /\ Traced /\ [Next]_vars => Traced'
  BY TraceKept
<1>3. IInv /\ Traced => Found
  BY DEF IInv, TypeOK, AttemptStatus, Money, RecordedWasCaptured, Traced, Captured
<1> HIDE DEF Found
<1>4. Spec => []Found
  BY <1>1, <1>2, <1>3, Invariance, PTL DEF Spec
<1> QED
  BY <1>4 DEF Found
=============================================================================
