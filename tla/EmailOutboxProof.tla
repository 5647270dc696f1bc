-------------------------- MODULE EmailOutboxProof --------------------------
(***************************************************************************)
(* Theorems about EmailOutbox for every number of workers, starts and      *)
(* changes.                                                                *)
(*                                                                         *)
(* That nothing is sent twice unprovoked is a matter of accounting: the    *)
(* requests made, the workers that may still make one, and the row while   *)
(* it may be claimed (again) never add up to more than one and what was    *)
(* excused.  A worker that crashes before it sends hands its share back to *)
(* the row; one that has sent has used it up.                              *)
(***************************************************************************)
EXTENDS EmailOutbox, FiniteSetTheorems, TLAPS

-----------------------------------------------------------------------------
(* The inductive invariant.                                                *)

\* The workers that may yet ask the provider to send e.
Pursuers(e) == {w \in Workers : Holds(w, e) /\ work[w].step # "sent"}

\* Its row may be claimed, now or once it is queued or recovered.
Open(e) ==
    \/ outbox[e].status \in {"ABSENT", "PENDING", "DELAYED"}
    \/ outbox[e].status = "PROCESSING" /\ ~Held(e)

Shares(e) == Cardinality(Pursuers(e)) + (IF Open(e) THEN 1 ELSE 0)

Accounted == \A e \in Emails : sends[e] + Shares(e) <= 1 + excuses[e]

\* The appointment, as it is, would let e pass its worker's check.
Warranted(e) == Applies(e, appointment)

\* A worker at work has an email that was queued; what it has checked has stood,
\* and so has what would pass the check now.
WorkOK ==
    \A w \in Workers :
       /\ IF work[w].step = "idle" THEN work[w] = Idle ELSE work[w].email \in Emails
       /\ work[w].step \in {"checked", "ready", "sent"} => work[w].stood
       /\ \A e \in Emails : work[w].email = e =>
            outbox[e].status # "ABSENT" /\ (Warranted(e) => work[w].stood)

IInv == TypeOK /\ WorkOK /\ Accounted

LEMMA Keys ==
    /\ Confirmed \in Emails /\ Cancelled \in Emails
    /\ Noted \in Emails
    /\ \A t \in Times : Moved(t) \in Emails /\ NotedMove(t) \in Emails
    /\ \A c \in Changes : Changed(c) \in Emails
    /\ NoEmail \notin Emails
BY OutboxAssumption DEF Emails, StaffNotices, Confirmed, Cancelled, Noted, Moved, NotedMove, Changed

LEMMA Finite ==
  ASSUME NEW e
  PROVE  /\ IsFiniteSet(Pursuers(e)) /\ Cardinality(Pursuers(e)) \in Nat
         /\ IsFiniteSet(Pursuers(e)') /\ Cardinality(Pursuers(e))' \in Nat
<1>1. Pursuers(e) \subseteq Workers /\ Pursuers(e)' \subseteq Workers
  BY DEF Pursuers
<1> QED
  BY <1>1, OutboxAssumption, FS_Subset, FS_CardinalityType

LEMMA SharesType == ASSUME NEW e PROVE Shares(e) \in Nat /\ Shares(e)' \in Nat
BY Finite DEF Shares

LEMMA InitHolds == Init => IInv
<1> SUFFICES ASSUME Init PROVE IInv
  OBVIOUS
<1>1. Absent \in Row
  BY OutboxAssumption DEF Absent, Row, RowStatus
<1>2. TypeOK
  BY <1>1, OutboxAssumption DEF Init, TypeOK, Appointment, Work, Idle
<1>3. WorkOK
  BY Keys DEF Init, WorkOK, Idle
<1>4. Accounted
  <2> SUFFICES ASSUME NEW e \in Emails PROVE sends[e] + Shares(e) <= 1 + excuses[e]
    BY DEF Accounted
  <2>1. Pursuers(e) = {}
    BY DEF Init, Pursuers, Holds, Idle
  <2>2. Shares(e) <= 1
    BY <2>1, FS_EmptySet DEF Shares
  <2> QED
    BY <2>2, SharesType DEF Init
<1> QED
  BY <1>2, <1>3, <1>4 DEF IInv

-----------------------------------------------------------------------------
(* How a step of one worker changes the shares.                            *)

\* Nobody's part changes.
LEMMA Undisturbed ==
  ASSUME NEW e \in Emails,
         \A w \in Workers : work'[w].email = work[w].email /\ work'[w].step = work[w].step
  PROVE  Pursuers(e)' = Pursuers(e) /\ Held(e)' = Held(e)
BY DEF Pursuers, Held, Holds

\* Worker w, and no other, takes e, lets go of it or goes on with it.
LEMMA OneMoves ==
  ASSUME NEW w \in Workers, NEW e \in Emails,
         \A d \in Workers : d # w => work'[d] = work[d]
  PROVE  /\ w \in Pursuers(e) /\ w \notin Pursuers(e)' =>
              Cardinality(Pursuers(e))' = Cardinality(Pursuers(e)) - 1
         /\ w \notin Pursuers(e) /\ w \in Pursuers(e)' =>
              Cardinality(Pursuers(e))' = Cardinality(Pursuers(e)) + 1
         /\ (w \in Pursuers(e) <=> w \in Pursuers(e)') =>
              Cardinality(Pursuers(e))' = Cardinality(Pursuers(e))
<1>1. \A d \in Workers : d # w => (d \in Pursuers(e)' <=> d \in Pursuers(e))
  BY DEF Pursuers, Holds
<1>2. Pursuers(e) \subseteq Workers /\ Pursuers(e)' \subseteq Workers
  BY DEF Pursuers
<1>3. CASE w \in Pursuers(e) /\ w \notin Pursuers(e)'
  <2>1. Pursuers(e)' = Pursuers(e) \ {w}
    BY <1>1, <1>2, <1>3
  <2> QED
    BY <1>3, <2>1, Finite, FS_RemoveElement
<1>4. CASE w \notin Pursuers(e) /\ w \in Pursuers(e)'
  <2>1. Pursuers(e)' = Pursuers(e) \cup {w}
    BY <1>1, <1>2, <1>4
  <2> QED
    BY <1>4, <2>1, Finite, FS_AddElement
<1>5. CASE w \in Pursuers(e) <=> w \in Pursuers(e)'
  <2>1. Pursuers(e)' = Pursuers(e)
    BY <1>1, <1>2, <1>5
  <2> QED
    BY <1>5, <2>1
<1> QED
  BY <1>3, <1>4, <1>5

\* An email w has nothing to do with keeps its shares with its status.
LEMMA Elsewhere ==
  ASSUME NEW w \in Workers, NEW e \in Emails,
         \A d \in Workers : d # w => work'[d] = work[d],
         ~Holds(w, e), ~Holds(w, e)',
         outbox'[e].status = outbox[e].status
  PROVE  Shares(e)' = Shares(e)
<1>1. Cardinality(Pursuers(e))' = Cardinality(Pursuers(e))
  <2>1. w \notin Pursuers(e) /\ w \notin Pursuers(e)'
    BY DEF Pursuers
  <2> QED
    BY <2>1, OneMoves
<1>2. Held(e)' = Held(e)
  BY DEF Held, Holds
<1> QED
  BY <1>1, <1>2 DEF Shares, Open

\* Every row but e keeps its shares, and e keeps its account.
LEMMA Balanced ==
  ASSUME TypeOK, Accounted, TypeOK', NEW e \in Emails,
         \A f \in Emails : f # e =>
            Shares(f)' <= Shares(f) /\ sends'[f] = sends[f] /\ excuses'[f] = excuses[f],
         sends'[e] + Shares(e)' + excuses[e] <= sends[e] + Shares(e) + excuses'[e]
  PROVE  Accounted'
<1> SUFFICES ASSUME NEW f \in Emails PROVE sends'[f] + Shares(f)' <= 1 + excuses'[f]
  BY DEF Accounted
<1>1. sends[f] + Shares(f) <= 1 + excuses[f]
  BY DEF Accounted
<1>2. /\ sends[f] \in Nat /\ sends'[f] \in Nat
      /\ excuses[f] \in Nat /\ excuses'[f] \in Nat
      /\ Shares(f) \in Nat /\ Shares(f)' \in Nat
  BY SharesType DEF TypeOK
<1>3. CASE f = e
  BY <1>1, <1>2, <1>3
<1>4. CASE f # e
  BY <1>1, <1>2, <1>4
<1> QED
  BY <1>3, <1>4

-----------------------------------------------------------------------------
(* Rows.                                                                   *)

LEMMA StatusSet ==
  ASSUME TypeOK, NEW e \in Emails, NEW s \in RowStatus
  PROVE  /\ SetStatus(e, s) \in [Emails -> Row]
         /\ SetStatus(e, s)[e].status = s
         /\ \A f \in Emails : SetStatus(e, s)[f].time = outbox[f].time
         /\ \A f \in Emails : f # e => SetStatus(e, s)[f] = outbox[f]
BY DEF TypeOK, SetStatus, Row

\* What a change of the appointment may do to rows: queue an absent one, and
\* withdraw what waits.
LEMMA WithdrawnRows ==
  ASSUME TypeOK
  PROVE  /\ Withdrawn \in [Emails -> Row]
         /\ \A f \in Emails :
              \/ Withdrawn[f] = outbox[f]
              \/ /\ outbox[f].status \in {"PENDING", "DELAYED", "PROCESSING"}
                 /\ Withdrawn[f].status = "CANCELLED"
         /\ \A f \in Emails : Withdrawn[f].time = outbox[f].time
BY DEF TypeOK, Withdrawn, Row, RowStatus

LEMMA QueuedRows ==
  ASSUME TypeOK, NEW rows \in [Emails -> Row], NEW es \in SUBSET Emails, NEW t \in Times,
         NEW result \in Queued(rows, es, t)
  PROVE  /\ result \in [Emails -> Row]
         /\ \A f \in Emails :
              \/ result[f] = rows[f]
              \/ outbox[f].status = "ABSENT" /\ result[f].status = "PENDING"
<1>1. [Absent EXCEPT !.status = "PENDING", !.time = t] \in Row
  BY OutboxAssumption DEF Absent, Row, RowStatus
<1>2. [Absent EXCEPT !.status = "PENDING", !.time = t].status = "PENDING"
  BY DEF Absent
<1> QED
  BY <1>1, <1>2 DEF Queued, CanQueue

\* Every row stays, or is queued, or withdrawn, and what was queued keeps its text.
Amended ==
    \A f \in Emails :
       /\ outbox[f].status # "ABSENT" => outbox'[f].time = outbox[f].time
       /\ \/ outbox'[f] = outbox[f]
          \/ outbox[f].status = "ABSENT" /\ outbox'[f].status = "PENDING"
          \/ /\ outbox[f].status \in {"PENDING", "DELAYED", "PROCESSING"}
             /\ outbox'[f].status = "CANCELLED"

Booked ==
    \/ \E s \in {"CONFIRMED", "PAST", "CANCELLED"} : UpdateBookingStatus(s)
    \/ CancelBooking
    \/ \E t \in Times : RescheduleBooking(t)
    \/ \E c \in Changes, t \in Times : CustomerReschedule(c, t)
    \/ NotifyConfirmed

LEMMA BookedAmends ==
  ASSUME IInv, Booked
  PROVE  /\ outbox' \in [Emails -> Row] /\ Amended
         /\ appointment' \in Appointment /\ notifying' \in SUBSET {Confirmed, Noted}
         /\ Witness /\ UNCHANGED outside
<1> USE DEF IInv
<1>1. appointment.time \in Times /\ appointment.status \in {"PENDING", "CONFIRMED", "PAST", "CANCELLED"}
  BY DEF TypeOK, Appointment
<1>2. CASE \E s \in {"CONFIRMED", "PAST", "CANCELLED"} : UpdateBookingStatus(s)
  <2>1. PICK s \in {"CONFIRMED", "PAST", "CANCELLED"} : UpdateBookingStatus(s)
    BY <1>2
  <2>2. \/ outbox' \in Queued(outbox, {Confirmed, Noted}, appointment.time)
        \/ outbox' \in Queued(outbox, {Cancelled}, appointment.time)
        \/ outbox' = outbox
    BY <2>1 DEF UpdateBookingStatus
  <2>3. outbox \in [Emails -> Row]
    BY DEF TypeOK
  <2>4. outbox' \in [Emails -> Row] /\ Amended
    <3>1. ASSUME NEW es \in SUBSET Emails, outbox' \in Queued(outbox, es, appointment.time)
          PROVE  outbox' \in [Emails -> Row] /\ Amended
      BY <1>1, <2>3, <3>1, QueuedRows DEF Amended
    <3>2. {Confirmed, Noted} \in SUBSET Emails /\ {Cancelled} \in SUBSET Emails
      BY Keys
    <3>3. CASE outbox' = outbox
      BY <2>3, <3>3 DEF Amended
    <3> QED
      BY <2>2, <3>1, <3>2, <3>3
  <2> QED
    BY <1>1, <2>1, <2>4 DEF UpdateBookingStatus, TypeOK, Appointment
<1>3. ASSUME NEW es \in SUBSET Emails, NEW t \in Times, outbox' \in Queued(Withdrawn, es, t)
      PROVE  outbox' \in [Emails -> Row] /\ Amended
  <2>1. /\ outbox' \in [Emails -> Row]
        /\ \A f \in Emails :
             \/ outbox'[f] = Withdrawn[f]
             \/ outbox[f].status = "ABSENT" /\ outbox'[f].status = "PENDING"
    BY <1>3, QueuedRows, WithdrawnRows
  <2> QED
    BY <2>1, WithdrawnRows DEF Amended
<1>4. CASE CancelBooking
  BY <1>1, <1>3, <1>4, Keys DEF CancelBooking, TypeOK, Appointment
<1>5. CASE \E t \in Times : RescheduleBooking(t)
  BY <1>3, <1>5, Keys DEF RescheduleBooking, TypeOK, Appointment
<1>6. CASE \E c \in Changes, t \in Times : CustomerReschedule(c, t)
  BY <1>3, <1>6, Keys DEF CustomerReschedule, TypeOK, Appointment
<1>7. CASE NotifyConfirmed
  <2>1. PICK e \in notifying : outbox' \in Queued(outbox, {e}, FirstStart)
    BY <1>7 DEF NotifyConfirmed
  <2>2. {e} \in SUBSET Emails /\ outbox \in [Emails -> Row]
    BY Keys DEF TypeOK
  <2>3. outbox' \in [Emails -> Row] /\ Amended
    BY <2>1, <2>2, QueuedRows, OutboxAssumption DEF Amended
  <2>4. work' = work /\ appointment' = appointment /\ UNCHANGED outside
    BY <1>7 DEF NotifyConfirmed
  <2>5. notifying' \in SUBSET {Confirmed, Noted}
    BY <1>7 DEF NotifyConfirmed, TypeOK
  <2>6. ASSUME NEW w \in Workers, work[w].email # NoEmail, Applies(work[w].email, appointment)
        PROVE  work[w].stood
    BY <2>6 DEF TypeOK, Work, WorkOK, Warranted
  <2>7. ASSUME NEW w \in Workers
        PROVE  work[w] = [work[w] EXCEPT !.stood =
                  @ \/ (work[w].email # NoEmail /\ Applies(work[w].email, appointment'))]
    BY <2>4, <2>6 DEF TypeOK, Work
  <2>8. Witness
    BY <2>4, <2>7 DEF Witness, TypeOK
  <2> QED
    BY <2>3, <2>4, <2>5, <2>8 DEF TypeOK
<1> QED
  BY <1>2, <1>4, <1>5, <1>6, <1>7 DEF Booked

-----------------------------------------------------------------------------
(* The steps.                                                              *)

LEMMA BookedPreserves == ASSUME IInv, Booked PROVE IInv'
<1> USE DEF IInv
<1>1. /\ outbox' \in [Emails -> Row] /\ Amended
      /\ appointment' \in Appointment /\ notifying' \in SUBSET {Confirmed, Noted}
      /\ Witness /\ UNCHANGED outside
  BY BookedAmends
<1>2. ASSUME NEW w \in Workers
      PROVE  /\ work'[w] \in Work
             /\ work'[w].step = work[w].step /\ work'[w].email = work[w].email
             /\ work'[w].attempts = work[w].attempts
             /\ work[w].stood => work'[w].stood
             /\ work[w].email = NoEmail => work'[w].stood = work[w].stood
             /\ work[w].email # NoEmail /\ Applies(work[w].email, appointment') => work'[w].stood
  BY <1>1 DEF Witness, TypeOK, Work
<1>3. TypeOK'
  <2>1. work' \in [Workers -> Work]
    BY <1>1, <1>2 DEF Witness
  <2> QED
    BY <1>1, <2>1 DEF TypeOK, outside
<1>4. WorkOK'
  <2> SUFFICES ASSUME NEW w \in Workers
               PROVE  /\ IF work'[w].step = "idle" THEN work'[w] = Idle ELSE work'[w].email \in Emails
                      /\ work'[w].step \in {"checked", "ready", "sent"} => work'[w].stood
                      /\ \A e \in Emails : work'[w].email = e =>
                           outbox'[e].status # "ABSENT" /\ (Warranted(e)' => work'[w].stood)
    BY DEF WorkOK
  <2>1. work[w].step = "idle" => work[w] = Idle /\ work'[w] = Idle
    <3>1. work[w].step = "idle" => work[w] = Idle
      BY DEF WorkOK
    <3> QED
      BY <1>2, <3>1 DEF Work, Idle
  <2>2. ASSUME NEW e \in Emails, work'[w].email = e
        PROVE  outbox'[e].status # "ABSENT" /\ (Warranted(e)' => work'[w].stood)
    <3>1. work[w].email = e /\ e # NoEmail /\ outbox[e].status # "ABSENT"
      BY <1>2, <2>2, Keys DEF WorkOK
    <3>2. outbox'[e].status # "ABSENT" /\ outbox'[e].time = outbox[e].time
      BY <1>1, <3>1 DEF Amended
    <3>3. Warranted(e)' => Applies(work[w].email, appointment')
      BY <3>1, <3>2 DEF Warranted, Applies, FitsStatus
    <3> QED
      BY <1>2, <3>1, <3>2, <3>3
  <2>3. work[w].step # "idle" => work'[w].email \in Emails
    BY <1>2 DEF WorkOK
  <2>4. work'[w].step \in {"checked", "ready", "sent"} => work'[w].stood
    BY <1>2 DEF WorkOK
  <2> QED
    BY <1>2, <2>1, <2>2, <2>3, <2>4
<1>5. ASSUME NEW f \in Emails PROVE Shares(f)' <= Shares(f)
  <2>1. Pursuers(f)' = Pursuers(f) /\ Held(f)' = Held(f)
    BY <1>2, Undisturbed
  <2>2. Open(f)' => Open(f)
    BY <1>1, <2>1 DEF Amended, Open
  <2> QED
    BY <2>1, <2>2, Finite DEF Shares
<1>6. Accounted'
  <2>1. \A f \in Emails : /\ Shares(f)' \in Nat /\ Shares(f) \in Nat
                          /\ sends[f] \in Nat /\ excuses[f] \in Nat
    BY SharesType DEF TypeOK
  <2> QED
    BY <1>1, <1>5, <2>1 DEF Accounted, outside
<1> QED
  BY <1>3, <1>4, <1>6

\* No row goes away and no text changes.
Kept ==
    \A f \in Emails :
       /\ outbox[f].status # "ABSENT" => outbox'[f].status # "ABSENT"
       /\ outbox'[f].time = outbox[f].time

LEMMA RowWritten ==
  ASSUME TypeOK, NEW e \in Emails, NEW s \in RowStatus \ {"ABSENT"}, outbox' = SetStatus(e, s)
  PROVE  /\ outbox' \in [Emails -> Row] /\ outbox'[e].status = s /\ Kept
         /\ \A f \in Emails : f # e => outbox'[f] = outbox[f]
BY StatusSet DEF Kept

\* A worker writes the answer into e's row.
LEMMA RowRecorded ==
  ASSUME TypeOK, NEW e \in Emails, NEW s \in RowStatus \ {"ABSENT"}, NEW n \in Nat,
         \/ outbox' = [outbox EXCEPT ![e].status = s, ![e].attempts = n]
         \/ outbox' = [outbox EXCEPT ![e].status = s, ![e].known = TRUE, ![e].attempts = n]
  PROVE  /\ outbox' \in [Emails -> Row] /\ outbox'[e].status = s /\ Kept
         /\ \A f \in Emails : f # e => outbox'[f] = outbox[f]
<1>1. PICK x \in Row : x = outbox[e]
  BY DEF TypeOK
<1>2. PICK row \in Row : row.status = s /\ row.time = x.time /\ outbox' = [outbox EXCEPT ![e] = row]
  <2>1. CASE outbox' = [outbox EXCEPT ![e].status = s, ![e].attempts = n]
    <3> DEFINE row == [x EXCEPT !.status = s, !.attempts = n]
    <3>1. row \in Row /\ row.status = s /\ row.time = x.time
      BY DEF Row
    <3>2. outbox' = [outbox EXCEPT ![e] = row]
      BY <1>1, <2>1 DEF TypeOK, Row
    <3> HIDE DEF row
    <3> QED
      BY <3>1, <3>2
  <2>2. CASE outbox' = [outbox EXCEPT ![e].status = s, ![e].known = TRUE, ![e].attempts = n]
    <3> DEFINE row == [x EXCEPT !.status = s, !.known = TRUE, !.attempts = n]
    <3>1. row \in Row /\ row.status = s /\ row.time = x.time
      BY DEF Row
    <3>2. outbox' = [outbox EXCEPT ![e] = row]
      BY <1>1, <2>2 DEF TypeOK, Row
    <3> HIDE DEF row
    <3> QED
      BY <3>1, <3>2
  <2> QED
    BY <2>1, <2>2
<1> QED
  BY <1>1, <1>2 DEF TypeOK, Kept

\* A worker that goes on as it was stays in order.
LEMMA StaysInOrder ==
  ASSUME WorkOK, NEW w \in Workers, work'[w] = work[w], Kept, appointment' = appointment
  PROVE  /\ IF work'[w].step = "idle" THEN work'[w] = Idle ELSE work'[w].email \in Emails
         /\ work'[w].step \in {"checked", "ready", "sent"} => work'[w].stood
         /\ \A e \in Emails : work'[w].email = e =>
              outbox'[e].status # "ABSENT" /\ (Warranted(e)' => work'[w].stood)
<1>1. \A e \in Emails : Warranted(e)' => Warranted(e)
  BY DEF Kept, Warranted, Applies, FitsStatus
<1>2. IF work'[w].step = "idle" THEN work'[w] = Idle ELSE work'[w].email \in Emails
  BY DEF WorkOK, Idle
<1> QED
  BY <1>1, <1>2 DEF WorkOK, Kept

\* What worker w is doing becomes r, about e before or after; only e's row may
\* change with it.
LEMMA WorkerStep ==
  ASSUME IInv, NEW w \in Workers, NEW e \in Emails, NEW r \in Work,
         work' = [work EXCEPT ![w] = r],
         work[w].email = e \/ work[w] = Idle,
         \/ r = Idle
         \/ /\ r.email = e /\ r.step # "idle"
            /\ outbox'[e].status # "ABSENT"
            /\ Warranted(e) => r.stood,
         r.step \in {"checked", "ready", "sent"} => r.stood,
         Kept, appointment' = appointment,
         \A f \in Emails : f # e => outbox'[f] = outbox[f]
  PROVE  /\ work' \in [Workers -> Work] /\ WorkOK'
         /\ \A f \in Emails : f # e => Shares(f)' <= Shares(f)
         /\ Holds(w, e) <=> work[w].step \in {"claimed", "checked", "ready", "sent", "failed"}
         /\ Holds(w, e)' <=> r.step \in {"claimed", "checked", "ready", "sent", "failed"}
         /\ w \in Pursuers(e) <=> work[w].step \in {"claimed", "checked", "ready", "failed"}
         /\ w \in Pursuers(e)' <=> r.step \in {"claimed", "checked", "ready", "failed"}
         /\ \A d \in Workers : d # w => work'[d] = work[d]
<1> USE DEF IInv
<1>1. work' \in [Workers -> Work] /\ work'[w] = r /\ \A d \in Workers : d # w => work'[d] = work[d]
  BY DEF TypeOK
<1>2. WorkOK'
  <2> SUFFICES ASSUME NEW d \in Workers
               PROVE  /\ IF work'[d].step = "idle" THEN work'[d] = Idle ELSE work'[d].email \in Emails
                      /\ work'[d].step \in {"checked", "ready", "sent"} => work'[d].stood
                      /\ \A f \in Emails : work'[d].email = f =>
                           outbox'[f].status # "ABSENT" /\ (Warranted(f)' => work'[d].stood)
    BY DEF WorkOK
  <2>1. CASE d = w
    <3>1. Warranted(e)' => Warranted(e)
      BY DEF Warranted, Applies, FitsStatus, Kept
    <3>2. CASE r = Idle
      BY <1>1, <2>1, <3>2, Keys DEF Idle
    <3>3. CASE r # Idle
      <4>1. r.email = e /\ r.step # "idle" /\ work'[d] = r
        BY <1>1, <2>1, <3>3
      <4> QED
        BY <3>1, <3>3, <4>1
    <3> QED
      BY <3>2, <3>3
  <2>2. CASE d # w
    BY <1>1, <2>2, StaysInOrder
  <2> QED
    BY <2>1, <2>2
<1>3. Holds(w, e) <=> work[w].step \in {"claimed", "checked", "ready", "sent", "failed"}
  BY DEF Holds, Idle
<1>4. Holds(w, e)' <=> r.step \in {"claimed", "checked", "ready", "sent", "failed"}
  BY <1>1 DEF Holds, Idle
<1>5. ASSUME NEW f \in Emails, f # e PROVE Shares(f)' <= Shares(f)
  <2>1. ~Holds(w, f) /\ ~Holds(w, f)'
    BY <1>1, <1>5 DEF Holds, Idle
  <2>2. outbox'[f].status = outbox[f].status
    BY <1>5
  <2>3. Shares(f)' = Shares(f)
    BY <1>1, <2>1, <2>2, Elsewhere
  <2> QED
    BY <2>3, SharesType
<1>6. w \in Pursuers(e) <=> work[w].step \in {"claimed", "checked", "ready", "failed"}
  BY <1>3 DEF Pursuers
<1>7. w \in Pursuers(e)' <=> r.step \in {"claimed", "checked", "ready", "failed"}
  BY <1>1, <1>4 DEF Pursuers
<1> QED
  BY <1>1, <1>2, <1>3, <1>4, <1>5, <1>6, <1>7

\* What e has of shares, in numbers.
LEMMA InNumbers ==
  ASSUME TypeOK, TypeOK', NEW e \in Emails
  PROVE  /\ Shares(e) \in Nat /\ Shares(e)' \in Nat
         /\ Cardinality(Pursuers(e)) \in Nat /\ Cardinality(Pursuers(e))' \in Nat
         /\ sends[e] \in Nat /\ excuses[e] \in Nat /\ sends'[e] \in Nat /\ excuses'[e] \in Nat
         /\ Shares(e) = Cardinality(Pursuers(e)) \/ Shares(e) = Cardinality(Pursuers(e)) + 1
         /\ Shares(e)' = Cardinality(Pursuers(e))' \/ Shares(e)' = Cardinality(Pursuers(e))' + 1
         /\ Open(e) <=> Shares(e) = Cardinality(Pursuers(e)) + 1
         /\ Open(e)' <=> Shares(e)' = Cardinality(Pursuers(e))' + 1
BY Finite DEF Shares, TypeOK

\* A worker at work has an email, and keeps it at its next step.
LEMMA AtWork ==
  ASSUME IInv, NEW w \in Workers, work[w].step # "idle"
  PROVE  work[w].email \in Emails /\ Idle \in Work
BY DEF IInv, WorkOK, Work, Idle

LEMMA StepIs ==
  ASSUME TypeOK, NEW w \in Workers,
         NEW s \in {"claimed", "checked", "ready", "sent", "failed", "report"}, Step(w, s)
  PROVE  \E r \in Work : /\ work' = [work EXCEPT ![w] = r]
                        /\ r.step = s /\ r.email = work[w].email /\ r.stood = work[w].stood
<1>1. PICK x \in Work : x = work[w]
  BY DEF TypeOK
<1> DEFINE r == [x EXCEPT !.step = s]
<1>2. r \in Work /\ r.step = s /\ r.email = x.email /\ r.stood = x.stood
  BY DEF Work
<1>3. work' = [work EXCEPT ![w] = r]
  BY <1>1 DEF Step
<1> HIDE DEF r
<1> QED
  BY <1>1, <1>2, <1>3

LEMMA ClaimPreserves ==
  ASSUME IInv, NEW w \in Workers, NEW e \in Emails, Claim(w, e)
  PROVE  IInv'
<1> USE DEF IInv
<1>1. PICK r \in Work : /\ work' = [work EXCEPT ![w] = r] /\ work[w] = Idle
                        /\ r.email = e /\ r.step = "claimed"
                        /\ Warranted(e) => r.stood
  <2> DEFINE r == [step |-> "claimed", email |-> e, attempts |-> outbox[e].attempts,
                   stood |-> Applies(e, appointment)]
  <2>1. Applies(e, appointment) \in BOOLEAN
    BY DEF Applies
  <2>2. outbox[e].attempts \in Nat
    BY DEF TypeOK, Row
  <2>3. r \in Work
    BY <2>1, <2>2 DEF Work
  <2> QED
    BY <2>3 DEF Claim, WorkOK, Warranted
<1>2. /\ outbox' \in [Emails -> Row] /\ outbox'[e].status = "PROCESSING"
      /\ \A f \in Emails : f # e => outbox'[f] = outbox[f]
      /\ Kept /\ appointment' = appointment
  <2>1. outbox' = SetStatus(e, "PROCESSING") /\ "PROCESSING" \in RowStatus /\ appointment' = appointment
    BY DEF Claim, RowStatus
  <2> QED
    BY <2>1, RowWritten
<1>3. work[w].step = "idle"
  BY <1>1 DEF Idle
<1>4. /\ work' \in [Workers -> Work] /\ WorkOK'
      /\ \A f \in Emails : f # e => Shares(f)' <= Shares(f)
      /\ Holds(w, e)'
      /\ w \notin Pursuers(e) /\ w \in Pursuers(e)'
      /\ \A d \in Workers : d # w => work'[d] = work[d]
  BY <1>1, <1>2, <1>3, WorkerStep
<1>5. TypeOK'
  BY <1>2, <1>4 DEF TypeOK, Claim
<1>6. Cardinality(Pursuers(e))' = Cardinality(Pursuers(e)) + 1
  BY <1>4, OneMoves
<1>7. Open(e) /\ ~Open(e)'
  BY <1>2, <1>4 DEF Open, Held, Claim, Claimable
<1>8. Accounted'
  <2>1. sends' = sends /\ excuses' = excuses
    BY DEF Claim
  <2> QED
    BY <1>4, <1>5, <1>6, <1>7, <2>1, InNumbers, Balanced
<1> QED
  BY <1>4, <1>5, <1>8

\* A worker that lets go of an email hands at most its share back to the row.
LEMMA LetsGo ==
  ASSUME TypeOK, TypeOK', NEW w \in Workers, NEW e \in Emails,
         w \in Pursuers(e), w \notin Pursuers(e)',
         \A d \in Workers : d # w => work'[d] = work[d]
  PROVE  Shares(e)' <= Shares(e)
BY OneMoves, InNumbers

\* While it holds on, the row stays closed or open.
LEMMA HoldsOn ==
  ASSUME NEW w \in Workers, NEW e \in Emails,
         Holds(w, e), Holds(w, e)', outbox'[e].status = outbox[e].status
  PROVE  Open(e)' <=> Open(e)
BY DEF Open, Held

\* A worker goes on with its email at another step and the row as it was.
LEMMA GoesOn ==
  ASSUME IInv, NEW w \in Workers, work[w].step # "idle",
         NEW e \in Emails, e = work[w].email,
         NEW s \in {"checked", "ready", "sent", "failed"}, Step(w, s),
         UNCHANGED <<outbox, appointment>>,
         s # "failed" => work[w].stood
  PROVE  /\ work' \in [Workers -> Work] /\ WorkOK'
         /\ \A f \in Emails : f # e => Shares(f)' <= Shares(f)
         /\ work[w].step # "report" => (Open(e)' <=> Open(e))
         /\ w \in Pursuers(e) <=> work[w].step \in {"claimed", "checked", "ready", "failed"}
         /\ w \in Pursuers(e)' <=> s # "sent"
         /\ \A d \in Workers : d # w => work'[d] = work[d]
<1>1. PICK r \in Work : /\ work' = [work EXCEPT ![w] = r]
                        /\ r.step = s /\ r.email = e /\ (s # "failed" => r.stood)
                        /\ Warranted(e) => r.stood
  BY StepIs DEF IInv, WorkOK
<1>2. Kept /\ outbox'[e].status # "ABSENT"
  BY DEF IInv, WorkOK, Kept
<1>3. work[w].step \in {"claimed", "checked", "ready", "sent", "failed", "report"}
  BY DEF IInv, TypeOK, Work
<1>4. /\ work' \in [Workers -> Work] /\ WorkOK'
      /\ \A f \in Emails : f # e => Shares(f)' <= Shares(f)
      /\ Holds(w, e) <=> work[w].step \in {"claimed", "checked", "ready", "sent", "failed"}
      /\ Holds(w, e)' <=> r.step \in {"claimed", "checked", "ready", "sent", "failed"}
      /\ w \in Pursuers(e) <=> work[w].step \in {"claimed", "checked", "ready", "failed"}
      /\ w \in Pursuers(e)' <=> r.step \in {"claimed", "checked", "ready", "failed"}
      /\ \A d \in Workers : d # w => work'[d] = work[d]
  BY <1>1, <1>2, WorkerStep
<1>5. work[w].step # "report" => (Open(e)' <=> Open(e))
  BY <1>1, <1>3, <1>4, HoldsOn
<1> QED
  BY <1>1, <1>4, <1>5

\* A worker is done with its email, or left with the report, and its row is as
\* it was or written.
LEMMA LeavesOff ==
  ASSUME IInv, NEW w \in Workers, work[w].step # "idle",
         NEW e \in Emails, e = work[w].email,
         Done(w) \/ Step(w, "report"),
         outbox' \in [Emails -> Row], Kept, appointment' = appointment,
         \A f \in Emails : f # e => outbox'[f] = outbox[f]
  PROVE  /\ work' \in [Workers -> Work] /\ WorkOK'
         /\ \A f \in Emails : f # e => Shares(f)' <= Shares(f)
         /\ ~Holds(w, e)'
         /\ w \in Pursuers(e) <=> work[w].step \in {"claimed", "checked", "ready", "failed"}
         /\ w \notin Pursuers(e)'
         /\ \A d \in Workers : d # w => work'[d] = work[d]
         /\ TypeOK' /\ work[w].step \in {"claimed", "checked", "ready", "failed"} =>
              Shares(e)' <= Shares(e)
<1>1. PICK r \in Work :
        /\ work' = [work EXCEPT ![w] = r]
        /\ \/ r = Idle
           \/ /\ r.email = e /\ r.step = "report"
              /\ outbox'[e].status # "ABSENT"
              /\ Warranted(e) => r.stood
  <2>1. CASE Done(w)
    BY <2>1, AtWork DEF Done
  <2>2. CASE Step(w, "report")
    BY <2>2, StepIs DEF IInv, WorkOK, Kept
  <2> QED
    BY <2>1, <2>2
<1>2. r.step \in {"idle", "report"}
  BY <1>1 DEF Idle
<1>3. /\ \/ r = Idle
         \/ /\ r.email = e /\ r.step # "idle"
            /\ outbox'[e].status # "ABSENT"
            /\ Warranted(e) => r.stood
      /\ r.step \in {"checked", "ready", "sent"} => r.stood
  BY <1>1, <1>2
<1>4. /\ work' \in [Workers -> Work] /\ WorkOK'
      /\ \A f \in Emails : f # e => Shares(f)' <= Shares(f)
      /\ Holds(w, e)' <=> r.step \in {"claimed", "checked", "ready", "sent", "failed"}
      /\ w \in Pursuers(e) <=> work[w].step \in {"claimed", "checked", "ready", "failed"}
      /\ w \in Pursuers(e)' <=> r.step \in {"claimed", "checked", "ready", "failed"}
      /\ \A d \in Workers : d # w => work'[d] = work[d]
  BY <1>1, <1>3, WorkerStep
<1>5. TypeOK' /\ work[w].step \in {"claimed", "checked", "ready", "failed"} =>
        Shares(e)' <= Shares(e)
  BY <1>2, <1>4, LetsGo DEF IInv
<1> QED
  BY <1>2, <1>4, <1>5

LEMMA CheckAppointmentPreserves ==
  ASSUME IInv, NEW w \in Workers, CheckAppointment(w)
  PROVE  IInv'
<1> USE DEF IInv
<1>1. work[w].step = "claimed" /\ UNCHANGED others
  BY DEF CheckAppointment
<1>2. PICK e \in Emails : e = work[w].email
  BY <1>1, AtWork
<1>3. CASE Applies(work[w].email, appointment) /\ Step(w, "checked") /\ UNCHANGED outbox
  <2>1. work[w].stood
    BY <1>2, <1>3 DEF WorkOK, Warranted
  <2>2. /\ work' \in [Workers -> Work] /\ WorkOK'
        /\ \A f \in Emails : f # e => Shares(f)' <= Shares(f)
        /\ Open(e)' <=> Open(e)
        /\ w \in Pursuers(e) /\ w \in Pursuers(e)'
        /\ \A d \in Workers : d # w => work'[d] = work[d]
    BY <1>1, <1>2, <1>3, <2>1, GoesOn DEF others
  <2>3. TypeOK'
    BY <1>1, <1>3, <2>2 DEF TypeOK, others
  <2>4. Accounted'
    BY <1>1, <2>2, <2>3, OneMoves, InNumbers, Balanced DEF others
  <2> QED
    BY <2>2, <2>3, <2>4
<1>4. CASE outbox' = SetStatus(work[w].email, "CANCELLED") /\ Done(w)
  <2>1. outbox' = SetStatus(e, "CANCELLED") /\ "CANCELLED" \in RowStatus
    BY <1>2, <1>4 DEF RowStatus
  <2>2. /\ outbox' \in [Emails -> Row] /\ Kept
        /\ \A f \in Emails : f # e => outbox'[f] = outbox[f]
    BY <2>1, RowWritten
  <2>3. /\ work' \in [Workers -> Work] /\ WorkOK'
        /\ \A f \in Emails : f # e => Shares(f)' <= Shares(f)
        /\ TypeOK' => Shares(e)' <= Shares(e)
    BY <1>1, <1>2, <1>4, <2>2, LeavesOff DEF others
  <2>4. TypeOK'
    BY <1>1, <2>2, <2>3 DEF TypeOK, others
  <2>5. Accounted'
    BY <1>1, <2>3, <2>4, InNumbers, Balanced DEF others
  <2> QED
    BY <2>3, <2>4, <2>5
<1> QED
  BY <1>3, <1>4 DEF CheckAppointment

LEMMA CheckStatusPreserves ==
  ASSUME IInv, NEW w \in Workers, CheckStatus(w)
  PROVE  IInv'
<1> USE DEF IInv
<1>1. work[w].step = "checked" /\ UNCHANGED <<outbox, others>>
  BY DEF CheckStatus
<1>2. PICK e \in Emails : e = work[w].email
  BY <1>1, AtWork
<1>3. CASE Step(w, "ready")
  <2>1. work[w].stood
    BY <1>1 DEF WorkOK
  <2>2. /\ work' \in [Workers -> Work] /\ WorkOK'
        /\ \A f \in Emails : f # e => Shares(f)' <= Shares(f)
        /\ Open(e)' <=> Open(e)
        /\ w \in Pursuers(e) /\ w \in Pursuers(e)'
        /\ \A d \in Workers : d # w => work'[d] = work[d]
    BY <1>1, <1>2, <1>3, <2>1, GoesOn DEF others
  <2>3. TypeOK'
    BY <1>1, <2>2 DEF TypeOK, others
  <2>4. Accounted'
    BY <1>1, <2>2, <2>3, OneMoves, InNumbers, Balanced DEF others
  <2> QED
    BY <2>2, <2>3, <2>4
<1>4. CASE Done(w)
  <2>1. outbox' \in [Emails -> Row] /\ Kept
    BY <1>1 DEF TypeOK, Kept
  <2>2. /\ work' \in [Workers -> Work] /\ WorkOK'
        /\ \A f \in Emails : f # e => Shares(f)' <= Shares(f)
        /\ TypeOK' => Shares(e)' <= Shares(e)
    BY <1>1, <1>2, <1>4, <2>1, LeavesOff DEF others
  <2>3. TypeOK'
    BY <1>1, <2>1, <2>2 DEF TypeOK, others
  <2>4. Accounted'
    BY <1>1, <2>2, <2>3, InNumbers, Balanced DEF others
  <2> QED
    BY <2>2, <2>3, <2>4
<1> QED
  BY <1>3, <1>4 DEF CheckStatus

LEMMA ThrowPreserves ==
  ASSUME IInv, NEW w \in Workers, Throw(w)
  PROVE  IInv'
<1> USE DEF IInv
<1>1. work[w].step \in {"claimed", "checked", "ready"} /\ Step(w, "failed") /\ UNCHANGED <<outbox, others>>
  BY DEF Throw
<1>2. PICK e \in Emails : e = work[w].email
  BY <1>1, AtWork
<1>3. /\ work' \in [Workers -> Work] /\ WorkOK'
      /\ \A f \in Emails : f # e => Shares(f)' <= Shares(f)
      /\ Open(e)' <=> Open(e)
      /\ w \in Pursuers(e) /\ w \in Pursuers(e)'
      /\ \A d \in Workers : d # w => work'[d] = work[d]
  BY <1>1, <1>2, GoesOn DEF others
<1>4. TypeOK'
  BY <1>1, <1>3 DEF TypeOK, others
<1>5. Accounted'
  BY <1>1, <1>3, <1>4, OneMoves, InNumbers, Balanced DEF others
<1> QED
  BY <1>3, <1>4, <1>5

LEMMA SendPreserves ==
  ASSUME IInv, NEW w \in Workers, Send(w)
  PROVE  IInv'
<1> USE DEF IInv
<1>1. /\ work[w].step = "ready"
      /\ sends' = [sends EXCEPT ![work[w].email] = @ + 1]
      /\ UNCHANGED <<outbox, appointment, notifying, issues, suppressed, operator>>
  BY DEF Send
<1>2. PICK e \in Emails : e = work[w].email
  BY <1>1, AtWork
<1>3. /\ sends' \in [Emails -> Nat] /\ sends'[e] = sends[e] + 1
      /\ \A f \in Emails : f # e => sends'[f] = sends[f]
  BY <1>1, <1>2 DEF TypeOK
<1>4. work[w].stood
  BY <1>1 DEF WorkOK
<1>5. CASE Step(w, "sent") /\ UNCHANGED <<excuses, faults>>
  <2>1. /\ work' \in [Workers -> Work] /\ WorkOK'
        /\ \A f \in Emails : f # e => Shares(f)' <= Shares(f)
        /\ Open(e)' <=> Open(e)
        /\ w \in Pursuers(e) /\ w \notin Pursuers(e)'
        /\ \A d \in Workers : d # w => work'[d] = work[d]
    BY <1>1, <1>2, <1>4, <1>5, GoesOn
  <2>2. TypeOK'
    BY <1>1, <1>3, <1>5, <2>1 DEF TypeOK
  <2>3. Cardinality(Pursuers(e))' = Cardinality(Pursuers(e)) - 1
    BY <2>1, OneMoves
  <2>4. Shares(e)' = Shares(e) - 1
    BY <2>1, <2>2, <2>3, InNumbers
  <2>5. Accounted'
    BY <1>3, <1>5, <2>1, <2>2, <2>4, InNumbers, Balanced
  <2> QED
    BY <2>1, <2>2, <2>5
<1>6. CASE Step(w, "failed") /\ Fault /\ Excuse(work[w].email)
  <2>1. /\ excuses' \in [Emails -> Nat] /\ excuses'[e] = excuses[e] + 1
        /\ \A f \in Emails : f # e => excuses'[f] = excuses[f]
        /\ faults' \in Nat
    BY <1>2, <1>6 DEF TypeOK, Excuse, Fault
  <2>2. /\ work' \in [Workers -> Work] /\ WorkOK'
        /\ \A f \in Emails : f # e => Shares(f)' <= Shares(f)
        /\ Open(e)' <=> Open(e)
        /\ w \in Pursuers(e) /\ w \in Pursuers(e)'
        /\ \A d \in Workers : d # w => work'[d] = work[d]
    BY <1>1, <1>2, <1>4, <1>6, GoesOn
  <2>3. TypeOK'
    BY <1>1, <1>3, <2>1, <2>2 DEF TypeOK
  <2>4. Shares(e)' = Shares(e)
    BY <2>2, <2>3, OneMoves, InNumbers
  <2>5. Accounted'
    BY <1>3, <2>1, <2>2, <2>3, <2>4, InNumbers, Balanced
  <2> QED
    BY <2>2, <2>3, <2>5
<1> QED
  BY <1>5, <1>6 DEF Send

LEMMA RecordSentPreserves ==
  ASSUME IInv, NEW w \in Workers, RecordSent(w)
  PROVE  IInv'
<1> USE DEF IInv
<1>1. /\ work[w].step = "sent"
      /\ UNCHANGED <<appointment, notifying, issues, suppressed, operator, sends>>
  BY DEF RecordSent
<1>2. PICK e \in Emails : e = work[w].email
  BY <1>1, AtWork
<1>3. CASE /\ outbox' = [outbox EXCEPT ![e].status = "SENT", ![e].known = TRUE,
                                      ![e].attempts = work[w].attempts + 1]
           /\ Done(w)
           /\ UNCHANGED <<excuses, faults>>
  <2>1. work[w].attempts \in Nat
    BY DEF TypeOK, Work
  <2>2. /\ outbox' \in [Emails -> Row] /\ Kept /\ outbox'[e].status = "SENT"
        /\ \A f \in Emails : f # e => outbox'[f] = outbox[f]
    <3>1. work[w].attempts + 1 \in Nat /\ "SENT" \in RowStatus \ {"ABSENT"}
      BY <2>1 DEF RowStatus
    <3> QED
      BY <1>3, <3>1, RowRecorded
  <2>3. /\ work' \in [Workers -> Work] /\ WorkOK'
        /\ \A f \in Emails : f # e => Shares(f)' <= Shares(f)
        /\ w \notin Pursuers(e) /\ w \notin Pursuers(e)'
        /\ \A d \in Workers : d # w => work'[d] = work[d]
    BY <1>1, <1>2, <1>3, <2>2, LeavesOff
  <2>4. TypeOK'
    BY <1>1, <1>3, <2>2, <2>3 DEF TypeOK
  <2>5. ~Open(e)'
    BY <2>2 DEF Open
  <2>6. Shares(e)' <= Shares(e)
    BY <2>3, <2>4, <2>5, OneMoves, InNumbers
  <2>7. Accounted'
    BY <1>1, <1>3, <2>3, <2>4, <2>6, InNumbers, Balanced
  <2> QED
    BY <2>3, <2>4, <2>7
<1>4. CASE Step(w, "failed") /\ Fault /\ Excuse(e) /\ UNCHANGED outbox
  <2>1. /\ excuses' \in [Emails -> Nat] /\ excuses'[e] = excuses[e] + 1
        /\ \A f \in Emails : f # e => excuses'[f] = excuses[f]
        /\ faults' \in Nat
    BY <1>4 DEF TypeOK, Excuse, Fault
  <2>2. /\ work' \in [Workers -> Work] /\ WorkOK'
        /\ \A f \in Emails : f # e => Shares(f)' <= Shares(f)
        /\ Open(e)' <=> Open(e)
        /\ w \notin Pursuers(e) /\ w \in Pursuers(e)'
        /\ \A d \in Workers : d # w => work'[d] = work[d]
    BY <1>1, <1>2, <1>4, GoesOn
  <2>3. TypeOK'
    BY <1>1, <1>4, <2>1, <2>2 DEF TypeOK
  <2>4. Shares(e)' = Shares(e) + 1
    BY <2>2, <2>3, OneMoves, InNumbers
  <2>5. Accounted'
    BY <1>1, <2>1, <2>2, <2>3, <2>4, InNumbers, Balanced
  <2> QED
    BY <2>2, <2>3, <2>5
<1> QED
  BY <1>2, <1>3, <1>4 DEF RecordSent

LEMMA RecordFailurePreserves ==
  ASSUME IInv, NEW w \in Workers, RecordFailure(w)
  PROVE  IInv'
<1> USE DEF IInv
<1>1. work[w].step = "failed" /\ UNCHANGED others
  BY DEF RecordFailure
<1>2. PICK e \in Emails : e = work[w].email
  BY <1>1, AtWork
<1>3. PICK s \in {"DEAD_LETTER", "PENDING"} :
        /\ outbox' = [outbox EXCEPT ![e].status = s, ![e].attempts = work[w].attempts + 1]
        /\ Done(w) \/ Step(w, "report")
  BY <1>2 DEF RecordFailure
<1>4. work[w].attempts \in Nat
  BY DEF TypeOK, Work
<1>5. /\ outbox' \in [Emails -> Row] /\ Kept
      /\ \A f \in Emails : f # e => outbox'[f] = outbox[f]
  <2>1. work[w].attempts + 1 \in Nat /\ s \in RowStatus \ {"ABSENT"}
    BY <1>4 DEF RowStatus
  <2> QED
    BY <1>3, <2>1, RowRecorded
<1>6. /\ work' \in [Workers -> Work] /\ WorkOK'
      /\ \A f \in Emails : f # e => Shares(f)' <= Shares(f)
      /\ TypeOK' => Shares(e)' <= Shares(e)
  BY <1>1, <1>2, <1>3, <1>5, LeavesOff DEF others
<1>7. TypeOK'
  BY <1>1, <1>5, <1>6 DEF TypeOK, others
<1>8. Accounted'
  BY <1>1, <1>6, <1>7, InNumbers, Balanced DEF others
<1> QED
  BY <1>6, <1>7, <1>8

\* A worker with nothing but the report to make has no share.
LEMMA ReportPreserves ==
  ASSUME IInv, NEW w \in Workers, Report(w)
  PROVE  IInv'
<1> USE DEF IInv
<1>1. work[w].step = "report" /\ Done(w) /\ issues' = issues \cup {work[w].email}
      /\ UNCHANGED <<outbox, appointment, notifying, suppressed, operator, sends, excuses, faults>>
  BY DEF Report
<1>2. PICK e \in Emails : e = work[w].email
  BY <1>1, AtWork
<1>3. outbox' \in [Emails -> Row] /\ Kept
  BY <1>1 DEF TypeOK, Kept
<1>4. /\ work' \in [Workers -> Work] /\ WorkOK'
      /\ \A f \in Emails : f # e => Shares(f)' <= Shares(f)
      /\ ~Holds(w, e)'
      /\ w \notin Pursuers(e) /\ w \notin Pursuers(e)'
      /\ \A d \in Workers : d # w => work'[d] = work[d]
  BY <1>1, <1>2, <1>3, LeavesOff
<1>5. ~Holds(w, e)
  BY <1>1 DEF Holds
<1>6. TypeOK'
  BY <1>1, <1>2, <1>3, <1>4 DEF TypeOK
<1>7. Shares(e)' = Shares(e)
  BY <1>1, <1>4, <1>5, Elsewhere
<1>8. Accounted'
  BY <1>1, <1>4, <1>6, <1>7, InNumbers, Balanced
<1> QED
  BY <1>4, <1>6, <1>8

LEMMA CrashPreserves ==
  ASSUME IInv, NEW w \in Workers, Crash(w)
  PROVE  IInv'
<1> USE DEF IInv
<1>1. work[w].step # "idle" /\ Done(w) /\ Fault
      /\ UNCHANGED <<outbox, appointment, notifying, issues, suppressed, operator, sends>>
  BY DEF Crash
<1>2. PICK e \in Emails : e = work[w].email
  BY <1>1, AtWork
<1>3. outbox' \in [Emails -> Row] /\ Kept /\ faults' \in Nat
  BY <1>1 DEF TypeOK, Kept, Fault
<1>4. /\ work' \in [Workers -> Work] /\ WorkOK'
      /\ \A f \in Emails : f # e => Shares(f)' <= Shares(f)
      /\ ~Holds(w, e)'
      /\ w \in Pursuers(e) <=> work[w].step \in {"claimed", "checked", "ready", "failed"}
      /\ w \notin Pursuers(e)'
      /\ \A d \in Workers : d # w => work'[d] = work[d]
      /\ TypeOK' /\ work[w].step \in {"claimed", "checked", "ready", "failed"} =>
           Shares(e)' <= Shares(e)
  BY <1>1, <1>2, <1>3, LeavesOff
<1>5. CASE work[w].step = "sent"
  <2>1. /\ excuses' \in [Emails -> Nat] /\ excuses'[e] = excuses[e] + 1
        /\ \A f \in Emails : f # e => excuses'[f] = excuses[f]
    BY <1>2, <1>5 DEF Crash, TypeOK, Excuse
  <2>2. TypeOK'
    BY <1>1, <1>3, <1>4, <2>1 DEF TypeOK
  <2>3. Shares(e)' <= Shares(e) + 1
    BY <1>4, <1>5, <2>2, OneMoves, InNumbers
  <2>4. Accounted'
    BY <1>1, <1>4, <2>1, <2>2, <2>3, InNumbers, Balanced
  <2> QED
    BY <1>4, <2>2, <2>4
<1>6. CASE work[w].step # "sent"
  <2>1. excuses' = excuses
    BY <1>6 DEF Crash
  <2>2. TypeOK'
    BY <1>1, <1>3, <1>4, <2>1 DEF TypeOK
  <2>3. Shares(e)' <= Shares(e)
    <3>1. CASE work[w].step = "report"
      <4>1. ~Holds(w, e)
        BY <3>1 DEF Holds
      <4>2. Shares(e)' = Shares(e)
        BY <1>1, <1>4, <4>1, Elsewhere
      <4> QED
        BY <4>2, SharesType
    <3>2. CASE work[w].step # "report"
      <4>1. work[w].step \in {"claimed", "checked", "ready", "failed"}
        BY <1>1, <1>6, <3>2 DEF TypeOK, Work
      <4> QED
        BY <1>4, <2>2, <4>1
    <3> QED
      BY <3>1, <3>2
  <2>4. Accounted'
    BY <1>1, <1>4, <2>1, <2>2, <2>3, InNumbers, Balanced
  <2> QED
    BY <1>4, <2>2, <2>4
<1> QED
  BY <1>5, <1>6

\* A step of nobody's work, which opens e's row at most with an excuse.
LEMMA RowMoves ==
  ASSUME IInv, NEW e \in Emails, NEW s \in RowStatus \ {"ABSENT"},
         outbox' = SetStatus(e, s), UNCHANGED <<work, appointment, sends>>,
         \/ excuses' = excuses /\ (Open(e)' => Open(e))
         \/ Excuse(e)
  PROVE  /\ outbox' \in [Emails -> Row] /\ WorkOK' /\ excuses' \in [Emails -> Nat]
         /\ TypeOK' => Accounted'
<1> USE DEF IInv
<1>1. /\ outbox' \in [Emails -> Row] /\ outbox'[e].status = s /\ Kept
      /\ \A f \in Emails : f # e => outbox'[f] = outbox[f]
  BY RowWritten
<1>2. WorkOK'
  <2>1. \A w \in Workers :
          /\ IF work'[w].step = "idle" THEN work'[w] = Idle ELSE work'[w].email \in Emails
          /\ work'[w].step \in {"checked", "ready", "sent"} => work'[w].stood
          /\ \A f \in Emails : work'[w].email = f =>
               outbox'[f].status # "ABSENT" /\ (Warranted(f)' => work'[w].stood)
    BY <1>1, StaysInOrder
  <2> QED
    BY <2>1 DEF WorkOK
<1>3. \A f \in Emails : Pursuers(f)' = Pursuers(f) /\ Held(f)' = Held(f)
  BY Undisturbed
<1>4. \A f \in Emails : f # e => Shares(f)' <= Shares(f)
  <2> SUFFICES ASSUME NEW f \in Emails, f # e PROVE Shares(f)' <= Shares(f)
    OBVIOUS
  <2>1. Shares(f)' = Shares(f)
    BY <1>1, <1>3 DEF Shares, Open
  <2> QED
    BY <2>1, SharesType
<1>5. /\ excuses' \in [Emails -> Nat]
      /\ \A f \in Emails : f # e => excuses'[f] = excuses[f]
      /\ \/ excuses'[e] = excuses[e] /\ (Open(e)' => Open(e))
         \/ excuses'[e] = excuses[e] + 1
  BY DEF TypeOK, Excuse
<1>6. TypeOK' => Accounted'
  <2> SUFFICES ASSUME TypeOK' PROVE Accounted'
    OBVIOUS
  <2>1. Cardinality(Pursuers(e))' = Cardinality(Pursuers(e))
    BY <1>3
  <2> QED
    BY <1>4, <1>5, <2>1, InNumbers, Balanced
<1> QED
  BY <1>1, <1>2, <1>5, <1>6

LEMMA RecoverPreserves ==
  ASSUME IInv, NEW e \in Emails, Recover(e)
  PROVE  IInv'
<1> USE DEF IInv
<1>1. /\ outbox[e].status = "PROCESSING" /\ outbox' = SetStatus(e, "PENDING")
      /\ UNCHANGED <<appointment, notifying, issues, suppressed, work, operator, sends>>
  BY DEF Recover
<1>2. \/ excuses' = excuses /\ (Open(e)' => Open(e))
      \/ Excuse(e)
  BY <1>1 DEF Recover, Open
<1>3. "PENDING" \in RowStatus \ {"ABSENT"}
  BY DEF RowStatus
<1>4. /\ outbox' \in [Emails -> Row] /\ WorkOK' /\ excuses' \in [Emails -> Nat]
      /\ TypeOK' => Accounted'
  BY <1>1, <1>2, <1>3, RowMoves
<1>5. faults' \in Nat
  BY DEF Recover, Fault, TypeOK
<1>6. TypeOK'
  BY <1>1, <1>4, <1>5 DEF TypeOK
<1> QED
  BY <1>4, <1>6

LEMMA ReceiveEventPreserves ==
  ASSUME IInv, NEW e \in Emails, NEW s \in ProviderStatuses, ReceiveEvent(e, s)
  PROVE  IInv'
<1> USE DEF IInv
<1>1. outbox' = SetStatus(e, s) /\ UNCHANGED <<appointment, notifying, work, operator, sends>>
  BY DEF ReceiveEvent
<1>2. s \in RowStatus \ {"ABSENT"} /\ s \notin {"PENDING", "PROCESSING"}
  BY OutboxAssumption DEF RowStatus
<1>3. outbox'[e].status = s
  BY <1>1, <1>2, RowWritten
<1>4. \/ excuses' = excuses /\ (Open(e)' => Open(e))
      \/ Excuse(e)
  BY <1>2, <1>3 DEF ReceiveEvent, Open
<1>5. /\ outbox' \in [Emails -> Row] /\ WorkOK' /\ excuses' \in [Emails -> Nat]
      /\ TypeOK' => Accounted'
  BY <1>1, <1>2, <1>4, RowMoves
<1>6. faults' \in Nat /\ suppressed' \in SUBSET {"customer", "staff"} /\ issues' \in SUBSET Emails
  BY DEF ReceiveEvent, Fault, TypeOK, Recipient
<1>7. TypeOK'
  BY <1>1, <1>5, <1>6 DEF TypeOK
<1> QED
  BY <1>5, <1>7

LEMMA RetryIssuePreserves ==
  ASSUME IInv, RetryIssue
  PROVE  IInv'
<1> USE DEF IInv
<1>1. PICK e \in Emails : e = operator
  BY DEF RetryIssue, TypeOK
<1>2. /\ outbox' = SetStatus(e, "PENDING") /\ Excuse(e)
      /\ UNCHANGED <<appointment, notifying, issues, suppressed, work, sends>>
      /\ operator' = NoEmail /\ faults' \in Nat
  BY <1>1 DEF RetryIssue, Fault, TypeOK
<1>3. "PENDING" \in RowStatus \ {"ABSENT"}
  BY DEF RowStatus
<1>4. /\ outbox' \in [Emails -> Row] /\ WorkOK' /\ excuses' \in [Emails -> Nat]
      /\ TypeOK' => Accounted'
  BY <1>2, <1>3, RowMoves
<1>5. TypeOK'
  BY <1>2, <1>4 DEF TypeOK
<1> QED
  BY <1>4, <1>5

\* Nothing that counts changes.
LEMMA Bystander ==
  ASSUME IInv, UNCHANGED <<outbox, appointment, notifying, suppressed, work, sends, excuses, faults>>,
         issues' \in SUBSET Emails, operator' \in Emails \cup {NoEmail}
  PROVE  IInv'
<1> USE DEF IInv
<1>1. TypeOK'
  BY DEF TypeOK
<1>2. WorkOK'
  BY DEF WorkOK, Warranted, Applies, FitsStatus
<1>3. \A e \in Emails : Pursuers(e)' = Pursuers(e) /\ Held(e)' = Held(e)
  BY Undisturbed
<1>4. Accounted'
  BY <1>3 DEF Accounted, Shares, Open
<1> QED
  BY <1>1, <1>2, <1>4

-----------------------------------------------------------------------------
(* Every step.                                                             *)

\* The steps, by who takes them.
LEMMA WhoSteps ==
  ASSUME Next
  PROVE  \/ Booked
         \/ \E e \in Emails : Recover(e) \/ ReadIssue(e) \/ CloseIssue(e)
         \/ \E w \in Workers, e \in Emails : Claim(w, e)
         \/ \E w \in Workers : Proceed(w) \/ Crash(w)
         \/ \E e \in Emails, s \in ProviderStatuses : ReceiveEvent(e, s)
         \/ RetryIssue
BY DEF Next, Booked

LEMMA ProceedPreserves ==
  ASSUME IInv, NEW w \in Workers, Proceed(w)
  PROVE  IInv'
BY CheckAppointmentPreserves, CheckStatusPreserves, SendPreserves, ThrowPreserves,
   RecordSentPreserves, RecordFailurePreserves, ReportPreserves DEF Proceed

LEMMA IInvKept == IInv /\ [Next]_vars => IInv'
<1> SUFFICES ASSUME IInv, [Next]_vars PROVE IInv'
  OBVIOUS
<1>1. CASE UNCHANGED vars
  BY <1>1, Bystander DEF vars, IInv, TypeOK
<1>2. CASE Booked
  BY <1>2, BookedPreserves
<1>3. CASE \E e \in Emails : Recover(e) \/ ReadIssue(e) \/ CloseIssue(e)
  <2>1. PICK e \in Emails : Recover(e) \/ ReadIssue(e) \/ CloseIssue(e)
    BY <1>3
  <2>2. CASE Recover(e)
    BY <2>2, RecoverPreserves
  <2>3. CASE ReadIssue(e)
    <3>1. issues' \in SUBSET Emails /\ operator' \in Emails \cup {NoEmail}
      BY <2>3 DEF ReadIssue, IInv, TypeOK
    <3> QED
      BY <2>3, <3>1, Bystander DEF ReadIssue
  <2>4. CASE CloseIssue(e)
    <3>1. issues' \in SUBSET Emails /\ operator' \in Emails \cup {NoEmail}
      BY <2>4 DEF CloseIssue, IInv, TypeOK
    <3> QED
      BY <2>4, <3>1, Bystander DEF CloseIssue
  <2> QED
    BY <2>1, <2>2, <2>3, <2>4
<1>4. CASE \E w \in Workers, e \in Emails : Claim(w, e)
  BY <1>4, ClaimPreserves
<1>5. CASE \E w \in Workers : Proceed(w) \/ Crash(w)
  BY <1>5, ProceedPreserves, CrashPreserves
<1>6. CASE \E e \in Emails, s \in ProviderStatuses : ReceiveEvent(e, s)
  BY <1>6, ReceiveEventPreserves
<1>7. CASE RetryIssue
  BY <1>7, RetryIssuePreserves
<1> QED
  BY <1>1, <1>2, <1>3, <1>4, <1>5, <1>6, <1>7, WhoSteps

\* Only a worker that is ready, and so has seen what it sends stand, sends.
LEMMA OnlyReadySend ==
  ASSUME IInv, [Next]_vars, NEW e \in Emails, sends'[e] > sends[e]
  PROVE  \E w \in Workers : Holds(w, e) /\ work[w].step = "ready" /\ work[w].stood
<1>1. sends' # sends
  BY DEF IInv, TypeOK
<1>2. PICK w \in Workers : Send(w)
  BY <1>1, BookedAmends, WhoSteps
     DEF IInv, Recover, ReadIssue, CloseIssue, Claim, Proceed, Crash, ReceiveEvent, RetryIssue, vars,
         CheckAppointment, CheckStatus, Throw, RecordSent, RecordFailure, Report, others, outside
<1>3. work[w].step = "ready" /\ sends' = [sends EXCEPT ![work[w].email] = @ + 1]
  BY <1>2 DEF Send
<1>4. work[w].email = e
  BY <1>3 DEF IInv, TypeOK
<1>5. work[w].stood
  BY <1>3 DEF IInv, WorkOK
<1> QED
  BY <1>3, <1>4, <1>5 DEF Holds

\* What may replace an outcome.
Replaced(e) ==
    \/ Priority[outbox[e].status] < Priority[outbox'[e].status]
       /\ outbox'[e].status \in ProviderStatuses
    \/ operator = e /\ operator' = NoEmail
    \/ Held(e)

LEMMA OnlyReplaced ==
  ASSUME IInv, [Next]_vars, NEW e \in Emails,
         outbox[e].status \in Settled, outbox'[e] # outbox[e]
  PROVE  Replaced(e)
<1> USE DEF Settled
<1>1. ASSUME NEW f \in Emails, NEW s \in RowStatus, outbox' = SetStatus(f, s)
      PROVE  f = e
  BY <1>1, StatusSet DEF IInv
<1>2. CASE UNCHANGED vars
  BY <1>2 DEF vars
<1>3. CASE Booked
  BY <1>3, BookedAmends DEF Amended, IInv
<1>4. CASE \E f \in Emails : Recover(f) \/ ReadIssue(f) \/ CloseIssue(f)
  BY <1>1, <1>4 DEF Recover, ReadIssue, CloseIssue, RowStatus
<1>5. CASE \E w \in Workers, f \in Emails : Claim(w, f)
  BY <1>1, <1>5 DEF Claim, Claimable, RowStatus
<1>6. CASE \E w \in Workers : Proceed(w) \/ Crash(w)
  <2>1. PICK w \in Workers :
          \/ CheckAppointment(w) /\ outbox' = SetStatus(work[w].email, "CANCELLED")
          \/ RecordSent(w)
          \/ RecordFailure(w)
    BY <1>6 DEF Proceed, Crash, CheckAppointment, CheckStatus, Send, Throw, Report, others
  <2>2. work[w].step \in {"claimed", "sent", "failed"}
    BY <2>1 DEF CheckAppointment, RecordSent, RecordFailure
  <2>3. PICK f \in Emails : f = work[w].email
    BY <2>2, AtWork
  <2>4. f = e
    <3>1. CASE CheckAppointment(w) /\ outbox' = SetStatus(work[w].email, "CANCELLED")
      BY <1>1, <2>3, <3>1 DEF RowStatus
    <3>2. CASE RecordSent(w)
      BY <2>3, <3>2 DEF RecordSent, IInv, TypeOK
    <3>3. CASE RecordFailure(w)
      BY <2>3, <3>3 DEF RecordFailure, IInv, TypeOK
    <3> QED
      BY <2>1, <3>1, <3>2, <3>3
  <2> QED
    BY <2>2, <2>3, <2>4 DEF Replaced, Held, Holds
<1>7. CASE \E f \in Emails, s \in ProviderStatuses : ReceiveEvent(f, s)
  <2>1. PICK f \in Emails, s \in ProviderStatuses : ReceiveEvent(f, s)
    BY <1>7
  <2>2. s \in RowStatus \ {"ABSENT"} /\ outbox' = SetStatus(f, s)
    BY <2>1, OutboxAssumption DEF RowStatus, ReceiveEvent
  <2>3. outbox'[f].status = s /\ f = e
    BY <1>1, <2>2, RowWritten DEF IInv
  <2> QED
    BY <2>1, <2>3 DEF Replaced, ReceiveEvent
<1>8. CASE RetryIssue
  <2>1. PICK f \in Emails : f = operator
    BY <1>8 DEF RetryIssue, IInv, TypeOK
  <2>2. f = e
    BY <1>1, <1>8, <2>1 DEF RetryIssue, RowStatus
  <2> QED
    BY <1>8, <2>1, <2>2 DEF RetryIssue, Replaced
<1> QED
  BY <1>2, <1>3, <1>4, <1>5, <1>6, <1>7, <1>8, WhoSteps

-----------------------------------------------------------------------------
(* The theorems.                                                           *)

LEMMA IInvHolds == Spec => []IInv
BY InitHolds, IInvKept, PTL DEF Spec

\* Rows, the appointment and the work in progress are well formed.
THEOREM OutboxTyped == Spec => []TypeOK
BY IInvHolds, PTL DEF IInv

\* However many workers run, lapse or die, and however often the appointment is
\* moved, the provider is asked once for an email and once more for each lost
\* answer, lapse, reported delay or retry by the owner.
THEOREM NeverRepeatedUnprovoked == Spec => []NoUnprovokedRepeat
<1>1. IInv => NoUnprovokedRepeat
  <2> SUFFICES ASSUME IInv, NEW e \in Emails PROVE sends[e] <= 1 + excuses[e]
    BY DEF NoUnprovokedRepeat
  <2>1. sends[e] + Shares(e) <= 1 + excuses[e] /\ sends[e] \in Nat /\ excuses[e] \in Nat
    BY DEF IInv, Accounted, TypeOK
  <2> QED
    BY <2>1, SharesType
<1> QED
  BY <1>1, IInvHolds, PTL

\* Whatever is sent, its worker has seen the appointment confirmed (cancelled,
\* for that notice) since it claimed the row and, where the email carries its
\* start as data, at that start.  The notices to staff do not carry it.
THEOREM OnlyWarrantedSent == Spec => SentAsWarranted
<1>1. IInv /\ [Next]_vars =>
        [\A e \in Emails :
           sends'[e] > sends[e] =>
             \E w \in Workers : Holds(w, e) /\ work[w].step = "ready" /\ work[w].stood]_vars
  BY OnlyReadySend
<1> QED
  BY <1>1, IInvHolds, PTL DEF Spec, SentAsWarranted

\* An outcome gives way only to a later report of the provider, the owner's retry
\* or a worker that held the row.
THEOREM OutcomesStand == Spec => OutcomeStands
<1>1. IInv /\ [Next]_vars =>
        [\A e \in Emails :
           outbox[e].status \in Settled /\ outbox'[e] # outbox[e] => Replaced(e)]_vars
  BY OnlyReplaced
<1> QED
  BY <1>1, IInvHolds, PTL DEF Spec, OutcomeStands, Replaced
=============================================================================
