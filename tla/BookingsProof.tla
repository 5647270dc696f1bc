--------------------------- MODULE BookingsProof ---------------------------
(***************************************************************************)
(* Theorems about Bookings for every set of appointments, holds, actors,   *)
(* staff and resources, every grid, duration and buffer.                   *)
(*                                                                         *)
(* The steps of the system have five kinds of effect on the tables and the *)
(* requests (StepHasEffect): on a hold, on a request, the commit of a      *)
(* booking, a row that is inserted, a row that is changed.  Each keeps the *)
(* inductive invariant (EffectKeepsIInv) and is a step of the exclusive    *)
(* calendar or none (EffectOnCalendar).  That the calendar is exclusive is *)
(* then shown once, of the abstract steps (CalendarStaysExclusive).        *)
(***************************************************************************)
EXTENDS Bookings, TLAPS

-----------------------------------------------------------------------------
(* The inductive invariant.                                                *)

\* The hold was made and no longer counts; it never will again.
Over(h) == hold[h].status # "ABSENT" /\ ~LiveHold(h)

RowsPlaced ==
    /\ \A a \in Appts : appt[a].status # "ABSENT" => appt[a].slot \in Slot
    /\ \A h \in Holds : hold[h].status # "ABSENT" => hold[h].slot \in Slot

\* The hold that booking q has validated: it was made for the slot and no
\* appointment has it.
HoldTaken(q) == /\ q.hold \in Holds
                /\ hold[q.hold].status # "ABSENT"
                /\ hold[q.hold].slot = q.slot
                /\ \A a \in Appts : appt[a].hold # q.hold

BookOK(c, q) == /\ c \in Visitors
                /\ q.slot \in Slot
                /\ q.status \in Manageable
                /\ appt[q.appt].status = "ABSENT"
                /\ q.hold # NoHold => HoldTaken(q)

\* What request q of actor c may rely on until it is written.
RequestOK(c, q) ==
    /\ \A h \in q.past : Over(h)
    /\ q.op # "none" => q.appt \in Appts
    /\ q.op = "book" => BookOK(c, q)
    /\ q.op \in {"status", "move", "manage"} => appt[q.appt].status # "ABSENT"
    /\ q.op = "status" => q.status # "ABSENT"
    /\ q.op = "move" => q.slot \in Slot
    /\ q.op = "manage" /\ q.fresh =>
          appt[q.appt].slot = q.slot /\ appt[q.appt].status = q.status

RequestsOK == \A c \in Actors : RequestOK(c, req[c])

\* The advisory locks on idempotency key and hold.
Apart(q, r) == q.op = "book" /\ r.op = "book" =>
                   /\ q.appt # r.appt
                   /\ q.hold # NoHold => q.hold # r.hold

BookingsApart == \A c, d \in Actors : c # d => Apart(req[c], req[d])

\* An appointment's hold is spent.
HoldsSpent == \A a \in Appts : appt[a].hold # NoHold =>
                  hold[appt[a].hold].status \notin {"ABSENT", "ACTIVE"}

IInv == /\ TypeOK
        /\ RowsPlaced
        /\ RequestsOK
        /\ BookingsApart
        /\ HoldsSpent
        /\ OneAppointmentPerHold

-----------------------------------------------------------------------------
(* The kinds of effect.                                                    *)

\* Of the holds that count, at most one ends, or is made where it may be.
AtMostOneHold ==
    \/ \A h \in Holds : LiveHold(h)' = LiveHold(h)
    \/ \E h \in Holds :
          /\ \A g \in Holds \ {h} : LiveHold(g)' = LiveHold(g)
          /\ \/ ~LiveHold(h)'
             \/ hold[h].status = "ABSENT" /\ Available(hold'[h].slot, NoAppt)

HoldEffect ==
    /\ hold' \in [Holds -> HoldRow]
    /\ \A h \in Holds :
          /\ hold'[h].status # "ABSENT" => hold'[h].slot \in Slot
          /\ hold[h].status # "ABSENT" =>
                /\ hold'[h].status # "ABSENT"
                /\ hold'[h].slot = hold[h].slot
                /\ hold[h].status # "ACTIVE" => hold'[h].status # "ACTIVE"
                /\ ~LiveHold(h) => ~LiveHold(h)'
          /\ hold[h].status = "ABSENT" /\ hold'[h].status = "ACTIVE" =>
                Available(hold'[h].slot, NoAppt)
    /\ AtMostOneHold
    /\ UNCHANGED <<appt, req>>

RequestEffect ==
    \E c \in Actors, q \in Request :
       /\ req' = [req EXCEPT ![c] = q]
       /\ RequestOK(c, q)
       /\ q.op = "book" => RanOut \subseteq q.past
       /\ \A d \in Actors \ {c} : Apart(q, req[d]) /\ Apart(req[d], q)
       /\ UNCHANGED <<appt, hold>>

CommitEffect == \E c \in Visitors : CommitBooking(c)

InsertEffect ==
    \E a \in Appts, s \in Slot, status \in Status \ {"ABSENT", "CANCELLED", "NO_SHOW"} :
       /\ Unused(a)
       /\ Admits(s, a, NoHold, RanOut)
       /\ appt' = [appt EXCEPT ![a] = [status |-> status, slot |-> s, hold |-> NoHold]]
       /\ UNCHANGED <<hold, req>>

\* The trigger's verdict on a change of appointment a.
Passes(a, status, s) ==
    \/ status \in {"CANCELLED", "NO_SHOW"}
    \/ s = appt[a].slot /\ Occupies(a)
    \/ \E past \in SUBSET Holds :
          Admits(s, a, NoHold, past) /\ \A h \in past : Over(h)

\* done: the actors whose requests the change answers, a customer's only if
\* nothing was changed since the customer looked.
ChangeEffect ==
    \E a \in Appts, s \in Slot, status \in Status \ {"ABSENT"}, done \in SUBSET Actors :
       /\ appt[a].status # "ABSENT"
       /\ Passes(a, status, s)
       /\ appt' = [appt EXCEPT ![a].status = status, ![a].slot = s]
       /\ req' = [c \in Actors |-> IF c \in done THEN NoRequest ELSE Touched(a)[c]]
       /\ \A c \in done : req[c].op = "manage" => req[c].fresh
       /\ UNCHANGED hold

Effect == \/ HoldEffect \/ RequestEffect \/ CommitEffect
          \/ InsertEffect \/ ChangeEffect

-----------------------------------------------------------------------------
(* The initial states.                                                     *)

\* An actor without a request relies on nothing.
LEMMA NoRequestOK ==
    /\ NoRequest \in Request
    /\ \A c \in Actors : RequestOK(c, NoRequest)
    /\ \A q \in Request : Apart(NoRequest, q) /\ Apart(q, NoRequest)
    /\ NoRequest.op = "none"
  BY DEF NoRequest, Request, RequestOK, Apart, Status, Terminal, Manageable

\* The invariant holds of the empty tables.
LEMMA InitIInv == Init => IInv
  <1> SUFFICES ASSUME Init PROVE IInv
    OBVIOUS
  <1>1. TypeOK
    BY NoRequestOK DEF Init, TypeOK, Row, HoldRow, Status, Terminal, Manageable
  <1>2. RequestsOK /\ BookingsApart
    BY NoRequestOK DEF Init, RequestsOK, BookingsApart
  <1>3. RowsPlaced /\ HoldsSpent /\ OneAppointmentPerHold
    BY DEF Init, RowsPlaced, HoldsSpent, OneAppointmentPerHold
  <1> QED
    BY <1>1, <1>2, <1>3 DEF IInv
-----------------------------------------------------------------------------
(* Every step has one of the effects.                                      *)

\* The sweep only turns holds that ran out into EXPIRED ones.
LEMMA SweptHolds ==
    ASSUME TypeOK
    PROVE  /\ Swept \in [Holds -> HoldRow]
           /\ \A h \in Holds :
                 /\ Swept[h].slot = hold[h].slot
                 /\ Swept[h].live = hold[h].live
                 /\ Swept[h].status \in {hold[h].status, "EXPIRED"}
                 /\ Swept[h].status = "EXPIRED" => ~LiveHold(h)
                 /\ Swept[h].status = "ABSENT" <=> hold[h].status = "ABSENT"
  <1> USE DEF TypeOK, HoldRow
  <1>1. ASSUME NEW h \in Holds
        PROVE  /\ Swept[h] \in HoldRow
               /\ Swept[h].slot = hold[h].slot
               /\ Swept[h].live = hold[h].live
               /\ Swept[h].status \in {hold[h].status, "EXPIRED"}
               /\ Swept[h].status = "EXPIRED" => ~LiveHold(h)
               /\ Swept[h].status = "ABSENT" <=> hold[h].status = "ABSENT"
    <2>1. CASE h \in RanOut
      BY <1>1, <2>1 DEF Swept, RanOut, LiveHold
    <2>2. CASE h \notin RanOut
      BY <1>1, <2>2 DEF Swept, LiveHold
    <2> QED BY <2>1, <2>2
  <1> QED
    BY <1>1 DEF Swept

\* Making, returning, releasing a hold and its running out are hold effects.
LEMMA HoldActions ==
    ASSUME IInv, NEW h \in Holds,
           \/ RunOut(h) \/ ReturnHold(h) \/ ReleaseHold(h)
           \/ \E s \in Slot : CreateHold(h, s)
    PROVE  HoldEffect
  <1> USE DEF IInv, TypeOK, HoldRow, RowsPlaced
  <1>1. CASE RunOut(h)
    <2>1. \A g \in Holds \ {h} : LiveHold(g)' = LiveHold(g)
      BY <1>1 DEF RunOut, LiveHold
    <2>2. ~LiveHold(h)'
      BY <1>1 DEF RunOut, LiveHold
    <2> QED
      BY <1>1, <2>1, <2>2 DEF RunOut, HoldEffect, LiveHold, AtMostOneHold
  <1>2. CASE ReturnHold(h)
    <2>1. hold' = Swept /\ UNCHANGED <<appt, req>>
      BY <1>2 DEF ReturnHold
    <2>2. \A g \in Holds : LiveHold(g)' = LiveHold(g)
      BY <2>1, SweptHolds DEF LiveHold
    <2> QED
      BY <2>1, <2>2, SweptHolds DEF HoldEffect, LiveHold, AtMostOneHold
  <1>3. CASE ReleaseHold(h)
    <2>1. \A g \in Holds \ {h} : LiveHold(g)' = LiveHold(g)
      BY <1>3 DEF ReleaseHold, LiveHold
    <2>2. ~LiveHold(h)'
      BY <1>3 DEF ReleaseHold, LiveHold
    <2> QED
      BY <1>3, <2>1, <2>2 DEF ReleaseHold, HoldEffect, LiveHold, AtMostOneHold
  <1>4. CASE \E s \in Slot : CreateHold(h, s)
    <2>1. PICK s \in Slot : CreateHold(h, s)
      BY <1>4
    <2>2. /\ hold[h].status = "ABSENT"
          /\ Available(s, NoAppt)
          /\ hold' = [Swept EXCEPT ![h] =
                         [status |-> "ACTIVE", live |-> TRUE, slot |-> s]]
          /\ UNCHANGED <<appt, req>>
      BY <2>1 DEF CreateHold
    <2>3. hold' \in [Holds -> HoldRow]
      BY <2>2, SweptHolds
    <2>4. \A g \in Holds : hold'[g].status # "ABSENT" => hold'[g].slot \in Slot
      BY <2>2, SweptHolds
    <2>5. \A g \in Holds \ {h} : hold'[g] = Swept[g]
      BY <2>2, SweptHolds
    <2>6. hold'[h].slot = s
      BY <2>2, SweptHolds
    <2>7. \A g \in Holds \ {h} : LiveHold(g)' = LiveHold(g)
      BY <2>5, SweptHolds DEF LiveHold
    <2>8. AtMostOneHold
      BY <2>2, <2>6, <2>7 DEF AtMostOneHold
    <2>9. \A g \in Holds : hold[g].status = "ABSENT" /\ hold'[g].status = "ACTIVE" =>
             Available(hold'[g].slot, NoAppt)
      BY <2>2, <2>5, <2>6, SweptHolds
    <2> QED
      BY <2>2, <2>3, <2>4, <2>5, <2>7, <2>8, <2>9, SweptHolds DEF HoldEffect
  <1> QED
    BY <1>1, <1>2, <1>3, <1>4

\* A hold that ran out is over.
LEMMA RanOutOver == \A h \in RanOut : Over(h)
  BY DEF RanOut, Over, LiveHold

\* A request that is no booking leaves every lock alone.
LEMMA ApartUnlessBook == ASSUME NEW q, q.op # "book"
                         PROVE  \A r : Apart(q, r) /\ Apart(r, q)
  BY DEF Apart

\* Beginning and giving up a request are request effects.
LEMMA RequestActions ==
    ASSUME IInv, NEW c \in Actors,
           \/ GiveUp(c)
           \/ \E a \in Appts : View(c, a) \/ SessionExpires(c, a)
           \/ \E a \in Appts, to \in Status : ReadStatus(c, a, to)
           \/ \E a \in Appts, s \in Slot, keep \in BOOLEAN : ReadReschedule(c, a, s, keep)
    PROVE  RequestEffect
  <1> USE DEF IInv, TypeOK, Row, Status, Terminal, Manageable
  <1>0. RanOut \subseteq Holds
    BY DEF RanOut
  <1>1. CASE GiveUp(c)
    BY <1>1, NoRequestOK DEF GiveUp, RequestEffect
  <1>2. CASE \E a \in Appts : View(c, a)
    <2>1. PICK a \in Appts : View(c, a)
      BY <1>2
    <2> DEFINE q == [NoRequest EXCEPT !.op = "manage", !.appt = a, !.fresh = TRUE,
                        !.status = appt[a].status, !.slot = appt[a].slot]
    <2>2. q \in Request /\ q.op = "manage"
      BY DEF Request, NoRequest
    <2>3. RequestOK(c, q)
      BY <2>1 DEF View, NoRequest, RequestOK
    <2>4. req' = [req EXCEPT ![c] = q] /\ UNCHANGED <<appt, hold>>
      BY <2>1 DEF View
    <2> HIDE DEF q
    <2> QED
      BY <2>2, <2>3, <2>4, ApartUnlessBook DEF RequestEffect
  <1>3. CASE \E a \in Appts : SessionExpires(c, a)
    <2>1. PICK a \in Appts : SessionExpires(c, a)
      BY <1>3
    <2> DEFINE q == [NoRequest EXCEPT !.op = "status", !.appt = a,
                        !.status = "CANCELLED", !.past = RanOut]
    <2>2. q \in Request /\ q.op = "status"
      BY <1>0 DEF Request, NoRequest
    <2>3. RequestOK(c, q)
      BY <2>1, RanOutOver DEF SessionExpires, NoRequest, RequestOK
    <2>4. req' = [req EXCEPT ![c] = q] /\ UNCHANGED <<appt, hold>>
      BY <2>1 DEF SessionExpires
    <2> HIDE DEF q
    <2> QED
      BY <2>2, <2>3, <2>4, ApartUnlessBook DEF RequestEffect
  <1>4. CASE \E a \in Appts, to \in Status : ReadStatus(c, a, to)
    <2>1. PICK a \in Appts, to \in Status : ReadStatus(c, a, to)
      BY <1>4
    <2> DEFINE q == [NoRequest EXCEPT !.op = "status", !.appt = a,
                        !.status = to, !.past = RanOut]
    <2>2. q \in Request /\ q.op = "status"
      BY <1>0 DEF Request, NoRequest
    <2>3. appt[a].status # "ABSENT" /\ to # "ABSENT"
      BY <2>1 DEF ReadStatus, MaySetStatus, Transitions, MayCancel
    <2>4. RequestOK(c, q)
      BY <2>3, RanOutOver DEF NoRequest, RequestOK
    <2>5. req' = [req EXCEPT ![c] = q] /\ UNCHANGED <<appt, hold>>
      BY <2>1 DEF ReadStatus
    <2> HIDE DEF q
    <2> QED
      BY <2>2, <2>4, <2>5, ApartUnlessBook DEF RequestEffect
  <1>5. CASE \E a \in Appts, s \in Slot, keep \in BOOLEAN : ReadReschedule(c, a, s, keep)
    <2>1. PICK a \in Appts, s \in Slot, keep \in BOOLEAN : ReadReschedule(c, a, s, keep)
      BY <1>5
    <2> DEFINE q == [NoRequest EXCEPT !.op = "move", !.appt = a, !.slot = s,
                        !.keep = keep, !.past = RanOut]
    <2>2. q \in Request /\ q.op = "move"
      BY <1>0 DEF Request, NoRequest
    <2>3. RequestOK(c, q)
      BY <2>1, RanOutOver DEF ReadReschedule, MayReschedule, NoRequest, RequestOK
    <2>4. req' = [req EXCEPT ![c] = q] /\ UNCHANGED <<appt, hold>>
      BY <2>1 DEF ReadReschedule
    <2> HIDE DEF q
    <2> QED
      BY <2>2, <2>3, <2>4, ApartUnlessBook DEF RequestEffect
  <1> QED
    BY <1>1, <1>2, <1>3, <1>4, <1>5

\* Making an appointment at the desk and blocking time insert a row.
LEMMA InsertActions ==
    ASSUME NEW a \in Appts, NEW s \in Slot,
           \/ BlockTime(a, s)
           \/ \E status \in {"CONFIRMED", "CHECKED_IN", "COMPLETED"} :
                 ManualBooking(a, s, status)
    PROVE  InsertEffect
  <1> USE DEF InsertEffect, Admits, Status, Terminal, Manageable
  <1>1. CASE BlockTime(a, s)
    BY <1>1 DEF BlockTime
  <1>2. CASE \E status \in {"CONFIRMED", "CHECKED_IN", "COMPLETED"} :
                ManualBooking(a, s, status)
    BY <1>2 DEF ManualBooking
  <1> QED
    BY <1>1, <1>2

\* Update as a change effect that answers c.
LEMMA UpdateIsChange ==
    ASSUME IInv, NEW c \in Actors, NEW a \in Appts, NEW status \in Status, NEW s \in Slot,
           appt[a].status # "ABSENT", status # "ABSENT",
           \A h \in req[c].past : Over(h), req[c].op # "manage",
           Update(c, a, status, s)
    PROVE  ChangeEffect
  <1>1. req[c].past \in SUBSET Holds
    BY DEF IInv, TypeOK, Request
  <1>2. Passes(a, status, s)
    <2>1. CASE status = appt[a].status /\ s = appt[a].slot
      BY <2>1 DEF Passes, Occupies
    <2>2. CASE status \in {"CANCELLED", "NO_SHOW"}
      BY <2>2 DEF Passes
    <2>3. CASE Admits(s, a, NoHold, req[c].past)
      BY <2>3, <1>1 DEF Passes
    <2> QED
      BY <2>1, <2>2, <2>3 DEF Update
  <1>3. req' = [d \in Actors |-> IF d \in {c} THEN NoRequest ELSE Touched(a)[d]]
    BY DEF Update, Touched
  <1>4. /\ appt' = [appt EXCEPT ![a].status = status, ![a].slot = s]
        /\ UNCHANGED hold
    BY DEF Update
  <1>5. {c} \in SUBSET Actors
    OBVIOUS
  <1> QED
    BY <1>2, <1>3, <1>4, <1>5 DEF ChangeEffect

\* Writing what a staff request or an expired session asked for.
LEMMA WriteActions ==
    ASSUME IInv, NEW c \in Actors, WriteStatus(c) \/ WriteReschedule(c)
    PROVE  ChangeEffect
  <1> USE DEF IInv, TypeOK, RowsPlaced
  <1>1. req[c] \in Request /\ RequestOK(c, req[c])
    BY DEF RequestsOK
  <1>2. CASE WriteStatus(c)
    <2>1. /\ req[c].appt \in Appts
          /\ appt[req[c].appt].status # "ABSENT" /\ req[c].status # "ABSENT"
          /\ req[c].status \in Status /\ req[c].op # "manage"
      BY <1>1, <1>2 DEF WriteStatus, RequestOK, Request
    <2>2. appt[req[c].appt].slot \in Slot
      BY <2>1
    <2>3. Update(c, req[c].appt, req[c].status, appt[req[c].appt].slot)
      BY <1>2 DEF WriteStatus
    <2> QED
      BY <1>1, <2>1, <2>2, <2>3, UpdateIsChange DEF RequestOK
  <1>3. CASE WriteReschedule(c)
    <2> DEFINE r == req[c]
               row == appt[r.appt]
               s == [r.slot EXCEPT !.resource = IF r.keep THEN row.slot.resource ELSE @]
    <2>1. /\ r.appt \in Appts
          /\ row.status # "ABSENT"
          /\ r.slot \in Slot /\ r.op # "manage"
      BY <1>1, <1>3 DEF WriteReschedule, RequestOK
    <2>2. row \in Row /\ row.slot \in Slot
      BY <2>1
    <2>3. s \in Slot
      BY <2>1, <2>2 DEF Slot
    <2>4. Update(c, r.appt, row.status, s)
      BY <1>3 DEF WriteReschedule
    <2>5. row.status \in Status
      BY <2>2 DEF Row
    <2> HIDE DEF s
    <2> QED
      BY <1>1, <2>1, <2>3, <2>4, <2>5, UpdateIsChange DEF RequestOK
  <1> QED
    BY <1>2, <1>3

\* A change of the status alone writes the slot that was there.
LEMMA StatusAlone ==
    ASSUME TypeOK, NEW a \in Appts, NEW status
    PROVE  [appt EXCEPT ![a].status = status] =
           [appt EXCEPT ![a].status = status, ![a].slot = appt[a].slot]
  BY DEF TypeOK, Row

\* A change of the slot alone writes the status that was there.
LEMMA SlotAlone ==
    ASSUME TypeOK, NEW a \in Appts, NEW s
    PROVE  [appt EXCEPT ![a].slot = s] =
           [appt EXCEPT ![a].status = appt[a].status, ![a].slot = s]
  BY DEF TypeOK, Row

\* Unblocking and a payment answer no request.
LEMMA OtherChanges ==
    ASSUME IInv, NEW a \in Appts, Unblock(a) \/ PaymentSucceeds(a)
    PROVE  ChangeEffect
  <1> USE DEF IInv
  <1>1. req' = Touched(a) => req' = [d \in Actors |-> IF d \in {} THEN NoRequest ELSE Touched(a)[d]]
    BY DEF Touched
  <1>2. appt[a].status # "ABSENT" => appt[a].slot \in Slot
    BY DEF RowsPlaced
  <1>3. {} \in SUBSET Actors /\ \A d \in {} : req[d].op = "manage" => req[d].fresh
    OBVIOUS
  <1>4. CASE Unblock(a)
    <2>1. Passes(a, "CANCELLED", appt[a].slot)
      BY DEF Passes
    <2>2. "CANCELLED" \in Status \ {"ABSENT"}
      BY DEF Status, Terminal
    <2>3. /\ appt[a].status = "BLOCKED"
          /\ appt' = [appt EXCEPT ![a].status = "CANCELLED"]
          /\ req' = Touched(a)
          /\ UNCHANGED hold
      BY <1>4 DEF Unblock
    <2>4. appt' = [appt EXCEPT ![a].status = "CANCELLED", ![a].slot = appt[a].slot]
      BY <2>3, StatusAlone
    <2> QED
      BY <1>1, <1>2, <1>3, <2>1, <2>2, <2>3, <2>4 DEF ChangeEffect
  <1>5. CASE PaymentSucceeds(a)
    <2>1. /\ appt[a].status = "PENDING"
          /\ appt' = [appt EXCEPT ![a].status = "CONFIRMED"]
          /\ req' = Touched(a)
          /\ UNCHANGED hold
      BY <1>5 DEF PaymentSucceeds
    <2>2. Passes(a, "CONFIRMED", appt[a].slot)
      BY <2>1 DEF Passes, Occupies
    <2>3. "CONFIRMED" \in Status \ {"ABSENT"}
      BY DEF Status, Manageable
    <2>4. appt' = [appt EXCEPT ![a].status = "CONFIRMED", ![a].slot = appt[a].slot]
      BY <2>1, StatusAlone
    <2> QED
      BY <1>1, <1>2, <1>3, <2>1, <2>2, <2>3, <2>4 DEF ChangeEffect
  <1> QED
    BY <1>4, <1>5

\* The customer's own changes answer the customer's request.
LEMMA CustomerChanges ==
    ASSUME IInv, NEW c \in Actors,
           CustomerCancel(c) \/ \E s \in Slot : CustomerReschedule(c, s)
    PROVE  ChangeEffect
  <1> USE DEF IInv
  <1> DEFINE a == req[c].appt
  <1>1. MayManage(c)
    BY DEF CustomerCancel, CustomerReschedule
  <1>2. a \in Appts
    BY <1>1 DEF MayManage, RequestsOK, RequestOK
  <1>3. appt[a].status \in Manageable /\ appt[a].slot \in Slot
    BY <1>1, <1>2 DEF MayManage, RowsPlaced, Manageable
  <1>4. ASSUME req' = [Touched(a) EXCEPT ![c] = NoRequest]
        PROVE  req' = [d \in Actors |-> IF d \in {c} THEN NoRequest ELSE Touched(a)[d]]
    BY <1>4 DEF Touched
  <1>5. {c} \in SUBSET Actors /\ \A d \in {c} : req[d].op = "manage" => req[d].fresh
    BY <1>1 DEF MayManage
  <1>6. CASE CustomerCancel(c)
    <2>1. Passes(a, "CANCELLED", appt[a].slot) /\ "CANCELLED" \in Status \ {"ABSENT"}
      BY DEF Passes, Status, Terminal
    <2>2. /\ appt' = [appt EXCEPT ![a].status = "CANCELLED"]
          /\ req' = [Touched(a) EXCEPT ![c] = NoRequest]
          /\ UNCHANGED hold
      BY <1>6 DEF CustomerCancel
    <2>3. appt[a].status # "ABSENT"
      BY <1>3 DEF Manageable
    <2>4. appt' = [appt EXCEPT ![a].status = "CANCELLED", ![a].slot = appt[a].slot]
      BY <1>2, <2>2, StatusAlone
    <2> HIDE DEF a
    <2> QED
      BY <1>3, <1>2, <1>4, <1>5, <2>1, <2>2, <2>3, <2>4 DEF ChangeEffect
  <1>7. CASE \E s \in Slot : CustomerReschedule(c, s)
    <2>1. PICK s \in Slot : CustomerReschedule(c, s)
      BY <1>7
    <2>2. RanOut \in SUBSET Holds
      BY DEF RanOut
    <2>3. Passes(a, appt[a].status, s)
      BY <2>1, <2>2, RanOutOver DEF CustomerReschedule, Available, Passes
    <2>4. /\ appt' = [appt EXCEPT ![a].slot = s]
          /\ req' = [Touched(a) EXCEPT ![c] = NoRequest]
          /\ UNCHANGED hold
      BY <2>1 DEF CustomerReschedule
    <2>5. appt[a].status \in Status \ {"ABSENT"}
      BY <1>3 DEF Manageable, Status
    <2> HIDE DEF a
    <2> QED
      BY <1>2, <1>4, <1>5, <2>3, <2>4, <2>5, SlotAlone DEF ChangeEffect
  <1> QED
    BY <1>6, <1>7

\* A booking begins under its two advisory locks.
LEMMA BeginAction ==
    ASSUME IInv, NEW c \in Visitors, NEW a \in Appts, NEW h \in Holds \cup {NoHold},
           NEW s \in Slot, NEW status \in Manageable,
           BeginBooking(c, a, h, s, status)
    PROVE  RequestEffect
  <1> USE DEF IInv
  <1> DEFINE q == [NoRequest EXCEPT !.op = "book", !.appt = a, !.hold = h, !.slot = s,
                      !.status = status, !.past = RanOut]
  <1>1. q \in Request
    BY DEF Request, NoRequest, RanOut, Status
  <1>2. /\ q.op = "book" /\ q.appt = a /\ q.hold = h /\ q.slot = s
        /\ q.status = status /\ q.past = RanOut
    BY DEF NoRequest
  <1>3. req' = [req EXCEPT ![c] = q] /\ UNCHANGED <<appt, hold>>
    BY DEF BeginBooking
  <1> HIDE DEF q
  <1>4. Unused(a) /\ ValidHold(h, s)
    BY DEF BeginBooking
  <1>5. h # NoHold => HoldTaken(q)
    BY <1>2, <1>4 DEF ValidHold, HoldTaken, LiveHold, HoldsSpent
  <1>6. RequestOK(c, q)
    BY <1>2, <1>4, <1>5, RanOutOver DEF RequestOK, BookOK, Unused
  <1>7. ASSUME NEW d \in Actors \ {c}
        PROVE  Apart(q, req[d]) /\ Apart(req[d], q)
    <2> SUFFICES ASSUME req[d].op = "book"
                 PROVE  req[d].appt # a /\ (h # NoHold => req[d].hold # h)
      BY <1>2 DEF Apart
    <2>1. d \in Visitors
      BY DEF RequestsOK, RequestOK, BookOK
    <2> QED
      BY <2>1, <1>4 DEF Unused, ValidHold, HoldUnlocked
  <1>8. c \in Actors
    BY DEF Actors
  <1> QED
    BY <1>1, <1>2, <1>3, <1>6, <1>7, <1>8 DEF RequestEffect

\* A step in which nothing happens is a hold effect.
LEMMA StutterEffect == ASSUME IInv, UNCHANGED vars
                       PROVE  HoldEffect
  BY DEF IInv, TypeOK, RowsPlaced, vars, HoldEffect, LiveHold, AtMostOneHold

\* Every step of the specification has one of the five effects.
LEMMA StepHasEffect == ASSUME IInv, [Next]_vars
                       PROVE  Effect
  <1> USE DEF Effect, Actors
  <1>1. CASE UNCHANGED vars
    BY <1>1, StutterEffect
  <1>2. CASE \E h \in Holds : \/ RunOut(h) \/ ReturnHold(h) \/ ReleaseHold(h)
                              \/ \E s \in Slot : CreateHold(h, s)
    BY <1>2, HoldActions
  <1>3. CASE \E c \in Visitors, a \in Appts, h \in Holds \cup {NoHold}, s \in Slot,
                status \in Manageable : BeginBooking(c, a, h, s, status)
    BY <1>3, BeginAction
  <1>4. CASE \E c \in Visitors : CommitBooking(c)
    BY <1>4 DEF CommitEffect
  <1>5. CASE \E c \in Actors :
                \/ GiveUp(c)
                \/ \E a \in Appts : View(c, a) \/ SessionExpires(c, a)
                \/ \E a \in Appts, to \in Status : ReadStatus(c, a, to)
                \/ \E a \in Appts, s \in Slot, keep \in BOOLEAN :
                      ReadReschedule(c, a, s, keep)
    BY <1>5, RequestActions
  <1>6. CASE \E a \in Appts, s \in Slot :
                \/ BlockTime(a, s)
                \/ \E status \in {"CONFIRMED", "CHECKED_IN", "COMPLETED"} :
                      ManualBooking(a, s, status)
    BY <1>6, InsertActions
  <1>7. CASE \E a \in Appts : Unblock(a) \/ PaymentSucceeds(a)
    BY <1>7, OtherChanges
  <1>8. CASE \E c \in Actors : WriteStatus(c) \/ WriteReschedule(c)
    BY <1>8, WriteActions
  <1>9. CASE \E c \in Actors : CustomerCancel(c) \/ \E s \in Slot : CustomerReschedule(c, s)
    BY <1>9, CustomerChanges
  <1>10. CASE Next
    <2> USE <1>10
    <2> QED
      BY <1>2, <1>3, <1>4, <1>5, <1>6, <1>7, <1>8, <1>9, Zenon DEF Next
  <1> QED
    BY <1>1, <1>10

-----------------------------------------------------------------------------
(* Every effect keeps the invariant.                                       *)

\* What a request relies on survives steps that keep the rows it names.
LEMMA RequestKept ==
    ASSUME IInv, NEW c \in Actors,
           \A h \in Holds : hold[h].status # "ABSENT" =>
               /\ hold'[h].status # "ABSENT" /\ hold'[h].slot = hold[h].slot
               /\ ~LiveHold(h) => ~LiveHold(h)',
           \A a \in Appts : appt[a].status # "ABSENT" => appt'[a].status # "ABSENT",
           req'[c].op = req[c].op, req'[c].appt = req[c].appt,
           req'[c].hold = req[c].hold, req'[c].slot = req[c].slot,
           req'[c].status = req[c].status, req'[c].past = req[c].past,
           req[c].op = "book" =>
               /\ appt'[req[c].appt].status = "ABSENT"
               /\ req[c].hold # NoHold => \A a \in Appts : appt'[a].hold # req[c].hold,
           req[c].op = "manage" /\ req'[c].fresh =>
               /\ req[c].fresh
               /\ appt'[req[c].appt].slot = appt[req[c].appt].slot
               /\ appt'[req[c].appt].status = appt[req[c].appt].status
    PROVE  RequestOK(c, req[c])'
  <1> DEFINE q == req[c]
  <1>1. RequestOK(c, q) /\ q \in Request
    BY DEF IInv, RequestsOK, TypeOK
  <1>2. \A h \in req'[c].past : (hold'[h].status # "ABSENT" /\ ~LiveHold(h)')
    BY <1>1 DEF RequestOK, Over, Request
  <1>3. ASSUME q.op = "book"
        PROVE  BookOK(c, q)'
    <2>1. BookOK(c, q) /\ q.appt \in Appts
      BY <1>1, <1>3 DEF RequestOK
    <2>2. q.hold # NoHold => HoldTaken(q)'
      BY <1>3, <2>1 DEF BookOK, HoldTaken
    <2> QED
      BY <1>3, <2>1, <2>2 DEF BookOK
  <1> QED
    BY <1>1, <1>2, <1>3 DEF RequestOK, Over

\* Holds come, end, and never come back.
LEMMA HoldEffectKeeps == ASSUME IInv, HoldEffect
                         PROVE  IInv'
  <1>1. TypeOK'
    BY DEF HoldEffect, IInv, TypeOK
  <1>2. RowsPlaced'
    BY DEF HoldEffect, IInv, RowsPlaced
  <1>3. RequestsOK'
    <2> SUFFICES ASSUME NEW c \in Actors PROVE RequestOK(c, req[c])'
      BY DEF RequestsOK, Actors
    <2>1. RequestOK(c, req[c]) /\ req[c] \in Request
      BY DEF IInv, RequestsOK, TypeOK
    <2> QED
      BY <2>1, RequestKept DEF HoldEffect, LiveHold, RequestOK, BookOK, HoldTaken
  <1>4. BookingsApart' /\ OneAppointmentPerHold'
    BY DEF HoldEffect, IInv, BookingsApart, Apart, OneAppointmentPerHold
  <1>5. HoldsSpent'
    BY DEF HoldEffect, IInv, HoldsSpent, TypeOK, Row
  <1> QED
    BY <1>1, <1>2, <1>3, <1>4, <1>5 DEF IInv

\* A new request relies on what it has just read.
LEMMA RequestEffectKeeps == ASSUME IInv, RequestEffect
                            PROVE  IInv'
  <1>1. PICK c \in Actors, q \in Request :
           /\ req' = [req EXCEPT ![c] = q]
           /\ RequestOK(c, q)
           /\ \A d \in Actors \ {c} : Apart(q, req[d]) /\ Apart(req[d], q)
           /\ UNCHANGED <<appt, hold>>
    BY DEF RequestEffect
  <1>2. TypeOK' /\ RowsPlaced' /\ HoldsSpent' /\ OneAppointmentPerHold'
    BY <1>1 DEF IInv, TypeOK, RowsPlaced, HoldsSpent, OneAppointmentPerHold
  <1>3. \A d \in Actors : req'[d] = IF d = c THEN q ELSE req[d]
    BY <1>1 DEF IInv, TypeOK
  <1>4. RequestsOK'
    <2> SUFFICES ASSUME NEW d \in Actors PROVE RequestOK(d, req[d])'
      BY DEF RequestsOK, Actors
    <2>1. RequestOK(d, req'[d])
      BY <1>1, <1>3 DEF IInv, RequestsOK
    <2> QED
      BY <1>1, <2>1 DEF RequestOK, Over, LiveHold, BookOK, HoldTaken
  <1>5. BookingsApart'
    BY <1>1, <1>3 DEF IInv, BookingsApart, Actors, Apart
  <1> QED
    BY <1>2, <1>4, <1>5 DEF IInv

\* A row is inserted under a key no booking in flight uses.
LEMMA InsertEffectKeeps == ASSUME IInv, InsertEffect
                           PROVE  IInv'
  <1>1. PICK a \in Appts, s \in Slot, status \in Status \ {"ABSENT"} :
           /\ Unused(a)
           /\ appt' = [appt EXCEPT ![a] = [status |-> status, slot |-> s, hold |-> NoHold]]
           /\ UNCHANGED <<hold, req>>
    BY DEF InsertEffect
  <1>2. \A b \in Appts : appt'[b] = IF b = a
                                    THEN [status |-> status, slot |-> s, hold |-> NoHold]
                                    ELSE appt[b]
    BY <1>1 DEF IInv, TypeOK
  <1>3. TypeOK'
    BY <1>1 DEF IInv, TypeOK, Row
  <1>4. RowsPlaced' /\ HoldsSpent' /\ OneAppointmentPerHold'
    BY <1>1, <1>2 DEF IInv, RowsPlaced, HoldsSpent, OneAppointmentPerHold
  <1>5. BookingsApart'
    BY <1>1 DEF IInv, BookingsApart, Apart
  <1>6. RequestsOK'
    <2> SUFFICES ASSUME NEW c \in Actors PROVE RequestOK(c, req[c])'
      BY DEF RequestsOK, Actors
    <2>1. RequestOK(c, req[c])
      BY DEF IInv, RequestsOK
    <2>2. req[c].op = "book" => req[c].appt # a
      BY <1>1, <2>1 DEF RequestOK, BookOK, Unused
    <2>3. req[c].op = "book" =>
             /\ appt'[req[c].appt].status = "ABSENT"
             /\ req[c].hold # NoHold => \A b \in Appts : appt'[b].hold # req[c].hold
      BY <1>2, <2>1, <2>2 DEF RequestOK, BookOK, HoldTaken
    <2>4. req[c].op = "manage" => req[c].appt # a /\ req[c].appt \in Appts
      BY <1>1, <2>1 DEF RequestOK, Unused
    <2>5. \A b \in Appts : appt[b].status # "ABSENT" => appt'[b].status # "ABSENT"
      BY <1>2
    <2> QED
      BY <1>1, <1>2, <2>3, <2>4, <2>5, RequestKept DEF LiveHold
  <1> QED
    BY <1>3, <1>4, <1>5, <1>6 DEF IInv

\* What a change of appointment a leaves of a request.
LEMMA TouchedRequest ==
    ASSUME TypeOK, NEW a, NEW c \in Actors
    PROVE  LET q == req[c]
               t == Touched(a)[c]
           IN  /\ t \in Request
               /\ t.op = q.op /\ t.appt = q.appt /\ t.hold = q.hold
               /\ t.slot = q.slot /\ t.status = q.status /\ t.past = q.past
               /\ t.fresh => q.fresh /\ ~(q.op = "manage" /\ q.appt = a)
  <1>1. req[c] \in Request
    BY DEF TypeOK
  <1>2. CASE req[c].op = "manage" /\ req[c].appt = a
    <2>1. Touched(a)[c] = [req[c] EXCEPT !.fresh = FALSE]
      BY <1>2 DEF Touched
    <2> QED
      BY <1>1, <2>1 DEF Request
  <1>3. CASE ~(req[c].op = "manage" /\ req[c].appt = a)
    <2>1. Touched(a)[c] = req[c]
      BY <1>3 DEF Touched
    <2> QED
      BY <1>1, <1>3, <2>1
  <1> QED
    BY <1>2, <1>3

\* A row is changed, and whoever was shown it has not seen the change.
LEMMA ChangeEffectKeeps == ASSUME IInv, ChangeEffect
                           PROVE  IInv'
  <1>1. PICK a \in Appts, s \in Slot, status \in Status \ {"ABSENT"},
             done \in SUBSET Actors :
           /\ appt[a].status # "ABSENT"
           /\ appt' = [appt EXCEPT ![a].status = status, ![a].slot = s]
           /\ req' = [c \in Actors |-> IF c \in done THEN NoRequest ELSE Touched(a)[c]]
           /\ UNCHANGED hold
    BY DEF ChangeEffect
  <1>2. /\ \A b \in Appts \ {a} : appt'[b] = appt[b]
        /\ appt'[a].status = status /\ appt'[a].slot = s /\ appt'[a].hold = appt[a].hold
    BY <1>1 DEF IInv, TypeOK, Row
  <1>3. \A c \in Actors : \/ req'[c] = NoRequest
                          \/ req'[c] = Touched(a)[c]
    BY <1>1
  <1>4. TypeOK'
    <2>1. appt' \in [Appts -> Row]
      BY <1>1 DEF IInv, TypeOK, Row
    <2>2. \A c \in Actors : req'[c] \in Request
      BY <1>3, NoRequestOK, TouchedRequest DEF IInv
    <2> QED
      BY <1>1, <2>1, <2>2 DEF IInv, TypeOK, Actors
  <1>5. RowsPlaced' /\ HoldsSpent' /\ OneAppointmentPerHold'
    BY <1>1, <1>2 DEF IInv, RowsPlaced, HoldsSpent, OneAppointmentPerHold
  <1>6. \A c \in Actors : \/ req'[c] = NoRequest
                          \/ /\ req'[c].op = req[c].op /\ req'[c].appt = req[c].appt
                             /\ req'[c].hold = req[c].hold
    BY <1>3, TouchedRequest DEF IInv
  <1>7. BookingsApart'
    BY <1>6 DEF IInv, BookingsApart, Actors, Apart, NoRequest
  <1>8. RequestsOK'
    <2> SUFFICES ASSUME NEW c \in Actors PROVE RequestOK(c, req[c])'
      BY DEF RequestsOK, Actors
    <2>1. CASE req'[c] = NoRequest
      BY <2>1 DEF NoRequest, RequestOK
    <2>2. CASE req'[c] = Touched(a)[c]
      <3>1. RequestOK(c, req[c]) /\ req[c] \in Request
        BY DEF IInv, RequestsOK, TypeOK
      <3>2. req[c].op = "book" =>
               /\ appt'[req[c].appt].status = "ABSENT"
               /\ req[c].hold # NoHold => \A b \in Appts : appt'[b].hold # req[c].hold
        BY <1>1, <1>2, <3>1 DEF RequestOK, BookOK, HoldTaken
      <3>3. /\ req'[c].op = req[c].op /\ req'[c].appt = req[c].appt
            /\ req'[c].hold = req[c].hold /\ req'[c].slot = req[c].slot
            /\ req'[c].status = req[c].status /\ req'[c].past = req[c].past
        BY <2>2, TouchedRequest DEF IInv
      <3>4. req[c].op = "manage" /\ req'[c].fresh =>
               req[c].fresh /\ req[c].appt \in Appts \ {a}
        BY <2>2, <3>1, TouchedRequest DEF IInv, RequestOK
      <3>5. \A b \in Appts : appt[b].status # "ABSENT" => appt'[b].status # "ABSENT"
        BY <1>1, <1>2
      <3>6. \A h \in Holds : hold'[h] = hold[h] /\ (~LiveHold(h) => ~LiveHold(h)')
        BY <1>1 DEF LiveHold
      <3> QED
        BY <1>2, <3>2, <3>3, <3>4, <3>5, <3>6, RequestKept
    <2> QED
      BY <1>3, <2>1, <2>2
  <1> QED
    BY <1>4, <1>5, <1>7, <1>8 DEF IInv

\* What the commit of booking c does to the tables.
LEMMA CommitFacts ==
    ASSUME IInv, NEW c \in Visitors, CommitBooking(c)
    PROVE  /\ req[c] \in Request /\ req[c].op = "book" /\ req[c].appt \in Appts
           /\ RequestOK(c, req[c]) /\ BookOK(c, req[c])
           /\ Admits(req[c].slot, req[c].appt, req[c].hold, req[c].past)
           /\ \A b \in Appts : appt'[b] =
                 IF b = req[c].appt
                 THEN [status |-> req[c].status, slot |-> req[c].slot, hold |-> req[c].hold]
                 ELSE appt[b]
           /\ \A h \in Holds : hold'[h] =
                 IF h = req[c].hold /\ hold[h].status = "ACTIVE"
                 THEN [hold[h] EXCEPT !.status = "CONSUMED"] ELSE hold[h]
           /\ \A d \in Actors : req'[d] = IF d = c THEN NoRequest ELSE req[d]
           /\ TypeOK'
  <1>1. c \in Actors
    BY DEF Actors
  <1>2. req[c] \in Request /\ req[c].op = "book" /\ RequestOK(c, req[c])
    BY <1>1 DEF IInv, TypeOK, RequestsOK, CommitBooking
  <1>3. req[c].appt \in Appts /\ BookOK(c, req[c])
    BY <1>2 DEF RequestOK
  <1>4. /\ appt' = [appt EXCEPT ![req[c].appt] =
              [status |-> req[c].status, slot |-> req[c].slot, hold |-> req[c].hold]]
        /\ hold' = Consumed(req[c].hold)
        /\ req' = [req EXCEPT ![c] = NoRequest]
        /\ Admits(req[c].slot, req[c].appt, req[c].hold, req[c].past)
    BY DEF CommitBooking, Booked
  <1>5. TypeOK'
    <2>1. appt' \in [Appts -> Row]
      BY <1>2, <1>4 DEF IInv, TypeOK, Row, Request
    <2>2. hold' \in [Holds -> HoldRow]
      BY <1>4 DEF IInv, TypeOK, HoldRow, Consumed
    <2>3. req' \in [Actors -> Request]
      BY <1>4, NoRequestOK DEF IInv, TypeOK
    <2> QED
      BY <2>1, <2>2, <2>3 DEF TypeOK, Actors
  <1> QED
    BY <1>1, <1>2, <1>3, <1>4, <1>5 DEF IInv, TypeOK, Consumed

\* A booking is written and its hold spent.
LEMMA CommitEffectKeeps == ASSUME IInv, CommitEffect
                           PROVE  IInv'
  <1>1. PICK c \in Visitors : CommitBooking(c)
    BY DEF CommitEffect
  <1> DEFINE r == req[c]
  <1>2. /\ r \in Request /\ r.op = "book" /\ r.appt \in Appts
        /\ BookOK(c, r)
        /\ \A b \in Appts : appt'[b] =
              IF b = r.appt
              THEN [status |-> r.status, slot |-> r.slot, hold |-> r.hold] ELSE appt[b]
        /\ \A h \in Holds : hold'[h] =
              IF h = r.hold /\ hold[h].status = "ACTIVE"
              THEN [hold[h] EXCEPT !.status = "CONSUMED"] ELSE hold[h]
        /\ \A d \in Actors : req'[d] = IF d = c THEN NoRequest ELSE req[d]
        /\ TypeOK'
    BY <1>1, CommitFacts
  <1>3. c \in Actors
    BY DEF Actors
  <1>4. \A h \in Holds :
           /\ hold'[h].slot = hold[h].slot /\ hold'[h].live = hold[h].live
           /\ hold'[h].status \in {hold[h].status, "CONSUMED"}
           /\ hold[h].status = "ABSENT" => hold'[h].status = "ABSENT"
           /\ h = r.hold => hold'[h].status # "ACTIVE"
    BY <1>2 DEF IInv, TypeOK, HoldRow
  <1>5. r.status # "ABSENT" /\ r.slot \in Slot /\ appt[r.appt].status = "ABSENT"
    BY <1>2 DEF BookOK, Manageable
  <1> HIDE DEF r
  <1>6. RowsPlaced'
    BY <1>2, <1>4, <1>5 DEF IInv, RowsPlaced
  <1>7. r.hold # NoHold => HoldTaken(r)
    BY <1>2 DEF BookOK
  <1>8. OneAppointmentPerHold'
    BY <1>2, <1>7 DEF IInv, OneAppointmentPerHold, HoldTaken
  <1>9. HoldsSpent'
    <2> SUFFICES ASSUME NEW b \in Appts, appt'[b].hold # NoHold
                 PROVE  hold'[appt'[b].hold].status \notin {"ABSENT", "ACTIVE"}
      BY DEF HoldsSpent
    <2>1. CASE b = r.appt
      BY <1>2, <1>4, <1>7, <2>1 DEF HoldTaken
    <2>2. CASE b # r.appt
      <3>1. appt'[b] = appt[b] /\ appt[b].hold \in Holds
        BY <1>2, <2>2 DEF IInv, TypeOK, Row
      <3> QED
        BY <1>4, <3>1 DEF IInv, HoldsSpent
    <2> QED
      BY <2>1, <2>2
  <1>10. BookingsApart'
    BY <1>2, NoRequestOK DEF IInv, BookingsApart, Actors, Apart, NoRequest
  <1>11. RequestsOK'
    <2> SUFFICES ASSUME NEW d \in Actors PROVE RequestOK(d, req[d])'
      BY DEF RequestsOK, Actors
    <2>1. CASE d = c
      BY <1>2, <2>1 DEF NoRequest, RequestOK
    <2>2. CASE d # c
      <3>1. RequestOK(d, req[d]) /\ req'[d] = req[d]
        BY <1>2, <2>2 DEF IInv, RequestsOK
      <3>2. Apart(req[d], r)
        BY <1>3, <2>2 DEF IInv, BookingsApart, r
      <3>3. req[d].op = "book" =>
               /\ appt'[req[d].appt].status = "ABSENT"
               /\ req[d].hold # NoHold => \A b \in Appts : appt'[b].hold # req[d].hold
        BY <1>2, <3>1, <3>2 DEF Apart, RequestOK, BookOK, HoldTaken
      <3>4. req[d].op = "manage" => req[d].appt \in Appts \ {r.appt}
        BY <1>5, <3>1 DEF RequestOK
      <3>5. \A h \in Holds : hold[h].status # "ABSENT" =>
               /\ hold'[h].status # "ABSENT" /\ hold'[h].slot = hold[h].slot
               /\ ~LiveHold(h) => ~LiveHold(h)'
        BY <1>4 DEF LiveHold
      <3>6. \A b \in Appts : appt[b].status # "ABSENT" => appt'[b].status # "ABSENT"
        BY <1>2, <1>5
      <3> QED
        BY <1>2, <3>1, <3>3, <3>4, <3>5, <3>6, RequestKept
    <2> QED
      BY <2>1, <2>2
  <1> QED
    BY <1>2, <1>6, <1>8, <1>9, <1>10, <1>11 DEF IInv

\* IInv is an invariant of the bookings.
THEOREM Invariant == Spec => []IInv
  <1>1. IInv /\ [Next]_vars => IInv'
    BY StepHasEffect, HoldEffectKeeps, RequestEffectKeeps, CommitEffectKeeps,
       InsertEffectKeeps, ChangeEffectKeeps DEF Effect
  <1> QED
    BY <1>1, InitIInv, PTL DEF Spec

\* Every reachable state is well typed, whatever the staff, resources and grid.
THEOREM TypeCorrect == Spec => []TypeOK
  BY Invariant, PTL DEF IInv

\* For any number of visitors and holds, a hold becomes one appointment at
\* most, though releaseHold may keep consumeHold from marking it.
THEOREM HoldsBookedOnce == Spec => []OneAppointmentPerHold
  BY Invariant, PTL DEF IInv

-----------------------------------------------------------------------------
(* Every effect is a step of the exclusive calendar, or none.              *)

\* The entries, one by one.
LEMMA OnCalendarOf ==
    /\ \A h \in Holds : OnCalendar[h] = IF LiveHold(h) THEN hold[h].slot ELSE NoSlot
    /\ \A a \in Appts : OnCalendar[a] = IF Occupies(a) THEN appt[a].slot ELSE NoSlot
  BY ActorsAssumption DEF OnCalendar

\* The entries after a step.
LEMMA OnCalendarAfter ==
    /\ \A h \in Holds : OnCalendar'[h] = IF LiveHold(h)' THEN hold'[h].slot ELSE NoSlot
    /\ \A a \in Appts : OnCalendar'[a] = IF Occupies(a)' THEN appt'[a].slot ELSE NoSlot
  BY ActorsAssumption DEF OnCalendar

\* An entry on the calendar has a slot.
LEMMA OnCalendarSlots ==
    ASSUME IInv
    PROVE  OnCalendar \in [Holds \cup Appts -> Slot \cup {NoSlot}]
  BY DEF IInv, RowsPlaced, OnCalendar, LiveHold, Occupies

\* What the occupancy trigger admits is free on the calendar.
LEMMA AdmittedIsFree ==
    ASSUME NEW s, NEW self, NEW spared, NEW past, NEW e \in Holds \cup Appts,
           Admits(s, self, spared, past),
           \A a \in Appts : a = self => e = a,
           \A h \in Holds : h \in {spared} \cup past => ~LiveHold(h)
    PROVE  Calendar!Free(s, {e})
  <1> SUFFICES ASSUME NEW f \in (Holds \cup Appts) \ {e}, OnCalendar[f] # NoSlot
               PROVE  ~Clash(s, OnCalendar[f])
    BY DEF Calendar!Free, Calendar!On, Calendar!Entries, Calendar!Clash, Calendar!Shares,
           Calendar!OccupiedEnd, Clash, Shares, OccupiedEnd
  <1>1. CASE f \in Holds
    BY <1>1, OnCalendarOf DEF Admits, LiveHold
  <1>2. CASE f \in Appts
    BY <1>2, OnCalendarOf DEF Admits
  <1> QED
    BY <1>1, <1>2

\* A calendar that differs in entry e at most.
LEMMA OneEntryChanged ==
    ASSUME NEW e \in Holds \cup Appts, NEW s,
           OnCalendar'[e] = s,
           \A f \in (Holds \cup Appts) \ {e} : OnCalendar'[f] = OnCalendar[f]
    PROVE  OnCalendar' = [OnCalendar EXCEPT ![e] = s]
  BY DEF OnCalendar

\* The steps of the exclusive calendar, in the names used here.
LEMMA CalendarSteps ==
    ASSUME \/ \E e \in Holds \cup Appts, s \in Slot :
                 /\ OnCalendar[e] = NoSlot \/ e \in Appts
                 /\ Calendar!Free(s, {e})
                 /\ OnCalendar' = [OnCalendar EXCEPT ![e] = s]
           \/ \E e \in Holds \cup Appts : OnCalendar' = [OnCalendar EXCEPT ![e] = NoSlot]
           \/ \E h \in Holds, a \in Appts :
                 /\ OnCalendar[h] # NoSlot /\ OnCalendar[a] = NoSlot
                 /\ OnCalendar' = [OnCalendar EXCEPT ![h] = NoSlot, ![a] = OnCalendar[h]]
    PROVE  Calendar!CalendarNext
  <1> USE DEF Calendar!CalendarNext, Calendar!Entries, Calendar!Slot, Slot
  <1>1. CASE \E e \in Holds \cup Appts, s \in Slot :
                 /\ OnCalendar[e] = NoSlot \/ e \in Appts
                 /\ Calendar!Free(s, {e})
                 /\ OnCalendar' = [OnCalendar EXCEPT ![e] = s]
    BY <1>1 DEF Calendar!Take, Calendar!Move, Calendar!On
  <1>2. CASE \E e \in Holds \cup Appts : OnCalendar' = [OnCalendar EXCEPT ![e] = NoSlot]
    BY <1>2 DEF Calendar!Vacate
  <1>3. CASE \E h \in Holds, a \in Appts :
                 /\ OnCalendar[h] # NoSlot /\ OnCalendar[a] = NoSlot
                 /\ OnCalendar' = [OnCalendar EXCEPT ![h] = NoSlot, ![a] = OnCalendar[h]]
    BY <1>3 DEF Calendar!Handover, Calendar!On
  <1> QED
    BY <1>1, <1>2, <1>3

\* A hold that counts is put on a free slot or taken off.
LEMMA HoldEffectOnCalendar == ASSUME IInv, HoldEffect
                              PROVE  [Calendar!CalendarNext]_OnCalendar
  <1>1. \A a \in Appts : OnCalendar'[a] = OnCalendar[a]
    BY OnCalendarOf, OnCalendarAfter DEF HoldEffect, Occupies
  <1>2. ASSUME NEW g \in Holds, LiveHold(g)' = LiveHold(g)
        PROVE  OnCalendar'[g] = OnCalendar[g]
    BY <1>2, OnCalendarOf, OnCalendarAfter DEF HoldEffect, LiveHold
  <1>3. CASE \A h \in Holds : LiveHold(h)' = LiveHold(h)
    BY <1>1, <1>2, <1>3 DEF OnCalendar
  <1>4. CASE \E h \in Holds :
                /\ \A g \in Holds \ {h} : LiveHold(g)' = LiveHold(g)
                /\ \/ ~LiveHold(h)'
                   \/ hold[h].status = "ABSENT" /\ Available(hold'[h].slot, NoAppt)
    <2>1. PICK h \in Holds :
             /\ \A g \in Holds \ {h} : LiveHold(g)' = LiveHold(g)
             /\ \/ ~LiveHold(h)'
                \/ hold[h].status = "ABSENT" /\ Available(hold'[h].slot, NoAppt)
      BY <1>4
    <2>2. \A f \in (Holds \cup Appts) \ {h} : OnCalendar'[f] = OnCalendar[f]
      BY <1>1, <1>2, <2>1
    <2>3. CASE ~LiveHold(h)'
      <3>1. OnCalendar'[h] = NoSlot
        BY <2>3, OnCalendarAfter
      <3> QED
        BY <2>2, <3>1, OneEntryChanged, CalendarSteps
    <2>4. CASE LiveHold(h)'
      <3>1. hold[h].status = "ABSENT" /\ Available(hold'[h].slot, NoAppt)
        BY <2>1, <2>4
      <3>2. OnCalendar[h] = NoSlot /\ OnCalendar'[h] = hold'[h].slot
        BY <2>4, <3>1, OnCalendarOf, OnCalendarAfter DEF LiveHold
      <3>3. hold'[h].slot \in Slot
        BY <2>4 DEF HoldEffect, LiveHold
      <3>4. \A g \in Holds : g \in {NoHold} \cup RanOut => ~LiveHold(g)
        BY ActorsAssumption DEF RanOut, LiveHold
      <3>5. Calendar!Free(hold'[h].slot, {h})
        BY <3>1, <3>4, AdmittedIsFree, ActorsAssumption DEF Available
      <3>6. OnCalendar' = [OnCalendar EXCEPT ![h] = hold'[h].slot]
        BY <2>2, <3>2, OneEntryChanged
      <3> QED
        BY <3>2, <3>3, <3>5, <3>6, CalendarSteps
    <2> QED
      BY <2>3, <2>4
  <1> QED
    BY <1>3, <1>4 DEF HoldEffect, AtMostOneHold

\* An appointment takes a free slot.
LEMMA InsertEffectOnCalendar == ASSUME IInv, InsertEffect
                                PROVE  Calendar!CalendarNext
  <1>1. PICK a \in Appts, s \in Slot, status \in Status \ {"ABSENT", "CANCELLED", "NO_SHOW"} :
           /\ Unused(a)
           /\ Admits(s, a, NoHold, RanOut)
           /\ appt' = [appt EXCEPT ![a] = [status |-> status, slot |-> s, hold |-> NoHold]]
           /\ UNCHANGED <<hold, req>>
    BY DEF InsertEffect
  <1>2. /\ \A b \in Appts \ {a} : appt'[b] = appt[b]
        /\ appt'[a].status = status /\ appt'[a].slot = s
    BY <1>1 DEF IInv, TypeOK
  <1>3. OnCalendar[a] = NoSlot /\ OnCalendar'[a] = s
    BY <1>1, <1>2, OnCalendarOf, OnCalendarAfter DEF Unused, Occupies
  <1>4. \A f \in (Holds \cup Appts) \ {a} : OnCalendar'[f] = OnCalendar[f]
    BY <1>1, <1>2, OnCalendarOf, OnCalendarAfter DEF LiveHold, Occupies
  <1>5. \A g \in Holds : g \in {NoHold} \cup RanOut => ~LiveHold(g)
    BY ActorsAssumption DEF RanOut, LiveHold
  <1>6. Calendar!Free(s, {a})
    BY <1>1, <1>5, AdmittedIsFree
  <1> QED
    BY <1>3, <1>4, <1>6, OneEntryChanged, CalendarSteps

\* An appointment leaves the calendar, moves to a free slot, or comes back on one.
LEMMA ChangeEffectOnCalendar == ASSUME IInv, ChangeEffect
                                PROVE  [Calendar!CalendarNext]_OnCalendar
  <1>1. PICK a \in Appts, s \in Slot, status \in Status \ {"ABSENT"},
             done \in SUBSET Actors :
           /\ Passes(a, status, s)
           /\ appt' = [appt EXCEPT ![a].status = status, ![a].slot = s]
           /\ UNCHANGED hold
    BY DEF ChangeEffect
  <1>2. /\ \A b \in Appts \ {a} : appt'[b] = appt[b]
        /\ appt'[a].status = status /\ appt'[a].slot = s
    BY <1>1 DEF IInv, TypeOK, Row
  <1>3. \A f \in (Holds \cup Appts) \ {a} : OnCalendar'[f] = OnCalendar[f]
    BY <1>1, <1>2, OnCalendarOf, OnCalendarAfter DEF LiveHold, Occupies
  <1>4. CASE status \in {"CANCELLED", "NO_SHOW"}
    <2>1. OnCalendar'[a] = NoSlot
      BY <1>2, <1>4, OnCalendarAfter DEF Occupies
    <2> QED
      BY <1>3, <2>1, OneEntryChanged, CalendarSteps
  <1>5. CASE status \notin {"CANCELLED", "NO_SHOW"}
    <2>1. OnCalendar'[a] = s
      BY <1>2, <1>5, OnCalendarAfter DEF Occupies
    <2>2. CASE s = appt[a].slot /\ Occupies(a)
      <3>1. OnCalendar'[a] = OnCalendar[a]
        BY <2>1, <2>2, OnCalendarOf
      <3> QED
        BY <1>3, <3>1 DEF OnCalendar
    <2>3. CASE \E past \in SUBSET Holds :
                  Admits(s, a, NoHold, past) /\ \A h \in past : Over(h)
      <3>1. PICK past \in SUBSET Holds :
               Admits(s, a, NoHold, past) /\ \A h \in past : Over(h)
        BY <2>3
      <3>2. \A g \in Holds : g \in {NoHold} \cup past => ~LiveHold(g)
        BY <3>1, ActorsAssumption DEF Over
      <3>3. Calendar!Free(s, {a})
        BY <3>1, <3>2, AdmittedIsFree
      <3> QED
        BY <1>3, <2>1, <3>3, OneEntryChanged, CalendarSteps
    <2> QED
      BY <1>1, <1>5, <2>2, <2>3 DEF Passes
  <1> QED
    BY <1>4, <1>5

\* A booking hands its hold's slot over, or takes a free slot when it has no
\* hold or its hold is over.
LEMMA CommitEffectOnCalendar == ASSUME IInv, CommitEffect
                                PROVE  Calendar!CalendarNext
  <1>1. PICK c \in Visitors : CommitBooking(c)
    BY DEF CommitEffect
  <1> DEFINE r == req[c]
  <1>2. /\ r \in Request /\ r.appt \in Appts
        /\ RequestOK(c, r) /\ BookOK(c, r)
        /\ Admits(r.slot, r.appt, r.hold, r.past)
        /\ \A b \in Appts : appt'[b] =
              IF b = r.appt
              THEN [status |-> r.status, slot |-> r.slot, hold |-> r.hold] ELSE appt[b]
        /\ \A h \in Holds : hold'[h] =
              IF h = r.hold /\ hold[h].status = "ACTIVE"
              THEN [hold[h] EXCEPT !.status = "CONSUMED"] ELSE hold[h]
    BY <1>1, CommitFacts
  <1> HIDE DEF r
  <1>3. r.status \in Manageable /\ r.slot \in Slot /\ appt[r.appt].status = "ABSENT"
    BY <1>2 DEF BookOK
  <1>4. OnCalendar[r.appt] = NoSlot /\ OnCalendar'[r.appt] = r.slot
    BY <1>2, <1>3, OnCalendarOf, OnCalendarAfter DEF Occupies, Manageable
  <1>5. \A b \in Appts \ {r.appt} : OnCalendar'[b] = OnCalendar[b]
    BY <1>2, OnCalendarOf, OnCalendarAfter DEF Occupies
  <1>6. \A h \in Holds \ {r.hold} : OnCalendar'[h] = OnCalendar[h]
    <2> SUFFICES ASSUME NEW h \in Holds \ {r.hold}
                 PROVE  OnCalendar'[h] = OnCalendar[h]
      OBVIOUS
    <2>1. hold'[h] = hold[h]
      BY <1>2
    <2> QED
      BY <2>1, OnCalendarOf, OnCalendarAfter DEF LiveHold
  <1>7. CASE r.hold \in Holds /\ LiveHold(r.hold)
    <2>1. OnCalendar[r.hold] = r.slot
      BY <1>2, <1>7, OnCalendarOf, ActorsAssumption DEF BookOK, HoldTaken
    <2>2. hold'[r.hold].status = "CONSUMED"
      BY <1>2, <1>7 DEF LiveHold, IInv, TypeOK, HoldRow
    <2>3. OnCalendar'[r.hold] = NoSlot
      BY <1>7, <2>2, OnCalendarAfter DEF LiveHold
    <2>4. r.slot # NoSlot
      BY <1>3, ActorsAssumption
    <2>5. OnCalendar' = [OnCalendar EXCEPT ![r.hold] = NoSlot, ![r.appt] = OnCalendar[r.hold]]
      <3> DEFINE f == [OnCalendar EXCEPT ![r.hold] = NoSlot, ![r.appt] = OnCalendar[r.hold]]
      <3>1. \A e \in Holds \cup Appts : OnCalendar'[e] = f[e]
        BY <1>2, <1>4, <1>5, <1>6, <1>7, <2>1, <2>3, ActorsAssumption, OnCalendarSlots
      <3> QED
        BY <3>1, OnCalendarSlots DEF OnCalendar
    <2> QED
      BY <1>2, <1>4, <1>7, <2>1, <2>4, <2>5, CalendarSteps
  <1>8. CASE ~(r.hold \in Holds /\ LiveHold(r.hold))
    <2>1. \A h \in Holds : OnCalendar'[h] = OnCalendar[h]
      <3> SUFFICES ASSUME NEW h \in Holds PROVE OnCalendar'[h] = OnCalendar[h]
        OBVIOUS
      <3>1. CASE h # r.hold
        BY <1>6, <3>1
      <3>2. CASE h = r.hold
        <4>1. ~LiveHold(h) /\ ~LiveHold(h)'
          BY <1>2, <1>8, <3>2 DEF LiveHold, IInv, TypeOK, HoldRow
        <4> QED
          BY <4>1, OnCalendarOf, OnCalendarAfter
      <3> QED
        BY <3>1, <3>2
    <2>2. \A h \in Holds : h \in {r.hold} \cup r.past => ~LiveHold(h)
      BY <1>2, <1>8 DEF RequestOK, Over
    <2>3. Calendar!Free(r.slot, {r.appt})
      BY <1>2, <2>2, AdmittedIsFree
    <2>4. OnCalendar' = [OnCalendar EXCEPT ![r.appt] = r.slot]
      BY <1>2, <1>4, <1>5, <2>1, OneEntryChanged
    <2> QED
      BY <1>2, <1>3, <1>4, <2>3, <2>4, CalendarSteps
  <1> QED
    BY <1>7, <1>8

\* The bookings implement the exclusive calendar: holds and appointments take,
\* change and leave their slots in indivisible steps and never clash, whatever
\* visitors, staff, customers and the payment provider do in between.
THEOREM BookingsImplementCalendar == Spec => ImplementsCalendar
  <1>1. Init => Calendar!CalendarInit
    <2> SUFFICES ASSUME Init PROVE OnCalendar = [e \in Holds \cup Appts |-> NoSlot]
      BY DEF Calendar!CalendarInit, Calendar!Entries
    <2> QED
      BY DEF Init, OnCalendar, LiveHold, Occupies
  <1>2. IInv /\ [Next]_vars => [Calendar!CalendarNext]_OnCalendar
    <2> SUFFICES ASSUME IInv, [Next]_vars PROVE [Calendar!CalendarNext]_OnCalendar
      OBVIOUS
    <2>1. CASE RequestEffect
      BY <2>1 DEF RequestEffect, OnCalendar, LiveHold, Occupies
    <2> QED
      BY <2>1, StepHasEffect, HoldEffectOnCalendar, InsertEffectOnCalendar,
         ChangeEffectOnCalendar, CommitEffectOnCalendar DEF Effect
  <1> QED
    BY <1>1, <1>2, Invariant, PTL DEF Spec, ImplementsCalendar, Calendar!CalendarSpec

-----------------------------------------------------------------------------
(* The calendar is exclusive, and what that means for the tables.          *)

\* No two entries on the calendar clash.
Exclusive ==
    \A e, f \in Holds \cup Appts :
        e # f /\ OnCalendar[e] # NoSlot /\ OnCalendar[f] # NoSlot =>
            ~Clash(OnCalendar[e], OnCalendar[f])

\* Clashing is mutual.
LEMMA ClashSymmetric == \A s, t : Clash(s, t) <=> Clash(t, s)
  BY DEF Clash, Shares

\* Free, in the names used here.
LEMMA FreeMeans ==
    ASSUME NEW s, NEW e, Calendar!Free(s, {e})
    PROVE  \A f \in (Holds \cup Appts) \ {e} :
               OnCalendar[f] # NoSlot => ~Clash(s, OnCalendar[f])
  BY DEF Calendar!Free, Calendar!On, Calendar!Entries, Calendar!Clash, Calendar!Shares,
         Calendar!OccupiedEnd, Clash, Shares, OccupiedEnd

\* An entry that gets a slot gets a free one, or another entry's as that one
\* gives it up.
LEMMA CalendarStaysExclusive ==
    ASSUME Exclusive, OnCalendar \in [Holds \cup Appts -> Slot \cup {NoSlot}],
           [Calendar!CalendarNext]_OnCalendar
    PROVE  Exclusive'
  <1> DEFINE E == Holds \cup Appts
  <1> USE DEF Exclusive
  <1>1. ASSUME NEW e \in E, NEW s \in Slot, Calendar!Free(s, {e}),
               OnCalendar' = [OnCalendar EXCEPT ![e] = s]
        PROVE  Exclusive'
    <2>1. \A f \in E \ {e} : OnCalendar'[f] = OnCalendar[f] /\ OnCalendar'[e] = s
      BY <1>1
    <2>2. \A f \in E \ {e} : OnCalendar[f] # NoSlot => ~Clash(s, OnCalendar[f])
      BY <1>1, FreeMeans
    <2>3. \A f \in E \ {e} : OnCalendar[f] # NoSlot => ~Clash(OnCalendar[f], s)
      BY <2>2, ClashSymmetric
    <2> QED
      BY <2>1, <2>2, <2>3
  <1>2. ASSUME NEW e \in E, OnCalendar' = [OnCalendar EXCEPT ![e] = NoSlot]
        PROVE  Exclusive'
    BY <1>2
  <1>3. ASSUME NEW h \in Holds, NEW a \in Appts,
               OnCalendar' = [OnCalendar EXCEPT ![h] = NoSlot, ![a] = OnCalendar[h]],
               OnCalendar[h] # NoSlot
        PROVE  Exclusive'
    <2>1. h # a
      BY ActorsAssumption
    <2>2. \A f \in E : OnCalendar'[f] = IF f = a THEN OnCalendar[h]
                                        ELSE IF f = h THEN NoSlot ELSE OnCalendar[f]
      BY <1>3, <2>1
    <2> QED
      BY <1>3, <2>1, <2>2
  <1>4. CASE UNCHANGED OnCalendar
    BY <1>4
  <1>5. CASE Calendar!CalendarNext
    BY <1>1, <1>2, <1>3, <1>5
    DEF Calendar!CalendarNext, Calendar!Entries, Calendar!Slot, Slot, Calendar!Take,
        Calendar!Move, Calendar!Vacate, Calendar!Handover, Calendar!On
  <1> QED
    BY <1>4, <1>5

\* The calendar of the bookings is exclusive.
THEOREM CalendarExclusive == Spec => []Exclusive
  <1>1. Init => Exclusive
    BY OnCalendarOf DEF Init, LiveHold, Occupies, Exclusive
  <1>2. IInv /\ Exclusive /\ [Calendar!CalendarNext]_OnCalendar => Exclusive'
    BY OnCalendarSlots, CalendarStaysExclusive
  <1> QED
    BY <1>1, <1>2, Invariant, BookingsImplementCalendar, PTL
    DEF Spec, ImplementsCalendar, Calendar!CalendarSpec

\* However stale the reads of the staff desk, no two appointments ever occupy a
\* staff member or a resource at the same time.
THEOREM NeverDoubleBooked == Spec => []NoDoubleBooking
  <1>1. IInv /\ Exclusive => NoDoubleBooking
    <2> SUFFICES ASSUME IInv, Exclusive, NEW a \in Appts, NEW b \in Appts, a # b,
                        Occupies(a), Occupies(b)
                 PROVE  ~Clash(appt[a].slot, appt[b].slot)
      BY DEF NoDoubleBooking
    <2>1. appt[a].slot # NoSlot /\ appt[b].slot # NoSlot
      BY ActorsAssumption DEF IInv, RowsPlaced, Occupies
    <2> QED
      BY <2>1, OnCalendarOf DEF Exclusive
  <1> QED
    BY <1>1, Invariant, CalendarExclusive, PTL

\* The slot of a hold that has not run out is the hold's alone.
THEOREM HeldSlotsKept == Spec => []HeldSlotIsKept
  <1>1. IInv /\ Exclusive => HeldSlotIsKept
    <2> SUFFICES ASSUME IInv, Exclusive, NEW h \in Holds, LiveHold(h)
                 PROVE  /\ \A a \in Appts : Occupies(a) => ~Clash(hold[h].slot, appt[a].slot)
                        /\ \A g \in Holds \ {h} : LiveHold(g) =>
                              ~Clash(hold[h].slot, hold[g].slot)
      BY DEF HeldSlotIsKept
    <2>1. \A g \in Holds : LiveHold(g) => OnCalendar[g] = hold[g].slot /\ hold[g].slot # NoSlot
      BY OnCalendarOf, ActorsAssumption DEF IInv, RowsPlaced, LiveHold
    <2>2. \A a \in Appts : Occupies(a) => OnCalendar[a] = appt[a].slot /\ appt[a].slot # NoSlot
      BY OnCalendarOf, ActorsAssumption DEF IInv, RowsPlaced, Occupies
    <2> QED
      BY <2>1, <2>2, ActorsAssumption DEF Exclusive
  <1> QED
    BY <1>1, Invariant, CalendarExclusive, PTL

-----------------------------------------------------------------------------
(* Validated holds, and what a customer may change.                        *)

\* The holds that could still turn a validated booking away do not.  Those that
\* ran out after it began count for it to its end, which is why HoldHonoured
\* alone is not inductive.
HoldsMakeWay ==
    \A c \in Actors :
        LET r == req[c] IN
        r.op = "book" /\ r.hold # NoHold /\ LiveHold(r.hold) =>
            \A h \in Holds \ ({r.hold} \cup r.past) :
                hold[h].status = "ACTIVE" => ~Clash(r.slot, hold[h].slot)

\* The hold of a booking in flight.
LEMMA BookedHold ==
    ASSUME IInv, NEW c \in Actors, req[c].op = "book", req[c].hold # NoHold
    PROVE  /\ req[c].hold \in Holds
           /\ hold[req[c].hold].status # "ABSENT"
           /\ hold[req[c].hold].slot = req[c].slot
  BY DEF IInv, RequestsOK, RequestOK, BookOK, HoldTaken

\* A booking that is still in flight after a step that leaves its hold good.
LEMMA HoldsMakeWayKept ==
    ASSUME IInv, HoldsMakeWay, NEW c \in Actors,
           req'[c].op = "book", req'[c].hold # NoHold, LiveHold(req[c].hold)',
           req[c].op = "book", req'[c].hold = req[c].hold,
           req'[c].slot = req[c].slot, req'[c].past = req[c].past,
           \A h \in Holds : hold[h].status # "ABSENT" =>
               /\ hold'[h].slot = hold[h].slot
               /\ ~LiveHold(h) => ~LiveHold(h)'
               /\ hold[h].status # "ACTIVE" => hold'[h].status # "ACTIVE",
           \A h \in Holds : hold[h].status = "ABSENT" /\ hold'[h].status = "ACTIVE" =>
               Available(hold'[h].slot, NoAppt)
    PROVE  \A h \in Holds \ ({req'[c].hold} \cup req'[c].past) :
               hold'[h].status = "ACTIVE" => ~Clash(req'[c].slot, hold'[h].slot)
  <1> DEFINE r == req[c]
  <1>1. /\ r.hold \in Holds /\ hold[r.hold].status # "ABSENT"
        /\ hold[r.hold].slot = r.slot
    BY BookedHold
  <1>2. LiveHold(r.hold)'
    OBVIOUS
  <1>3. LiveHold(r.hold)
    BY <1>1, <1>2 DEF LiveHold
  <1> SUFFICES ASSUME NEW h \in Holds \ ({r.hold} \cup r.past), hold'[h].status = "ACTIVE"
               PROVE  ~Clash(r.slot, hold'[h].slot)
    OBVIOUS
  <1>4. CASE hold[h].status = "ABSENT"
    <2>1. Admits(hold'[h].slot, NoAppt, NoHold, RanOut)
      BY <1>4 DEF Available
    <2>2. r.hold \notin RanOut /\ hold[r.hold].status = "ACTIVE"
      BY <1>3 DEF RanOut, LiveHold
    <2>3. ~Clash(hold'[h].slot, r.slot)
      BY <1>1, <2>1, <2>2 DEF Admits
    <2> QED
      BY <2>3, ClashSymmetric
  <1>5. CASE hold[h].status # "ABSENT"
    BY <1>3, <1>5 DEF HoldsMakeWay
  <1> QED
    BY <1>4, <1>5

\* Every effect keeps the way clear.
LEMMA EffectKeepsWay ==
    ASSUME IInv, IInv', HeldSlotIsKept, HoldsMakeWay, Effect
    PROVE  HoldsMakeWay'
  <1> SUFFICES ASSUME NEW c \in Actors, req'[c].op = "book", req'[c].hold # NoHold,
                      LiveHold(req[c].hold)'
               PROVE  \A h \in Holds \ ({req'[c].hold} \cup req'[c].past) :
                         hold'[h].status = "ACTIVE" => ~Clash(req'[c].slot, hold'[h].slot)
    BY DEF HoldsMakeWay, Actors
  <1>1. CASE HoldEffect
    BY <1>1, HoldsMakeWayKept DEF HoldEffect
  <1>2. CASE RequestEffect
    <2>1. PICK d \in Actors, q \in Request :
             /\ req' = [req EXCEPT ![d] = q]
             /\ q.op = "book" => RanOut \subseteq q.past
             /\ UNCHANGED <<appt, hold>>
      BY <1>2 DEF RequestEffect
    <2>2. \A h \in Holds : hold'[h] = hold[h] /\ LiveHold(h)' = LiveHold(h)
      BY <2>1 DEF LiveHold
    <2>3. CASE c = d
      <3>1. req'[c] = q
        BY <2>1, <2>3 DEF IInv, TypeOK
      <3>2. q.hold \in Holds /\ hold[q.hold].slot = q.slot
        BY <2>1, <3>1 DEF IInv, RequestsOK, RequestOK, BookOK, HoldTaken
      <3>3. LiveHold(q.hold)
        BY <2>2, <3>1, <3>2
      <3> SUFFICES ASSUME NEW h \in Holds \ ({q.hold} \cup q.past), hold[h].status = "ACTIVE"
                   PROVE  ~Clash(q.slot, hold[h].slot)
        BY <2>2, <3>1
      <3>4. LiveHold(h)
        BY <2>1, <3>1 DEF RanOut, LiveHold
      <3> QED
        BY <3>2, <3>3, <3>4 DEF HeldSlotIsKept
    <2>4. CASE c # d
      <3>1. req'[c] = req[c]
        BY <2>1, <2>4 DEF IInv, TypeOK
      <3> QED
        BY <2>2, <3>1, HoldsMakeWayKept
    <2> QED
      BY <2>3, <2>4
  <1>3. CASE CommitEffect
    <2>1. PICK d \in Visitors : CommitBooking(d)
      BY <1>3 DEF CommitEffect
    <2>2. /\ \A h \in Holds : hold'[h] =
                IF h = req[d].hold /\ hold[h].status = "ACTIVE"
                THEN [hold[h] EXCEPT !.status = "CONSUMED"] ELSE hold[h]
          /\ req'[c] = IF c = d THEN NoRequest ELSE req[c]
      BY <2>1, CommitFacts
    <2>3. req'[c] = req[c]
      BY <2>2, NoRequestOK
    <2>4. \A h \in Holds : /\ hold'[h].slot = hold[h].slot /\ hold'[h].live = hold[h].live
                           /\ hold'[h].status \in {hold[h].status, "CONSUMED"}
      BY <2>2 DEF IInv, TypeOK, HoldRow
    <2>5. \A h \in Holds : ~LiveHold(h) => ~LiveHold(h)'
      BY <2>4 DEF LiveHold
    <2> QED
      BY <2>3, <2>4, <2>5, HoldsMakeWayKept
  <1>4. CASE InsertEffect
    BY <1>4, HoldsMakeWayKept DEF InsertEffect, LiveHold
  <1>5. CASE ChangeEffect
    <2>1. PICK a \in Appts, done \in SUBSET Actors :
             /\ req' = [d \in Actors |-> IF d \in done THEN NoRequest ELSE Touched(a)[d]]
             /\ UNCHANGED hold
      BY <1>5 DEF ChangeEffect
    <2>2. req'[c] = NoRequest \/ req'[c] = Touched(a)[c]
      BY <2>1
    <2>3. req'[c] = Touched(a)[c]
      BY <2>2, NoRequestOK
    <2>4. /\ req'[c].op = req[c].op /\ req'[c].hold = req[c].hold
          /\ req'[c].slot = req[c].slot /\ req'[c].past = req[c].past
      BY <2>3, TouchedRequest DEF IInv
    <2>5. \A h \in Holds : hold'[h] = hold[h] /\ (~LiveHold(h) => ~LiveHold(h)')
      BY <2>1 DEF LiveHold
    <2> QED
      BY <2>4, <2>5, HoldsMakeWayKept
  <1> QED
    BY <1>1, <1>2, <1>3, <1>4, <1>5 DEF Effect

\* A visitor whose validated hold is still good when the booking is written is
\* not turned away for the slot.
THEOREM HoldsHonoured == Spec => []HoldHonoured
  <1>1. Init => HoldsMakeWay
    BY DEF Init, HoldsMakeWay, NoRequest
  <1>2. IInv /\ IInv' /\ HeldSlotIsKept /\ HoldsMakeWay /\ [Next]_vars => HoldsMakeWay'
    BY StepHasEffect, EffectKeepsWay
  <1>3. IInv /\ HeldSlotIsKept /\ HoldsMakeWay => HoldHonoured
    <2> SUFFICES ASSUME IInv, HeldSlotIsKept, HoldsMakeWay, NEW c \in Visitors,
                        req[c].op = "book", req[c].hold # NoHold, LiveHold(req[c].hold)
                 PROVE  Admits(req[c].slot, req[c].appt, req[c].hold, req[c].past)
      BY DEF HoldHonoured
    <2>1. c \in Actors
      BY DEF Actors
    <2>2. req[c].hold \in Holds /\ hold[req[c].hold].slot = req[c].slot
      BY <2>1, BookedHold
    <2>3. \A b \in Appts : Occupies(b) => ~Clash(req[c].slot, appt[b].slot)
      BY <2>2 DEF HeldSlotIsKept
    <2> QED
      BY <2>1, <2>3 DEF Admits, HoldsMakeWay
  <1> QED
    BY <1>1, <1>2, <1>3, Invariant, HeldSlotsKept, PTL DEF Spec

\* A hold keeps its slot from everybody else and gets it for its own booking.
THEOREM HoldsKeepTheirPromise == Spec => []HoldKeepsItsPromise
  BY HeldSlotsKept, HoldsHonoured, PTL DEF HoldKeepsItsPromise

\* A customer's change is made to the appointment as the customer saw it, for
\* any number of customers, requests and webhooks in between.
THEOREM CustomersChangeWhatTheySaw == Spec => CustomerChangesWhatTheySaw
  <1> DEFINE Seen(c) == LET a == req[c].appt IN
                        req[c].op = "manage" /\ req'[c].op = "none" /\ appt'[a] # appt[a] =>
                            appt[a].slot = req[c].slot /\ appt[a].status = req[c].status
  <1>1. ASSUME IInv, Effect, NEW c \in Customers
        PROVE  Seen(c)
    <2> SUFFICES ASSUME req[c].op = "manage", req'[c].op = "none",
                        appt'[req[c].appt] # appt[req[c].appt]
                 PROVE  req[c].fresh
      BY <1>1 DEF IInv, RequestsOK, RequestOK, Actors
    <2>1. c \in Actors /\ req[c].appt \in Appts
      BY <1>1 DEF IInv, RequestsOK, RequestOK, Actors
    <2>2. CASE HoldEffect \/ RequestEffect \/ InsertEffect
      BY <2>2 DEF HoldEffect, RequestEffect, InsertEffect
    <2>3. CASE CommitEffect
      <3>1. PICK d \in Visitors : CommitBooking(d)
        BY <2>3 DEF CommitEffect
      <3> QED
        BY <1>1, <2>1, <3>1, CommitFacts
    <2>4. CASE ChangeEffect
      <3>1. PICK a \in Appts, done \in SUBSET Actors :
               /\ req' = [d \in Actors |-> IF d \in done THEN NoRequest ELSE Touched(a)[d]]
               /\ \A d \in done : req[d].op = "manage" => req[d].fresh
        BY <2>4 DEF ChangeEffect
      <3>2. CASE c \in done
        BY <3>1, <3>2
      <3>3. CASE c \notin done
        <4>1. req'[c] = Touched(a)[c]
          BY <2>1, <3>1, <3>3
        <4> QED
          BY <1>1, <2>1, <4>1, TouchedRequest DEF IInv
      <3> QED
        BY <3>2, <3>3
    <2> QED
      BY <1>1, <2>2, <2>3, <2>4 DEF Effect
  <1>2. IInv /\ [Next]_vars => [\A c \in Customers : Seen(c)]_vars
    BY <1>1, StepHasEffect
  <1> QED
    BY <1>2, Invariant, PTL DEF Spec, CustomerChangesWhatTheySaw
=============================================================================
