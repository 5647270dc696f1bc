------------------------------ MODULE Bookings ------------------------------
(***************************************************************************)
(* Slot holds and appointments of one tenant: the public booking page      *)
(* (BookingPageService and POST /:subdomain/bookings), the staff desk      *)
(* (BookingService), the customer's own changes                            *)
(* (CustomerBookingManagementService) and the payment webhooks, over the   *)
(* appointments and booking_holds tables with their triggers.              *)
(*                                                                         *)
(* A transaction that takes every lock before it reads is one action.  One *)
(* that acts on what it read before its lock is two: the read leaves a     *)
(* request in req, the write acts on the rows it then finds.  The advisory *)
(* locks per staff member and per resource are taken by the last statement *)
(* that reads the calendar, so each write is indivisible.                  *)
(***************************************************************************)
EXTENDS Slots, FiniteSets

CONSTANTS
    Appts,       \* appointments; a public one is named by its idempotency key
    Holds,       \* holds, named by their idempotency key
    Visitors,    \* requests of the public booking page
    Desk,        \* requests of staff and deliveries of the payment provider
    Customers,   \* customers looking at an appointment of theirs
    NoAppt, NoHold, NoSlot

ASSUME ActorsAssumption ==
    /\ NoAppt \notin Appts
    /\ NoHold \notin Holds
    /\ NoSlot \notin Slot
    /\ Appts \cap Holds = {}
    /\ Visitors \cap Desk = {} /\ Visitors \cap Customers = {}
    /\ Desk \cap Customers = {}

VARIABLES
    appt,        \* [Appts -> Row]: the appointments table
    hold,        \* [Holds -> HoldRow]: the booking_holds table
    req          \* [Actors -> Request]: what each actor has read and will write

vars == <<appt, hold, req>>

Actors == Visitors \cup Desk \cup Customers

Terminal   == {"CANCELLED", "COMPLETED", "NO_SHOW"}
Manageable == {"PENDING", "CONFIRMED"}
Status     == Terminal \cup Manageable \cup
              {"ABSENT", "BLOCKED", "CHECKED_IN", "IN_SERVICE", "AWAITING_PAYMENT"}

\* hold is booking_hold_id.
Row == [status: Status, slot: Slot \cup {NoSlot}, hold: Holds \cup {NoHold}]

\* live is expires_at > now(): a row may stay ACTIVE long after it.
HoldRow == [status: {"ABSENT", "ACTIVE", "EXPIRED", "RELEASED", "CONSUMED"},
            live: BOOLEAN, slot: Slot \cup {NoSlot}]

\* past: the holds that had run out when the transaction began, which is what
\* now() means to it.  keep: the reschedule leaves resource_id as it is.
\* fresh: the appointment still has the version the customer was shown; the
\* version changes with every update of the row (increment_appointment_version).
Request == [op: {"none", "book", "status", "move", "manage"},
            appt: Appts \cup {NoAppt}, hold: Holds \cup {NoHold},
            slot: Slot \cup {NoSlot}, status: Status, keep: BOOLEAN,
            fresh: BOOLEAN, past: SUBSET Holds]

NoRequest == [op |-> "none", appt |-> NoAppt, hold |-> NoHold, slot |-> NoSlot,
              status |-> "ABSENT", keep |-> FALSE, fresh |-> FALSE, past |-> {}]

\* Rows, holds and requests are well formed; the statuses are those the schema
\* lists.
TypeOK ==
    /\ appt \in [Appts -> Row]
    /\ hold \in [Holds -> HoldRow]
    /\ req \in [Actors -> Request]

Init ==
    /\ appt = [a \in Appts |-> [status |-> "ABSENT", slot |-> NoSlot, hold |-> NoHold]]
    /\ hold = [h \in Holds |-> [status |-> "ABSENT", live |-> FALSE, slot |-> NoSlot]]
    /\ req = [c \in Actors |-> NoRequest]

-----------------------------------------------------------------------------
(* The calendar as the statements see it.                                  *)

Occupies(a) == appt[a].status \notin {"ABSENT", "CANCELLED", "NO_SHOW"}

\* Past its expiry by the clock, though the status still says ACTIVE.
RanOut == {h \in Holds : hold[h].status = "ACTIVE" /\ ~hold[h].live}

LiveHold(h) == hold[h].status = "ACTIVE" /\ hold[h].live

\* Mutant: the trigger looks at appointments only.
Admits_AnyHold(s, self, spared, past) ==
    \A b \in Appts \ {self} : Occupies(b) => ~Clash(s, appt[b].slot)

\* Mutant: the trigger does not spare the hold the booking validated.
Admits_NoneSpared(s, self, spared, past) ==
    /\ \A b \in Appts \ {self} : Occupies(b) => ~Clash(s, appt[b].slot)
    /\ \A h \in Holds \ past : hold[h].status = "ACTIVE" => ~Clash(s, hold[h].slot)

\* Mutant: a resource can be used twice.
Admits_StaffOnly(s, self, spared, past) ==
    /\ \A b \in Appts \ {self} : Occupies(b) /\ appt[b].slot.staff = s.staff =>
          ~Clash(s, appt[b].slot)
    /\ \A h \in Holds \ ({spared} \cup past) :
          hold[h].status = "ACTIVE" /\ hold[h].slot.staff = s.staff =>
              ~Clash(s, hold[h].slot)

\* enforce_appointment_occupancy: slot s is free for appointment self, in a
\* transaction that validated hold spared and for which the holds in past are
\* over.
Admits(s, self, spared, past) ==
    /\ \A b \in Appts \ {self} : Occupies(b) => ~Clash(s, appt[b].slot)
    /\ \A h \in Holds \ ({spared} \cup past) :
          hold[h].status = "ACTIVE" => ~Clash(s, hold[h].slot)

\* calculateAvailability, leaving out appointment self.
Available(s, self) == Admits(s, self, NoHold, RanOut)

\* The version trigger, as the customers looking at appointment a notice it.
Touched(a) ==
    [c \in Actors |-> IF req[c].op = "manage" /\ req[c].appt = a
                      THEN [req[c] EXCEPT !.fresh = FALSE] ELSE req[c]]

Idle(c) == req[c].op = "none"

-----------------------------------------------------------------------------
(* Holds.                                                                  *)

\* Time passes beyond expires_at.
RunOut(h) ==
    /\ LiveHold(h)
    /\ hold' = [hold EXCEPT ![h].live = FALSE]
    /\ UNCHANGED <<appt, req>>

\* Mutant: a status the other statements do not know.
Swept_Inactive == [h \in Holds |-> IF h \in RanOut
                                   THEN [hold[h] EXCEPT !.status = "INACTIVE"] ELSE hold[h]]

\* Every createHold first marks the holds of all staff that have run out.
Swept == [h \in Holds |-> IF h \in RanOut
                          THEN [hold[h] EXCEPT !.status = "EXPIRED"] ELSE hold[h]]

\* createHold with a new key.
CreateHold(h, s) ==
    /\ hold[h].status = "ABSENT"
    /\ s.tail = Buffer
    /\ Available(s, NoAppt)
    /\ hold' = [Swept EXCEPT ![h] = [status |-> "ACTIVE", live |-> TRUE, slot |-> s]]
    /\ UNCHANGED <<appt, req>>

\* createHold with the key of a hold that still counts returns that hold.
ReturnHold(h) ==
    /\ LiveHold(h)
    /\ hold' = Swept
    /\ UNCHANGED <<appt, req>>

\* releaseHold takes no lock: it may come while a booking has the hold validated.
ReleaseHold(h) ==
    /\ hold[h].status = "ACTIVE"
    /\ hold' = [hold EXCEPT ![h].status = "RELEASED"]
    /\ UNCHANGED <<appt, req>>

-----------------------------------------------------------------------------
(* The public booking route.                                               *)

\* Mutant: no lock on the hold.
HoldUnlocked_Always(h) == TRUE

\* The advisory lock on the hold id that validateHoldForBooking takes.
HoldUnlocked(h) == \A d \in Visitors : req[d].op = "book" => req[d].hold # h

\* Appointment a was never made and no booking in flight, which holds the
\* advisory lock on tenant and idempotency key, is making it.
Unused(a) == /\ appt[a].status = "ABSENT"
             /\ \A d \in Visitors : req[d].op = "book" => req[d].appt # a

\* validateHoldForBooking; a booking may also come without a hold.
ValidHold(h, s) ==
    \/ h = NoHold
    \/ /\ h \in Holds
       /\ HoldUnlocked(h)
       /\ LiveHold(h)
       /\ hold[h].slot = s

\* The transaction up to its hold: a key that was used before is answered from
\* the appointment it made and changes nothing.
BeginBooking(c, a, h, s, status) ==
    /\ Idle(c)
    /\ Unused(a)
    /\ s.tail = Buffer
    /\ ValidHold(h, s)
    /\ req' = [req EXCEPT ![c] = [NoRequest EXCEPT
                  !.op = "book", !.appt = a, !.hold = h, !.slot = s,
                  !.status = status, !.past = RanOut]]
    /\ UNCHANGED <<appt, hold>>

\* Mutant: the hold is left to run out.
Consumed_Not(h) == hold

\* consumeHold, which finds no row when the hold is no longer ACTIVE.
Consumed(h) == [g \in Holds |-> IF g = h /\ hold[g].status = "ACTIVE"
                                THEN [hold[g] EXCEPT !.status = "CONSUMED"] ELSE hold[g]]

\* The row create_public_booking inserts, with what the route adds to it.
Booked(r) == [status |-> r.status, slot |-> r.slot, hold |-> r.hold]

\* create_public_booking, the update of the row and consumeHold, to the commit.
CommitBooking(c) ==
    LET r == req[c] IN
    /\ r.op = "book"
    /\ Admits(r.slot, r.appt, r.hold, r.past)
    /\ appt' = [appt EXCEPT ![r.appt] = Booked(r)]
    /\ hold' = Consumed(r.hold)
    /\ req' = [req EXCEPT ![c] = NoRequest]

\* A refusal, an error or a lost connection ends a request without a trace; a
\* customer closes the page.
GiveUp(c) ==
    /\ ~Idle(c)
    /\ req' = [req EXCEPT ![c] = NoRequest]
    /\ UNCHANGED <<appt, hold>>

-----------------------------------------------------------------------------
(* The staff desk.                                                         *)

\* createManualBooking: an appointment to come, a walk-in or a past one.
ManualBooking(a, s, status) ==
    /\ Unused(a)
    /\ s.tail = Buffer /\ s.resource = NoResource
    /\ Admits(s, a, NoHold, RanOut)
    /\ appt' = [appt EXCEPT ![a] = [status |-> status, slot |-> s, hold |-> NoHold]]
    /\ UNCHANGED <<hold, req>>

\* createBlockedTime: no service, so no buffer.
BlockTime(a, s) ==
    /\ Unused(a)
    /\ s.tail = 0 /\ s.resource = NoResource
    /\ Admits(s, a, NoHold, RanOut)
    /\ appt' = [appt EXCEPT ![a] = [status |-> "BLOCKED", slot |-> s, hold |-> NoHold]]
    /\ UNCHANGED <<hold, req>>

\* removeBlockedTime.
Unblock(a) ==
    /\ appt[a].status = "BLOCKED"
    /\ appt' = [appt EXCEPT ![a].status = "CANCELLED"]
    /\ req' = Touched(a)
    /\ UNCHANGED hold

\* canUpdateBookingStatus.
Transitions == ({"PENDING"}          \X {"CONFIRMED", "CANCELLED"})
          \cup ({"CONFIRMED"}        \X {"CHECKED_IN", "CANCELLED", "NO_SHOW"})
          \cup ({"CHECKED_IN"}       \X {"IN_SERVICE", "CANCELLED"})
          \cup ({"IN_SERVICE"}       \X {"AWAITING_PAYMENT", "COMPLETED"})
          \cup ({"AWAITING_PAYMENT"} \X {"COMPLETED"})

MaySetStatus(from, to) == <<from, to>> \in Transitions

\* canCancelBooking allows what the transitions do not: a block, a no-show.
MayCancel(from) == from \notin {"ABSENT", "CANCELLED", "COMPLETED"}

\* canRescheduleBooking, and a block has no service to reschedule.
MayReschedule(from) == from \notin Terminal \cup {"ABSENT", "BLOCKED"}

\* updateBookingStatus and cancelBooking read the status without a lock.
ReadStatus(c, a, to) ==
    /\ Idle(c)
    /\ \/ MaySetStatus(appt[a].status, to)
       \/ to = "CANCELLED" /\ MayCancel(appt[a].status)
    /\ req' = [req EXCEPT ![c] = [NoRequest EXCEPT
                  !.op = "status", !.appt = a, !.status = to, !.past = RanOut]]
    /\ UNCHANGED <<appt, hold>>

\* Mutant: the trigger passes over updates of the status alone.
Update_StatusUnchecked(c, a, status, slot) ==
    /\ \/ slot = appt[a].slot
       \/ Admits(slot, a, NoHold, req[c].past)
    /\ appt' = [appt EXCEPT ![a].status = status, ![a].slot = slot]
    /\ req' = [Touched(a) EXCEPT ![c] = NoRequest]
    /\ UNCHANGED hold

\* The row as an update leaves it, unless the occupancy trigger refuses it: the
\* trigger passes over an update of neither slot nor status, and over one that
\* leaves the appointment cancelled or a no-show.
Update(c, a, status, slot) ==
    /\ \/ status = appt[a].status /\ slot = appt[a].slot
       \/ status \in {"CANCELLED", "NO_SHOW"}
       \/ Admits(slot, a, NoHold, req[c].past)
    /\ appt' = [appt EXCEPT ![a].status = status, ![a].slot = slot]
    /\ req' = [Touched(a) EXCEPT ![c] = NoRequest]
    /\ UNCHANGED hold

\* The repository's updateBookingStatus: whatever the status is by now.
WriteStatus(c) ==
    /\ req[c].op = "status"
    /\ Update(c, req[c].appt, req[c].status, appt[req[c].appt].slot)

\* getOverlappingAppointments, by staff member alone.
Overlapped(s, a) == \E b \in Appts \ {a} : /\ Occupies(b)
                                           /\ appt[b].slot.staff = s.staff
                                           /\ Clash(s, appt[b].slot)

\* rescheduleBooking up to its update; keep: no resource was given.
ReadReschedule(c, a, s, keep) ==
    /\ Idle(c)
    /\ MayReschedule(appt[a].status)
    /\ s.tail = appt[a].slot.tail
    /\ ~Overlapped(s, a)
    /\ req' = [req EXCEPT ![c] = [NoRequest EXCEPT
                  !.op = "move", !.appt = a, !.slot = s, !.keep = keep, !.past = RanOut]]
    /\ UNCHANGED <<appt, hold>>

\* The repository's rescheduleBooking, with the lengths the trigger keeps.
WriteReschedule(c) ==
    LET r   == req[c]
        row == appt[r.appt]
    IN  /\ r.op = "move"
        /\ Update(c, r.appt, row.status,
                  [r.slot EXCEPT !.resource = IF r.keep THEN row.slot.resource ELSE @])

-----------------------------------------------------------------------------
(* The payment provider.                                                   *)

\* A session was paid: the webhook locks the row and confirms a PENDING one.
PaymentSucceeds(a) ==
    /\ appt[a].status = "PENDING"
    /\ Admits(appt[a].slot, a, NoHold, RanOut)
    /\ appt' = [appt EXCEPT ![a].status = "CONFIRMED"]
    /\ req' = Touched(a)
    /\ UNCHANGED hold

\* A session expired: the webhook reads the status without a lock and cancels.
SessionExpires(c, a) ==
    /\ Idle(c)
    /\ appt[a].status = "PENDING"
    /\ req' = [req EXCEPT ![c] = [NoRequest EXCEPT
                  !.op = "status", !.appt = a, !.status = "CANCELLED", !.past = RanOut]]
    /\ UNCHANGED <<appt, hold>>

-----------------------------------------------------------------------------
(* The customer.                                                           *)

\* getAppointment.  One that cannot be managed now is not worth looking at: if
\* it can be managed later its version is another.
View(c, a) ==
    /\ Idle(c)
    /\ appt[a].status \in Manageable
    /\ req' = [req EXCEPT ![c] = [NoRequest EXCEPT
                  !.op = "manage", !.appt = a, !.fresh = TRUE,
                  !.status = appt[a].status, !.slot = appt[a].slot]]
    /\ UNCHANGED <<appt, hold>>

\* Mutant: the version is not compared.
MayManage_AnyVersion(c) == /\ req[c].op = "manage"
                           /\ appt[req[c].appt].status \in Manageable

\* The checks under the row lock: assertVersion and the manageable statuses.
MayManage(c) ==
    /\ req[c].op = "manage"
    /\ req[c].fresh
    /\ appt[req[c].appt].status \in Manageable

\* CustomerBookingManagementService.reschedule; the resource stays.
CustomerReschedule(c, s) ==
    LET a == req[c].appt IN
    /\ MayManage(c)
    /\ s.tail = appt[a].slot.tail
    /\ s.resource = appt[a].slot.resource
    /\ Available(s, a)
    /\ appt' = [appt EXCEPT ![a].slot = s]
    /\ req' = [Touched(a) EXCEPT ![c] = NoRequest]
    /\ UNCHANGED hold

\* CustomerBookingManagementService.cancel
CustomerCancel(c) ==
    LET a == req[c].appt IN
    /\ MayManage(c)
    /\ appt' = [appt EXCEPT ![a].status = "CANCELLED"]
    /\ req' = [Touched(a) EXCEPT ![c] = NoRequest]
    /\ UNCHANGED hold

-----------------------------------------------------------------------------
Next ==
    \/ \E h \in Holds : RunOut(h) \/ ReturnHold(h) \/ ReleaseHold(h)
    \/ \E h \in Holds, s \in Slot : CreateHold(h, s)
    \/ \E c \in Visitors, a \in Appts, h \in Holds \cup {NoHold}, s \in Slot,
          status \in Manageable : BeginBooking(c, a, h, s, status)
    \/ \E c \in Visitors : CommitBooking(c)
    \/ \E c \in Actors : GiveUp(c)
    \/ \E a \in Appts, s \in Slot, status \in {"CONFIRMED", "CHECKED_IN", "COMPLETED"} :
          ManualBooking(a, s, status)
    \/ \E a \in Appts, s \in Slot : BlockTime(a, s)
    \/ \E a \in Appts : Unblock(a) \/ PaymentSucceeds(a)
    \/ \E c \in Desk, a \in Appts, to \in Status : ReadStatus(c, a, to)
    \/ \E c \in Desk, a \in Appts : SessionExpires(c, a)
    \/ \E c \in Desk : WriteStatus(c) \/ WriteReschedule(c)
    \/ \E c \in Desk, a \in Appts, s \in Slot, keep \in BOOLEAN :
          ReadReschedule(c, a, s, keep)
    \/ \E c \in Customers, a \in Appts : View(c, a)
    \/ \E c \in Customers, s \in Slot : CustomerReschedule(c, s)
    \/ \E c \in Customers : CustomerCancel(c)

Spec == Init /\ [][Next]_vars

-----------------------------------------------------------------------------
(* Properties.                                                             *)

\* Whatever was read before a lock was taken, two appointments never occupy the
\* same staff member or resource at the same time: the occupancy trigger sees
\* every statement that creates, moves or reopens one.
NoDoubleBooking ==
    \A a, b \in Appts : a # b /\ Occupies(a) /\ Occupies(b) =>
        ~Clash(appt[a].slot, appt[b].slot)

\* A hold that has not run out keeps its slot: no appointment and no other such
\* hold is put on it, moved onto it or reopened there.
HeldSlotIsKept ==
    \A h \in Holds : LiveHold(h) =>
        /\ \A a \in Appts : Occupies(a) => ~Clash(hold[h].slot, appt[a].slot)
        /\ \A g \in Holds \ {h} : LiveHold(g) => ~Clash(hold[h].slot, hold[g].slot)

\* A visitor whose hold was validated and is still good is not turned away for
\* the slot when the booking is written.
HoldHonoured ==
    \A c \in Visitors :
        LET r == req[c] IN
        r.op = "book" /\ r.hold # NoHold /\ LiveHold(r.hold) =>
            Admits(r.slot, r.appt, r.hold, r.past)

\* A hold is worth what it promises: nobody else gets its slot while it is good,
\* and who booked with it gets the slot.
HoldKeepsItsPromise == HeldSlotIsKept /\ HoldHonoured

\* A hold becomes one appointment at most, though releasing it, or its running
\* out, can keep consumeHold from marking it.
OneAppointmentPerHold ==
    \A a, b \in Appts : a # b /\ appt[a].hold # NoHold => appt[a].hold # appt[b].hold

\* A customer's change is made to the appointment the customer was shown: not
\* after the staff, the payment provider or another device changed it.
CustomerChangesWhatTheySaw ==
    [][\A c \in Customers :
         LET a == req[c].appt IN
         req[c].op = "manage" /\ req'[c].op = "none" /\ appt'[a] # appt[a] =>
             appt[a].slot = req[c].slot /\ appt[a].status = req[c].status]_vars

\* The holds that count and the appointments that occupy are an exclusive
\* calendar, changed in indivisible steps (the occupancy trigger and the locks).
OnCalendar == [e \in Holds \cup Appts |->
                  IF e \in Holds
                  THEN IF LiveHold(e) THEN hold[e].slot ELSE NoSlot
                  ELSE IF Occupies(e) THEN appt[e].slot ELSE NoSlot]

Calendar == INSTANCE ExclusiveCalendar WITH OffCalendar <- NoSlot, calendar <- OnCalendar

\* Every step of Bookings is a step of the exclusive calendar, or none.
ImplementsCalendar == Calendar!CalendarSpec
=============================================================================
