------------------------- MODULE ExclusiveCalendar -------------------------
(***************************************************************************)
(* What the booking system promises of the calendar: every entry, a        *)
(* customer's hold or an appointment, is put on the calendar, moved and    *)
(* taken off in one indivisible step, and never on a slot that clashes     *)
(* with another entry.  A hold never moves; the appointment made from it   *)
(* gets its slot without a moment in which the slot is free.               *)
(***************************************************************************)
EXTENDS Slots

CONSTANTS
    Holds,        \* entries that reserve a slot for a while
    Appts,        \* entries that use it
    OffCalendar   \* an entry without a slot

VARIABLE calendar \* [Holds \cup Appts -> Slot \cup {OffCalendar}]

Entries == Holds \cup Appts

CalendarInit == calendar = [e \in Entries |-> OffCalendar]

On(e) == calendar[e] # OffCalendar

\* Slot s clashes with no entry but those in spared.
Free(s, spared) == \A e \in Entries \ spared : On(e) => ~Clash(s, calendar[e])

Take(e, s) == /\ ~On(e)
              /\ Free(s, {e})
              /\ calendar' = [calendar EXCEPT ![e] = s]

Move(a, s) == /\ On(a)
              /\ Free(s, {a})
              /\ calendar' = [calendar EXCEPT ![a] = s]

Vacate(e) == calendar' = [calendar EXCEPT ![e] = OffCalendar]

Handover(h, a) ==
    /\ On(h) /\ ~On(a)
    /\ calendar' = [calendar EXCEPT ![h] = OffCalendar, ![a] = calendar[h]]

CalendarNext ==
    \/ \E e \in Entries, s \in Slot : Take(e, s)
    \/ \E a \in Appts, s \in Slot : Move(a, s)
    \/ \E e \in Entries : Vacate(e)
    \/ \E h \in Holds, a \in Appts : Handover(h, a)

CalendarSpec == CalendarInit /\ [][CalendarNext]_calendar
=============================================================================
