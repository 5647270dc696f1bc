------------------------------- MODULE Slots -------------------------------
(***************************************************************************)
(* The time slots that appointments and holds compete for: who serves, in  *)
(* which room or on which machine, and the range of time it occupies.      *)
(* Time is counted in steps of the booking grid.                           *)
(***************************************************************************)
EXTENDS Integers

CONSTANTS
    Staff,        \* users who can be booked
    Resources,    \* rooms and machines a service may need
    NoResource,   \* resource_id is null
    Starts,       \* start times on the grid
    Duration,     \* end_time - start_time
    Buffer        \* occupied_end - end_time of a service

ASSUME SlotsAssumption ==
    /\ NoResource \notin Resources
    /\ Starts \subseteq Int
    /\ Duration \in Nat \ {0}
    /\ Buffer \in Nat

\* tail is occupied_end - end_time: blocked time has no service, so no buffer.
Slot == [staff: Staff, resource: Resources \cup {NoResource}, start: Starts,
         tail: {0, Buffer}]

OccupiedEnd(s) == s.start + Duration + s.tail

Shares(s, t) == \/ s.staff = t.staff
                \/ s.resource # NoResource /\ s.resource = t.resource

\* Two slots that cannot both be occupied: half-open ranges that overlap.
Clash(s, t) == /\ Shares(s, t)
               /\ s.start < OccupiedEnd(t)
               /\ t.start < OccupiedEnd(s)
=============================================================================
