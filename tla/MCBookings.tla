----------------------------- MODULE MCBookings -----------------------------
(* Constants of the TLC runs of Bookings.                                  *)
EXTENDS Bookings, TLC

CONSTANTS a1, a2, a3, h1, h2, v1, v2, d1, d2, c1, c2, s1, s2, r1

OneStart    == {0}
TwoStarts   == 0..1
ThreeStarts == 0..2
ApptsAlike  == Permutations(Appts)
HoldsAlike  == Permutations(Holds)
EntriesAlike == ApptsAlike \cup HoldsAlike \cup Permutations(Visitors)
                \cup Permutations(Desk) \cup Permutations(Customers)
                \cup Permutations(Staff)
=============================================================================
