---------------------------- MODULE MCSiteReview ----------------------------
(* Constants of the TLC runs of SiteReview.                                *)
EXTENDS SiteReview, TLC

CONSTANTS c1, c2, q1

\* A review can be superseded from every status, rejected or cancelled from some.
OneWayToClose == CycleStatus \ {"REJECTED", "CANCELLED"}

CallersAlike == Permutations(Callers)
=============================================================================
