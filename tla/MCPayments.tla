----------------------------- MODULE MCPayments -----------------------------
(* Constants of the TLC runs of BookingPayments.                           *)
EXTENDS BookingPayments, TLC

CONSTANTS a1, s1, s2, p1, d1, d2, k1
=============================================================================
