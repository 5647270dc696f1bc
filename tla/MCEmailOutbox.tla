--------------------------- MODULE MCEmailOutbox ---------------------------
(* EmailOutbox on a small instance. *)
EXTENDS EmailOutbox

CONSTANTS w1, w2, t1, t2, c1
=============================================================================
