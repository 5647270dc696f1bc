----------------------------- MODULE MCInvoices -----------------------------
(* Constants of the TLC runs of Invoices: a payment of 2 taken online and  *)
(* two refunds of 1, a payment of 1 recorded by staff.                     *)
EXTENDS Invoices

CONSTANTS i1, o1, f1, r1, r2, d1, d2

MCAmount == [p \in Payments |-> IF p = o1 THEN 2 ELSE 1]
MCRefundOf == [r \in Refunds |-> o1]
MCRefundAmount == [r \in Refunds |-> 1]
=============================================================================
