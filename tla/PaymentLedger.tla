--------------------------- MODULE PaymentLedger ---------------------------
(***************************************************************************)
(* What the platform promises of the payments it records: a payment is     *)
(* recorded once, for one appointment, and only while no other payment of  *)
(* that appointment stands; it may be refunded, and nothing else ever      *)
(* happens to it.                                                          *)
(***************************************************************************)
CONSTANTS
    Payments,    \* payments, named by the checkout that takes them
    Appts,       \* appointments
    NoAppt

VARIABLE ledger  \* [Payments -> Entry]

Entry == [status: {"ABSENT", "SUCCEEDED", "REFUNDED"}, appt: Appts \cup {NoAppt}]

Absent == [status |-> "ABSENT", appt |-> NoAppt]

LedgerInit == ledger = [p \in Payments |-> Absent]

Stands(p, a) == ledger[p] = [status |-> "SUCCEEDED", appt |-> a]

Record(p, a) ==
    /\ ledger[p] = Absent
    /\ \A q \in Payments : ~Stands(q, a)
    /\ ledger' = [ledger EXCEPT ![p] = [status |-> "SUCCEEDED", appt |-> a]]

Refund(p) ==
    /\ ledger[p].status = "SUCCEEDED"
    /\ ledger' = [ledger EXCEPT ![p].status = "REFUNDED"]

LedgerNext == \E p \in Payments : Refund(p) \/ \E a \in Appts : Record(p, a)

LedgerSpec == LedgerInit /\ [][LedgerNext]_ledger
=============================================================================
