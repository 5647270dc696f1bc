---------------------------- MODULE Receivables ----------------------------
(***************************************************************************)
(* What an invoice promises: it takes money only while it is issued and    *)
(* never more than it asks for, money given back makes it due again, its   *)
(* total stands once it is issued, and it is void only when it holds       *)
(* nothing, for ever.                                                      *)
(***************************************************************************)
EXTENDS Integers

CONSTANTS
    Invoices,
    Totals       \* the totals an invoice may ask for

VARIABLES
    document,    \* [Invoices -> Document]
    held         \* [Invoices -> Nat]: what was taken and not given back

receivable == <<document, held>>

Document == [status: {"ABSENT", "DRAFT", "ISSUED", "VOID"}, total: Totals \cup {0}]

ReceivableInit ==
    /\ document = [i \in Invoices |-> [status |-> "ABSENT", total |-> 0]]
    /\ held = [i \in Invoices |-> 0]

Draft(i, n) ==
    /\ document[i].status \in {"ABSENT", "DRAFT"}
    /\ document' = [document EXCEPT ![i] = [status |-> "DRAFT", total |-> n]]
    /\ UNCHANGED held

BecomeIssued(i) ==
    /\ document[i].status = "DRAFT"
    /\ document' = [document EXCEPT ![i].status = "ISSUED"]
    /\ UNCHANGED held

BecomeVoid(i) ==
    /\ document[i].status \in {"DRAFT", "ISSUED"}
    /\ held[i] = 0
    /\ document' = [document EXCEPT ![i].status = "VOID"]
    /\ UNCHANGED held

Take(i, n) ==
    /\ document[i].status = "ISSUED"
    /\ held[i] + n <= document[i].total
    /\ held' = [held EXCEPT ![i] = @ + n]
    /\ UNCHANGED document

GiveBack(i, n) ==
    /\ n <= held[i]
    /\ held' = [held EXCEPT ![i] = @ - n]
    /\ UNCHANGED document

ReceivableNext ==
    \E i \in Invoices :
        \/ BecomeIssued(i) \/ BecomeVoid(i)
        \/ \E n \in Totals : Draft(i, n)
        \/ \E n \in 1..document[i].total : Take(i, n) \/ GiveBack(i, n)

ReceivableSpec == ReceivableInit /\ [][ReceivableNext]_receivable
=============================================================================
