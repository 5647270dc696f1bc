------------------------- MODULE GenerationRequest -------------------------
(***************************************************************************)
(* What generating a site promises: pages once written stay, a stopped     *)
(* generation may be taken up again from where it stood, the draft is      *)
(* delivered once, with every page, and nothing undoes that.               *)
(***************************************************************************)
CONSTANT Pages

VARIABLES
    phase,     \* of the request
    written    \* the pages of the draft

request == <<phase, written>>

RequestInit == phase = "working" /\ written = {}

\* Also a page written late, by an attempt that was stopped meanwhile.
WriteSome ==
    /\ \E p \in Pages : written' = written \cup {p}
    /\ UNCHANGED phase

Deliver ==
    /\ phase = "working"
    /\ written = Pages
    /\ phase' = "delivered"
    /\ UNCHANGED written

StopWork ==
    /\ phase = "working"
    /\ phase' = "stopped"
    /\ UNCHANGED written

Resume ==
    /\ phase = "stopped"
    /\ phase' = "working"
    /\ UNCHANGED written

RequestNext == WriteSome \/ Deliver \/ StopWork \/ Resume

RequestSpec == RequestInit /\ [][RequestNext]_request
=============================================================================
