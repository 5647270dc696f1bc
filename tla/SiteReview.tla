----------------------------- MODULE SiteReview -----------------------------
(***************************************************************************)
(* A generated draft site between its completion and its approval: the     *)
(* changes of its content, the quality audits that promote it to review,   *)
(* the workspace finalized after a promotion, and the review cycles that   *)
(* pin its content digest.  The services read first and write later, in    *)
(* transactions of their own; the triggers on site_review_cycles have the  *)
(* last word.                                                              *)
(***************************************************************************)
EXTENDS Integers, Sequences

CONSTANTS
    Callers,        \* calls of the agency or client API that may run at once
    Audits,         \* quality audits that may run at once
    MaxContent,     \* contents the draft may ever have (a bound)
    MaxRevision,    \* review cycles it may ever have (a bound)
    Targets         \* statuses that the calls ask for (a bound)

VARIABLES
    version,    \* status, generation status and content digest of the version
    genRun,     \* status and output digest of its generation run
    cycles,     \* its review cycles, in the order of their revisions
    workspace,  \* status of the provisioning run; "READY" also without one
    audit,      \* [Audits -> Audit]
    call        \* [Callers -> Call]

vars == <<version, genRun, cycles, workspace, audit, call>>

\* Digests, in the order in which the contents are made.
Contents == 1..MaxContent

\* The generation statuses an audit, and an edit, finds the draft in.
Generation == {"DESIGN_COMPLETE", "READY_FOR_REVIEW"}

ACTIVE_CYCLE_STATUSES ==
    {"DRAFT", "INTERNAL_REVIEW", "INTERNAL_CHANGES_REQUIRED", "READY_FOR_CLIENT_REVIEW",
     "CLIENT_REVIEW", "CLIENT_CHANGES_REQUESTED", "CLIENT_APPROVED", "AGENCY_FINAL_REVIEW"}

CycleStatus == ACTIVE_CYCLE_STATUSES
               \cup {"AGENCY_APPROVED", "REJECTED", "CANCELLED", "SUPERSEDED"}

ASSUME ReviewAssumption == /\ MaxContent \in Nat \ {0}
                           /\ MaxRevision \in Nat \ {0}
                           /\ Targets \subseteq CycleStatus

\* asksClient is client_approval_required.
Cycle == [status: CycleStatus, pinned: Contents, asksClient: BOOLEAN]

\* digest is the content the audit examines.
Audit == [step: {"idle", "checks", "finalize"}, digest: Contents]

\* What a call does, what it has read and what it will do next.
Call == [op: {"none", "studio", "page", "open", "policy", "move"},
         step: {"write", "commit"},
         generation: Generation, digest: Contents,
         revision: 1..MaxRevision, from: CycleStatus, to: CycleStatus]

IdleAudit == [step |-> "idle", digest |-> 1]
IdleCall  == [op |-> "none", step |-> "write", generation |-> "DESIGN_COMPLETE",
              digest |-> 1, revision |-> 1, from |-> "DRAFT", to |-> "DRAFT"]

\* Rows, audits and calls are well formed.
TypeOK ==
    /\ version \in [status: {"DRAFT", "INTERNAL_REVIEW"}, generation: Generation,
                    digest: Contents]
    /\ genRun \in [status: Generation, output: Contents]
    /\ cycles \in Seq(Cycle)
    /\ Len(cycles) <= MaxRevision
    /\ workspace \in {"GENERATING_SITE", "READY"}
    /\ audit \in [Audits -> Audit]
    /\ call \in [Callers -> Call]

\* Generation has completed, with the design applied; the workspace of a
\* provisioned site waits for the audit.
Init ==
    /\ version = [status |-> "DRAFT", generation |-> "DESIGN_COMPLETE", digest |-> 1]
    /\ genRun = [status |-> "DESIGN_COMPLETE", output |-> 1]
    /\ cycles = <<>>
    /\ workspace \in {"GENERATING_SITE", "READY"}
    /\ audit = [q \in Audits |-> IdleAudit]
    /\ call = [c \in Callers |-> IdleCall]

-----------------------------------------------------------------------------
(* The database.                                                           *)

\* The row of the version is locked by a transaction that changed the content;
\* others read the content it had before.
Locked == \E c \in Callers : call[c].step = "commit"

\* REVIEW_TRANSITIONS, which the trigger on the status repeats.
MayMove(from, to) ==
    \/ from \in ACTIVE_CYCLE_STATUSES /\ to \in {"CANCELLED", "SUPERSEDED"}
    \/ from \notin ACTIVE_CYCLE_STATUSES \cup {"SUPERSEDED"} /\ to = "SUPERSEDED"
    \/ /\ to = "REJECTED"
       /\ from \in ACTIVE_CYCLE_STATUSES
                   \ {"DRAFT", "READY_FOR_CLIENT_REVIEW", "CLIENT_APPROVED"}
    \/ /\ to = "INTERNAL_REVIEW"
       /\ from \in {"DRAFT", "INTERNAL_CHANGES_REQUIRED", "CLIENT_CHANGES_REQUESTED"}
    \/ /\ to = "INTERNAL_CHANGES_REQUIRED"
       /\ from \in {"INTERNAL_REVIEW", "READY_FOR_CLIENT_REVIEW", "AGENCY_FINAL_REVIEW"}
    \/ to = "READY_FOR_CLIENT_REVIEW" /\ from = "INTERNAL_REVIEW"
    \/ to = "CLIENT_REVIEW" /\ from \in {"READY_FOR_CLIENT_REVIEW", "CLIENT_CHANGES_REQUESTED"}
    \/ to = "CLIENT_CHANGES_REQUESTED" /\ from \in {"CLIENT_REVIEW", "CLIENT_APPROVED"}
    \/ to = "CLIENT_APPROVED" /\ from = "CLIENT_REVIEW"
    \/ to = "AGENCY_FINAL_REVIEW" /\ from \in {"READY_FOR_CLIENT_REVIEW", "CLIENT_APPROVED"}
    \/ to = "AGENCY_APPROVED" /\ from = "AGENCY_FINAL_REVIEW"

\* Mutant: the client's approval is asked for by the service only.
MayMoveShort(r, to) == MayMove(r.status, to)

\* ks_validate_site_review_transition.
Moves(r, to) ==
    /\ MayMove(r.status, to)
    /\ (r.status = "READY_FOR_CLIENT_REVIEW" /\ to = "AGENCY_FINAL_REVIEW") => ~r.asksClient

\* Mutant: the digest is compared when a cycle is inserted only.
AnyUpdate(r, digest) == TRUE

\* ks_validate_site_review_cycle: a cycle is inserted or updated, whatever
\* changes in it, only while it pins the digest of its version.
Accepts(r, digest) == r.pinned = digest

-----------------------------------------------------------------------------
(* Changes of the content.                                                 *)

Starts(c, r) == call[c] = IdleCall /\ call' = [call EXCEPT ![c] = r]
Ends(c) == call' = [call EXCEPT ![c] = IdleCall]

Handles(c, op) == call[c].op = op /\ call[c].step = "write"

\* persistDesignChange reads the version; every status of the model is editable.
StudioRead(c) ==
    /\ Starts(c, [IdleCall EXCEPT !.op = "studio", !.generation = version.generation])
    /\ UNCHANGED <<version, genRun, cycles, workspace, audit>>

\* Its transaction.  It pins the latest cycle to the new content, which the
\* trigger never allows: with a cycle, whatever its status, nothing is saved.
StudioWrite(c) ==
    /\ Handles(c, "studio")
    /\ ~Locked
    /\ IF cycles = <<>>
       THEN version.digest < MaxContent /\ call' = [call EXCEPT ![c].step = "commit"]
       ELSE Ends(c)
    /\ UNCHANGED <<version, genRun, cycles, workspace, audit>>

\* The run is set back only if the version was read READY_FOR_REVIEW.
StudioCommit(c) ==
    /\ call[c].op = "studio"
    /\ call[c].step = "commit"
    /\ LET digest == version.digest + 1
       IN  /\ version' = [status |-> "INTERNAL_REVIEW", generation |-> "DESIGN_COMPLETE",
                          digest |-> digest]
           /\ genRun' = [status |-> IF call[c].generation = "READY_FOR_REVIEW"
                                    THEN "DESIGN_COMPLETE" ELSE genRun.status,
                         output |-> digest]
    /\ Ends(c)
    /\ UNCHANGED <<cycles, workspace, audit>>

\* updatePage, and the page operations that share its rules.
PageRead(c) ==
    /\ version.status = "DRAFT"
    /\ Starts(c, [IdleCall EXCEPT !.op = "page"])
    /\ UNCHANGED <<version, genRun, cycles, workspace, audit>>

\* The digest is written before the open and approved cycles are superseded:
\* the trigger then finds them pinned to other content.
PageWrite(c) ==
    /\ Handles(c, "page")
    /\ ~Locked
    /\ IF \A i \in DOMAIN cycles : cycles[i].status \notin ACTIVE_CYCLE_STATUSES \cup {"AGENCY_APPROVED"}
       THEN version.digest < MaxContent /\ call' = [call EXCEPT ![c].step = "commit"]
       ELSE Ends(c)
    /\ UNCHANGED <<version, genRun, cycles, workspace, audit>>

PageCommit(c) ==
    /\ call[c].op = "page"
    /\ call[c].step = "commit"
    /\ version' = [version EXCEPT !.digest = @ + 1]
    /\ Ends(c)
    /\ UNCHANGED <<genRun, cycles, workspace, audit>>

-----------------------------------------------------------------------------
(* The quality audit.                                                      *)

AuditAt(q, s) == audit' = [audit EXCEPT ![q] = [IdleAudit EXCEPT !.step = s]]
AuditOver(q) == audit' = [audit EXCEPT ![q] = IdleAudit]

\* loadRun: the content the version has now.
AuditBegin(q) ==
    /\ audit[q].step = "idle"
    /\ audit' = [audit EXCEPT ![q] = [step |-> "checks", digest |-> version.digest]]
    /\ UNCHANGED <<version, genRun, cycles, workspace, call>>

\* Mutant: writes the promotion into the status of the version.
PromoteStatus(q) ==
    /\ audit[q].step = "checks"
    /\ ~Locked
    /\ IF genRun.status = "DESIGN_COMPLETE" /\ version.generation = "DESIGN_COMPLETE"
       THEN /\ genRun' = [genRun EXCEPT !.status = "READY_FOR_REVIEW"]
            /\ version' = [version EXCEPT !.status = "READY_FOR_REVIEW"]
            /\ AuditAt(q, "finalize")
       ELSE UNCHANGED <<genRun, version>> /\ AuditOver(q)
    /\ UNCHANGED <<cycles, workspace, call>>

\* The evidence is complete and nothing but a human review blocks: the run and
\* its version are promoted, or neither.
Promote(q) ==
    /\ audit[q].step = "checks"
    /\ ~Locked
    /\ IF genRun.status = "DESIGN_COMPLETE" /\ version.generation = "DESIGN_COMPLETE"
       THEN /\ genRun' = [genRun EXCEPT !.status = "READY_FOR_REVIEW"]
            /\ version' = [version EXCEPT !.generation = "READY_FOR_REVIEW"]
            /\ AuditAt(q, "finalize")
       ELSE UNCHANGED <<genRun, version>> /\ AuditOver(q)
    /\ UNCHANGED <<cycles, workspace, call>>

\* finalizeProvisionedWorkspace opens the first review, which it must number 1,
\* of the content the run has put out.
Finalize(q) ==
    /\ audit[q].step = "finalize"
    /\ ~Locked
    /\ LET first == [status |-> "INTERNAL_REVIEW", pinned |-> genRun.output,
                     asksClient |-> TRUE]
       IN  IF /\ workspace = "GENERATING_SITE"
              /\ genRun.status \in Generation
              /\ cycles = <<>>
              /\ Accepts(first, version.digest)
           THEN /\ cycles' = <<first>>
                /\ version' = [version EXCEPT !.status = "INTERNAL_REVIEW"]
                /\ workspace' = "READY"
           ELSE UNCHANGED <<cycles, version, workspace>>
    /\ AuditOver(q)
    /\ UNCHANGED <<genRun, call>>

\* The audit blocks, fails, is cancelled, or its worker dies.
AuditStops(q) ==
    /\ audit[q].step # "idle"
    /\ AuditOver(q)
    /\ UNCHANGED <<version, genRun, cycles, workspace, call>>

-----------------------------------------------------------------------------
(* Review cycles.                                                          *)

\* createCycle reads the draft.
OpenRead(c) ==
    /\ version.status = "DRAFT"
    /\ version.generation = "READY_FOR_REVIEW"
    /\ genRun.status = "READY_FOR_REVIEW"
    /\ Starts(c, [IdleCall EXCEPT !.op = "open", !.digest = version.digest])
    /\ UNCHANGED <<version, genRun, cycles, workspace, audit>>

\* Its transaction supersedes what is open; one refused row refuses it all.
OpenWrite(c) ==
    /\ Handles(c, "open")
    /\ LET open == {i \in DOMAIN cycles : cycles[i].status \in ACTIVE_CYCLE_STATUSES}
       IN  IF \A i \in open : Accepts(cycles[i], version.digest)
           THEN \E asks \in BOOLEAN :
                  LET opened == [status |-> "DRAFT", pinned |-> call[c].digest,
                                 asksClient |-> asks]
                  IN  IF Accepts(opened, version.digest)
                      THEN /\ Len(cycles) < MaxRevision
                           /\ cycles' = Append([i \in DOMAIN cycles |->
                                                  IF i \in open
                                                  THEN [cycles[i] EXCEPT !.status = "SUPERSEDED"]
                                                  ELSE cycles[i]], opened)
                      ELSE UNCHANGED cycles
           ELSE UNCHANGED cycles
    /\ Ends(c)
    /\ UNCHANGED <<version, genRun, workspace, audit>>

\* updateCycle, of a draft; the cycle may have moved on when it writes.
PolicyRead(c) ==
    /\ \E i \in DOMAIN cycles :
         /\ cycles[i].status = "DRAFT"
         /\ Starts(c, [IdleCall EXCEPT !.op = "policy", !.revision = i])
    /\ UNCHANGED <<version, genRun, cycles, workspace, audit>>

PolicyWrite(c) ==
    /\ Handles(c, "policy")
    /\ \E asks \in BOOLEAN :
         cycles' = IF Accepts(cycles[call[c].revision], version.digest)
                   THEN [cycles EXCEPT ![call[c].revision].asksClient = asks]
                   ELSE cycles
    /\ Ends(c)
    /\ UNCHANGED <<version, genRun, workspace, audit>>

\* Mutant: readiness is asked for on the way to the client only.
ReadyAtFirst(to) == to = "READY_FOR_CLIENT_REVIEW" => version.generation = "READY_FOR_REVIEW"

\* evaluateReadiness; the preview of the pinned content is kept for ever, and
\* the facts, comments and change requests are in order.
ReadyFor(to) ==
    to \in {"READY_FOR_CLIENT_REVIEW", "CLIENT_REVIEW", "CLIENT_APPROVED",
            "AGENCY_FINAL_REVIEW", "AGENCY_APPROVED"}
    => version.status = "DRAFT" /\ version.generation = "READY_FOR_REVIEW"

\* transition, agencyFinalApproval and clientDecision read the cycle and its
\* readiness.
MoveRead(c) ==
    /\ \E i \in DOMAIN cycles : \E to \in Targets :
         /\ Moves(cycles[i], to)
         /\ ReadyFor(to)
         /\ Starts(c, [IdleCall EXCEPT !.op = "move", !.revision = i,
                         !.from = cycles[i].status, !.to = to])
    /\ UNCHANGED <<version, genRun, cycles, workspace, audit>>

\* They write, with the approval if there is one, only over the status they
\* read; the triggers see the row as it is now.
MoveWrite(c) ==
    /\ Handles(c, "move")
    /\ LET i == call[c].revision
       IN  cycles' = IF /\ cycles[i].status = call[c].from
                        /\ Moves(cycles[i], call[c].to)
                        /\ Accepts(cycles[i], version.digest)
                     THEN [cycles EXCEPT ![i].status = call[c].to]
                     ELSE cycles
    /\ Ends(c)
    /\ UNCHANGED <<version, genRun, workspace, audit>>

\* The API dies in the middle of a call, and its transaction with it.
DropCall(c) ==
    /\ call[c].op # "none"
    /\ Ends(c)
    /\ UNCHANGED <<version, genRun, cycles, workspace, audit>>

-----------------------------------------------------------------------------

Change(c) ==
    \/ StudioRead(c)
    \/ StudioWrite(c)
    \/ StudioCommit(c)
    \/ PageRead(c)
    \/ PageWrite(c)
    \/ PageCommit(c)

Review(c) ==
    \/ OpenRead(c)
    \/ OpenWrite(c)
    \/ PolicyRead(c)
    \/ PolicyWrite(c)
    \/ MoveRead(c)
    \/ MoveWrite(c)

Examine(q) ==
    \/ AuditBegin(q)
    \/ Promote(q)
    \/ Finalize(q)
    \/ AuditStops(q)

Next ==
    \/ \E c \in Callers : Change(c) \/ Review(c) \/ DropCall(c)
    \/ \E q \in Audits : Examine(q)

Spec == Init /\ [][Next]_vars

-----------------------------------------------------------------------------
(* What the runs check.                                                    *)

\* Every decision about a cycle is taken while the draft has the content the
\* cycle pins, although the services never compare the two: "version-,
\* revision-, scope-, and digest-bound" (docs/phase-15-7a).
DecidedOnPinnedContent ==
    [][\A i \in DOMAIN cycles :
         cycles'[i].status # cycles[i].status => cycles[i].pinned = version.digest]_vars

\* The agency's approval finds the draft as an approval needs it, although it
\* was asked for before.
ApprovedDraftIsReady ==
    [][\A i \in DOMAIN cycles :
         (cycles[i].status # "AGENCY_APPROVED" /\ cycles'[i].status = "AGENCY_APPROVED") =>
            version.status = "DRAFT" /\ version.generation = "READY_FOR_REVIEW"]_vars

\* The cycles implement what a review promises: content pinned once, the client
\* before the agency, one review at a time.
Stage(status) ==
    CASE status = "CLIENT_APPROVED" -> "agreed"
      [] status = "AGENCY_FINAL_REVIEW" -> "final"
      [] status = "AGENCY_APPROVED" -> "approved"
      [] status \in {"REJECTED", "CANCELLED", "SUPERSEDED"} -> "closed"
      [] OTHER -> "open"

Promise == INSTANCE PinnedReview WITH
             content <- version.digest,
             reviews <- [i \in DOMAIN cycles |->
                           [of |-> cycles[i].pinned, stage |-> Stage(cycles[i].status),
                            asksClient |-> cycles[i].asksClient]]

ImplementsReview == Promise!ReviewSpec

\* A draft is promoted on evidence about the content it has: "Previous browser
\* evidence is therefore never treated as valid for changed content"
\* (docs/website-generation-v2.md:73).
PromotedOnItsOwnEvidence ==
    [][\A q \in Audits :
         (audit[q].step = "checks" /\ audit'[q].step = "finalize") =>
            audit[q].digest = version.digest]_vars
=============================================================================
