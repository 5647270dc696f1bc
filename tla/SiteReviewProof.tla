-------------------------- MODULE SiteReviewProof --------------------------
(***************************************************************************)
(* Theorems about SiteReview for every number of calls, audits, contents   *)
(* and reviews.                                                            *)
(*                                                                         *)
(* A call decides on what it has read, and reads neither a lock nor a      *)
(* digest.  Its decision is sound because every content is newer than all  *)
(* that is pinned: either the draft is as the call read it, or the trigger *)
(* refuses the call.                                                       *)
(***************************************************************************)
EXTENDS SiteReview, SequenceTheorems, TLAPS

-----------------------------------------------------------------------------
(* The inductive invariant.                                                *)

AfterReady == {"READY_FOR_CLIENT_REVIEW", "CLIENT_REVIEW", "CLIENT_APPROVED",
               "AGENCY_FINAL_REVIEW", "AGENCY_APPROVED"}

\* The lock of the version has one holder, who has a content left to write.
OneWriter ==
    \A c \in Callers : call[c].step = "commit" =>
        /\ version.digest < MaxContent
        /\ \A d \in Callers : call[d].step = "commit" => d = c

\* A call is about a review that exists.
InFlight ==
    \A c \in Callers : call[c].op \in {"policy", "move"} => call[c].revision \in DOMAIN cycles

\* No review is of a content the draft does not have yet.
PinnedPast == \A i \in DOMAIN cycles : cycles[i].pinned <= version.digest

\* Where the trigger would let a call through, the draft still is as the call
\* read it.
ReadyKept ==
    \A c \in Callers :
        (/\ call[c].op = "move"
         /\ call[c].to \in AfterReady
         /\ cycles[call[c].revision].pinned = version.digest) =>
            version.status = "DRAFT" /\ version.generation = "READY_FOR_REVIEW"

IInv == TypeOK /\ OneWriter /\ InFlight /\ PinnedPast /\ ReadyKept

LEMMA InitHolds == Init => IInv
<1> SUFFICES ASSUME Init PROVE IInv
  OBVIOUS
<1>1. 1 \in Contents /\ 1 \in 1..MaxRevision /\ 0 <= MaxRevision
  BY ReviewAssumption DEF Contents
<1>2. IdleCall \in Call /\ IdleAudit \in Audit
  BY <1>1 DEF IdleCall, Call, IdleAudit, Audit, Generation, CycleStatus, ACTIVE_CYCLE_STATUSES
<1>3. TypeOK
  BY <1>1, <1>2 DEF Init, TypeOK, Generation
<1> QED
  BY <1>3 DEF Init, IInv, OneWriter, InFlight, PinnedPast, ReadyKept, IdleCall

-----------------------------------------------------------------------------
(* Calls.                                                                  *)

\* A call ends, and the others go on as they were.
LEMMA EndsKeeps ==
  ASSUME TypeOK, NEW c \in Callers, Ends(c)
  PROVE  /\ call' \in [Callers -> Call]
         /\ call'[c] = IdleCall
         /\ \A d \in Callers : d # c => call'[d] = call[d]
<1>1. IdleCall \in Call
  <2>1. 1 \in Contents /\ 1 \in 1..MaxRevision
    BY ReviewAssumption DEF Contents
  <2> QED
    BY <2>1 DEF IdleCall, Call, Generation, CycleStatus, ACTIVE_CYCLE_STATUSES
<1> QED
  BY <1>1 DEF Ends, TypeOK

\* The end of a call, with a version and cycles that are as they were for the
\* calls in progress, keeps the invariant.
LEMMA EndsIInv ==
  ASSUME IInv, TypeOK', NEW c \in Callers, Ends(c),
         version' = version,
         DOMAIN cycles \subseteq DOMAIN cycles',
         \A i \in DOMAIN cycles : cycles'[i].pinned = cycles[i].pinned,
         \A i \in DOMAIN cycles' \ DOMAIN cycles : cycles'[i].pinned = version.digest
  PROVE  IInv'
<1>1. call'[c] = IdleCall /\ \A d \in Callers : d # c => call'[d] = call[d]
  BY EndsKeeps DEF IInv
<1>2. OneWriter'
  BY <1>1 DEF IInv, OneWriter, IdleCall
<1>3. InFlight'
  BY <1>1 DEF IInv, InFlight, IdleCall
<1>4. PinnedPast'
  <2> SUFFICES ASSUME NEW i \in DOMAIN cycles' PROVE cycles'[i].pinned <= version'.digest
    BY DEF PinnedPast
  <2>1. version.digest \in Int
    BY DEF IInv, TypeOK, Contents
  <2>2. CASE i \in DOMAIN cycles
    BY <2>2 DEF IInv, PinnedPast
  <2>3. CASE i \notin DOMAIN cycles
    BY <2>1, <2>3
  <2> QED
    BY <2>2, <2>3
<1>5. ReadyKept'
  <2> SUFFICES ASSUME NEW d \in Callers, call'[d].op = "move", call'[d].to \in AfterReady,
                      cycles'[call'[d].revision].pinned = version.digest
               PROVE  version.status = "DRAFT" /\ version.generation = "READY_FOR_REVIEW"
    BY DEF ReadyKept
  <2>1. call'[d] = call[d]
    BY <1>1 DEF IdleCall
  <2>2. call[d].revision \in DOMAIN cycles
    BY <2>1 DEF IInv, InFlight
  <2> QED
    BY <2>1, <2>2 DEF IInv, ReadyKept
<1> QED
  BY <1>2, <1>3, <1>4, <1>5 DEF IInv

\* A call that starts reads and writes nothing.
LEMMA StartsIInv ==
  ASSUME IInv, NEW c \in Callers, NEW r \in Call, Starts(c, r), r.step = "write",
         r.op \in {"policy", "move"} => r.revision \in DOMAIN cycles,
         r.op = "move" => ReadyFor(r.to),
         UNCHANGED <<version, genRun, cycles, workspace, audit>>
  PROVE  IInv'
<1>1. /\ call' \in [Callers -> Call]
      /\ call'[c] = r
      /\ \A d \in Callers : d # c => call'[d] = call[d]
  BY DEF IInv, TypeOK, Starts
<1>2. TypeOK'
  BY <1>1 DEF IInv, TypeOK
<1>3. OneWriter'
  BY <1>1 DEF IInv, OneWriter
<1>4. InFlight'
  BY <1>1 DEF IInv, InFlight
<1>5. PinnedPast'
  BY DEF IInv, PinnedPast
<1>6. ReadyKept'
  BY <1>1 DEF IInv, ReadyKept, ReadyFor, AfterReady
<1> QED
  BY <1>2, <1>3, <1>4, <1>5, <1>6 DEF IInv

\* The calls that read.
LEMMA ReadsIInv ==
  ASSUME IInv, NEW c \in Callers,
         StudioRead(c) \/ PageRead(c) \/ OpenRead(c) \/ PolicyRead(c) \/ MoveRead(c)
  PROVE  IInv'
<1>0. 1 \in Contents /\ 1 \in 1..MaxRevision
  BY ReviewAssumption DEF Contents
<1>1. IdleCall \in Call /\ version.digest \in Contents /\ version.generation \in Generation
  BY <1>0 DEF IdleCall, Call, Generation, CycleStatus, ACTIVE_CYCLE_STATUSES, IInv, TypeOK
<1>2. ASSUME NEW i \in DOMAIN cycles
      PROVE  i \in 1..MaxRevision /\ cycles[i].status \in CycleStatus
  <2>1. i \in 1..Len(cycles) /\ Len(cycles) \in Nat /\ cycles[i] \in Cycle
    BY <1>2, LenProperties DEF IInv, TypeOK
  <2> QED
    BY <2>1, ReviewAssumption DEF IInv, TypeOK, Cycle
<1>3. CASE StudioRead(c)
  BY <1>1, <1>3, StartsIInv DEF StudioRead, IdleCall, Call
<1>4. CASE PageRead(c)
  BY <1>1, <1>4, StartsIInv DEF PageRead, IdleCall, Call
<1>5. CASE OpenRead(c)
  BY <1>1, <1>5, StartsIInv DEF OpenRead, IdleCall, Call
<1>6. CASE PolicyRead(c)
  BY <1>1, <1>2, <1>6, StartsIInv DEF PolicyRead, IdleCall, Call
<1>7. CASE MoveRead(c)
  BY <1>1, <1>2, <1>7, StartsIInv, ReviewAssumption DEF MoveRead, IdleCall, Call
<1> QED
  BY <1>3, <1>4, <1>5, <1>6, <1>7

-----------------------------------------------------------------------------
(* What a step does to the reviews.                                        *)

\* The reviews as OpenWrite leaves the earlier ones.
Superseded ==
    [i \in DOMAIN cycles |-> IF cycles[i].status \in ACTIVE_CYCLE_STATUSES
                             THEN [cycles[i] EXCEPT !.status = "SUPERSEDED"]
                             ELSE cycles[i]]

\* A review of the content of the draft is opened, and closes what was open.
Opens(first) ==
    /\ first \in Cycle
    /\ first.status \in {"DRAFT", "INTERNAL_REVIEW"}
    /\ first.pinned = version.digest
    /\ \A i \in DOMAIN cycles :
         cycles[i].status \in ACTIVE_CYCLE_STATUSES => cycles[i].pinned = version.digest
    /\ Len(cycles) < MaxRevision
    /\ cycles' = Append(Superseded, first)

\* The client is asked, or no longer.
Asks(i) ==
    /\ cycles[i].pinned = version.digest
    /\ \E asks \in BOOLEAN : cycles' = [cycles EXCEPT ![i].asksClient = asks]

\* A review of the content of the draft moves on.
MovesOn(i) ==
    /\ cycles[i].pinned = version.digest
    /\ \E to \in CycleStatus :
         /\ Moves(cycles[i], to)
         /\ to = "AGENCY_APPROVED" =>
              version.status = "DRAFT" /\ version.generation = "READY_FOR_REVIEW"
         /\ cycles' = [cycles EXCEPT ![i].status = to]

Reviewed ==
    \/ cycles' = cycles
    \/ \E first \in Cycle : Opens(first)
    \/ \E i \in DOMAIN cycles : Asks(i) \/ MovesOn(i)

LEMMA OpenWriteOpens ==
  ASSUME IInv, NEW c \in Callers, OpenWrite(c)
  PROVE  cycles' = cycles \/ \E first \in Cycle : Opens(first)
<1> SUFFICES ASSUME cycles' # cycles PROVE \E first \in Cycle : Opens(first)
  OBVIOUS
<1> DEFINE open == {i \in DOMAIN cycles : cycles[i].status \in ACTIVE_CYCLE_STATUSES}
           earlier == [i \in DOMAIN cycles |-> IF i \in open
                         THEN [cycles[i] EXCEPT !.status = "SUPERSEDED"] ELSE cycles[i]]
           first(asks) == [status |-> "DRAFT", pinned |-> call[c].digest, asksClient |-> asks]
<1>1. PICK asks \in BOOLEAN :
           /\ Accepts(first(asks), version.digest)
           /\ Len(cycles) < MaxRevision
           /\ cycles' = Append(earlier, first(asks))
  BY DEF OpenWrite
<1>2. \A i \in open : Accepts(cycles[i], version.digest)
  BY DEF OpenWrite
<1>3. first(asks) \in Cycle
  BY DEF IInv, TypeOK, Call, Cycle, CycleStatus, ACTIVE_CYCLE_STATUSES
<1>4. earlier = Superseded
  BY DEF Superseded
<1>5. Opens(first(asks))
  BY <1>1, <1>2, <1>3, <1>4 DEF Opens, Accepts
<1> QED
  BY <1>3, <1>5

LEMMA PolicyWriteAsks ==
  ASSUME IInv, NEW c \in Callers, PolicyWrite(c)
  PROVE  cycles' = cycles \/ \E i \in DOMAIN cycles : Asks(i)
<1>1. call[c].revision \in DOMAIN cycles
  BY DEF IInv, InFlight, PolicyWrite, Handles
<1> QED
  BY <1>1 DEF PolicyWrite, Asks, Accepts

LEMMA MoveWriteMoves ==
  ASSUME IInv, NEW c \in Callers, MoveWrite(c)
  PROVE  cycles' = cycles \/ \E i \in DOMAIN cycles : MovesOn(i)
<1> SUFFICES ASSUME cycles' # cycles PROVE MovesOn(call[c].revision)
  BY DEF IInv, InFlight, MoveWrite, Handles
<1>1. call[c].op = "move" /\ call[c].to \in CycleStatus
  BY DEF IInv, TypeOK, Call, MoveWrite, Handles
<1>2. /\ Moves(cycles[call[c].revision], call[c].to)
      /\ cycles[call[c].revision].pinned = version.digest
      /\ cycles' = [cycles EXCEPT ![call[c].revision].status = call[c].to]
  BY DEF MoveWrite, Accepts
<1>3. call[c].to = "AGENCY_APPROVED" =>
         version.status = "DRAFT" /\ version.generation = "READY_FOR_REVIEW"
  BY <1>1, <1>2 DEF IInv, ReadyKept, AfterReady
<1> QED
  BY <1>1, <1>2, <1>3 DEF MovesOn

LEMMA FinalizeOpens ==
  ASSUME IInv, NEW q \in Audits, Finalize(q)
  PROVE  cycles' = cycles \/ (cycles = <<>> /\ \E first \in Cycle : Opens(first))
<1> DEFINE first == [status |-> "INTERNAL_REVIEW", pinned |-> genRun.output, asksClient |-> TRUE]
<1> SUFFICES ASSUME cycles' # cycles PROVE cycles = <<>> /\ Opens(first) /\ first \in Cycle
  OBVIOUS
<1>1. cycles = <<>> /\ Accepts(first, version.digest) /\ cycles' = <<first>>
  BY DEF Finalize
<1>2. first \in Cycle
  BY DEF IInv, TypeOK, Cycle, CycleStatus, ACTIVE_CYCLE_STATUSES
<1>3. Superseded = <<>>
  BY <1>1 DEF Superseded
<1>4. Append(Superseded, first) = <<first>> /\ Len(cycles) < MaxRevision
  BY <1>1, <1>3, ReviewAssumption
<1>5. \A i \in DOMAIN cycles : cycles[i].status \in ACTIVE_CYCLE_STATUSES
         => cycles[i].pinned = version.digest
  BY <1>1
<1>6. cycles' = Append(Superseded, first) /\ first.pinned = version.digest
      /\ first.status = "INTERNAL_REVIEW"
  BY <1>1, <1>4 DEF Accepts
<1> HIDE DEF first
<1>7. Opens(first)
  BY <1>2, <1>4, <1>5, <1>6 DEF Opens
<1> QED
  BY <1>1, <1>2, <1>7

\* A change of the reviews leaves them well formed, and what they pin alone.
PinsKept ==
    /\ cycles' \in Seq(Cycle) /\ Len(cycles') <= MaxRevision
    /\ DOMAIN cycles \subseteq DOMAIN cycles'
    /\ \A i \in DOMAIN cycles : cycles'[i].pinned = cycles[i].pinned
    /\ \A i \in DOMAIN cycles' \ DOMAIN cycles : cycles'[i].pinned = version.digest

LEMMA ReviewedKeeps ==
  ASSUME IInv, Reviewed
  PROVE  PinsKept
<1> USE DEF PinsKept
<1>0. /\ cycles \in Seq(Cycle) /\ Len(cycles) <= MaxRevision /\ Len(cycles) \in Nat
      /\ DOMAIN cycles = 1..Len(cycles)
      /\ \A i \in DOMAIN cycles : cycles[i] \in Cycle
  BY LenProperties DEF IInv, TypeOK
<1>1. CASE cycles' = cycles
  BY <1>0, <1>1
<1>2. ASSUME NEW first \in Cycle, Opens(first) PROVE PinsKept
  <2>1. \A i \in 1..Len(cycles) :
            Superseded[i] \in Cycle /\ Superseded[i].pinned = cycles[i].pinned
    BY <1>0 DEF Superseded, Cycle, CycleStatus
  <2>2. Superseded \in Seq(Cycle) /\ Len(Superseded) = Len(cycles)
    BY <1>0, <2>1 DEF Superseded
  <2>3. /\ Append(Superseded, first) \in Seq(Cycle)
        /\ Len(Append(Superseded, first)) = Len(cycles) + 1
        /\ \A i \in 1..Len(cycles) : Append(Superseded, first)[i] = Superseded[i]
        /\ Append(Superseded, first)[Len(cycles) + 1] = first
    BY <2>2, AppendProperties
  <2>4. cycles' = Append(Superseded, first) /\ first.pinned = version.digest
        /\ Len(cycles) < MaxRevision
    BY <1>2 DEF Opens
  <2>5. DOMAIN cycles' = 1..(Len(cycles) + 1)
    BY <2>3, <2>4, LenProperties
  <2> HIDE DEF Superseded
  <2> QED
    BY <1>0, <2>1, <2>3, <2>4, <2>5, ReviewAssumption
<1>3. ASSUME NEW i \in DOMAIN cycles, Asks(i) \/ MovesOn(i) PROVE PinsKept
  <2>1. PICK r \in Cycle : r.pinned = cycles[i].pinned /\ cycles' = [cycles EXCEPT ![i] = r]
    BY <1>0, <1>3 DEF Asks, MovesOn, Cycle
  <2>2. cycles' \in Seq(Cycle) /\ Len(cycles') = Len(cycles)
    BY <1>0, <2>1
  <2> QED
    BY <1>0, <2>1, <2>2
<1> QED
  BY <1>1, <1>2, <1>3 DEF Reviewed

-----------------------------------------------------------------------------
(* Every step keeps the invariant.                                         *)

LEMMA ReviewWritesIInv ==
  ASSUME IInv, NEW c \in Callers, OpenWrite(c) \/ PolicyWrite(c) \/ MoveWrite(c)
  PROVE  IInv'
<1>1. Reviewed
  BY OpenWriteOpens, PolicyWriteAsks, MoveWriteMoves DEF Reviewed
<1>2. Ends(c) /\ UNCHANGED <<version, genRun, workspace, audit>>
  BY DEF OpenWrite, PolicyWrite, MoveWrite
<1>3. PinsKept
  BY <1>1, ReviewedKeeps
<1>4. TypeOK'
  BY <1>2, <1>3, EndsKeeps DEF IInv, TypeOK, PinsKept
<1> QED
  BY <1>2, <1>3, <1>4, EndsIInv DEF PinsKept

LEMMA DropIInv == ASSUME IInv, NEW c \in Callers, DropCall(c) PROVE IInv'
<1>1. Ends(c) /\ UNCHANGED <<version, genRun, cycles, workspace, audit>>
  BY DEF DropCall
<1>2. TypeOK'
  BY <1>1, EndsKeeps DEF IInv, TypeOK
<1> QED
  BY <1>1, <1>2, EndsIInv

\* StudioWrite and PageWrite take the lock, or end.
LEMMA LockIInv == ASSUME IInv, NEW c \in Callers, StudioWrite(c) \/ PageWrite(c) PROVE IInv'
<1>1. UNCHANGED <<version, genRun, cycles, workspace, audit>> /\ ~Locked
  BY DEF StudioWrite, PageWrite
<1>2. CASE Ends(c)
  <2>1. TypeOK'
    BY <1>1, <1>2, EndsKeeps DEF IInv, TypeOK
  <2> QED
    BY <1>1, <1>2, <2>1, EndsIInv
<1>3. CASE ~Ends(c)
  <2>1. version.digest < MaxContent /\ call' = [call EXCEPT ![c].step = "commit"]
        /\ call[c].op \in {"studio", "page"}
    BY <1>3 DEF StudioWrite, PageWrite, Handles
  <2>2. /\ call' \in [Callers -> Call]
        /\ call'[c].op \in {"studio", "page"}
        /\ \A d \in Callers : d # c => call'[d] = call[d]
    BY <2>1 DEF IInv, TypeOK, Call
  <2>3. TypeOK'
    BY <1>1, <2>2 DEF IInv, TypeOK
  <2>4. OneWriter'
    BY <1>1, <2>1, <2>2 DEF OneWriter, Locked
  <2>5. InFlight'
    BY <1>1, <2>2 DEF IInv, InFlight
  <2>6. PinnedPast'
    BY <1>1 DEF IInv, PinnedPast
  <2>7. ReadyKept'
    BY <1>1, <2>2 DEF IInv, ReadyKept
  <2> QED
    BY <2>3, <2>4, <2>5, <2>6, <2>7 DEF IInv
<1> QED
  BY <1>2, <1>3

\* A new content: no review pins it, so no call in progress gets through.
LEMMA CommitIInv ==
  ASSUME IInv, NEW c \in Callers, StudioCommit(c) \/ PageCommit(c)
  PROVE  IInv' /\ version'.digest = version.digest + 1 /\ cycles' = cycles
<1>1. /\ call[c].step = "commit" /\ Ends(c)
      /\ UNCHANGED <<cycles, workspace, audit>>
      /\ version'.digest = version.digest + 1
      /\ version' \in [status: {"DRAFT", "INTERNAL_REVIEW"}, generation: Generation, digest: Nat]
      /\ genRun'.status \in Generation
      /\ genRun' = [status |-> genRun'.status, output |-> version'.digest] \/ genRun' = genRun
  BY DEF StudioCommit, PageCommit, IInv, TypeOK, Generation, Contents
<1>2. version.digest \in Nat /\ version.digest < MaxContent /\ MaxContent \in Nat
      /\ version.digest + 1 \in Contents
  BY <1>1, ReviewAssumption DEF IInv, OneWriter, TypeOK, Contents
<1>3. /\ call' \in [Callers -> Call]
      /\ call'[c] = IdleCall
      /\ \A d \in Callers : d # c => call'[d] = call[d]
  BY <1>1, EndsKeeps DEF IInv
<1>4. TypeOK'
  BY <1>1, <1>2, <1>3 DEF IInv, TypeOK
<1>5. OneWriter'
  BY <1>1, <1>3 DEF IInv, OneWriter, IdleCall
<1>6. InFlight'
  BY <1>1, <1>3 DEF IInv, InFlight, IdleCall
<1>7. \A i \in DOMAIN cycles : cycles[i].pinned \in Nat /\ cycles[i].pinned < version'.digest
  <2> SUFFICES ASSUME NEW i \in DOMAIN cycles
               PROVE  cycles[i].pinned \in Nat /\ cycles[i].pinned < version'.digest
    OBVIOUS
  <2>1. cycles[i] \in Cycle
    BY LenProperties, ElementOfSeq DEF IInv, TypeOK
  <2>2. cycles[i].pinned \in Nat /\ cycles[i].pinned <= version.digest
    BY <2>1 DEF Cycle, Contents, IInv, PinnedPast
  <2> QED
    BY <1>1, <1>2, <2>2
<1>8. PinnedPast'
  BY <1>1, <1>2, <1>7 DEF PinnedPast
<1>9. ReadyKept'
  <2> SUFFICES ASSUME NEW d \in Callers, call'[d].op = "move",
                      cycles[call'[d].revision].pinned = version'.digest
               PROVE  FALSE
    BY <1>1 DEF ReadyKept
  <2>1. call'[d].revision \in DOMAIN cycles
    BY <1>1, <1>6 DEF InFlight
  <2> QED
    BY <1>2, <1>1, <1>7, <2>1
<1> QED
  BY <1>1, <1>4, <1>5, <1>6, <1>8, <1>9 DEF IInv

\* An audit leaves the content alone, and never takes its readiness away.
LEMMA ExamineIInv ==
  ASSUME IInv, NEW q \in Audits, Examine(q)
  PROVE  IInv' /\ version'.digest = version.digest /\ Reviewed
<1>1. audit' \in [Audits -> Audit] /\ call' = call
  <2>1. 1 \in Contents /\ version.digest \in Contents
    BY ReviewAssumption DEF IInv, TypeOK, Contents
  <2>2. \E r \in Audit : audit' = [audit EXCEPT ![q] = r]
    <3>1. \A s \in {"idle", "checks", "finalize"}, d \in Contents :
            [step |-> s, digest |-> d] \in Audit
      BY DEF Audit
    <3>2. AuditOver(q) => \E r \in Audit : audit' = [audit EXCEPT ![q] = r]
      BY <2>1, <3>1 DEF AuditOver, IdleAudit
    <3>3. AuditAt(q, "finalize") => \E r \in Audit : audit' = [audit EXCEPT ![q] = r]
      <4> DEFINE promoted == [IdleAudit EXCEPT !.step = "finalize"]
      <4>1. promoted \in Audit
        BY <2>1 DEF Audit, IdleAudit
      <4>2. AuditAt(q, "finalize") => audit' = [audit EXCEPT ![q] = promoted]
        BY DEF AuditAt
      <4> HIDE DEF promoted
      <4> QED
        BY <4>1, <4>2
    <3>4. AuditBegin(q) => \E r \in Audit : audit' = [audit EXCEPT ![q] = r]
      <4> DEFINE begun == [step |-> "checks", digest |-> version.digest]
      <4>1. begun \in Audit
        BY <2>1 DEF Audit
      <4>2. AuditBegin(q) => audit' = [audit EXCEPT ![q] = begun]
        BY DEF AuditBegin
      <4> HIDE DEF begun
      <4> QED
        BY <4>1, <4>2
    <3>5. Promote(q) \/ Finalize(q) \/ AuditStops(q) => AuditOver(q) \/ AuditAt(q, "finalize")
      BY DEF Promote, Finalize, AuditStops
    <3> QED
      BY <3>2, <3>3, <3>4, <3>5 DEF Examine
  <2>3. call' = call
    BY DEF Examine, AuditBegin, Promote, Finalize, AuditStops
  <2> QED
    BY <2>2, <2>3 DEF IInv, TypeOK
<1>2. ASSUME version'.digest = version.digest, cycles' = cycles,
             version'.status = version.status,
             version.generation = "READY_FOR_REVIEW" => version'.generation = "READY_FOR_REVIEW",
             TypeOK'
      PROVE  IInv'
  BY <1>1, <1>2 DEF IInv, OneWriter, InFlight, PinnedPast, ReadyKept
<1>3. CASE AuditBegin(q) \/ AuditStops(q)
  <2>1. UNCHANGED <<version, genRun, cycles, workspace>>
    BY <1>3 DEF AuditBegin, AuditStops
  <2>2. TypeOK'
    BY <1>1, <2>1 DEF IInv, TypeOK
  <2> QED
    BY <1>2, <2>1, <2>2 DEF Reviewed
<1>4. CASE Promote(q)
  <2>1. /\ UNCHANGED <<cycles, workspace>>
        /\ genRun' \in [status: Generation, output: Contents]
        /\ version' \in [status: {"DRAFT", "INTERNAL_REVIEW"}, generation: Generation,
                         digest: Contents]
        /\ version'.digest = version.digest /\ version'.status = version.status
        /\ version.generation = "READY_FOR_REVIEW" => version'.generation = "READY_FOR_REVIEW"
    BY <1>4 DEF Promote, IInv, TypeOK, Generation
  <2>2. TypeOK'
    BY <1>1, <2>1 DEF IInv, TypeOK
  <2> QED
    BY <1>2, <2>1, <2>2 DEF Reviewed
<1>5. CASE Finalize(q) /\ cycles' = cycles
  <2>1. CASE cycles = <<>>
    <3>1. UNCHANGED <<version, genRun, workspace>>
      BY <1>5, <2>1 DEF Finalize
    <3>2. TypeOK'
      BY <1>1, <1>5, <3>1 DEF IInv, TypeOK
    <3> QED
      BY <1>2, <1>5, <3>1, <3>2 DEF Reviewed
  <2>2. CASE cycles # <<>>
    <3>1. UNCHANGED <<version, genRun, workspace>>
      BY <1>5, <2>2 DEF Finalize
    <3>2. TypeOK'
      BY <1>1, <1>5, <3>1 DEF IInv, TypeOK
    <3> QED
      BY <1>2, <1>5, <3>1, <3>2 DEF Reviewed
  <2> QED
    BY <2>1, <2>2
<1>6. CASE Finalize(q) /\ cycles' # cycles
  <2>1. cycles = <<>> /\ Reviewed
    BY <1>6, FinalizeOpens DEF Reviewed
  <2>2. PinsKept
    BY <2>1, ReviewedKeeps
  <2>3. /\ genRun' = genRun /\ workspace' = "READY"
        /\ version' = [version EXCEPT !.status = "INTERNAL_REVIEW"]
    BY <1>6 DEF Finalize
  <2>4. /\ version' \in [status: {"DRAFT", "INTERNAL_REVIEW"}, generation: Generation,
                         digest: Contents]
        /\ version'.digest = version.digest
    BY <2>3 DEF IInv, TypeOK
  <2>5. TypeOK'
    BY <1>1, <2>2, <2>3, <2>4 DEF IInv, TypeOK, PinsKept
  <2>6. \A d \in Callers : call[d].op \notin {"policy", "move"}
    BY <2>1 DEF IInv, InFlight
  <2>7. PinnedPast'
    <3>1. DOMAIN cycles = {}
      BY <2>1
    <3>2. version.digest \in Int
      BY DEF IInv, TypeOK, Contents
    <3> QED
      BY <2>2, <2>4, <3>1, <3>2 DEF PinnedPast, PinsKept
  <2>8. OneWriter' /\ InFlight' /\ ReadyKept'
    BY <1>1, <2>4, <2>6 DEF IInv, OneWriter, InFlight, ReadyKept
  <2> QED
    BY <2>1, <2>4, <2>5, <2>7, <2>8 DEF IInv
<1> QED
  BY <1>3, <1>4, <1>5, <1>6 DEF Examine

LEMMA Invariance == IInv /\ [Next]_vars => IInv'
<1> SUFFICES ASSUME IInv, [Next]_vars PROVE IInv'
  OBVIOUS
<1>1. ASSUME NEW c \in Callers, Change(c) \/ Review(c) \/ DropCall(c) PROVE IInv'
  BY <1>1, ReadsIInv, LockIInv, CommitIInv, ReviewWritesIInv, DropIInv DEF Change, Review
<1>2. ASSUME NEW q \in Audits, Examine(q) PROVE IInv'
  BY <1>2, ExamineIInv
<1>3. CASE UNCHANGED vars
  <2>1. UNCHANGED <<version, genRun, cycles, workspace, audit, call>>
    BY <1>3 DEF vars
  <2> QED
    BY <2>1 DEF IInv, TypeOK, OneWriter, InFlight, PinnedPast, ReadyKept
<1> QED
  BY <1>1, <1>2, <1>3 DEF Next

\* A step changes the content, or the reviews of the content there is.
LEMMA EveryStep ==
  ASSUME IInv, [Next]_vars
  PROVE  \/ cycles' = cycles /\ (version'.digest = version.digest
                                 \/ version'.digest = version.digest + 1)
         \/ Reviewed /\ version'.digest = version.digest
<1>1. ASSUME NEW c \in Callers, StudioCommit(c) \/ PageCommit(c)
      PROVE  cycles' = cycles /\ version'.digest = version.digest + 1
  BY <1>1, CommitIInv
<1>2. ASSUME NEW c \in Callers, OpenWrite(c) \/ PolicyWrite(c) \/ MoveWrite(c)
      PROVE  Reviewed /\ version'.digest = version.digest
  <2>1. Reviewed
    BY <1>2, OpenWriteOpens, PolicyWriteAsks, MoveWriteMoves DEF Reviewed
  <2> QED
    BY <1>2, <2>1 DEF OpenWrite, PolicyWrite, MoveWrite
<1>3. ASSUME NEW c \in Callers,
             StudioRead(c) \/ StudioWrite(c) \/ PageRead(c) \/ PageWrite(c) \/ OpenRead(c)
             \/ PolicyRead(c) \/ MoveRead(c) \/ DropCall(c)
      PROVE  cycles' = cycles /\ version' = version
  BY <1>3 DEF StudioRead, StudioWrite, PageRead, PageWrite, OpenRead, PolicyRead, MoveRead,
              DropCall
<1>4. ASSUME NEW q \in Audits, Examine(q)
      PROVE  Reviewed /\ version'.digest = version.digest
  BY <1>4, ExamineIInv
<1>5. CASE UNCHANGED vars
  BY <1>5 DEF vars
<1> QED
  BY <1>1, <1>2, <1>3, <1>4, <1>5 DEF Next, Change, Review

\* For every number of calls, audits, contents and reviews.
THEOREM InvariantHolds == Spec => []IInv
<1> QED
  BY InitHolds, Invariance, PTL DEF Spec

\* Rows, audits and calls stay well formed; contents stay within their bound
\* because the version has one writer at a time.
THEOREM ReviewTyped == Spec => []TypeOK
<1>1. IInv => TypeOK
  BY DEF IInv
<1> QED
  BY <1>1, InvariantHolds, PTL

-----------------------------------------------------------------------------
(* Decisions.                                                              *)

\* What a change of the reviews may do to the status of one of them.
LEMMA StatusChanges ==
  ASSUME IInv, Reviewed, NEW i \in DOMAIN cycles, cycles'[i].status # cycles[i].status
  PROVE  /\ cycles[i].pinned = version.digest
         /\ cycles'[i].status = "AGENCY_APPROVED" =>
              version.status = "DRAFT" /\ version.generation = "READY_FOR_REVIEW"
<1>0. /\ cycles \in Seq(Cycle) /\ Len(cycles) \in Nat /\ DOMAIN cycles = 1..Len(cycles)
      /\ \A j \in DOMAIN cycles : cycles[j] \in Cycle
  BY LenProperties DEF IInv, TypeOK
<1>1. ASSUME NEW first \in Cycle, Opens(first)
      PROVE  cycles[i].pinned = version.digest /\ cycles'[i].status # "AGENCY_APPROVED"
  <2>1. \A j \in 1..Len(cycles) : Superseded[j] \in Cycle
    BY <1>0 DEF Superseded, Cycle, CycleStatus
  <2>2. Superseded \in Seq(Cycle) /\ Len(Superseded) = Len(cycles)
    BY <1>0, <2>1 DEF Superseded
  <2>3. cycles'[i] = Superseded[i]
    BY <1>0, <1>1, <2>2, AppendProperties DEF Opens
  <2>4. cycles[i].status \in ACTIVE_CYCLE_STATUSES /\ cycles'[i].status = "SUPERSEDED"
    BY <1>0, <2>3 DEF Superseded, Cycle
  <2> QED
    BY <1>1, <2>4 DEF Opens
<1>2. ASSUME NEW j \in DOMAIN cycles, Asks(j) PROVE FALSE
  BY <1>0, <1>2 DEF Asks, Cycle
<1>3. ASSUME NEW j \in DOMAIN cycles, MovesOn(j)
      PROVE  /\ cycles[i].pinned = version.digest
             /\ cycles'[i].status = "AGENCY_APPROVED" =>
                  version.status = "DRAFT" /\ version.generation = "READY_FOR_REVIEW"
  BY <1>0, <1>3 DEF MovesOn, Cycle
<1> QED
  BY <1>1, <1>2, <1>3 DEF Reviewed

\* No decision is recorded about a content the draft no longer has, whichever
\* calls and audits run at once.
THEOREM DecisionsArePinned == Spec => DecidedOnPinnedContent
<1>1. IInv /\ [Next]_vars =>
        [\A i \in DOMAIN cycles :
           cycles'[i].status # cycles[i].status => cycles[i].pinned = version.digest]_vars
  BY EveryStep, StatusChanges
<1> QED
  BY <1>1, InvariantHolds, PTL DEF Spec, DecidedOnPinnedContent

\* The agency approves a draft in order, although readiness was evaluated in
\* another transaction.
THEOREM ApprovalsAreReady == Spec => ApprovedDraftIsReady
<1>1. IInv /\ [Next]_vars =>
        [\A i \in DOMAIN cycles :
           (cycles[i].status # "AGENCY_APPROVED" /\ cycles'[i].status = "AGENCY_APPROVED") =>
              version.status = "DRAFT" /\ version.generation = "READY_FOR_REVIEW"]_vars
  BY EveryStep, StatusChanges
<1> QED
  BY <1>1, InvariantHolds, PTL DEF Spec, ApprovedDraftIsReady

-----------------------------------------------------------------------------
(* The cycles implement the review.                                        *)

Stages == {"open", "agreed", "final", "approved", "closed"}

AsPromised(r) == [of |-> r.pinned, stage |-> Stage(r.status), asksClient |-> r.asksClient]

\* What the refinement shows of the cycles.
Promised(s) == [i \in DOMAIN s |-> AsPromised(s[i])]

Row == [of: Contents, stage: Stages, asksClient: BOOLEAN]

LEMMA RowOfCycle == \A r \in Cycle : AsPromised(r) \in Row
  BY DEF Cycle, Row, AsPromised, Stages, Stage

LEMMA PromisedIsSeq ==
  ASSUME NEW s \in Seq(Cycle)
  PROVE  /\ Promised(s) \in Seq(Row) /\ Len(Promised(s)) = Len(s)
         /\ DOMAIN Promised(s) = DOMAIN s
         /\ \A i \in DOMAIN s : Promised(s)[i] = AsPromised(s[i])
<1>1. Len(s) \in Nat /\ DOMAIN s = 1..Len(s) /\ \A i \in 1..Len(s) : s[i] \in Cycle
  BY LenProperties
<1>2. \A i \in 1..Len(s) : AsPromised(s[i]) \in Row
  BY <1>1, RowOfCycle
<1> QED
  BY <1>1, <1>2 DEF Promised

\* Opening a review, seen as the promise does.
LEMMA OpensPromised ==
  ASSUME IInv, NEW first \in Cycle, Opens(first)
  PROVE  Promised(cycles') =
           Append([i \in DOMAIN Promised(cycles) |->
                     IF Promise!Live(Promised(cycles)[i])
                     THEN [Promised(cycles)[i] EXCEPT !.stage = "closed"]
                     ELSE Promised(cycles)[i]],
                  [of |-> version.digest, stage |-> "open", asksClient |-> first.asksClient])
<1> DEFINE was == Promised(cycles)
           older == [i \in DOMAIN was |-> IF Promise!Live(was[i])
                                         THEN [was[i] EXCEPT !.stage = "closed"] ELSE was[i]]
           newest == [of |-> version.digest, stage |-> "open", asksClient |-> first.asksClient]
<1>0. /\ cycles \in Seq(Cycle) /\ Len(cycles) \in Nat /\ DOMAIN cycles = 1..Len(cycles)
      /\ \A i \in 1..Len(cycles) : cycles[i] \in Cycle
  BY LenProperties DEF IInv, TypeOK
<1>1. /\ Superseded \in Seq(Cycle) /\ Len(Superseded) = Len(cycles)
      /\ DOMAIN Superseded = 1..Len(cycles)
  <2>1. \A i \in 1..Len(cycles) : Superseded[i] \in Cycle
    BY <1>0 DEF Superseded, Cycle, CycleStatus
  <2> QED
    BY <1>0, <2>1 DEF Superseded
<1>2. /\ DOMAIN was = 1..Len(cycles)
      /\ \A i \in 1..Len(cycles) : was[i] = AsPromised(cycles[i])
  BY <1>0, PromisedIsSeq
<1>3. \A i \in 1..Len(cycles) : older[i] = AsPromised(Superseded[i])
  <2> SUFFICES ASSUME NEW i \in 1..Len(cycles) PROVE older[i] = AsPromised(Superseded[i])
    OBVIOUS
  <2>1. cycles[i] \in Cycle /\ was[i] = AsPromised(cycles[i]) /\ i \in DOMAIN was
    BY <1>0, <1>2
  <2>2. CASE cycles[i].status \in ACTIVE_CYCLE_STATUSES
    <3>1. Stage(cycles[i].status) \notin {"approved", "closed"}
      BY <2>2 DEF Stage, ACTIVE_CYCLE_STATUSES
    <3>2. older[i] = [AsPromised(cycles[i]) EXCEPT !.stage = "closed"]
      BY <2>1, <3>1 DEF AsPromised, Promise!Live
    <3>3. Superseded[i] = [cycles[i] EXCEPT !.status = "SUPERSEDED"]
      BY <1>0, <2>2 DEF Superseded
    <3>4. Stage("SUPERSEDED") = "closed"
      BY DEF Stage
    <3>5. AsPromised(Superseded[i]) =
            [of |-> cycles[i].pinned, stage |-> "closed", asksClient |-> cycles[i].asksClient]
      BY <2>1, <3>3, <3>4 DEF AsPromised, Cycle
    <3>6. older[i] =
            [of |-> cycles[i].pinned, stage |-> "closed", asksClient |-> cycles[i].asksClient]
      BY <3>2 DEF AsPromised
    <3> QED
      BY <3>5, <3>6
  <2>3. CASE cycles[i].status \notin ACTIVE_CYCLE_STATUSES
    <3>1. Stage(cycles[i].status) \in {"approved", "closed"}
      BY <2>1, <2>3 DEF Stage, ACTIVE_CYCLE_STATUSES, Cycle, CycleStatus
    <3>2. older[i] = AsPromised(cycles[i])
      BY <2>1, <3>1 DEF AsPromised, Promise!Live
    <3>3. Superseded[i] = cycles[i]
      BY <1>0, <2>3 DEF Superseded
    <3> QED
      BY <3>2, <3>3
  <2> QED
    BY <2>2, <2>3
<1>4. AsPromised(first) = newest
  BY DEF AsPromised, Opens, Stage
<1>5. newest \in Row /\ older \in Seq(Row) /\ Len(older) = Len(cycles)
  <2>1. \A i \in 1..Len(cycles) : older[i] \in Row
    BY <1>1, <1>3, RowOfCycle, ElementOfSeq
  <2>2. DOMAIN older = 1..Len(cycles)
    BY <1>2
  <2>3. older = [i \in 1..Len(cycles) |-> older[i]]
    BY <2>2
  <2>4. newest \in Row
    BY <1>4, RowOfCycle
  <2> HIDE DEF older
  <2> QED
    BY <1>0, <2>1, <2>3, <2>4
<1> HIDE DEF older, newest
<1>6. /\ cycles' \in Seq(Cycle) /\ Len(cycles') = Len(cycles) + 1
      /\ \A i \in 1..Len(cycles) : cycles'[i] = Superseded[i]
      /\ cycles'[Len(cycles) + 1] = first
  BY <1>1, AppendProperties DEF Opens
<1>7. /\ Append(older, newest) \in Seq(Row) /\ Len(Append(older, newest)) = Len(cycles) + 1
      /\ \A i \in 1..Len(cycles) : Append(older, newest)[i] = older[i]
      /\ Append(older, newest)[Len(cycles) + 1] = newest
  BY <1>5, AppendProperties
<1>8. /\ Promised(cycles') \in Seq(Row) /\ Len(Promised(cycles')) = Len(cycles) + 1
      /\ \A i \in 1..(Len(cycles) + 1) : Promised(cycles')[i] = AsPromised(cycles'[i])
  BY <1>6, PromisedIsSeq, LenProperties
<1>9. \A i \in 1..(Len(cycles) + 1) : Promised(cycles')[i] = Append(older, newest)[i]
  BY <1>0, <1>3, <1>4, <1>6, <1>7, <1>8
<1>10. Promised(cycles') = Append(older, newest)
  BY <1>7, <1>8, <1>9, SeqEqual
<1> QED
  BY <1>10 DEF older, newest

LEMMA AsksPromised ==
  ASSUME IInv, NEW i \in DOMAIN cycles, Asks(i)
  PROVE  \E asks \in BOOLEAN :
           Promised(cycles') = [Promised(cycles) EXCEPT ![i].asksClient = asks]
<1>0. cycles \in Seq(Cycle) /\ cycles[i] \in Cycle
  BY LenProperties DEF IInv, TypeOK
<1>1. PICK asks \in BOOLEAN : cycles' = [cycles EXCEPT ![i].asksClient = asks]
  BY DEF Asks
<1>2. AsPromised([cycles[i] EXCEPT !.asksClient = asks])
        = [AsPromised(cycles[i]) EXCEPT !.asksClient = asks]
  BY <1>0 DEF AsPromised, Cycle
<1>3. DOMAIN cycles' = DOMAIN cycles
      /\ \A j \in DOMAIN cycles :
            cycles'[j] = IF j = i THEN [cycles[i] EXCEPT !.asksClient = asks] ELSE cycles[j]
  BY <1>0, <1>1
<1>4. Promised(cycles') = [j \in DOMAIN cycles |->
         IF j = i THEN [AsPromised(cycles[i]) EXCEPT !.asksClient = asks]
         ELSE AsPromised(cycles[j])]
  BY <1>2, <1>3 DEF Promised
<1>5. [Promised(cycles) EXCEPT ![i].asksClient = asks] = [j \in DOMAIN cycles |->
         IF j = i THEN [AsPromised(cycles[i]) EXCEPT !.asksClient = asks]
         ELSE AsPromised(cycles[j])]
  BY DEF Promised
<1> QED
  BY <1>4, <1>5

\* What a move does to the stage of a review.
StageMoves(was, now, asksClient) ==
    \/ now = was
    \/ was = "open" /\ now = "agreed"
    \/ was = "agreed" /\ now = "final"
    \/ was = "open" /\ now = "final" /\ asksClient = FALSE
    \/ was = "final" /\ now = "approved"
    \/ was \in {"agreed", "final"} /\ now = "open"
    \/ was # "closed" /\ now = "closed"

LEMMA MovesStage ==
  ASSUME NEW r \in Cycle, NEW to \in CycleStatus, Moves(r, to)
  PROVE  StageMoves(Stage(r.status), Stage(to), r.asksClient)
<1>1. r.status \in CycleStatus /\ r.asksClient \in BOOLEAN
  BY DEF Cycle
<1>2. ASSUME NEW s \in CycleStatus, NEW asks \in BOOLEAN, MayMove(s, to),
             (s = "READY_FOR_CLIENT_REVIEW" /\ to = "AGENCY_FINAL_REVIEW") => ~asks
      PROVE  StageMoves(Stage(s), Stage(to), asks)
  <2>1. CASE to \in {"REJECTED", "CANCELLED", "SUPERSEDED"}
    BY <2>1 DEF Stage, StageMoves
  <2>2. CASE to = "CLIENT_APPROVED"
    <3>1. s = "CLIENT_REVIEW"
      BY <1>2, <2>2 DEF MayMove
    <3> QED
      BY <2>2, <3>1 DEF Stage, StageMoves
  <2>3. CASE to = "AGENCY_FINAL_REVIEW"
    <3>1. s \in {"CLIENT_APPROVED", "READY_FOR_CLIENT_REVIEW"}
      BY <1>2, <2>3 DEF MayMove
    <3>2. CASE s = "CLIENT_APPROVED"
      <4>1. Stage(s) = "agreed" /\ Stage(to) = "final"
        BY <2>3, <3>2 DEF Stage
      <4> QED
        BY <4>1 DEF StageMoves
    <3>3. CASE s = "READY_FOR_CLIENT_REVIEW"
      <4>1. asks = FALSE
        BY <1>2, <2>3, <3>3
      <4>2. Stage(s) = "open" /\ Stage(to) = "final"
        BY <2>3, <3>3 DEF Stage
      <4> QED
        BY <4>1, <4>2 DEF StageMoves
    <3> QED
      BY <3>1, <3>2, <3>3
  <2>4. CASE to = "AGENCY_APPROVED"
    <3>1. s = "AGENCY_FINAL_REVIEW"
      BY <1>2, <2>4 DEF MayMove
    <3> QED
      BY <2>4, <3>1 DEF Stage, StageMoves
  <2>5. CASE to \notin {"REJECTED", "CANCELLED", "SUPERSEDED", "CLIENT_APPROVED",
                      "AGENCY_FINAL_REVIEW", "AGENCY_APPROVED"}
    <3>1. s \notin {"REJECTED", "CANCELLED", "SUPERSEDED", "AGENCY_APPROVED"}
      BY <1>2, <2>5 DEF MayMove
    <3>2. Stage(to) = "open"
      BY <2>5 DEF Stage
    <3>3. Stage(s) \in {"open", "agreed", "final"}
      BY <3>1 DEF Stage
    <3> QED
      BY <3>2, <3>3 DEF StageMoves
  <2> QED
    BY <2>1, <2>2, <2>3, <2>4, <2>5
<1> QED
  BY <1>1, <1>2 DEF Moves

LEMMA MovesOnPromised ==
  ASSUME IInv, NEW i \in DOMAIN cycles, MovesOn(i)
  PROVE  /\ Promised(cycles)[i].of = version.digest
         /\ \E now \in Stages :
              /\ StageMoves(Promised(cycles)[i].stage, now, Promised(cycles)[i].asksClient)
              /\ Promised(cycles') = [Promised(cycles) EXCEPT ![i].stage = now]
<1>0. cycles \in Seq(Cycle) /\ cycles[i] \in Cycle
  BY LenProperties DEF IInv, TypeOK
<1>1. PICK to \in CycleStatus : Moves(cycles[i], to) /\ cycles' = [cycles EXCEPT ![i].status = to]
  BY DEF MovesOn
<1>2. AsPromised([cycles[i] EXCEPT !.status = to])
        = [AsPromised(cycles[i]) EXCEPT !.stage = Stage(to)]
  BY <1>0 DEF AsPromised, Cycle
<1>3. DOMAIN cycles' = DOMAIN cycles
      /\ \A j \in DOMAIN cycles :
            cycles'[j] = IF j = i THEN [cycles[i] EXCEPT !.status = to] ELSE cycles[j]
  BY <1>0, <1>1
<1>4. Promised(cycles') = [j \in DOMAIN cycles |->
         IF j = i THEN [AsPromised(cycles[i]) EXCEPT !.stage = Stage(to)]
         ELSE AsPromised(cycles[j])]
  BY <1>2, <1>3 DEF Promised
<1>5. [Promised(cycles) EXCEPT ![i].stage = Stage(to)] = [j \in DOMAIN cycles |->
         IF j = i THEN [AsPromised(cycles[i]) EXCEPT !.stage = Stage(to)]
         ELSE AsPromised(cycles[j])]
  BY DEF Promised
<1>6. Promised(cycles)[i] = AsPromised(cycles[i])
  BY DEF Promised
<1>7. StageMoves(Stage(cycles[i].status), Stage(to), cycles[i].asksClient)
  BY <1>0, <1>1, MovesStage
<1>8. Stage(to) \in Stages
  BY DEF Stage, Stages
<1>9. cycles[i].pinned = version.digest
  BY DEF MovesOn
<1> QED
  BY <1>4, <1>5, <1>6, <1>7, <1>8, <1>9 DEF AsPromised

\* Every step of the cycles is a step of the review, or none.
LEMMA StepImplements ==
  ASSUME IInv, [Next]_vars
  PROVE  [Promise!ReviewNext]_(Promise!review)
<1> DEFINE was == Promised(cycles)
<1>0. /\ was = [i \in DOMAIN cycles |->
                  [of |-> cycles[i].pinned, stage |-> Stage(cycles[i].status),
                   asksClient |-> cycles[i].asksClient]]
      /\ was' = [i \in DOMAIN cycles' |->
                  [of |-> cycles'[i].pinned, stage |-> Stage(cycles'[i].status),
                   asksClient |-> cycles'[i].asksClient]]
      /\ was' = Promised(cycles') /\ DOMAIN was = DOMAIN cycles
  BY DEF Promised, AsPromised
<1>1. CASE cycles' = cycles /\ version'.digest = version.digest
  BY <1>1 DEF Promise!review
<1>2. CASE cycles' = cycles /\ version'.digest = version.digest + 1
  <2>1. version'.digest > version.digest
    BY <1>2 DEF IInv, TypeOK, Contents
  <2>2. Promise!ChangeContent
    BY <1>2, <2>1 DEF Promise!ChangeContent
  <2> QED
    BY <2>2 DEF Promise!ReviewNext
<1>3. ASSUME NEW first \in Cycle, Opens(first), version'.digest = version.digest
      PROVE  Promise!ReviewNext
  <2>1. first.asksClient \in BOOLEAN
    BY DEF Cycle
  <2>2. Promise!OpenReview
    BY <1>0, <1>3, <2>1, OpensPromised DEF Promise!OpenReview
  <2> QED
    BY <2>2 DEF Promise!ReviewNext
<1>4. ASSUME NEW i \in DOMAIN cycles, Asks(i), version'.digest = version.digest
      PROVE  Promise!ReviewNext
  <2>1. Promise!AskClient(i)
    BY <1>0, <1>4, AsksPromised DEF Promise!AskClient
  <2> QED
    BY <1>0, <2>1 DEF Promise!ReviewNext
<1>5. ASSUME NEW i \in DOMAIN cycles, MovesOn(i), version'.digest = version.digest
      PROVE  [Promise!ReviewNext]_(Promise!review)
  <2>1. PICK now \in Stages :
          /\ StageMoves(was[i].stage, now, was[i].asksClient)
          /\ was' = [was EXCEPT ![i].stage = now]
    BY <1>0, <1>5, MovesOnPromised
  <2>2. was[i].of = version.digest
    BY <1>5, MovesOnPromised
  <2>3. CASE now = was[i].stage
    <3>1. was' = was
      BY <1>0, <2>1, <2>3
    <3> QED
      BY <1>0, <1>5, <3>1 DEF Promise!review
  <2>4. CASE now # was[i].stage
    <3>1. Promise!Decide(i)
      BY <1>0, <1>5, <2>1, <2>2, <2>4 DEF Promise!Decide, Promise!Becomes, StageMoves
    <3> QED
      BY <1>0, <3>1 DEF Promise!ReviewNext
  <2> QED
    BY <2>3, <2>4
<1> QED
  BY <1>1, <1>2, <1>3, <1>4, <1>5, EveryStep DEF Reviewed

\* The cycles keep what a review promises: each is of one content, decided
\* while the draft has it, the client before the agency, one at a time.
THEOREM CyclesImplementReview == Spec => ImplementsReview
<1>1. Init => Promise!ReviewInit
  <2> SUFFICES ASSUME Init PROVE Promise!ReviewInit
    OBVIOUS
  <2>1. cycles \in Seq(Cycle) /\ Len(cycles) = 0
    BY EmptySeq DEF Init
  <2>2. Promised(cycles) \in Seq(Row) /\ Len(Promised(cycles)) = 0
    BY <2>1, PromisedIsSeq
  <2>3. Promised(cycles) = <<>>
    BY <2>2, EmptySeq
  <2> QED
    BY <2>3 DEF Init, Promise!ReviewInit, Promised, AsPromised
<1>2. IInv /\ [Next]_vars => [Promise!ReviewNext]_(Promise!review)
  BY StepImplements
<1> QED
  BY <1>1, <1>2, InvariantHolds, PTL DEF Spec, ImplementsReview, Promise!ReviewSpec

=============================================================================
