------------------------- MODULE GenerationRunsProof -------------------------
(***************************************************************************)
(* Theorems about GenerationRuns for every number of pages, attempts and   *)
(* API calls and for both pipelines.                                       *)
(*                                                                         *)
(* One action, CompleteRun, delivers a draft.  All the others keep a       *)
(* completed run, its draft and its pages as they are: that is Settled, and*)
(* what follows a delivery is kept by Settled steps for one reason.        *)
(***************************************************************************)
EXTENDS GenerationRuns, TLAPS

-----------------------------------------------------------------------------
(* The inductive invariant.                                                *)

\* An execution sees only pages that are there, and validates all of them.
SeenIsWritten ==
    \A a \in Attempts :
        /\ exec[a].seen \subseteq pages
        /\ exec[a].step = "validate" => exec[a].seen = Pages

\* Who is about to finalize, or to report success, has completed the run.
Finishing ==
    \A a \in Attempts :
        /\ exec[a].step = "finalize" => run \in Complete
        /\ exec[a].outcome = "done" /\ exec[a].step \notin {"idle", "over"} =>
              /\ exec[a].step \notin {"fail", "workspace"}
              /\ exec[a].step = "report" => run \in Complete

\* What a completed run implies, and what implies it.
Delivered ==
    /\ run \in Complete => pages = Pages
    /\ LifecyclesAgree
    /\ job.status = "COMPLETED" => run \in Complete
    /\ workspace = "READY" => run = "READY_FOR_REVIEW"

\* A call leaves a run CANCELLED without its draft only after the job: that job
\* never fails.
StoppedTogether ==
    /\ \A q \in Requests : request[q] = "CANCELLED" => job.status = "CANCELLED"
    /\ (run \notin Live /\ version \in {"INCOMPLETE", "GENERATING"}) => job.status = "CANCELLED"

IInv == TypeOK /\ SeenIsWritten /\ Finishing /\ Delivered /\ StoppedTogether

\* A step that delivers nothing and undoes no delivery.
Settled ==
    /\ run \in Complete => run' = run /\ version' = version
    /\ run' \in Complete => run \in Complete
    /\ version' \in Complete => version \in Complete /\ version' = version
    /\ pages \subseteq pages' /\ pages' \subseteq Pages
    /\ job'.status = "COMPLETED" => job.status = "COMPLETED" \/ run \in Complete
    /\ workspace' = "READY" => workspace = "READY" \/ run = "READY_FOR_REVIEW"

LEMMA SettledKeepsDelivered == Delivered /\ Settled => Delivered'
  BY DEF Delivered, Settled, LifecyclesAgree, Complete, RunStatus

LEMMA InitHolds == Init => IInv
  BY GenerationAssumption
  DEF Init, IInv, TypeOK, SeenIsWritten, Finishing, Delivered, StoppedTogether,
      LifecyclesAgree, Complete, Live, RunStatus, JobRow, Exec, Steps, Outcomes,
      Attempts, Pages

-----------------------------------------------------------------------------
(* Types, action by action.                                                *)

LEMMA ReconcileTypes ==
  ASSUME TypeOK, Reconcile
  PROVE  /\ run' \in RunStatus
         /\ version' \in {"INCOMPLETE", "GENERATING", "FAILED", "CANCELLED"} \cup Complete
         /\ workspace' \in {"GENERATING_SITE", "PARTIALLY_FAILED", "READY"}
  BY DEF TypeOK, Reconcile, RunStatus

LEMMA EndAsTypes ==
  ASSUME TypeOK, NEW a \in Attempts, NEW s \in Steps, NEW o \in Outcomes, EndAs(a, s, o)
  PROVE  exec' \in [Attempts -> Exec]
  BY DEF TypeOK, EndAs, Exec

LEMMA GotoTypes ==
  ASSUME TypeOK, NEW a \in Attempts, NEW s \in Steps, Goto(a, s)
  PROVE  exec' \in [Attempts -> Exec]
  BY DEF TypeOK, Goto, Exec

LEMMA OneMoreAttempt ==
  ASSUME TypeOK, job.used < AttemptLimit
  PROVE  job.used + 1 \in Attempts /\ job.used + 1 \in 0..AttemptLimit
  BY GenerationAssumption DEF TypeOK, JobRow, Attempts

LEMMA AllowedTypes ==
  ASSUME TypeOK, job.used < AttemptLimit,
         job' = [job EXCEPT !.status = "PENDING",
                   !.allowed = IF job.used + 1 > @ THEN job.used + 1 ELSE @]
  PROVE  job' \in JobRow
<1> DEFINE allowed == IF job.used + 1 > job.allowed THEN job.used + 1 ELSE job.allowed
<1>1. job \in JobRow /\ allowed \in Attempts
  BY OneMoreAttempt DEF TypeOK, JobRow
<1>2. job' = [job EXCEPT !.status = "PENDING", !.allowed = allowed]
  OBVIOUS
<1> HIDE DEF allowed
<1> QED
  BY <1>1, <1>2 DEF JobRow

LEMMA QueueTypes == ASSUME TypeOK, Queue PROVE TypeOK'
<1>1. CASE Claim
  <2>0. job.used < AttemptLimit
    BY <1>1, GenerationAssumption DEF TypeOK, Claim, JobRow, Attempts
  <2>1. job.used + 1 \in Attempts /\ job.used + 1 \in 0..AttemptLimit
    BY <2>0, OneMoreAttempt
  <2>2. job' \in JobRow
    BY <1>1, <2>1 DEF TypeOK, Claim, JobRow
  <2>3. exec' \in [Attempts -> Exec]
    BY <1>1, <2>1 DEF TypeOK, Claim, Exec, Steps
  <2> QED
    BY <1>1, <2>2, <2>3 DEF TypeOK, Claim
<1>2. CASE DeadLetter
  BY <1>2, ReconcileTypes DEF TypeOK, DeadLetter, JobRow
<1>3. CASE CancelExpired
  BY <1>3 DEF TypeOK, CancelExpired, JobRow
<1> QED
  BY <1>1, <1>2, <1>3 DEF Queue

LEMMA ApiTypes ==
  ASSUME TypeOK, RetryJob \/ Look
                 \/ \E q \in Requests : CancelJob(q) \/ RetryRead(q) \/ Serve(q)
  PROVE  TypeOK'
<1>1. ASSUME NEW q \in Requests, CancelJob(q) PROVE TypeOK'
  BY <1>1 DEF TypeOK, CancelJob, JobRow
<1>2. ASSUME NEW q \in Requests, RetryRead(q) PROVE TypeOK'
  BY <1>2, ReconcileTypes DEF TypeOK, RetryRead
<1>3. ASSUME NEW q \in Requests, CancelRun(q) PROVE TypeOK'
  BY <1>3 DEF TypeOK, CancelRun, RunStatus
<1>4. ASSUME NEW q \in Requests, RetryWrite(q) PROVE TypeOK'
  <2>1. job' \in JobRow
    BY <1>4, AllowedTypes DEF TypeOK, RetryWrite
  <2> QED
    BY <1>4, <2>1 DEF TypeOK, RetryWrite, RunStatus
<1>5. ASSUME NEW q \in Requests, DropRequest(q) PROVE TypeOK'
  BY <1>5 DEF TypeOK, DropRequest
<1>6. CASE RetryJob
  <2>1. job' \in JobRow
    BY <1>6, AllowedTypes DEF RetryJob
  <2> QED
    BY <1>6, <2>1 DEF TypeOK, RetryJob
<1>7. CASE Look
  BY <1>7, ReconcileTypes DEF TypeOK, Look
<1> QED
  BY <1>1, <1>2, <1>3, <1>4, <1>5, <1>6, <1>7 DEF Serve

LEMMA ExecuteTypes ==
  ASSUME TypeOK, NEW a \in Attempts, Execute(a) \/ Crash(a)
  PROVE  TypeOK'
<1> USE DEF Steps, Outcomes
<1>1. CASE BeginRun(a)
  BY <1>1 DEF TypeOK, BeginRun, RunStatus, Exec
<1>2. CASE BeginCancelled(a) \/ BeginCompleted(a) \/ NotStarted(a) \/ PrepareFails(a)
  BY <1>2, EndAsTypes DEF TypeOK, BeginCancelled, BeginCompleted, NotStarted,
                          PrepareFails, RunStatus
<1>3. CASE Progress(a)
  BY <1>3, EndAsTypes, GotoTypes DEF TypeOK, Progress
<1>4. CASE PersistPage(a)
  BY <1>4 DEF TypeOK, PersistPage, Exec
<1>5. CASE CompleteRun(a)
  BY <1>5, EndAsTypes, GotoTypes, GenerationAssumption
  DEF TypeOK, CompleteRun, RunStatus
<1>6. CASE Finalize(a) \/ FinalizeFails(a) \/ Stop(a)
  BY <1>6, EndAsTypes DEF TypeOK, Finalize, FinalizeFails, Stop
<1>7. CASE FailRun(a) \/ FailWorkspace(a)
  BY <1>7, GotoTypes DEF TypeOK, FailRun, FailWorkspace, RunStatus
<1>8. CASE ReportDone(a) \/ ReportCancelled(a) \/ ReportLost(a) \/ Crash(a)
  BY <1>8, EndAsTypes DEF TypeOK, ReportDone, ReportCancelled, ReportLost, Crash,
                          Over, JobRow
<1>9. CASE ReportFailed(a)
  BY <1>9, EndAsTypes, ReconcileTypes DEF TypeOK, ReportFailed, Over, JobRow
<1> QED
  BY <1>1, <1>2, <1>3, <1>4, <1>5, <1>6, <1>7, <1>8, <1>9 DEF Execute

LEMMA TypesKept == TypeOK /\ [Next]_vars => TypeOK'
<1> SUFFICES ASSUME TypeOK, [Next]_vars PROVE TypeOK'
  OBVIOUS
<1>1. CASE UNCHANGED vars
  BY <1>1 DEF TypeOK, vars
<1> QED
  BY <1>1, QueueTypes, ApiTypes, ExecuteTypes DEF Next

-----------------------------------------------------------------------------
(* What no step but CompleteRun may disturb.                               *)

Kept == Settled /\ SeenIsWritten' /\ Finishing' /\ StoppedTogether'

LEMMA QueueKeeps ==
  ASSUME IInv, Queue
  PROVE  Kept
<1> USE DEF IInv, TypeOK, Kept, Settled, SeenIsWritten, Finishing, StoppedTogether
<1>1. CASE Claim
  BY <1>1 DEF Claim, Exec
<1>2. CASE DeadLetter
  BY <1>2 DEF DeadLetter, Reconcile, Live, Complete, JobRow
<1>3. CASE CancelExpired
  BY <1>3 DEF CancelExpired, JobRow
<1> QED
  BY <1>1, <1>2, <1>3 DEF Queue

LEMMA ApiKeeps ==
  ASSUME IInv,
         RetryJob \/ Look \/ \E q \in Requests : CancelJob(q) \/ RetryRead(q) \/ Serve(q)
  PROVE  Kept
<1> USE DEF IInv, TypeOK, Kept, Settled, SeenIsWritten, Finishing, StoppedTogether
<1>1. ASSUME NEW q \in Requests, CancelJob(q) PROVE Kept
  BY <1>1 DEF CancelJob, JobRow
<1>2. ASSUME NEW q \in Requests, RetryRead(q) PROVE Kept
  BY <1>2 DEF RetryRead, Reconcile, Live, Complete, RunStatus
<1>3. ASSUME NEW q \in Requests, CancelRun(q) PROVE Kept
  BY <1>3 DEF CancelRun, MayBecome, Live, Complete, RunStatus
<1>4. ASSUME NEW q \in Requests, RetryWrite(q) PROVE Kept
  BY <1>4 DEF RetryWrite, MayBecome, Live, Complete, RunStatus, JobRow
<1>5. ASSUME NEW q \in Requests, DropRequest(q) PROVE Kept
  BY <1>5 DEF DropRequest
<1>6. CASE RetryJob
  BY <1>6 DEF RetryJob, JobRow
<1>7. CASE Look
  BY <1>7 DEF Look, Reconcile, Live, Complete, RunStatus
<1> QED
  BY <1>1, <1>2, <1>3, <1>4, <1>5, <1>6, <1>7 DEF Serve

LEMMA ExecuteKeeps ==
  ASSUME IInv, NEW a \in Attempts, Execute(a) \/ Crash(a), ~CompleteRun(a)
  PROVE  Kept
<1> USE DEF IInv, TypeOK, Kept, Settled, SeenIsWritten, Finishing, StoppedTogether, Exec
<1>1. CASE BeginRun(a)
  BY <1>1 DEF BeginRun, Live, Complete, RunStatus
<1>2. CASE BeginCancelled(a)
  BY <1>2 DEF BeginCancelled, EndAs, Live, Complete, RunStatus
<1>3. CASE BeginCompleted(a) \/ NotStarted(a) \/ PrepareFails(a) \/ Stop(a) \/ FinalizeFails(a)
  BY <1>3 DEF BeginCompleted, NotStarted, PrepareFails, Stop, FinalizeFails, EndAs
<1>4. CASE Progress(a)
  BY <1>4 DEF Progress, EndAs, Goto
<1>5. CASE PersistPage(a)
  <2>1. PICK p \in Pages \ exec[a].seen :
           /\ pages' = pages \cup {p}
           /\ exec' = [exec EXCEPT ![a].step = "pages", ![a].seen = @ \cup {p}]
    BY <1>5 DEF PersistPage
  <2>2. UNCHANGED <<job, run, version, workspace, request>>
    BY <1>5 DEF PersistPage
  <2> QED
    BY <2>1, <2>2
<1>6. CASE Finalize(a)
  BY <1>6 DEF Finalize, EndAs
<1>7. CASE FailRun(a)
  BY <1>7 DEF FailRun, Goto, Live, Complete, RunStatus
<1>8. CASE FailWorkspace(a)
  BY <1>8 DEF FailWorkspace, Goto
<1>9. CASE ReportDone(a) \/ ReportCancelled(a) \/ ReportLost(a) \/ Crash(a)
  BY <1>9 DEF ReportDone, ReportCancelled, ReportLost, Crash, Over, EndAs, JobRow, Holds
<1>10. CASE ReportFailed(a)
  BY <1>10 DEF ReportFailed, Over, EndAs, Reconcile, JobRow, Holds, Live, Complete
<1> QED
  BY <1>1, <1>2, <1>3, <1>4, <1>5, <1>6, <1>7, <1>8, <1>9, <1>10 DEF Execute

\* completeRun finds every page, in a run that nothing has stopped.
LEMMA CompleteRunDelivers ==
  ASSUME IInv, NEW a \in Attempts, CompleteRun(a)
  PROVE  \/ Kept
         \/ /\ run \in {"GENERATING", "VALIDATING", "REPAIRING"}
            /\ run' = Readiness /\ version' = Readiness
            /\ pages = Pages
            /\ exec' = [exec EXCEPT ![a].step = "finalize"]
            /\ UNCHANGED <<job, pages, workspace, request>>
<1>1. pages = Pages
  BY DEF IInv, TypeOK, SeenIsWritten, CompleteRun
<1>2. CASE MayBecome(run, "VALIDATING")
  BY <1>1, <1>2 DEF CompleteRun, MayBecome, Goto, Complete
<1>3. CASE ~MayBecome(run, "VALIDATING")
  BY <1>3 DEF CompleteRun, EndAs, IInv, TypeOK, Kept, Settled, SeenIsWritten, Finishing,
              StoppedTogether, Exec
<1> QED
  BY <1>2, <1>3

LEMMA DeliveryKeeps ==
  ASSUME IInv, NEW a \in Attempts,
         run \in {"GENERATING", "VALIDATING", "REPAIRING"},
         run' = Readiness, version' = Readiness, pages = Pages,
         exec' = [exec EXCEPT ![a].step = "finalize"],
         UNCHANGED <<job, pages, workspace, request>>
  PROVE  SeenIsWritten' /\ Finishing' /\ Delivered' /\ StoppedTogether'
<1> USE GenerationAssumption DEF IInv, TypeOK, Exec
<1>1. SeenIsWritten' /\ Finishing'
  BY DEF SeenIsWritten, Finishing
<1>2. Delivered'
  BY DEF Delivered, LifecyclesAgree, Complete
<1>3. StoppedTogether'
  BY DEF StoppedTogether, Complete
<1> QED
  BY <1>1, <1>2, <1>3

LEMMA InvariantKept == IInv /\ [Next]_vars => IInv'
<1> SUFFICES ASSUME IInv, [Next]_vars PROVE IInv'
  OBVIOUS
<1>1. TypeOK'
  BY TypesKept DEF IInv
<1>2. CASE Kept
  BY <1>1, <1>2, SettledKeepsDelivered DEF IInv, Kept
<1>3. ASSUME NEW a \in Attempts, CompleteRun(a) PROVE IInv'
  BY <1>1, <1>2, <1>3, CompleteRunDelivers, DeliveryKeeps DEF IInv
<1>4. CASE UNCHANGED vars
  BY <1>4 DEF vars, IInv, TypeOK, SeenIsWritten, Finishing, Delivered, LifecyclesAgree,
              StoppedTogether
<1> QED
  BY <1>2, <1>3, <1>4, QueueKeeps, ApiKeeps, ExecuteKeeps DEF Next

-----------------------------------------------------------------------------
(* The theorems.                                                           *)

LEMMA InvariantHolds == Spec => []IInv
  BY InitHolds, InvariantKept, PTL DEF Spec

\* Every reachable state is well typed.
THEOREM WellTyped == Spec => []TypeOK
  BY InvariantHolds, PTL DEF IInv

\* A completed job leaves a whole draft, whatever attempts outlived their
\* leases.
THEOREM CompletedJobsHaveSites == Spec => []CompletedJobHasSite
<1>1. IInv => CompletedJobHasSite
  BY DEF IInv, Delivered, LifecyclesAgree, CompletedJobHasSite
<1> QED
  BY <1>1, InvariantHolds, PTL

\* The run and its version are never complete in different ways.
THEOREM LifecyclesAlwaysAgree == Spec => []LifecyclesAgree
<1>1. IInv => LifecyclesAgree
  BY DEF IInv, Delivered
<1> QED
  BY <1>1, InvariantHolds, PTL

\* A ready workspace has a whole draft that can be reviewed.
THEOREM ReadyIsAlwaysReviewable == Spec => []ReadyIsReviewable
<1>1. IInv => ReadyIsReviewable
  BY DEF IInv, Delivered, LifecyclesAgree, ReadyIsReviewable, Complete
<1> QED
  BY <1>1, InvariantHolds, PTL

\* In the step in which the job fails, its run and draft stop working.
THEOREM FailureIsAlwaysCarried == Spec => FailureIsCarried
<1> DEFINE Carried == (job.status # "FAILED" /\ job'.status = "FAILED") =>
                        (run' \notin Live /\ version' \notin {"INCOMPLETE", "GENERATING"})
<1>1. ASSUME IInv, Reconcile, job.status # "CANCELLED"
      PROVE  run' \notin Live /\ version' \notin {"INCOMPLETE", "GENERATING"}
  BY <1>1 DEF IInv, StoppedTogether, Reconcile, Live, Complete
<1>2. IInv /\ [Next]_vars => Carried
  <2> SUFFICES ASSUME IInv, [Next]_vars, job.status # "FAILED", job'.status = "FAILED"
               PROVE  run' \notin Live /\ version' \notin {"INCOMPLETE", "GENERATING"}
    OBVIOUS
  <2>1. CASE DeadLetter
    BY <2>1, <1>1 DEF DeadLetter
  <2>2. ASSUME NEW a \in Attempts, ReportFailed(a)
        PROVE  run' \notin Live /\ version' \notin {"INCOMPLETE", "GENERATING"}
    BY <2>2, <1>1 DEF ReportFailed, IInv, TypeOK, JobRow
  <2>3. ~Claim /\ ~CancelExpired /\ ~RetryJob /\ ~Look /\ ~UNCHANGED vars
    BY DEF Claim, CancelExpired, RetryJob, Look, vars, IInv, TypeOK, JobRow
  <2>4. \A q \in Requests : ~CancelJob(q) /\ ~RetryRead(q) /\ ~Serve(q)
    BY DEF CancelJob, RetryRead, Serve, CancelRun, RetryWrite, DropRequest, IInv, TypeOK,
           JobRow
  <2>5. \A a \in Attempts : Execute(a) \/ Crash(a) => ReportFailed(a)
    BY DEF Execute, Crash, BeginRun, BeginCancelled, BeginCompleted, Progress, PersistPage,
           CompleteRun, Finalize, FinalizeFails, NotStarted, PrepareFails, Stop, FailRun,
           FailWorkspace, ReportDone, ReportCancelled, ReportLost, IInv, TypeOK, JobRow
  <2> QED
    BY <2>1, <2>2, <2>3, <2>4, <2>5 DEF Next, Queue
<1> QED
  BY <1>2, InvariantHolds, PTL DEF Spec, FailureIsCarried

-----------------------------------------------------------------------------
(* The refinement: every step delivers, stops, resumes, writes pages or is *)
(* one that the request does not see.                                      *)

Promised == [Promise!RequestNext]_(Promise!request)

\* A step of the request that writes nothing.
LEMMA PhaseSteps ==
  ASSUME IInv, pages' = pages,
         \/ run \in Complete /\ run' = run
         \/ run \notin Complete /\ run' \notin Complete
  PROVE  Promised
<1>1. CASE Phase' = Phase
  BY <1>1 DEF Promised, Promise!request
<1>2. CASE Phase = "working" /\ Phase' = "stopped"
  BY <1>2 DEF Promised, Promise!RequestNext, Promise!StopWork
<1>3. CASE Phase = "stopped" /\ Phase' = "working"
  BY <1>3 DEF Promised, Promise!RequestNext, Promise!Resume
<1> QED
  BY <1>1, <1>2, <1>3 DEF Phase, Live, Complete

LEMMA PageSteps ==
  ASSUME IInv, NEW a \in Attempts, PersistPage(a)
  PROVE  Promised
<1>1. PICK p \in Pages : pages' = pages \cup {p}
  BY DEF PersistPage
<1>2. Phase' = Phase
  BY DEF PersistPage, Phase
<1> QED
  BY <1>1, <1>2 DEF Promised, Promise!RequestNext, Promise!WriteSome

LEMMA StepsArePromised == IInv /\ [Next]_vars => Promised
<1> SUFFICES ASSUME IInv, [Next]_vars PROVE Promised
  OBVIOUS
<1>1. ASSUME Settled, pages' = pages PROVE Promised
  BY <1>1, PhaseSteps DEF Settled
<1>2. ASSUME NEW a \in Attempts, CompleteRun(a) PROVE Promised
  <2>1. CASE Kept
    BY <1>1, <1>2, <2>1 DEF Kept, CompleteRun
  <2>2. CASE ~Kept
    <3>1. /\ run \in {"GENERATING", "VALIDATING", "REPAIRING"}
          /\ run' = Readiness /\ pages = Pages /\ pages' = pages
      BY <1>2, <2>2, CompleteRunDelivers
    <3>2. Phase = "working" /\ Phase' = "delivered"
      BY <3>1, GenerationAssumption DEF Phase, Live, Complete, RunStatus
    <3> QED
      BY <3>1, <3>2 DEF Promised, Promise!RequestNext, Promise!Deliver
  <2> QED
    BY <2>1, <2>2
<1>3. ASSUME NEW a \in Attempts, Execute(a) \/ Crash(a),
             ~CompleteRun(a), ~PersistPage(a)
      PROVE  Promised
  <2>1. pages' = pages
    BY <1>3 DEF Execute, Crash, BeginRun, BeginCancelled, BeginCompleted, Progress,
                Finalize, FinalizeFails, NotStarted, PrepareFails, Stop, FailRun,
                FailWorkspace, ReportDone, ReportCancelled, ReportFailed, ReportLost
  <2> QED
    BY <1>1, <1>3, <2>1, ExecuteKeeps DEF Kept
<1>4. CASE \/ RetryJob \/ Look
           \/ \E q \in Requests : CancelJob(q) \/ RetryRead(q) \/ Serve(q)
  <2>1. pages' = pages
    BY <1>4 DEF RetryJob, Look, CancelJob, RetryRead, Serve, CancelRun, RetryWrite, DropRequest
  <2> QED
    BY <1>1, <1>4, <2>1, ApiKeeps DEF Kept
<1>5. CASE Queue
  <2>1. pages' = pages
    BY <1>5 DEF Queue, Claim, DeadLetter, CancelExpired
  <2> QED
    BY <1>1, <1>5, <2>1, QueueKeeps DEF Kept
<1>6. CASE UNCHANGED vars
  BY <1>6 DEF vars, Promised, Promise!request, Phase
<1> QED
  BY <1>2, <1>3, <1>4, <1>5, <1>6, PageSteps DEF Next

\* The run keeps what a request for a site promises: nothing undoes a delivery,
\* and no page is lost.
THEOREM RunImplementsRequest == Spec => ImplementsRequest
<1>1. Init => Promise!RequestInit
  BY DEF Init, Promise!RequestInit, Phase, Live, Complete, RunStatus
<1>2. IInv /\ [Next]_vars => [Promise!RequestNext]_(Promise!request)
  BY StepsArePromised DEF Promised
<1> QED
  BY <1>1, <1>2, InvariantHolds, PTL DEF Spec, ImplementsRequest, Promise!RequestSpec

=============================================================================
