--------------------------- MODULE GenerationRuns ---------------------------
(***************************************************************************)
(* A site-generation run, the draft version it fills, the durable job that *)
(* executes it and the provisioning run that waits for it.  The job may be *)
(* attempted several times, and an attempt whose lease is lost goes on     *)
(* until it notices: its writes to the run carry no lease.  SiteJobs has   *)
(* the queue; here a job is only who holds it and how it ended.            *)
(***************************************************************************)
EXTENDS Integers

CONSTANTS
    PageCount,      \* pages of the pinned blueprint
    MaxAttempts,    \* attempts the job is created with
    AttemptLimit,   \* attempts it may ever be allowed (bounds manual retries)
    Requests,       \* calls of the agency API that may run at once
    Readiness       \* generationCompletionStatus of the run's pipeline

Complete == {"DESIGN_COMPLETE", "READY_FOR_REVIEW"}

ASSUME GenerationAssumption ==
    /\ PageCount \in Nat
    /\ MaxAttempts \in Nat \ {0}
    /\ AttemptLimit \in Nat
    /\ MaxAttempts <= AttemptLimit
    /\ Readiness \in Complete

VARIABLES
    job,         \* the site_jobs row of the run
    run,         \* status of the site_generation_runs row
    version,     \* generation status of the draft version
    pages,       \* the pages whose page run is COMPLETED
    workspace,   \* status of the provisioning run
    exec,        \* [Attempts -> Exec]: each attempt's execution in a worker
    request      \* [Requests -> step of the API call]

vars == <<job, run, version, pages, workspace, exec, request>>

Attempts == 1..AttemptLimit

\* In the order of the plan.
Pages == 1..PageCount

RunStatus == {"PENDING", "PREPARING_CONTEXT", "GENERATING", "VALIDATING", "REPAIRING",
              "FAILED", "CANCEL_REQUESTED", "CANCELLED"} \cup Complete

\* RECONCILABLE_GENERATION_STATUSES.
Live == RunStatus \ ({"FAILED", "CANCELLED"} \cup Complete)

\* PENDING is also scheduled and waiting to be retried; HELD leased or
\* processing; FAILED also dead-lettered.  used is attempt_count.
JobRow == [status: {"PENDING", "HELD", "CANCEL_REQUESTED", "COMPLETED", "CANCELLED",
                    "FAILED"},
           used: 0..AttemptLimit, allowed: Attempts]

\* Where an execution stands: what it will do next.
Steps == {"idle", "begin", "pages", "write", "validate", "finalize", "fail",
          "workspace", "report", "over"}

\* How it will tell the queue that it ended.
\* aborted: by a heartbeat that failed.
Outcomes == {"done", "error", "terminal", "aborted", "cancelled"}

Exec == [step: Steps, seen: SUBSET Pages, outcome: Outcomes]

\* The run, version, job, workspace and executions are well formed.
TypeOK ==
    /\ job \in JobRow
    /\ run \in RunStatus
    /\ version \in {"INCOMPLETE", "GENERATING", "FAILED", "CANCELLED"} \cup Complete
    /\ pages \in SUBSET Pages
    /\ workspace \in {"GENERATING_SITE", "PARTIALLY_FAILED", "READY"}
    /\ exec \in [Attempts -> Exec]
    /\ request \in [Requests -> {"none", "CANCELLED", "CANCEL_REQUESTED", "retry"}]

\* One transaction has created the version, the run and its job.
Init ==
    /\ job = [status |-> "PENDING", used |-> 0, allowed |-> MaxAttempts]
    /\ run = "PENDING"
    /\ version = "INCOMPLETE"
    /\ pages = {}
    /\ workspace = "GENERATING_SITE"
    /\ exec = [a \in Attempts |-> [step |-> "idle", seen |-> {}, outcome |-> "done"]]
    /\ request = [q \in Requests |-> "none"]

-----------------------------------------------------------------------------

\* The database trigger on the status of a run: the table of lifecycle.ts.
MayBecome(from, to) ==
    \/ to = from
    \/ /\ from = "PENDING"
       /\ to \in {"PREPARING_CONTEXT", "CANCEL_REQUESTED", "CANCELLED", "FAILED"}
    \/ from = "PREPARING_CONTEXT" /\ to \in {"GENERATING", "CANCEL_REQUESTED", "FAILED"}
    \/ from = "GENERATING" /\ to \in {"VALIDATING", "CANCEL_REQUESTED", "FAILED"}
    \/ /\ from = "VALIDATING"
       /\ to \in {"REPAIRING", "CANCEL_REQUESTED", "FAILED"} \cup Complete
    \/ /\ from = "REPAIRING"
       /\ to \in {"GENERATING", "VALIDATING", "CANCEL_REQUESTED", "FAILED"}
    \/ from \in Complete /\ to \in Complete
    \/ from = "CANCEL_REQUESTED" /\ to \in {"CANCELLED", "FAILED"}
    \/ from \in {"FAILED", "CANCELLED"} /\ to = "PENDING"

\* The lease token still matches.
Holds(a) == job.used = a /\ job.status \in {"HELD", "CANCEL_REQUESTED"}

\* terminalGenerationRunFailure, applied in the transaction at hand: an
\* unfinished run fails with its job.
Reconcile ==
    IF run \in Live
    THEN /\ run' = "FAILED"
         /\ version' = "FAILED"
         /\ workspace' = "PARTIALLY_FAILED"
    ELSE UNCHANGED <<run, version, workspace>>

-----------------------------------------------------------------------------
(* The queue.                                                              *)

\* Mutant: leases a job whose attempts are used up.
ClaimUnbounded ==
    /\ job.status \in {"PENDING", "HELD"}
    /\ job' = [job EXCEPT !.status = "HELD", !.used = @ + 1]
    /\ exec' = [exec EXCEPT ![job.used + 1].step = "begin"]
    /\ UNCHANGED <<run, version, pages, workspace, request>>

\* A queued job, or one whose lease has expired, is leased to a worker.
Claim ==
    /\ job.status \in {"PENDING", "HELD"}
    /\ job.used < job.allowed
    /\ job' = [job EXCEPT !.status = "HELD", !.used = @ + 1]
    /\ exec' = [exec EXCEPT ![job.used + 1].step = "begin"]
    /\ UNCHANGED <<run, version, pages, workspace, request>>

\* Mutant: the run is not told that its job is dead.
DeadLetterSilent ==
    /\ job.status = "HELD"
    /\ job.used = job.allowed
    /\ job' = [job EXCEPT !.status = "FAILED"]
    /\ UNCHANGED <<run, version, pages, workspace, exec, request>>

\* Mutant: waits for one attempt more than there is.
DeadLetterLate ==
    /\ job.status = "HELD"
    /\ job.used > job.allowed
    /\ job' = [job EXCEPT !.status = "FAILED"]
    /\ Reconcile
    /\ UNCHANGED <<pages, exec, request>>

\* recoverExpiredTerminalLeases: the last lease has expired.
DeadLetter ==
    /\ job.status = "HELD"
    /\ job.used = job.allowed
    /\ job' = [job EXCEPT !.status = "FAILED"]
    /\ Reconcile
    /\ UNCHANGED <<pages, exec, request>>

\* The lease of a job that was asked to stop has expired.  The run is left
\* as it stands.
CancelExpired ==
    /\ job.status = "CANCEL_REQUESTED"
    /\ job' = [job EXCEPT !.status = "CANCELLED"]
    /\ UNCHANGED <<run, version, pages, workspace, exec, request>>

-----------------------------------------------------------------------------
(* The execution of one attempt.                                           *)

Goto(a, s) == exec' = [exec EXCEPT ![a].step = s]
EndAs(a, s, o) == exec' = [exec EXCEPT ![a] = [step |-> s, seen |-> {}, outcome |-> o]]
Over(a) == EndAs(a, "over", "done")

\* Mutant: executes a completed run again.
BeginAgain(a) ==
    /\ exec[a].step = "begin"
    /\ run # "CANCEL_REQUESTED"
    /\ run' = "GENERATING"
    /\ version' = "GENERATING"
    /\ exec' = [exec EXCEPT ![a].step = "pages", ![a].seen = pages]
    /\ UNCHANGED <<job, pages, workspace, request>>

\* beginRun takes the run from wherever an earlier attempt left it, and learns
\* which pages are there.  A change of the run between its read and its writes
\* is refused by the trigger: that is PrepareFails.
BeginRun(a) ==
    /\ exec[a].step = "begin"
    /\ run \notin Complete \cup {"CANCEL_REQUESTED"}
    /\ run' = "GENERATING"
    /\ version' = "GENERATING"
    /\ exec' = [exec EXCEPT ![a].step = "pages", ![a].seen = pages]
    /\ UNCHANGED <<job, pages, workspace, request>>

BeginCancelled(a) ==
    /\ exec[a].step = "begin"
    /\ run = "CANCEL_REQUESTED"
    /\ run' = "CANCELLED"
    /\ version' = "CANCELLED"
    /\ EndAs(a, "report", "cancelled")
    /\ UNCHANGED <<job, pages, workspace, request>>

\* A completed run cannot be executed again; failRun then finds nothing to do.
BeginCompleted(a) ==
    /\ exec[a].step = "begin"
    /\ run \in Complete
    /\ EndAs(a, "report", "terminal")
    /\ UNCHANGED <<job, run, version, pages, workspace, request>>

\* Mutant: the first page counts as the whole plan.
ProgressShort(a) ==
    /\ exec[a].step = "pages"
    /\ IF ~Holds(a) THEN EndAs(a, "fail", "error")
       ELSE IF 1 \in exec[a].seen THEN Goto(a, "validate")
       ELSE Goto(a, "write")
    /\ UNCHANGED <<job, run, version, pages, workspace, request>>

\* updateProgress, before a page and before the validation, is the only step
\* that asks for the lease.
Progress(a) ==
    /\ exec[a].step = "pages"
    /\ IF ~Holds(a) THEN EndAs(a, "fail", "error")
       ELSE IF exec[a].seen = Pages THEN Goto(a, "validate")
       ELSE Goto(a, "write")
    /\ UNCHANGED <<job, run, version, pages, workspace, request>>

\* persistPage of the first page missing, once the provider has answered.
PersistPage(a) ==
    /\ exec[a].step = "write"
    /\ \E p \in Pages \ exec[a].seen :
         /\ \A o \in Pages \ exec[a].seen : p <= o
         /\ pages' = pages \cup {p}
         /\ exec' = [exec EXCEPT ![a].step = "pages", ![a].seen = @ \cup {p}]
    /\ UNCHANGED <<job, run, version, workspace, request>>

\* Mutant: goes on although the run was not completed.
CompleteRunUnchecked(a) ==
    /\ exec[a].step = "validate"
    /\ IF MayBecome(run, "VALIDATING")
       THEN run' = Readiness /\ version' = Readiness
       ELSE UNCHANGED <<run, version>>
    /\ Goto(a, "finalize")
    /\ UNCHANGED <<job, pages, workspace, request>>

\* completeRun.  The trigger refuses it when another attempt, or a user, has
\* stopped the run meanwhile.
CompleteRun(a) ==
    /\ exec[a].step = "validate"
    /\ IF MayBecome(run, "VALIDATING")
       THEN run' = Readiness /\ version' = Readiness /\ Goto(a, "finalize")
       ELSE UNCHANGED <<run, version>> /\ EndAs(a, "fail", "error")
    /\ UNCHANGED <<job, pages, workspace, request>>

\* finalizeProvisionedWorkspace; a draft that still needs its quality audit
\* leaves the workspace waiting.
Finalize(a) ==
    /\ exec[a].step = "finalize"
    /\ workspace' = IF run = "READY_FOR_REVIEW" THEN "READY" ELSE workspace
    /\ EndAs(a, "report", "done")
    /\ UNCHANGED <<job, run, version, pages, request>>

\* The native booking check in it fails, or the database does.
FinalizeFails(a) ==
    /\ exec[a].step = "finalize"
    /\ \E o \in {"error", "terminal"} : EndAs(a, "report", o)
    /\ UNCHANGED <<job, run, version, pages, workspace, request>>

\* The lease is lost before the handler starts.
NotStarted(a) ==
    /\ exec[a].step = "begin"
    /\ ~Holds(a)
    /\ EndAs(a, "report", "aborted")
    /\ UNCHANGED <<job, run, version, pages, workspace, request>>

\* prepareRuntime fails: only an error with a code is carried to the run.
PrepareFails(a) ==
    /\ exec[a].step = "begin"
    /\ \E s \in {"fail", "report"}, o \in {"error", "terminal"} : EndAs(a, s, o)
    /\ UNCHANGED <<job, run, version, pages, workspace, request>>

\* An error of the provider or the validation; or the abort of a heartbeat that
\* saw the cancellation, or failed: the lease is lost, or the database was out
\* of reach.
Stop(a) ==
    /\ exec[a].step \in {"pages", "write", "validate"}
    /\ \/ \E o \in {"error", "terminal", "aborted"} : EndAs(a, "fail", o)
       \/ /\ Holds(a)
          /\ job.status = "CANCEL_REQUESTED"
          /\ EndAs(a, "fail", "cancelled")
    /\ UNCHANGED <<job, run, version, pages, workspace, request>>

\* Mutant: fails the draft of a run that another attempt completed.
FailRunBlindly(a) ==
    /\ exec[a].step = "fail"
    /\ run' = IF run \in Live THEN "FAILED" ELSE run
    /\ version' = "FAILED"
    /\ Goto(a, "workspace")
    /\ UNCHANGED <<job, pages, workspace, request>>

\* failGenerationRun.  Whatever aborts the execution counts as a cancellation
\* by the user.
FailRun(a) ==
    /\ exec[a].step = "fail"
    /\ IF run \in Live
       THEN LET ending == IF \/ run = "CANCEL_REQUESTED"
                             \/ exec[a].outcome \in {"cancelled", "aborted"}
                          THEN "CANCELLED"
                          ELSE "FAILED"
            IN  run' = ending /\ version' = ending /\ Goto(a, "workspace")
       ELSE UNCHANGED <<run, version>> /\ Goto(a, "report")
    /\ UNCHANGED <<job, pages, workspace, request>>

\* failProvisionedWorkspace, in a transaction of its own.
FailWorkspace(a) ==
    /\ exec[a].step = "workspace"
    /\ workspace' = "PARTIALLY_FAILED"
    /\ Goto(a, "report")
    /\ UNCHANGED <<job, run, version, pages, request>>

\* The worker tells the queue how the attempt ended, if it still may.
ReportDone(a) ==
    /\ exec[a].step = "report"
    /\ exec[a].outcome = "done"
    /\ Holds(a)
    /\ job' = [job EXCEPT !.status =
                 IF @ = "CANCEL_REQUESTED" THEN "CANCELLED" ELSE "COMPLETED"]
    /\ Over(a)
    /\ UNCHANGED <<run, version, pages, workspace, request>>

ReportCancelled(a) ==
    /\ exec[a].step = "report"
    /\ exec[a].outcome = "cancelled"
    /\ Holds(a)
    /\ job' = [job EXCEPT !.status = "CANCELLED"]
    /\ Over(a)
    /\ UNCHANGED <<run, version, pages, workspace, request>>

\* An error is retried while attempts are left; a terminal one never.
ReportFailed(a) ==
    /\ exec[a].step = "report"
    /\ exec[a].outcome \in {"error", "terminal", "aborted"}
    /\ Holds(a)
    /\ job.status = "HELD"
    /\ IF exec[a].outcome # "terminal" /\ job.used < job.allowed
       THEN /\ job' = [job EXCEPT !.status = "PENDING"]
            /\ UNCHANGED <<run, version, workspace>>
       ELSE /\ job' = [job EXCEPT !.status = "FAILED"]
            /\ Reconcile
    /\ Over(a)
    /\ UNCHANGED <<pages, request>>

\* The lease is lost, or an error is reported of a job asked to stop.
ReportLost(a) ==
    /\ exec[a].step = "report"
    /\ \/ ~Holds(a)
       \/ exec[a].outcome \notin {"done", "cancelled"} /\ job.status # "HELD"
    /\ Over(a)
    /\ UNCHANGED <<job, run, version, pages, workspace, request>>

\* The worker's process dies, or gives its lease up to shut down.
Crash(a) ==
    /\ exec[a].step \notin {"idle", "over"}
    /\ Over(a)
    /\ UNCHANGED <<job, run, version, pages, workspace, request>>

-----------------------------------------------------------------------------
(* The agency API.                                                         *)

\* cancel, first transaction: the job.
CancelJob(q) ==
    /\ request[q] = "none"
    /\ job.status \in {"PENDING", "HELD", "CANCEL_REQUESTED"}
    /\ LET next == IF job.status = "PENDING" THEN "CANCELLED" ELSE "CANCEL_REQUESTED"
       IN  /\ job' = [job EXCEPT !.status = next]
           /\ request' = [request EXCEPT ![q] = next]
    /\ UNCHANGED <<run, version, pages, workspace, exec>>

\* cancel, then the run, if the trigger lets it; otherwise the call fails.
CancelRun(q) ==
    /\ request[q] \in {"CANCELLED", "CANCEL_REQUESTED"}
    /\ run' = IF MayBecome(run, request[q]) THEN request[q] ELSE run
    /\ request' = [request EXCEPT ![q] = "none"]
    /\ UNCHANGED <<job, version, pages, workspace, exec>>

\* retry reconciles first; what it then reads must be a failed run.
RetryRead(q) ==
    /\ request[q] = "none"
    /\ job.status = "FAILED"
    /\ Reconcile
    /\ run' = "FAILED"
    /\ request' = [request EXCEPT ![q] = "retry"]
    /\ UNCHANGED <<job, pages, exec>>

\* The retry's transaction; it fails if the job or the run has moved on.
RetryWrite(q) ==
    /\ request[q] = "retry"
    /\ IF job.status = "FAILED" /\ MayBecome(run, "PENDING")
       THEN /\ job.used < AttemptLimit
            /\ job' = [job EXCEPT !.status = "PENDING",
                         !.allowed = IF job.used + 1 > @ THEN job.used + 1 ELSE @]
            /\ run' = "PENDING"
            /\ version' = "INCOMPLETE"
       ELSE UNCHANGED <<job, run, version>>
    /\ request' = [request EXCEPT ![q] = "none"]
    /\ UNCHANGED <<pages, workspace, exec>>

\* The API dies between the two transactions of a call.
DropRequest(q) ==
    /\ request[q] # "none"
    /\ request' = [request EXCEPT ![q] = "none"]
    /\ UNCHANGED <<job, run, version, pages, workspace, exec>>

\* The retry route of the job alone leaves the run FAILED.
RetryJob ==
    /\ job.status = "FAILED"
    /\ job.used < AttemptLimit
    /\ job' = [job EXCEPT !.status = "PENDING",
                 !.allowed = IF job.used + 1 > @ THEN job.used + 1 ELSE @]
    /\ UNCHANGED <<run, version, pages, workspace, exec, request>>

\* reconcileTerminalGenerationRuns, whenever somebody looks at the runs.
Look ==
    /\ job.status = "FAILED"
    /\ run \in Live
    /\ Reconcile
    /\ UNCHANGED <<job, pages, exec, request>>

-----------------------------------------------------------------------------

Execute(a) ==
    \/ BeginRun(a)
    \/ BeginCancelled(a)
    \/ BeginCompleted(a)
    \/ Progress(a)
    \/ PersistPage(a)
    \/ CompleteRun(a)
    \/ Finalize(a)
    \/ FinalizeFails(a)
    \/ NotStarted(a)
    \/ PrepareFails(a)
    \/ Stop(a)
    \/ FailRun(a)
    \/ FailWorkspace(a)
    \/ ReportDone(a)
    \/ ReportCancelled(a)
    \/ ReportFailed(a)
    \/ ReportLost(a)

Queue == Claim \/ DeadLetter \/ CancelExpired

Serve(q) == CancelRun(q) \/ RetryWrite(q) \/ DropRequest(q)

Next ==
    \/ Queue
    \/ \E a \in Attempts : Execute(a) \/ Crash(a)
    \/ \E q \in Requests : CancelJob(q) \/ RetryRead(q) \/ Serve(q)
    \/ RetryJob
    \/ Look

Spec == Init /\ [][Next]_vars

-----------------------------------------------------------------------------
(* What the runs check.                                                    *)

\* A job that completed leaves a whole draft: the worker that could report
\* success had completed the run, and no attempt that outlived its lease has
\* undone it (site-generation.test.ts: partial output never reports ready).
CompletedJobHasSite ==
    job.status = "COMPLETED" => run \in Complete /\ version = run /\ pages = Pages

\* The run and its version are complete together: the quality promotion stops
\* with "lifecycle states diverged" when they are not.
LifecyclesAgree == run \in Complete \/ version \in Complete => version = run

\* A workspace is ready only for a draft that can be reviewed, with every page
\* (provisioning "never reports READY" after a failure).
ReadyIsReviewable ==
    workspace = "READY" => run = "READY_FOR_REVIEW" /\ version = run /\ pages = Pages

\* However the job fails, in that step the run and the draft stop with it:
\* "atomically carries the safe failure code to its active generation run".
FailureIsCarried ==
    [][(job.status # "FAILED" /\ job'.status = "FAILED") =>
          run' \notin Live /\ version' \notin {"INCOMPLETE", "GENERATING"}]_vars

\* The run implements what a request for a site promises, whichever attempts
\* write to it.
Phase == IF run \in Complete THEN "delivered"
         ELSE IF run \in Live THEN "working" ELSE "stopped"

Promise == INSTANCE GenerationRequest WITH phase <- Phase, written <- pages

ImplementsRequest == Promise!RequestSpec

-----------------------------------------------------------------------------
(* Liveness: a worker polls and executes, leases expire, a call that has   *)
(* begun ends.  No one need ever look, cancel or retry.                    *)

\* A lease expires only when its holder stops renewing it.
Poll ==
    /\ \/ job.status = "PENDING"
       \/ job.status \in {"HELD", "CANCEL_REQUESTED"} /\ exec[job.used].step = "over"
    /\ Queue

FairSpec ==
    /\ Spec
    /\ WF_vars(Poll)
    /\ \A a \in Attempts : WF_vars(Execute(a))
    /\ \A q \in Requests : WF_vars(Serve(q))

\* An unfinished run comes to rest, or its job does: no crash, lost lease or
\* second attempt leaves it working for ever with a job that says otherwise.
RunComesToRest ==
    run \in Live ~> (run \notin Live \/ job.status \in {"CANCELLED", "FAILED"})
=============================================================================
