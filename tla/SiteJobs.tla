------------------------------ MODULE SiteJobs ------------------------------
(***************************************************************************)
(* The durable site-job queue: the site_jobs and site_job_attempts tables, *)
(* the worker processes that lease jobs from them (SiteWorker over         *)
(* PostgresSiteJobRepository) and the agency operations that enqueue,      *)
(* cancel and retry jobs (SiteJobEnqueueService, SiteJobService).          *)
(*                                                                         *)
(* Each action is one database transaction or one step of a worker's       *)
(* event loop between two awaits.  Only the claim is split: its statement  *)
(* picks and locks a row from a READ COMMITTED snapshot (ClaimSelect) and  *)
(* other transactions see its writes when it commits (ClaimCommit).        *)
(***************************************************************************)
EXTENDS Integers, FiniteSets

CONSTANTS
    Jobs,           \* the jobs that may be enqueued (by public reference)
    Workers,        \* the worker processes
    Unreliable,     \* the workers that may crash, drain or lose the database
    NoWorker,       \* lease_owner = null
    NoJob,          \* no claim transaction in flight
    TenantOf,       \* tenant_id of each job
    Priority,       \* priority of each job
    Concurrency,    \* SITE_WORKER_CONCURRENCY
    MaxAttempts,    \* max_attempts given at enqueue time
    PolicyAttempts, \* defaultRetryPolicy.maxAttempts of the handlers
    AttemptLimit,   \* upper bound of the CHECK on max_attempts (25)
    LeaseTicks,     \* SITE_WORKER_LEASE_SECONDS, in clock ticks
    ProgressTotal,  \* progress_total the handlers report
    RecoveryBatch   \* LIMIT of the two recovery statements (25)

ASSUME ConstantsAssumption ==
    /\ Unreliable \subseteq Workers
    /\ NoWorker \notin Workers
    /\ NoJob \notin Jobs
    /\ Priority \in [Jobs -> 0..1000]
    /\ Concurrency \in Nat \ {0}
    /\ AttemptLimit \in Nat \ {0}
    /\ MaxAttempts \in 1..AttemptLimit
    /\ PolicyAttempts \in Nat \ {0}
    /\ LeaseTicks \in Nat \ {0}
    /\ ProgressTotal \in Nat \ {0}
    /\ RecoveryBatch \in Nat \ {0}

VARIABLES
    job,        \* [Jobs -> JobRow]: the site_jobs table, committed state
    attempt,    \* [Jobs -> [AttemptNo -> Outcome]]: site_job_attempts
    exec,       \* [Jobs -> [AttemptNo -> Exec]]: processJob calls in progress
    active,     \* [Workers -> [Jobs -> 0..AttemptLimit]]: activeJobs maps
    mode,       \* [Workers -> {"up", "draining"}]
    poll,       \* [Workers -> PollStep]: where each poll loop stands
    claimTx     \* [Workers -> Jobs \cup {NoJob}]: row locked by a claim

vars == <<job, attempt, exec, active, mode, poll, claimTx>>

-----------------------------------------------------------------------------
(* Statuses, rows and the lease clock.                                     *)

Queued     == {"PENDING", "SCHEDULED", "RETRY_DELAY"}
Held       == {"LEASED", "PROCESSING"}
Leased     == Held \cup {"CANCEL_REQUESTED"}
Failures   == {"FAILED", "DEAD_LETTER"}
Terminal   == Failures \cup {"COMPLETED", "CANCELLED"}
Status     == {"ABSENT"} \cup Queued \cup Leased \cup Terminal

AttemptNo  == 1..AttemptLimit
Outcome    == {"ABSENT", "PROCESSING", "COMPLETED", "RETRY_SCHEDULED",
               "FAILED", "CANCELLED", "LEASE_EXPIRED"}

\* lease_expires_at - now(), in ticks: positive while the lease is live, 0 at
\* the instant it ends, Lapsed after it, NoLease when the column is null.
Lapsed     == -1
NoLease    == -2
LeaseTime  == NoLease..LeaseTicks

\* token is the lease_token_digest: every claim draws a fresh one, named here
\* by the attempt it was drawn for; 0 is null.  ready is available_at <= now().
JobRow == [status: Status, token: 0..AttemptLimit, owner: Workers \cup {NoWorker},
           lease: LeaseTime, ready: BOOLEAN, attempts: 0..AttemptLimit,
           maxAttempts: 1..AttemptLimit, progress: 0..ProgressTotal]

\* A call of processJob: the step it is at, and why its signal was aborted.
AbortReason == {"none", "CANCELLED_BY_USER", "LEASE_LOST", "WORKER_SHUTDOWN",
                "retryable"}
Failure     == {"retryable", "terminal", "CANCELLED_BY_USER", "LEASE_LOST",
                "WORKER_SHUTDOWN"}
ExecStep    == {"idle", "start", "precheck", "execute", "recheck", "complete",
                "cancel", "fail"}
Exec == [step: ExecStep, worker: Workers \cup {NoWorker}, abort: AbortReason,
         failure: Failure \cup {"none"}]

NoExec == [step |-> "idle", worker |-> NoWorker, abort |-> "none",
           failure |-> "none"]

PollStep == {"idle", "recoverCancelled", "recoverTerminal", "claim", "stopped"}

TypeOK ==
    /\ job \in [Jobs -> JobRow]
    /\ attempt \in [Jobs -> [AttemptNo -> Outcome]]
    /\ exec \in [Jobs -> [AttemptNo -> Exec]]
    /\ active \in [Workers -> [Jobs -> 0..AttemptLimit]]
    /\ mode \in [Workers -> {"up", "draining"}]
    /\ poll \in [Workers -> PollStep]
    /\ claimTx \in [Workers -> Jobs \cup {NoJob}]

Init ==
    /\ job = [j \in Jobs |->
                [status |-> "ABSENT", token |-> 0, owner |-> NoWorker,
                 lease |-> NoLease, ready |-> FALSE, attempts |-> 0,
                 maxAttempts |-> MaxAttempts, progress |-> 0]]
    /\ attempt = [j \in Jobs |-> [n \in AttemptNo |-> "ABSENT"]]
    /\ exec = [j \in Jobs |-> [n \in AttemptNo |-> NoExec]]
    /\ active = [w \in Workers |-> [j \in Jobs |-> 0]]
    /\ mode = [w \in Workers |-> "up"]
    /\ poll = [w \in Workers |-> "idle"]
    /\ claimTx = [w \in Workers |-> NoJob]

\* lease_expires_at > now(), < now() and >= now()
Live(j)       == job[j].lease > 0
Expired(j)    == job[j].lease = Lapsed
NotExpired(j) == job[j].lease >= 0

\* A row locked by a claim in flight: another statement on it waits (or, with
\* SKIP LOCKED, passes over it) until the claim commits or rolls back.
Locked(j) == \E w \in Workers : claimTx[w] = j

\* The lease guard of every worker statement: id, lease_owner, token digest.
Holds(j, n) == /\ job[j].token = n
               /\ job[j].owner = exec[j][n].worker

\* finishAttempt: closes an attempt that is still open, and only that one.
FinishAttempt(ledger, n, outcome) ==
    [ledger EXCEPT ![n] = IF @ = "PROCESSING" THEN outcome ELSE @]

\* Mutant: a release that leaves the token digest in place.
Released_KeepsToken(row, status) ==
    [row EXCEPT !.status = status, !.owner = NoWorker, !.lease = NoLease]

\* The columns every release of a lease writes.
Released(row, status) ==
    [row EXCEPT !.status = status, !.token = 0, !.owner = NoWorker,
                !.lease = NoLease]

-----------------------------------------------------------------------------
(* Agency operations and the clock.                                        *)

\* enqueue inserts the row; a call with the same idempotency key finds it,
\* under the advisory lock, and changes nothing.
Enqueue(j) ==
    /\ job[j].status = "ABSENT"
    /\ \E scheduled \in BOOLEAN :
         job' = [job EXCEPT ![j].status = IF scheduled THEN "SCHEDULED"
                                                       ELSE "PENDING",
                            ![j].ready = ~scheduled]
    /\ UNCHANGED <<attempt, exec, active, mode, poll, claimTx>>

\* Mutant: cancel without SELECT ... FOR UPDATE.
CancelJob_WithoutRowLock(j) ==
    /\ job[j].status \in Queued \cup Leased
    /\ job' = [job EXCEPT ![j].status = IF job[j].status \in Queued
                                          THEN "CANCELLED"
                                          ELSE "CANCEL_REQUESTED"]
    /\ UNCHANGED <<attempt, exec, active, mode, poll, claimTx>>

CancelJob(j) ==
    /\ ~Locked(j)
    /\ job[j].status \in Queued \cup Leased
    /\ job' = [job EXCEPT ![j].status = IF job[j].status \in Queued
                                          THEN "CANCELLED"
                                          ELSE "CANCEL_REQUESTED"]
    /\ UNCHANGED <<attempt, exec, active, mode, poll, claimTx>>

\* The update fails on the table's CHECK beyond AttemptLimit attempts.
RetryJob(j) ==
    LET raised == IF job[j].attempts + 1 > job[j].maxAttempts
                    THEN job[j].attempts + 1 ELSE job[j].maxAttempts
    IN  /\ job[j].status \in Failures
        /\ raised <= AttemptLimit
        /\ job' = [job EXCEPT ![j].status = "PENDING", ![j].ready = TRUE,
                              ![j].maxAttempts = raised, ![j].progress = 0]
        /\ UNCHANGED <<attempt, exec, active, mode, poll, claimTx>>

\* Time passes for the lease of j.
LeaseAges(j) ==
    /\ job[j].lease \in 0..LeaseTicks
    /\ job' = [job EXCEPT ![j].lease = @ - 1]
    /\ UNCHANGED <<attempt, exec, active, mode, poll, claimTx>>

\* now() reaches available_at.
BecomesDue(j) ==
    /\ job[j].status \in {"SCHEDULED", "RETRY_DELAY"}
    /\ ~job[j].ready
    /\ job' = [job EXCEPT ![j].ready = TRUE]
    /\ UNCHANGED <<attempt, exec, active, mode, poll, claimTx>>

-----------------------------------------------------------------------------
(* The poll loop of worker w.  Between polls it is idle, waiting for its    *)
(* timer or a shutdown; runOnce returns at once on a draining worker.      *)

\* FOR UPDATE SKIP LOCKED LIMIT batch: that many of the unlocked candidates.
Batch(candidates) ==
    LET free == {j \in candidates : ~Locked(j)}
    IN  {S \in SUBSET free :
           Cardinality(S) = IF Cardinality(free) < RecoveryBatch
                              THEN Cardinality(free) ELSE RecoveryBatch}

BeginPoll(w) ==
    /\ poll[w] = "idle"
    /\ mode[w] = "up"
    /\ poll' = [poll EXCEPT ![w] = "recoverCancelled"]
    /\ UNCHANGED <<job, attempt, exec, active, mode, claimTx>>

RecoverExpiredCancellationRequests(w) ==
    /\ poll[w] = "recoverCancelled"
    /\ \E S \in Batch({j \in Jobs : /\ job[j].status = "CANCEL_REQUESTED"
                                    /\ Expired(j)}) :
         /\ job' = [j \in Jobs |-> IF j \in S
                                     THEN Released(job[j], "CANCELLED")
                                     ELSE job[j]]
         /\ attempt' = [j \in Jobs |->
                IF j \in S
                  THEN FinishAttempt(attempt[j], job[j].attempts, "CANCELLED")
                  ELSE attempt[j]]
    /\ poll' = [poll EXCEPT ![w] = "recoverTerminal"]
    /\ UNCHANGED <<exec, active, mode, claimTx>>

\* Mutant: > for >= in the recovery of exhausted jobs.
TerminallyExpired_OffByOne(j) ==
    /\ job[j].status \in Held
    /\ Expired(j)
    /\ job[j].attempts > job[j].maxAttempts

\* The worker of the last permitted attempt is gone.
TerminallyExpired(j) ==
    /\ job[j].status \in Held
    /\ Expired(j)
    /\ job[j].attempts >= job[j].maxAttempts

RecoverExpiredTerminalLeases(w) ==
    /\ poll[w] = "recoverTerminal"
    /\ \E S \in Batch({j \in Jobs : TerminallyExpired(j)}) :
         /\ job' = [j \in Jobs |-> IF j \in S
                                     THEN Released(job[j], "DEAD_LETTER")
                                     ELSE job[j]]
         /\ attempt' = [j \in Jobs |->
                IF j \in S
                  THEN FinishAttempt(attempt[j], job[j].attempts, "LEASE_EXPIRED")
                  ELSE attempt[j]]
    /\ poll' = [poll EXCEPT ![w] = "claim"]
    /\ UNCHANGED <<exec, active, mode, claimTx>>

\* Another job of the tenant holds a lease that has not expired.
TenantBusy(j) ==
    \E k \in Jobs \ {j} : /\ TenantOf[k] = TenantOf[j]
                          /\ job[k].status \in Leased
                          /\ NotExpired(k)

\* Mutant: the claim without attempt_count < max_attempts.
Claimable_IgnoresBudget(j) ==
    /\ \/ job[j].status \in Queued /\ job[j].ready
       \/ job[j].status \in Held /\ Expired(j)
    /\ ~TenantBusy(j)

Claimable(j) ==
    /\ \/ job[j].status \in Queued /\ job[j].ready
       \/ job[j].status \in Held /\ Expired(j)
    /\ job[j].attempts < job[j].maxAttempts
    /\ ~TenantBusy(j)

\* Mutant: the claim without FOR UPDATE SKIP LOCKED.
Candidates_NotSkippingLocked == {j \in Jobs : Claimable(j)}

Candidates == {j \in Jobs : Claimable(j) /\ ~Locked(j)}

ActiveCount(w) == Cardinality({j \in Jobs : active[w][j] # 0})

\* The claim's statement reads its snapshot and locks the row it will take.
\* The loop asks for capacity, not for draining.
ClaimSelect(w) ==
    /\ poll[w] = "claim"
    /\ claimTx[w] = NoJob
    /\ ActiveCount(w) < Concurrency
    /\ \E j \in Candidates :
         /\ \A k \in Candidates : Priority[k] <= Priority[j]
         /\ claimTx' = [claimTx EXCEPT ![w] = j]
    /\ UNCHANGED <<job, attempt, exec, active, mode, poll>>

\* The row a claim by w writes over row.
ClaimedRow(row, w) ==
    [row EXCEPT !.status = "LEASED", !.token = row.attempts + 1, !.owner = w,
                !.lease = LeaseTicks, !.attempts = @ + 1,
                !.progress = IF row.status \in Held THEN 0 ELSE @]

\* Mutant: the claim leaves the expired attempt open.
ClaimedLedger_LeavesExpiredOpen(ledger, row) ==
    [ledger EXCEPT ![row.attempts + 1] = "PROCESSING"]

\* The attempts it leaves: the expired one closed, the new one open.
ClaimedLedger(ledger, row) ==
    [(IF row.status \in Held
        THEN FinishAttempt(ledger, row.attempts, "LEASE_EXPIRED")
        ELSE ledger) EXCEPT ![row.attempts + 1] = "PROCESSING"]

\* The claim commits and startActiveJob registers the call of processJob.
ClaimCommit(w) ==
    LET j == claimTx[w]
        n == job[j].attempts + 1
    IN  /\ claimTx[w] \in Jobs
        /\ job' = [job EXCEPT ![j] = ClaimedRow(@, w)]
        /\ attempt' = [attempt EXCEPT ![j] = ClaimedLedger(@, job[j])]
        /\ exec' = [exec EXCEPT ![j][n] = [step |-> "start", worker |-> w,
                                           abort |-> "none", failure |-> "none"]]
        /\ active' = [active EXCEPT ![w][j] = n]
        /\ claimTx' = [claimTx EXCEPT ![w] = NoJob]
        /\ UNCHANGED <<mode, poll>>

\* Nothing to claim or no capacity left: runOnce returns, and the loop waits
\* for its next poll, or ends when the worker is draining.
EndPoll(w) ==
    /\ poll[w] = "claim"
    /\ claimTx[w] = NoJob
    /\ ActiveCount(w) >= Concurrency \/ Candidates = {}
    /\ poll' = [poll EXCEPT ![w] = IF mode[w] = "up" THEN "idle" ELSE "stopped"]
    /\ UNCHANGED <<job, attempt, exec, active, mode, claimTx>>

\* A statement of the poll fails: its transaction rolls back, the error is
\* logged, and the loop waits for its next poll.
PollFails(w) ==
    /\ w \in Unreliable
    /\ poll[w] \notin {"idle", "stopped"}
    /\ claimTx' = [claimTx EXCEPT ![w] = NoJob]
    /\ poll' = [poll EXCEPT ![w] = IF mode[w] = "up" THEN "idle" ELSE "stopped"]
    /\ UNCHANGED <<job, attempt, exec, active, mode>>

-----------------------------------------------------------------------------
(* One call of processJob, for attempt n of job j.                         *)

\* The call settles: its entry leaves the activeJobs map of its worker, which
\* is keyed by job, whichever attempt registered it.
Settle(j, n) ==
    /\ exec' = [exec EXCEPT ![j][n] = NoExec]
    /\ active' = [active EXCEPT ![exec[j][n].worker][j] = 0]

Goto(j, n, step) ==
    /\ exec' = [exec EXCEPT ![j][n].step = step]
    /\ UNCHANGED active

\* handleFailure up to its first await: the abort reason wins over the error;
\* a shutdown or a lost lease leaves the row alone.
HandleFailure(j, n, error) ==
    LET call   == exec[j][n]
        reason == IF call.abort # "none" THEN call.abort ELSE error
    IN  IF \/ mode[call.worker] = "draining" /\ reason = "WORKER_SHUTDOWN"
           \/ "LEASE_LOST" \in {reason, error}
          THEN Settle(j, n)
          ELSE /\ exec' = [exec EXCEPT
                     ![j][n].step = IF reason = "CANCELLED_BY_USER"
                                      THEN "cancel" ELSE "fail",
                     ![j][n].failure = reason]
               /\ UNCHANGED active

Start(j, n) ==
    /\ exec[j][n].step = "start"
    /\ ~Locked(j)
    /\ IF Holds(j, n) /\ job[j].status = "LEASED" /\ Live(j)
         THEN /\ job' = [job EXCEPT ![j].status = "PROCESSING"]
              /\ Goto(j, n, "precheck")
         ELSE /\ HandleFailure(j, n, "LEASE_LOST")
              /\ UNCHANGED job
    /\ UNCHANGED <<attempt, mode, poll, claimTx>>

\* Unknown type, no handler, incompatible schema version or invalid payload.
RejectJob(j, n) ==
    /\ exec[j][n].step = "precheck"
    /\ HandleFailure(j, n, "terminal")
    /\ UNCHANGED <<job, attempt, mode, poll, claimTx>>

\* isCancellationRequested reads the committed row.
CanRead(j, n) == Holds(j, n) /\ Live(j)

\* The check before the handler runs: it runs either way, with its signal
\* aborted if cancellation was requested.
CheckBeforeExecute(j, n) ==
    /\ exec[j][n].step = "precheck"
    /\ IF CanRead(j, n)
         THEN /\ exec' = [exec EXCEPT
                    ![j][n].step = "execute",
                    ![j][n].abort = IF @ = "none" /\ job[j].status = "CANCEL_REQUESTED"
                                      THEN "CANCELLED_BY_USER" ELSE @]
              /\ UNCHANGED active
         ELSE HandleFailure(j, n, "LEASE_LOST")
    /\ UNCHANGED <<job, attempt, mode, poll, claimTx>>

\* The handler reports progress; a report the row refuses is a lost lease.
UpdateProgress(j, n) ==
    /\ exec[j][n].step = "execute"
    /\ ~Locked(j)
    /\ \E current \in 1..ProgressTotal :
         IF /\ CanRead(j, n)
            /\ job[j].status \in {"PROCESSING", "CANCEL_REQUESTED"}
            /\ job[j].progress <= current
           THEN /\ job' = [job EXCEPT ![j].progress = current]
                /\ UNCHANGED <<exec, active>>
           ELSE /\ HandleFailure(j, n, "LEASE_LOST")
                /\ UNCHANGED job
    /\ UNCHANGED <<attempt, mode, poll, claimTx>>

\* handler.execute resolves with a valid result, whether or not it was aborted.
HandlerReturns(j, n) ==
    /\ exec[j][n].step = "execute"
    /\ Goto(j, n, "recheck")
    /\ UNCHANGED <<job, attempt, mode, poll, claimTx>>

\* handler.execute rejects, or its result does not validate ("terminal").
HandlerThrows(j, n) ==
    /\ exec[j][n].step = "execute"
    /\ \E error \in {"retryable", "terminal", "CANCELLED_BY_USER"} :
         HandleFailure(j, n, error)
    /\ UNCHANGED <<job, attempt, mode, poll, claimTx>>

\* The check after the handler returned.
CheckAfterExecute(j, n) ==
    /\ exec[j][n].step = "recheck"
    /\ IF CanRead(j, n)
         THEN Goto(j, n, IF job[j].status = "CANCEL_REQUESTED"
                           THEN "cancel" ELSE "complete")
         ELSE HandleFailure(j, n, "LEASE_LOST")
    /\ UNCHANGED <<job, attempt, mode, poll, claimTx>>

CompletedRow(row) ==
    [Released(row, "COMPLETED") EXCEPT
        !.progress = IF @ = 0 THEN 0 ELSE ProgressTotal]

\* complete: COMPLETED under a live lease, else CANCELLED if a cancellation
\* came in between, else a lost lease.
Complete(j, n) ==
    /\ exec[j][n].step = "complete"
    /\ ~Locked(j)
    /\ \/ /\ Holds(j, n) /\ job[j].status = "PROCESSING" /\ Live(j)
          /\ job' = [job EXCEPT ![j] = CompletedRow(@)]
          /\ attempt' = [attempt EXCEPT ![j] = FinishAttempt(@, n, "COMPLETED")]
          /\ Settle(j, n)
       \/ /\ Holds(j, n) /\ job[j].status = "CANCEL_REQUESTED"
          /\ job' = [job EXCEPT ![j] = Released(@, "CANCELLED")]
          /\ attempt' = [attempt EXCEPT ![j] = FinishAttempt(@, n, "CANCELLED")]
          /\ Settle(j, n)
       \/ /\ ~(Holds(j, n) /\ job[j].status = "PROCESSING" /\ Live(j))
          /\ ~(Holds(j, n) /\ job[j].status = "CANCEL_REQUESTED")
          /\ HandleFailure(j, n, "LEASE_LOST")
          /\ UNCHANGED <<job, attempt>>
    /\ UNCHANGED <<mode, poll, claimTx>>

\* cancelLeased; a lost lease is swallowed by both of its callers.
CancelLeased(j, n) ==
    /\ exec[j][n].step = "cancel"
    /\ ~Locked(j)
    /\ IF Holds(j, n) /\ job[j].status \in Leased
         THEN /\ job' = [job EXCEPT ![j] = Released(@, "CANCELLED")]
              /\ attempt' = [attempt EXCEPT ![j] = FinishAttempt(@, n, "CANCELLED")]
         ELSE UNCHANGED <<job, attempt>>
    /\ Settle(j, n)
    /\ UNCHANGED <<mode, poll, claimTx>>

\* Mutant: > for >= against the job's own limit.
RetryTarget_OffByOne(failure, n, maxAttempts) ==
    CASE failure # "retryable" -> "FAILED"
      [] failure = "retryable" /\ (n > maxAttempts \/ n >= PolicyAttempts)
           -> "DEAD_LETTER"
      [] OTHER -> "RETRY_DELAY"

\* decideSiteJobRetry under min(job.maxAttempts, policy.maxAttempts).
RetryTarget(failure, n, maxAttempts) ==
    CASE failure # "retryable" -> "FAILED"
      [] failure = "retryable" /\ (n >= maxAttempts \/ n >= PolicyAttempts)
           -> "DEAD_LETTER"
      [] OTHER -> "RETRY_DELAY"

\* Mutant: the outcome follows the failure's retryable flag.
FailedOutcome_ByRetryable(target) ==
    IF target # "FAILED" THEN "RETRY_SCHEDULED" ELSE "FAILED"

FailedOutcome(target) ==
    IF target = "RETRY_DELAY" THEN "RETRY_SCHEDULED" ELSE "FAILED"

\* Mutant: a delayed retry keeps the progress of the failed attempt.
FailedRow_KeepsProgress(row, target) ==
    [Released(row, target) EXCEPT !.ready = (target # "RETRY_DELAY")]

FailedRow(row, target) ==
    [Released(row, target) EXCEPT
        !.ready = (target # "RETRY_DELAY"),
        !.progress = IF target = "RETRY_DELAY" THEN 0 ELSE @]

\* Mutant: fails the job whoever holds it.
FailGuard_Unfenced(j, n) == job[j].status \in Held

FailGuard(j, n) == Holds(j, n) /\ job[j].status \in Held

Fail(j, n) ==
    LET target == RetryTarget(exec[j][n].failure, n, job[j].maxAttempts)
    IN  /\ exec[j][n].step = "fail"
        /\ ~Locked(j)
        /\ FailGuard(j, n)
        /\ job' = [job EXCEPT ![j] = FailedRow(@, target)]
        /\ attempt' = [attempt EXCEPT ![j] =
              FinishAttempt(@, n, FailedOutcome(target))]
        /\ Settle(j, n)
        /\ UNCHANGED <<mode, poll, claimTx>>

\* Everything the process of w held in memory is gone, its open transaction
\* rolls back, and its supervisor starts it again.
ProcessDies(w) ==
    /\ exec' = [j \in Jobs |-> [n \in AttemptNo |->
                  IF exec[j][n].worker = w THEN NoExec ELSE exec[j][n]]]
    /\ active' = [active EXCEPT ![w] = [j \in Jobs |-> 0]]
    /\ mode' = [mode EXCEPT ![w] = "up"]
    /\ poll' = [poll EXCEPT ![w] = "idle"]
    /\ claimTx' = [claimTx EXCEPT ![w] = NoJob]
    /\ UNCHANGED <<job, attempt>>

\* fail throws a lost lease.  Nothing in processJob or startActiveJob catches
\* it: while the worker is up the unhandled rejection ends the process; during
\* a shutdown Promise.allSettled observes it.
FailLosesLease(j, n) ==
    /\ exec[j][n].step = "fail"
    /\ ~Locked(j)
    /\ ~FailGuard(j, n)
    /\ IF mode[exec[j][n].worker] = "up"
         THEN ProcessDies(exec[j][n].worker)
         ELSE /\ Settle(j, n)
              /\ UNCHANGED <<job, attempt, mode, poll, claimTx>>

\* A statement before handleFailure fails for want of the database.
DatabaseError(j, n) ==
    /\ exec[j][n].step \in {"start", "precheck", "recheck", "complete"}
    /\ exec[j][n].worker \in Unreliable
    /\ HandleFailure(j, n, "retryable")
    /\ UNCHANGED <<job, attempt, mode, poll, claimTx>>

\* Mutant: the interval keeps beating after the signal aborted.
Beating_WhenAborted(j, n) ==
    /\ exec[j][n].step \in {"precheck", "execute", "recheck", "complete"}
    /\ mode[exec[j][n].worker] = "up"

\* sendHeartbeat, while the interval runs: not once aborted or draining.  (A
\* beat while handleFailure is awaiting can no longer change its course.)
Beating(j, n) ==
    /\ exec[j][n].step \in {"precheck", "execute", "recheck", "complete"}
    /\ exec[j][n].abort = "none"
    /\ mode[exec[j][n].worker] = "up"

Heartbeat(j, n) ==
    /\ Beating(j, n)
    /\ ~Locked(j)
    /\ IF CanRead(j, n) /\ job[j].status \in {"PROCESSING", "CANCEL_REQUESTED"}
         THEN /\ job' = [job EXCEPT ![j].lease = LeaseTicks]
              /\ exec' = [exec EXCEPT ![j][n].abort =
                            IF job[j].status = "CANCEL_REQUESTED"
                              THEN "CANCELLED_BY_USER" ELSE @]
         ELSE /\ exec' = [exec EXCEPT ![j][n].abort = "LEASE_LOST"]
              /\ UNCHANGED job
    /\ UNCHANGED <<attempt, active, mode, poll, claimTx>>

\* The heartbeat's statement fails: the signal aborts with that error.
HeartbeatFails(j, n) ==
    /\ Beating(j, n)
    /\ exec[j][n].worker \in Unreliable
    /\ exec' = [exec EXCEPT ![j][n].abort = "retryable"]
    /\ UNCHANGED <<job, attempt, active, mode, poll, claimTx>>

-----------------------------------------------------------------------------
(* Shutdown and crash of a worker process.                                 *)

\* shutdown: marks the worker draining and aborts the signals the activeJobs
\* map still knows.
Shutdown(w) ==
    /\ w \in Unreliable
    /\ mode[w] = "up"
    /\ mode' = [mode EXCEPT ![w] = "draining"]
    /\ exec' = [j \in Jobs |-> [n \in AttemptNo |->
                  IF n = active[w][j] /\ exec[j][n].abort = "none"
                    THEN [exec[j][n] EXCEPT !.abort = "WORKER_SHUTDOWN"]
                    ELSE exec[j][n]]]
    /\ UNCHANGED <<job, attempt, active, poll, claimTx>>

\* The process crashes, or exits at the end of its shutdown.
Stop(w) ==
    /\ w \in Unreliable
    /\ ProcessDies(w)

-----------------------------------------------------------------------------
AgencyStep == \E j \in Jobs : Enqueue(j) \/ CancelJob(j) \/ RetryJob(j)

ClockStep == \E j \in Jobs : LeaseAges(j) \/ BecomesDue(j)

PollLoop(w) ==
    \/ BeginPoll(w)
    \/ RecoverExpiredCancellationRequests(w)
    \/ RecoverExpiredTerminalLeases(w)
    \/ ClaimSelect(w)
    \/ ClaimCommit(w)
    \/ EndPoll(w)

\* The worker's own steps for a call, and what the handler does.
ProcessJob(j, n) ==
    \/ Start(j, n)
    \/ CheckBeforeExecute(j, n)
    \/ CheckAfterExecute(j, n)
    \/ Complete(j, n)
    \/ CancelLeased(j, n)
    \/ Fail(j, n)
    \/ FailLosesLease(j, n)

HandlerEnds(j, n) == HandlerReturns(j, n) \/ HandlerThrows(j, n)

CallStep ==
    \E j \in Jobs : \E n \in AttemptNo :
        \/ ProcessJob(j, n)
        \/ HandlerEnds(j, n)
        \/ RejectJob(j, n)
        \/ UpdateProgress(j, n)
        \/ Heartbeat(j, n)
        \/ HeartbeatFails(j, n)
        \/ DatabaseError(j, n)

WorkerStep == \E w \in Workers : PollLoop(w) \/ PollFails(w) \/ Shutdown(w) \/ Stop(w)

Next == AgencyStep \/ ClockStep \/ CallStep \/ WorkerStep

Spec == Init /\ [][Next]_vars

-----------------------------------------------------------------------------
(* Fairness.  Time passes; the poll loop of a worker that does not crash   *)
(* goes on; and no claim transaction is rolled back for ever.              *)

Fairness ==
    /\ \A j \in Jobs : WF_vars(LeaseAges(j)) /\ WF_vars(BecomesDue(j))
    /\ \A w \in Workers \ Unreliable : WF_vars(PollLoop(w))
    /\ \A w \in Workers : SF_vars(ClaimCommit(w))

FairSpec == Spec /\ Fairness

-----------------------------------------------------------------------------
(* Safety.                                                                 *)

\* The lease columns are set exactly while the status says the job is leased,
\* and the token is the one drawn for the latest attempt.  Five statements of
\* two processes write these columns; a half-cleared row is never claimed again.
LeaseMatchesStatus ==
    \A j \in Jobs :
        IF job[j].status \in Leased
          THEN /\ job[j].attempts # 0
               /\ job[j].token = job[j].attempts
               /\ job[j].owner # NoWorker
               /\ job[j].lease # NoLease
          ELSE /\ job[j].token = 0
               /\ job[j].owner = NoWorker
               /\ job[j].lease = NoLease

\* site_job_attempts has one row for each attempt counted on the job, and the
\* only open one is the attempt that holds the lease now: whoever ends or takes
\* over a lease closes the attempt of it, in the same transaction.
AttemptLedger ==
    \A j \in Jobs : \A n \in AttemptNo :
        /\ attempt[j][n] = "ABSENT" <=> n > job[j].attempts
        /\ attempt[j][n] = "PROCESSING" <=>
              job[j].status \in Leased /\ n = job[j].attempts

LastOutcome(j) ==
    IF job[j].attempts = 0 THEN "ABSENT" ELSE attempt[j][job[j].attempts]

\* The history tells the story the status tells: the last attempt ended the way
\* the job did, and no earlier attempt of a job that went on had completed it
\* or been cancelled.
HistoryAgrees ==
    \A j \in Jobs :
        /\ job[j].status = "COMPLETED" => LastOutcome(j) = "COMPLETED"
        /\ job[j].status = "RETRY_DELAY" => LastOutcome(j) = "RETRY_SCHEDULED"
        /\ job[j].status = "FAILED" => LastOutcome(j) = "FAILED"
        /\ job[j].status = "DEAD_LETTER" =>
              LastOutcome(j) \in {"FAILED", "LEASE_EXPIRED"}
        /\ \A n \in AttemptNo :
              /\ attempt[j][n] = "COMPLETED" => job[j].status = "COMPLETED"
              /\ attempt[j][n] = "CANCELLED" => job[j].status = "CANCELLED"

\* The row, its lease and its ledger are of one attempt, or of none, and tell one
\* story: no interleaving of claims, takeovers, cancellations, recovery and late
\* answers leaves a part of a transition in one table without the rest.
LeaseLedger == LeaseMatchesStatus /\ AttemptLedger /\ HistoryAgrees

\* A job never uses more attempts than it is allowed, and none is put back in
\* the queue without an attempt left, where no claim would ever look at it.
RetryBudget ==
    \A j \in Jobs :
        /\ job[j].attempts <= job[j].maxAttempts
        /\ job[j].status \in Queued => job[j].attempts < job[j].maxAttempts

\* An attempt starts from no progress, however the one before it ended.  Left
\* over progress would make updateProgress refuse the first report of the new
\* attempt and end it as a lost lease.
FreshProgress ==
    \A j \in Jobs : job[j].status \in Queued \cup {"LEASED"} => job[j].progress = 0

\* What is put back in the queue can be run again, from the start.
QueuedAfresh == RetryBudget /\ FreshProgress

\* Until a claim commits, the row it picked stays the row it saw, and no other
\* claim has picked it: the claim's write is never based on a stale read.
ClaimSeesCurrentRow ==
    \A w \in Workers : claimTx[w] \in Jobs =>
        LET row == job[claimTx[w]]
        IN  /\ \/ row.status \in Queued /\ row.ready
               \/ row.status \in Held /\ row.lease = Lapsed
            /\ row.attempts < row.maxAttempts
            /\ \A v \in Workers \ {w} : claimTx[v] # claimTx[w]

\* One active job per tenant (the NOT EXISTS of the claim).  It holds of the
\* claims of one worker, which run one after the other.
OneLiveJobPerTenant ==
    \A j, k \in Jobs :
        /\ j # k /\ TenantOf[j] = TenantOf[k]
        /\ job[j].status \in Leased /\ NotExpired(j)
        => ~(job[k].status \in Leased /\ NotExpired(k))

-----------------------------------------------------------------------------
(* What a step may never do.                                               *)

\* Fencing.  While a token is on the row, only the call that drew it renews the
\* lease or writes progress, and only while the lease is live; and the token
\* leaves the row only through that call's own last statement or after the
\* lease has lapsed.  A call whose lease was taken over can do none of this,
\* even when the same process took it over.
Fenced(j) ==
    LET n == job[j].token
        call == exec[j][n]
        running == /\ call.step \in {"precheck", "execute", "recheck", "complete"}
                   /\ call.worker = job[j].owner
                   /\ Live(j)
    IN  /\ job'[j].token = n /\ job'[j].lease > job[j].lease => running
        /\ job'[j].token = n /\ job'[j].progress # job[j].progress =>
              running /\ call.step = "execute"
        /\ job'[j].token # n =>
              \/ Expired(j)
              \/ /\ call.step \in {"complete", "cancel", "fail"}
                 /\ call.worker = job[j].owner

Fencing == [][\A j \in Jobs : job[j].token # 0 => Fenced(j)]_vars

\* The queue keeps its contract: every transaction of the workers and of the
\* agency moves each job as JobContract allows, or not at all.
PhaseOf(status) ==
    CASE status = "ABSENT"           -> "absent"
      [] status \in Queued           -> "queued"
      [] status \in Held             -> "held"
      [] status = "CANCEL_REQUESTED" -> "stopping"
      [] status = "COMPLETED"        -> "completed"
      [] status = "CANCELLED"        -> "cancelled"
      [] status \in Failures         -> "failed"

ContractOf(row) == [phase |-> PhaseOf(row.status), used |-> row.attempts,
                    allowed |-> row.maxAttempts]

Contract == INSTANCE JobContract
              WITH contract <- [j \in Jobs |-> ContractOf(job[j])]

ImplementsContract == Contract!ContractSpec

-----------------------------------------------------------------------------
(* Liveness.                                                               *)

\* A cancellation request is carried out, although the worker holding the job
\* may ignore it, be gone, or never look: its heartbeats stop, the lease
\* lapses and some worker's poll recovers the request.
CancellationResolves ==
    \A j \in Jobs :
        job[j].status = "CANCEL_REQUESTED" ~> job[j].status = "CANCELLED"

\* Every call of processJob goes on and every handler ends.
CallsGoOn ==
    /\ WF_vars(\E j \in Jobs, n \in AttemptNo : ProcessJob(j, n))
    /\ WF_vars(\E j \in Jobs, n \in AttemptNo : HandlerEnds(j, n))

\* While calls go on, every enqueued job comes to an end: crashes, lost leases
\* and failures use up attempts, and the last one is closed even if its worker
\* disappears.
JobsSettle ==
    CallsGoOn => \A j \in Jobs :
        job[j].status \in Queued \cup Leased ~> job[j].status \in Terminal
=============================================================================
