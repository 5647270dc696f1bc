---------------------------- MODULE JobContract ----------------------------
(***************************************************************************)
(* What the site-job queue promises of one job, whatever workers, leases   *)
(* and crashes do: the life cycle of packages/site-jobs/src/lifecycle.ts   *)
(* with the attempts each of its steps may use.  There are no workers and  *)
(* no clock here.  SiteJobs implements it.                                 *)
(***************************************************************************)
EXTENDS Integers

CONSTANTS
    Jobs,           \* the jobs that may be enqueued
    MaxAttempts,    \* attempts a job is enqueued with
    AttemptLimit    \* attempts a job may ever be allowed

VARIABLE contract   \* [Jobs -> [phase, used, allowed]]

Phase == {"absent", "queued", "held", "stopping", "completed", "cancelled",
          "failed"}

ContractRow == [phase: Phase, used: 0..AttemptLimit, allowed: 1..AttemptLimit]

ContractInit ==
    contract = [j \in Jobs |-> [phase |-> "absent", used |-> 0,
                                allowed |-> MaxAttempts]]

\* r becomes s by moving from one phase to another and nothing else.
Move(r, s, from, to) == r.phase \in from /\ s = [r EXCEPT !.phase = to]

Submit(r, s)   == Move(r, s, {"absent"}, "queued")

\* Every attempt handed out counts, also the one that replaces a worker that
\* disappeared; none is handed out beyond the allowance.
HandOut(r, s) ==
    /\ r.phase \in {"queued", "held"}
    /\ r.used < r.allowed
    /\ s = [phase |-> "held", used |-> r.used + 1, allowed |-> r.allowed]

Succeed(r, s)  == Move(r, s, {"held"}, "completed")
GiveUp(r, s)   == Move(r, s, {"held"}, "failed")

\* Only a job with an attempt left goes back to the queue.
TryAgain(r, s) == r.used < r.allowed /\ Move(r, s, {"held"}, "queued")

\* A queued job is cancelled at once; a held one is asked to stop, and once
\* asked it can only be cancelled.
Withdraw(r, s) == Move(r, s, {"queued"}, "cancelled")
AskToStop(r, s) == Move(r, s, {"held"}, "stopping")
Stopped(r, s)  == Move(r, s, {"held", "stopping"}, "cancelled")

\* An agency user's retry allows at least one more attempt.
Revive(r, s) ==
    /\ r.phase = "failed"
    /\ s = [phase |-> "queued", used |-> r.used,
             allowed |-> IF r.used + 1 > r.allowed THEN r.used + 1 ELSE r.allowed]

Step(r, s) ==
    \/ Submit(r, s)
    \/ HandOut(r, s)
    \/ Succeed(r, s)
    \/ GiveUp(r, s)
    \/ TryAgain(r, s)
    \/ Withdraw(r, s)
    \/ AskToStop(r, s)
    \/ Stopped(r, s)
    \/ Revive(r, s)

\* One transaction may move several jobs: recovery works in batches.
ContractNext ==
    /\ contract' \in [Jobs -> ContractRow]
    /\ \A j \in Jobs : \/ contract'[j] = contract[j]
                       \/ Step(contract[j], contract'[j])

ContractSpec == ContractInit /\ [][ContractNext]_contract
=============================================================================
