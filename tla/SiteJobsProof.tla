--------------------------- MODULE SiteJobsProof ---------------------------
(***************************************************************************)
(* Theorems about SiteJobs for every set of jobs and workers and every     *)
(* value of the limits.                                                    *)
(*                                                                         *)
(* Many actions, few effects: whatever the workers do, one job's row and   *)
(* attempt ledger change in one of the thirteen ways of RowStep.  The      *)
(* proofs go through it: a step of the system is a RowStep of every job    *)
(* (NextIsRowStep); a RowStep keeps a consistent row consistent            *)
(* (RowStepKeepsRow); a RowStep of a consistent row is a step of its       *)
(* contract (RowStepKeepsContract).                                        *)
(***************************************************************************)
EXTENDS SiteJobs, TLAPS

Ledger == [AttemptNo -> Outcome]

-----------------------------------------------------------------------------
(* What is true of one row r and its ledger l.                             *)

RowLease(r) ==
    IF r.status \in Leased
      THEN /\ r.attempts # 0
           /\ r.token = r.attempts
           /\ r.owner # NoWorker
           /\ r.lease # NoLease
      ELSE /\ r.token = 0
           /\ r.owner = NoWorker
           /\ r.lease = NoLease

RowBudget(r) ==
    /\ r.attempts <= r.maxAttempts
    /\ r.status \in Queued => r.attempts < r.maxAttempts

\* Not among the checked properties, but what makes RowBudget and RowFresh
\* hold when the row is inserted.
RowNew(r) == r.status = "ABSENT" => r.attempts = 0 /\ r.progress = 0

RowFresh(r) == r.status \in Queued \cup {"LEASED"} => r.progress = 0

RowLedger(r, l) ==
    \A n \in AttemptNo :
        /\ l[n] = "ABSENT" <=> n > r.attempts
        /\ l[n] = "PROCESSING" <=> r.status \in Leased /\ n = r.attempts

RowHistory(r, l) ==
    LET last == IF r.attempts = 0 THEN "ABSENT" ELSE l[r.attempts]
    IN  /\ r.status = "COMPLETED" => last = "COMPLETED"
        /\ r.status = "RETRY_DELAY" => last = "RETRY_SCHEDULED"
        /\ r.status = "FAILED" => last = "FAILED"
        /\ r.status = "DEAD_LETTER" => last \in {"FAILED", "LEASE_EXPIRED"}
        /\ \A n \in AttemptNo :
              /\ l[n] = "COMPLETED" => r.status = "COMPLETED"
              /\ l[n] = "CANCELLED" => r.status = "CANCELLED"

RowOK(r, l) ==
    /\ r \in JobRow
    /\ l \in Ledger
    /\ RowLease(r)
    /\ RowBudget(r)
    /\ RowNew(r)
    /\ RowFresh(r)
    /\ RowLedger(r, l)
    /\ RowHistory(r, l)

-----------------------------------------------------------------------------
(* How a row and its ledger may change.                                    *)

Inserted(r, s) ==
    /\ r.status = "ABSENT"
    /\ \E status \in {"PENDING", "SCHEDULED"} : \E ready \in BOOLEAN :
          s = [r EXCEPT !.status = status, !.ready = ready]
Withdrawn(r, s) == r.status \in Queued /\ s = [r EXCEPT !.status = "CANCELLED"]
StopAsked(r, s) ==
    r.status \in Leased /\ s = [r EXCEPT !.status = "CANCEL_REQUESTED"]
Revived(r, s) ==
    /\ r.status \in Failures
    /\ \E raised \in 1..AttemptLimit :
          /\ raised = IF r.attempts + 1 > r.maxAttempts
                        THEN r.attempts + 1 ELSE r.maxAttempts
          /\ s = [r EXCEPT !.status = "PENDING", !.ready = TRUE,
                           !.maxAttempts = raised, !.progress = 0]
Aged(r, s)    == r.lease \in 0..LeaseTicks /\ s = [r EXCEPT !.lease = @ - 1]
MadeDue(r, s) == s = [r EXCEPT !.ready = TRUE]
Started(r, s) == r.status = "LEASED" /\ s = [r EXCEPT !.status = "PROCESSING"]
Progressed(r, s) ==
    /\ r.status \in {"PROCESSING", "CANCEL_REQUESTED"}
    /\ \E current \in 1..ProgressTotal : s = [r EXCEPT !.progress = current]
Renewed(r, s) == r.lease > 0 /\ s = [r EXCEPT !.lease = LeaseTicks]

Claimed(r, l, s, m) ==
    /\ r.status \in Queued \cup Held
    /\ r.attempts < r.maxAttempts
    /\ \E w \in Workers : s = ClaimedRow(r, w)
    /\ m = ClaimedLedger(l, r)

Ended(r, l, s, m, status, outcome) ==
    /\ s = Released(r, status)
    /\ m = FinishAttempt(l, r.attempts, outcome)

Completed(r, l, s, m) ==
    /\ r.status = "PROCESSING"
    /\ s = CompletedRow(r)
    /\ m = FinishAttempt(l, r.attempts, "COMPLETED")

FailedTo(r, l, s, m) ==
    /\ r.status \in Held
    /\ \E target \in Failures \cup {"RETRY_DELAY"} :
          /\ target = "RETRY_DELAY" => r.attempts < r.maxAttempts
          /\ s = FailedRow(r, target)
          /\ m = FinishAttempt(l, r.attempts, FailedOutcome(target))

QuietStep(r, s) ==
    \/ s = r
    \/ Inserted(r, s)
    \/ Withdrawn(r, s)
    \/ StopAsked(r, s)
    \/ Revived(r, s)
    \/ Aged(r, s)
    \/ MadeDue(r, s)
    \/ Started(r, s)
    \/ Progressed(r, s)
    \/ Renewed(r, s)

RowStep(r, l, s, m) ==
    \/ QuietStep(r, s) /\ m = l
    \/ Claimed(r, l, s, m)
    \/ r.status \in Leased /\ Ended(r, l, s, m, "CANCELLED", "CANCELLED")
    \/ r.status \in Held /\ Ended(r, l, s, m, "DEAD_LETTER", "LEASE_EXPIRED")
    \/ Completed(r, l, s, m)
    \/ FailedTo(r, l, s, m)

-----------------------------------------------------------------------------
(* A RowStep keeps a consistent row consistent.                            *)

LEMMA StatusNames ==
    /\ Queued \subseteq Status
    /\ Leased \subseteq Status
    /\ Terminal \subseteq Status
    /\ "PENDING" \in Queued /\ "SCHEDULED" \in Queued
BY DEF Queued, Held, Leased, Failures, Terminal, Status

LEMMA QuietStepKeepsRow ==
    ASSUME NEW r, NEW l, NEW s, RowOK(r, l), QuietStep(r, s)
    PROVE  RowOK(s, l)
<1>1. CASE s = r
  BY <1>1
<1>2. CASE Inserted(r, s)
  <2>1. PICK status \in {"PENDING", "SCHEDULED"}, ready \in BOOLEAN :
           s = [r EXCEPT !.status = status, !.ready = ready]
    BY <1>2 DEF Inserted
  <2>2. s \in JobRow
    BY <2>1, StatusNames DEF RowOK, JobRow
  <2>3. /\ s.status = status /\ s.token = r.token /\ s.owner = r.owner
        /\ s.lease = r.lease /\ s.attempts = r.attempts
        /\ s.maxAttempts = r.maxAttempts /\ s.progress = r.progress
    BY <2>1 DEF RowOK, JobRow
  <2>4. r.attempts = 0 /\ r.maxAttempts \in 1..AttemptLimit /\ r.progress = 0
    BY <1>2 DEF Inserted, RowOK, RowNew, JobRow
  <2> QED
    BY <1>2, <2>2, <2>3, <2>4, ConstantsAssumption
    DEF Inserted, RowOK, RowLease, RowBudget, RowNew, RowFresh, RowLedger,
        RowHistory, Queued, Held, Leased
<1>3. CASE Withdrawn(r, s)
  BY <1>3, ConstantsAssumption
  DEF RowOK, RowLease, RowBudget, RowNew, RowFresh, RowLedger, RowHistory,
      JobRow, Status, Queued, Held, Leased, Failures, Terminal, LeaseTime,
      Lapsed, NoLease, Withdrawn
<1>4. CASE StopAsked(r, s)
  BY <1>4, ConstantsAssumption
  DEF RowOK, RowLease, RowBudget, RowNew, RowFresh, RowLedger, RowHistory,
      JobRow, Status, Queued, Held, Leased, Failures, Terminal, LeaseTime,
      Lapsed, NoLease, StopAsked
<1>5. CASE Revived(r, s)
  <2>1. PICK raised \in 1..AttemptLimit :
           /\ raised = IF r.attempts + 1 > r.maxAttempts
                         THEN r.attempts + 1 ELSE r.maxAttempts
           /\ s = [r EXCEPT !.status = "PENDING", !.ready = TRUE,
                            !.maxAttempts = raised, !.progress = 0]
    BY <1>5 DEF Revived
  <2>2. 0 \in 0..ProgressTotal
    BY ConstantsAssumption
  <2>3. s \in JobRow
    BY <2>1, <2>2, StatusNames DEF RowOK, JobRow
  <2>4. /\ s.status = "PENDING" /\ s.token = r.token /\ s.owner = r.owner
        /\ s.lease = r.lease /\ s.attempts = r.attempts /\ s.progress = 0
        /\ s.maxAttempts = raised
    BY <2>1 DEF RowOK, JobRow
  <2>5. r.attempts < raised
    <3>1. /\ r.attempts \in 0..AttemptLimit
          /\ r.maxAttempts \in 1..AttemptLimit
          /\ AttemptLimit \in Nat
      BY ConstantsAssumption DEF RowOK, JobRow
    <3>2. r.attempts \in Int /\ r.maxAttempts \in Int
      BY <3>1
    <3>3. raised = IF r.attempts + 1 > r.maxAttempts
                     THEN r.attempts + 1 ELSE r.maxAttempts
      BY <2>1
    <3>4. CASE r.attempts + 1 > r.maxAttempts
      BY <3>2, <3>3, <3>4
    <3>5. CASE ~(r.attempts + 1 > r.maxAttempts)
      BY <3>2, <3>3, <3>5
    <3> QED
      BY <3>4, <3>5
  <2>6. r.status \in Failures
    BY <1>5 DEF Revived
  <2>7. r.attempts \in Int /\ raised \in Int
    BY ConstantsAssumption DEF RowOK, JobRow
  <2> QED
    BY <2>3, <2>4, <2>5, <2>6, <2>7
    DEF RowOK, RowLease, RowBudget, RowNew, RowFresh, RowLedger, RowHistory,
        Queued, Held, Leased, Failures
<1>6. CASE Aged(r, s)
  <2>1. r.lease \in 0..LeaseTicks /\ s = [r EXCEPT !.lease = r.lease - 1]
    BY <1>6 DEF Aged
  <2>4. /\ r.lease - 1 \in LeaseTime /\ r.lease # NoLease /\ r.lease - 1 # NoLease
    BY <2>1, ConstantsAssumption DEF LeaseTime, Lapsed, NoLease
  <2>2. s \in JobRow
    BY <2>1, <2>4 DEF RowOK, JobRow
  <2>3. /\ s.token = r.token /\ s.owner = r.owner /\ s.attempts = r.attempts
        /\ s.maxAttempts = r.maxAttempts
        /\ s.status = r.status /\ s.lease = r.lease - 1 /\ s.progress = r.progress
    BY <2>1 DEF RowOK, JobRow
  <2> QED
    BY <2>2, <2>3, <2>4
    DEF RowOK, RowLease, RowBudget, RowNew, RowFresh, RowLedger, RowHistory
<1>7. CASE MadeDue(r, s)
  <2>1. s = [r EXCEPT !.ready = TRUE]
    BY <1>7 DEF MadeDue
  <2>2. s \in JobRow
    BY <2>1 DEF RowOK, JobRow
  <2>3. /\ s.token = r.token /\ s.owner = r.owner /\ s.attempts = r.attempts
        /\ s.maxAttempts = r.maxAttempts
        /\ s.status = r.status /\ s.lease = r.lease /\ s.progress = r.progress
    BY <2>1 DEF RowOK, JobRow
  <2> QED
    BY <2>1, <2>2, <2>3
    DEF RowOK, RowLease, RowBudget, RowNew, RowFresh, RowLedger, RowHistory
<1>8. CASE Started(r, s)
  <2>1. r.status = "LEASED" /\ s = [r EXCEPT !.status = "PROCESSING"]
    BY <1>8 DEF Started
  <2>2. s \in JobRow
    BY <2>1 DEF RowOK, JobRow, Status, Queued, Held, Leased, Failures, Terminal
  <2>3. /\ s.token = r.token /\ s.owner = r.owner /\ s.attempts = r.attempts
        /\ s.maxAttempts = r.maxAttempts
        /\ s.status = "PROCESSING" /\ s.lease = r.lease /\ s.progress = r.progress
    BY <2>1 DEF RowOK, JobRow
  <2> QED
    BY <2>1, <2>2, <2>3
    DEF RowOK, RowLease, RowBudget, RowNew, RowFresh, RowLedger, RowHistory,
        Queued, Held, Leased
<1>9. CASE Progressed(r, s)
  <2>1. PICK current \in 1..ProgressTotal :
           /\ r.status \in {"PROCESSING", "CANCEL_REQUESTED"}
           /\ s = [r EXCEPT !.progress = current]
    BY <1>9 DEF Progressed
  <2>4. current \in 0..ProgressTotal
    BY <2>1, ConstantsAssumption
  <2>2. s \in JobRow
    BY <2>1, <2>4 DEF RowOK, JobRow
  <2>3. /\ s.token = r.token /\ s.owner = r.owner /\ s.attempts = r.attempts
        /\ s.maxAttempts = r.maxAttempts
        /\ s.status = r.status /\ s.lease = r.lease /\ s.progress = current
    BY <2>1 DEF RowOK, JobRow
  <2> QED
    BY <2>1, <2>2, <2>3
    DEF RowOK, RowLease, RowBudget, RowNew, RowFresh, RowLedger, RowHistory,
        Queued
<1>10. CASE Renewed(r, s)
  <2>1. r.lease > 0 /\ s = [r EXCEPT !.lease = LeaseTicks]
    BY <1>10 DEF Renewed
  <2>4. LeaseTicks \in LeaseTime /\ LeaseTicks # NoLease /\ r.lease # NoLease
    BY <2>1, ConstantsAssumption DEF LeaseTime, Lapsed, NoLease
  <2>2. s \in JobRow
    BY <2>1, <2>4 DEF RowOK, JobRow
  <2>3. /\ s.token = r.token /\ s.owner = r.owner /\ s.attempts = r.attempts
        /\ s.maxAttempts = r.maxAttempts
        /\ s.status = r.status /\ s.lease = LeaseTicks /\ s.progress = r.progress
    BY <2>1 DEF RowOK, JobRow
  <2> QED
    BY <2>2, <2>3, <2>4
    DEF RowOK, RowLease, RowBudget, RowNew, RowFresh, RowLedger, RowHistory
<1> QED
  BY <1>1, <1>2, <1>3, <1>4, <1>5, <1>6, <1>7, <1>8, <1>9, <1>10 DEF QuietStep

LEMMA FinishAttemptClosesOne ==
    ASSUME NEW l \in Ledger, NEW a \in AttemptNo, NEW outcome \in Outcome,
           l[a] = "PROCESSING"
    PROVE  /\ FinishAttempt(l, a, outcome) \in Ledger
           /\ \A n \in AttemptNo :
                 FinishAttempt(l, a, outcome)[n] = IF n = a THEN outcome ELSE l[n]
BY DEF FinishAttempt, Ledger

\* The three ways a lease ends, in one statement: the row is released with a
\* final or waiting status, its attempt is closed with a matching outcome.
LEMMA ReleaseKeepsRow ==
    ASSUME NEW r, NEW l, NEW s, NEW m, RowOK(r, l), r.status \in Leased,
           NEW outcome \in Outcome \ {"ABSENT", "PROCESSING"},
           m = FinishAttempt(l, r.attempts, outcome),
           s \in JobRow,
           s.token = 0, s.owner = NoWorker, s.lease = NoLease,
           s.attempts = r.attempts, s.maxAttempts = r.maxAttempts,
           s.status \in Terminal \cup {"RETRY_DELAY"},
           s.status = "RETRY_DELAY" => /\ r.attempts < r.maxAttempts
                                       /\ s.progress = 0,
           s.status = "COMPLETED" <=> outcome = "COMPLETED",
           s.status = "CANCELLED" <=> outcome = "CANCELLED",
           s.status = "RETRY_DELAY" => outcome = "RETRY_SCHEDULED",
           s.status = "FAILED" => outcome = "FAILED",
           s.status = "DEAD_LETTER" => outcome \in {"FAILED", "LEASE_EXPIRED"}
    PROVE  RowOK(s, m)
<1>1. /\ r.attempts \in AttemptNo
      /\ l \in Ledger
      /\ l[r.attempts] = "PROCESSING"
  BY ConstantsAssumption DEF RowOK, RowLease, RowLedger, JobRow, AttemptNo
<1>2. /\ m \in Ledger
      /\ \A n \in AttemptNo : m[n] = IF n = r.attempts THEN outcome ELSE l[n]
  BY <1>1, FinishAttemptClosesOne
<1>3. s.status \notin Leased \cup {"ABSENT", "PENDING", "SCHEDULED"}
  BY DEF Leased, Held, Terminal, Failures
<1>4. RowLease(s) /\ RowNew(s) /\ RowFresh(s) /\ RowBudget(s)
  BY <1>3 DEF RowOK, RowLease, RowNew, RowFresh, RowBudget, Queued, Leased, Held
<1>5. RowLedger(s, m)
  BY <1>1, <1>2, <1>3, ConstantsAssumption DEF RowOK, RowLedger, AttemptNo
<1>6. RowHistory(s, m)
  <2>1. r.attempts # 0 /\ m[r.attempts] = outcome
    BY <1>1, <1>2, ConstantsAssumption DEF AttemptNo
  <2>2. \A n \in AttemptNo : l[n] # "COMPLETED" /\ l[n] # "CANCELLED"
    BY DEF RowOK, RowHistory, Leased, Held
  <2> QED
    BY <1>2, <2>1, <2>2 DEF RowHistory
<1> QED
  BY <1>2, <1>4, <1>5, <1>6 DEF RowOK

LEMMA ReleasedRow ==
    ASSUME NEW r \in JobRow, NEW status \in Status
    PROVE  /\ Released(r, status) \in JobRow
           /\ Released(r, status).status = status
           /\ Released(r, status).token = 0
           /\ Released(r, status).owner = NoWorker
           /\ Released(r, status).lease = NoLease
           /\ Released(r, status).attempts = r.attempts
           /\ Released(r, status).maxAttempts = r.maxAttempts
           /\ Released(r, status).progress = r.progress
<1>1. 0 \in 0..AttemptLimit /\ NoLease \in LeaseTime
  BY ConstantsAssumption DEF LeaseTime, NoLease
<1> QED
  BY <1>1 DEF Released, JobRow

LEMMA CompletedRowFields ==
    ASSUME NEW r \in JobRow
    PROVE  /\ CompletedRow(r) \in JobRow
           /\ CompletedRow(r).status = "COMPLETED"
           /\ CompletedRow(r).token = 0
           /\ CompletedRow(r).owner = NoWorker
           /\ CompletedRow(r).lease = NoLease
           /\ CompletedRow(r).attempts = r.attempts
           /\ CompletedRow(r).maxAttempts = r.maxAttempts
<1>1. /\ 0 \in 0..ProgressTotal /\ ProgressTotal \in 0..ProgressTotal
      /\ "COMPLETED" \in Status
  BY ConstantsAssumption DEF Status, Terminal
<1> DEFINE q == Released(r, "COMPLETED")
<1>2. CompletedRow(r) = [q EXCEPT !.progress = IF @ = 0 THEN 0 ELSE ProgressTotal]
  BY DEF CompletedRow
<1>3. /\ q \in JobRow /\ q.status = "COMPLETED" /\ q.token = 0
      /\ q.owner = NoWorker /\ q.lease = NoLease /\ q.attempts = r.attempts
      /\ q.maxAttempts = r.maxAttempts
  BY <1>1, ReleasedRow
<1> HIDE DEF q
<1> QED
  BY <1>1, <1>2, <1>3 DEF JobRow

LEMMA FailedRowFields ==
    ASSUME NEW r \in JobRow, NEW target \in Failures \cup {"RETRY_DELAY"}
    PROVE  /\ FailedRow(r, target) \in JobRow
           /\ FailedRow(r, target).status = target
           /\ FailedRow(r, target).token = 0
           /\ FailedRow(r, target).owner = NoWorker
           /\ FailedRow(r, target).lease = NoLease
           /\ FailedRow(r, target).attempts = r.attempts
           /\ FailedRow(r, target).maxAttempts = r.maxAttempts
           /\ target = "RETRY_DELAY" => FailedRow(r, target).progress = 0
<1>1. 0 \in 0..ProgressTotal /\ target \in Status
  BY ConstantsAssumption DEF Status, Terminal, Queued, Failures
<1> DEFINE q == Released(r, target)
           ready == (target # "RETRY_DELAY")
<1>2. FailedRow(r, target) =
         [q EXCEPT !.ready = ready,
                   !.progress = IF target = "RETRY_DELAY" THEN 0 ELSE @]
  BY DEF FailedRow
<1>3. /\ q \in JobRow /\ q.status = target /\ q.token = 0
      /\ q.owner = NoWorker /\ q.lease = NoLease /\ q.attempts = r.attempts
      /\ q.maxAttempts = r.maxAttempts
  BY <1>1, ReleasedRow
<1>4. ready \in BOOLEAN
  OBVIOUS
<1> HIDE DEF q, ready
<1> QED
  BY <1>1, <1>2, <1>3, <1>4 DEF JobRow

LEMMA ClaimedRowFields ==
    ASSUME NEW r \in JobRow, NEW w \in Workers, r.attempts < r.maxAttempts
    PROVE  /\ ClaimedRow(r, w) \in JobRow
           /\ ClaimedRow(r, w).status = "LEASED"
           /\ ClaimedRow(r, w).token = r.attempts + 1
           /\ ClaimedRow(r, w).owner = w
           /\ ClaimedRow(r, w).lease = LeaseTicks
           /\ ClaimedRow(r, w).attempts = r.attempts + 1
           /\ ClaimedRow(r, w).maxAttempts = r.maxAttempts
           /\ ClaimedRow(r, w).progress = IF r.status \in Held THEN 0 ELSE r.progress
<1>1. r.attempts + 1 \in 0..AttemptLimit
  BY ConstantsAssumption DEF JobRow
<1>2. /\ LeaseTicks \in LeaseTime /\ "LEASED" \in Status
      /\ 0 \in 0..ProgressTotal
  BY ConstantsAssumption DEF LeaseTime, NoLease, Status, Leased, Held
<1> QED
  BY <1>1, <1>2 DEF ClaimedRow, JobRow

LEMMA ClaimKeepsRow ==
    ASSUME NEW r, NEW l, NEW s, NEW m, RowOK(r, l), Claimed(r, l, s, m)
    PROVE  RowOK(s, m)
<1>1. PICK w \in Workers : s = ClaimedRow(r, w)
  BY DEF Claimed
<1>2. /\ r \in JobRow /\ l \in Ledger
      /\ r.attempts \in 0..AttemptLimit /\ r.maxAttempts \in 1..AttemptLimit
      /\ r.attempts < r.maxAttempts /\ r.status \in Queued \cup Held
      /\ m = ClaimedLedger(l, r)
  BY DEF Claimed, RowOK, JobRow
<1>3. /\ s \in JobRow /\ s.status = "LEASED" /\ s.token = r.attempts + 1
      /\ s.owner = w /\ s.lease = LeaseTicks /\ s.attempts = r.attempts + 1
      /\ s.maxAttempts = r.maxAttempts
      /\ s.progress = IF r.status \in Held THEN 0 ELSE r.progress
  BY <1>1, <1>2, ClaimedRowFields
<1>4. RowLease(s)
  BY <1>2, <1>3, ConstantsAssumption DEF RowLease, Leased, Held, NoLease
<1>5. RowBudget(s) /\ RowNew(s)
  BY <1>2, <1>3, ConstantsAssumption DEF RowBudget, RowNew, Queued
<1>6. RowFresh(s)
  BY <1>2, <1>3 DEF RowOK, RowFresh
<1>7. /\ m \in Ledger
      /\ \A n \in AttemptNo :
            m[n] = IF n = r.attempts + 1 THEN "PROCESSING"
                   ELSE IF n = r.attempts /\ r.status \in Held
                          THEN "LEASE_EXPIRED" ELSE l[n]
  <2>1. r.attempts + 1 \in AttemptNo
    BY <1>2, ConstantsAssumption DEF AttemptNo
  <2>2. CASE r.status \in Held
    <3>1. r.attempts \in AttemptNo /\ l[r.attempts] = "PROCESSING"
      BY <2>2, ConstantsAssumption
      DEF RowOK, RowLease, RowLedger, JobRow, AttemptNo, Leased
    <3>2. /\ FinishAttempt(l, r.attempts, "LEASE_EXPIRED") \in Ledger
          /\ \A n \in AttemptNo :
                FinishAttempt(l, r.attempts, "LEASE_EXPIRED")[n] =
                   IF n = r.attempts THEN "LEASE_EXPIRED" ELSE l[n]
      BY <1>2, <3>1, FinishAttemptClosesOne DEF Outcome
    <3>3. m = [FinishAttempt(l, r.attempts, "LEASE_EXPIRED")
                 EXCEPT ![r.attempts + 1] = "PROCESSING"]
      BY <1>2, <2>2 DEF ClaimedLedger
    <3> QED
      BY <1>2, <2>1, <2>2, <3>2, <3>3, ConstantsAssumption
      DEF Ledger, AttemptNo, Outcome
  <2>3. CASE r.status \notin Held
    <3>1. m = [l EXCEPT ![r.attempts + 1] = "PROCESSING"]
      BY <1>2, <2>3 DEF ClaimedLedger
    <3> QED
      BY <1>2, <2>1, <2>3, <3>1 DEF Ledger, Outcome
  <2> QED
    BY <2>2, <2>3
<1>8. RowLedger(s, m)
  <2> SUFFICES ASSUME NEW n \in AttemptNo
               PROVE  /\ m[n] = "ABSENT" <=> n > s.attempts
                      /\ m[n] = "PROCESSING" <=>
                            s.status \in Leased /\ n = s.attempts
    BY DEF RowLedger
  <2>1. /\ l[n] = "ABSENT" <=> n > r.attempts
        /\ l[n] = "PROCESSING" <=> r.status \in Leased /\ n = r.attempts
    BY DEF RowOK, RowLedger
  <2>2. r.status \in Leased <=> r.status \in Held
    BY <1>2 DEF Queued, Leased, Held
  <2>3. n \in Int /\ r.attempts \in Int /\ s.status \in Leased
    BY <1>2, <1>3, ConstantsAssumption DEF AttemptNo, Leased, Held
  <2> QED
    BY <1>3, <1>7, <2>1, <2>2, <2>3
<1>9. RowHistory(s, m)
  <2>1. \A n \in AttemptNo : l[n] # "COMPLETED" /\ l[n] # "CANCELLED"
    BY <1>2 DEF RowOK, RowHistory, Queued, Held
  <2> QED
    BY <1>3, <1>7, <2>1 DEF RowHistory
<1> QED
  BY <1>3, <1>4, <1>5, <1>6, <1>7, <1>8, <1>9 DEF RowOK

LEMMA RowStepKeepsRow ==
    ASSUME NEW r, NEW l, NEW s, NEW m, RowOK(r, l), RowStep(r, l, s, m)
    PROVE  RowOK(s, m)
<1>1. r \in JobRow
  BY DEF RowOK
<1>2. CASE QuietStep(r, s) /\ m = l
  BY <1>2, QuietStepKeepsRow
<1>3. CASE Claimed(r, l, s, m)
  BY <1>3, ClaimKeepsRow
<1>4. CASE r.status \in Leased /\ Ended(r, l, s, m, "CANCELLED", "CANCELLED")
  <2>1. "CANCELLED" \in Status /\ "CANCELLED" \in Terminal
    BY DEF Status, Terminal
  <2>2. "CANCELLED" \in Outcome \ {"ABSENT", "PROCESSING"}
    BY DEF Outcome
  <2> QED
    BY <1>1, <1>4, <2>1, <2>2, ReleasedRow, ReleaseKeepsRow DEF Ended
<1>5. CASE r.status \in Held /\ Ended(r, l, s, m, "DEAD_LETTER", "LEASE_EXPIRED")
  <2>1. "DEAD_LETTER" \in Status /\ "DEAD_LETTER" \in Terminal
    BY DEF Status, Terminal, Failures
  <2>2. "LEASE_EXPIRED" \in Outcome \ {"ABSENT", "PROCESSING"}
    BY DEF Outcome
  <2>3. r.status \in Leased
    BY <1>5 DEF Leased
  <2> QED
    BY <1>1, <1>5, <2>1, <2>2, <2>3, ReleasedRow, ReleaseKeepsRow DEF Ended
<1>6. CASE Completed(r, l, s, m)
  <2>1. "COMPLETED" \in Terminal
    BY DEF Terminal
  <2>2. "COMPLETED" \in Outcome \ {"ABSENT", "PROCESSING"}
    BY DEF Outcome
  <2>3. r.status \in Leased
    BY <1>6 DEF Completed, Leased, Held
  <2> QED
    BY <1>1, <1>6, <2>1, <2>2, <2>3, CompletedRowFields, ReleaseKeepsRow
    DEF Completed
<1>7. CASE FailedTo(r, l, s, m)
  <2>1. PICK target \in Failures \cup {"RETRY_DELAY"} :
           /\ target = "RETRY_DELAY" => r.attempts < r.maxAttempts
           /\ s = FailedRow(r, target)
           /\ m = FinishAttempt(l, r.attempts, FailedOutcome(target))
    BY <1>7 DEF FailedTo
  <2>2. target \in Terminal \cup {"RETRY_DELAY"} /\ r.status \in Leased
    BY <1>7 DEF Terminal, FailedTo, Leased
  <2>3. /\ FailedOutcome(target) \in Outcome \ {"ABSENT", "PROCESSING"}
        /\ FailedOutcome(target) \notin {"COMPLETED", "CANCELLED"}
        /\ target = "RETRY_DELAY" => FailedOutcome(target) = "RETRY_SCHEDULED"
        /\ target # "RETRY_DELAY" => FailedOutcome(target) = "FAILED"
    BY DEF FailedOutcome, Outcome
  <2>4. target \notin {"COMPLETED", "CANCELLED"}
    BY DEF Failures
  <2> QED
    BY <1>1, <2>1, <2>2, <2>3, <2>4, FailedRowFields, ReleaseKeepsRow
<1> QED
  BY <1>2, <1>3, <1>4, <1>5, <1>6, <1>7 DEF RowStep

-----------------------------------------------------------------------------
(* A RowStep of a consistent row is a step of its contract, or none.       *)

LEMMA PhaseNames ==
    /\ PhaseOf("ABSENT") = "absent"
    /\ \A status \in Queued : PhaseOf(status) = "queued"
    /\ \A status \in Held : PhaseOf(status) = "held"
    /\ PhaseOf("CANCEL_REQUESTED") = "stopping"
    /\ PhaseOf("COMPLETED") = "completed"
    /\ PhaseOf("CANCELLED") = "cancelled"
    /\ \A status \in Failures : PhaseOf(status) = "failed"
BY DEF PhaseOf, Queued, Held, Failures

\* The contract sees the status, the attempts and the allowance of a row.
LEMMA ContractMove ==
    ASSUME NEW r, NEW s, s.attempts = r.attempts, s.maxAttempts = r.maxAttempts
    PROVE  ContractOf(s) = [ContractOf(r) EXCEPT !.phase = PhaseOf(s.status)]
BY DEF ContractOf

LEMMA ContractFields ==
    ASSUME NEW r
    PROVE  /\ ContractOf(r).phase = PhaseOf(r.status)
           /\ ContractOf(r).used = r.attempts
           /\ ContractOf(r).allowed = r.maxAttempts
BY DEF ContractOf

LEMMA QuietStepKeepsContract ==
    ASSUME NEW r, NEW l, NEW s, RowOK(r, l), QuietStep(r, s)
    PROVE  ContractOf(s) = ContractOf(r) \/ Contract!Step(ContractOf(r), ContractOf(s))
<1>1. r \in JobRow
  BY DEF RowOK
<1>2. CASE Inserted(r, s)
  <2>1. /\ s.attempts = r.attempts /\ s.maxAttempts = r.maxAttempts
        /\ s.status \in Queued /\ r.status = "ABSENT"
    BY <1>1, <1>2 DEF Inserted, JobRow, Queued
  <2>2. Contract!Submit(ContractOf(r), ContractOf(s))
    BY <2>1, ContractMove, ContractFields, PhaseNames
    DEF Contract!Submit, Contract!Move
  <2> QED
    BY <2>2 DEF Contract!Step
<1>3. CASE Withdrawn(r, s)
  <2>1. /\ s.attempts = r.attempts /\ s.maxAttempts = r.maxAttempts
        /\ s.status = "CANCELLED" /\ r.status \in Queued
    BY <1>1, <1>3 DEF Withdrawn, JobRow
  <2>2. Contract!Withdraw(ContractOf(r), ContractOf(s))
    BY <2>1, ContractMove, ContractFields, PhaseNames
    DEF Contract!Withdraw, Contract!Move
  <2> QED
    BY <2>2 DEF Contract!Step
<1>4. CASE StopAsked(r, s)
  <2>1. /\ s.attempts = r.attempts /\ s.maxAttempts = r.maxAttempts
        /\ s.status = "CANCEL_REQUESTED" /\ r.status \in Leased
    BY <1>1, <1>4 DEF StopAsked, JobRow
  <2>2. CASE r.status \in Held
    <3>1. Contract!AskToStop(ContractOf(r), ContractOf(s))
      BY <2>1, <2>2, ContractMove, ContractFields, PhaseNames
      DEF Contract!AskToStop, Contract!Move
    <3> QED
      BY <3>1 DEF Contract!Step
  <2>3. CASE r.status = "CANCEL_REQUESTED"
    BY <2>1, <2>3 DEF ContractOf
  <2> QED
    BY <2>1, <2>2, <2>3 DEF Leased
<1>5. CASE Revived(r, s)
  <2>1. PICK raised \in 1..AttemptLimit :
           /\ raised = IF r.attempts + 1 > r.maxAttempts
                         THEN r.attempts + 1 ELSE r.maxAttempts
           /\ s = [r EXCEPT !.status = "PENDING", !.ready = TRUE,
                            !.maxAttempts = raised, !.progress = 0]
    BY <1>5 DEF Revived
  <2>2. /\ s.attempts = r.attempts /\ s.maxAttempts = raised
        /\ s.status \in Queued /\ r.status \in Failures
    BY <1>1, <1>5, <2>1 DEF Revived, JobRow, Queued
  <2>3. raised = IF r.attempts + 1 > r.maxAttempts
                   THEN r.attempts + 1 ELSE r.maxAttempts
    BY <2>1
  <2>4. ContractOf(s) = [phase |-> "queued", used |-> r.attempts,
                         allowed |-> raised]
    BY <2>2, PhaseNames DEF ContractOf
  <2>5. Contract!Revive(ContractOf(r), ContractOf(s))
    BY <2>2, <2>3, <2>4, ContractFields, PhaseNames DEF Contract!Revive
  <2> QED
    BY <2>5 DEF Contract!Step
<1>6. CASE s = r \/ Aged(r, s) \/ MadeDue(r, s) \/ Progressed(r, s) \/ Renewed(r, s)
  <2>1. /\ s.attempts = r.attempts /\ s.maxAttempts = r.maxAttempts
        /\ s.status = r.status
    BY <1>1, <1>6 DEF Aged, MadeDue, Progressed, Renewed, JobRow
  <2> QED
    BY <2>1 DEF ContractOf
<1>7. CASE Started(r, s)
  <2>1. /\ s.attempts = r.attempts /\ s.maxAttempts = r.maxAttempts
        /\ s.status \in Held /\ r.status \in Held
    BY <1>1, <1>7 DEF Started, JobRow, Held
  <2> QED
    BY <2>1, PhaseNames DEF ContractOf
<1> QED
  BY <1>2, <1>3, <1>4, <1>5, <1>6, <1>7 DEF QuietStep

LEMMA RowStepKeepsContract ==
    ASSUME NEW r, NEW l, NEW s, NEW m, RowOK(r, l), RowStep(r, l, s, m)
    PROVE  ContractOf(s) = ContractOf(r) \/ Contract!Step(ContractOf(r), ContractOf(s))
<1>1. r \in JobRow
  BY DEF RowOK
<1>2. CASE QuietStep(r, s) /\ m = l
  BY <1>2, QuietStepKeepsContract
<1>3. CASE Claimed(r, l, s, m)
  <2>1. PICK w \in Workers : s = ClaimedRow(r, w)
    BY <1>3 DEF Claimed
  <2>2. /\ s.attempts = r.attempts + 1 /\ s.maxAttempts = r.maxAttempts
        /\ s.status \in Held /\ r.status \in Queued \cup Held
        /\ r.attempts < r.maxAttempts
    BY <1>1, <1>3, <2>1, ClaimedRowFields DEF Claimed, Held
  <2>3. ContractOf(s) = [phase |-> "held", used |-> r.attempts + 1,
                         allowed |-> r.maxAttempts]
    BY <2>2, PhaseNames DEF ContractOf
  <2>4. Contract!HandOut(ContractOf(r), ContractOf(s))
    BY <2>2, <2>3, ContractFields, PhaseNames DEF Contract!HandOut
  <2> QED
    BY <2>4 DEF Contract!Step
<1>4. CASE r.status \in Leased /\ Ended(r, l, s, m, "CANCELLED", "CANCELLED")
  <2>1. "CANCELLED" \in Status
    BY DEF Status, Terminal
  <2>2. /\ s.attempts = r.attempts /\ s.maxAttempts = r.maxAttempts
        /\ s.status = "CANCELLED" /\ r.status \in Held \cup {"CANCEL_REQUESTED"}
    BY <1>1, <1>4, <2>1, ReleasedRow DEF Ended, Leased
  <2>3. Contract!Stopped(ContractOf(r), ContractOf(s))
    BY <2>2, ContractMove, ContractFields, PhaseNames
    DEF Contract!Stopped, Contract!Move
  <2> QED
    BY <2>3 DEF Contract!Step
<1>5. CASE r.status \in Held /\ Ended(r, l, s, m, "DEAD_LETTER", "LEASE_EXPIRED")
  <2>1. "DEAD_LETTER" \in Status /\ "DEAD_LETTER" \in Failures
    BY DEF Status, Terminal, Failures
  <2>2. /\ s.attempts = r.attempts /\ s.maxAttempts = r.maxAttempts
        /\ s.status = "DEAD_LETTER" /\ r.status \in Held
    BY <1>1, <1>5, <2>1, ReleasedRow DEF Ended
  <2>3. Contract!GiveUp(ContractOf(r), ContractOf(s))
    BY <2>1, <2>2, ContractMove, ContractFields, PhaseNames
    DEF Contract!GiveUp, Contract!Move
  <2> QED
    BY <2>3 DEF Contract!Step
<1>6. CASE Completed(r, l, s, m)
  <2>1. /\ s.attempts = r.attempts /\ s.maxAttempts = r.maxAttempts
        /\ s.status = "COMPLETED" /\ r.status \in Held
    BY <1>1, <1>6, CompletedRowFields DEF Completed, Held
  <2>2. Contract!Succeed(ContractOf(r), ContractOf(s))
    BY <2>1, ContractMove, ContractFields, PhaseNames
    DEF Contract!Succeed, Contract!Move
  <2> QED
    BY <2>2 DEF Contract!Step
<1>7. CASE FailedTo(r, l, s, m)
  <2>1. PICK target \in Failures \cup {"RETRY_DELAY"} :
           /\ target = "RETRY_DELAY" => r.attempts < r.maxAttempts
           /\ s = FailedRow(r, target)
    BY <1>7 DEF FailedTo
  <2>2. /\ s.attempts = r.attempts /\ s.maxAttempts = r.maxAttempts
        /\ s.status = target /\ r.status \in Held
    BY <1>1, <1>7, <2>1, FailedRowFields DEF FailedTo
  <2>3. CASE target \in Failures
    <3>1. Contract!GiveUp(ContractOf(r), ContractOf(s))
      BY <2>2, <2>3, ContractMove, ContractFields, PhaseNames
      DEF Contract!GiveUp, Contract!Move
    <3> QED
      BY <3>1 DEF Contract!Step
  <2>4. CASE target = "RETRY_DELAY"
    <3>1. "RETRY_DELAY" \in Queued
      BY DEF Queued
    <3>2. Contract!TryAgain(ContractOf(r), ContractOf(s))
      BY <2>1, <2>2, <2>4, <3>1, ContractMove, ContractFields, PhaseNames
      DEF Contract!TryAgain, Contract!Move
    <3> QED
      BY <3>2 DEF Contract!Step
  <2> QED
    BY <2>3, <2>4
<1> QED
  BY <1>2, <1>3, <1>4, <1>5, <1>6, <1>7 DEF RowStep

-----------------------------------------------------------------------------
(* A step of the system is a RowStep of every job.                         *)

RowsOK == \A j \in Jobs : RowOK(job[j], attempt[j])

RowSteps == \A k \in Jobs : RowStep(job[k], attempt[k], job'[k], attempt'[k])

\* job' and attempt' differ from job and attempt in j at most.
OnlyRow(j) ==
    \A k \in Jobs \ {j} : job'[k] = job[k] /\ attempt'[k] = attempt[k]

LEMMA OneRowSteps ==
    ASSUME NEW j \in Jobs, OnlyRow(j),
           RowStep(job[j], attempt[j], job'[j], attempt'[j])
    PROVE  RowSteps
BY DEF RowSteps, OnlyRow, RowStep, QuietStep

LEMMA NoRowSteps ==
    ASSUME UNCHANGED <<job, attempt>>
    PROVE  RowSteps
BY DEF RowSteps, RowStep, QuietStep

\* A quiet step of one row that leaves the ledgers alone.
LEMMA OneQuietStep ==
    ASSUME NEW j \in Jobs, TypeOK, NEW s, job' = [job EXCEPT ![j] = s],
           attempt' = attempt, QuietStep(job[j], s)
    PROVE  RowSteps
<1>1. job'[j] = s /\ OnlyRow(j)
  BY DEF TypeOK, OnlyRow
<1> QED
  BY <1>1, OneRowSteps DEF RowStep

\* The holder of the lease runs the attempt the row counts.
LEMMA HolderIsLatest ==
    ASSUME NEW j \in Jobs, NEW n \in AttemptNo, RowsOK, Holds(j, n)
    PROVE  n = job[j].attempts
BY ConstantsAssumption DEF RowsOK, RowOK, RowLease, JobRow, Holds, AttemptNo

LEMMA AgencyAndClockRowSteps ==
    ASSUME TypeOK, AgencyStep \/ ClockStep
    PROVE  RowSteps
<1>1. ASSUME NEW j \in Jobs, Enqueue(j)
      PROVE  RowSteps
  <2>1. PICK scheduled \in BOOLEAN :
           job' = [job EXCEPT ![j].status = IF scheduled THEN "SCHEDULED"
                                                         ELSE "PENDING",
                              ![j].ready = ~scheduled]
    BY <1>1 DEF Enqueue
  <2> DEFINE status == IF scheduled THEN "SCHEDULED" ELSE "PENDING"
             ready == ~scheduled
             s == [job[j] EXCEPT !.status = status, !.ready = ready]
  <2>2. status \in {"PENDING", "SCHEDULED"} /\ ready \in BOOLEAN
    OBVIOUS
  <2>3. job' = [job EXCEPT ![j] = s] /\ attempt' = attempt
    BY <1>1, <2>1 DEF Enqueue, TypeOK
  <2>4. job[j].status = "ABSENT"
    BY <1>1 DEF Enqueue
  <2> HIDE DEF status, ready
  <2>5. Inserted(job[j], s)
    BY <2>2, <2>4 DEF Inserted
  <2> QED
    BY <2>3, <2>5, OneQuietStep DEF QuietStep
<1>2. ASSUME NEW j \in Jobs, CancelJob(j)
      PROVE  RowSteps
  <2>1. CASE job[j].status \in Queued
    <3> DEFINE s == [job[j] EXCEPT !.status = "CANCELLED"]
    <3>1. job' = [job EXCEPT ![j] = s] /\ attempt' = attempt
      BY <1>2, <2>1 DEF CancelJob, TypeOK
    <3> QED
      BY <2>1, <3>1, OneQuietStep DEF QuietStep, Withdrawn
  <2>2. CASE job[j].status \notin Queued
    <3> DEFINE s == [job[j] EXCEPT !.status = "CANCEL_REQUESTED"]
    <3>1. job' = [job EXCEPT ![j] = s] /\ attempt' = attempt
      BY <1>2, <2>2 DEF CancelJob, TypeOK
    <3>2. job[j].status \in Leased
      BY <1>2, <2>2 DEF CancelJob
    <3> QED
      BY <3>1, <3>2, OneQuietStep DEF QuietStep, StopAsked
  <2> QED
    BY <2>1, <2>2
<1>3. ASSUME NEW j \in Jobs, RetryJob(j)
      PROVE  RowSteps
  <2> DEFINE raised == IF job[j].attempts + 1 > job[j].maxAttempts
                         THEN job[j].attempts + 1 ELSE job[j].maxAttempts
             s == [job[j] EXCEPT !.status = "PENDING", !.ready = TRUE,
                                 !.maxAttempts = raised, !.progress = 0]
  <2>1. /\ job[j].attempts \in 0..AttemptLimit
        /\ job[j].maxAttempts \in 1..AttemptLimit
        /\ raised <= AttemptLimit
    BY <1>3 DEF RetryJob, TypeOK, JobRow
  <2>2. raised \in 1..AttemptLimit
    BY <2>1, ConstantsAssumption
  <2>3. job' = [job EXCEPT ![j] = s] /\ attempt' = attempt
    BY <1>3 DEF RetryJob, TypeOK
  <2>4. job[j].status \in Failures
    BY <1>3 DEF RetryJob
  <2>5. Revived(job[j], s)
    BY <2>2, <2>4 DEF Revived
  <2> QED
    BY <2>3, <2>5, OneQuietStep DEF QuietStep
<1>4. ASSUME NEW j \in Jobs, LeaseAges(j)
      PROVE  RowSteps
  <2> DEFINE s == [job[j] EXCEPT !.lease = @ - 1]
  <2>1. job' = [job EXCEPT ![j] = s] /\ attempt' = attempt
    BY <1>4 DEF LeaseAges, TypeOK
  <2>2. Aged(job[j], s)
    BY <1>4 DEF LeaseAges, Aged
  <2> QED
    BY <2>1, <2>2, OneQuietStep DEF QuietStep
<1>5. ASSUME NEW j \in Jobs, BecomesDue(j)
      PROVE  RowSteps
  <2> DEFINE s == [job[j] EXCEPT !.ready = TRUE]
  <2>1. job' = [job EXCEPT ![j] = s] /\ attempt' = attempt
    BY <1>5 DEF BecomesDue, TypeOK
  <2> QED
    BY <2>1, OneQuietStep DEF QuietStep, MadeDue
<1> QED
  BY <1>1, <1>2, <1>3, <1>4, <1>5 DEF AgencyStep, ClockStep

LEMMA WorkerRowSteps ==
    ASSUME TypeOK, RowsOK, ClaimSeesCurrentRow, WorkerStep
    PROVE  RowSteps
<1>1. ASSUME NEW w \in Workers, RecoverExpiredCancellationRequests(w)
      PROVE  RowSteps
  <2>1. PICK S \in SUBSET Jobs :
           /\ \A j \in S : job[j].status = "CANCEL_REQUESTED"
           /\ job' = [j \in Jobs |-> IF j \in S
                                       THEN Released(job[j], "CANCELLED")
                                       ELSE job[j]]
           /\ attempt' = [j \in Jobs |->
                 IF j \in S
                   THEN FinishAttempt(attempt[j], job[j].attempts, "CANCELLED")
                   ELSE attempt[j]]
    BY <1>1 DEF RecoverExpiredCancellationRequests, Batch
  <2>2. SUFFICES ASSUME NEW k \in Jobs
                 PROVE  RowStep(job[k], attempt[k], job'[k], attempt'[k])
    BY DEF RowSteps
  <2>3. CASE k \in S
    BY <2>1, <2>3 DEF RowStep, Ended, Leased
  <2>4. CASE k \notin S
    BY <2>1, <2>4 DEF RowStep, QuietStep
  <2> QED
    BY <2>3, <2>4
<1>2. ASSUME NEW w \in Workers, RecoverExpiredTerminalLeases(w)
      PROVE  RowSteps
  <2>1. PICK S \in SUBSET Jobs :
           /\ \A j \in S : job[j].status \in Held
           /\ job' = [j \in Jobs |-> IF j \in S
                                       THEN Released(job[j], "DEAD_LETTER")
                                       ELSE job[j]]
           /\ attempt' = [j \in Jobs |->
                 IF j \in S
                   THEN FinishAttempt(attempt[j], job[j].attempts, "LEASE_EXPIRED")
                   ELSE attempt[j]]
    BY <1>2 DEF RecoverExpiredTerminalLeases, Batch, TerminallyExpired
  <2>2. SUFFICES ASSUME NEW k \in Jobs
                 PROVE  RowStep(job[k], attempt[k], job'[k], attempt'[k])
    BY DEF RowSteps
  <2>3. CASE k \in S
    BY <2>1, <2>3 DEF RowStep, Ended
  <2>4. CASE k \notin S
    BY <2>1, <2>4 DEF RowStep, QuietStep
  <2> QED
    BY <2>3, <2>4
<1>3. ASSUME NEW w \in Workers, ClaimCommit(w)
      PROVE  RowSteps
  <2> DEFINE j == claimTx[w]
  <2>1. /\ j \in Jobs
        /\ job' = [job EXCEPT ![j] = ClaimedRow(job[j], w)]
        /\ attempt' = [attempt EXCEPT ![j] = ClaimedLedger(attempt[j], job[j])]
    BY <1>3 DEF ClaimCommit, TypeOK
  <2>2. job[j].status \in Queued \cup Held /\ job[j].attempts < job[j].maxAttempts
    BY <2>1 DEF ClaimSeesCurrentRow
  <2> HIDE DEF j
  <2>3. /\ job'[j] = ClaimedRow(job[j], w)
        /\ attempt'[j] = ClaimedLedger(attempt[j], job[j])
        /\ OnlyRow(j)
    BY <2>1 DEF TypeOK, OnlyRow
  <2>4. Claimed(job[j], attempt[j], job'[j], attempt'[j])
    BY <2>2, <2>3 DEF Claimed
  <2> QED
    BY <2>1, <2>3, <2>4, OneRowSteps DEF RowStep
<1>4. ASSUME NEW w \in Workers,
             BeginPoll(w) \/ ClaimSelect(w) \/ EndPoll(w) \/ PollFails(w)
               \/ Shutdown(w) \/ Stop(w)
      PROVE  RowSteps
  BY <1>4, NoRowSteps
  DEF BeginPoll, ClaimSelect, EndPoll, PollFails, Shutdown, Stop, ProcessDies
<1> QED
  BY <1>1, <1>2, <1>3, <1>4 DEF WorkerStep, PollLoop

LEMMA CallRowSteps ==
    ASSUME TypeOK, RowsOK, CallStep
    PROVE  RowSteps
<1>1. ASSUME NEW j \in Jobs, NEW n \in AttemptNo, Start(j, n)
      PROVE  RowSteps
  <2>1. CASE UNCHANGED job
    BY <1>1, <2>1, NoRowSteps DEF Start
  <2>2. CASE job[j].status = "LEASED" /\ job' = [job EXCEPT ![j].status = "PROCESSING"]
    <3> DEFINE s == [job[j] EXCEPT !.status = "PROCESSING"]
    <3>1. job' = [job EXCEPT ![j] = s] /\ attempt' = attempt
      BY <1>1, <2>2 DEF Start, TypeOK
    <3> QED
      BY <2>2, <3>1, OneQuietStep DEF QuietStep, Started
  <2> QED
    BY <1>1, <2>1, <2>2 DEF Start
<1>2. ASSUME NEW j \in Jobs, NEW n \in AttemptNo, UpdateProgress(j, n)
      PROVE  RowSteps
  <2>1. PICK current \in 1..ProgressTotal :
           \/ /\ job[j].status \in {"PROCESSING", "CANCEL_REQUESTED"}
              /\ job' = [job EXCEPT ![j].progress = current]
           \/ UNCHANGED job
    BY <1>2 DEF UpdateProgress
  <2>2. CASE UNCHANGED job
    BY <1>2, <2>2, NoRowSteps DEF UpdateProgress
  <2>3. CASE /\ job[j].status \in {"PROCESSING", "CANCEL_REQUESTED"}
             /\ job' = [job EXCEPT ![j].progress = current]
    <3> DEFINE s == [job[j] EXCEPT !.progress = current]
    <3>1. job' = [job EXCEPT ![j] = s] /\ attempt' = attempt
      BY <1>2, <2>3 DEF UpdateProgress, TypeOK
    <3> QED
      BY <2>3, <3>1, OneQuietStep DEF QuietStep, Progressed
  <2> QED
    BY <2>1, <2>2, <2>3
<1>3. ASSUME NEW j \in Jobs, NEW n \in AttemptNo, Heartbeat(j, n)
      PROVE  RowSteps
  <2>1. CASE UNCHANGED job
    BY <1>3, <2>1, NoRowSteps DEF Heartbeat
  <2>2. CASE job[j].lease > 0 /\ job' = [job EXCEPT ![j].lease = LeaseTicks]
    <3> DEFINE s == [job[j] EXCEPT !.lease = LeaseTicks]
    <3>1. job' = [job EXCEPT ![j] = s] /\ attempt' = attempt
      BY <1>3, <2>2 DEF Heartbeat, TypeOK
    <3> QED
      BY <2>2, <3>1, OneQuietStep DEF QuietStep, Renewed
  <2> QED
    BY <1>3, <2>1, <2>2 DEF Heartbeat, CanRead, Live
<1>4. ASSUME NEW j \in Jobs, NEW n \in AttemptNo, Complete(j, n)
      PROVE  RowSteps
  <2>1. CASE UNCHANGED <<job, attempt>>
    BY <2>1, NoRowSteps
  <2>2. CASE /\ Holds(j, n) /\ job[j].status = "PROCESSING"
             /\ job' = [job EXCEPT ![j] = CompletedRow(job[j])]
             /\ attempt' = [attempt EXCEPT ![j] =
                              FinishAttempt(attempt[j], n, "COMPLETED")]
    <3>1. n = job[j].attempts
      BY <2>2, HolderIsLatest
    <3>2. /\ job'[j] = CompletedRow(job[j])
          /\ attempt'[j] = FinishAttempt(attempt[j], n, "COMPLETED")
          /\ OnlyRow(j)
      BY <2>2 DEF TypeOK, OnlyRow
    <3>3. Completed(job[j], attempt[j], job'[j], attempt'[j])
      BY <2>2, <3>1, <3>2 DEF Completed
    <3> QED
      BY <3>2, <3>3, OneRowSteps DEF RowStep
  <2>3. CASE /\ Holds(j, n) /\ job[j].status = "CANCEL_REQUESTED"
             /\ job' = [job EXCEPT ![j] = Released(job[j], "CANCELLED")]
             /\ attempt' = [attempt EXCEPT ![j] =
                              FinishAttempt(attempt[j], n, "CANCELLED")]
    <3>1. n = job[j].attempts
      BY <2>3, HolderIsLatest
    <3>2. /\ job'[j] = Released(job[j], "CANCELLED")
          /\ attempt'[j] = FinishAttempt(attempt[j], n, "CANCELLED")
          /\ OnlyRow(j)
      BY <2>3 DEF TypeOK, OnlyRow
    <3>3. Ended(job[j], attempt[j], job'[j], attempt'[j], "CANCELLED", "CANCELLED")
      BY <3>1, <3>2 DEF Ended
    <3> QED
      BY <2>3, <3>2, <3>3, OneRowSteps DEF RowStep, Leased
  <2> QED
    BY <1>4, <2>1, <2>2, <2>3 DEF Complete, TypeOK
<1>5. ASSUME NEW j \in Jobs, NEW n \in AttemptNo, CancelLeased(j, n)
      PROVE  RowSteps
  <2>1. CASE UNCHANGED <<job, attempt>>
    BY <2>1, NoRowSteps
  <2>2. CASE /\ Holds(j, n) /\ job[j].status \in Leased
             /\ job' = [job EXCEPT ![j] = Released(job[j], "CANCELLED")]
             /\ attempt' = [attempt EXCEPT ![j] =
                              FinishAttempt(attempt[j], n, "CANCELLED")]
    <3>1. n = job[j].attempts
      BY <2>2, HolderIsLatest
    <3>2. /\ job'[j] = Released(job[j], "CANCELLED")
          /\ attempt'[j] = FinishAttempt(attempt[j], n, "CANCELLED")
          /\ OnlyRow(j)
      BY <2>2 DEF TypeOK, OnlyRow
    <3>3. Ended(job[j], attempt[j], job'[j], attempt'[j], "CANCELLED", "CANCELLED")
      BY <3>1, <3>2 DEF Ended
    <3> QED
      BY <2>2, <3>2, <3>3, OneRowSteps DEF RowStep
  <2> QED
    BY <1>5, <2>1, <2>2 DEF CancelLeased, TypeOK
<1>6. ASSUME NEW j \in Jobs, NEW n \in AttemptNo, Fail(j, n)
      PROVE  RowSteps
  <2> DEFINE target == RetryTarget(exec[j][n].failure, n, job[j].maxAttempts)
  <2>1. /\ Holds(j, n) /\ job[j].status \in Held
        /\ job'[j] = FailedRow(job[j], target)
        /\ attempt'[j] = FinishAttempt(attempt[j], n, FailedOutcome(target))
        /\ OnlyRow(j)
    BY <1>6 DEF Fail, FailGuard, TypeOK, OnlyRow
  <2>2. n = job[j].attempts
    BY <2>1, HolderIsLatest
  <2>3. /\ target \in Failures \cup {"RETRY_DELAY"}
        /\ target = "RETRY_DELAY" => ~(n >= job[j].maxAttempts)
    BY DEF RetryTarget, Failures
  <2>4. job[j].attempts \in Int /\ job[j].maxAttempts \in Int
    BY ConstantsAssumption DEF TypeOK, JobRow
  <2>5. target = "RETRY_DELAY" => job[j].attempts < job[j].maxAttempts
    BY <2>2, <2>3, <2>4
  <2> HIDE DEF target
  <2>6. FailedTo(job[j], attempt[j], job'[j], attempt'[j])
    BY <2>1, <2>2, <2>3, <2>5 DEF FailedTo
  <2> QED
    BY <2>1, <2>6, OneRowSteps DEF RowStep
<1>7. ASSUME NEW j \in Jobs, NEW n \in AttemptNo,
             \/ CheckBeforeExecute(j, n) \/ CheckAfterExecute(j, n)
             \/ FailLosesLease(j, n) \/ HandlerEnds(j, n) \/ RejectJob(j, n)
             \/ HeartbeatFails(j, n) \/ DatabaseError(j, n)
      PROVE  RowSteps
  <2>1. UNCHANGED <<job, attempt>>
    BY <1>7 DEF CheckBeforeExecute, CheckAfterExecute, FailLosesLease,
       HandlerEnds, HandlerReturns, HandlerThrows, RejectJob, HeartbeatFails,
       DatabaseError, ProcessDies
  <2> QED
    BY <2>1, NoRowSteps
<1> QED
  BY <1>1, <1>2, <1>3, <1>4, <1>5, <1>6, <1>7 DEF CallStep, ProcessJob

LEMMA NextIsRowStep ==
    ASSUME TypeOK, RowsOK, ClaimSeesCurrentRow, [Next]_vars
    PROVE  RowSteps
<1>1. CASE UNCHANGED vars
  BY <1>1, NoRowSteps DEF vars
<1> QED
  BY <1>1, AgencyAndClockRowSteps, WorkerRowSteps, CallRowSteps DEF Next

-----------------------------------------------------------------------------
(* The type of what the worker processes hold in memory.                   *)

ProcessTypeOK ==
    /\ exec \in [Jobs -> [AttemptNo -> Exec]]
    /\ active \in [Workers -> [Jobs -> 0..AttemptLimit]]
    /\ mode \in [Workers -> {"up", "draining"}]
    /\ poll \in [Workers -> PollStep]
    /\ claimTx \in [Workers -> Jobs \cup {NoJob}]

CallTypeOK == /\ exec \in [Jobs -> [AttemptNo -> Exec]]
              /\ active \in [Workers -> [Jobs -> 0..AttemptLimit]]

LEMMA NoExecType == NoExec \in Exec
BY DEF NoExec, Exec, ExecStep, AbortReason

Calls == [Jobs -> [AttemptNo -> Exec]]

\* Writing one field of one call keeps the table of calls typed.
LEMMA WriteCall ==
    ASSUME NEW e \in Calls, NEW j \in Jobs, NEW n \in AttemptNo, NEW c \in Exec
    PROVE  [e EXCEPT ![j][n] = c] \in Calls
<1>1. [e[j] EXCEPT ![n] = c] \in [AttemptNo -> Exec]
  BY DEF Calls
<1> QED
  BY <1>1 DEF Calls

LEMMA WriteField ==
    ASSUME NEW e \in Calls, NEW j \in Jobs, NEW n \in AttemptNo,
           NEW step \in ExecStep, NEW abort \in AbortReason,
           NEW failure \in Failure \cup {"none"}
    PROVE  /\ [e EXCEPT ![j][n].step = step] \in Calls
           /\ [e EXCEPT ![j][n].abort = abort] \in Calls
           /\ [e EXCEPT ![j][n].failure = failure] \in Calls
<1>1. e[j][n] \in Exec
  BY DEF Calls
<1>2. /\ [e[j][n] EXCEPT !.step = step] \in Exec
      /\ [e[j][n] EXCEPT !.abort = abort] \in Exec
      /\ [e[j][n] EXCEPT !.failure = failure] \in Exec
  BY <1>1 DEF Exec
<1>3. /\ [e EXCEPT ![j][n] = [e[j][n] EXCEPT !.step = step]] \in Calls
      /\ [e EXCEPT ![j][n] = [e[j][n] EXCEPT !.abort = abort]] \in Calls
      /\ [e EXCEPT ![j][n] = [e[j][n] EXCEPT !.failure = failure]] \in Calls
  BY <1>2, WriteCall
<1> QED
  BY <1>3

LEMMA SettleType ==
    ASSUME CallTypeOK, NEW j \in Jobs, NEW n \in AttemptNo, Settle(j, n)
    PROVE  CallTypeOK'
<1>1. exec' \in [Jobs -> [AttemptNo -> Exec]]
  BY NoExecType, WriteCall DEF CallTypeOK, Calls, Settle
<1>2. active' \in [Workers -> [Jobs -> 0..AttemptLimit]]
  <2>1. 0 \in 0..AttemptLimit
    BY ConstantsAssumption
  <2>2. PICK v \in Workers \cup {NoWorker} :
           active' = active \/ active' = [active EXCEPT ![v][j] = 0]
    BY DEF CallTypeOK, Exec, Settle
  <2>3. CASE v \in Workers
    <3>1. [active[v] EXCEPT ![j] = 0] \in [Jobs -> 0..AttemptLimit]
      BY <2>1, <2>3 DEF CallTypeOK
    <3> QED
      BY <2>2, <3>1 DEF CallTypeOK
  <2>4. CASE v = NoWorker
    BY <2>2, <2>4, ConstantsAssumption DEF CallTypeOK
  <2> QED
    BY <2>3, <2>4
<1> QED
  BY <1>1, <1>2 DEF CallTypeOK

LEMMA GotoType ==
    ASSUME CallTypeOK, NEW j \in Jobs, NEW n \in AttemptNo,
           NEW step \in ExecStep, Goto(j, n, step)
    PROVE  CallTypeOK'
<1>1. "none" \in AbortReason /\ "none" \in Failure \cup {"none"}
  BY DEF AbortReason
<1> QED
  BY <1>1, WriteField DEF CallTypeOK, Calls, Goto

LEMMA HandleFailureType ==
    ASSUME CallTypeOK, NEW j \in Jobs, NEW n \in AttemptNo,
           NEW error \in Failure, HandleFailure(j, n, error)
    PROVE  CallTypeOK'
<1> DEFINE reason == IF exec[j][n].abort # "none" THEN exec[j][n].abort ELSE error
           step == IF reason = "CANCELLED_BY_USER" THEN "cancel" ELSE "fail"
           halfway == [exec EXCEPT ![j][n].step = step]
<1>1. CASE Settle(j, n)
  BY <1>1, SettleType
<1>2. CASE /\ exec' = [exec EXCEPT ![j][n].step = step, ![j][n].failure = reason]
           /\ UNCHANGED active
  <2>1. exec[j][n].abort \in AbortReason
    BY DEF CallTypeOK, Exec
  <2>2. /\ reason \in Failure \cup {"none"}
        /\ step \in ExecStep
        /\ "none" \in AbortReason
    BY <2>1 DEF AbortReason, Failure, ExecStep
  <2>3. exec' = [halfway EXCEPT ![j][n].failure = reason]
    BY <1>2
  <2> HIDE DEF reason, step
  <2>4. halfway \in Calls
    BY <2>2, WriteField DEF CallTypeOK, Calls
  <2> HIDE DEF halfway
  <2>5. exec' \in Calls
    BY <2>2, <2>3, <2>4, WriteField
  <2> QED
    BY <1>2, <2>5 DEF CallTypeOK, Calls
<1> QED
  BY <1>1, <1>2 DEF HandleFailure

\* The process of w dies.
LEMMA ProcessDiesType ==
    ASSUME ProcessTypeOK, NEW w \in Workers \cup {NoWorker}, ProcessDies(w)
    PROVE  ProcessTypeOK'
<1>1. exec' \in [Jobs -> [AttemptNo -> Exec]]
  <2>1. \A j \in Jobs : \A n \in AttemptNo :
           (IF exec[j][n].worker = w THEN NoExec ELSE exec[j][n]) \in Exec
    BY NoExecType DEF ProcessTypeOK
  <2> QED
    BY <2>1 DEF ProcessDies
<1>2. active' \in [Workers -> [Jobs -> 0..AttemptLimit]]
  <2>1. [j \in Jobs |-> 0] \in [Jobs -> 0..AttemptLimit]
    BY ConstantsAssumption
  <2> QED
    BY <2>1 DEF ProcessTypeOK, ProcessDies
<1> QED
  BY <1>1, <1>2 DEF ProcessTypeOK, ProcessDies, PollStep

LEMMA CallKeepsProcessType ==
    ASSUME ProcessTypeOK, NEW j \in Jobs, NEW n \in AttemptNo,
           \/ ProcessJob(j, n) \/ HandlerEnds(j, n) \/ RejectJob(j, n)
           \/ UpdateProgress(j, n) \/ Heartbeat(j, n) \/ HeartbeatFails(j, n)
           \/ DatabaseError(j, n)
    PROVE  ProcessTypeOK'
<1> USE DEF Failure
<1>1. CallTypeOK
  BY DEF ProcessTypeOK, CallTypeOK
<1>2. CASE /\ CallTypeOK'
           /\ UNCHANGED <<mode, poll, claimTx>>
  BY <1>2 DEF ProcessTypeOK, CallTypeOK
<1>3. CASE Start(j, n)
  <2>1. Goto(j, n, "precheck") \/ HandleFailure(j, n, "LEASE_LOST")
    BY <1>3 DEF Start
  <2>2. CallTypeOK'
    BY <1>1, <2>1, GotoType, HandleFailureType DEF ExecStep
  <2> QED
    BY <1>2, <1>3, <2>2 DEF Start
<1>4. CASE CheckBeforeExecute(j, n)
  <2>1. CASE HandleFailure(j, n, "LEASE_LOST")
    BY <1>1, <1>2, <1>4, <2>1, HandleFailureType DEF CheckBeforeExecute
  <2>2. CASE CanRead(j, n)
    <3> DEFINE abort == IF /\ exec[j][n].abort = "none"
                           /\ job[j].status = "CANCEL_REQUESTED"
                          THEN "CANCELLED_BY_USER" ELSE exec[j][n].abort
    <3>1. /\ exec' = [exec EXCEPT ![j][n].step = "execute", ![j][n].abort = abort]
          /\ UNCHANGED active
      BY <1>1, <1>4, <2>2 DEF CheckBeforeExecute, CallTypeOK
    <3>2. /\ abort \in AbortReason
          /\ "execute" \in ExecStep
          /\ "none" \in Failure \cup {"none"}
      BY <1>1 DEF CallTypeOK, Exec, AbortReason, ExecStep
    <3> DEFINE halfway == [exec EXCEPT ![j][n].step = "execute"]
    <3>3. exec' = [halfway EXCEPT ![j][n].abort = abort]
      BY <3>1
    <3> HIDE DEF abort
    <3>4. halfway \in Calls
      BY <1>1, <3>2, WriteField DEF CallTypeOK, Calls
    <3> HIDE DEF halfway
    <3>5. [halfway EXCEPT ![j][n].abort = abort] \in Calls
      BY <3>2, <3>4, WriteField
    <3>6. CallTypeOK'
      BY <1>1, <3>1, <3>3, <3>5 DEF CallTypeOK, Calls
    <3> QED
      BY <1>2, <1>4, <3>6 DEF CheckBeforeExecute
  <2> QED
    BY <1>4, <2>1, <2>2 DEF CheckBeforeExecute
<1>5. CASE CheckAfterExecute(j, n)
  <2>1. \/ Goto(j, n, "cancel") \/ Goto(j, n, "complete")
        \/ HandleFailure(j, n, "LEASE_LOST")
    BY <1>5 DEF CheckAfterExecute
  <2>2. CallTypeOK'
    BY <1>1, <2>1, GotoType, HandleFailureType DEF ExecStep
  <2> QED
    BY <1>2, <1>5, <2>2 DEF CheckAfterExecute
<1>6. CASE Complete(j, n)
  <2>1. Settle(j, n) \/ HandleFailure(j, n, "LEASE_LOST")
    BY <1>6 DEF Complete
  <2>2. CallTypeOK'
    BY <1>1, <2>1, SettleType, HandleFailureType
  <2> QED
    BY <1>2, <1>6, <2>2 DEF Complete
<1>7. CASE CancelLeased(j, n) \/ Fail(j, n)
  <2>1. Settle(j, n) /\ UNCHANGED <<mode, poll, claimTx>>
    BY <1>7 DEF CancelLeased, Fail
  <2> QED
    BY <1>1, <1>2, <2>1, SettleType
<1>8. CASE FailLosesLease(j, n)
  <2>1. CASE ProcessDies(exec[j][n].worker)
    <3>1. exec[j][n].worker \in Workers \cup {NoWorker}
      BY DEF ProcessTypeOK, Exec
    <3> QED
      BY <2>1, <3>1, ProcessDiesType
  <2>2. CASE Settle(j, n) /\ UNCHANGED <<mode, poll, claimTx>>
    BY <1>1, <1>2, <2>2, SettleType
  <2> QED
    BY <1>8, <2>1, <2>2 DEF FailLosesLease
<1>9. CASE HandlerEnds(j, n)
  <2>1. Goto(j, n, "recheck") \/ \E error \in Failure : HandleFailure(j, n, error)
    BY <1>9 DEF HandlerEnds, HandlerReturns, HandlerThrows
  <2>2. CallTypeOK'
    BY <1>1, <2>1, GotoType, HandleFailureType DEF ExecStep
  <2> QED
    BY <1>2, <1>9, <2>2 DEF HandlerEnds, HandlerReturns, HandlerThrows
<1>10. CASE RejectJob(j, n) \/ DatabaseError(j, n)
  <2>1. \E error \in Failure : HandleFailure(j, n, error)
    BY <1>10 DEF RejectJob, DatabaseError
  <2>2. CallTypeOK'
    BY <1>1, <2>1, HandleFailureType
  <2> QED
    BY <1>2, <1>10, <2>2 DEF RejectJob, DatabaseError
<1>11. CASE UpdateProgress(j, n)
  <2>1. UNCHANGED <<exec, active>> \/ HandleFailure(j, n, "LEASE_LOST")
    BY <1>11 DEF UpdateProgress
  <2>2. CallTypeOK'
    BY <1>1, <2>1, HandleFailureType DEF CallTypeOK
  <2> QED
    BY <1>2, <1>11, <2>2 DEF UpdateProgress
<1>12. CASE Heartbeat(j, n) \/ HeartbeatFails(j, n)
  <2>1. PICK abort \in AbortReason : exec' = [exec EXCEPT ![j][n].abort = abort]
    BY <1>1, <1>12 DEF Heartbeat, HeartbeatFails, AbortReason, CallTypeOK, Exec
  <2>2. UNCHANGED active
    BY <1>12 DEF Heartbeat, HeartbeatFails
  <2>3. "start" \in ExecStep /\ "none" \in Failure \cup {"none"}
    BY DEF ExecStep
  <2>4. CallTypeOK'
    BY <1>1, <2>1, <2>2, <2>3, WriteField DEF CallTypeOK, Calls
  <2> QED
    BY <1>2, <1>12, <2>4 DEF Heartbeat, HeartbeatFails
<1> QED
  BY <1>3, <1>4, <1>5, <1>6, <1>7, <1>8, <1>9, <1>10, <1>11, <1>12 DEF ProcessJob

LEMMA NextKeepsProcessType ==
    ASSUME TypeOK, ClaimSeesCurrentRow, [Next]_vars
    PROVE  ProcessTypeOK'
<1>1. ProcessTypeOK
  BY DEF TypeOK, ProcessTypeOK
<1>2. CASE UNCHANGED vars \/ AgencyStep \/ ClockStep
  BY <1>1, <1>2 DEF ProcessTypeOK, vars, AgencyStep, ClockStep, Enqueue,
     CancelJob, RetryJob, LeaseAges, BecomesDue
<1>3. CASE CallStep
  BY <1>1, <1>3, CallKeepsProcessType DEF CallStep
<1>4. ASSUME NEW w \in Workers,
             \/ BeginPoll(w) \/ RecoverExpiredCancellationRequests(w)
             \/ RecoverExpiredTerminalLeases(w) \/ EndPoll(w) \/ PollFails(w)
      PROVE  ProcessTypeOK'
  <2>1. /\ UNCHANGED <<exec, active, mode>>
        /\ claimTx' = claimTx \/ claimTx' = [claimTx EXCEPT ![w] = NoJob]
        /\ \E p \in PollStep : poll' = [poll EXCEPT ![w] = p]
    BY <1>4 DEF BeginPoll, RecoverExpiredCancellationRequests,
       RecoverExpiredTerminalLeases, EndPoll, PollFails, PollStep
  <2> QED
    BY <1>1, <2>1 DEF ProcessTypeOK
<1>5. ASSUME NEW w \in Workers, ClaimSelect(w)
      PROVE  ProcessTypeOK'
  <2>1. \E j \in Jobs : claimTx' = [claimTx EXCEPT ![w] = j]
    BY <1>5 DEF ClaimSelect, Candidates
  <2> QED
    BY <1>1, <1>5, <2>1 DEF ClaimSelect, ProcessTypeOK
<1>6. ASSUME NEW w \in Workers, ClaimCommit(w)
      PROVE  ProcessTypeOK'
  <2> DEFINE j == claimTx[w]
             n == job[j].attempts + 1
             call == [step |-> "start", worker |-> w, abort |-> "none",
                      failure |-> "none"]
  <2>1. /\ j \in Jobs
        /\ exec' = [exec EXCEPT ![j][n] = call]
        /\ active' = [active EXCEPT ![w][j] = n]
        /\ claimTx' = [claimTx EXCEPT ![w] = NoJob]
        /\ UNCHANGED <<mode, poll>>
    BY <1>6 DEF ClaimCommit
  <2>2. n \in AttemptNo /\ n \in 0..AttemptLimit
    <3>1. /\ job[j].attempts \in 0..AttemptLimit
          /\ job[j].maxAttempts \in 1..AttemptLimit
          /\ job[j].attempts < job[j].maxAttempts
      BY <2>1 DEF ClaimSeesCurrentRow, TypeOK, JobRow
    <3> QED
      BY <3>1, ConstantsAssumption DEF AttemptNo
  <2>3. call \in Exec
    BY DEF Exec, ExecStep, AbortReason
  <2> HIDE DEF j, n, call
  <2> QED
    BY <1>1, <2>1, <2>2, <2>3 DEF ProcessTypeOK
<1>7. ASSUME NEW w \in Workers, Shutdown(w)
      PROVE  ProcessTypeOK'
  <2>1. "WORKER_SHUTDOWN" \in AbortReason
    BY DEF AbortReason
  <2>2. /\ exec' = [k \in Jobs |-> [n \in AttemptNo |->
                      IF n = active[w][k] /\ exec[k][n].abort = "none"
                        THEN [exec[k][n] EXCEPT !.abort = "WORKER_SHUTDOWN"]
                        ELSE exec[k][n]]]
        /\ mode' = [mode EXCEPT ![w] = "draining"]
        /\ UNCHANGED <<active, poll, claimTx>>
    BY <1>7 DEF Shutdown
  <2>3. \A k \in Jobs : \A n \in AttemptNo :
           [exec[k][n] EXCEPT !.abort = "WORKER_SHUTDOWN"] \in Exec
    <3> TAKE k \in Jobs
    <3> TAKE n \in AttemptNo
    <3>1. exec[k][n] \in Exec
      BY <1>1 DEF ProcessTypeOK
    <3> QED
      BY <2>1, <3>1 DEF Exec
  <2>4. \A k \in Jobs : \A n \in AttemptNo :
           (IF n = active[w][k] /\ exec[k][n].abort = "none"
              THEN [exec[k][n] EXCEPT !.abort = "WORKER_SHUTDOWN"]
              ELSE exec[k][n]) \in Exec
    BY <1>1, <2>3 DEF ProcessTypeOK
  <2>5. exec' \in [Jobs -> [AttemptNo -> Exec]]
    BY <2>2, <2>4
  <2> QED
    BY <1>1, <2>2, <2>5 DEF ProcessTypeOK
<1>8. ASSUME NEW w \in Workers, Stop(w)
      PROVE  ProcessTypeOK'
  BY <1>1, <1>8, ProcessDiesType DEF Stop
<1> QED
  BY <1>2, <1>3, <1>4, <1>5, <1>6, <1>7, <1>8 DEF Next, WorkerStep, PollLoop

-----------------------------------------------------------------------------
(* The inductive invariant.                                                *)

LEMMA NextKeepsDomains ==
    ASSUME TypeOK, [Next]_vars
    PROVE  /\ DOMAIN job' = Jobs /\ job' = [j \in Jobs |-> job'[j]]
           /\ DOMAIN attempt' = Jobs /\ attempt' = [j \in Jobs |-> attempt'[j]]
<1>1. CASE UNCHANGED vars \/ AgencyStep \/ ClockStep
  BY <1>1 DEF TypeOK, vars, AgencyStep, ClockStep, Enqueue, CancelJob, RetryJob,
     LeaseAges, BecomesDue
<1>2. CASE WorkerStep
  BY <1>2 DEF TypeOK, WorkerStep, PollLoop, BeginPoll,
     RecoverExpiredCancellationRequests, RecoverExpiredTerminalLeases,
     ClaimSelect, ClaimCommit, EndPoll, PollFails, Shutdown, Stop, ProcessDies
<1>3. CASE CallStep
  BY <1>3 DEF TypeOK, CallStep, ProcessJob, HandlerEnds, Start,
     CheckBeforeExecute, CheckAfterExecute, Complete, CancelLeased, Fail,
     FailLosesLease, ProcessDies, HandlerReturns, HandlerThrows, RejectJob,
     UpdateProgress, Heartbeat, HeartbeatFails, DatabaseError
<1> QED
  BY <1>1, <1>2, <1>3 DEF Next

\* A row that a claim has picked and not yet written is left alone by all.
LEMMA LockedRowStays ==
    ASSUME TypeOK, RowsOK, ClaimSeesCurrentRow, [Next]_vars, NEW w \in Workers,
           claimTx[w] \in Jobs, claimTx'[w] = claimTx[w]
    PROVE  job'[claimTx[w]] = job[claimTx[w]]
<1> DEFINE k == claimTx[w]
<1>1. k \in Jobs /\ k # NoJob /\ Locked(k)
  BY ConstantsAssumption DEF Locked
<1>2. /\ \/ job[k].status \in Queued /\ job[k].ready /\ job[k].lease = NoLease
         \/ job[k].status \in Held /\ job[k].lease = Lapsed
      /\ \A v \in Workers \ {w} : claimTx[v] # k
  BY <1>1 DEF ClaimSeesCurrentRow, RowsOK, RowOK, RowLease, Queued, Held, Leased
<1>3. claimTx'[w] = k /\ DOMAIN job = Jobs
  BY DEF TypeOK
<1> SUFFICES job'[k] = job[k]
  OBVIOUS
<1> HIDE DEF k
<1>4. CASE UNCHANGED vars
  BY <1>4 DEF vars
<1>5. CASE AgencyStep
  <2>1. PICK j \in Jobs : Enqueue(j) \/ CancelJob(j) \/ RetryJob(j)
    BY <1>5 DEF AgencyStep
  <2>2. j # k
    BY <1>1, <1>2, <2>1
    DEF Enqueue, CancelJob, RetryJob, Queued, Held, Failures
  <2> QED
    BY <1>1, <1>3, <2>1, <2>2 DEF Enqueue, CancelJob, RetryJob
<1>6. CASE ClockStep
  <2>1. PICK j \in Jobs : LeaseAges(j) \/ BecomesDue(j)
    BY <1>6 DEF ClockStep
  <2>2. j # k
    BY <1>1, <1>2, <2>1, ConstantsAssumption
    DEF LeaseAges, BecomesDue, Queued, Held, NoLease, Lapsed
  <2> QED
    BY <1>1, <1>3, <2>1, <2>2 DEF LeaseAges, BecomesDue
<1>7. CASE WorkerStep
  <2>1. ASSUME NEW v \in Workers,
               \/ BeginPoll(v) \/ ClaimSelect(v) \/ EndPoll(v) \/ PollFails(v)
               \/ Shutdown(v) \/ Stop(v)
        PROVE  UNCHANGED job
    BY <2>1 DEF BeginPoll, ClaimSelect, EndPoll, PollFails, Shutdown, Stop,
       ProcessDies
  <2>2. ASSUME NEW v \in Workers,
               \/ RecoverExpiredCancellationRequests(v)
               \/ RecoverExpiredTerminalLeases(v)
        PROVE  job'[k] = job[k]
    <3>1. CASE RecoverExpiredCancellationRequests(v)
      <4>1. PICK S \in SUBSET {j \in Jobs : ~Locked(j)} :
               job' = [j \in Jobs |-> IF j \in S THEN Released(job[j], "CANCELLED")
                                                 ELSE job[j]]
        BY <3>1 DEF RecoverExpiredCancellationRequests, Batch
      <4> QED
        BY <1>1, <4>1
    <3>2. CASE RecoverExpiredTerminalLeases(v)
      <4>1. PICK S \in SUBSET {j \in Jobs : ~Locked(j)} :
               job' = [j \in Jobs |-> IF j \in S THEN Released(job[j], "DEAD_LETTER")
                                                 ELSE job[j]]
        BY <3>2 DEF RecoverExpiredTerminalLeases, Batch
      <4> QED
        BY <1>1, <4>1
    <3> QED
      BY <2>2, <3>1, <3>2
  <2>3. ASSUME NEW v \in Workers, ClaimCommit(v)
        PROVE  job'[k] = job[k]
    <3>1. v # w
      BY <1>1, <1>3, <2>3 DEF ClaimCommit, TypeOK
    <3> QED
      BY <1>1, <1>2, <1>3, <2>3, <3>1 DEF ClaimCommit
  <2> QED
    BY <1>7, <2>1, <2>2, <2>3 DEF WorkerStep, PollLoop
<1>8. CASE CallStep
  <2>1. PICK j \in Jobs, n \in AttemptNo :
           \/ ProcessJob(j, n) \/ HandlerEnds(j, n) \/ RejectJob(j, n)
           \/ UpdateProgress(j, n) \/ Heartbeat(j, n) \/ HeartbeatFails(j, n)
           \/ DatabaseError(j, n)
    BY <1>8 DEF CallStep
  <2>2. CASE \/ CheckBeforeExecute(j, n) \/ CheckAfterExecute(j, n)
             \/ FailLosesLease(j, n) \/ HandlerEnds(j, n) \/ RejectJob(j, n)
             \/ HeartbeatFails(j, n) \/ DatabaseError(j, n)
    BY <2>2 DEF CheckBeforeExecute, CheckAfterExecute, FailLosesLease,
       HandlerEnds, HandlerReturns, HandlerThrows, RejectJob, HeartbeatFails,
       DatabaseError, ProcessDies
  <2>3. CASE Start(j, n) \/ UpdateProgress(j, n) \/ Complete(j, n)
    <3>1. j # k
      BY <1>1, <2>3 DEF Start, UpdateProgress, Complete
    <3> QED
      BY <1>1, <1>3, <2>3, <3>1 DEF Start, UpdateProgress, Complete
  <2>4. CASE CancelLeased(j, n) \/ Fail(j, n) \/ Heartbeat(j, n)
    <3>1. j # k
      BY <1>1, <2>4 DEF CancelLeased, Fail, Heartbeat
    <3> QED
      BY <1>1, <1>3, <2>4, <3>1 DEF CancelLeased, Fail, Heartbeat
  <2> QED
    BY <2>1, <2>2, <2>3, <2>4 DEF ProcessJob
<1> QED
  BY <1>4, <1>5, <1>6, <1>7, <1>8 DEF Next

\* Claims begin one at a time and on rows nobody else has picked; they end at
\* once with the process.
LEMMA ClaimTxStep ==
    ASSUME TypeOK, [Next]_vars
    PROVE  \/ \A w \in Workers : claimTx'[w] \in {claimTx[w], NoJob}
           \/ \E w \in Workers : ClaimSelect(w)
<1>1. CASE UNCHANGED vars \/ AgencyStep \/ ClockStep
  BY <1>1 DEF vars, AgencyStep, ClockStep, Enqueue, CancelJob, RetryJob,
     LeaseAges, BecomesDue
<1>2. CASE WorkerStep
  BY <1>2 DEF TypeOK, WorkerStep, PollLoop, BeginPoll,
     RecoverExpiredCancellationRequests, RecoverExpiredTerminalLeases,
     ClaimCommit, EndPoll, PollFails, Shutdown, Stop, ProcessDies
<1>3. CASE CallStep
  BY <1>3 DEF TypeOK, CallStep, ProcessJob, HandlerEnds, Start,
     CheckBeforeExecute, CheckAfterExecute, Complete, CancelLeased, Fail,
     FailLosesLease, ProcessDies, HandlerReturns, HandlerThrows, RejectJob,
     UpdateProgress, Heartbeat, HeartbeatFails, DatabaseError
<1> QED
  BY <1>1, <1>2, <1>3 DEF Next

\* What the claim of w relies on.
Sound(w) ==
    claimTx[w] \in Jobs =>
        LET row == job[claimTx[w]]
        IN  /\ \/ row.status \in Queued /\ row.ready
               \/ row.status \in Held /\ row.lease = Lapsed
            /\ row.attempts < row.maxAttempts

LEMMA NextKeepsClaims ==
    ASSUME TypeOK, RowsOK, ClaimSeesCurrentRow, [Next]_vars
    PROVE  ClaimSeesCurrentRow'
<1>1. ASSUME \A w \in Workers : claimTx'[w] \in {claimTx[w], NoJob}
      PROVE  ClaimSeesCurrentRow'
  <2>1. ASSUME NEW w \in Workers, claimTx'[w] \in Jobs
        PROVE  claimTx'[w] = claimTx[w] /\ job'[claimTx[w]] = job[claimTx[w]]
    <3>1. claimTx'[w] = claimTx[w]
      BY <1>1, <2>1, ConstantsAssumption
    <3> QED
      BY <2>1, <3>1, LockedRowStays
  <2>2. \A w \in Workers : claimTx'[w] \in Jobs => Sound(w)'
    BY <2>1 DEF ClaimSeesCurrentRow, Sound
  <2>3. \A w, v \in Workers :
           claimTx'[w] \in Jobs /\ v # w => claimTx'[v] # claimTx'[w]
    BY <1>1, <2>1, ConstantsAssumption DEF ClaimSeesCurrentRow
  <2> QED
    BY <2>2, <2>3 DEF ClaimSeesCurrentRow, Sound
<1>2. ASSUME NEW w \in Workers, ClaimSelect(w)
      PROVE  ClaimSeesCurrentRow'
  <2>1. PICK j \in Candidates : claimTx' = [claimTx EXCEPT ![w] = j]
    BY <1>2 DEF ClaimSelect
  <2>2. /\ job' = job
        /\ j \in Jobs /\ ~Locked(j)
        /\ \/ job[j].status \in Queued /\ job[j].ready
           \/ job[j].status \in Held /\ job[j].lease = Lapsed
        /\ job[j].attempts < job[j].maxAttempts
    BY <1>2, <2>1 DEF ClaimSelect, Candidates, Claimable, Expired
  <2>3. claimTx'[w] = j /\ \A v \in Workers \ {w} : claimTx'[v] = claimTx[v]
    BY <2>1 DEF TypeOK
  <2>4. \A v \in Workers : claimTx[v] # j
    BY <2>2 DEF Locked
  <2>5. \A v \in Workers : claimTx'[v] \in Jobs => Sound(v)'
    BY <2>2, <2>3 DEF ClaimSeesCurrentRow, Sound
  <2>6. \A u, v \in Workers :
           claimTx'[u] \in Jobs /\ v # u => claimTx'[v] # claimTx'[u]
    BY <2>3, <2>4 DEF ClaimSeesCurrentRow
  <2> QED
    BY <2>5, <2>6 DEF ClaimSeesCurrentRow, Sound
<1> QED
  BY <1>1, <1>2, ClaimTxStep

IInv == TypeOK /\ RowsOK /\ ClaimSeesCurrentRow

LEMMA InitRows ==
    ASSUME Init
    PROVE  IInv
<1> USE ConstantsAssumption
<1>1. TypeOK
  <2>1. \A j \in Jobs : job[j] \in JobRow
    BY DEF Init, JobRow, Status, LeaseTime, NoLease
  <2>2. job \in [Jobs -> JobRow]
    BY <2>1 DEF Init
  <2>3. attempt \in [Jobs -> [AttemptNo -> Outcome]]
    BY DEF Init, Outcome
  <2>4. exec \in [Jobs -> [AttemptNo -> Exec]]
    BY NoExecType DEF Init
  <2>5. /\ active \in [Workers -> [Jobs -> 0..AttemptLimit]]
        /\ mode \in [Workers -> {"up", "draining"}]
    BY DEF Init
  <2>6. poll \in [Workers -> PollStep] /\ claimTx \in [Workers -> Jobs \cup {NoJob}]
    BY DEF Init, PollStep
  <2> QED
    BY <2>2, <2>3, <2>4, <2>5, <2>6 DEF TypeOK
<1>2. RowsOK
  <2> SUFFICES ASSUME NEW j \in Jobs
               PROVE  RowOK(job[j], attempt[j])
    BY DEF RowsOK
  <2>1. /\ job[j].status = "ABSENT" /\ job[j].token = 0
        /\ job[j].owner = NoWorker /\ job[j].lease = NoLease
        /\ job[j].attempts = 0 /\ job[j].progress = 0
        /\ job[j].maxAttempts = MaxAttempts
        /\ \A n \in AttemptNo : attempt[j][n] = "ABSENT"
    BY DEF Init
  <2>2. job[j] \in JobRow /\ attempt[j] \in Ledger
    BY <1>1 DEF TypeOK, Ledger
  <2> QED
    BY <2>1, <2>2
    DEF RowOK, RowLease, RowBudget, RowNew, RowFresh, RowLedger, RowHistory,
        Queued, Held, Leased, AttemptNo
<1>3. ClaimSeesCurrentRow
  BY DEF Init, ClaimSeesCurrentRow
<1> QED
  BY <1>1, <1>2, <1>3 DEF IInv

LEMMA NextRows ==
    ASSUME IInv, [Next]_vars
    PROVE  IInv'
<1>1. TypeOK /\ RowsOK /\ ClaimSeesCurrentRow
  BY DEF IInv
<1>2. RowSteps
  BY <1>1, NextIsRowStep
<1>3. RowsOK'
  BY <1>1, <1>2, RowStepKeepsRow DEF RowsOK, RowSteps
<1>4. TypeOK'
  <2>1. \A j \in Jobs : job'[j] \in JobRow /\ attempt'[j] \in Ledger
    BY <1>3 DEF RowsOK, RowOK
  <2>2. job' \in [Jobs -> JobRow] /\ attempt' \in [Jobs -> [AttemptNo -> Outcome]]
    BY <1>1, <2>1, NextKeepsDomains DEF Ledger
  <2>3. ProcessTypeOK'
    BY <1>1, NextKeepsProcessType
  <2> QED
    BY <2>2, <2>3 DEF TypeOK, ProcessTypeOK
<1>5. ClaimSeesCurrentRow'
  BY <1>1, NextKeepsClaims
<1> QED
  BY <1>3, <1>4, <1>5 DEF IInv

\* The invariant behind the theorems below: types, consistent rows, and claims
\* that rest on the current row.
THEOREM Invariant == Spec => []IInv
<1>1. Init => IInv
  BY InitRows
<1>2. IInv /\ [Next]_vars => IInv'
  BY NextRows
<1> QED
  BY <1>1, <1>2, PTL DEF Spec

\* Every state of the queue, its ledger and its workers is well typed: in
\* particular no claim counts beyond the attempts the table's CHECK permits.
THEOREM TypeCorrect == Spec => []TypeOK
<1>1. IInv => TypeOK
  BY DEF IInv
<1> QED
  BY <1>1, Invariant, PTL

\* Whatever the interleaving of workers, cancellations, crashes and recovery,
\* a row is wholly leased or wholly released, its attempts are accounted for
\* and its history agrees with its status.
THEOREM QueueConsistent == Spec => []LeaseLedger
<1>1. IInv => LeaseLedger
  <2> SUFFICES ASSUME IInv
               PROVE  LeaseLedger
    OBVIOUS
  <2>1. \A j \in Jobs : RowOK(job[j], attempt[j])
    BY DEF IInv, RowsOK
  <2>2. LeaseMatchesStatus
    BY <2>1 DEF RowOK, RowLease, LeaseMatchesStatus
  <2>3. AttemptLedger
    BY <2>1 DEF RowOK, RowLedger, AttemptLedger
  <2>4. HistoryAgrees
    BY <2>1 DEF RowOK, RowHistory, HistoryAgrees, LastOutcome
  <2> QED
    BY <2>2, <2>3, <2>4 DEF LeaseLedger
<1> QED
  BY <1>1, Invariant, PTL

\* However failures, takeovers and retries by the agency interleave, no job is
\* queued without an attempt left and none starts from left-over progress.
THEOREM AttemptsStartAfresh == Spec => []QueuedAfresh
<1>1. IInv => QueuedAfresh
  <2> SUFFICES ASSUME IInv
               PROVE  QueuedAfresh
    OBVIOUS
  <2>1. \A j \in Jobs : RowOK(job[j], attempt[j])
    BY DEF IInv, RowsOK
  <2>2. RetryBudget
    BY <2>1 DEF RowOK, RowBudget, RetryBudget
  <2>3. FreshProgress
    BY <2>1 DEF RowOK, RowFresh, FreshProgress
  <2> QED
    BY <2>2, <2>3 DEF QueuedAfresh
<1> QED
  BY <1>1, Invariant, PTL

\* A claim, which decides in one snapshot and writes at its commit, never
\* writes over a row that changed in between, and no row is claimed twice.
THEOREM ClaimsAreCurrent == Spec => []ClaimSeesCurrentRow
<1>1. IInv => ClaimSeesCurrentRow
  BY DEF IInv
<1> QED
  BY <1>1, Invariant, PTL

\* The queue implements JobContract.
THEOREM QueueImplementsContract == Spec => ImplementsContract
<1>1. Init => Contract!ContractInit
  <2> SUFFICES ASSUME Init
               PROVE  [j \in Jobs |-> ContractOf(job[j])]
                         = [j \in Jobs |-> [phase |-> "absent", used |-> 0,
                                            allowed |-> MaxAttempts]]
    BY DEF Contract!ContractInit
  <2>1. PhaseOf("ABSENT") = "absent"
    BY DEF PhaseOf, Queued, Held, Failures
  <2>2. ASSUME NEW j \in Jobs
        PROVE  ContractOf(job[j]) = [phase |-> "absent", used |-> 0,
                                     allowed |-> MaxAttempts]
    BY <2>1 DEF Init, ContractOf
  <2> QED
    BY <2>2
<1>2. IInv /\ IInv' /\ [Next]_vars =>
         [Contract!ContractNext]_([j \in Jobs |-> ContractOf(job[j])])
  <2> SUFFICES ASSUME IInv, IInv', [Next]_vars
               PROVE  Contract!ContractNext
    OBVIOUS
  <2>1. \A j \in Jobs : ContractOf(job'[j]) \in Contract!ContractRow
    <3> TAKE j \in Jobs
    <3>1. job'[j] \in JobRow
      BY DEF IInv, TypeOK
    <3>2. PhaseOf(job'[j].status) \in Contract!Phase
      <4>1. /\ job'[j].status \in Status
            /\ Status = {"ABSENT"} \cup Queued \cup Held \cup Failures
                        \cup {"CANCEL_REQUESTED", "COMPLETED", "CANCELLED"}
        BY <3>1 DEF JobRow, Status, Terminal, Leased
      <4> DEFINE status == job'[j].status
      <4>2. \/ status = "ABSENT" \/ status \in Queued \/ status \in Held
            \/ status \in Failures \/ status = "CANCEL_REQUESTED"
            \/ status = "COMPLETED" \/ status = "CANCELLED"
        BY <4>1
      <4> HIDE DEF status
      <4>3. PhaseOf(status) \in Contract!Phase
        BY <4>2 DEF PhaseOf, Contract!Phase
      <4> QED
        BY <4>3 DEF status
    <3> QED
      BY <3>1, <3>2 DEF ContractOf, Contract!ContractRow, JobRow
  <2>2. RowSteps
    BY NextIsRowStep DEF IInv
  <2>3. \A j \in Jobs :
           \/ ContractOf(job'[j]) = ContractOf(job[j])
           \/ Contract!Step(ContractOf(job[j]), ContractOf(job'[j]))
    BY <2>2, RowStepKeepsContract DEF IInv, RowsOK, RowSteps
  <2> QED
    BY <2>1, <2>3 DEF Contract!ContractNext
<1> QED
  BY <1>1, <1>2, Invariant, PTL DEF Spec, ImplementsContract, Contract!ContractSpec
-----------------------------------------------------------------------------
(* Fencing.                                                                *)

\* A row that keeps its token, its progress and at most its lease is fenced.
LEMMA UntouchedIsFenced ==
    ASSUME NEW j \in Jobs, job[j] \in JobRow, job'[j] \in JobRow,
           job'[j].token = job[j].token, job'[j].progress = job[j].progress,
           ~(job'[j].lease > job[j].lease)
    PROVE  Fenced(j)
BY DEF Fenced

LEMMA SameRowIsFenced ==
    ASSUME NEW j \in Jobs, job[j] \in JobRow, job'[j] = job[j]
    PROVE  Fenced(j)
<1>1. job[j].lease \in Int
  BY ConstantsAssumption DEF JobRow, LeaseTime, NoLease
<1> QED
  BY <1>1 DEF Fenced

\* A released row is fenced if its lease had lapsed or its holder released it.
LEMMA ReleasedIsFenced ==
    ASSUME NEW j \in Jobs, job'[j].token # job[j].token,
           \/ Expired(j)
           \/ \E n \in AttemptNo :
                 /\ Holds(j, n)
                 /\ exec[j][n].step \in {"complete", "cancel", "fail"}
    PROVE  Fenced(j)
BY DEF Fenced, Holds

LEMMA AgencyAndClockAreFenced ==
    ASSUME IInv, IInv', AgencyStep \/ ClockStep, NEW j \in Jobs, job[j].token # 0
    PROVE  Fenced(j)
<1>1. /\ job \in [Jobs -> JobRow] /\ job[j] \in JobRow /\ job'[j] \in JobRow
      /\ job[j].status \in Leased
      /\ job[j].lease \in Int
  BY ConstantsAssumption DEF IInv, TypeOK, RowsOK, RowOK, RowLease, JobRow,
     LeaseTime, NoLease
<1>2. PICK k \in Jobs : \/ Enqueue(k) \/ CancelJob(k) \/ RetryJob(k)
                       \/ LeaseAges(k) \/ BecomesDue(k)
  BY DEF AgencyStep, ClockStep
<1>3. CASE k # j
  <2>1. job'[j] = job[j]
    BY <1>1, <1>2, <1>3
    DEF Enqueue, CancelJob, RetryJob, LeaseAges, BecomesDue
  <2> QED
    BY <1>1, <2>1, SameRowIsFenced
<1>4. CASE k = j
  <2>1. ~Enqueue(j) /\ ~RetryJob(j)
    BY <1>1 DEF Enqueue, RetryJob, Leased, Held, Failures
  <2>2. CASE CancelJob(j)
    <3>1. /\ job'[j].token = job[j].token /\ job'[j].progress = job[j].progress
          /\ job'[j].lease = job[j].lease
      BY <1>1, <2>2 DEF CancelJob, JobRow
    <3> QED
      BY <1>1, <3>1, UntouchedIsFenced
  <2>3. CASE LeaseAges(j)
    <3>1. /\ job'[j].token = job[j].token /\ job'[j].progress = job[j].progress
          /\ job'[j].lease = job[j].lease - 1
      BY <1>1, <2>3 DEF LeaseAges, JobRow
    <3> QED
      BY <1>1, <3>1, UntouchedIsFenced
  <2>4. CASE BecomesDue(j)
    <3>1. /\ job'[j].token = job[j].token /\ job'[j].progress = job[j].progress
          /\ job'[j].lease = job[j].lease
      BY <1>1, <2>4 DEF BecomesDue, JobRow
    <3> QED
      BY <1>1, <3>1, UntouchedIsFenced
  <2> QED
    BY <1>2, <1>4, <2>1, <2>2, <2>3, <2>4
<1> QED
  BY <1>3, <1>4

LEMMA WorkersAreFenced ==
    ASSUME IInv, IInv', WorkerStep, NEW j \in Jobs, job[j].token # 0
    PROVE  Fenced(j)
<1>1. /\ job \in [Jobs -> JobRow] /\ job[j] \in JobRow
      /\ job[j].status \in Leased /\ job[j].token = job[j].attempts
      /\ job[j].attempts \in Int
  BY ConstantsAssumption DEF IInv, TypeOK, RowsOK, RowOK, RowLease, JobRow
<1>2. CASE job'[j] = job[j]
  BY <1>1, <1>2, SameRowIsFenced
<1>3. PICK w \in Workers :
         PollLoop(w) \/ PollFails(w) \/ Shutdown(w) \/ Stop(w)
  BY DEF WorkerStep
<1>4. CASE \/ BeginPoll(w) \/ ClaimSelect(w) \/ EndPoll(w) \/ PollFails(w)
           \/ Shutdown(w) \/ Stop(w)
  BY <1>2, <1>4 DEF BeginPoll, ClaimSelect, EndPoll, PollFails, Shutdown, Stop,
     ProcessDies
<1>5. CASE RecoverExpiredCancellationRequests(w)
  <2>1. PICK S \in SUBSET Jobs :
           /\ \A k \in S : Expired(k)
           /\ job' = [k \in Jobs |-> IF k \in S THEN Released(job[k], "CANCELLED")
                                              ELSE job[k]]
    BY <1>5 DEF RecoverExpiredCancellationRequests, Batch
  <2>2. CASE j \in S
    <3>1. job'[j].token = 0
      BY <1>1, <2>1, <2>2 DEF Released, JobRow
    <3> QED
      BY <2>1, <2>2, <3>1, ReleasedIsFenced
  <2> QED
    BY <1>2, <2>1, <2>2
<1>6. CASE RecoverExpiredTerminalLeases(w)
  <2>1. PICK S \in SUBSET Jobs :
           /\ \A k \in S : Expired(k)
           /\ job' = [k \in Jobs |-> IF k \in S THEN Released(job[k], "DEAD_LETTER")
                                              ELSE job[k]]
    BY <1>6 DEF RecoverExpiredTerminalLeases, TerminallyExpired, Batch
  <2>2. CASE j \in S
    <3>1. job'[j].token = 0
      BY <1>1, <2>1, <2>2 DEF Released, JobRow
    <3> QED
      BY <2>1, <2>2, <3>1, ReleasedIsFenced
  <2> QED
    BY <1>2, <2>1, <2>2
<1>7. CASE ClaimCommit(w)
  <2>1. claimTx[w] \in Jobs /\ job' = [job EXCEPT ![claimTx[w]] = ClaimedRow(@, w)]
    BY <1>7 DEF ClaimCommit
  <2>2. CASE claimTx[w] = j
    <3>1. job[j].status \notin Queued
      BY <1>1 DEF Queued, Leased, Held
    <3>2. Expired(j)
      BY <2>1, <2>2, <3>1 DEF IInv, ClaimSeesCurrentRow, Expired
    <3>3. job'[j].token = job[j].attempts + 1
      BY <1>1, <2>1, <2>2 DEF ClaimedRow, JobRow
    <3>4. job'[j].token # job[j].token
      BY <1>1, <3>3
    <3> QED
      BY <3>2, <3>4, ReleasedIsFenced
  <2> QED
    BY <1>1, <1>2, <2>1, <2>2
<1> QED
  BY <1>3, <1>4, <1>5, <1>6, <1>7 DEF PollLoop

LEMMA CallsAreFenced ==
    ASSUME IInv, IInv', CallStep, NEW j \in Jobs, job[j].token # 0
    PROVE  Fenced(j)
<1>1. /\ job \in [Jobs -> JobRow] /\ job[j] \in JobRow /\ job'[j] \in JobRow
      /\ job[j].lease \in Int /\ DOMAIN job = Jobs
  BY ConstantsAssumption DEF IInv, TypeOK, JobRow, LeaseTime, NoLease
<1>2. CASE job'[j] = job[j]
  BY <1>1, <1>2, SameRowIsFenced
<1>3. PICK k \in Jobs, n \in AttemptNo :
         \/ ProcessJob(k, n) \/ HandlerEnds(k, n) \/ RejectJob(k, n)
         \/ UpdateProgress(k, n) \/ Heartbeat(k, n) \/ HeartbeatFails(k, n)
         \/ DatabaseError(k, n)
  BY DEF CallStep
<1>4. CASE \/ CheckBeforeExecute(k, n) \/ CheckAfterExecute(k, n)
           \/ FailLosesLease(k, n) \/ HandlerEnds(k, n) \/ RejectJob(k, n)
           \/ HeartbeatFails(k, n) \/ DatabaseError(k, n)
  BY <1>2, <1>4 DEF CheckBeforeExecute, CheckAfterExecute, FailLosesLease,
     HandlerEnds, HandlerReturns, HandlerThrows, RejectJob, HeartbeatFails,
     DatabaseError, ProcessDies
<1>5. CASE Start(k, n)
  <2>1. CASE k = j /\ job' = [job EXCEPT ![k].status = "PROCESSING"]
    <3>1. /\ job'[j].token = job[j].token /\ job'[j].progress = job[j].progress
          /\ job'[j].lease = job[j].lease
      BY <1>1, <2>1 DEF JobRow
    <3> QED
      BY <1>1, <3>1, UntouchedIsFenced
  <2> QED
    BY <1>1, <1>2, <1>5, <2>1 DEF Start
<1>6. CASE UpdateProgress(k, n)
  <2>1. CASE k # j \/ UNCHANGED job
    BY <1>1, <1>2, <1>6, <2>1 DEF UpdateProgress
  <2>2. CASE k = j /\ ~UNCHANGED job
    <3>1. /\ CanRead(j, n) /\ exec[j][n].step = "execute"
          /\ \E current \in 1..ProgressTotal :
                job' = [job EXCEPT ![j].progress = current]
      BY <1>6, <2>2 DEF UpdateProgress
    <3>2. job'[j].token = job[j].token /\ job'[j].lease = job[j].lease
      BY <1>1, <3>1 DEF JobRow
    <3> QED
      BY <1>1, <3>1, <3>2 DEF Fenced, CanRead, Holds
  <2> QED
    BY <2>1, <2>2
<1>7. CASE Heartbeat(k, n)
  <2>1. CASE k # j \/ UNCHANGED job
    BY <1>1, <1>2, <1>7, <2>1 DEF Heartbeat
  <2>2. CASE k = j /\ ~UNCHANGED job
    <3>1. /\ CanRead(j, n)
          /\ exec[j][n].step \in {"precheck", "execute", "recheck", "complete"}
          /\ job' = [job EXCEPT ![j].lease = LeaseTicks]
      BY <1>7, <2>2 DEF Heartbeat, Beating
    <3>2. job'[j].token = job[j].token /\ job'[j].progress = job[j].progress
      BY <1>1, <3>1 DEF JobRow
    <3> QED
      BY <1>1, <3>1, <3>2 DEF Fenced, CanRead, Holds
  <2> QED
    BY <2>1, <2>2
<1>8. CASE Complete(k, n) \/ CancelLeased(k, n) \/ Fail(k, n)
  <2>1. CASE k # j \/ UNCHANGED job
    BY <1>1, <1>2, <1>8, <2>1 DEF Complete, CancelLeased, Fail
  <2>2. CASE k = j /\ ~UNCHANGED job
    <3>1. /\ Holds(j, n)
          /\ exec[j][n].step \in {"complete", "cancel", "fail"}
          /\ \/ job'[j] = CompletedRow(job[j])
             \/ job'[j] = Released(job[j], "CANCELLED")
             \/ \E target \in Failures \cup {"RETRY_DELAY"} :
                   job'[j] = FailedRow(job[j], target)
      <4>1. CASE Complete(j, n)
        BY <1>1, <2>2, <4>1 DEF Complete
      <4>2. CASE CancelLeased(j, n)
        BY <1>1, <2>2, <4>2 DEF CancelLeased
      <4>3. CASE Fail(j, n)
        <5> DEFINE target == RetryTarget(exec[j][n].failure, n, job[j].maxAttempts)
        <5>1. /\ Holds(j, n) /\ exec[j][n].step = "fail"
              /\ job'[j] = FailedRow(job[j], target)
          BY <1>1, <4>3 DEF Fail, FailGuard
        <5>2. target \in Failures \cup {"RETRY_DELAY"}
          BY DEF RetryTarget, Failures
        <5> HIDE DEF target
        <5> QED
          BY <5>1, <5>2
      <4> QED
        BY <1>8, <2>2, <4>1, <4>2, <4>3
    <3>2. job'[j].token = 0
      BY <1>1, <3>1 DEF CompletedRow, FailedRow, Released, JobRow
    <3> QED
      BY <3>1, <3>2, ReleasedIsFenced
  <2> QED
    BY <2>1, <2>2
<1> QED
  BY <1>3, <1>4, <1>5, <1>6, <1>7, <1>8 DEF ProcessJob

\* Only the call that drew the token on the row renews its lease, writes its
\* progress or, before the lease lapses, ends it.
THEOREM TokensFence == Spec => Fencing
<1>1. IInv /\ IInv' /\ [Next]_vars =>
         [\A j \in Jobs : job[j].token # 0 => Fenced(j)]_vars
  <2> SUFFICES ASSUME IInv, IInv', Next, NEW j \in Jobs, job[j].token # 0
               PROVE  Fenced(j)
    OBVIOUS
  <2> QED
    BY AgencyAndClockAreFenced, WorkersAreFenced, CallsAreFenced DEF Next
<1> QED
  BY <1>1, Invariant, PTL DEF Spec, Fencing

-----------------------------------------------------------------------------
(* One lease of a tenant at a time.  The claim looks for other leases of   *)
(* the tenant in its snapshot and not in the rows that other claims have   *)
(* picked, so that two claims in flight together may both find none.  When *)
(* claims do not overlap, the look is enough.                              *)

LiveLease(r) == r.status \in Leased /\ r.lease >= 0

OneClaimAtATime ==
    \A w, v \in Workers : claimTx[w] \in Jobs /\ claimTx[v] \in Jobs => w = v

\* What a claim in flight found is still so.
ClaimsFindTenantIdle == \A w \in Workers : claimTx[w] \in Jobs => ~TenantBusy(claimTx[w])

Serial == OneLiveJobPerTenant /\ ClaimsFindTenantIdle

\* Only a claim makes a lease live again, and it counts an attempt.
LEMMA RowStepGivesLease ==
    ASSUME NEW r, NEW l, NEW s, NEW m, RowOK(r, l), RowStep(r, l, s, m),
           LiveLease(s), ~LiveLease(r)
    PROVE  s.attempts # r.attempts
<1>0. r \in JobRow /\ LeaseTicks \in Nat
  BY ConstantsAssumption DEF RowOK
<1>1. CASE QuietStep(r, s)
  <2>1. CASE s = r \/ MadeDue(r, s) \/ Progressed(r, s) \/ Aged(r, s)
    BY <1>0, <2>1 DEF MadeDue, Progressed, Aged, LiveLease, JobRow
  <2>2. CASE StopAsked(r, s) \/ Started(r, s)
    BY <1>0, <2>2 DEF StopAsked, Started, LiveLease, JobRow, Leased, Held
  <2>3. CASE Renewed(r, s)
    BY <1>0, <2>3 DEF Renewed, LiveLease, JobRow, LeaseTime, NoLease
  <2>4. CASE Inserted(r, s) \/ Withdrawn(r, s) \/ Revived(r, s)
    BY <1>0, <2>4 DEF Inserted, Withdrawn, Revived, LiveLease, JobRow, Leased, Held
  <2> QED
    BY <1>1, <2>1, <2>2, <2>3, <2>4 DEF QuietStep
<1>2. CASE Claimed(r, l, s, m)
  <2>1. PICK w \in Workers : s = ClaimedRow(r, w)
    BY <1>2 DEF Claimed
  <2>2. s.attempts = r.attempts + 1 /\ r.attempts \in Nat
    BY <1>0, <1>2, <2>1, ClaimedRowFields DEF Claimed, JobRow
  <2> QED
    BY <2>2
<1>3. CASE s.lease = NoLease
  BY <1>3 DEF LiveLease, NoLease
<1>4. \A status \in Status : Released(r, status).lease = NoLease
  BY <1>0, ReleasedRow
<1>5. "CANCELLED" \in Status /\ "DEAD_LETTER" \in Status
  BY DEF Status, Terminal, Failures
<1>6. CASE \/ Ended(r, l, s, m, "CANCELLED", "CANCELLED")
           \/ Ended(r, l, s, m, "DEAD_LETTER", "LEASE_EXPIRED")
  BY <1>3, <1>4, <1>5, <1>6 DEF Ended
<1>7. CASE Completed(r, l, s, m)
  BY <1>0, <1>3, <1>7, CompletedRowFields DEF Completed
<1>8. CASE FailedTo(r, l, s, m)
  BY <1>0, <1>3, <1>8, FailedRowFields DEF FailedTo
<1> QED
  BY <1>1, <1>2, <1>6, <1>7, <1>8 DEF RowStep

LEMMA AttemptsCountClaims ==
    ASSUME TypeOK, [Next]_vars, NEW k \in Jobs, job'[k].attempts # job[k].attempts
    PROVE  \E w \in Workers : ClaimCommit(w) /\ claimTx[w] = k
<1>0. job \in [Jobs -> JobRow]
  BY DEF TypeOK
<1>1. CASE UNCHANGED vars
  BY <1>1 DEF vars
<1>2. CASE AgencyStep
  <2>1. PICK j \in Jobs : Enqueue(j) \/ CancelJob(j) \/ RetryJob(j)
    BY <1>2 DEF AgencyStep
  <2>2. CASE Enqueue(j)
    BY <1>0, <2>2 DEF Enqueue, JobRow
  <2>3. CASE CancelJob(j)
    BY <1>0, <2>3 DEF CancelJob, JobRow
  <2>4. CASE RetryJob(j)
    BY <1>0, <2>4 DEF RetryJob, JobRow
  <2> QED
    BY <2>1, <2>2, <2>3, <2>4
<1>3. CASE ClockStep
  BY <1>0, <1>3 DEF ClockStep, LeaseAges, BecomesDue, JobRow
<1>4. \A status \in Status : Released(job[k], status).attempts = job[k].attempts
  BY <1>0, ReleasedRow
<1>5. "CANCELLED" \in Status /\ "DEAD_LETTER" \in Status /\ job[k] \in JobRow
  BY <1>0 DEF Status, Terminal, Failures
<1>6. CASE WorkerStep
  <2>1. PICK w \in Workers : PollLoop(w) \/ PollFails(w) \/ Shutdown(w) \/ Stop(w)
    BY <1>6 DEF WorkerStep
  <2>2. CASE \/ BeginPoll(w) \/ ClaimSelect(w) \/ EndPoll(w) \/ PollFails(w)
             \/ Shutdown(w) \/ Stop(w)
    BY <2>2 DEF BeginPoll, ClaimSelect, EndPoll, PollFails, Shutdown, Stop, ProcessDies
  <2>3. CASE RecoverExpiredCancellationRequests(w)
    BY <1>4, <1>5, <2>3 DEF RecoverExpiredCancellationRequests
  <2>4. CASE RecoverExpiredTerminalLeases(w)
    BY <1>4, <1>5, <2>4 DEF RecoverExpiredTerminalLeases
  <2>5. CASE ClaimCommit(w)
    <3>1. claimTx[w] = k
      BY <1>0, <2>5 DEF ClaimCommit
    <3> QED
      BY <2>5, <3>1
  <2> QED
    BY <2>1, <2>2, <2>3, <2>4, <2>5 DEF PollLoop
<1>7. CASE CallStep
  <2>1. PICK j \in Jobs, n \in AttemptNo :
           \/ ProcessJob(j, n) \/ HandlerEnds(j, n) \/ RejectJob(j, n)
           \/ UpdateProgress(j, n) \/ Heartbeat(j, n) \/ HeartbeatFails(j, n)
           \/ DatabaseError(j, n)
    BY <1>7 DEF CallStep
  <2>2. CASE \/ CheckBeforeExecute(j, n) \/ CheckAfterExecute(j, n)
             \/ FailLosesLease(j, n) \/ HandlerEnds(j, n) \/ RejectJob(j, n)
             \/ HeartbeatFails(j, n) \/ DatabaseError(j, n)
    BY <2>2 DEF CheckBeforeExecute, CheckAfterExecute, FailLosesLease,
       HandlerEnds, HandlerReturns, HandlerThrows, RejectJob, HeartbeatFails,
       DatabaseError, ProcessDies
  <2>3. CASE Start(j, n) \/ UpdateProgress(j, n) \/ Heartbeat(j, n)
    BY <1>0, <2>3 DEF Start, UpdateProgress, Heartbeat, JobRow
  <2>4. CASE Complete(j, n)
    BY <1>0, <1>4, <1>5, <2>4, CompletedRowFields DEF Complete
  <2>5. CASE CancelLeased(j, n)
    BY <1>0, <1>4, <1>5, <2>5 DEF CancelLeased
  <2>6. CASE Fail(j, n)
    <3>1. RetryTarget(exec[j][n].failure, n, job[j].maxAttempts) \in Failures \cup {"RETRY_DELAY"}
      BY DEF RetryTarget, Failures
    <3> QED
      BY <1>0, <1>5, <2>6, <3>1, FailedRowFields DEF Fail
  <2> QED
    BY <2>1, <2>2, <2>3, <2>4, <2>5, <2>6 DEF ProcessJob
<1> QED
  BY <1>1, <1>2, <1>3, <1>6, <1>7 DEF Next

LEMMA SerialKept ==
    ASSUME IInv, Serial, OneClaimAtATime, [Next]_vars
    PROVE  Serial'
<1>0. TypeOK /\ RowsOK /\ ClaimSeesCurrentRow /\ RowSteps
  BY NextIsRowStep DEF IInv
<1>1. ASSUME NEW k \in Jobs, LiveLease(job'[k]), ~LiveLease(job[k])
      PROVE  \E w \in Workers : ClaimCommit(w) /\ claimTx[w] = k
  BY <1>0, <1>1, RowStepGivesLease, AttemptsCountClaims DEF RowSteps, RowsOK
<1>2. \A j \in Jobs : TenantBusy(j) <=>
         \E k \in Jobs \ {j} : TenantOf[k] = TenantOf[j] /\ LiveLease(job[k])
  BY DEF TenantBusy, LiveLease, NotExpired
<1>3. \A j \in Jobs : TenantBusy(j)' <=>
         \E k \in Jobs \ {j} : TenantOf[k] = TenantOf[j] /\ LiveLease(job'[k])
  BY DEF TenantBusy, LiveLease, NotExpired
<1>4. \A j, k \in Jobs : j # k /\ TenantOf[j] = TenantOf[k]
         => ~(LiveLease(job[j]) /\ LiveLease(job[k]))
  BY DEF Serial, OneLiveJobPerTenant, LiveLease, NotExpired
<1>5. CASE \E w \in Workers : ClaimCommit(w)
  <2>1. PICK w \in Workers : ClaimCommit(w)
    BY <1>5
  <2> DEFINE j == claimTx[w]
  <2>2. j \in Jobs /\ ~TenantBusy(j)
    BY <2>1 DEF ClaimCommit, Serial, ClaimsFindTenantIdle
  <2>3. \A k \in Jobs \ {j} : job'[k] = job[k]
    BY <1>0, <2>1 DEF ClaimCommit, TypeOK
  <2>4. \A v \in Workers : claimTx'[v] \notin Jobs
    BY <1>0, <2>1, <2>2, ConstantsAssumption DEF ClaimCommit, OneClaimAtATime, TypeOK
  <2> HIDE DEF j
  <2>5. \A i, k \in Jobs : i # k /\ TenantOf[i] = TenantOf[k]
           => ~(LiveLease(job'[i]) /\ LiveLease(job'[k]))
    BY <1>2, <1>4, <2>2, <2>3
  <2> QED
    BY <2>4, <2>5 DEF Serial, OneLiveJobPerTenant, LiveLease, NotExpired, ClaimsFindTenantIdle
<1>6. CASE ~\E w \in Workers : ClaimCommit(w)
  <2>1. \A k \in Jobs : LiveLease(job'[k]) => LiveLease(job[k])
    BY <1>1, <1>6
  <2>2. OneLiveJobPerTenant'
    BY <1>4, <2>1 DEF OneLiveJobPerTenant, LiveLease, NotExpired
  <2>3. \A k \in Jobs : ~TenantBusy(k) => ~TenantBusy(k)'
    BY <1>2, <1>3, <2>1
  <2>4. CASE \A w \in Workers : claimTx'[w] \in {claimTx[w], NoJob}
    <3> SUFFICES ASSUME NEW w \in Workers, claimTx'[w] \in Jobs
                 PROVE  ~TenantBusy(claimTx[w])'
      BY <2>2 DEF Serial, ClaimsFindTenantIdle
    <3>1. claimTx'[w] = claimTx[w] /\ claimTx[w] \in Jobs
      BY <2>4, ConstantsAssumption
    <3>2. ~TenantBusy(claimTx[w])
      BY <3>1 DEF Serial, ClaimsFindTenantIdle
    <3> QED
      BY <1>2, <1>3, <2>1, <3>1, <3>2
  <2>5. ASSUME NEW w \in Workers, ClaimSelect(w) PROVE Serial'
    <3>1. PICK j \in Jobs : ~TenantBusy(j) /\ claimTx' = [claimTx EXCEPT ![w] = j]
      BY <2>5 DEF ClaimSelect, Candidates, Claimable
    <3>2. \A v \in Workers : claimTx'[v] = IF v = w THEN j ELSE claimTx[v]
      BY <1>0, <3>1 DEF TypeOK
    <3>3. \A v \in Workers : claimTx'[v] \in Jobs => ~TenantBusy(claimTx'[v])
      BY <3>1, <3>2 DEF Serial, ClaimsFindTenantIdle
    <3>4. UNCHANGED job
      BY <2>5 DEF ClaimSelect
    <3>5. \A v \in Workers : claimTx'[v] \in Jobs => ~TenantBusy(claimTx[v])'
      BY <3>3, <3>4 DEF TenantBusy, NotExpired
    <3> QED
      BY <2>2, <3>5 DEF Serial, ClaimsFindTenantIdle
  <2> QED
    BY <1>0, <2>4, <2>5, ClaimTxStep
<1> QED
  BY <1>5, <1>6

\* While the claims of the workers do not overlap, no two jobs of a tenant hold
\* live leases, whatever heartbeats, lapses, takeovers and crashes do: the
\* window between a claim's snapshot and its commit is all that the claim's
\* NOT EXISTS leaves open.
THEOREM SerialClaimsKeepTenantsApart ==
    Spec /\ []OneClaimAtATime => []OneLiveJobPerTenant
<1>1. Init => Serial
  BY ConstantsAssumption
  DEF Init, Serial, OneLiveJobPerTenant, ClaimsFindTenantIdle, Leased, Held
<1>2. IInv /\ Serial /\ OneClaimAtATime /\ [Next]_vars => Serial'
  BY SerialKept
<1>3. Serial => OneLiveJobPerTenant
  BY DEF Serial
<1> QED
  BY <1>1, <1>2, <1>3, Invariant, PTL DEF Spec

\* One worker process, whose claims run one after the other, is enough for that.
THEOREM OneWorkerKeepsTenantsApart ==
    ASSUME \A w, v \in Workers : w = v
    PROVE  Spec => []OneLiveJobPerTenant
<1>1. OneClaimAtATime
  BY DEF OneClaimAtATime
<1> QED
  BY <1>1, SerialClaimsKeepTenantsApart, PTL
=============================================================================
