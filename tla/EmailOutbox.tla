---------------------------- MODULE EmailOutbox ----------------------------
(***************************************************************************)
(* The emails about one appointment: its reminders, the notices to staff   *)
(* and the notice of its cancellation.  The booking services write them to *)
(* email_outbox in the transaction that changes the appointment, but those *)
(* about a booking made in one go only after that transaction;             *)
(* EmailService.processOutbox, run every minute and by any number of       *)
(* processes, claims them, checks them against the appointment, hands them *)
(* to the provider and records the answer, each step a statement of its    *)
(* own; the provider's webhook moves a row on; the owner may send a failed *)
(* one again.                                                              *)
(*                                                                         *)
(* A transaction of a booking service is one action: the races between     *)
(* those are the subject of Bookings.  A batch of n rows is n workers that *)
(* claimed together.  Clocks are not modelled: a row may be due, a lease   *)
(* may lapse and an appointment may have begun whenever the code looks.    *)
(***************************************************************************)
EXTENDS Naturals, FiniteSets

CONSTANTS
    Workers,           \* rows that may be processed at once
    Times,             \* the starts the appointment may be given
    Changes,           \* the customer's own reschedules, by change id
    ProviderStatuses,  \* the statuses the provider reports
    MaxAttempts,       \* DEFAULT_OUTBOX_RETRY_POLICY.maxAttempts
    NoEmail, NoKey,
    FirstStart,        \* the start it was booked for
    MaxEmails,         \* bound: emails queued, or about to be
    MaxFaults          \* bound: crashes, lapses, lost answers, delays, retries

ASSUME OutboxAssumption ==
    /\ NoEmail \notin {"confirmed", "noted", "moved", "notedMove", "changed", "cancelled"}
                     \X (Times \cup Changes \cup {NoKey})
    /\ ProviderStatuses \subseteq {"SENT", "DELAYED", "DELIVERED", "FAILED", "BOUNCED", "COMPLAINED"}
    /\ IsFiniteSet(Workers)
    /\ MaxAttempts \in Nat \ {0}
    /\ FirstStart \in Times
    /\ MaxEmails \in Nat
    /\ MaxFaults \in Nat

VARIABLES
    outbox,       \* [Emails -> Row]: email_outbox, by idempotency key
    appointment,  \* its status and start
    notifying,    \* the emails notifyPublicBookingConfirmed has yet to queue
    issues,       \* the emails with an OPEN or ACKNOWLEDGED operations issue
    suppressed,   \* the recipients in email_suppressions
    work,         \* [Workers -> Work]: what processOutbox holds in memory
    operator,     \* the email whose issue the owner has read and is retrying
    sends,        \* [Emails -> Nat]: the requests the provider accepted
    excuses,      \* [Emails -> Nat]: what happened that may cost another request
    faults        \* how much of the bound is used

vars == <<outbox, appointment, notifying, issues, suppressed, work, operator, sends, excuses, faults>>

-----------------------------------------------------------------------------
(* Emails are named by their idempotency keys, so that a reschedule by     *)
(* staff to a start it had before meets the row of that time.              *)

Confirmed    == <<"confirmed", NoKey>>
Moved(t)     == <<"moved", t>>
Changed(c)   == <<"changed", c>>
Cancelled    == <<"cancelled", NoKey>>
Noted        == <<"noted", NoKey>>
NotedMove(t) == <<"notedMove", t>>

\* What the owner and the staff member are told; its start is text only.
StaffNotices == {Noted} \cup {NotedMove(t) : t \in Times}

Emails == {Confirmed, Cancelled} \cup StaffNotices
             \cup {Moved(t) : t \in Times} \cup {Changed(c) : c \in Changes}

\* parseIntendedAppointmentTime finds a start in the template data.
Dated(e) == e \notin StaffNotices

Recipient(e) == IF e \in StaffNotices THEN "staff" ELSE "customer"

RowStatus == {"ABSENT", "PENDING", "PROCESSING", "SENT", "DELAYED", "DELIVERED",
              "FAILED", "BOUNCED", "COMPLAINED", "CANCELLED", "DEAD_LETTER"}

\* time: the start its text states; known: provider_message_id is stored.
Row == [status: RowStatus, attempts: Nat, known: BOOLEAN, time: Times]

Absent == [status |-> "ABSENT", attempts |-> 0, known |-> FALSE, time |-> FirstStart]

\* PAST: checked in or further, or not shown.
Appointment == [status: {"PENDING", "CONFIRMED", "PAST", "CANCELLED"}, time: Times]

\* attempts is attempt_count as the claim returned it.  stood (history): the
\* appointment has warranted the email at some moment since the claim.
Work == [step: {"idle", "claimed", "checked", "ready", "sent", "failed", "report"},
         email: Emails \cup {NoEmail}, attempts: Nat, stood: BOOLEAN]

Idle == [step |-> "idle", email |-> NoEmail, attempts |-> 0, stood |-> FALSE]

\* Rows, the appointment and the work in progress are well formed.
TypeOK ==
    /\ outbox \in [Emails -> Row]
    /\ appointment \in Appointment
    /\ issues \in SUBSET Emails
    /\ notifying \in SUBSET {Confirmed, Noted}
    /\ suppressed \in SUBSET {"customer", "staff"}
    /\ work \in [Workers -> Work]
    /\ operator \in Emails \cup {NoEmail}
    /\ sends \in [Emails -> Nat]
    /\ excuses \in [Emails -> Nat]
    /\ faults \in Nat

\* No emails yet: the booking waits for its confirmation, or it was confirmed
\* as it was made, and notifyPublicBookingConfirmed has read it.
Init ==
    /\ \/ appointment = [status |-> "PENDING", time |-> FirstStart] /\ notifying = {}
       \/ /\ appointment = [status |-> "CONFIRMED", time |-> FirstStart]
          /\ notifying \in SUBSET {Confirmed, Noted}
          /\ Cardinality(notifying) <= MaxEmails
    /\ outbox = [e \in Emails |-> Absent]
    /\ issues = {}
    /\ suppressed = {}
    /\ work = [w \in Workers |-> Idle]
    /\ operator = NoEmail
    /\ sends = [e \in Emails |-> 0]
    /\ excuses = [e \in Emails |-> 0]
    /\ faults = 0

-----------------------------------------------------------------------------
(* The rows.                                                               *)

SetStatus(e, s) == [outbox EXCEPT ![e].status = s]

\* appointmentNotificationCancellationCode finds no objection, the start being
\* still to come.  A start that the data does not carry is not compared.
FitsStatus(e, a) == a.status = IF e = Cancelled THEN "CANCELLED" ELSE "CONFIRMED"

Applies(e, a) ==
    /\ FitsStatus(e, a)
    /\ Dated(e) => a.time = outbox[e].time

\* enqueueEmail: nothing for a suppressed address, nothing where the key is
\* taken.
CanQueue(es) ==
    /\ \A e \in es : Recipient(e) \notin suppressed /\ outbox[e].status = "ABSENT"
    /\ Cardinality(es \cup notifying \cup {f \in Emails : outbox[f].status # "ABSENT"}) <= MaxEmails

\* Nor does the caller ask where the settings or the hour speak against it.
Queued(rows, es, t) ==
    {[f \in Emails |-> IF f \in q THEN [Absent EXCEPT !.status = "PENDING", !.time = t]
                                  ELSE rows[f]] :
       q \in {q \in SUBSET es : CanQueue(q)}}

\* Mutant: the error code is written as the status.
Withdrawn_Superseded ==
    [e \in Emails |->
       IF e # Cancelled /\ outbox[e].status \in {"PENDING", "DELAYED", "PROCESSING"}
       THEN [outbox[e] EXCEPT !.status = "APPOINTMENT_NOTIFICATION_SUPERSEDED"] ELSE outbox[e]]

\* Mutant: whatever was queued is withdrawn, sent or not.
Withdrawn_All ==
    [e \in Emails |->
       IF e # Cancelled /\ outbox[e].status # "ABSENT"
       THEN [outbox[e] EXCEPT !.status = "CANCELLED"] ELSE outbox[e]]

\* cancelAppointmentReminders of either service.
Withdrawn ==
    [e \in Emails |->
       IF e # Cancelled /\ outbox[e].status \in {"PENDING", "DELAYED", "PROCESSING"}
       THEN [outbox[e] EXCEPT !.status = "CANCELLED"] ELSE outbox[e]]

-----------------------------------------------------------------------------
(* The appointment.                                                        *)

\* History: what the new appointment warrants stands for who holds it.
Witness ==
    work' = [w \in Workers |->
               [work[w] EXCEPT !.stood =
                  @ \/ (work[w].email # NoEmail /\ Applies(work[w].email, appointment'))]]

outside == <<issues, suppressed, operator, sends, excuses, faults>>

NextStatuses(s) == CASE s = "PENDING"   -> {"CONFIRMED", "CANCELLED"}
                     [] s = "CONFIRMED" -> {"PAST", "CANCELLED"}
                     [] s = "PAST"      -> {"CANCELLED"}
                     [] OTHER           -> {}

\* updateBookingStatus; a confirmation by payment enqueues the same.  A
\* cancellation made here leaves the reminders to the worker's check.
UpdateBookingStatus(s) ==
    /\ s \in NextStatuses(appointment.status)
    /\ appointment' = [appointment EXCEPT !.status = s]
    /\ outbox' \in CASE s = "CONFIRMED" -> Queued(outbox, {Confirmed, Noted}, appointment.time)
                     [] s = "CANCELLED" -> Queued(outbox, {Cancelled}, appointment.time)
                     [] OTHER           -> {outbox}
    /\ Witness
    /\ UNCHANGED <<outside, notifying>>

\* cancelBooking, and the customer's cancel, which asks for more.
CancelBooking ==
    /\ appointment.status # "CANCELLED"
    /\ appointment' = [appointment EXCEPT !.status = "CANCELLED"]
    /\ outbox' \in Queued(Withdrawn, {Cancelled}, appointment.time)
    /\ Witness
    /\ UNCHANGED <<outside, notifying>>

\* rescheduleBooking, by staff: the key is the new start.
RescheduleBooking(t) ==
    /\ appointment.status # "CANCELLED"
    /\ appointment' = [appointment EXCEPT !.time = t]
    /\ outbox' \in Queued(Withdrawn, {Moved(t), NotedMove(t)}, t)
    /\ Witness
    /\ UNCHANGED <<outside, notifying>>

\* The customer's reschedule: the key is the change.
CustomerReschedule(c, t) ==
    /\ appointment.status \in {"PENDING", "CONFIRMED"}
    /\ outbox[Changed(c)].status = "ABSENT"
    /\ appointment' = [appointment EXCEPT !.time = t]
    /\ outbox' \in Queued(Withdrawn, {Changed(c)}, t)
    /\ Witness
    /\ UNCHANGED <<outside, notifying>>

\* After the transaction of a booking made by staff, or by a visitor who need
\* not pay, its emails are queued by statements of their own, with the start
\* that was read; one that throws ends it.
NotifyConfirmed ==
    /\ \E e \in notifying :
         /\ outbox' \in Queued(outbox, {e}, FirstStart)
         /\ notifying' \in {notifying \ {e}, {}}
    /\ UNCHANGED <<appointment, work, outside>>

-----------------------------------------------------------------------------
(* processOutbox.                                                          *)

Fault == faults < MaxFaults /\ faults' = faults + 1
Excuse(e) == excuses' = [excuses EXCEPT ![e] = @ + 1]

\* w may still send e, or record what became of it.
Holds(w, e) ==
    work[w].email = e /\ work[w].step \in {"claimed", "checked", "ready", "sent", "failed"}

Held(e) == \E w \in Workers : Holds(w, e)

Step(w, s) == work' = [work EXCEPT ![w].step = s]
Done(w)    == work' = [work EXCEPT ![w] = Idle]

\* A lease of ten minutes has lapsed: its worker is gone, or only slow.
Recover(e) ==
    /\ outbox[e].status = "PROCESSING"
    /\ outbox' = SetStatus(e, "PENDING")
    /\ IF Held(e) THEN Fault /\ Excuse(e) ELSE UNCHANGED <<faults, excuses>>
    /\ UNCHANGED <<appointment, notifying, issues, suppressed, work, operator, sends>>

\* Mutant: a row in another worker's hands may be claimed.
Claimable_Taken == {"PENDING", "DELAYED", "PROCESSING"}

\* Mutant: a delayed row is left to the provider.
Claimable_NotDelayed == {"PENDING"}

Claimable == {"PENDING", "DELAYED"}

Claim(w, e) ==
    /\ work[w].step = "idle"
    /\ outbox[e].status \in Claimable
    /\ outbox' = SetStatus(e, "PROCESSING")
    /\ work' = [work EXCEPT ![w] = [step |-> "claimed", email |-> e,
                  attempts |-> outbox[e].attempts, stood |-> Applies(e, appointment)]]
    /\ UNCHANGED <<appointment, notifying, issues, suppressed, operator, sends, excuses, faults>>

others == <<appointment, notifying, issues, suppressed, operator, sends, excuses, faults>>

\* Mutant: the start in the text is not compared.
CheckAppointment_StatusOnly(w) ==
    /\ work[w].step = "claimed"
    /\ \/ FitsStatus(work[w].email, appointment) /\ Step(w, "checked") /\ UNCHANGED outbox
       \/ outbox' = SetStatus(work[w].email, "CANCELLED") /\ Done(w)
    /\ UNCHANGED others

\* The address and the appointment are read; where one speaks against the
\* email, or the appointment has begun, the row is cancelled whatever it has
\* become.
CheckAppointment(w) ==
    /\ work[w].step = "claimed"
    /\ \/ /\ Applies(work[w].email, appointment)
          /\ Step(w, "checked")
          /\ UNCHANGED outbox
       \/ /\ outbox' = SetStatus(work[w].email, "CANCELLED")
          /\ Done(w)
    /\ UNCHANGED others

\* Its status is read again: somebody may have withdrawn it.
CheckStatus(w) ==
    /\ work[w].step = "checked"
    /\ IF outbox[work[w].email].status = "PROCESSING" THEN Step(w, "ready") ELSE Done(w)
    /\ UNCHANGED <<outbox, others>>

\* The provider takes the request; its answer may be lost.
Send(w) ==
    /\ work[w].step = "ready"
    /\ sends' = [sends EXCEPT ![work[w].email] = @ + 1]
    /\ \/ Step(w, "sent") /\ UNCHANGED <<excuses, faults>>
       \/ Step(w, "failed") /\ Fault /\ Excuse(work[w].email)
    /\ UNCHANGED <<outbox, appointment, notifying, issues, suppressed, operator>>

\* A check, a query, the template or the provider throws before anything is sent.
Throw(w) ==
    /\ work[w].step \in {"claimed", "checked", "ready"}
    /\ Step(w, "failed")
    /\ UNCHANGED <<outbox, others>>

\* The update after the send; if it throws, the email counts as failed.
RecordSent(w) ==
    LET e == work[w].email IN
    /\ work[w].step = "sent"
    /\ \/ /\ outbox' = [outbox EXCEPT ![e].status = "SENT", ![e].known = TRUE,
                                      ![e].attempts = work[w].attempts + 1]
          /\ Done(w)
          /\ UNCHANGED <<excuses, faults>>
       \/ /\ Step(w, "failed") /\ Fault /\ Excuse(e)
          /\ UNCHANGED outbox
    /\ UNCHANGED <<appointment, notifying, issues, suppressed, operator, sends>>

\* decideOutboxRetry and the update in the catch, whatever the row has become.
RecordFailure(w) ==
    LET e == work[w].email
        attempts == work[w].attempts + 1
        Give(s) == outbox' = [outbox EXCEPT ![e].status = s, ![e].attempts = attempts] IN
    /\ work[w].step = "failed"
    /\ \/ Give("DEAD_LETTER") /\ Step(w, "report")
       \/ attempts < MaxAttempts /\ Give("PENDING") /\ Done(w)
    /\ UNCHANGED others

\* The issue is reported after the update, on its own.
Report(w) ==
    /\ work[w].step = "report"
    /\ issues' = issues \cup {work[w].email}
    /\ Done(w)
    /\ UNCHANGED <<outbox, appointment, notifying, suppressed, operator, sends, excuses, faults>>

\* The process dies, or an update in the catch throws out of processOutbox.
Crash(w) ==
    /\ work[w].step # "idle"
    /\ Fault
    /\ IF work[w].step = "sent" THEN Excuse(work[w].email) ELSE UNCHANGED excuses
    /\ Done(w)
    /\ UNCHANGED <<outbox, appointment, notifying, issues, suppressed, operator, sends>>

-----------------------------------------------------------------------------
(* The provider's webhook and the owner.                                   *)

\* STATUS_PRIORITY
Priority == [s \in RowStatus |->
    CASE s \in {"ABSENT", "PENDING", "PROCESSING"} -> 0
      [] s = "SENT"       -> 10
      [] s = "DELAYED"    -> 20
      [] s = "DELIVERED"  -> 30
      [] s = "FAILED"     -> 40
      [] s = "BOUNCED"    -> 50
      [] s = "COMPLAINED" -> 60
      [] OTHER            -> 100]

\* Events come in any order and at any time.  One that comes again, or before
\* the message id is stored, or too late, is marked processed and changes
\* nothing: no action.  A delay is a fault, since it has the row claimed again.
ReceiveEvent(e, s) ==
    /\ outbox[e].known
    /\ Priority[outbox[e].status] < Priority[s]
    /\ outbox' = SetStatus(e, s)
    /\ suppressed' = suppressed \cup IF s \in {"BOUNCED", "COMPLAINED"} THEN {Recipient(e)} ELSE {}
    /\ issues' = CASE s \in {"BOUNCED", "COMPLAINED", "FAILED"} -> issues \cup {e}
                   [] s = "DELIVERED" -> issues \ {e}
                   [] OTHER -> issues
    /\ IF s = "DELAYED" THEN Fault /\ Excuse(e) ELSE UNCHANGED <<faults, excuses>>
    /\ UNCHANGED <<appointment, notifying, work, operator, sends>>

\* OperationsService.retry reads the issue...
ReadIssue(e) ==
    /\ operator = NoEmail
    /\ e \in issues
    /\ operator' = e
    /\ UNCHANGED <<outbox, appointment, notifying, issues, suppressed, work, sends, excuses, faults>>

\* ...and then queues the row again, whatever it has become; attempts stay.
RetryIssue ==
    /\ operator # NoEmail
    /\ Fault
    /\ Excuse(operator)
    /\ outbox' = SetStatus(operator, "PENDING")
    /\ operator' = NoEmail
    /\ UNCHANGED <<appointment, notifying, issues, suppressed, work, sends>>

\* resolve and dismiss, of its last issue
CloseIssue(e) ==
    /\ e \in issues
    /\ issues' = issues \ {e}
    /\ UNCHANGED <<outbox, appointment, notifying, suppressed, work, operator, sends, excuses, faults>>

-----------------------------------------------------------------------------
Proceed(w) ==
    \/ CheckAppointment(w)
    \/ CheckStatus(w)
    \/ Send(w)
    \/ Throw(w)
    \/ RecordSent(w)
    \/ RecordFailure(w)
    \/ Report(w)

Next ==
    \/ \E s \in {"CONFIRMED", "PAST", "CANCELLED"} : UpdateBookingStatus(s)
    \/ CancelBooking
    \/ \E t \in Times : RescheduleBooking(t)
    \/ \E c \in Changes, t \in Times : CustomerReschedule(c, t)
    \/ NotifyConfirmed
    \/ \E e \in Emails : Recover(e)
    \/ \E w \in Workers, e \in Emails : Claim(w, e)
    \/ \E w \in Workers : Proceed(w) \/ Crash(w)
    \/ \E e \in Emails, s \in ProviderStatuses : ReceiveEvent(e, s)
    \/ \E e \in Emails : ReadIssue(e) \/ CloseIssue(e)
    \/ RetryIssue

Spec == Init /\ [][Next]_vars

\* The timer runs the worker every minute: rows that are due are claimed, what
\* was claimed is worked off, what a dead worker held is recovered.
Fairness ==
    /\ WF_vars(\E e \in Emails : Recover(e))
    /\ WF_vars(\E w \in Workers, e \in Emails : Claim(w, e))
    /\ \A w \in Workers : WF_vars(Proceed(w))

FairSpec == Spec /\ Fairness

-----------------------------------------------------------------------------
(* Properties.                                                             *)

\* What a worker sends was right at some moment since it claimed the row: the
\* appointment was confirmed (or cancelled, for that notice) and, where the
\* email carries its start as data, at that start.  So no reminder and no mail
\* to the customer contradicts a reschedule or cancellation before the claim,
\* by whichever path, withdrawn or not, not even one that another worker, a
\* retry or the owner queued again; nor does a notice to staff contradict a
\* cancellation.  It may contradict a reschedule: its start is not compared.
SentAsWarranted ==
    [][\A e \in Emails :
         sends'[e] > sends[e] =>
           \E w \in Workers : Holds(w, e) /\ work[w].step = "ready" /\ work[w].stood]_vars

\* The provider is asked once for each email, and once more only for a lost
\* answer, a lapse or a crash in the middle, a delay it reported or a retry by
\* the owner: two workers never take one row of their own accord, and neither
\* rescheduling back and forth nor failing before the send costs a request.
NoUnprovokedRepeat == \A e \in Emails : sends[e] <= 1 + excuses[e]

Settled == {"DELIVERED", "FAILED", "BOUNCED", "COMPLAINED", "CANCELLED", "DEAD_LETTER"}

\* An outcome is only replaced by a later one of the provider, by the owner's
\* retry, or by a worker that held the row before: not by a claim, a recovery,
\* a reschedule, a cancellation or a second enqueue with its key.
OutcomeStands ==
    [][\A e \in Emails :
         outbox[e].status \in Settled /\ outbox'[e] # outbox[e] =>
           \/ Priority[outbox[e].status] < Priority[outbox'[e].status]
              /\ outbox'[e].status \in ProviderStatuses
           \/ operator = e /\ operator' = NoEmail
           \/ Held(e)]_vars

Waiting(e) == outbox[e].status \in {"PENDING", "PROCESSING", "DELAYED"}

\* Whatever crashes, lapses, is lost or is withdrawn, again and again nothing
\* waits: every email that was queued is sent, cancelled or given up.
EmailsSettle == []<>(\A e \in Emails : ~Waiting(e))
=============================================================================
