\* Two workers that follow one email of an appointment, any of its eight, through
\* reschedules and two faults.
CONSTANTS
  w1 = w1
  w2 = w2
  t1 = t1
  t2 = t2
  c1 = c1
  Workers = {w1, w2}
  Times = {t1, t2}
  Changes = {c1}
  ProviderStatuses = {"DELAYED", "DELIVERED", "BOUNCED"}
  MaxAttempts = 2
  NoEmail = NoEmail
  NoKey = NoKey
  FirstStart = t1
  MaxEmails = 1
  MaxFaults = 2
CHECK_DEADLOCK FALSE
SPECIFICATION FairSpec
INVARIANTS
  TypeOK
  NoUnprovokedRepeat
PROPERTIES
  SentAsWarranted
  OutcomeStands
  EmailsSettle
