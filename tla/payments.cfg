\* One appointment, two sessions, a till, two webhook calls at once, a staff
\* request.
CONSTANTS
  a1 = a1
  s1 = s1
  s2 = s2
  p1 = p1
  d1 = d1
  d2 = d2
  k1 = k1
  Appts = {a1}
  Sessions = {s1, s2}
  Tills = {p1}
  Deliveries = {d1, d2}
  Desk = {k1}
  NoAppt = NoAppt
  NoSession = NoSession
CHECK_DEADLOCK FALSE
SPECIFICATION FairSpec
INVARIANTS
  TypeOK
  OnePaymentPerAppointment
  BooksAgree
PROPERTIES
  ImplementsLedger
  NoResurrection
  OutcomeArrives
