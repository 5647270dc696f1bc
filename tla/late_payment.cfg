\* One appointment, a session that expires and one that is paid after it.
CONSTANTS
  a1 = a1
  s1 = s1
  s2 = s2
  p1 = p1
  d1 = d1
  d2 = d2
  k1 = k1
  Appts = {a1}
  Sessions = {s1, s2}
  Tills = {}
  Deliveries = {d1}
  Desk = {}
  NoAppt = NoAppt
  NoSession = NoSession
CHECK_DEADLOCK FALSE
SPECIFICATION Spec
INVARIANTS
  LatePaymentHandled
