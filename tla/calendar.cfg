\* One staff member, overlapping starts, two holds, two appointments, a visitor
\* and a staff request or payment event.
CONSTANTS
  a1 = a1
  a2 = a2
  a3 = a3
  h1 = h1
  h2 = h2
  v1 = v1
  v2 = v2
  d1 = d1
  d2 = d2
  c1 = c1
  c2 = c2
  s1 = s1
  s2 = s2
  r1 = r1
  Staff = {s1}
  Resources = {}
  NoResource = NoResource
  Starts <- TwoStarts
  Duration = 1
  Buffer = 1
  Appts = {a1, a2}
  Holds = {h1, h2}
  Visitors = {v1}
  Desk = {d1}
  Customers = {}
  NoAppt = NoAppt
  NoHold = NoHold
  NoSlot = NoSlot
SYMMETRY EntriesAlike
CHECK_DEADLOCK FALSE
SPECIFICATION Spec
INVARIANTS
  TypeOK
  HoldKeepsItsPromise
PROPERTIES
  ImplementsCalendar
