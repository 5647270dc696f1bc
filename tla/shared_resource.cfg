\* Two staff members who share a resource, two visitors after one hold, a staff
\* request and a customer.
CONSTANTS
  a1 = a1
  a2 = a2
  a3 = a3
  h1 = h1
  h2 = h2
  v1 = v1
  v2 = v2
  d1 = d1
  d2 = d2
  c1 = c1
  c2 = c2
  s1 = s1
  s2 = s2
  r1 = r1
  Staff = {s1, s2}
  Resources = {r1}
  NoResource = NoResource
  Starts <- OneStart
  Duration = 1
  Buffer = 1
  Appts = {a1, a2}
  Holds = {h1}
  Visitors = {v1, v2}
  Desk = {d1}
  Customers = {c1}
  NoAppt = NoAppt
  NoHold = NoHold
  NoSlot = NoSlot
SYMMETRY EntriesAlike
CHECK_DEADLOCK FALSE
SPECIFICATION Spec
INVARIANTS
  NoDoubleBooking
  OneAppointmentPerHold
PROPERTIES
  CustomerChangesWhatTheySaw
