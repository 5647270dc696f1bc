\* A page is saved while the audit of the draft runs.
CONSTANTS
  c1 = c1
  c2 = c2
  q1 = q1
  Callers = {c1}
  Audits = {q1}
  MaxContent = 2
  MaxRevision = 1
  Targets <- OneWayToClose
SPECIFICATION Spec
PROPERTIES
  PromotedOnItsOwnEvidence
