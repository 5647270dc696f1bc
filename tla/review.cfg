\* Two calls of the API and an audit at once, two contents, two reviews.
CONSTANTS
  c1 = c1
  c2 = c2
  q1 = q1
  Callers = {c1, c2}
  Audits = {q1}
  MaxContent = 2
  MaxRevision = 2
  Targets <- OneWayToClose
SYMMETRY CallersAlike
SPECIFICATION Spec
INVARIANTS
  TypeOK
PROPERTIES
  DecidedOnPinnedContent
  ApprovedDraftIsReady
  ImplementsReview
