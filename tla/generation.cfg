\* Two pages, two attempts and a third that a manual retry may allow, one API
\* call at a time; the pipeline that ends READY_FOR_REVIEW.
CONSTANTS
  q1 = q1
  PageCount = 2
  MaxAttempts = 2
  AttemptLimit = 3
  Requests = {q1}
  Readiness = "READY_FOR_REVIEW"
CHECK_DEADLOCK FALSE
SPECIFICATION FairSpec
INVARIANTS
  TypeOK
  CompletedJobHasSite
  LifecyclesAgree
  ReadyIsReviewable
PROPERTIES
  FailureIsCarried
  ImplementsRequest
  RunComesToRest
