\* Two dispatchers and two events of two attempts each; or one subscription
\* whose delivery has three attempts and one operator retry, one fault; or
\* one account with a purge request and an export, two sweepers, one failure.
SPECIFICATION WorkersSpec
CONSTANTS
  Event = {e1, e2}
  Dispatcher = {d1, d2}
  None = None
  MaxAttempts = 2
  BatchSize = 2
  MaxFault = 1
  Subscription = {s1}
  Emission = {m1}
  MaxPosts = 3
  MaxRetry = 1
  User = {u1}
  Purge = {q1}
  Export = {x1}
  Sweeper = {w1, w2}
  MaxFailure = 1
INVARIANTS
  EventMarksAreTrue
  MarksAreTrue
  CompletedIsRedacted
PROPERTIES
  QueuesImplemented
  EventuallySettled
  DeliveriesSettle
  RequestsSettle
CHECK_DEADLOCK FALSE
