SPECIFICATION Spec
CONSTANTS
  q1 = q1
  q2 = q2
  h1 = h1
  h2 = h2
  c1 = c1
  c2 = c2
  t1 = t1
  t2 = t2
  Off = Off
  NoText = NoText
  Request <- MCRequest
  Handler <- MCHandler
  Config <- MCConfig
  Targeted <- MCTargeted
  Text <- MCText
INVARIANTS
  OneAtATime
  PendingHasTimer
  NoRepeat
PROPERTY
  RequestsAreTaken
