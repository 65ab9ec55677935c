\* Two messages on the bus and one sent directly beside them, three starts of
\* the gateway, one write that fails.
\* After the last start the gateway may stop for good.
CHECK_DEADLOCK FALSE
SPECIFICATION Spec
CONSTANTS
  Msg = {m1, m2, d1}
  Direct = {d1}
  MaxLives = 3
  MaxFaults = 1
INVARIANTS
  KeptUntilDecided
  SentInOrder
  AckIsFinal
PROPERTIES
  PublishedIsSent
