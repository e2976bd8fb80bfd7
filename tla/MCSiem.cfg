\* Two transactions over two chains, three rows and one alteration, or two rows
\* that one sink is sent by two workers, a row at a time.  A replica's clock may
\* run ahead by the time of two inserts, so that the next row may be stamped before
\* the last; half the addresses are written in another way than host() does.
SPECIFICATION SiemSpec
CONSTANTS
  Tx = {x1, x2}
  Chain = {platform, acme}
  Platform = platform
  Body = {b1, b2}
  Spelling = {plain, odd}
  Plain = plain
  None = None
  MaxRows = 3
  MaxWatched = 2
  MaxSkew = 2
  MaxTamper = 1
  Sink = {k1}
  Worker = {w1, w2}
  Batch = 1
INVARIANTS
  UntouchedChainVerifies
  InteriorTamperDetected
  NoneSkipped
PROPERTIES
  EventuallyDelivered
CHECK_DEADLOCK FALSE
