SPECIFICATION FairSpec
CONSTANTS
  p1 = p1
  p2 = p2
  Sender = {p1, p2}
  Kernel = Kernel
  MaxSends = 2
  MaxFrames = 1
INVARIANT TypeOK
INVARIANT OneWriteAtATime
INVARIANT NoWriteAfterError
PROPERTY PipeSpec
PROPERTY SentIsWritten
PROPERTY RemovedSessionEnds
CHECK_DEADLOCK FALSE
