SPECIFICATION CSpec
CONSTANTS
  Base = 8
  IdSize = 1
  Frames <- SmallFrames
  Batches <- SmallBatches
  AnswerSize = {4, 11, 64}
INVARIANT TypeOK
INVARIANT InBounds
INVARIANT RoundTrip
INVARIANT NoAnswerToAnswer
PROPERTY ConversationEnds
CHECK_DEADLOCK FALSE
