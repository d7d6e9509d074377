SPECIFICATION FairSpec
CONSTANTS
  b1 = b1
  b2 = b2
  b3 = b3
  b4 = b4
  Nil = Nil
  Nrx = 3
  Blocks <- Four
  QueueLimit = 2
  OtherCauses = TRUE
INVARIANTS BlockOnce BlockKept ReceivedInOrder
PROPERTIES Replenished FramesTaken
\* a receive without a block stops the model
CHECK_DEADLOCK FALSE
