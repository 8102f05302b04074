CONSTANTS
  pts1 = pts1
  pts2 = pts2
  mMaxFrames = 2
  Modulus = 4
  SeqModulus = 3
  mWriteCanBlock = TRUE
  PTS = {pts1, pts2}
  MaxCount = 3
SPECIFICATION MCSpec
INVARIANTS
  PipeIsIntact
  TimestampIsWhole
