SPECIFICATION FairSpec
CONSTANTS
  s1 = s1
  Streams <- OneStream
  MaxGeneration = 2
  MaxData = 2
  MaxReplies = 1
  MaxFaults = 1
CHECK_DEADLOCK FALSE
INVARIANTS TypeOK UpIsServed
PROPERTIES StreamsAreOrdered NewerGenerationWins SessionsEnd
