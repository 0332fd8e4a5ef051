SPECIFICATION ConversationSpec
CONSTANTS
  Streams = {t1}
  Calls = {k1}
  MaxIterations = 1
  MaxRounds = 2
  NoCall = NoCall
  Claimed = Claimed
INVARIANT UnfinishedCallIsGivenBack
CHECK_DEADLOCK FALSE
