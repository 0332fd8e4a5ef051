SPECIFICATION InstanceSpec
CONSTANTS
  WrittenRows <- MCWrittenRows
  MaxSchemaWrites = 1
  Workers = {r1, r2}
  Interval = 2
  Grace = 1
  MaxTime = 8
  Streams = {t1, t2}
  Calls = {k1, k2}
  MaxIterations = 2
  MaxRounds = 5
  NoCall = NoCall
  Claimed = Claimed
  entry = entry
  transaction = transaction
  Records <- MCRecords
  Parent <- MCParent
  NoRecord = NoRecord
  ToolCalls = {x1, x2}
  MaxValue = 3
  Compared <- MCCompared
  InitialTables <- MCInitialTables
  MaxWrites = 3
INVARIANTS RefusedOnlyForNewValues SchemaIsRight HealthTellsTruth CallWaitsForItsUser AllUndoneIsInitial
PROPERTIES NoRowsLost DecidesOnce ClaimIsGivenBack UndoIsExact
CHECK_DEADLOCK FALSE
