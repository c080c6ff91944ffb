SPECIFICATION Spec
CONSTANTS
  Callers = {"c1", "c2", "c3", "c4"}
  Id <- MCId
  Body <- MCBody
  Explicit <- MCExplicit
  Host <- MCHost
  Dialects = {"memory", "postgres", "sqlite"}
  MaxRetries = 5
  Launcher = s1
  Restarts = {s2}
  Operators = {s3}
  NoSession = none
  Tasks = {t1}
  MaxAttempts = 2
  Budgets <- MCBudgets
  Attempts = {"a1", "a2", "b1"}
  TaskOf <- MCTaskOf
  Nth <- MCNth
  Verifiers = {"t2"}
  RigTasks = {"a", "b"}
  NoSeat = "none"
  Processes = {"p1", "p2"}
  Placements <- MCPlacements
  Mortal = {"p1"}
  Savers = {"api", "engine"}
  MaxRestarts = 1
  Group <- MCGroup
  NoGroup = "none"
  Agent <- MCAgent
  Role <- MCRole
  MaxJobTurns = 2
  Speakers = {"a", "b"}
  PhaseAgents <- MCPhaseAgents
  Helpers = {"h"}
  MaxTurns = 3
  MaxPhaseTurns = 3
  MaxDelegations = 1
  MaxMessages = 4
  MaxAsks = 1
INVARIANTS
  ServicesTypeOK
  OneDriver
  SuccessIsInTheBranch
  OneMergeAfterFence
  SuccessIsMerged
  WorkIsItsOwn
  SeatIsItsHolders
  NoRigIsForgotten
  RecordIsSaved
  SprintIsWhole
  TwiceOnlyUnseen
PROPERTIES
  StoreImplementsLog
  SettledIsFinal
  MergedWorkIsNotRedone
  OrphanIsWaitedFor
  RestartKeepsVerdicts
  OvertakenStops
  StopWindsDown
CHECK_DEADLOCK FALSE
