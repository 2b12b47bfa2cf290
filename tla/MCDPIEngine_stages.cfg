CONSTANTS
  web1 = web1
  web2 = web2
  page = page
  query = query
  noTuple = noTuple
  noName = noName
  Tuples <- MCTuples
  NoTuple <- noTuple
  SrcIp <- MCSrcIp
  DstPort <- MCDstPort
  Hash <- MCHash
  Names <- MCNames
  NoName <- noName
  Within <- MCWithin
  Rules <- MCRules
  Inputs <- MCStageInputs
  NumLBs = 2
  FPsPerLB = 2
  LBCap = 1
  FPCap = 1
  OutCap = 1

SPECIFICATION Spec
INVARIANTS TypeOK Conservation DrainedInOrder ReportIsSound StatisticsFollowHash FileInFlowOrder JudgedInTurn
PROPERTIES ImplementsFilter
CHECK_DEADLOCK FALSE
