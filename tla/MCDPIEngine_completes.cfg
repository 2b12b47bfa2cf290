CONSTANTS
  web1 = web1
  web2 = web2
  page = page
  query = query
  noTuple = noTuple
  noName = noName
  Tuples <- MCTuples
  NoTuple <- noTuple
  SrcIp <- MCSrcIp
  DstPort <- MCDstPort
  Hash <- MCHash
  Names <- MCNames
  NoName <- noName
  Within <- MCWithin
  Rules <- MCRules
  Inputs <- MCPairInputs
  NumLBs = 1
  FPsPerLB = 1
  LBCap = 1
  FPCap = 1
  OutCap = 1

SPECIFICATION Spec
PROPERTIES StopCompletes
CHECK_DEADLOCK FALSE
