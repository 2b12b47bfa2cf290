CONSTANTS
  web1 = web1
  web2 = web2
  page = page
  query = query
  noTuple = noTuple
  noName = noName
  Tuples <- MCTuples
  NoTuple <- noTuple
  SrcIp <- MCSrcIp
  DstPort <- MCDstPort
  Hash <- MCHash
  Names <- MCNames
  NoName <- noName
  Within <- MCWithin
  Rules <- MCRules
  Inputs <- MCSpreadInputs
  NumLBs = 2
  FPsPerLB = 2
  LBCap = 4
  FPCap = 4
  OutCap = 4

SPECIFICATION Spec
INVARIANTS SpreadsOverPool
