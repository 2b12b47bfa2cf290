CONSTANTS
  Captures <- MCCaptures

SPECIFICATION Spec
INVARIANTS ReadsWholeRecords WritesWhatItCanRead
