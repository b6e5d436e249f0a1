SPECIFICATION FairSpec
CONSTANTS
  ALRM = ALRM
  INT = INT
  TERM = TERM
  TerminateSignals = {INT, TERM}
  MaxPackets = 2
INVARIANTS
  TypeOK
  WholePackets
  StagedComplete
  ExactlyOnce
  
PROPERTIES
  PacketsKept
  PacketsDelivered
  ReplacedByNestedOnly
CHECK_DEADLOCK FALSE
