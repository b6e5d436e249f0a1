SPECIFICATION Spec
CONSTANTS
  ALRM = ALRM
  INT = INT
  TERM = TERM
  TerminateSignals = {INT, TERM}
  MaxPackets = 2
PROPERTY EachUpdateOwnNumber
CHECK_DEADLOCK FALSE
