SPECIFICATION Spec
CONSTANTS
  a = a
  b = b
  c = c
  Flows = {a}
  NoFlow = NoFlow
  hash <- MCHash
  UINT32_MAX = 7
  DoubleOverflow <- MCDoubleOverflow
  FLOW_TABLE_ENTRIES = 4
  HT_NUM_PROBES = 3
  FLOW_ID_FIRST_UNRESERVED = 7
  FLOW_TABLE_EXPIRATION_SECONDS = 1
  FLOW_TABLE_MIN_UPDATE_OFFSET <- MCMinOffset
  FLOW_TABLE_MAX_UPDATE_OFFSET = 1
  NUM_PACKETS_MODULUS = 16
  NUM_PACKETS_LIMIT = 63
  FLOW_THRESHOLD = 10
  Timestamps = {1}
  ClockStepBack = 1
  MaxPackets = 16
INVARIANT ExceedingFlowsLogged
VIEW TableView
