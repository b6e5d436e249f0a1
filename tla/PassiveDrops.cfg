SPECIFICATION Spec
CONSTANTS
  a = a
  b = b
  c = c
  arp = arp
  Flows = {}
  NoFlow = NoFlow
  hash <- MCHash
  UINT32_MAX = 1
  DoubleOverflow <- MCDoubleOverflow
  FLOW_TABLE_ENTRIES = 4
  HT_NUM_PROBES = 2
  FLOW_ID_FIRST_UNRESERVED = 2
  FLOW_TABLE_EXPIRATION_SECONDS = 1
  FLOW_TABLE_MIN_UPDATE_OFFSET <- MCMinOffset
  FLOW_TABLE_MAX_UPDATE_OFFSET = 1
  NUM_PACKETS_MODULUS = 2
  NUM_PACKETS_LIMIT = 3
  FLOW_THRESHOLD = 1
  Timestamps = {1}
  ClockStepBack = 1
  PACKET_DATA_BUFFER_ENTRIES = 1
  INT32_MIN <- MCInt32Min
  INT32_MAX = 3
  UINT16_MAX = 7
  NUM_MICROS_PER_SECOND = 1
  DROP_STATISTICS_MAXIMUM_PACKET_SIZE = 3
  RESET_BUCKETS = 2
  Sizes = {2}
  EtherTypes = {arp}
  EtherTypeIds <- MCEtherTypeIds
  WebFlows = {}
  Segments <- MCSegments
  HTTP_TABLE_URL_ENTRIES = 1
  TCP_HEADER = 20
  PeriodSpan = 1
  MaxArrivals = 2
INVARIANT DropsOfThisPeriod
VIEW PassiveView
CHECK_DEADLOCK FALSE
