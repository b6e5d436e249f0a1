SPECIFICATION Spec
CONSTANTS
  Times = {1, 2, 3, 5}
  Sizes = {5}
  Flows = {0, 3}
  PACKET_DATA_BUFFER_ENTRIES = 3
  FLOW_TABLE_ENTRIES = 2
  INT32_MIN <- MCInt32Min
  INT32_MAX = 1
  UINT16_MAX = 3
  UINT32_MAX = 1
  MaxArrivals = 5
INVARIANTS
  TypeOK
  TimesDecodable
  EveryPacketCounted
