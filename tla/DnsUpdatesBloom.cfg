SPECIFICATION Spec
CONSTANTS
  d1 = d1
  d2 = d2
  d3 = d3
  resolver = resolver
  b1 = b1
  b2 = b2
  b3 = b3
  b4 = b4
  Characters <- MCCharacters
  Dot = "."
  Names <- MCNames
  Hosts <- MCHosts
  Aliases <- MCAliases
  Whitelist <- MCWhitelist
  BloomNames <- MCBloomNames
  Addresses <- MCAddresses
  Private <- Devices
  NoAddress = NoAddress
  MAC_TABLE_ENTRIES = 2
  DNS_TABLE_A_ENTRIES = 1
  DNS_TABLE_CNAME_ENTRIES = 1
  UINT16_MAX = 1
  UINT8_MAX = 1
  PACKET_DATA_BUFFER_ENTRIES = 2
  NoResponse = NoResponse
  NoPacket = NoPacket
  MaxRecords = 2
  Blocks <- MCBlocks
INVARIANT
  BloomFailureTolerated
SYMMETRY Symmetry
VIEW UpdatesView
CHECK_DEADLOCK FALSE
