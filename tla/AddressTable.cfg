SPECIFICATION Spec
CONSTANTS
  d1 = d1
  d2 = d2
  d3 = d3
  d4 = d4
  d5 = d5
  public = public
  Addresses <- MCAddresses
  Private <- Devices
  NoAddress = NoAddress
  MAC_TABLE_ENTRIES = 4
SYMMETRY DeviceSymmetry
INVARIANTS
  TypeOK
  RingShape
  ServerMirrors
PROPERTIES
  OnlyOldestEvicted
  KeepsServerInformed
