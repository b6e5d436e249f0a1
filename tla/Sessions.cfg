SPECIFICATION Spec
CONSTANTS
  d1 = d1
  d2 = d2
  d3 = d3
  k1 = k1
  k2 = k2
  line = line
  Devices <- MCDevices
  FrameLengths = {3, 5}
  DEVICE_THROUGHPUT_TABLE_SIZE = 2
  UINT32_MAX = 7
  MaxFrames = 2
  Clocks = {1, 2}
  NoSession = NoSession
  Lines = {line}
  Blank = Blank
  Null = Null
  Texts <- MCTexts
  Keys = {k1, k2}
  NoKey = NoKey
  ALARMS_PER_UPDATE = 2
  FailureCounts = {0, 1}
  Missing = Missing
  Truncated = Truncated
  MaxAlarms = 6
INVARIANTS
  TypeOK
  BytesExact
  UpdatesInStep
  OneCountPerSession
  StreamsReadable
PROPERTY NoUpdateReplaced
SYMMETRY MCSymmetry
VIEW SessionsView
CHECK_DEADLOCK FALSE
