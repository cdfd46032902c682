\* A string of 24 bytes for one connector of Ice Lake.
CONSTANTS
  Subjects = {"patches"}
  Size = 4
  Chunk = 2
  Bytes = {0, 1}
  MaxLength = 3
  Garbage = garbage
  ConnectorCount = 1
  Attempts = 2
  Timeout = 60
  Interval = 20
  Machines <- IceLakeMachines
  DP = 50
  HDMI = 51
  Calls = 3
  MaxConnectors = 3
  FrameConnectors = 2
  Page = 39
  ByteMod = 16
  Missing = Missing
  Threads = {1, 2}
  Users = {0, 10, 11, None}
  Serial = TRUE
  Displays = {0, 1, 2}
  Reported <- ReportedRates
  Panels <- EmbeddedPanels
  Firmware = {344, 1102, 1294, 1304}
  References = {0, 1, 2, 3}
  PixelClocks <- ScreenClocks
  NoClock = NoClock
  GMSFields = {0, 1, 15, 32, 48, 64, 240, 247, 254, 17, 255}
  Codes <- DriverCodes
  Registers = {0, 1, 3, 9}
  Lookup = 5
  None = None
SPECIFICATION HooksSpec
CHECK_DEADLOCK FALSE
INVARIANTS
  ListAsAsked
