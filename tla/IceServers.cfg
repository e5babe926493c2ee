SPECIFICATION Spec
CONSTANTS
  Hex <- MCHex
  Ascii <- MCAscii
  Lower <- MCLower
  Url <- MCUrl
  Server <- MCServer
  PortRange <- MCPortRange
  BindAddress = {"none", "an address", "no address"}
  MaxServers = 3
INVARIANTS ParsesBack AgentGetsTheUsable
CONSTRAINT Small
CHECK_DEADLOCK FALSE
