SPECIFICATION Spec
CONSTANTS
  Decimal <- MCDecimal
  Port <- MCPort
  IpLiteral <- MCIpLiteral
  Lower <- MCLower
  Input <- MCInput
  Fragment <- MCFragment
  Mid <- MCMid
  Numeral <- MCNumeral
  Words <- MCWords
  Trimmed <- MCTrimmed
  Direction = {"unknown", "recvonly"}
  MaxLines = 4
  MaxEdits = 1
INVARIANTS TypeOK NoTwins BundleHasApplication NothingLost SettlesOnce
CHECK_DEADLOCK FALSE
