SPECIFICATION Spec
CONSTANTS
  FirstRole = {"ActPass", "Active", "Passive"}
  Fingerprint = {"match", "mismatch"}
  MaxLost = 2
  MaxCopies = 2
INVARIANTS MutualTrust FailsForCause
PROPERTIES Converges DataArrives
CHECK_DEADLOCK FALSE
