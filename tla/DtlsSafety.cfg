SPECIFICATION Safe
CONSTANTS
  User <- MCUser
  driver = juice
  Calls <- MCCalls
  Listener <- MCListener
  Fingerprint = {"match", "mismatch"}
  Transient = TRUE
  BioRecords = 2
  app1 = app1
  app2 = app2
  juice = juice
  only = only
INVARIANTS TypeOK AnnouncedAtMostOnce NeverHeldTwice NoConnectWithoutPin ConnectedBeforeData DeadMeansFailed NothingStranded
