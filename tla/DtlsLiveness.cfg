SPECIFICATION Spec
CONSTANTS
  User <- MCUser
  driver = juice
  Calls <- MCStartCalls
  Listener <- MCListener
  Fingerprint = {"match"}
  Transient = FALSE
  BioRecords = 1
  app1 = app1
  app2 = app2
  juice = juice
  only = only
PROPERTIES CallsReturn CloseAnnounced AnnouncesEveryChange
