SPECIFICATION Spec
CONSTANTS
  User <- MCUser
  driver = juice
  Calls <- MCLifeCalls
  Listener <- MCListener
  RemoteDescription <- MCDescription
  Setup <- MCSetup
  BundleMid <- MCBundleMid
  InitialRole = {"Active"}
  AgentEdge <- MCShortEdge
  app1 = app1
  app2 = app2
  juice = juice
  first = first
  offer = offer
  answer = answer
PROPERTIES CloseAnnounced CallsReturn AnnouncesEveryState AnnouncesEveryGathering
