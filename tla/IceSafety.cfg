SPECIFICATION Safe
CONSTANTS
  User <- MCUser
  driver = juice
  Calls <- MCCalls
  Listener <- MCListener
  RemoteDescription <- MCDescription
  Setup <- MCSetup
  BundleMid <- MCBundleMid
  InitialRole = {"ActPass"}
  AgentEdge <- MCRoundEdge
  app1 = app1
  app2 = app2
  juice = juice
  first = first
  offer = offer
  answer = answer
INVARIANTS TypeOK ClosedAtMostOnce InProgressBeforeCandidates RoleBeforeChecks
PROPERTIES RoleResolvedOnce
