SPECIFICATION Spec
CONSTANTS
  Thread <- MCThread
  Listener <- MCListener
  app1 = app1
  app2 = app2
  driver = driver
  first = first
  second = second
INVARIANTS TypeOK AnnouncedOnce QuiescentIsHeard
PROPERTIES ClosedIsFinal CloseAnnounced AnnouncesEveryMove
