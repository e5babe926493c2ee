SPECIFICATION Spec
CONSTANTS
  User <- MCUser
  driver = juice
  Calls <- MCCalls
  App <- MCApp
  builder = builder
  caller = caller
  juice = juice
  first = first
  second = second
INVARIANTS TypeOK ToldOnce KeepsTheApplication StartsTheLayerAbove
