SPECIFICATION Spec
CONSTANTS
  o1 = o1  o2 = o2  r1 = r1  Undefined = Undefined  Null = Null
  Offers = {o1, o2}
  Versions = {1, 2}
  Runs = {r1}
  CorpusPage = 1
  PollTime = 2
  RetryTime = 1
  Disturbances = {"failure"}
  MaxDelay = 0
  MaxChanges = 3
  Horizon = 6
INVARIANTS TypeOK PolledSeldom
PROPERTIES Mirrors
CHECK_DEADLOCK FALSE
