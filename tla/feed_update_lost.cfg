SPECIFICATION Spec
CONSTANTS
  o1 = o1  o2 = o2  r1 = r1  Undefined = Undefined  Null = Null
  Offers = {o1}
  Versions = {1, 2, 3}
  Runs = {r1}
  CorpusPage = 1
  PollTime = 2
  RetryTime = 1
  Disturbances = {}
  MaxDelay = 0
  MaxChanges = 3
  Horizon = 7
PROPERTIES DiffTransforms
CHECK_DEADLOCK FALSE
