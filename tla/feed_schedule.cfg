SPECIFICATION Spec
CONSTANTS
  o1 = o1  o2 = o2  r1 = r1  Undefined = Undefined  Null = Null
  Offers = {o1, o2}
  Versions = {1, 2}
  Runs = {r1}
  CorpusPage = 1
  PollTime = 3
  RetryTime = 1
  Disturbances = {"early run", "failure", "lost save"}
  MaxDelay = 1
  MaxChanges = 2
  Horizon = 7
PROPERTIES BaselineKept ScheduleKept
CHECK_DEADLOCK FALSE
