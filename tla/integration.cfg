SPECIFICATION Spec
CONSTANTS
  notifier = notifier
  watcher = watcher
  log = log
  count = count
  watch = watch
  reject = reject
  poster = poster
  source = source
  Root = Root
  Apis = {notifier, watcher}
  Handlers = {log, count, watch}
  ApiOf <- MCApiOf
  Storing = {count}
  Throwing = {count}
  Temporary = {count}
  Updates = {1}
  Changes = 2
  Calls = {reject}
  Caller <- MCCaller
  Targets <- MCTargets
  Connections = 2
INVARIANTS TypeOK InOrder RemoteEventsTrue
PROPERTIES HeardOnce WorkEnds
CHECK_DEADLOCK FALSE
