SPECIFICATION Spec
CONSTANTS
  host = host
  friend = friend
  stranger = stranger
  elsewhere = elsewhere
  unknown = unknown
  unmade = unmade
  unlocked = unlocked
  uninstalled = uninstalled
  misnamed = misnamed
  stuck = stuck
  strict = strict
  offer = offer
  main = main
  side = side
  NotATenant = NotATenant
  NoChain = NoChain
  Offers = {offer}
  Orgs = {host, friend, stranger, elsewhere, unknown, unmade, unlocked, uninstalled, misnamed, stuck, strict}
  Tenants = {host, unknown, unmade, unlocked, uninstalled, misnamed, stuck, strict}
  Requests = {main, side}
  Listed = {friend, elsewhere}
  Rotating = {friend}
  Leaving = {main}
  Fault <- MCFault
  Shares <- MCShares
  Shapes <- MCShapes
  Pluggables = 2
  Connections = 1
  MaxRotations = 1
INVARIANTS TypeOK DoneByRight KeysInUse ChainHonoured AliveWhileUsed
PROPERTIES Answering GivenBack
CHECK_DEADLOCK FALSE
