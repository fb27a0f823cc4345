SPECIFICATION Spec
CONSTANTS
  o1 = o1  o2 = o2  a = a  b = b  f1 = f1  f2 = f2  c1 = c1  c2 = c2
  Host = Host  Wildcard = Wildcard
  Offers = {o1}
  OwnOffers = {o1}
  Orgs = {a, b}
  Feeds = {f1}
  Versions = {1, 2}
  Expiration <- MCExpiration
  MaxReservation <- MCMaxReservation
  Lengths = {1, 2}
  Calls = {c1}
  MaxChain = 0
  MaxUpdates = 1
  MaxBegun = 4
  MaxLag = 0
  MaxTime = 5
  Horizon = 3
  Listings <- UniversalToAll
INVARIANTS AcceptedByOne
CHECK_DEADLOCK FALSE
