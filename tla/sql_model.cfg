SPECIFICATION Spec
CONSTANTS
  mine = mine  theirs = theirs  a = a  b = b  p1 = p1  p2 = p2
  Host = Host  Wildcard = Wildcard
  Offers = {mine, theirs}
  OfferedBy <- MCOfferedBy
  Orgs = {a, b}
  Producers = {p1, p2}
  Versions = {1, 2, 3}
  Expiration <- MCExpiration
  MaxReservation <- MCMaxReservation
  Lengths = {1, 2}
  Chains <- MCChains
  MaxSteps = 3
  MaxTime = 6
  Horizon = 2
  Listings <- StagedOrToAll
INVARIANTS TypeOK NewestListed ChecksHold RejectedUnlisted AuthorityKept
PROPERTIES PastFixed ReservationKept
SYMMETRY ProducerSymmetry
CHECK_DEADLOCK FALSE
