-------------------------- MODULE ListingPolicies --------------------------
(***************************************************************************)
(* The listing policies (components/core/src/policy/): for how long which  *)
(* organizations may see an offer.  A policy answers a sequence of         *)
(* listings, the order in which the code pushes them.                      *)
(***************************************************************************)
EXTENDS Integers, Sequences

MakeListing(org, start, end) == [org |-> org, start |-> start, end |-> end]

(* UniversalAcceptListingPolicy: everyone that has not rejected the offer, *)
(* from its creation to its expiration, also when that is over.            *)
UniversalAccept(orgs, creation, expiration, rejections) ==
  LET Viable(org) == org \notin rejections
      viable == SelectSeq(orgs, Viable)
  IN  [ i \in DOMAIN viable |-> MakeListing(viable[i], creation, expiration) ]

(* HierarchicalListingPolicy: each hierarchy lists its organizations from  *)
(* its base time on; its children start exclusiveTime later, whether or    *)
(* not any of its own organizations is viable (an empty array is truthy).  *)
RECURSIVE BuildListings(_, _, _)
BuildListings(hierarchies, first, rejections) ==
  IF hierarchies = <<>>
  THEN <<>>
  ELSE LET h == Head(hierarchies)
       IN  UniversalAccept(h.orgs, first, first + h.totalTime, rejections)
           \o BuildListings(h.children, first + h.exclusiveTime, rejections)
           \o BuildListings(Tail(hierarchies), first, rejections)
=============================================================================
