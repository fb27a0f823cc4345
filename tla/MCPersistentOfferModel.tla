----------------------- MODULE MCPersistentOfferModel -----------------------
(***************************************************************************)
(* Small instances of PersistentOfferModel: offers, organizations and      *)
(* feeds as model values, two versions, and the listing policies.          *)
(***************************************************************************)
EXTENDS PersistentOfferClaims, ListingPolicies, TLC

CONSTANTS o1, o2, a, b, f1, f2, c1, c2

(* Version 1 expires while the model runs, version 2 after it.             *)
ExpirationTime(v) == IF v = 1 THEN 3 ELSE MaxTime
MCExpiration == [o \in Offers |-> [v \in Versions |-> ExpirationTime(v)]]

(* Reservations of more than two time units are shortened.                 *)
MCMaxReservation == [o \in Offers |-> 2]

(* Every offer was created before its first listing.                       *)
Known(org) == org \in Orgs
UniversalToAll(o, v, first, now, rej) ==
  UniversalAccept(SelectSeq(<<a, b>>, Known), 0, ExpirationTime(v), rej)

(* The universal policy meets what the theorems ask of a policy.           *)
ASSUME UniversalPolicy ==
  OneListingPerOrg /\ ListsToExpiration /\ ListsEveryone /\ ListsByName

CallSymmetry == Permutations(Calls)
FeedSymmetry == Permutations(Feeds)
=============================================================================
