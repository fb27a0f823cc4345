-------------------------- MODULE MCSqlOfferModel --------------------------
(***************************************************************************)
(* A small instance of SqlOfferModel: one offer of the host and one of b,  *)
(* which comes straight from b or with a chain, under a policy of stages   *)
(* for the one and for everyone for the other.                             *)
(***************************************************************************)
EXTENDS SqlOfferModel, ListingPolicies, TLC

CONSTANTS mine, theirs, a, b, p1, p2

MCOfferedBy == mine :> Host @@ theirs :> b

(* A chain that ends in leave to reshare only, and one that has been       *)
(* through a and gives both.                                               *)
MCChains == { [by |-> <<b>>, reshare |-> TRUE, accept |-> FALSE],
              [by |-> <<b, a>>, reshare |-> TRUE, accept |-> TRUE] }

ExpirationTime(v) == IF v = 1 THEN 2 ELSE MaxTime
MCExpiration == [o \in Offers |-> [v \in Versions |-> ExpirationTime(v)]]
MCMaxReservation == [o \in Offers |-> IF o = mine THEN 2 ELSE 0]

(* The host's offer is shown to a first and then to b as well; what others *)
(* post is shown to both.                                                  *)
AThenB == << [orgs |-> <<a>>, totalTime |-> 4, exclusiveTime |-> 1,
              children |-> << [orgs |-> <<b>>, totalTime |-> 2,
                               exclusiveTime |-> 1, children |-> <<>>] >>] >>

ToAll(v, rejections) == UniversalAccept(<<a, b>>, 0, ExpirationTime(v), rejections)

StagedOrToAll(o, v, first, now, rejections, sharedBy) ==
  IF o = mine THEN BuildListings(AThenB, first, rejections)
  ELSE ToAll(v, rejections \cup sharedBy)

(* Both meet what the theorems ask of a policy, the universal one also     *)
(* what the theorem about reservations asks.                               *)
ASSUME HonoursRefusals /\ ListsEachOnce

ASSUME UniversalListsStably ==
  \A v \in Versions, before, after \in SUBSET Targets :
    StillListed(ToAll(v, before), ToAll(v, after), after)

ProducerSymmetry == Permutations(Producers)
=============================================================================
