------------------------ MODULE PersistentOfferClaims ------------------------
(***************************************************************************)
(* What the documents and comments of the repository say of the offer      *)
(* model, where the code does something else: each is refuted by a run of  *)
(* its own.                                                                *)
(***************************************************************************)
EXTENDS PersistentOfferModel

NewAcceptances(o) == store'[o].accepted \ store[o].accepted

(* An offer under a reservation is accepted by its holder or not at all    *)
(* (standards/transfer_api.md:579).                                        *)
ReservedOnlyForHolder ==
  [][\A o \in Offers : \A acceptance \in NewAcceptances(o) :
       \A e \in store[o].timeline :
         e.reserved /\ Covers(e, clock) => e.target = acceptance.by]_vars

(* An offer that one organization accepted is not accepted by another one  *)
(* (standards/transfer_api.md:577).                                        *)
AcceptedByOne ==
  \A o \in Offers : \A x, y \in store[o].accepted : x.by = y.by
=============================================================================
