----------------------------- MODULE FeedMirror -----------------------------
(***************************************************************************)
(* What following a feed promises: each round that succeeds leaves the     *)
(* copy with exactly the offers that the feed shows at that moment.  Only  *)
(* the versions may lag: a new offer is copied as it is shown, an offer    *)
(* that was copied before never goes back to an older version.             *)
(***************************************************************************)
EXTENDS Integers

CONSTANTS Offers, Versions

VARIABLES
  shown,   \* what the feed shows, [Offers -> Versions \cup {Absent}]
  copied   \* what the copy holds

vars == <<shown, copied>>

Absent  == 0
Content == [Offers -> Versions \cup {Absent}]

Init ==
  /\ shown = [o \in Offers |-> Absent]
  /\ copied = shown

Change ==
  /\ shown' \in Content
  /\ UNCHANGED copied

(* The versions that the copy may hold of an offer after a round.          *)
Caught(o) ==
  IF Absent \in {shown[o], copied[o]} THEN {shown[o]} ELSE copied[o] .. shown[o]

Round ==
  /\ copied' \in Content
  /\ \A o \in Offers : copied'[o] \in Caught(o)
  /\ UNCHANGED shown

Next == Change \/ Round

Spec == Init /\ [][Next]_vars
=============================================================================
