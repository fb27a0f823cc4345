----------------------------- MODULE MCFeedSync -----------------------------
(***************************************************************************)
(* Small instances of FeedSync: one or two offers and one run, as model    *)
(* values, and the two values that stand for a missing time.               *)
(***************************************************************************)
EXTENDS FeedSync

CONSTANTS o1, o2, r1
=============================================================================
