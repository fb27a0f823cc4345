---------------------------- MODULE MCSqlStorage ----------------------------
(***************************************************************************)
(* A small instance of SqlStorage: six rows, of which the second to fourth *)
(* show the same offer (listed to the reader and to everybody), read two   *)
(* at a time while calls add and remove rows before, between and after.    *)
(***************************************************************************)
EXTENDS SqlStorage

CONSTANTS accept, relist, clear, empty, r1

MCOp == [c \in Callers |->
  CASE c = accept -> [kind |-> "accept", old |-> {}, new |-> {1}]
    [] c = relist -> [kind |-> "relist", old |-> {6}, new |-> {3, 4}]
    [] c = clear  -> [kind |-> "clear", old |-> {2, 5}, new |-> {}]
    [] OTHER      -> [kind |-> "empty", old |-> {}, new |-> {}]]

MCOfferOf == [row \in Rows |-> IF row \in {3, 4} THEN 2 ELSE row]
=============================================================================
