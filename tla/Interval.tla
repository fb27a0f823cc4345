------------------------------ MODULE Interval ------------------------------
(***************************************************************************)
(* Half-open time intervals, components/core/src/model/interval.ts: an     *)
(* interval holds the instant startTimeUTC and not the instant endTimeUTC. *)
(* The functions that answer "an interval or undefined" (trim, intersect)  *)
(* and "an array of intervals" (subtract) answer a set of intervals here,  *)
(* the empty set standing for undefined and for the empty array.           *)
(***************************************************************************)
EXTENDS Integers

Lesser(a, b)  == IF a < b THEN a ELSE b
Greater(a, b) == IF a < b THEN b ELSE a

(* The instant t lies in the interval i (any record with start and end).   *)
Covers(i, t) == i.start <= t /\ t < i.end

(* trim: both ends are REPLACED by the given ones, and nothing is left     *)
(* unless the start is before the end.                                     *)
Between(s, e) == IF s < e THEN {[start |-> s, end |-> e]} ELSE {}

Intersect(basis, other) ==
  Between(Greater(basis.start, other.start), Lesser(basis.end, other.end))

(* Mutation of Subtract: only the part before other is kept.               *)
SubtractBefore(basis, others) ==
  IF others = {}
  THEN {[start |-> basis.start, end |-> basis.end]}
  ELSE UNION { Between(Lesser(basis.start, other.start),
                       Lesser(basis.end, other.start)) : other \in others }

(* subtract(basis, other?): the parts of basis before and after other.     *)
(* "others" is {} when other is undefined and {other} when it is given.    *)
Subtract(basis, others) ==
  IF others = {}
  THEN {[start |-> basis.start, end |-> basis.end]}
  ELSE UNION { Between(Lesser(basis.start, other.start),
                       Lesser(basis.end, other.start))
               \cup
               Between(Greater(basis.start, other.end),
                       Greater(basis.end, other.end))
             : other \in others }
=============================================================================
