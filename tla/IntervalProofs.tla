--------------------------- MODULE IntervalProofs ---------------------------
(***************************************************************************)
(* What intersect and subtract answer, for all intervals, the empty and    *)
(* the inverted ones (end before start) included.                          *)
(***************************************************************************)
EXTENDS Interval, TLAPS

AnyInterval == [start : Int, end : Int]

InSome(intervals, t) == \E i \in intervals : Covers(i, t)

(* The instants of trim's answer are those from its start up to its end.   *)
LEMMA BetweenCovers ==
  ASSUME NEW s \in Int, NEW e \in Int, NEW t \in Int
  PROVE  InSome(Between(s, e), t) <=> s <= t /\ t < e
<1>1. CASE s < e
  <2> DEFINE i == [start |-> s, end |-> e]
  <2>1. Between(s, e) = {i} /\ i.start = s /\ i.end = e
    BY <1>1 DEF Between
  <2> HIDE DEF i
  <2> QED BY <2>1 DEF InSome, Covers
<1>2. CASE ~(s < e)
  BY <1>2 DEF Between, InSome, Covers
<1> QED BY <1>1, <1>2

(* intersect answers the instants that both intervals hold                 *)
(* (components/core/src/model/interval.ts:44-52).                          *)
THEOREM IntersectIsCommon ==
  ASSUME NEW basis \in AnyInterval, NEW other \in AnyInterval, NEW t \in Int
  PROVE  InSome(Intersect(basis, other), t) <=> Covers(basis, t) /\ Covers(other, t)
<1> DEFINE s == Greater(basis.start, other.start)
           e == Lesser(basis.end, other.end)
<1>1. s \in Int /\ e \in Int
  BY DEF AnyInterval, Greater, Lesser
<1>2. InSome(Intersect(basis, other), t) <=> s <= t /\ t < e
  BY <1>1, BetweenCovers DEF Intersect
<1> QED BY <1>2 DEF AnyInterval, Greater, Lesser, Covers

(* subtract answers the instants of the basis that the other interval does *)
(* not hold (interval.ts:54-75).                                           *)
THEOREM SubtractIsDifference ==
  ASSUME NEW basis \in AnyInterval, NEW other \in AnyInterval, NEW t \in Int
  PROVE  InSome(Subtract(basis, {other}), t) <=> Covers(basis, t) /\ ~Covers(other, t)
<1> DEFINE before == Between(Lesser(basis.start, other.start),
                             Lesser(basis.end, other.start))
           after  == Between(Greater(basis.start, other.end),
                             Greater(basis.end, other.end))
<1>1. InSome(Subtract(basis, {other}), t) <=> InSome(before, t) \/ InSome(after, t)
  BY DEF Subtract, InSome
<1>2. /\ Lesser(basis.start, other.start) \in Int
      /\ Lesser(basis.end, other.start) \in Int
      /\ Greater(basis.start, other.end) \in Int
      /\ Greater(basis.end, other.end) \in Int
  BY DEF AnyInterval, Lesser, Greater
<1>3. InSome(before, t) <=> /\ Lesser(basis.start, other.start) <= t
                            /\ t < Lesser(basis.end, other.start)
  BY <1>2, BetweenCovers
<1>4. InSome(after, t) <=> /\ Greater(basis.start, other.end) <= t
                           /\ t < Greater(basis.end, other.end)
  BY <1>2, BetweenCovers
<1> HIDE DEF before, after
<1> QED BY <1>1, <1>3, <1>4 DEF AnyInterval, Lesser, Greater, Covers
=============================================================================
