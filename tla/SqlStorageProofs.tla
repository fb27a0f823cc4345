-------------------------- MODULE SqlStorageProofs --------------------------
(***************************************************************************)
(* Proofs about SqlStorage, for any number of calls, readers, connections  *)
(* and rows and any sizes of pages: the pool is not overdrawn and its      *)
(* queue holds just the calls that wait; and a read that goes page by page *)
(* over rows that come and go leaves out and doubles no more than it must. *)
(***************************************************************************)
EXTENDS SqlStorage, FiniteSetTheorems, SequenceTheorems, WellFoundedInduction, TLAPS

Typed ==
  /\ calls \in [Callers -> [state : CallState, done : Nat]]
  /\ queue \in Seq(Callers)

Inv == Typed /\ PoolKept

-----------------------------------------------------------------------------
(* One call changes its state.                                             *)
LEMMA Changed ==
  ASSUME Typed, NEW c \in Callers, NEW s \in CallState, SetState(c, s)
  PROVE  /\ calls' \in [Callers -> [state : CallState, done : Nat]]
         /\ calls'[c].state = s
         /\ \A d \in Callers \ {c} : calls'[d] = calls[d]
<1>1. calls[c] \in [state : CallState, done : Nat]
  BY DEF Typed
<1>2. [calls[c] EXCEPT !.state = s] \in [state : CallState, done : Nat]
  BY <1>1
<1>3. calls' = [calls EXCEPT ![c] = [calls[c] EXCEPT !.state = s]]
  BY DEF SetState
<1>4. calls'[c] = [calls[c] EXCEPT !.state = s]
  BY <1>3 DEF Typed
<1> QED BY <1>1, <1>2, <1>3, <1>4 DEF Typed

(* The connections taken are those of the calls open or leaked.            *)
Occupied == InState("open") \cup InState("leaked")

LEMMA Finite ==
  ASSUME NEW S \in SUBSET Callers
  PROVE  IsFiniteSet(S) /\ Cardinality(S) \in Nat
  BY ConstantsAssumption, FS_Subset, FS_CardinalityType

(* The queue does not change, nor do the calls that wait, and no           *)
(* connection is taken.                                                    *)
LEMMA NothingTaken ==
  ASSUME Inv, Typed', queue' = queue, Occupied' \subseteq Occupied,
         InState("waiting")' = InState("waiting")
  PROVE  Inv'
<1>1. Cardinality(Occupied') <= Cardinality(Occupied)
  <2>1. Occupied \in SUBSET Callers
    BY DEF Occupied, InState
  <2> QED BY <2>1, Finite, FS_Subset
<1>2. /\ Cardinality(Occupied') \in Nat /\ Cardinality(Occupied) \in Nat
      /\ Connections \in Nat
  <2>1. Occupied \in SUBSET Callers /\ Occupied' \in SUBSET Callers
    BY DEF Occupied, InState
  <2> QED BY <2>1, Finite, ConstantsAssumption
<1>3. Cardinality(Occupied) <= Connections
  BY DEF Inv, PoolKept, Occupied
<1>4. Cardinality(Occupied') <= Connections
  BY <1>1, <1>2, <1>3
<1> QED BY <1>4 DEF Inv, PoolKept, Occupied

(* The call at the head leaves the queue, and waits no more.               *)
LEMMA HeadLeaves ==
  ASSUME Inv, queue # <<>>, queue' = Tail(queue), NEW s \in CallState,
         s # "waiting", SetState(Head(queue), s)
  PROVE  /\ Typed'
         /\ { queue'[i] : i \in DOMAIN queue' } = InState("waiting")'
         /\ \A i, j \in DOMAIN queue' : queue'[i] = queue'[j] => i = j
<1> DEFINE c == Head(queue)
           n == Len(queue)
<1>1. /\ queue \in Seq(Callers) /\ n \in Nat \ {0} /\ DOMAIN queue = 1 .. n
      /\ c \in Callers /\ c = queue[1]
  BY EmptySeq, LenProperties, HeadTailProperties DEF Inv, Typed
<1>2. /\ queue' \in Seq(Callers) /\ Len(queue') = n - 1
      /\ \A i \in 1 .. n - 1 : queue'[i] = queue[i + 1]
  BY <1>1, HeadTailProperties
<1>3. DOMAIN queue' = 1 .. n - 1
  BY <1>2, LenProperties
<1>4. /\ calls' \in [Callers -> [state : CallState, done : Nat]]
      /\ calls'[c].state = s
      /\ \A d \in Callers \ {c} : calls'[d] = calls[d]
  BY <1>1, Changed DEF Inv
<1>5. Typed'
  BY <1>2, <1>4 DEF Typed
<1>6. \A i, j \in 1 .. n : queue[i] = queue[j] => i = j
  BY <1>1 DEF Inv, PoolKept
<1>7. { queue[i] : i \in 1 .. n } = InState("waiting")
  BY <1>1 DEF Inv, PoolKept
<1> HIDE DEF c, n
<1>8. InState("waiting")' = InState("waiting") \ {c}
  BY <1>4, <1>1 DEF InState
<1>9. { queue'[i] : i \in 1 .. n - 1 } = { queue[i] : i \in 1 .. n } \ {c}
  <2>1. ASSUME NEW i \in 1 .. n - 1
        PROVE  queue'[i] \in { queue[j] : j \in 1 .. n } \ {c}
    <3>1. i + 1 \in 1 .. n /\ 1 \in 1 .. n /\ i + 1 # 1 /\ queue'[i] = queue[i + 1]
      BY <1>1, <1>2
    <3> QED BY <1>1, <1>6, <3>1
  <2>2. ASSUME NEW j \in 1 .. n, queue[j] # c
        PROVE  queue[j] \in { queue'[i] : i \in 1 .. n - 1 }
    <3>1. j # 1 /\ j - 1 \in 1 .. n - 1 /\ (j - 1) + 1 = j
      BY <1>1, <2>2
    <3> QED BY <1>2, <3>1
  <2> QED BY <2>1, <2>2
<1>10. \A i, j \in 1 .. n - 1 : queue'[i] = queue'[j] => i = j
  <2>1. \A i \in 1 .. n - 1 : i + 1 \in 1 .. n
    BY <1>1
  <2> QED BY <1>1, <1>2, <1>6, <2>1
<1> QED BY <1>3, <1>5, <1>7, <1>8, <1>9, <1>10

-----------------------------------------------------------------------------
LEMMA InvInit == Init => Inv
<1> SUFFICES ASSUME Init PROVE Inv
  OBVIOUS
<1>1. Typed
  BY DEF Init, Typed, CallState
<1>2. \A s \in {"open", "leaked", "waiting"} : InState(s) = {}
  BY DEF Init, InState
<1>3. InState("open") \cup InState("leaked") = {}
  BY <1>2
<1>4. Cardinality(InState("open") \cup InState("leaked")) <= Connections
  BY <1>3, FS_EmptySet, ConstantsAssumption
<1>5. DOMAIN queue = {}
  BY DEF Init
<1> QED BY <1>1, <1>2, <1>4, <1>5 DEF Inv, PoolKept

LEMMA RequestStep ==
  ASSUME Inv, NEW c \in Callers, Request(c)
  PROVE  Inv'
<1>0. Typed /\ calls[c].state = "idle" /\ "waiting" \in CallState /\ "refused" \in CallState
  BY DEF Inv, Request, CallState
<1>1. CASE SetState(c, "refused") /\ UNCHANGED queue
  <2>1. /\ Typed' /\ calls'[c].state = "refused"
        /\ \A d \in Callers \ {c} : calls'[d] = calls[d]
    BY <1>0, <1>1, Changed DEF Typed
  <2>2. Occupied' \subseteq Occupied /\ InState("waiting")' = InState("waiting")
    BY <1>0, <2>1 DEF Occupied, InState
  <2> QED BY <1>1, <2>1, <2>2, NothingTaken
<1>2. CASE SetState(c, "waiting") /\ queue' = Append(queue, c)
  <2> DEFINE n == Len(queue)
  <2>1. /\ calls' \in [Callers -> [state : CallState, done : Nat]]
        /\ calls'[c].state = "waiting"
        /\ \A d \in Callers \ {c} : calls'[d] = calls[d]
    BY <1>0, <1>2, Changed
  <2>2. queue \in Seq(Callers) /\ n \in Nat /\ DOMAIN queue = 1 .. n
    BY <1>0, LenProperties DEF Typed
  <2>3. /\ queue' \in Seq(Callers) /\ Len(queue') = n + 1
        /\ \A i \in 1 .. n : queue'[i] = queue[i]
        /\ queue'[n + 1] = c
    BY <1>2, <2>2, AppendProperties
  <2>4. DOMAIN queue' = 1 .. n + 1
    BY <2>3, LenProperties
  <2>5. { queue[i] : i \in 1 .. n } = InState("waiting")
    BY <2>2 DEF Inv, PoolKept
  <2>6. \A i, j \in 1 .. n : queue[i] = queue[j] => i = j
    BY <2>2 DEF Inv, PoolKept
  <2> HIDE DEF n
  <2>7. c \notin InState("waiting") /\ InState("waiting")' = InState("waiting") \cup {c}
    BY <1>0, <2>1 DEF InState
  <2>8. \A i \in 1 .. n + 1 : i \in 1 .. n \/ i = n + 1
    BY <2>2
  <2>9. { queue'[i] : i \in 1 .. n + 1 } = { queue[i] : i \in 1 .. n } \cup {c}
    <3>1. n + 1 \in 1 .. n + 1 /\ 1 .. n \subseteq 1 .. n + 1
      BY <2>2
    <3> QED BY <2>3, <2>8, <3>1
  <2>10. \A i, j \in 1 .. n + 1 : queue'[i] = queue'[j] => i = j
    <3>1. \A i \in 1 .. n : queue[i] # c
      BY <2>5, <2>7
    <3> QED BY <2>3, <2>6, <2>8, <3>1
  <2>11. Occupied' = Occupied
    BY <1>0, <2>1 DEF Occupied, InState
  <2>12. Cardinality(Occupied') <= Connections
    BY <2>11 DEF Inv, PoolKept, Occupied
  <2> QED BY <2>1, <2>3, <2>4, <2>5, <2>7, <2>9, <2>10, <2>12
          DEF Inv, Typed, PoolKept, Occupied
<1> QED BY <1>1, <1>2 DEF Request

LEMMA BeginStep == Inv /\ Begin => Inv'
<1> SUFFICES ASSUME Inv, Begin PROVE Inv'
  OBVIOUS
<1> DEFINE c == Head(queue)
<1>1. /\ Typed'
      /\ { queue'[i] : i \in DOMAIN queue' } = InState("waiting")'
      /\ \A i, j \in DOMAIN queue' : queue'[i] = queue'[j] => i = j
  BY HeadLeaves DEF Begin, CallState
<1>2. c \in Callers
  BY HeadTailProperties DEF Inv, Typed, Begin
<1>3. /\ calls'[c].state = "open"
      /\ \A d \in Callers \ {c} : calls'[d] = calls[d]
  BY <1>2, Changed DEF Begin, Inv, CallState
<1> HIDE DEF c
<1>4. Occupied' \subseteq Occupied \cup {c} /\ Occupied \in SUBSET Callers /\ Occupied' \in SUBSET Callers
  BY <1>2, <1>3 DEF Occupied, InState
<1>5. IsFiniteSet(Occupied \cup {c}) /\ Cardinality(Occupied \cup {c}) <= Cardinality(Occupied) + 1
  <2>1. IsFiniteSet(Occupied) /\ Cardinality(Occupied) \in Nat
    BY <1>4, Finite
  <2> QED BY <2>1, FS_AddElement
<1>6. Cardinality(Occupied') <= Cardinality(Occupied \cup {c})
  BY <1>4, <1>5, FS_Subset
<1>7. Cardinality(Occupied) < Connections
  BY DEF Begin, Free, Held, Occupied
<1>8. /\ Cardinality(Occupied) \in Nat /\ Cardinality(Occupied') \in Nat /\ Connections \in Nat
      /\ Cardinality(Occupied \cup {c}) \in Nat
  BY <1>4, <1>5, Finite, FS_CardinalityType, ConstantsAssumption
<1>9. Cardinality(Occupied') <= Connections
  BY <1>5, <1>6, <1>7, <1>8
<1> QED BY <1>1, <1>9 DEF Inv, PoolKept, Occupied

LEMMA RefuseStep == Inv /\ Refuse => Inv'
<1> SUFFICES ASSUME Inv, Refuse PROVE Inv'
  OBVIOUS
<1> DEFINE c == Head(queue)
<1>1. /\ Typed'
      /\ { queue'[i] : i \in DOMAIN queue' } = InState("waiting")'
      /\ \A i, j \in DOMAIN queue' : queue'[i] = queue'[j] => i = j
  BY HeadLeaves DEF Refuse, CallState
<1>2. c \in Callers
  BY HeadTailProperties DEF Inv, Typed, Refuse
<1>3. /\ calls'[c].state = "refused"
      /\ \A d \in Callers \ {c} : calls'[d] = calls[d]
  BY <1>2, Changed DEF Refuse, Inv, CallState
<1> HIDE DEF c
<1>4. Occupied' \subseteq Occupied /\ Occupied \in SUBSET Callers /\ Occupied' \in SUBSET Callers
  BY <1>2, <1>3 DEF Occupied, InState
<1>5. Cardinality(Occupied') <= Cardinality(Occupied)
  BY <1>4, Finite, FS_Subset
<1>6. Cardinality(Occupied) <= Connections
  BY DEF Inv, PoolKept, Occupied
<1>7. Cardinality(Occupied) \in Nat /\ Cardinality(Occupied') \in Nat /\ Connections \in Nat
  BY <1>4, Finite, ConstantsAssumption
<1>8. Cardinality(Occupied') <= Connections
  BY <1>5, <1>6, <1>7
<1> QED BY <1>1, <1>8 DEF Inv, PoolKept, Occupied

(* A transaction goes on, throws or ends.                                  *)
LEMMA OpenStep ==
  ASSUME Inv, NEW c \in Callers, Execute(c) \/ Throw(c) \/ Commit(c) \/ Fail(c)
  PROVE  Inv'
<1>0. Typed /\ calls[c].state = "open" /\ queue' = queue
  BY DEF Inv, Execute, Throw, Commit, Fail
<1>1. CASE Execute(c)
  <2>1. calls' = [calls EXCEPT ![c].done = @ + 1]
    BY <1>1 DEF Execute
  <2>2. calls[c] \in [state : CallState, done : Nat]
    BY <1>0 DEF Typed
  <2>3. calls' \in [Callers -> [state : CallState, done : Nat]]
    BY <1>0, <2>1, <2>2 DEF Typed
  <2>4. \A d \in Callers : calls'[d].state = calls[d].state
    BY <1>0, <2>1, <2>2 DEF Typed
  <2>5. Occupied' \subseteq Occupied /\ InState("waiting")' = InState("waiting")
    BY <2>4 DEF Occupied, InState
  <2> QED BY <1>0, <2>3, <2>5, NothingTaken DEF Typed
<1>2. CASE Throw(c) \/ Commit(c) \/ Fail(c)
  <2>1. PICK s \in {"leaked", "answered", "refused"} : SetState(c, s)
    BY <1>2 DEF Throw, Commit, Fail
  <2>2. /\ Typed' /\ calls'[c].state = s
        /\ \A d \in Callers \ {c} : calls'[d] = calls[d]
    BY <1>0, <2>1, Changed DEF Typed, CallState
  <2>3. Occupied' \subseteq Occupied /\ InState("waiting")' = InState("waiting")
    BY <1>0, <2>2 DEF Occupied, InState
  <2> QED BY <1>0, <2>2, <2>3, NothingTaken
<1> QED BY <1>1, <1>2

(* A crash gives every connection back and empties the queue.              *)
LEMMA CrashStep == Inv /\ Crash => Inv'
<1> SUFFICES ASSUME Inv, Crash PROVE Inv'
  OBVIOUS
<1>1. ASSUME NEW c \in Callers
      PROVE  /\ calls'[c] \in [state : CallState, done : Nat]
             /\ calls'[c].state \notin {"open", "leaked", "waiting"}
  <2>1. calls[c] \in [state : CallState, done : Nat]
    BY DEF Inv, Typed
  <2>2. calls'[c] = IF calls[c].state \in {"waiting", "open"}
                    THEN [calls[c] EXCEPT !.state = "lost"]
                    ELSE IF calls[c].state = "leaked"
                    THEN [calls[c] EXCEPT !.state = "refused"]
                    ELSE calls[c]
    BY DEF Crash
  <2> QED BY <2>1, <2>2 DEF CallState
<1>2. queue' = <<>> /\ queue' \in Seq(Callers) /\ DOMAIN queue' = {}
  BY DEF Crash
<1>3. Typed'
  BY <1>1, <1>2 DEF Crash, Typed
<1>4. InState("open")' \cup InState("leaked")' = {} /\ InState("waiting")' = {}
  BY <1>1 DEF InState
<1>5. Cardinality(InState("open")' \cup InState("leaked")') <= Connections
  <2>1. 0 <= Connections
    BY ConstantsAssumption
  <2> QED BY <1>4, <2>1, FS_EmptySet
<1> QED BY <1>2, <1>3, <1>4, <1>5 DEF Inv, PoolKept

LEMMA InvNext == Inv /\ [Next]_vars => Inv'
<1> SUFFICES ASSUME Inv, [Next]_vars PROVE Inv'
  OBVIOUS
<1>1. CASE UNCHANGED <<calls, queue>>
  BY <1>1 DEF Inv, Typed, PoolKept, InState
<1>2. \/ UNCHANGED <<calls, queue>> \/ Begin \/ Refuse \/ Crash
      \/ \E c \in Callers : Request(c) \/ Execute(c) \/ Throw(c) \/ Commit(c) \/ Fail(c)
  BY DEF Next, vars, Connect, BeginRead, ReadPage, RefuseRead
<1> QED BY <1>1, <1>2, BeginStep, RefuseStep, CrashStep, RequestStep, OpenStep

(* For any number of calls, connections and crashes: never more calls have *)
(* a connection than there are, those that threw included, and exactly the *)
(* calls that wait are in the queue, once each (sqloprpersistentstorage.ts *)
(* createTransaction, SqlPersistentStorageTransaction).                    *)
THEOREM PoolIsKept == Spec => []PoolKept
<1>1. Inv => PoolKept
  BY DEF Inv
<1> QED BY <1>1, InvInit, InvNext, PTL DEF Spec

-----------------------------------------------------------------------------
(* Rows are found by counting those before them                            *)

Rank(T, x) == Cardinality({ y \in T : y <= x })

LEMMA MinExists ==
  ASSUME NEW S \in SUBSET Nat, S # {}
  PROVE  \E m \in S : \A x \in S : m <= x
<1>1. \E m \in S : \A y \in S : ~(<<y, m>> \in OpToRel(<, Nat))
  BY NatLessThanWellFounded, WFMin
<1>2. PICK m \in S : \A y \in S : ~(<<y, m>> \in OpToRel(<, Nat))
  BY <1>1
<1>3. \A y \in S : ~(y < m)
  BY <1>2 DEF OpToRel
<1> QED BY <1>3

HasMax(S) == \E m \in S : \A x \in S : x <= m

(* A smallest set without a largest number would have one without it.      *)
LEMMA MaxExists ==
  ASSUME NEW T \in SUBSET Nat, IsFiniteSet(T), T # {}
  PROVE  HasMax(T)
<1> DEFINE bad == { n \in Nat : \E S \in SUBSET Nat :
                      IsFiniteSet(S) /\ S # {} /\ Cardinality(S) = n /\ ~HasMax(S) }
<1>1. SUFFICES bad = {}
  BY FS_CardinalityType
<1>2. SUFFICES ASSUME bad # {} PROVE FALSE
  OBVIOUS
<1>3. PICK n \in bad : \A k \in bad : n <= k
  BY <1>2, MinExists
<1>4. PICK S \in SUBSET Nat : IsFiniteSet(S) /\ S # {} /\ Cardinality(S) = n /\ ~HasMax(S)
  BY <1>3
<1>5. PICK x \in S : TRUE
  BY <1>4
<1> DEFINE R == S \ {x}
<1>6. IsFiniteSet(R) /\ Cardinality(R) = n - 1 /\ R \in SUBSET Nat
  BY <1>4, <1>5, FS_RemoveElement
<1>7. R = {} \/ HasMax(R)
  <2>1. Cardinality(R) \in Nat /\ n \in Nat
    BY <1>3, <1>6, FS_CardinalityType
  <2>2. Cardinality(R) \notin bad
    BY <1>3, <1>6, <2>1
  <2> QED BY <1>6, <2>1, <2>2
<1>8. CASE R = {}
  <2>1. \A y \in S : y <= x
    BY <1>4, <1>5, <1>8
  <2> QED BY <1>4, <1>5, <2>1 DEF HasMax
<1>9. CASE HasMax(R)
  <2>1. PICK m \in R : \A y \in R : y <= m
    BY <1>9 DEF HasMax
  <2>2. m \in Nat /\ x \in Nat /\ \A y \in S : y \in Nat
    BY <1>4, <1>5, <2>1
  <2>3. \A y \in S : y = x \/ y <= m
    BY <2>1
  <2>4. (\A y \in S : y <= m) \/ (\A y \in S : y <= x)
    BY <2>2, <2>3
  <2> QED BY <1>4, <1>5, <2>1, <2>4 DEF HasMax
<1> QED BY <1>7, <1>8, <1>9

LEMMA RankType ==
  ASSUME NEW T \in SUBSET Nat, NEW x \in Nat
  PROVE  IsFiniteSet({ y \in T : y <= x }) /\ Rank(T, x) \in Nat
<1> DEFINE low == { y \in T : y <= x }
<1>1. low \in SUBSET Nat /\ \A y \in low : y <= x
  OBVIOUS
<1>2. IsFiniteSet(low)
  BY <1>1, FS_BoundedSetOfNaturals
<1> QED BY <1>2, FS_CardinalityType DEF Rank

(* What lies up to x of one set lies in another as well.                   *)
LEMMA RankOfSubset ==
  ASSUME NEW S \in SUBSET Nat, NEW T \in SUBSET Nat, NEW x \in Nat, NEW z \in Nat,
         \A y \in S : y <= x => y \in T /\ y <= z
  PROVE  Rank(S, x) <= Rank(T, z)
<1> DEFINE low  == { y \in S : y <= x }
           high == { y \in T : y <= z }
<1>1. IsFiniteSet(high) /\ low \in SUBSET high
  BY RankType
<1> QED BY <1>1, FS_Subset DEF Rank

LEMMA RankGrows ==
  ASSUME NEW T \in SUBSET Nat, NEW x \in Nat, NEW z \in T, x < z
  PROVE  Rank(T, x) < Rank(T, z)
<1> DEFINE low  == { y \in T : y <= x }
           high == { y \in T : y <= z }
<1>1. IsFiniteSet(high) /\ low \in SUBSET high
  <2>1. \A y \in T : y <= x => y <= z
    OBVIOUS
  <2> QED BY <2>1, RankType
<1>2. z \in high /\ z \notin low
  OBVIOUS
<1>3. Cardinality(low) <= Cardinality(high) /\ Cardinality(low) # Cardinality(high)
  BY <1>1, <1>2, FS_Subset
<1>4. Rank(T, x) \in Nat /\ Rank(T, z) \in Nat
  BY RankType
<1> QED BY <1>3, <1>4 DEF Rank

LEMMA RankWithin ==
  ASSUME NEW T \in SUBSET Nat, IsFiniteSet(T), NEW x \in Nat
  PROVE  Rank(T, x) <= Cardinality(T)
<1>1. { y \in T : y <= x } \in SUBSET T
  OBVIOUS
<1> QED BY <1>1, FS_Subset DEF Rank

LEMMA RankPositive ==
  ASSUME NEW T \in SUBSET Nat, NEW x \in T
  PROVE  Rank(T, x) >= 1
<1> DEFINE low == { y \in T : y <= x }
<1>1. IsFiniteSet(low) /\ x \in low /\ Rank(T, x) \in Nat
  BY RankType
<1>2. Cardinality(low) # 0
  BY <1>1, FS_EmptySet
<1> QED BY <1>1, <1>2 DEF Rank

Ranked(T, i) == \E row \in T : Rank(T, row) = i

(* Every place up to the number of rows is taken.                          *)
LEMMA RankExists ==
  ASSUME NEW T \in SUBSET Nat, IsFiniteSet(T), NEW i \in 1 .. Cardinality(T)
  PROVE  Ranked(T, i)
<1> DEFINE Full(S) == \A k \in 1 .. Cardinality(S) : Ranked(S, k)
           bad == { n \in Nat : \E S \in SUBSET Nat :
                      IsFiniteSet(S) /\ Cardinality(S) = n /\ ~Full(S) }
<1>1. SUFFICES bad = {}
  BY FS_CardinalityType
<1>2. SUFFICES ASSUME bad # {} PROVE FALSE
  OBVIOUS
<1>3. PICK n \in bad : \A k \in bad : n <= k
  BY <1>2, MinExists
<1>4. PICK S \in SUBSET Nat : IsFiniteSet(S) /\ Cardinality(S) = n /\ ~Full(S)
  BY <1>3
<1>5. n \in Nat /\ S # {}
  BY <1>3, <1>4, FS_EmptySet
<1>6. PICK m \in S : \A x \in S : x <= m
  BY <1>4, <1>5, MaxExists DEF HasMax
<1> DEFINE R == S \ {m}
<1>7. IsFiniteSet(R) /\ Cardinality(R) = n - 1 /\ R \in SUBSET Nat
  BY <1>4, <1>6, FS_RemoveElement
<1>8. Full(R)
  <2>1. Cardinality(R) \in Nat /\ Cardinality(R) < n
    BY <1>5, <1>7, FS_CardinalityType
  <2>2. Cardinality(R) \notin bad
    BY <1>3, <2>1
  <2> QED BY <1>7, <2>1, <2>2
<1>9. Rank(S, m) = n
  <2>1. { y \in S : y <= m } = S
    BY <1>6
  <2> QED BY <1>4, <2>1 DEF Rank
<1>10. ASSUME NEW x \in R PROVE Rank(R, x) = Rank(S, x)
  <2>1. m \in Nat /\ x \in Nat /\ ~(m <= x)
    BY <1>4, <1>6
  <2>2. { y \in R : y <= x } = { y \in S : y <= x }
    BY <2>1
  <2> QED BY <2>2 DEF Rank
<1>11. ASSUME NEW k \in 1 .. n PROVE Ranked(S, k)
  <2>1. CASE k = n
    BY <1>6, <1>9, <2>1 DEF Ranked
  <2>2. CASE k # n
    <3>1. k \in 1 .. Cardinality(R)
      BY <1>5, <1>7, <2>2
    <3>2. PICK x \in R : Rank(R, x) = k
      BY <1>8, <3>1 DEF Ranked
    <3> QED BY <1>10, <3>2 DEF Ranked
  <2> QED BY <2>1, <2>2
<1> QED BY <1>4, <1>11

(* The row at a place, and the place of a row.                             *)
LEMMA RowAtPlace ==
  ASSUME NEW T \in SUBSET Nat, IsFiniteSet(T), NEW i \in 1 .. Cardinality(T)
  PROVE  /\ RowAt(T, i) \in T
         /\ Rank(T, RowAt(T, i)) = i
         /\ \A row \in T : Rank(T, row) = i => row = RowAt(T, i)
<1>1. PICK row \in T : Cardinality({ x \in T : x <= row }) = i
  BY RankExists DEF Ranked, Rank
<1>2. RowAt(T, i) \in T /\ Cardinality({ x \in T : x <= RowAt(T, i) }) = i
  BY <1>1 DEF RowAt
<1>3. RowAt(T, i) \in T /\ Rank(T, RowAt(T, i)) = i
  BY <1>2 DEF Rank
<1> HIDE DEF Rank
<1>4. ASSUME NEW x \in T, Rank(T, x) = i
      PROVE  x = RowAt(T, i)
  <2> DEFINE r == RowAt(T, i)
  <2>1. r \in T /\ Rank(T, r) = i /\ i \in Nat
    BY <1>3
  <2> HIDE DEF r
  <2>2. x < r \/ r < x \/ x = r
    BY <2>1
  <2>3. ~(x < r)
    <3>1. x < r => Rank(T, x) < Rank(T, r)
      BY <2>1, RankGrows
    <3> QED BY <1>4, <2>1, <3>1
  <2>4. ~(r < x)
    <3>1. r < x => Rank(T, r) < Rank(T, x)
      BY <2>1, RankGrows
    <3> QED BY <1>4, <2>1, <3>1
  <2> QED BY <2>2, <2>3, <2>4 DEF r
<1> QED BY <1>3, <1>4

-----------------------------------------------------------------------------
(* A page, row by row                                                      *)

LEMMA TakeRowType ==
  ASSUME NEW g \in Seq(Rows), NEW row \in Rows, Len(g) <= ResultPage
  PROVE  TakeRow(g, row) \in Seq(Rows) /\ Len(TakeRow(g, row)) <= ResultPage
<1>1. ResultPage \in Nat /\ Len(g) \in Nat
  BY ConstantsAssumption, LenProperties
<1>2. Append(g, row) \in Seq(Rows) /\ Len(Append(g, row)) = Len(g) + 1
  BY AppendProperties
<1> HIDE DEF Last
<1> QED BY <1>1, <1>2 DEF TakeRow, Yield

(* What has been taken after each row of a page.                           *)
Step(f, got, page, i) == IF i = 0 THEN got ELSE TakeRow(f[i - 1], page[i])

Takes(f, got, page, k) == f = [i \in 0 .. k |-> Step(f, got, page, i)]

LEMMA TakesNext ==
  ASSUME NEW got, NEW page, NEW k \in Nat, k # 0, NEW f, Takes(f, got, page, k - 1)
  PROVE  \E h : Takes(h, got, page, k)
<1> DEFINE h == [i \in 0 .. k |-> IF i = k THEN TakeRow(f[k - 1], page[k]) ELSE f[i]]
<1>1. ASSUME NEW i \in 0 .. k PROVE h[i] = Step(h, got, page, i)
  <2>1. CASE i = k
    <3>1. k - 1 \in 0 .. k /\ k - 1 # k
      OBVIOUS
    <3>2. h[k - 1] = f[k - 1] /\ h[i] = TakeRow(f[k - 1], page[k])
      BY <2>1, <3>1
    <3> QED BY <2>1, <3>2 DEF Step
  <2>2. CASE i # k
    <3>1. i \in 0 .. k - 1 /\ h[i] = f[i]
      BY <2>2
    <3>2. f[i] = Step(f, got, page, i)
      BY <3>1 DEF Takes
    <3>3. i # 0 => i - 1 \in 0 .. k /\ i - 1 # k
      BY <3>1
    <3>4. i # 0 => h[i - 1] = f[i - 1]
      BY <3>3
    <3> QED BY <3>1, <3>2, <3>4 DEF Step
  <2> QED BY <2>1, <2>2
<1>2. DOMAIN h = 0 .. k
  OBVIOUS
<1>3. h = [i \in 0 .. k |-> h[i]]
  OBVIOUS
<1> HIDE DEF h
<1>4. h = [i \in 0 .. k |-> Step(h, got, page, i)]
  BY <1>1, <1>3
<1> QED BY <1>4 DEF Takes

LEMMA TakesExists ==
  ASSUME NEW got, NEW page, NEW n \in Nat
  PROVE  \E f : Takes(f, got, page, n)
<1> DEFINE bad == { k \in Nat : ~ \E f : Takes(f, got, page, k) }
<1>1. SUFFICES ASSUME bad # {} PROVE FALSE
  OBVIOUS
<1>2. PICK k \in bad : \A j \in bad : k <= j
  BY <1>1, MinExists
<1>3. k # 0
  <2> DEFINE f == [i \in 0 .. 0 |-> got]
  <2>1. f = [i \in 0 .. 0 |-> Step(f, got, page, i)]
    BY DEF Step
  <2>2. Takes(f, got, page, 0)
    BY <2>1 DEF Takes
  <2> QED BY <1>2, <2>2
<1>4. k - 1 \in Nat /\ ~(k <= k - 1)
  BY <1>2, <1>3
<1>5. PICK f : Takes(f, got, page, k - 1)
  BY <1>2, <1>4
<1> QED BY <1>2, <1>3, <1>5, TakesNext

(* Taken goes through the page row by row.                                 *)
ByRow(f, got, page) ==
  /\ f[0] = got
  /\ \A i \in 1 .. Len(page) : f[i] = TakeRow(f[i - 1], page[i])
  /\ Taken(got, page) = f[Len(page)]

LEMMA TakenByRow ==
  ASSUME NEW got, NEW page, Len(page) \in Nat
  PROVE  \E f : ByRow(f, got, page)
<1> DEFINE n == Len(page)
           f == CHOOSE h : h = [i \in 0 .. n |-> IF i = 0 THEN got ELSE TakeRow(h[i - 1], page[i])]
<1>1. \E h : h = [i \in 0 .. n |-> IF i = 0 THEN got ELSE TakeRow(h[i - 1], page[i])]
  <2>1. PICK h : Takes(h, got, page, n)
    BY TakesExists
  <2>2. h = [i \in 0 .. n |-> IF i = 0 THEN got ELSE TakeRow(h[i - 1], page[i])]
    BY <2>1 DEF Takes, Step
  <2> QED BY <2>2
<1>2. f = [i \in 0 .. n |-> IF i = 0 THEN got ELSE TakeRow(f[i - 1], page[i])]
  BY <1>1
<1>3. Taken(got, page) = f[n]
  BY DEF Taken
<1> HIDE DEF f
<1>4. f[0] = got
  BY <1>2
<1>5. ASSUME NEW i \in 1 .. n PROVE f[i] = TakeRow(f[i - 1], page[i])
  BY <1>2
<1> QED BY <1>3, <1>4, <1>5 DEF ByRow

-----------------------------------------------------------------------------
(* What an answer owes to the first k rows of a table T                    *)

Named(g, row) == \E i \in DOMAIN g : OfferOf[g[i]] = OfferOf[row]

AddedUpTo(added, x)  == \E new \in added : new <= x
GoneBefore(gone, x) == \E y \in gone : y < x

(* Nothing is left out of the rows that stayed.                            *)
Covered(g, k, T, steady, removed) ==
  \A row \in steady :
    Rank(T, row) <= k => Named(g, row) \/ GoneBefore(removed, row)

(* What was named lies within those rows, and in their order, and is not   *)
(* named twice, but for rows that were added.                              *)
Within(g, k, T, added) ==
  \A j \in DOMAIN g : \A x \in Nat :
    x <= g[j] => Rank(T, x) <= k \/ AddedUpTo(added, x)

Ascending(g, added) ==
  \A i, j \in DOMAIN g : i < j => g[i] < g[j] \/ AddedUpTo(added, g[j])

Distinct(g, added) ==
  \A i, j \in DOMAIN g :
    OfferOf[g[i]] = OfferOf[g[j]] /\ i < j => AddedUpTo(added, g[j])

Orderly(g, k, T, added) ==
  Within(g, k, T, added) /\ Ascending(g, added) /\ Distinct(g, added)

LEMMA Contiguous ==
  ASSUME NEW x \in Rows, NEW y \in Rows, NEW z \in Rows, x < y, y < z,
         OfferOf[x] = OfferOf[z]
  PROVE  OfferOf[y] = OfferOf[x]
  BY ConstantsAssumption

LEMMA RowsAreNumbers == Rows \subseteq Nat
  BY ConstantsAssumption

(* Going further changes nothing for what was named.                       *)
LEMMA OrderlyFurther ==
  ASSUME NEW g, NEW k \in Nat, NEW l \in Nat, k <= l, NEW T \in SUBSET Nat, NEW added,
         Orderly(g, k, T, added)
  PROVE  Orderly(g, l, T, added)
<1>1. ASSUME NEW x \in Nat, Rank(T, x) <= k PROVE Rank(T, x) <= l
  <2>1. Rank(T, x) \in Nat
    BY RankType
  <2> QED BY <1>1, <2>1
<1> QED BY <1>1 DEF Orderly, Within

(* The row after the first k is named, or its offer was the last named.    *)
LEMMA YieldOrderly ==
  ASSUME NEW T \in SUBSET Rows, IsFiniteSet(T), NEW k \in Nat, k < Cardinality(T),
         NEW g \in Seq(Rows), NEW added \in SUBSET Nat, Orderly(g, k, T, added)
  PROVE  Orderly(Yield(g, RowAt(T, k + 1)), k + 1, T, added)
<1> DEFINE row == RowAt(T, k + 1)
           n   == Len(g)
<1>0. T \in SUBSET Nat /\ k + 1 \in 1 .. Cardinality(T)
  BY RowsAreNumbers, FS_CardinalityType
<1>1. row \in T /\ Rank(T, row) = k + 1
  BY <1>0, RowAtPlace
<1>2. row \in Rows /\ row \in Nat
  BY <1>0, <1>1
<1>3. n \in Nat /\ DOMAIN g = 1 .. n /\ \A i \in 1 .. n : g[i] \in Rows /\ g[i] \in Nat
  BY RowsAreNumbers, LenProperties, ElementOfSeq
<1>4. Orderly(g, k + 1, T, added)
  BY <1>0, OrderlyFurther
<1> HIDE DEF row
<1>5. CASE g # <<>> /\ OfferOf[Last(g)] = OfferOf[row]
  BY <1>4, <1>5 DEF Yield, row
<1>6. CASE ~(g # <<>> /\ OfferOf[Last(g)] = OfferOf[row])
  <2> DEFINE h == Append(g, row)
  <2>1. /\ Len(h) = n + 1 /\ DOMAIN h = 1 .. n + 1 /\ h[n + 1] = row
        /\ \A i \in 1 .. n : h[i] = g[i]
    BY <1>2, AppendProperties, LenProperties
  <2> HIDE DEF h
  <2>2. \A i \in DOMAIN h : i \in 1 .. n \/ i = n + 1
    BY <1>3, <2>1
  (* A row that lies no higher than one named before came in later.        *)
  <2>3. ASSUME NEW i \in 1 .. n, row <= g[i] PROVE AddedUpTo(added, row)
    <3>1. Rank(T, row) <= k \/ AddedUpTo(added, row)
      BY <1>2, <1>3, <2>3 DEF Orderly, Within
    <3> QED BY <1>1, <3>1
  <2>4. Within(h, k + 1, T, added)
    <3>1. ASSUME NEW x \in Nat, x <= row PROVE Rank(T, x) <= k + 1
      <4>1. \A y \in T : y <= x => y \in T /\ y <= row
        BY <1>0, <1>2, <3>1
      <4> QED BY <1>0, <1>1, <1>2, <4>1, RankOfSubset
    <3> QED BY <1>3, <1>4, <2>1, <2>2, <3>1 DEF Orderly, Within
  <2>5. Ascending(h, added)
    <3>1. ASSUME NEW i \in DOMAIN h, NEW j \in DOMAIN h, i < j
          PROVE  h[i] < h[j] \/ AddedUpTo(added, h[j])
      <4>1. i \in 1 .. n /\ h[i] = g[i]
        BY <1>3, <2>1, <2>2, <3>1
      <4>2. CASE j \in 1 .. n
        BY <1>3, <2>1, <3>1, <4>1, <4>2 DEF Orderly, Ascending
      <4>3. CASE j = n + 1
        <5>1. g[i] < row \/ row <= g[i]
          BY <1>2, <1>3, <4>1
        <5> QED BY <2>1, <2>3, <4>1, <4>3, <5>1
      <4> QED BY <2>2, <4>2, <4>3
    <3> QED BY <3>1 DEF Ascending
  <2>6. Distinct(h, added)
    <3>1. ASSUME NEW i \in DOMAIN h, NEW j \in DOMAIN h, i < j, OfferOf[h[i]] = OfferOf[h[j]]
          PROVE  AddedUpTo(added, h[j])
      <4>1. i \in 1 .. n /\ h[i] = g[i]
        BY <1>3, <2>1, <2>2, <3>1
      <4>2. CASE j \in 1 .. n
        BY <1>3, <2>1, <3>1, <4>1, <4>2 DEF Orderly, Distinct
      <4>3. CASE j = n + 1 /\ \E m \in 1 .. n : row <= g[m]
        BY <2>1, <2>3, <4>3
      <4>4. CASE j = n + 1 /\ \A m \in 1 .. n : ~(row <= g[m])
        <5>1. n \in 1 .. n /\ g # <<>> /\ Last(g) = g[n]
          BY <1>3, <4>1 DEF Last
        <5>2. OfferOf[g[n]] # OfferOf[row] /\ OfferOf[g[i]] = OfferOf[row]
          BY <1>6, <2>1, <3>1, <4>1, <4>4, <5>1
        <5>3. i < n /\ g[i] < row /\ g[n] < row
          BY <1>2, <1>3, <4>1, <4>4, <5>1, <5>2
        <5>4. ~(g[i] < g[n])
          BY <1>2, <1>3, <4>1, <5>1, <5>2, <5>3, Contiguous
        <5>5. AddedUpTo(added, g[n])
          BY <1>3, <4>1, <5>1, <5>3, <5>4 DEF Orderly, Ascending
        <5>6. PICK new \in added : new <= g[n]
          BY <5>5 DEF AddedUpTo
        <5>7. new <= row
          BY <1>2, <1>3, <5>1, <5>3, <5>6
        <5> QED BY <2>1, <4>4, <5>7 DEF AddedUpTo
      <4> QED BY <2>2, <4>2, <4>3, <4>4
    <3> QED BY <3>1 DEF Distinct
  <2>7. Yield(g, row) = h
    BY <1>6 DEF Yield, h
  <2> QED BY <2>4, <2>5, <2>6, <2>7 DEF Orderly, row
<1> QED BY <1>5, <1>6

LEMMA YieldCovered ==
  ASSUME NEW T \in SUBSET Rows, IsFiniteSet(T), NEW k \in Nat, k < Cardinality(T),
         NEW g \in Seq(Rows), NEW steady \in SUBSET T, NEW removed,
         Covered(g, k, T, steady, removed)
  PROVE  Covered(Yield(g, RowAt(T, k + 1)), k + 1, T, steady, removed)
<1> DEFINE row == RowAt(T, k + 1)
           n   == Len(g)
           h   == Yield(g, row)
<1>0. T \in SUBSET Nat /\ k + 1 \in 1 .. Cardinality(T)
  BY RowsAreNumbers, FS_CardinalityType
<1>1. row \in T /\ \A x \in T : Rank(T, x) = k + 1 => x = row
  BY <1>0, RowAtPlace
<1>2. row \in Rows
  BY <1>1
<1>3. n \in Nat /\ DOMAIN g = 1 .. n
  BY LenProperties
<1> HIDE DEF row
<1>4. /\ Named(h, row)
      /\ \A x : Named(g, x) => Named(h, x)
  <2>1. CASE g # <<>> /\ OfferOf[Last(g)] = OfferOf[row]
    <3>1. n \in DOMAIN g /\ Last(g) = g[n]
      BY <1>3, <2>1, EmptySeq DEF Last
    <3> QED BY <2>1, <3>1 DEF Yield, Named
  <2>2. CASE ~(g # <<>> /\ OfferOf[Last(g)] = OfferOf[row])
    <3>1. h = Append(g, row)
      BY <2>2 DEF Yield
    <3>2. /\ DOMAIN h = 1 .. n + 1 /\ h[n + 1] = row
          /\ \A i \in 1 .. n : h[i] = g[i]
      BY <1>2, <3>1, AppendProperties, LenProperties
    <3> HIDE DEF h
    <3>3. n + 1 \in DOMAIN h /\ DOMAIN g \subseteq DOMAIN h
      BY <1>3, <3>2
    <3> QED BY <1>3, <3>2, <3>3 DEF Named
  <2> QED BY <2>1, <2>2
<1> HIDE DEF h
<1>5. ASSUME NEW x \in steady, Rank(T, x) <= k + 1
      PROVE  Named(h, x) \/ GoneBefore(removed, x)
  <2>1. x \in T /\ Rank(T, x) \in Nat
    BY <1>0, RankType
  <2>2. CASE Rank(T, x) <= k
    BY <1>4, <2>2 DEF Covered
  <2>3. CASE Rank(T, x) = k + 1
    BY <1>1, <1>4, <2>1, <2>3
  <2> QED BY <1>5, <2>1, <2>2, <2>3
<1> QED BY <1>5 DEF Covered, h, row

(* Rows come and go while nobody reads on.                                 *)
LEMMA RowsChange ==
  ASSUME NEW T \in SUBSET Nat, NEW U \in SUBSET Nat, NEW k \in Nat, NEW g,
         NEW added, NEW steady \in SUBSET T, NEW removed
  PROVE  /\ Covered(g, k, T, steady, removed)
              => Covered(g, k, U, steady \ (T \ U), removed \cup (T \ U))
         /\ Orderly(g, k, T, added) => Orderly(g, k, U, added \cup (U \ T))
<1>1. ASSUME Covered(g, k, T, steady, removed),
             NEW row \in steady \ (T \ U), Rank(U, row) <= k
      PROVE  Named(g, row) \/ GoneBefore(removed \cup (T \ U), row)
  <2>1. CASE \E y \in T \ U : y < row
    BY <2>1 DEF GoneBefore
  <2>2. CASE ~ \E y \in T \ U : y < row
    <3>1. row \in T /\ row \in U /\ row \in Nat
      OBVIOUS
    <3>2. \A y \in T : y <= row => y \in U /\ y <= row
      BY <2>2, <3>1
    <3>3. Rank(T, row) <= Rank(U, row)
      BY <3>1, <3>2, RankOfSubset
    <3>4. Rank(T, row) \in Nat /\ Rank(U, row) \in Nat
      BY <3>1, RankType
    <3>5. Rank(T, row) <= k
      BY <1>1, <3>3, <3>4
    <3> QED BY <1>1, <3>5 DEF Covered, GoneBefore
  <2> QED BY <2>1, <2>2
<1>2. ASSUME Orderly(g, k, T, added)
      PROVE  Orderly(g, k, U, added \cup (U \ T))
  <2> DEFINE more == added \cup (U \ T)
  <2>1. \A x : AddedUpTo(added, x) => AddedUpTo(more, x)
    BY DEF AddedUpTo
  <2>2. ASSUME NEW x \in Nat, Rank(T, x) <= k, ~ AddedUpTo(more, x)
        PROVE  Rank(U, x) <= k
    <3>1. \A y \in U : y <= x => y \in T /\ y <= x
      BY <2>2 DEF AddedUpTo
    <3>2. Rank(U, x) <= Rank(T, x)
      BY <3>1, RankOfSubset
    <3>3. Rank(U, x) \in Nat /\ Rank(T, x) \in Nat
      BY RankType
    <3> QED BY <2>2, <3>2, <3>3
  <2> HIDE DEF more
  <2>3. Within(g, k, U, more)
    BY <1>2, <2>1, <2>2 DEF Orderly, Within
  <2>4. Ascending(g, more) /\ Distinct(g, more)
    BY <1>2, <2>1 DEF Orderly, Ascending, Distinct
  <2> QED BY <2>3, <2>4 DEF Orderly, more
<1> QED BY <1>1, <1>2 DEF Covered

-----------------------------------------------------------------------------
(* A page of the rows there are                                            *)

(* After a page of m rows, the answer owes what it owes to c + m rows,     *)
(* unless it is full.                                                      *)
Owed(g, k, steady, added, removed) ==
  /\ g \in Seq(Rows) /\ Len(g) <= ResultPage
  /\ Orderly(g, k, table, added)
  /\ Len(g) < ResultPage => Covered(g, k, table, steady, removed)

LEMMA PageRows ==
  ASSUME table \in SUBSET Rows, IsFiniteSet(table), NEW c \in Nat
  PROVE  /\ Len(Page(c)) \in Nat /\ Len(Page(c)) <= SelectPage
         /\ \A i \in 1 .. Len(Page(c)) : /\ c + i \in 1 .. Cardinality(table)
                                         /\ Page(c)[i] = RowAt(table, c + i)
         /\ LastPage(Page(c)) => Cardinality(table) <= c + Len(Page(c))
         /\ ~ LastPage(Page(c)) => Len(Page(c)) = SelectPage
<1> DEFINE size == Cardinality(table)
           left == IF c < size THEN size - c ELSE 0
           m    == IF left < SelectPage THEN left ELSE SelectPage
<1>1. size \in Nat /\ SelectPage \in Nat
  BY FS_CardinalityType, ConstantsAssumption
<1>2. left \in Nat /\ m \in Nat /\ m <= SelectPage /\ m <= left
  BY <1>1
<1>3. Page(c) = [i \in 1 .. m |-> RowAt(table, c + i)]
  BY DEF Page
<1>4. ASSUME NEW i \in 1 .. m PROVE c + i \in 1 .. size
  BY <1>1, <1>2
<1>5. m < SelectPage => size <= c + m
  BY <1>1
<1> HIDE DEF m, left, size
<1>6. Len(Page(c)) = m
  BY <1>2, <1>3
<1> QED BY <1>1, <1>2, <1>3, <1>4, <1>5, <1>6 DEF LastPage, size

LEMMA RowTaken ==
  ASSUME table \in SUBSET Rows, IsFiniteSet(table), NEW k \in Nat, k < Cardinality(table),
         NEW g, NEW steady \in SUBSET table, NEW added \in SUBSET Nat, NEW removed,
         Owed(g, k, steady, added, removed)
  PROVE  Owed(TakeRow(g, RowAt(table, k + 1)), k + 1, steady, added, removed)
<1> DEFINE row == RowAt(table, k + 1)
           h   == TakeRow(g, row)
<1>1. table \in SUBSET Nat /\ k + 1 \in 1 .. Cardinality(table)
  BY RowsAreNumbers, FS_CardinalityType
<1>2. row \in Rows
  BY <1>1, RowAtPlace
<1>3. g \in Seq(Rows) /\ Len(g) \in Nat /\ Len(g) <= ResultPage /\ ResultPage \in Nat
  BY LenProperties, ConstantsAssumption DEF Owed
<1>4. h \in Seq(Rows) /\ Len(h) <= ResultPage
  BY <1>2, <1>3, TakeRowType
<1>5. CASE Len(g) = ResultPage
  <2>1. h = g /\ Orderly(g, k, table, added)
    BY <1>5 DEF TakeRow, Owed
  <2>2. Orderly(h, k + 1, table, added)
    BY <1>1, <2>1, OrderlyFurther
  <2>3. ~(Len(h) < ResultPage)
    BY <1>3, <1>5, <2>1
  <2> QED BY <1>4, <2>2, <2>3 DEF Owed
<1>6. CASE Len(g) # ResultPage
  <2>1. h = Yield(g, row) /\ Len(g) < ResultPage
    BY <1>3, <1>6 DEF TakeRow
  <2>2. Orderly(g, k, table, added) /\ Covered(g, k, table, steady, removed)
    BY <2>1 DEF Owed
  <2>3. Orderly(h, k + 1, table, added)
    BY <1>3, <2>1, <2>2, YieldOrderly
  <2>4. Covered(h, k + 1, table, steady, removed)
    BY <1>3, <2>1, <2>2, YieldCovered
  <2> QED BY <1>4, <2>3, <2>4 DEF Owed
<1> QED BY <1>5, <1>6

LEMMA PageTaken ==
  ASSUME table \in SUBSET Rows, IsFiniteSet(table), NEW c \in Nat,
         NEW g, NEW steady \in SUBSET table, NEW added \in SUBSET Nat, NEW removed,
         Owed(g, c, steady, added, removed)
  PROVE  Owed(Taken(g, Page(c)), c + Len(Page(c)), steady, added, removed)
<1> DEFINE page == Page(c)
           m    == Len(page)
<1>1. /\ m \in Nat
      /\ \A i \in 1 .. m : c + i \in 1 .. Cardinality(table) /\ page[i] = RowAt(table, c + i)
  BY PageRows
<1> HIDE DEF page
<1>0. PICK f : ByRow(f, g, page)
  BY <1>1, TakenByRow
<1>2. /\ f[0] = g
      /\ \A i \in 1 .. m : f[i] = TakeRow(f[i - 1], page[i])
      /\ Taken(g, page) = f[m]
  BY <1>0 DEF ByRow
<1> DEFINE Holds(i) == Owed(f[i], c + i, steady, added, removed)
           bad == { i \in Nat : i <= m /\ ~Holds(i) }
<1>3. SUFFICES ASSUME bad # {} PROVE FALSE
  BY <1>1, <1>2 DEF page
<1>4. PICK i \in bad : \A j \in bad : i <= j
  BY <1>3, MinExists
<1>5. i # 0
  BY <1>2, <1>4
<1>6. i - 1 \in Nat /\ i \in 1 .. m /\ i - 1 <= m /\ ~(i <= i - 1)
  BY <1>1, <1>4, <1>5
<1>7. Holds(i - 1)
  BY <1>4, <1>6
<1> DEFINE k == c + (i - 1)
<1>8. k \in Nat /\ k + 1 = c + i /\ k < Cardinality(table)
  <2>1. Cardinality(table) \in Nat
    BY FS_CardinalityType
  <2> QED BY <1>1, <1>6, <2>1
<1>9. f[i] = TakeRow(f[i - 1], RowAt(table, c + i))
  BY <1>1, <1>2, <1>6
<1> HIDE DEF k
<1>10. Owed(f[i - 1], k, steady, added, removed)
  BY <1>7 DEF k
<1>11. Owed(TakeRow(f[i - 1], RowAt(table, k + 1)), k + 1, steady, added, removed)
  BY <1>8, <1>10, RowTaken
<1>12. Holds(i)
  BY <1>8, <1>9, <1>11
<1> QED BY <1>4, <1>12

-----------------------------------------------------------------------------
(* Types                                                                   *)

(* Every statement saves rows that its call means to save.                 *)
LEMMA ScriptSaves ==
  ASSUME NEW c \in Callers, NEW i \in DOMAIN Script(Op[c])
  PROVE  Script(Op[c])[i].new \subseteq Op[c].new
<1> DEFINE op == Op[c]
<1>1. op \in Ops /\ IsFiniteSet(op.new) /\ op.new \in SUBSET Nat
  BY RowsAreNumbers, ConstantsAssumption DEF Ops
<1> HIDE DEF op
<1>2. CASE op.kind = "accept"
  <2> DEFINE script == [j \in 1 .. Cardinality(op.new) |-> Save({RowAt(op.new, j)})]
  <2>1. Script(op) = script
    BY <1>2 DEF Script
  <2>2. i \in 1 .. Cardinality(op.new)
    BY <2>1 DEF op
  <2>3. RowAt(op.new, i) \in op.new
    BY <1>1, <2>2, RowAtPlace
  <2>4. Script(op)[i] = Save({RowAt(op.new, i)})
    BY <2>1, <2>2
  <2> QED BY <2>3, <2>4 DEF Save, op
<1>3. CASE op.kind = "store"
  <2>1. Script(op) = <<Save(op.new)>>
    BY <1>3 DEF Script
  <2>2. i = 1 /\ Script(op)[i] = Save(op.new)
    BY <2>1 DEF op
  <2> QED BY <2>2 DEF Save, op
<1>4. CASE op.kind = "clear"
  <2>1. Script(op) = <<Delete(op.old)>>
    BY <1>4 DEF Script
  <2>2. i = 1 /\ Script(op)[i] = Delete(op.old)
    BY <2>1 DEF op
  <2> QED BY <2>2 DEF Delete, op
<1>5. CASE op.kind = "relist"
  <2>1. Script(op) = <<Delete(op.old), Save(op.new)>>
    BY <1>5 DEF Script
  <2>2. Script(op)[i] \in {Delete(op.old), Save(op.new)}
    BY <2>1 DEF op
  <2> QED BY <2>2 DEF Delete, Save, op
<1>6. CASE op.kind = "empty"
  <2>1. Script(op) = <<>>
    BY <1>6 DEF Script
  <2> QED BY <2>1 DEF op
<1> QED BY <1>1, <1>2, <1>3, <1>4, <1>5, <1>6 DEF Ops

RowsTyped == table \in SUBSET Rows /\ IsFiniteSet(table)

LEMMA AppliedRows ==
  ASSUME RowsTyped, NEW c \in Callers
  PROVE  LET rows == Applied(Script(Op[c])) IN rows \in SUBSET Rows /\ IsFiniteSet(rows)
<1> DEFINE rows == Applied(Script(Op[c]))
           all  == table \cup Op[c].new
<1>1. IsFiniteSet(Op[c].new) /\ Op[c].new \in SUBSET Rows
  BY ConstantsAssumption DEF Ops
<1>2. rows \subseteq table \cup UNION { Script(Op[c])[i].new : i \in DOMAIN Script(Op[c]) }
  BY DEF Applied
<1>3. UNION { Script(Op[c])[i].new : i \in DOMAIN Script(Op[c]) } \subseteq Op[c].new
  BY ScriptSaves
<1>4. IsFiniteSet(all)
  BY <1>1, FS_Union DEF RowsTyped
<1> HIDE DEF rows
<1>5. rows \in SUBSET all
  BY <1>2, <1>3
<1>6. IsFiniteSet(rows)
  BY <1>4, <1>5, FS_Subset
<1> QED BY <1>1, <1>5, <1>6 DEF rows, RowsTyped

(* What TypeOK says of a read, and that its answer is not overfull.        *)
ReadTyped(rec) == rec \in Read /\ Len(rec.got) <= ResultPage

(* The types that PoolKept does not need.                                  *)
RestTyped ==
  /\ RowsTyped
  /\ phase \in {"new", "starting", "ready", "failed"}
  /\ reads \in [Readers -> Read]
  /\ \A r \in Readers : ReadTyped(reads[r])
  /\ crashes \in 0 .. MaxCrashes

LEMMA PageLength == ResultPage \in Nat \ {0} /\ SelectPage \in Nat \ {0}
  BY ConstantsAssumption

(* Committing changes the rows, and the reads' account of them.            *)
LEMMA WitnessTyped ==
  ASSUME RestTyped, NEW rows \in SUBSET Rows, NEW r \in Readers
  PROVE  ReadTyped(Witness(table \ rows, rows \ table)[r])
<1> DEFINE rec == reads[r]
           new == [rec EXCEPT !.steady = @ \ (table \ rows), !.added = @ \cup (rows \ table),
                              !.removed = @ \cup (table \ rows)]
<1>1. rec \in Read /\ Len(rec.got) <= ResultPage
  BY DEF RestTyped, ReadTyped
<1>2. table \in SUBSET Rows
  BY DEF RestTyped, RowsTyped
<1>3. new \in Read /\ new.got = rec.got
  BY <1>1, <1>2 DEF Read
<1>4. Witness(table \ rows, rows \ table)[r] \in {rec, new}
  BY DEF Witness
<1> HIDE DEF rec, new
<1> QED BY <1>1, <1>3, <1>4 DEF ReadTyped

LEMMA CommitTyped ==
  ASSUME RestTyped, NEW c \in Callers, Commit(c)
  PROVE  RestTyped'
<1>1. CASE UNCHANGED <<table, reads>>
  BY <1>1 DEF Commit, RestTyped, RowsTyped, ReadTyped
<1>2. CASE table' = Applied(Script(Op[c])) /\ reads' = Witness(table \ table', table' \ table)
  <2>1. table' \in SUBSET Rows /\ IsFiniteSet(table')
    BY <1>2, AppliedRows DEF RestTyped
  <2>2. \A r \in Readers : ReadTyped(Witness(table \ table', table' \ table)[r])
    BY <2>1, WitnessTyped
  <2>3. \A r \in Readers : ReadTyped(reads'[r])
    BY <1>2, <2>2
  <2>4. reads' = [r \in Readers |-> reads'[r]]
    BY <1>2 DEF Witness
  <2>5. reads' \in [Readers -> Read]
    BY <2>3, <2>4 DEF ReadTyped
  <2> QED BY <2>1, <2>3, <2>5 DEF RestTyped, RowsTyped, ReadTyped, Commit
<1> QED BY <1>1, <1>2 DEF Commit

(* Only one read changes.                                                  *)
LEMMA ReadChanges ==
  ASSUME RestTyped, NEW r \in Readers, NEW rec, ReadTyped(rec),
         reads' = [reads EXCEPT ![r] = rec], UNCHANGED <<table, crashes>>,
         phase' \in {"new", "starting", "ready", "failed"}
  PROVE  RestTyped'
<1>1. reads' \in [Readers -> Read] /\ \A q \in Readers : ReadTyped(reads'[q])
  BY DEF RestTyped, ReadTyped
<1> QED BY <1>1 DEF RestTyped, RowsTyped, ReadTyped

LEMMA BeginReadTyped ==
  ASSUME RestTyped, NEW r \in Readers, BeginRead(r)
  PROVE  RestTyped'
<1> DEFINE rec == [reads[r] EXCEPT !.state = IF phase = "failed" THEN "lost" ELSE "reading",
                                   !.steady = table]
<1>1. reads[r] \in Read /\ Len(reads[r].got) <= ResultPage /\ table \in SUBSET Rows
  BY DEF RestTyped, ReadTyped, RowsTyped
<1>2. rec \in Read /\ rec.got = reads[r].got
  BY <1>1 DEF Read
<1>3. reads' = [reads EXCEPT ![r] = rec]
  BY <1>1 DEF BeginRead, RestTyped
<1>4. phase' \in {"new", "starting", "ready", "failed"} /\ UNCHANGED <<table, crashes>>
  BY DEF BeginRead, Started, RestTyped
<1> HIDE DEF rec
<1> QED BY <1>1, <1>2, <1>3, <1>4, ReadChanges DEF ReadTyped

(* What reading a page makes of a read.                                    *)
AfterPage(rec) ==
  LET page == Page(rec.cursor)
      got == Taken(rec.got, page)
      full == Len(got) >= ResultPage
  IN  [rec EXCEPT !.got = got, !.cursor = Cursor(rec.cursor), !.more = full,
                  !.state = IF full \/ LastPage(page) THEN "answered" ELSE @]

LEMMA PageReads ==
  ASSUME RestTyped, NEW r \in Readers, ReadPage(r)
  PROVE  reads' = [reads EXCEPT ![r] = AfterPage(reads[r])]
  BY DEF ReadPage, AfterPage, RestTyped

LEMMA RefuseReadTyped ==
  ASSUME RestTyped, NEW r \in Readers, RefuseRead(r)
  PROVE  RestTyped'
<1> DEFINE rec == [reads[r] EXCEPT !.state = "lost"]
<1>1. reads[r] \in Read /\ Len(reads[r].got) <= ResultPage
  BY DEF RestTyped, ReadTyped
<1>2. rec \in Read /\ rec.got = reads[r].got
  BY <1>1 DEF Read
<1>3. reads' = [reads EXCEPT ![r] = rec]
  BY <1>1 DEF RefuseRead, RestTyped
<1> HIDE DEF rec
<1> QED BY <1>1, <1>2, <1>3, ReadChanges DEF ReadTyped, RefuseRead, RestTyped

LEMMA CrashTyped == RestTyped /\ Crash => RestTyped'
<1> SUFFICES ASSUME RestTyped, Crash PROVE RestTyped'
  OBVIOUS
<1>1. ASSUME NEW r \in Readers
      PROVE  ReadTyped(reads'[r])
  <2>1. reads[r] \in Read /\ Len(reads[r].got) <= ResultPage
    BY DEF RestTyped, ReadTyped
  <2>2. [reads[r] EXCEPT !.state = "lost"] \in Read
    BY <2>1 DEF Read
  <2>3. [reads[r] EXCEPT !.state = "lost"].got = reads[r].got
    BY <2>1 DEF Read
  <2>4. reads'[r] \in {reads[r], [reads[r] EXCEPT !.state = "lost"]}
    BY DEF Crash
  <2> QED BY <2>1, <2>2, <2>3, <2>4 DEF ReadTyped
<1>2. reads' = [r \in Readers |-> reads'[r]]
  BY DEF Crash
<1>3. reads' \in [Readers -> Read]
  BY <1>1, <1>2 DEF ReadTyped
<1>4. crashes' \in 0 .. MaxCrashes
  BY ConstantsAssumption DEF Crash, RestTyped
<1> QED BY <1>1, <1>3, <1>4 DEF RestTyped, RowsTyped, ReadTyped, Crash

-----------------------------------------------------------------------------
(* What every read owes, step by step                                      *)

ReadRight(rec) ==
  /\ rec.state = "idle" =>
       rec.cursor = 0 /\ rec.got = <<>> /\ rec.added = {} /\ rec.removed = {}
  /\ rec.state = "reading" =>
       /\ rec.steady \subseteq table /\ Len(rec.got) < ResultPage
       /\ Owed(rec.got, rec.cursor, rec.steady, rec.added, rec.removed)
  /\ rec.state = "answered" /\ ~ rec.more =>
       \A row \in rec.steady : Named(rec.got, row) \/ GoneBefore(rec.removed, row)
  /\ Distinct(rec.got, rec.added)

ReadsRight == \A r \in Readers : ReadRight(reads[r])

LEMMA ReadIs ==
  ASSUME NEW rec \in Read
  PROVE  /\ rec.cursor \in Nat /\ rec.got \in Seq(Rows) /\ Len(rec.got) \in Nat
         /\ rec.steady \in SUBSET Rows /\ rec.added \in SUBSET Rows
         /\ rec.removed \in SUBSET Rows /\ rec.more \in BOOLEAN
         /\ rec.added \in SUBSET Nat
  BY RowsAreNumbers, LenProperties DEF Read

(* A read that begins owes nothing yet.                                    *)
LEMMA BeginReadRight ==
  ASSUME RestTyped, ReadsRight, NEW r \in Readers, BeginRead(r)
  PROVE  ReadsRight'
<1> DEFINE rec == reads[r]
           new == [rec EXCEPT !.state = IF phase = "failed" THEN "lost" ELSE "reading",
                              !.steady = table]
<1>1. rec \in Read /\ rec.state = "idle" /\ ReadRight(rec) /\ table \in SUBSET Rows
  BY DEF RestTyped, ReadsRight, BeginRead, RowsTyped
<1>2. reads' = [reads EXCEPT ![r] = new]
  BY DEF BeginRead, RestTyped
<1>3. rec.cursor = 0 /\ rec.got = <<>> /\ rec.added = {} /\ rec.removed = {}
  BY <1>1 DEF ReadRight
<1>4. /\ new.state \in {"lost", "reading"} /\ new.steady = table
      /\ new.cursor = 0 /\ new.got = <<>> /\ new.added = {} /\ new.removed = {}
  BY <1>1, <1>3 DEF Read
<1> HIDE DEF rec, new
<1>5. \A row \in table : ~(Rank(table, row) <= 0)
  <2>1. ASSUME NEW row \in table PROVE ~(Rank(table, row) <= 0)
    <3>1. table \in SUBSET Nat /\ row \in Nat
      BY <1>1, RowsAreNumbers
    <3>2. Rank(table, row) \in Nat /\ Rank(table, row) >= 1
      BY <3>1, RankPositive, RankType
    <3> QED BY <3>2
  <2> QED BY <2>1
<1>6. Len(<<>>) = 0 /\ <<>> \in Seq(Rows) /\ DOMAIN <<>> = {}
  OBVIOUS
<1>7. Owed(<<>>, 0, table, {}, {})
  BY <1>5, <1>6, PageLength DEF Owed, Orderly, Within, Ascending, Distinct, Covered
<1>8. ReadRight(new)
  BY <1>4, <1>6, <1>7, PageLength DEF ReadRight, Distinct
<1>9. table' = table
  BY DEF BeginRead
<1>10. \A q \in Readers : ReadRight(reads'[q])
  BY <1>2, <1>8 DEF ReadsRight, RestTyped
<1> QED BY <1>9, <1>10 DEF ReadsRight, ReadRight, Owed

(* A page is passed on: the answer goes on, is full or is complete.        *)
LEMMA PageRight ==
  ASSUME RestTyped, ReadsRight, NEW r \in Readers, ReadPage(r)
  PROVE  RestTyped' /\ ReadsRight'
<1> DEFINE rec  == reads[r]
           page == Page(rec.cursor)
           got  == Taken(rec.got, page)
           new  == AfterPage(rec)
           next == rec.cursor + Len(page)
<1>1. /\ rec \in Read /\ rec.state = "reading" /\ ReadRight(rec)
      /\ table \in SUBSET Rows /\ IsFiniteSet(table)
  BY DEF RestTyped, ReadsRight, ReadPage, RowsTyped
<1>2. reads' = [reads EXCEPT ![r] = new]
  BY PageReads
<1> HIDE DEF rec
<1>3. /\ rec.cursor \in Nat /\ rec.added \in SUBSET Nat
      /\ rec.steady \in SUBSET table
      /\ Owed(rec.got, rec.cursor, rec.steady, rec.added, rec.removed)
  BY <1>1, ReadIs DEF ReadRight
<1>4. Owed(got, next, rec.steady, rec.added, rec.removed)
  BY <1>1, <1>3, PageTaken
<1>5. /\ Len(page) \in Nat /\ Len(page) <= SelectPage
      /\ LastPage(page) => Cardinality(table) <= next
      /\ ~ LastPage(page) => Len(page) = SelectPage
  BY <1>1, <1>3, PageRows
<1>6. new = [rec EXCEPT !.got = got, !.cursor = Cursor(rec.cursor),
                        !.more = Len(got) >= ResultPage,
                        !.state = IF Len(got) >= ResultPage \/ LastPage(page)
                                  THEN "answered" ELSE @]
  BY DEF AfterPage
<1> HIDE DEF page, got, new, next
<1>7. got \in Seq(Rows) /\ Len(got) <= ResultPage /\ Len(got) \in Nat
  BY <1>4, LenProperties DEF Owed
<1>8. Cursor(rec.cursor) \in Nat /\ Cursor(rec.cursor) = rec.cursor + SelectPage
  BY <1>3, PageLength DEF Cursor
<1>9. /\ new.got = got /\ new.cursor = Cursor(rec.cursor) /\ new.steady = rec.steady
      /\ new.added = rec.added /\ new.removed = rec.removed
      /\ new.more = (Len(got) >= ResultPage)
      /\ new.state = IF Len(got) >= ResultPage \/ LastPage(page) THEN "answered" ELSE "reading"
  BY <1>1, <1>6 DEF Read
<1>10. new \in Read
  <2>1. (Len(got) >= ResultPage) \in BOOLEAN
    OBVIOUS
  <2> QED BY <1>1, <1>6, <1>7, <1>8, <2>1 DEF Read
<1>11. RestTyped'
  BY <1>2, <1>7, <1>9, <1>10, ReadChanges DEF ReadTyped, ReadPage, RestTyped
<1>12. Distinct(new.got, new.added)
  BY <1>4, <1>9 DEF Owed, Orderly
<1>13. ASSUME Len(got) >= ResultPage PROVE ReadRight(new)
  BY <1>9, <1>12, <1>13 DEF ReadRight
<1>14. ASSUME ~(Len(got) >= ResultPage), LastPage(page) PROVE ReadRight(new)
  <2>1. Covered(got, next, table, rec.steady, rec.removed)
    BY <1>4, <1>7, <1>14, PageLength DEF Owed
  <2>2. ASSUME NEW row \in rec.steady
        PROVE  Named(got, row) \/ GoneBefore(rec.removed, row)
    <3>1. table \in SUBSET Nat /\ row \in table /\ row \in Nat
      BY <1>1, <1>3, RowsAreNumbers
    <3>2. Rank(table, row) <= Cardinality(table)
      BY <1>1, <3>1, RankWithin
    <3>3. Rank(table, row) \in Nat /\ Cardinality(table) \in Nat
      BY <1>1, <3>1, RankType, FS_CardinalityType
    <3>4. next \in Nat /\ Cardinality(table) <= next
      BY <1>3, <1>5, <1>14 DEF next
    <3>5. Rank(table, row) <= next
      BY <3>2, <3>3, <3>4
    <3> QED BY <2>1, <3>5 DEF Covered
  <2> QED BY <1>9, <1>12, <1>14, <2>2 DEF ReadRight
<1>15. ASSUME ~(Len(got) >= ResultPage), ~ LastPage(page) PROVE ReadRight(new)
  <2>1. next = new.cursor
    BY <1>5, <1>8, <1>9, <1>15 DEF next
  <2>2. Len(got) < ResultPage
    BY <1>7, <1>15, PageLength
  <2> QED BY <1>3, <1>4, <1>9, <1>12, <1>15, <2>1, <2>2 DEF ReadRight
<1>16. ReadRight(new)
  BY <1>13, <1>14, <1>15
<1>17. \A q \in Readers : ReadRight(reads'[q])
  BY <1>2, <1>16 DEF ReadsRight, RestTyped
<1>18. table' = table
  BY DEF ReadPage
<1> QED BY <1>11, <1>17, <1>18 DEF ReadsRight, ReadRight, Owed

(* Rows come and go under the reads that are under way.                    *)
LEMMA CommitRight ==
  ASSUME RestTyped, ReadsRight, NEW c \in Callers, Commit(c)
  PROVE  ReadsRight'
<1>1. CASE UNCHANGED <<table, reads>>
  BY <1>1 DEF ReadsRight, ReadRight, Owed
<1>2. CASE table' = Applied(Script(Op[c])) /\ reads' = Witness(table \ table', table' \ table)
  <2> DEFINE rows == table'
  <2>1. rows \in SUBSET Rows /\ table \in SUBSET Rows
    BY <1>2, AppliedRows DEF RestTyped, RowsTyped
  <2>2. rows \in SUBSET Nat /\ table \in SUBSET Nat
    BY <2>1, RowsAreNumbers
  <2>3. reads' = Witness(table \ rows, rows \ table)
    BY <1>2
  <2> HIDE DEF rows
  <2>4. ASSUME NEW r \in Readers PROVE ReadRight(reads[r])'
    <3> DEFINE rec == reads[r]
               new == [rec EXCEPT !.steady = @ \ (table \ rows), !.added = @ \cup (rows \ table),
                                  !.removed = @ \cup (table \ rows)]
    <3>1. rec \in Read /\ ReadRight(rec)
      BY DEF RestTyped, ReadsRight
    <3>2. CASE rec.state # "reading"
      <4>1. reads'[r] = rec
        BY <2>3, <3>2 DEF Witness
      <4> QED BY <3>1, <3>2, <4>1 DEF ReadRight
    <3>3. CASE rec.state = "reading"
      <4>1. reads'[r] = new
        BY <2>3, <3>3 DEF Witness
      <4>2. /\ new.state = "reading" /\ new.got = rec.got /\ new.cursor = rec.cursor
            /\ new.steady = rec.steady \ (table \ rows)
            /\ new.added = rec.added \cup (rows \ table)
            /\ new.removed = rec.removed \cup (table \ rows)
        BY <3>1, <3>3 DEF Read
      <4> HIDE DEF rec, new
      <4>3. /\ rec.cursor \in Nat /\ rec.steady \in SUBSET table
            /\ rec.got \in Seq(Rows) /\ Len(rec.got) < ResultPage
            /\ Len(rec.got) <= ResultPage
        BY <3>1, <3>3, ReadIs DEF ReadRight, Owed
      <4>4. /\ Orderly(rec.got, rec.cursor, table, rec.added)
            /\ Covered(rec.got, rec.cursor, table, rec.steady, rec.removed)
        BY <3>1, <3>3 DEF ReadRight, Owed
      <4>5. /\ Covered(rec.got, rec.cursor, rows, rec.steady \ (table \ rows),
                       rec.removed \cup (table \ rows))
            /\ Orderly(rec.got, rec.cursor, rows, rec.added \cup (rows \ table))
        BY <2>2, <4>3, <4>4, RowsChange
      <4>6. /\ Covered(new.got, new.cursor, rows, new.steady, new.removed)
            /\ Orderly(new.got, new.cursor, rows, new.added)
        BY <4>2, <4>5
      <4>7. new.steady \subseteq rows
        BY <4>2, <4>3
      <4>8. Distinct(new.got, new.added)
        BY <4>6 DEF Orderly
      <4> QED BY <4>1, <4>2, <4>3, <4>6, <4>7, <4>8 DEF ReadRight, Owed, rows
    <3> QED BY <3>2, <3>3
  <2> QED BY <2>4 DEF ReadsRight
<1> QED BY <1>1, <1>2 DEF Commit

(* A read that is given up has still named nothing twice.                  *)
LEMMA LostRight ==
  ASSUME NEW rec \in Read, ReadRight(rec)
  PROVE  LET new == [rec EXCEPT !.state = "lost"]
         IN  ReadRight(new) /\ new.state = "lost"
  BY DEF ReadRight, Read

LEMMA GivenUpRight ==
  ASSUME RestTyped, ReadsRight, Crash \/ \E r \in Readers : RefuseRead(r)
  PROVE  ReadsRight'
<1>1. table' = table
  BY DEF Crash, RefuseRead
<1>2. ASSUME NEW r \in Readers PROVE ReadRight(reads'[r])
  <2>1. reads[r] \in Read /\ ReadRight(reads[r])
    BY DEF RestTyped, ReadsRight
  <2>2. reads'[r] \in {reads[r], [reads[r] EXCEPT !.state = "lost"]}
    BY DEF Crash, RefuseRead, RestTyped
  <2> QED BY <2>1, <2>2, LostRight
<1> QED BY <1>1, <1>2 DEF ReadsRight, ReadRight, Owed

-----------------------------------------------------------------------------
PagesInv == Inv /\ RestTyped /\ ReadsRight

LEMMA PagesInit == Init => PagesInv
<1> SUFFICES ASSUME Init PROVE PagesInv
  OBVIOUS
<1> DEFINE none == [state |-> "idle", cursor |-> 0, got |-> <<>>, more |-> FALSE,
                    steady |-> {}, added |-> {}, removed |-> {}]
<1>1. none \in Read /\ none.got = <<>> /\ Len(none.got) <= ResultPage
  BY PageLength DEF Read
<1>2. ReadRight(none)
  BY DEF ReadRight, Distinct
<1>3. reads = [r \in Readers |-> none]
  BY DEF Init
<1> HIDE DEF none
<1>4. RowsTyped
  BY ConstantsAssumption DEF Init, RowsTyped
<1>5. crashes \in 0 .. MaxCrashes
  BY ConstantsAssumption DEF Init
<1> QED BY <1>1, <1>2, <1>3, <1>4, <1>5, InvInit
        DEF PagesInv, RestTyped, ReadsRight, ReadTyped, Init

LEMMA PagesNext == PagesInv /\ [Next]_vars => PagesInv'
<1> SUFFICES ASSUME PagesInv, [Next]_vars PROVE RestTyped' /\ ReadsRight'
  BY InvNext DEF PagesInv
<1>1. RestTyped /\ ReadsRight
  BY DEF PagesInv
<1>2. CASE /\ UNCHANGED <<table, reads, crashes>>
           /\ phase' \in {"new", "starting", "ready", "failed"}
  BY <1>1, <1>2 DEF RestTyped, RowsTyped, ReadTyped, ReadsRight, ReadRight, Owed
<1>3. CASE Connect \/ Begin \/ Refuse
  BY <1>1, <1>2, <1>3 DEF Connect, Begin, Refuse, RestTyped
<1>4. CASE Crash
  BY <1>1, <1>4, CrashTyped, GivenUpRight
<1>5. ASSUME NEW c \in Callers, Request(c) \/ Execute(c) \/ Throw(c) \/ Fail(c)
      PROVE  RestTyped' /\ ReadsRight'
  BY <1>1, <1>2, <1>5 DEF Request, Started, Execute, Throw, Fail, RestTyped
<1>6. ASSUME NEW c \in Callers, Commit(c)
      PROVE  RestTyped' /\ ReadsRight'
  BY <1>1, <1>6, CommitTyped, CommitRight
<1>7. ASSUME NEW r \in Readers, BeginRead(r)
      PROVE  RestTyped' /\ ReadsRight'
  BY <1>1, <1>7, BeginReadTyped, BeginReadRight
<1>8. ASSUME NEW r \in Readers, ReadPage(r)
      PROVE  RestTyped' /\ ReadsRight'
  BY <1>1, <1>8, PageRight
<1>9. ASSUME NEW r \in Readers, RefuseRead(r)
      PROVE  RestTyped' /\ ReadsRight'
  BY <1>1, <1>9, RefuseReadTyped, GivenUpRight
<1>10. CASE UNCHANGED vars
  BY <1>1, <1>2, <1>10 DEF vars, RestTyped
<1> QED BY <1>3, <1>4, <1>5, <1>6, <1>7, <1>8, <1>9, <1>10 DEF Next

(* Every reachable state is well typed, for every set of calls, readers    *)
(* and rows, every pool and every size of pages; no answer is longer than  *)
(* the size asked for (persistentoffermodel.ts list).                      *)
THEOREM StorageTypeCorrect == Spec => []TypeOK
<1>1. PagesInv => TypeOK
  BY DEF PagesInv, Inv, Typed, RestTyped, RowsTyped, ReadTyped, TypeOK
<1> QED BY <1>1, PagesInit, PagesNext, PTL DEF Spec

(* However rows come and go between the pages of a read, and whatever the  *)
(* sizes of pages: an answer that does not say there is more names the     *)
(* offer of every row that stayed, unless a row before it was removed      *)
(* (sqloprpersistentstorage.ts getOffersAtTime).                           *)
THEOREM NoRowPassedOver == Spec => []PagesComplete
<1>1. PagesInv => PagesComplete
  BY DEF PagesInv, ReadsRight, ReadRight, Named, GoneBefore, PagesComplete
<1> QED BY <1>1, PagesInit, PagesNext, PTL DEF Spec

(* And it names an offer again only where a row was added at that place or *)
(* before it: a row at or below one named before lies further on than it   *)
(* did, and two rows of one offer have only rows of that offer between.    *)
THEOREM NoOfferTwice == Spec => []PagesDistinct
<1>1. PagesInv => PagesDistinct
  BY DEF PagesInv, ReadsRight, ReadRight, Distinct, AddedUpTo, PagesDistinct
<1> QED BY <1>1, PagesInit, PagesNext, PTL DEF Spec
=============================================================================
