------------------------ MODULE IntegrationApiProofs ------------------------
(***************************************************************************)
(* Proofs about IntegrationApi, for any number of integrations, handlers,  *)
(* updates, remote calls and organizations asked: what handlers hear of    *)
(* remote calls is true, and an update waits for those it told.            *)
(***************************************************************************)
EXTENDS IntegrationApi, FiniteSetTheorems, SequenceTheorems, WellFoundedInduction,
        TLAPS

(* The part of the type that the arguments need: who listens and in what   *)
(* order plays no role in them.                                            *)
Asked == UNION { Targets[c] : c \in Calls }

CallType == [state : {"new", "sent", "failed", "telling", "returned"},
             over : SUBSET Asked, did : SUBSET Asked]

UpdateType == [state : {"new", "open", "committed", "refused"},
               told : 0 .. Changes]

Counts(f) == f = [e \in Events |-> f[e]]

Typed ==
  /\ working \subseteq Run
  /\ updates \in [Updates -> UpdateType]
  /\ calls \in [Calls -> CallType]
  /\ told = [h \in Handlers |-> told[h]]
  /\ \A h \in Handlers : Counts(told[h])

(* Nobody has heard of a call before all asked have answered, and none of  *)
(* them has failed as long as the call is on its way.                      *)
Silent(c) == \A h \in Handlers : told[h][c] = 0

CallTrue(c) ==
  /\ calls[c].state \in {"new", "sent"} => calls[c].did = calls[c].over
  /\ calls[c].state \in {"telling", "returned"} => calls[c].did = Targets[c]
  /\ calls[c].state \in {"new", "sent", "failed"} => Silent(c)

CallInv == Typed /\ \A c \in Calls : CallTrue(c)

-----------------------------------------------------------------------------
(* Telling an event adds runs of that event and counts no other event.     *)
LEMMA TellFrame ==
  ASSUME NEW event \in Events, NEW clones, Typed, Tell(event, clones)
  PROVE  /\ working \subseteq working' /\ working' \subseteq Run
         /\ \A w \in working' : w \in working \/ w.of = event
         /\ told' = [h \in Handlers |-> told'[h]]
         /\ \A h \in Handlers : Counts(told'[h])
         /\ \A h \in Handlers, e \in Events : e # event => told'[h][e] = told[h][e]
<1> DEFINE hears(h) == Times(clones, ApiOf[h]) * Times(handlers[ApiOf[h]], h)
           begun == { [of |-> event, by |-> h, stage |-> "running"] :
                        h \in { x \in Handlers : hears(x) > 0 } }
<1>1. /\ told' = [h \in Handlers |-> [told[h] EXCEPT ![event] = @ + hears(h)]]
      /\ working' = working \cup begun
  BY DEF Tell
<1>2. \A w \in begun : w \in Run /\ w.of = event
  BY DEF Run
<1> HIDE DEF hears, begun
<1>3. working \subseteq working' /\ working' \subseteq Run
  BY <1>1, <1>2 DEF Typed
<1>4. \A w \in working' : w \in working \/ w.of = event
  BY <1>1, <1>2
<1>5. told' = [h \in Handlers |-> told'[h]]
  BY <1>1
<1>6. ASSUME NEW h \in Handlers
      PROVE  told'[h] = [e \in Events |->
                           IF e = event THEN told[h][e] + hears(h) ELSE told[h][e]]
  <2>1. told'[h] = [told[h] EXCEPT ![event] = @ + hears(h)]
    BY <1>1
  <2>2. told[h] = [e \in Events |-> told[h][e]]
    BY DEF Typed, Counts
  <2> QED BY <2>1, <2>2
<1>7. \A h \in Handlers : Counts(told'[h])
  BY <1>6 DEF Counts
<1>8. \A h \in Handlers, e \in Events : e # event => told'[h][e] = told[h][e]
  BY <1>6
<1> QED BY <1>3, <1>4, <1>5, <1>7, <1>8

LEMMA EventKinds ==
  /\ \A c \in Calls : c \in Events
  /\ \A u \in Updates, n \in 1 .. Changes : <<u, n>> \in Events
  /\ \A c \in Calls, u \in Updates, n \in 1 .. Changes : c # <<u, n>>
  BY ConstantsAssumption DEF Events

(* A call whose record and whose counts stay remains true.                 *)
LEMMA CallFrame ==
  ASSUME NEW c \in Calls, CallTrue(c), calls'[c] = calls[c],
         \A h \in Handlers : told'[h][c] = told[h][c]
  PROVE  CallTrue(c)'
  BY DEF CallTrue, Silent

LEMMA UntouchedCalls ==
  ASSUME CallInv, UNCHANGED <<calls, told>>, Typed'
  PROVE  CallInv'
  BY CallFrame DEF CallInv

LEMMA CallInit == Init => CallInv
<1> SUFFICES ASSUME Init PROVE CallInv
  OBVIOUS
<1>1. Typed
  <2>1. updates \in [Updates -> UpdateType]
    BY ConstantsAssumption DEF Init, UpdateType
  <2>2. calls \in [Calls -> CallType]
    BY DEF Init, CallType
  <2> QED BY <2>1, <2>2 DEF Init, Typed, Counts
<1>2. \A c \in Calls : CallTrue(c)
  BY EventKinds DEF Init, CallTrue, Silent
<1> QED BY <1>1, <1>2 DEF CallInv

-----------------------------------------------------------------------------
(* The steps of updates and handlers.                                      *)

LEMMA HandlerStep ==
  ASSUME CallInv, NEW w \in working, Store(w) \/ Done(w) \/ Throw(w) \/ StoreThrows(w)
  PROVE  CallInv'
<1>1. working' \subseteq Run
  <2>1. w \in Run
    BY DEF CallInv, Typed
  <2>2. [w EXCEPT !.stage = "storing"] \in Run
    BY <2>1 DEF Run
  <2> QED BY <2>2 DEF CallInv, Typed, Store, Done, Throw, StoreThrows, Threw
<1>2. UNCHANGED <<updates, calls, told>>
  BY DEF Store, Done, Throw, StoreThrows, Threw
<1>3. Typed'
  BY <1>1, <1>2 DEF CallInv, Typed, Counts
<1> QED BY <1>2, <1>3, UntouchedCalls

LEMMA UpdateStep ==
  ASSUME CallInv, NEW u \in Updates, Begin(u) \/ Change(u) \/ Commit(u) \/ UpdateThrows(u)
  PROVE  CallInv'
<1>0. updates[u] \in UpdateType
  BY DEF CallInv, Typed
<1>1. CASE Begin(u) \/ Commit(u) \/ UpdateThrows(u)
  <2>1. updates' \in [Updates -> UpdateType]
    <3>1. PICK end \in {"open", "committed", "refused"} :
            updates' = [updates EXCEPT ![u].state = end]
      BY <1>1 DEF Begin, Commit, UpdateThrows
    <3>2. [updates[u] EXCEPT !.state = end] \in UpdateType
      BY <1>0 DEF UpdateType
    <3> QED BY <3>1, <3>2 DEF CallInv, Typed
  <2>2. UNCHANGED <<working, calls, told>>
    BY <1>1 DEF Begin, Commit, UpdateThrows
  <2>3. Typed'
    BY <2>1, <2>2 DEF CallInv, Typed, Counts
  <2> QED BY <2>2, <2>3, UntouchedCalls
<1>2. CASE Change(u)
  <2> DEFINE event == <<u, updates[u].told + 1>>
  <2>1. event \in Events /\ \A c \in Calls : c # event
    <3>1. updates[u].told + 1 \in 1 .. Changes
      BY <1>0, <1>2, ConstantsAssumption DEF Change, UpdateType
    <3> QED BY <3>1, EventKinds
  <2>2. Tell(event, listeners) /\ UNCHANGED calls
    BY <1>2 DEF Change
  <2>3. updates' \in [Updates -> UpdateType]
    <3>1. [updates[u] EXCEPT !.told = @ + 1] \in UpdateType
      BY <1>0, <1>2, ConstantsAssumption DEF Change, UpdateType
    <3> QED BY <1>2, <3>1 DEF Change, CallInv, Typed
  <2> HIDE DEF event
  <2>4. Typed'
    BY <2>1, <2>2, <2>3, TellFrame DEF CallInv, Typed
  <2>5. \A c \in Calls, h \in Handlers : told'[h][c] = told[h][c]
    BY <2>1, <2>2, TellFrame, EventKinds DEF CallInv
  <2>6. \A c \in Calls : CallTrue(c)'
    BY <2>2, <2>5, CallFrame DEF CallInv
  <2> QED BY <2>4, <2>6 DEF CallInv
<1> QED BY <1>1, <1>2

-----------------------------------------------------------------------------
(* The steps of remote calls.                                              *)

LEMMA OtherCalls ==
  ASSUME CallInv, Typed', NEW c \in Calls, NEW next,
         calls' = [calls EXCEPT ![c] = next],
         \A h \in Handlers, d \in Calls : d # c => told'[h][d] = told[h][d],
         CallTrue(c)'
  PROVE  CallInv'
<1>1. ASSUME NEW d \in Calls, d # c PROVE CallTrue(d)'
  <2>1. calls'[d] = calls[d]
    BY <1>1 DEF CallInv, Typed
  <2> QED BY <1>1, <2>1, CallFrame DEF CallInv
<1> QED BY <1>1 DEF CallInv

LEMMA SendStep ==
  ASSUME CallInv, NEW c \in Calls, Send(c)
  PROVE  CallInv'
<1> DEFINE next == [calls[c] EXCEPT !.state = "sent"]
<1>1. calls[c] \in CallType /\ calls[c].state = "new"
  BY DEF CallInv, Typed, Send
<1>2. calls' = [calls EXCEPT ![c] = next] /\ UNCHANGED <<working, updates, told>>
  BY DEF Send
<1>3. /\ next \in CallType /\ next.state = "sent"
      /\ next.over = calls[c].over /\ next.did = calls[c].did
  BY <1>1 DEF CallType
<1> HIDE DEF next
<1>4. Typed'
  BY <1>2, <1>3 DEF CallInv, Typed, Counts
<1>5. calls'[c] = next
  BY <1>2 DEF CallInv, Typed
<1>6. CallTrue(c)'
  BY <1>1, <1>2, <1>3, <1>5 DEF CallInv, CallTrue, Silent
<1> QED BY <1>2, <1>4, <1>6, OtherCalls

LEMMA OverStep ==
  ASSUME CallInv, NEW c \in Calls, NEW org \in Targets[c],
         Answer(c, org) \/ Refuse(c, org) \/ LoseReply(c, org)
  PROVE  CallInv'
<1>1. PICK did \in SUBSET {org}, state \in {calls[c].state, "failed"} :
        /\ Over(c, org, did, state)
        /\ state = "failed" \/ (state = calls[c].state /\ did = {org})
  BY DEF Answer, Refuse, LoseReply
<1> DEFINE next == [state |-> state, over |-> calls[c].over \cup {org},
                    did |-> calls[c].did \cup did]
<1>2. calls[c] \in CallType /\ calls[c].state \in {"sent", "failed"}
  BY <1>1 DEF CallInv, Typed, Over
<1>3. calls' = [calls EXCEPT ![c] = next] /\ UNCHANGED <<working, updates, told>>
  BY <1>1 DEF Over
<1>4. org \in Asked
  BY DEF Asked
<1>5. next \in CallType
  BY <1>2, <1>4 DEF CallType
<1>6. Typed'
  BY <1>3, <1>5 DEF CallInv, Typed, Counts
<1>7. calls'[c] = next
  BY <1>3 DEF CallInv, Typed
<1>8. /\ next.state = state /\ next.over = calls[c].over \cup {org}
      /\ next.did = calls[c].did \cup did
  OBVIOUS
<1> HIDE DEF next
<1>9. Silent(c)'
  BY <1>2, <1>3 DEF CallInv, CallTrue, Silent
<1>10. CallTrue(c)'
  <2>1. next.state \in {"sent", "failed"}
    BY <1>1, <1>2, <1>8
  <2>2. next.state = "sent" => next.did = next.over
    BY <1>1, <1>2, <1>8 DEF CallInv, CallTrue
  <2> QED BY <1>7, <1>9, <2>1, <2>2 DEF CallTrue
<1> QED BY <1>3, <1>6, <1>10, OtherCalls

LEMMA TellStep ==
  ASSUME CallInv, NEW c \in Calls, TellCall(c)
  PROVE  CallInv'
<1> DEFINE next == [calls[c] EXCEPT !.state = "telling"]
<1>1. /\ calls[c] \in CallType
      /\ calls[c].state = "sent" /\ calls[c].over = Targets[c]
  BY DEF CallInv, Typed, TellCall
<1>2. calls' = [calls EXCEPT ![c] = next] /\ UNCHANGED updates /\ Tell(c, <<Caller[c]>>)
  BY DEF TellCall
<1>3. next \in CallType /\ next.state = "telling" /\ next.did = calls[c].did
  BY <1>1 DEF CallType
<1> HIDE DEF next
<1>4. Typed'
  <2>1. calls' \in [Calls -> CallType]
    BY <1>2, <1>3 DEF CallInv, Typed
  <2> QED BY <1>2, <2>1, TellFrame, EventKinds DEF CallInv, Typed
<1>5. calls'[c] = next
  BY <1>2 DEF CallInv, Typed
<1>6. CallTrue(c)'
  BY <1>1, <1>3, <1>5 DEF CallInv, CallTrue
<1>7. \A h \in Handlers, d \in Calls : d # c => told'[h][d] = told[h][d]
  BY <1>2, TellFrame, EventKinds DEF CallInv
<1> QED BY <1>2, <1>4, <1>6, <1>7, OtherCalls

LEMMA ReturnStep ==
  ASSUME CallInv, NEW c \in Calls, Return(c)
  PROVE  CallInv'
<1> DEFINE next == [calls[c] EXCEPT !.state = "returned"]
<1>1. calls[c] \in CallType /\ calls[c].state = "telling"
  BY DEF CallInv, Typed, Return
<1>2. calls' = [calls EXCEPT ![c] = next] /\ UNCHANGED <<working, updates, told>>
  BY DEF Return
<1>3. next \in CallType /\ next.state = "returned" /\ next.did = calls[c].did
  BY <1>1 DEF CallType
<1> HIDE DEF next
<1>4. Typed'
  BY <1>2, <1>3 DEF CallInv, Typed, Counts
<1>5. calls'[c] = next
  BY <1>2 DEF CallInv, Typed
<1>6. CallTrue(c)'
  BY <1>1, <1>3, <1>5 DEF CallInv, CallTrue
<1> QED BY <1>2, <1>4, <1>6, OtherCalls

LEMMA CallNext == CallInv /\ [Next]_vars => CallInv'
<1> SUFFICES ASSUME CallInv, [Next]_vars PROVE CallInv'
  OBVIOUS
<1>1. CASE \/ UNCHANGED vars \/ Started \/ Destroy
           \/ \E a \in Apis : Install(a)
           \/ \E h \in Handlers : Register(h) \/ (h \in Temporary /\ Unregister(h))
  <2>1. UNCHANGED <<working, updates, calls, told>>
    BY <1>1 DEF vars, Started, Destroy, Install, Register, Unregister
  <2>2. Typed'
    BY <2>1 DEF CallInv, Typed, Counts
  <2> QED BY <2>1, <2>2, UntouchedCalls
<1>2. CASE \E w \in working : Store(w) \/ Done(w) \/ Throw(w) \/ StoreThrows(w)
  BY <1>2, HandlerStep
<1>3. CASE \E u \in Updates : Begin(u) \/ Change(u) \/ Commit(u) \/ UpdateThrows(u)
  BY <1>3, UpdateStep
<1>4. CASE \E c \in Calls :
             \/ Send(c) \/ TellCall(c) \/ Return(c)
             \/ \E org \in Targets[c] :
                  Answer(c, org) \/ Refuse(c, org) \/ LoseReply(c, org)
  BY <1>4, SendStep, TellStep, ReturnStep, OverStep
<1>5. Temporary \subseteq Handlers
  BY ConstantsAssumption
<1> QED BY <1>1, <1>2, <1>3, <1>4, <1>5 DEF Next

(* For every number of integrations, handlers, calls and sources: handlers *)
(* hear of a remote accept, reserve or reject only when every organization *)
(* asked has done it (oprnetworkclient.ts, integrationapiimpl.ts).         *)
THEOREM RemoteEventsAreTrue == Spec => []RemoteEventsTrue
<1>1. CallInv => RemoteEventsTrue
  BY DEF CallInv, Typed, CallType, CallTrue, Silent, RemoteEventsTrue
<1> QED BY <1>1, CallInit, CallNext, PTL DEF Spec

-----------------------------------------------------------------------------
(* InOrder is inductive: what an update told last is what its handlers are *)
(* at, and it moves on only when it need not wait for them.                *)

(* A run the update need not wait for any more is one of a clone that      *)
(* threw.                                                                  *)
LEMMA WaitedRuns ==
  ASSUME InOrder, NEW u \in Updates, Waited(Current(u)),
         NEW w \in working, NEW n \in 1 .. Changes, w.of = <<u, n>>
  PROVE  <<w.of, ApiOf[w.by]>> \in threw
  BY DEF InOrder, Waited, Current

LEMMA HandlerOrder ==
  ASSUME CallInv, InOrder, NEW w \in working,
         Store(w) \/ Done(w) \/ Throw(w) \/ StoreThrows(w)
  PROVE  InOrder'
<1> SUFFICES ASSUME NEW x \in working', NEW u \in Updates, NEW n \in 1 .. Changes,
                    x.of = <<u, n>>
             PROVE  \/ updates[u].state = "open" /\ updates[u].told = n
                    \/ <<x.of, ApiOf[x.by]>> \in threw'
  BY DEF InOrder, Store, Done, Throw, StoreThrows, Threw
<1>1. threw \subseteq threw'
  BY DEF Store, Done, Throw, StoreThrows, Threw
<1>2. PICK y \in working : y.of = x.of /\ y.by = x.by
  <2>1. w \in Run
    BY DEF CallInv, Typed
  <2>2. LET z == [w EXCEPT !.stage = "storing"] IN z.of = w.of /\ z.by = w.by
    BY <2>1 DEF Run
  <2> QED BY <2>2 DEF Store, Done, Throw, StoreThrows, Threw
<1> QED BY <1>1, <1>2 DEF InOrder

LEMMA UpdateOrder ==
  ASSUME CallInv, InOrder, NEW u \in Updates,
         Begin(u) \/ Change(u) \/ Commit(u) \/ UpdateThrows(u)
  PROVE  InOrder'
<1> SUFFICES ASSUME NEW w \in working', NEW v \in Updates, NEW n \in 1 .. Changes,
                    w.of = <<v, n>>
             PROVE  \/ updates'[v].state = "open" /\ updates'[v].told = n
                    \/ <<w.of, ApiOf[w.by]>> \in threw
  BY DEF InOrder, Begin, Change, Commit, UpdateThrows
<1>0. \A x \in Updates : updates[x] \in UpdateType
  BY DEF CallInv, Typed
<1>1. CASE w \in working /\ v # u
  <2>1. updates'[v] = updates[v]
    BY <1>1 DEF CallInv, Typed, Begin, Change, Commit, UpdateThrows
  <2> QED BY <1>1, <2>1 DEF InOrder
<1>2. CASE w \in working /\ v = u
  <2>1. CASE Begin(u)
    BY <1>2, <2>1 DEF InOrder, Begin
  <2>2. CASE Change(u) \/ Commit(u) \/ UpdateThrows(u)
    <3>1. Waited(Current(u))
      BY <2>2 DEF Change, Commit, UpdateThrows
    <3> QED BY <1>2, <3>1, WaitedRuns
  <2> QED BY <2>1, <2>2
<1>3. CASE w \notin working
  <2> DEFINE now == updates[u].told + 1
             event == <<u, now>>
  <2>1. Change(u)
    BY <1>3 DEF Begin, Commit, UpdateThrows
  <2>2. now \in 1 .. Changes
    BY <1>0, <2>1, ConstantsAssumption DEF Change, UpdateType
  <2>3. updates'[u].state = "open" /\ updates'[u].told = now
    <3>1. [updates[u] EXCEPT !.told = @ + 1] \in UpdateType
      BY <1>0, <2>1, ConstantsAssumption DEF Change, UpdateType
    <3>2. updates'[u] = [updates[u] EXCEPT !.told = @ + 1]
      BY <2>1 DEF Change, CallInv, Typed
    <3>3. updates[u].state = "open"
      BY <2>1 DEF Change
    <3> QED BY <1>0, <3>2, <3>3 DEF UpdateType
  <2>4. w.of = event
    <3>1. event \in Events /\ Tell(event, listeners)
      BY <2>1, <2>2, EventKinds DEF Change
    <3> HIDE DEF event
    <3> QED BY <1>3, <3>1, TellFrame DEF CallInv
  <2>5. v = u /\ n = now
    BY <2>4
  <2> QED BY <2>3, <2>5
<1> QED BY <1>1, <1>2, <1>3

LEMMA CallOrder ==
  ASSUME CallInv, InOrder, NEW c \in Calls, TellCall(c)
  PROVE  InOrder'
<1> SUFFICES ASSUME NEW w \in working', NEW u \in Updates, NEW n \in 1 .. Changes,
                    w.of = <<u, n>>
             PROVE  \/ updates[u].state = "open" /\ updates[u].told = n
                    \/ <<w.of, ApiOf[w.by]>> \in threw
  BY DEF InOrder, TellCall
<1>1. w \in working \/ w.of = c
  BY TellFrame, EventKinds DEF TellCall, CallInv
<1> QED BY <1>1, EventKinds DEF InOrder

LEMMA OrderNext == CallInv /\ InOrder /\ [Next]_vars => InOrder'
<1> SUFFICES ASSUME CallInv, InOrder, [Next]_vars PROVE InOrder'
  OBVIOUS
<1>1. CASE UNCHANGED <<working, updates, threw>>
  BY <1>1 DEF InOrder
<1>2. CASE \E w \in working : Store(w) \/ Done(w) \/ Throw(w) \/ StoreThrows(w)
  BY <1>2, HandlerOrder
<1>3. CASE \E u \in Updates : Begin(u) \/ Change(u) \/ Commit(u) \/ UpdateThrows(u)
  BY <1>3, UpdateOrder
<1>4. CASE \E c \in Calls : TellCall(c)
  BY <1>4, CallOrder
<1>5. \/ UNCHANGED <<working, updates, threw>>
      \/ \E w \in working : Store(w) \/ Done(w) \/ Throw(w) \/ StoreThrows(w)
      \/ \E u \in Updates : Begin(u) \/ Change(u) \/ Commit(u) \/ UpdateThrows(u)
      \/ \E c \in Calls : TellCall(c)
  BY DEF Next, vars, Started, Destroy, Install, Register, Unregister, Send,
         Return, Answer, Refuse, LoseReply, Over
<1> QED BY <1>1, <1>2, <1>3, <1>4, <1>5

(* For every number of integrations, handlers and changes: an update stays *)
(* in its transaction, at the change it told last, while a handler of a    *)
(* clone without error is at that change (persistentoffermodel.ts          *)
(* fireChange, integrationapiimpl.ts).                                     *)
THEOREM ChangesAreInOrder == Spec => []InOrder
<1>1. Init => InOrder
  BY DEF Init, InOrder
<1> QED BY <1>1, CallInit, CallNext, OrderNext, PTL DEF Spec

-----------------------------------------------------------------------------
(* Lists of listeners and handlers, in which nobody is twice               *)

List(s, S) == s \in Seq(S) /\ IsInjective(s)

LEMMA RemovedAt ==
  ASSUME NEW S, NEW list, List(list, S), NEW k \in 1 .. Len(list)
  PROVE  Removed(list, list[k]) = RemoveAt(list, k)
<1> DEFINE first(i) == list[i] = list[k] /\ \A j \in 1 .. i - 1 : list[j] # list[k]
<1>1. list \in Seq(S) /\ Len(list) \in Nat /\ DOMAIN list = 1 .. Len(list)
  BY DEF List
<1>2. \A i, j \in 1 .. Len(list) : list[i] = list[j] => i = j
  BY <1>1 DEF List, IsInjective
<1>3. \A i \in DOMAIN list : first(i) <=> i = k
  BY <1>1, <1>2
<1>4. Contains(list, list[k])
  BY DEF Contains
<1>5. (CHOOSE i \in DOMAIN list : first(i)) = k
  <2>1. \E i \in DOMAIN list : first(i)
    BY <1>1, <1>3
  <2> HIDE DEF first
  <2> QED BY <1>3, <2>1
<1> QED BY <1>4, <1>5 DEF Removed

LEMMA RemoveAtIs ==
  ASSUME NEW S, NEW list \in Seq(S), NEW k \in 1 .. Len(list)
  PROVE  RemoveAt(list, k) =
           [i \in 1 .. Len(list) - 1 |-> IF i < k THEN list[i] ELSE list[i + 1]]
<1> DEFINE before == SubSeq(list, 1, k - 1)
           after == SubSeq(list, k + 1, Len(list))
<1>0. Len(list) \in Nat /\ k \in Nat
  OBVIOUS
<1>1. before \in Seq(S) /\ Len(before) = k - 1 /\ \A i \in 1 .. k - 1 : before[i] = list[i]
  BY <1>0
<1>2. /\ after \in Seq(S) /\ Len(after) = Len(list) - k
      /\ \A i \in 1 .. Len(list) - k : after[i] = list[k + i]
  BY <1>0
<1>3. RemoveAt(list, k) = before \o after
  BY DEF RemoveAt
<1> HIDE DEF before, after
<1>4. /\ before \o after \in Seq(S)
      /\ Len(before \o after) = Len(list) - 1
      /\ DOMAIN (before \o after) = 1 .. Len(list) - 1
  <2>1. before \o after \in Seq(S) /\ Len(before \o after) = Len(before) + Len(after)
    BY <1>1, <1>2, ConcatProperties
  <2>2. Len(before) + Len(after) = Len(list) - 1
    BY <1>0, <1>1, <1>2
  <2> QED BY <2>1, <2>2
<1>5. \A i \in 1 .. Len(list) - 1 :
        (before \o after)[i] = IF i < k THEN list[i] ELSE list[i + 1]
  <2> SUFFICES ASSUME NEW i \in 1 .. Len(list) - 1
               PROVE  (before \o after)[i] = IF i < k THEN list[i] ELSE list[i + 1]
    OBVIOUS
  <2>1. (before \o after)[i] = IF i <= Len(before) THEN before[i] ELSE after[i - Len(before)]
    BY <1>0, <1>1, <1>2
  <2> QED BY <1>0, <1>1, <1>2, <2>1
<1>6. before \o after = [i \in DOMAIN (before \o after) |-> (before \o after)[i]]
  BY <1>4, LenProperties
<1> QED BY <1>3, <1>4, <1>5, <1>6

LEMMA RemovedStaysList ==
  ASSUME NEW S, NEW list, List(list, S), NEW x, Contains(list, x)
  PROVE  List(Removed(list, x), S)
<1>1. PICK k \in 1 .. Len(list) : list[k] = x
  BY DEF Contains
<1> DEFINE n == Len(list)
           rest == [i \in 1 .. n - 1 |-> IF i < k THEN list[i] ELSE list[i + 1]]
<1>2. list \in Seq(S) /\ n \in Nat /\ DOMAIN list = 1 .. n
      /\ \A i \in 1 .. n : list[i] \in S
  BY DEF List
<1>3. Removed(list, x) = rest
  BY <1>1, <1>2, RemovedAt, RemoveAtIs
<1>4. n - 1 \in Nat
  BY <1>2
<1>5. rest \in Seq(S)
  <2>1. \A i \in 1 .. n - 1 : rest[i] \in S
    BY <1>2
  <2>2. rest \in [1 .. n - 1 -> S]
    BY <2>1
  <2> HIDE DEF rest
  <2>3. \E m \in Nat : rest \in [1 .. m -> S]
    BY <1>4, <2>2
  <2> QED BY <2>3, SeqDef
<1>6. IsInjective(rest)
  <2>1. \A i, j \in 1 .. n : list[i] = list[j] => i = j
    BY <1>2 DEF List, IsInjective
  <2> QED BY <1>2, <2>1 DEF IsInjective
<1> QED BY <1>3, <1>5, <1>6 DEF List

LEMMA AppendStaysList ==
  ASSUME NEW S, NEW list, List(list, S), NEW x \in S, ~Contains(list, x)
  PROVE  List(Append(list, x), S)
<1>1. list \in Seq(S) /\ Len(list) \in Nat /\ DOMAIN list = 1 .. Len(list)
  BY DEF List
<1>2. \A i, j \in 1 .. Len(list) : list[i] = list[j] => i = j
  BY <1>1 DEF List, IsInjective
<1>3. \A i \in 1 .. Len(list) : list[i] # x
  BY DEF Contains
<1>4. /\ Append(list, x) \in Seq(S) /\ DOMAIN Append(list, x) = 1 .. Len(list) + 1
      /\ Append(list, x)[Len(list) + 1] = x
      /\ \A i \in 1 .. Len(list) : Append(list, x)[i] = list[i]
  BY <1>1
<1>5. IsInjective(Append(list, x))
  BY <1>1, <1>2, <1>3, <1>4 DEF IsInjective
<1> QED BY <1>4, <1>5 DEF List

(* Who is in such a list is in it once.                                    *)
LEMMA ListedTimes ==
  ASSUME NEW S, NEW list, List(list, S), NEW x
  PROVE  Times(list, x) = IF Contains(list, x) THEN 1 ELSE 0
<1>1. list \in Seq(S) /\ Len(list) \in Nat /\ DOMAIN list = 1 .. Len(list)
  BY DEF List
<1>2. CASE Contains(list, x)
  <2>1. PICK k \in 1 .. Len(list) : list[k] = x
    BY <1>2 DEF Contains
  <2>2. { i \in DOMAIN list : list[i] = x } = {k}
    BY <1>1, <2>1 DEF List, IsInjective
  <2> QED BY <1>2, <2>2, FS_Singleton DEF Times
<1>3. CASE ~Contains(list, x)
  <2>1. { i \in DOMAIN list : list[i] = x } = {}
    BY <1>1, <1>3 DEF Contains
  <2> QED BY <1>3, <2>1, FS_EmptySet DEF Times
<1> QED BY <1>2, <1>3

-----------------------------------------------------------------------------
(* destroy() leaves no listener.                                           *)

LEMMA MinExists ==
  ASSUME NEW S \in SUBSET Nat, S # {}
  PROVE  \E m \in S : \A x \in S : m <= x
<1>1. \E m \in S : \A y \in S : ~(<<y, m>> \in OpToRel(<, Nat))
  BY NatLessThanWellFounded, WFMin
<1>2. PICK m \in S : \A y \in S : ~(<<y, m>> \in OpToRel(<, Nat))
  BY <1>1
<1>3. \A y \in S : ~(y < m)
  BY <1>2 DEF OpToRel
<1> QED BY <1>3

(* The n-th of those that leave is then the second of the list, the last   *)
(* one its only member.                                                    *)
Left(list, n) == [i \in 1 .. Len(list) - n |-> IF i = 1 THEN Root ELSE list[i + n]]

LEMMA LeftStep ==
  ASSUME NEW list, List(list, Apis \cup {Root}), Len(list) > 0, list[1] = Root,
         NEW n \in Nat, n < Len(list)
  PROVE  /\ n + 1 < Len(list) => Removed(Left(list, n), list[n + 2]) = Left(list, n + 1)
         /\ n + 1 = Len(list) => Removed(Left(list, n), Root) = Left(list, n + 1)
<1> DEFINE S == Apis \cup {Root}
           now == Left(list, n)
           p == Len(list)
<1>1. list \in Seq(S) /\ p \in Nat /\ DOMAIN list = 1 .. p
      /\ \A i \in 1 .. p : list[i] \in S
  BY DEF List
<1>2. \A i, j \in 1 .. p : list[i] = list[j] => i = j
  BY <1>1 DEF List, IsInjective
<1>3. p - n \in Nat /\ p - n >= 1
  BY <1>1
<1>4. now \in [1 .. p - n -> S]
  BY <1>1 DEF Left
<1>5. now \in Seq(S) /\ Len(now) = p - n /\ DOMAIN now = 1 .. p - n
  <2>1. \E m \in Nat : now \in [1 .. m -> S]
    BY <1>3, <1>4
  <2>2. now \in Seq(S)
    BY <2>1, SeqDef
  <2>3. DOMAIN now = 1 .. Len(now) /\ Len(now) \in Nat
    BY <2>2, LenProperties
  <2>4. DOMAIN now = 1 .. p - n
    BY <1>4
  <2> HIDE DEF now, p
  <2> QED BY <1>3, <2>2, <2>3, <2>4
<1>6. now[1] = Root /\ \A i \in 2 .. p - n : now[i] = list[i + n]
  BY <1>1, <1>3 DEF Left
<1>7. List(now, S)
  <2>1. \A i, j \in 1 .. p - n : now[i] = now[j] => i = j
    BY <1>1, <1>2, <1>3, <1>6
  <2> QED BY <1>5, <2>1 DEF List, IsInjective
<1>8. Left(list, n + 1) = [i \in 1 .. p - n - 1 |-> IF i = 1 THEN Root ELSE list[i + n + 1]]
  BY <1>1 DEF Left
<1> HIDE DEF now, p
<1>9. ASSUME n + 1 < p PROVE Removed(now, list[n + 2]) = Left(list, n + 1)
  <2>1. 2 \in 1 .. Len(now) /\ now[2] = list[n + 2]
    BY <1>1, <1>3, <1>5, <1>6, <1>9
  <2>2. Removed(now, now[2]) = RemoveAt(now, 2)
    BY <1>7, <2>1, RemovedAt
  <2>3. RemoveAt(now, 2) =
          [i \in 1 .. Len(now) - 1 |-> IF i < 2 THEN now[i] ELSE now[i + 1]]
    BY <1>5, <2>1, RemoveAtIs
  <2>4. \A i \in 1 .. p - n - 1 :
          (IF i < 2 THEN now[i] ELSE now[i + 1]) = IF i = 1 THEN Root ELSE list[i + n + 1]
    BY <1>1, <1>3, <1>6
  <2> QED BY <1>5, <1>8, <2>1, <2>2, <2>3, <2>4
<1>10. ASSUME n + 1 = p PROVE Removed(now, Root) = Left(list, n + 1)
  <2>1. 1 \in 1 .. Len(now) /\ now[1] = Root /\ Len(now) = 1
    BY <1>1, <1>3, <1>5, <1>6, <1>10
  <2>2. Removed(now, now[1]) = RemoveAt(now, 1)
    BY <1>7, <2>1, RemovedAt
  <2>3. RemoveAt(now, 1) =
          [i \in 1 .. Len(now) - 1 |-> IF i < 1 THEN now[i] ELSE now[i + 1]]
    BY <1>5, <2>1, RemoveAtIs
  <2>4. 1 .. Len(now) - 1 = {} /\ 1 .. p - n - 1 = {}
    BY <1>1, <1>10, <2>1
  <2> QED BY <1>8, <2>1, <2>2, <2>3, <2>4
<1> QED BY <1>9, <1>10 DEF now, p

LEMMA DestroyEmpties ==
  ASSUME List(listeners, Apis \cup {Root}), Len(listeners) > 0, listeners[1] = Root,
         Destroy
  PROVE  listeners' = <<>>
<1> DEFINE S == Apis \cup {Root}
           p == Len(listeners)
           leaving == Append(Tail(listeners), Root)
           q == Len(leaving)
           f == CHOOSE g : g = [n \in 0 .. q |-> IF n = 0 THEN listeners
                                                  ELSE Removed(g[n - 1], leaving[n])]
           h == [n \in 0 .. q |-> Left(listeners, n)]
<1>1. listeners \in Seq(S) /\ p \in Nat /\ p >= 1
  BY DEF List
<1>2. q = p /\ leaving[p] = Root /\ \A n \in 1 .. p - 1 : leaving[n] = listeners[n + 1]
  <2>1. /\ Tail(listeners) \in Seq(S) /\ Len(Tail(listeners)) = p - 1
        /\ \A n \in 1 .. p - 1 : Tail(listeners)[n] = listeners[n + 1]
    BY <1>1
  <2> HIDE DEF p
  <2> QED BY <1>1, <2>1
<1>3. listeners' = f[q]
  BY DEF Destroy
<1> HIDE DEF leaving, f
<1>4. Left(listeners, 0) = listeners
  <2>1. listeners = [i \in 1 .. p |-> listeners[i]]
    BY <1>1
  <2>2. \A i \in 1 .. p : (IF i = 1 THEN Root ELSE listeners[i + 0]) = listeners[i]
    BY <1>1
  <2>3. p - 0 = p
    BY <1>1
  <2> QED BY <2>1, <2>2, <2>3 DEF Left
<1>5. ASSUME NEW n \in 1 .. q
      PROVE  Removed(Left(listeners, n - 1), leaving[n]) = Left(listeners, n)
  <2>1. n - 1 \in Nat /\ n - 1 < p /\ n - 1 + 1 = n /\ n - 1 + 2 = n + 1
    BY <1>1, <1>2
  <2>2. /\ n < p => Removed(Left(listeners, n - 1), listeners[n + 1]) = Left(listeners, n)
        /\ n = p => Removed(Left(listeners, n - 1), Root) = Left(listeners, n)
    <3> DEFINE k == n - 1
    <3>1. k \in Nat /\ k < p /\ k + 1 = n /\ k + 2 = n + 1
      BY <2>1
    <3> HIDE DEF k
    <3>2. /\ k + 1 < p => Removed(Left(listeners, k), listeners[k + 2]) = Left(listeners, k + 1)
          /\ k + 1 = p => Removed(Left(listeners, k), Root) = Left(listeners, k + 1)
      BY <1>1, <3>1, LeftStep
    <3> QED BY <3>1, <3>2 DEF k
  <2> QED BY <1>1, <1>2, <2>1, <2>2
<1>6. h = [n \in 0 .. q |-> IF n = 0 THEN listeners ELSE Removed(h[n - 1], leaving[n])]
  <2>1. \A n \in 0 .. q : h[n] = IF n = 0 THEN listeners ELSE Removed(h[n - 1], leaving[n])
    <3> SUFFICES ASSUME NEW n \in 0 .. q
                 PROVE  h[n] = IF n = 0 THEN listeners ELSE Removed(h[n - 1], leaving[n])
      OBVIOUS
    <3>1. CASE n = 0
      BY <1>4, <3>1
    <3>2. CASE n # 0
      <4>1. n \in 1 .. q /\ n - 1 \in 0 .. q
        BY <1>1, <1>2, <3>2
      <4>2. h[n - 1] = Left(listeners, n - 1)
        BY <4>1
      <4> QED BY <1>5, <3>2, <4>1, <4>2
    <3> QED BY <3>1, <3>2
  <2> QED BY <2>1
<1>7. f = [n \in 0 .. q |-> IF n = 0 THEN listeners ELSE Removed(f[n - 1], leaving[n])]
  <2>1. \E g : g = [n \in 0 .. q |-> IF n = 0 THEN listeners
                                       ELSE Removed(g[n - 1], leaving[n])]
    BY <1>6
  <2> QED BY <2>1 DEF f
<1>8. \A n \in 0 .. q : f[n] = Left(listeners, n)
  <2> DEFINE bad == { n \in 0 .. q : f[n] # Left(listeners, n) }
  <2>1. SUFFICES ASSUME bad # {} PROVE FALSE
    OBVIOUS
  <2>2. bad \in SUBSET Nat
    OBVIOUS
  <2>3. PICK m \in bad : \A x \in bad : m <= x
    BY <2>1, <2>2, MinExists
  <2>4. m # 0
    BY <1>2, <1>1, <1>4, <1>7, <2>3
  <2>5. m \in 1 .. q /\ m - 1 \in 0 .. q /\ ~(m <= m - 1)
    BY <1>1, <1>2, <2>3, <2>4
  <2>6. f[m - 1] = Left(listeners, m - 1)
    BY <2>3, <2>5
  <2>7. f[m] = Removed(f[m - 1], leaving[m])
    BY <1>7, <2>4, <2>5
  <2> QED BY <1>5, <2>3, <2>5, <2>6, <2>7
<1>9. Left(listeners, p) = <<>>
  <2>1. 1 .. p - p = {}
    BY <1>1
  <2> QED BY <2>1 DEF Left
<1> QED BY <1>1, <1>2, <1>3, <1>8, <1>9

-----------------------------------------------------------------------------
(* Who listens: the node's own API first, all its clones while it runs,    *)
(* nobody after it; and nothing is told before it runs.                    *)
Attached ==
  /\ node \in {"built", "started", "destroyed"}
  /\ List(listeners, Apis \cup {Root})
  /\ node # "destroyed" => Len(listeners) > 0 /\ listeners[1] = Root
  /\ node = "started" => \A a \in Apis : Contains(listeners, a)
  /\ node = "destroyed" => listeners = <<>>
  /\ node = "built" => \A u \in Updates : updates[u].state = "new"
  /\ handlers \in [Apis -> Seq(Handlers)]
  /\ \A a \in Apis : List(handlers[a], Handlers)

(* What was heard: nobody has heard of a change that was not told yet.     *)
Heard ==
  /\ threw \subseteq Events \X Apis
  /\ told \in [Handlers -> [Events -> Nat]]
  /\ \A h \in Handlers, u \in Updates, n \in 1 .. Changes :
       n > updates[u].told => told[h][<<u, n>>] = 0

LEMMA AttachedInit == Init => Attached /\ Heard
<1> SUFFICES ASSUME Init PROVE Attached /\ Heard
  OBVIOUS
<1>1. List(<<Root>>, Apis \cup {Root}) /\ Len(<<Root>>) > 0 /\ <<Root>>[1] = Root
  BY DEF List, IsInjective
<1>2. List(<<>>, Handlers)
  BY DEF List, IsInjective
<1>3. Attached
  BY <1>1, <1>2 DEF Init, Attached
<1>4. Heard
  BY EventKinds DEF Init, Heard
<1> QED BY <1>3, <1>4

LEMMA NodeStep ==
  ASSUME Attached,
         \/ Started \/ Destroy
         \/ \E a \in Apis : Install(a)
         \/ \E h \in Handlers : Register(h) \/ Unregister(h)
  PROVE  Attached'
<1>1. CASE Started
  BY <1>1 DEF Attached, Started
<1>2. CASE Destroy
  <2>1. listeners' = <<>>
    BY <1>2, DestroyEmpties DEF Attached, Destroy
  <2>2. List(<<>>, Apis \cup {Root})
    BY DEF List, IsInjective
  <2>3. node' = "destroyed" /\ UNCHANGED <<handlers, updates>>
    BY <1>2 DEF Destroy
  <2> QED BY <2>1, <2>2, <2>3 DEF Attached
<1>3. ASSUME NEW a \in Apis, Install(a) PROVE Attached'
  <2>1. listeners' = listeners \o <<a>> /\ node = "built" /\ ~Contains(listeners, a)
        /\ UNCHANGED <<node, handlers, updates>>
    BY <1>3 DEF Install, Installed
  <2>2. listeners \in Seq(Apis \cup {Root}) /\ Len(listeners) \in Nat
        /\ Len(listeners) > 0 /\ listeners[1] = Root
    BY <2>1 DEF Attached, List
  <2>3. listeners \o <<a>> = Append(listeners, a)
    BY <2>2, AppendIsConcat
  <2>4. List(listeners', Apis \cup {Root})
    <3>1. List(listeners, Apis \cup {Root}) /\ a \in Apis \cup {Root}
      BY DEF Attached
    <3>2. List(Append(listeners, a), Apis \cup {Root})
      BY <2>1, <3>1, AppendStaysList
    <3> QED BY <2>1, <2>3, <3>2
  <2>5. Len(listeners') > 0 /\ listeners'[1] = Root
    BY <2>1, <2>2, <2>3, AppendProperties
  <2> QED BY <2>1, <2>4, <2>5 DEF Attached
<1>4. ASSUME NEW h \in Handlers, Register(h) \/ Unregister(h) PROVE Attached'
  <2> DEFINE a == ApiOf[h]
             next == handlers'[a]
  <2>0. a \in Apis
    BY ConstantsAssumption
  <2>1. /\ UNCHANGED <<node, listeners, updates>>
        /\ \E list : handlers' = [handlers EXCEPT ![a] = list]
    BY <1>4 DEF Register, Unregister
  <2>2. \/ ~Contains(handlers[a], h) /\ next = Append(handlers[a], h)
        \/ Contains(handlers[a], h) /\ next = Removed(handlers[a], h)
    BY <1>4, <2>0 DEF Register, Unregister, Attached
  <2>3. List(next, Handlers)
    <3>1. List(handlers[a], Handlers)
      BY <2>0 DEF Attached
    <3>2. ~Contains(handlers[a], h) => List(Append(handlers[a], h), Handlers)
      BY <3>1, AppendStaysList
    <3>3. Contains(handlers[a], h) => List(Removed(handlers[a], h), Handlers)
      BY <3>1, RemovedStaysList
    <3> HIDE DEF a, next
    <3> QED BY <2>2, <3>2, <3>3
  <2>4. handlers' = [handlers EXCEPT ![a] = next]
    BY <2>0, <2>1 DEF Attached
  <2> HIDE DEF next, a
  <2>5. next \in Seq(Handlers)
    BY <2>3 DEF List
  <2> QED BY <2>0, <2>1, <2>3, <2>4, <2>5 DEF Attached
<1> QED BY <1>1, <1>2, <1>3, <1>4

LEMMA AttachedNext == CallInv /\ Attached /\ [Next]_vars => Attached'
<1> SUFFICES ASSUME CallInv, Attached, [Next]_vars PROVE Attached'
  OBVIOUS
<1>1. CASE UNCHANGED <<node, listeners, handlers, updates>>
  BY <1>1 DEF Attached
<1>2. ASSUME NEW u \in Updates, Begin(u) \/ Change(u) \/ Commit(u) \/ UpdateThrows(u)
      PROVE  Attached'
  <2>1. node # "built"
    BY <1>2 DEF Attached, Begin, Change, Commit, UpdateThrows
  <2>2. UNCHANGED <<node, listeners, handlers>>
    BY <1>2 DEF Begin, Change, Commit, UpdateThrows
  <2> QED BY <2>1, <2>2 DEF Attached
<1>3. \/ UNCHANGED <<node, listeners, handlers, updates>>
      \/ \E u \in Updates : Begin(u) \/ Change(u) \/ Commit(u) \/ UpdateThrows(u)
      \/ Started \/ Destroy
      \/ \E a \in Apis : Install(a)
      \/ \E h \in Handlers : Register(h) \/ Unregister(h)
  BY ConstantsAssumption DEF Next, vars, Store, Done, Throw, StoreThrows, Threw,
     Send, TellCall, Return, Answer, Refuse, LoseReply, Over
<1> QED BY <1>1, <1>2, <1>3, NodeStep

-----------------------------------------------------------------------------
(* Telling an event counts it once for each handler of those who listen.   *)
LEMMA TellCounts ==
  ASSUME NEW event \in Events, NEW clones, List(clones, Apis \cup {Root}),
         Attached, told \in [Handlers -> [Events -> Nat]], Tell(event, clones)
  PROVE  /\ told' \in [Handlers -> [Events -> Nat]]
         /\ \A h \in Handlers, e \in Events : e # event => told'[h][e] = told[h][e]
         /\ \A h \in Handlers : told'[h][event] = told[h][event] +
              IF Contains(clones, ApiOf[h]) /\ Contains(handlers[ApiOf[h]], h)
              THEN 1 ELSE 0
<1> DEFINE hears(h) == Times(clones, ApiOf[h]) * Times(handlers[ApiOf[h]], h)
           counts(h) == IF Contains(clones, ApiOf[h]) /\ Contains(handlers[ApiOf[h]], h)
                        THEN 1 ELSE 0
<1>1. told' = [h \in Handlers |-> [told[h] EXCEPT ![event] = @ + hears(h)]]
  BY DEF Tell
<1>2. ASSUME NEW h \in Handlers PROVE hears(h) = counts(h)
  <2>1. ApiOf[h] \in Apis
    BY ConstantsAssumption
  <2>2. Times(clones, ApiOf[h]) = IF Contains(clones, ApiOf[h]) THEN 1 ELSE 0
    BY ListedTimes
  <2>3. Times(handlers[ApiOf[h]], h) = IF Contains(handlers[ApiOf[h]], h) THEN 1 ELSE 0
    BY <2>1, ListedTimes DEF Attached
  <2> QED BY <2>2, <2>3
<1>3. \A h \in Handlers : counts(h) \in Nat
  OBVIOUS
<1> HIDE DEF hears, counts
<1>4. ASSUME NEW h \in Handlers
      PROVE  told'[h] = [e \in Events |->
                           IF e = event THEN told[h][e] + counts(h) ELSE told[h][e]]
  <2>1. told'[h] = [told[h] EXCEPT ![event] = @ + hears(h)]
    BY <1>1
  <2>2. told[h] \in [Events -> Nat]
    OBVIOUS
  <2> QED BY <1>2, <2>1, <2>2
<1>5. ASSUME NEW h \in Handlers PROVE told'[h] \in [Events -> Nat]
  <2>1. \A e \in Events : told[h][e] \in Nat /\ told[h][e] + counts(h) \in Nat
    BY <1>3
  <2> QED BY <1>4, <2>1
<1>6. told' \in [Handlers -> [Events -> Nat]]
  <2>1. told' = [h \in Handlers |-> told'[h]]
    BY <1>1
  <2> QED BY <1>5, <2>1
<1>7. \A h \in Handlers, e \in Events : e # event => told'[h][e] = told[h][e]
  BY <1>4
<1>8. \A h \in Handlers : told'[h][event] = told[h][event] + counts(h)
  BY <1>4
<1> QED BY <1>6, <1>7, <1>8 DEF counts

(* One change of an update is told, and told to those attached.            *)
LEMMA ChangeHeard ==
  ASSUME CallInv, Attached, Heard, NEW u \in Updates, Change(u)
  PROVE  /\ Heard'
         /\ updates'[u].told \in 1 .. Changes
         /\ \A v \in Updates : v # u => updates'[v] = updates[v]
         /\ \A h \in Handlers : told'[h][<<u, updates'[u].told>>] =
              IF node # "destroyed" /\ Contains(handlers[ApiOf[h]], h) THEN 1 ELSE 0
<1> DEFINE now == updates[u].told + 1
           event == <<u, now>>
<1>1. updates[u] \in UpdateType /\ updates \in [Updates -> UpdateType]
  BY DEF CallInv, Typed
<1>2. now \in 1 .. Changes /\ now > updates[u].told
  BY <1>1, ConstantsAssumption DEF Change, UpdateType
<1>3. event \in Events
  BY <1>2, EventKinds
<1>4. updates'[u].told = now /\ \A v \in Updates : v # u => updates'[v] = updates[v]
  <2>1. updates' = [updates EXCEPT ![u].told = @ + 1]
    BY DEF Change
  <2>2. updates'[u] = [updates[u] EXCEPT !.told = @ + 1]
    BY <1>1, <2>1
  <2> QED BY <1>1, <2>1, <2>2 DEF UpdateType
<1>5. Tell(event, listeners) /\ UNCHANGED threw /\ updates[u].state = "open"
  BY DEF Change
<1>6. \A h \in Handlers : told[h][event] = 0
  BY <1>2 DEF Heard
<1>7. \A h \in Handlers : Contains(listeners, ApiOf[h]) <=> node # "destroyed"
  <2>1. node \in {"started", "destroyed"}
    BY <1>5 DEF Attached
  <2>2. \A h \in Handlers : ApiOf[h] \in Apis
    BY ConstantsAssumption
  <2>3. \A a : ~Contains(<<>>, a)
    BY DEF Contains
  <2> QED BY <2>1, <2>2, <2>3 DEF Attached
<1>8. \A v \in Updates, n \in 1 .. Changes : <<v, n>> # event => <<v, n>> \in Events
  BY EventKinds
<1>9. \A v \in Updates, n \in 1 .. Changes : <<v, n>> = event => v = u /\ n = now
  OBVIOUS
<1> HIDE DEF event
<1>10. /\ told' \in [Handlers -> [Events -> Nat]]
       /\ \A h \in Handlers, e \in Events : e # event => told'[h][e] = told[h][e]
       /\ \A h \in Handlers : told'[h][event] = told[h][event] +
            IF Contains(listeners, ApiOf[h]) /\ Contains(handlers[ApiOf[h]], h)
            THEN 1 ELSE 0
  BY <1>3, <1>5, TellCounts DEF Attached, Heard
<1>11. \A h \in Handlers : told'[h][event] =
         IF node # "destroyed" /\ Contains(handlers[ApiOf[h]], h) THEN 1 ELSE 0
  BY <1>6, <1>7, <1>10
<1>12. Heard'
  <2> SUFFICES ASSUME NEW h \in Handlers, NEW v \in Updates, NEW n \in 1 .. Changes,
                      n > updates'[v].told
               PROVE  told'[h][<<v, n>>] = 0
    BY <1>5, <1>10 DEF Heard
  <2>1. n > updates[v].told /\ <<v, n>> # event
    <3>1. updates[v].told \in Nat
      BY <1>1, ConstantsAssumption DEF UpdateType
    <3>2. CASE v = u
      BY <1>1, <1>2, <1>4, <1>9, <3>1, <3>2
    <3>3. CASE v # u
      BY <1>4, <1>9, <3>3
    <3> QED BY <3>2, <3>3
  <2> QED BY <1>8, <1>10, <2>1 DEF Heard
<1> QED BY <1>2, <1>4, <1>11, <1>12 DEF event

(* No other step tells a change.                                           *)
LEMMA OthersHeard ==
  ASSUME CallInv, Attached, Heard, [Next]_vars, \A u \in Updates : ~Change(u)
  PROVE  Heard' /\ \A u \in Updates : updates'[u].told = updates[u].told
<1>0. \A u \in Updates : updates[u] \in UpdateType
  BY DEF CallInv, Typed
<1>1. CASE UNCHANGED <<threw, told, updates>>
  BY <1>1 DEF Heard
<1>2. ASSUME NEW u \in Updates, Begin(u) \/ Commit(u) \/ UpdateThrows(u)
      PROVE  Heard' /\ \A v \in Updates : updates'[v].told = updates[v].told
  <2>1. UNCHANGED <<threw, told>>
        /\ \E end : updates' = [updates EXCEPT ![u].state = end]
    BY <1>2 DEF Begin, Commit, UpdateThrows
  <2>2. \A v \in Updates : updates'[v].told = updates[v].told
    BY <1>0, <2>1 DEF UpdateType, CallInv, Typed
  <2> QED BY <2>1, <2>2 DEF Heard
<1>3. ASSUME NEW w \in working, Throw(w) \/ StoreThrows(w)
      PROVE  Heard' /\ \A v \in Updates : updates'[v].told = updates[v].told
  <2>1. w \in Run
    BY DEF CallInv, Typed
  <2>2. <<w.of, ApiOf[w.by]>> \in Events \X Apis
    BY <2>1, ConstantsAssumption DEF Run
  <2> QED BY <1>3, <2>2 DEF Throw, StoreThrows, Threw, Heard
<1>4. ASSUME NEW c \in Calls, TellCall(c)
      PROVE  Heard' /\ \A v \in Updates : updates'[v].told = updates[v].told
  <2>1. List(<<Caller[c]>>, Apis \cup {Root})
    BY ConstantsAssumption DEF List, IsInjective
  <2>2. Tell(c, <<Caller[c]>>) /\ UNCHANGED <<threw, updates>>
    BY <1>4 DEF TellCall
  <2>3. /\ told' \in [Handlers -> [Events -> Nat]]
        /\ \A h \in Handlers, e \in Events : e # c => told'[h][e] = told[h][e]
    BY <2>1, <2>2, TellCounts, EventKinds DEF Heard
  <2> QED BY <2>2, <2>3, EventKinds DEF Heard
<1>5. \/ UNCHANGED <<threw, told, updates>>
      \/ \E u \in Updates : Begin(u) \/ Commit(u) \/ UpdateThrows(u)
      \/ \E w \in working : Throw(w) \/ StoreThrows(w)
      \/ \E c \in Calls : TellCall(c)
  BY DEF Next, vars, Started, Destroy, Install, Register, Unregister, Store, Done,
     Send, Return, Answer, Refuse, LoseReply, Over
<1> QED BY <1>1, <1>2, <1>3, <1>4, <1>5

(* How many connections are lost is a number.                              *)
LEMMA LeakedCounted == Spec => [](leaked \in Nat)
<1> DEFINE Count == leaked \in Nat
<1>1. Init => Count
  BY DEF Init
<1>2. ASSUME Count, [Next]_vars PROVE Count'
  <2>1. \/ UNCHANGED leaked
        \/ \E w \in working : StoreThrows(w)
        \/ \E u \in Updates : UpdateThrows(u)
    BY <1>2 DEF Next, vars, Started, Destroy, Install, Register, Unregister, Store,
       Done, Throw, Begin, Change, Commit, Send, TellCall, Return, Answer, Refuse,
       LoseReply, Over
  <2> QED BY <1>2, <2>1 DEF StoreThrows, UpdateThrows
<1> QED BY <1>1, <1>2, PTL DEF Spec

ApiInv == CallInv /\ Attached /\ Heard

LEMMA ApiNext == ApiInv /\ [Next]_vars => ApiInv'
  BY CallNext, AttachedNext, ChangeHeard, OthersHeard DEF ApiInv

(* Every reachable state is well typed: who listens, the handlers of each  *)
(* clone, what runs, and how often each handler heard of each event        *)
(* (integrationapiimpl.ts, persistentoffermodel.ts).                       *)
THEOREM ApiTypeCorrect == Spec => []TypeOK
<1>1. ApiInv /\ leaked \in Nat => TypeOK
  BY DEF ApiInv, CallInv, Typed, Attached, Heard, TypeOK, List, UpdateType,
         CallType, Asked
<1>2. Init => ApiInv
  BY CallInit, AttachedInit DEF ApiInv
<1> QED BY <1>1, <1>2, ApiNext, LeakedCounted, PTL DEF Spec

(* For every number of integrations, handlers, updates and changes: each   *)
(* change of the offer model reaches every handler registered at that      *)
(* moment exactly once, and nobody once the node is destroyed              *)
(* (persistentoffermodel.ts fireEvent, integrationapiimpl.ts fireChange).  *)
THEOREM EachHeardOnce == Spec => HeardOnce
<1> DEFINE Once ==
      \A u \in Updates : updates'[u].told # updates[u].told =>
        \A h \in Handlers :
          told'[h][<<u, updates'[u].told>>] =
            IF node # "destroyed" /\ Contains(handlers[ApiOf[h]], h) THEN 1 ELSE 0
<1>1. ApiInv /\ [Next]_vars => Once
  <2> SUFFICES ASSUME ApiInv, [Next]_vars PROVE Once
    OBVIOUS
  <2>1. CASE \E u \in Updates : Change(u)
    <3>1. PICK u \in Updates : Change(u)
      BY <2>1
    <3> QED BY <3>1, ChangeHeard DEF ApiInv
  <2>2. CASE \A u \in Updates : ~Change(u)
    BY <2>2, OthersHeard DEF ApiInv
  <2> QED BY <2>1, <2>2
<1>2. Init => ApiInv
  BY CallInit, AttachedInit DEF ApiInv
<1> QED BY <1>1, <1>2, ApiNext, PTL DEF Spec, HeardOnce
=============================================================================
