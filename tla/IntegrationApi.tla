--------------------------- MODULE IntegrationApi ---------------------------
(***************************************************************************)
(* What an integration sees of its tenant node (components/core/src/       *)
(* server/integrationapiimpl.ts, net/oprnetworkclient.ts, the change       *)
(* handlers of model/persistentoffermodel.ts):                             *)
(*   - each integration has a clone of the node's API, and every clone     *)
(*     listens to the offer model; handlers are registered with a clone;   *)
(*   - an update of the offer model tells each of its changes inside its   *)
(*     transaction and waits for the handlers, which may use the storage;  *)
(*   - a remote accept, reserve or reject asks other organizations and     *)
(*     tells the handlers of the same clone once all have answered.        *)
(* What an update changes is in PersistentOfferModel, what the asked       *)
(* organizations decide is an outcome here.                                *)
(***************************************************************************)
EXTENDS Integers, FiniteSets, Sequences, SequencesExt

CONSTANTS
  Apis,         \* the clones, one per integration
  Root,         \* the node's own API
  Handlers,     \* change handlers, registered once at a time
  ApiOf,        \* [Handlers -> Apis], with which clone
  Storing,      \* handlers that store a value when told
  Throwing,     \* handlers that may throw when told
  Temporary,    \* bound: handlers that may be unregistered
  Updates,      \* updates of the offer model
  Changes,      \* how many changes each update tells
  Calls,        \* remote calls
  Caller,       \* [Calls -> Apis]
  Targets,      \* [Calls -> sets of organizations], whom each asks: the
                \* poster to accept or reserve, every source to reject
  Connections   \* connections in the storage's pool

Events == (Updates \X (1 .. Changes)) \cup Calls

ASSUME ConstantsAssumption ==
  /\ Root \notin Apis
  /\ Calls \cap (Updates \X (1 .. Changes)) = {}
  /\ ApiOf \in [Handlers -> Apis] /\ Caller \in [Calls -> Apis]
  /\ {Storing, Throwing, Temporary} \subseteq SUBSET Handlers
  /\ \A c \in Calls : IsFiniteSet(Targets[c])
  /\ Changes \in Nat \ {0} /\ Connections \in Nat

VARIABLES
  node,       \* "built", "started" or "destroyed"
  listeners,  \* the model's changeHandlers: one entry per API that listens
  handlers,   \* [Apis -> Seq(Handlers)], the changeHandlers of each clone
  working,    \* handler runs that are not over: [of, by, stage]
  threw,      \* pairs of event and clone one of whose handlers threw
  updates,    \* [Updates -> state and number of changes told]
  calls,      \* [Calls -> state, with whom it is over, who did as asked]
  told,       \* [Handlers -> [Events -> how often told]]
  leaked      \* connections kept by what threw in a transaction

vars == <<node, listeners, handlers, working, threw, updates, calls, told, leaked>>

-----------------------------------------------------------------------------
Run == [of : Events, by : Handlers, stage : {"running", "storing"}]

OpenUpdates == { u \in Updates : updates[u].state = "open" }

(* Connections in use: one per open update, per handler that stores and    *)
(* per transaction that was neither committed nor failed.                  *)
InUse ==
  Cardinality(OpenUpdates) + Cardinality({ w \in working : w.stage = "storing" }) + leaked

Init ==
  /\ node = "built"
  /\ listeners = <<Root>>
  /\ handlers = [a \in Apis |-> <<>>]
  /\ working = {}
  /\ threw = {}
  /\ updates = [u \in Updates |-> [state |-> "new", told |-> 0]]
  /\ calls = [c \in Calls |-> [state |-> "new", over |-> {}, did |-> {}]]
  /\ told = [h \in Handlers |-> [e \in Events |-> 0]]
  /\ leaked = 0

-----------------------------------------------------------------------------
(* The node installs its integrations, each with a clone of its own that   *)
(* listens to the model.  All are called at once and may register handlers *)
(* from then on.                                                           *)

(* Mutant: a clone listens itself and is registered by its maker too.      *)
InstalledTwice(a) == <<a, a>>
Installed(a) == <<a>>

Install(a) ==
  /\ node = "built" /\ ~Contains(listeners, a)
  /\ listeners' = listeners \o Installed(a)
  /\ UNCHANGED <<node, handlers, working, threw, updates, calls, told, leaked>>

Started ==
  /\ node = "built" /\ \A a \in Apis : Contains(listeners, a)
  /\ node' = "started"
  /\ UNCHANGED <<listeners, handlers, working, threw, updates, calls, told, leaked>>

(* The first of a list, and the list without it.  indexOf answers -1 for   *)
(* what is not there, and splice(-1, 1) then takes the last.               *)
Removed(list, x) ==
  IF Contains(list, x)
  THEN RemoveAt(list, CHOOSE i \in DOMAIN list :
                        list[i] = x /\ \A j \in 1 .. i - 1 : list[j] # x)
  ELSE IF list = <<>> THEN list ELSE Front(list)

(* destroy(): the clones stop listening in the order they were made, then  *)
(* the node's own API, which listens first.  What still runs goes on.      *)
Destroy ==
  LET leaving == Append(Tail(listeners), Root)
      left[n \in 0 .. Len(leaving)] ==
        IF n = 0 THEN listeners ELSE Removed(left[n - 1], leaving[n])
  IN /\ node = "started"
     /\ node' = "destroyed"
     /\ listeners' = left[Len(leaving)]
     /\ UNCHANGED <<handlers, working, threw, updates, calls, told, leaked>>

Register(h) ==
  /\ Contains(listeners, ApiOf[h])
  /\ ~Contains(handlers[ApiOf[h]], h)
  /\ handlers' = [handlers EXCEPT ![ApiOf[h]] = Append(@, h)]
  /\ UNCHANGED <<node, listeners, working, threw, updates, calls, told, leaked>>

Unregister(h) ==
  /\ Contains(handlers[ApiOf[h]], h)
  /\ handlers' = [handlers EXCEPT ![ApiOf[h]] = Removed(@, h)]
  /\ UNCHANGED <<node, listeners, working, threw, updates, calls, told, leaked>>

-----------------------------------------------------------------------------
(* fireChange: the handlers are all called at once, in order.              *)

Times(list, x) == Cardinality({ i \in DOMAIN list : list[i] = x })

Tell(event, clones) ==
  LET hears(h) == Times(clones, ApiOf[h]) * Times(handlers[ApiOf[h]], h)
  IN /\ told' = [h \in Handlers |-> [told[h] EXCEPT ![event] = @ + hears(h)]]
     /\ working' = working \cup
          { [of |-> event, by |-> h, stage |-> "running"] :
              h \in { x \in Handlers : hears(x) > 0 } }

(* Promise.all: a clone is waited for until its handlers are done, or one  *)
(* of them has thrown; the error stays with the clone.                     *)
(* Mutant: the change is told and not waited for.                          *)
WaitedNot(event) == TRUE

Waited(event) ==
  \A w \in working : w.of = event => <<event, ApiOf[w.by]>> \in threw

Store(w) ==
  /\ w.stage = "running" /\ w.by \in Storing
  /\ InUse < Connections
  /\ working' = (working \ {w}) \cup {[w EXCEPT !.stage = "storing"]}
  /\ UNCHANGED <<node, listeners, handlers, threw, updates, calls, told, leaked>>

(* Mutant: what a handler stores is never committed.                       *)
DoneUncommitted(w) ==
  /\ w.stage = "running" /\ w.by \notin Storing
  /\ working' = working \ {w}
  /\ UNCHANGED <<node, listeners, handlers, threw, updates, calls, told, leaked>>

Done(w) ==
  /\ w.stage = "storing" \/ w.by \notin Storing
  /\ working' = working \ {w}
  /\ UNCHANGED <<node, listeners, handlers, threw, updates, calls, told, leaked>>

Threw(w) ==
  /\ working' = working \ {w}
  /\ threw' = threw \cup {<<w.of, ApiOf[w.by]>>}
  /\ UNCHANGED <<node, listeners, handlers, updates, calls, told>>

Throw(w) ==
  /\ w.stage = "running" /\ w.by \in Throwing
  /\ Threw(w) /\ UNCHANGED leaked

(* storeValue, clearAllValues: the commit is refused, which also ends the  *)
(* transaction, or a statement throws and nothing ends it.                 *)
StoreThrows(w) ==
  /\ w.stage = "storing"
  /\ Threw(w) /\ leaked' \in {leaked, leaked + 1}

-----------------------------------------------------------------------------
(* processUpdate: its changes are told one after the other, inside its     *)
(* transaction, and the database may refuse the commit.  A statement that  *)
(* throws leaves the transaction open.                                     *)

Current(u) == <<u, updates[u].told>>

Begin(u) ==
  /\ node # "built" /\ updates[u].state = "new"
  /\ InUse < Connections
  /\ updates' = [updates EXCEPT ![u].state = "open"]
  /\ UNCHANGED <<node, listeners, handlers, working, threw, calls, told, leaked>>

(* Mutant: a change too many is told.                                      *)
ChangePast(u) ==
  /\ updates[u].state = "open" /\ updates[u].told <= Changes
  /\ Waited(Current(u))
  /\ updates' = [updates EXCEPT ![u].told = @ + 1]
  /\ UNCHANGED <<node, listeners, handlers, working, threw, calls, told, leaked>>

Change(u) ==
  /\ updates[u].state = "open" /\ updates[u].told < Changes
  /\ Waited(Current(u))
  /\ updates' = [updates EXCEPT ![u].told = @ + 1]
  /\ Tell(<<u, updates[u].told + 1>>, listeners)
  /\ UNCHANGED <<node, listeners, handlers, threw, calls, leaked>>

Commit(u) ==
  /\ updates[u].state = "open" /\ updates[u].told = Changes
  /\ Waited(Current(u))
  /\ \E end \in {"committed", "refused"} :
       updates' = [updates EXCEPT ![u].state = end]
  /\ UNCHANGED <<node, listeners, handlers, working, threw, calls, told, leaked>>

UpdateThrows(u) ==
  /\ updates[u].state = "open" /\ Waited(Current(u))
  /\ updates' = [updates EXCEPT ![u].state = "refused"]
  /\ leaked' = leaked + 1
  /\ UNCHANGED <<node, listeners, handlers, working, threw, calls, told>>

-----------------------------------------------------------------------------
(* accept, reserve, reject: every target is asked at once.  A target may   *)
(* do as asked, refuse (or not be reached, or not offer the operation), or *)
(* do as asked with an answer that is lost.  The first failure is the      *)
(* caller's; the others go on.                                             *)

Send(c) ==
  /\ node # "built" /\ calls[c].state = "new"
  /\ calls' = [calls EXCEPT ![c].state = "sent"]
  /\ UNCHANGED <<node, listeners, handlers, working, threw, updates, told, leaked>>

Over(c, org, did, state) ==
  /\ calls[c].state \in {"sent", "failed"} /\ org \in Targets[c] \ calls[c].over
  /\ calls' = [calls EXCEPT ![c] =
                 [state |-> state, over |-> @.over \cup {org}, did |-> @.did \cup did]]
  /\ UNCHANGED <<node, listeners, handlers, working, threw, updates, told, leaked>>

(* Mutant: a failure of one is passed over (Promise.allSettled).           *)
RefusePassed(c, org) == Over(c, org, {}, calls[c].state)

Answer(c, org)    == Over(c, org, {org}, calls[c].state)
Refuse(c, org)    == Over(c, org, {}, "failed")
LoseReply(c, org) == Over(c, org, {org}, "failed")

TellCall(c) ==
  /\ calls[c].state = "sent" /\ calls[c].over = Targets[c]
  /\ calls' = [calls EXCEPT ![c].state = "telling"]
  /\ Tell(c, <<Caller[c]>>)
  /\ UNCHANGED <<node, listeners, handlers, threw, updates, leaked>>

Return(c) ==
  /\ calls[c].state = "telling" /\ Waited(c)
  /\ calls' = [calls EXCEPT ![c].state = "returned"]
  /\ UNCHANGED <<node, listeners, handlers, working, threw, updates, told, leaked>>

-----------------------------------------------------------------------------
Next ==
  \/ Started \/ Destroy
  \/ \E a \in Apis : Install(a)
  \/ \E h \in Handlers : Register(h)
  \/ \E h \in Temporary : Unregister(h)
  \/ \E w \in working : Store(w) \/ Done(w) \/ Throw(w) \/ StoreThrows(w)
  \/ \E u \in Updates : Begin(u) \/ Change(u) \/ Commit(u) \/ UpdateThrows(u)
  \/ \E c \in Calls :
       \/ Send(c) \/ TellCall(c) \/ Return(c)
       \/ \E org \in Targets[c] :
            Answer(c, org) \/ Refuse(c, org) \/ LoseReply(c, org)

(* Updates and calls that have begun go on, and handlers come to an end,   *)
(* which is what the code asks of integrations.  Nothing is said of the    *)
(* organizations asked, or of what integrations begin.                     *)
Fairness ==
  /\ \A u \in Updates : WF_vars(Change(u) \/ Commit(u))
  /\ \A h \in Handlers :
       WF_vars(\E w \in working : w.by = h /\ (Store(w) \/ Done(w)))
  /\ \A c \in Calls : WF_vars(TellCall(c) \/ Return(c))

Spec == Init /\ [][Next]_vars /\ Fairness

-----------------------------------------------------------------------------
(* Properties.                                                             *)

TypeOK ==
  /\ node \in {"built", "started", "destroyed"}
  /\ listeners \in Seq(Apis \cup {Root})
  /\ handlers \in [Apis -> Seq(Handlers)]
  /\ working \subseteq Run
  /\ threw \subseteq Events \X Apis
  /\ updates \in [Updates -> [state : {"new", "open", "committed", "refused"},
                              told : 0 .. Changes]]
  /\ calls \in [Calls -> [state : {"new", "sent", "failed", "telling", "returned"},
                          over : SUBSET UNION { Targets[c] : c \in Calls },
                          did : SUBSET UNION { Targets[c] : c \in Calls }]]
  /\ told \in [Handlers -> [Events -> Nat]]
  /\ leaked \in Nat

(* Every change of the offer model reaches each handler registered at that *)
(* moment exactly once, whichever clone it is registered with and whatever *)
(* other handlers do, and none once the node is destroyed.                 *)
HeardOnce ==
  [][\A u \in Updates : updates'[u].told # updates[u].told =>
       \A h \in Handlers :
         told'[h][<<u, updates'[u].told>>] =
           IF node # "destroyed" /\ Contains(handlers[ApiOf[h]], h) THEN 1 ELSE 0]_vars

(* While a handler is at a change, the update neither tells the next one   *)
(* nor ends its transaction, unless a handler of the same clone threw:     *)
(* the error of one integration does not cut short another's.              *)
InOrder ==
  \A w \in working : \A u \in Updates, n \in 1 .. Changes :
    w.of = <<u, n>> =>
      \/ updates[u].state = "open" /\ updates[u].told = n
      \/ <<w.of, ApiOf[w.by]>> \in threw

(* Handlers hear of a remote acceptance, reservation or rejection only     *)
(* when every organization asked has done it: a rejection that one of the  *)
(* sources refused is never told, though the others have recorded it.      *)
RemoteEventsTrue ==
  \A c \in Calls, h \in Handlers : told[h][c] > 0 => calls[c].did = Targets[c]

(* A handler waits to store while all connections are kept, by updates     *)
(* that wait for their handlers and by what threw in a transaction.        *)
Starving ==
  /\ \E w \in working : w.by \in Storing /\ w.stage = "running"
  /\ Cardinality(OpenUpdates) + leaked >= Connections

(* An update that began ends, and a remote call ends once everybody asked  *)
(* has answered, also if its node is gone by then and whatever handlers    *)
(* store or throw -- unless in the end a handler starves.                  *)
WorkEnds ==
  \/ <>[]Starving
  \/ /\ \A u \in Updates : updates[u].state = "open" ~> updates[u].state # "open"
     /\ \A c \in Calls :
          calls[c].over = Targets[c] /\ calls[c].state # "new"
            ~> calls[c].state \in {"returned", "failed"}

=============================================================================
