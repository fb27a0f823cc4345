---------------------------- MODULE TenantServer ----------------------------
(***************************************************************************)
(* The HTTP server of several tenants (components/core/src/server/         *)
(* oprserver.ts, server/oprtenantnode.ts, server/handlers/): how it        *)
(* starts, how each request builds a tenant node of its own, proves who    *)
(* calls and what the caller may do, and gives back what it built.         *)
(*                                                                         *)
(* Every step ends where the code awaits something.  What the offer model  *)
(* does with a request it gets is an outcome here (PersistentOfferModel).  *)
(* The keys of an organization that this server does not serve come over   *)
(* the network, which may be slow for ever: there is no timeout.  The      *)
(* storage is the server's: all tenants and requests share its pool of     *)
(* connections, and a call that throws in a transaction keeps one          *)
(* (SqlStorage).                                                           *)
(***************************************************************************)
EXTENDS ReshareTokens, FiniteSets

CONSTANTS
  Tenants,       \* organizations this server serves; a subset of Orgs
  Fault,         \* [Tenants -> Faults], what is wrong with a tenant
  NotATenant,    \* stands for a URL that names no tenant
  Requests,      \* places for requests in flight
  Shapes,        \* [Requests -> SUBSET Shape], what may be asked there
  Shares,        \* what organizations grant: set of [iss, sub, scopes]
  Listed,        \* organizations in the access control lists
  Pluggables,    \* objects a tenant's configuration makes
  Connections,   \* connections in the pool of the server's storage
  Rotating,      \* bound: organizations that replace their keys
  Leaving,       \* bound: requests whose client may go away
  MaxRotations,  \* bound: how often each of them does
  NoChain

Faults == {"none", "unknown", "construct", "nojwks", "install", "prefix",
           "uninstall", "response"}

ApiRoutes == {"list", "accept", "reject", "reserve", "history"}
OpenRoutes == {"org", "jwks"}

RequiredScope == [list    |-> "LISTPRODUCTS",  accept  |-> "ACCEPTPRODUCT",
                  reject  |-> "ACCEPTPRODUCT", reserve |-> "ACCEPTPRODUCT",
                  history |-> "PRODUCTHISTORY"]

(* What a client sends, but for the key it signs with and the chain.       *)
Shape == [tenant : Tenants \cup {NotATenant},
          route : ApiRoutes \cup OpenRoutes \cup {"none"},
          token : BOOLEAN,                     \* a bearer token is there
          caller : Orgs, aud : Orgs,
          scopes : SUBSET { RequiredScope[r] : r \in ApiRoutes },
          fresh : BOOLEAN,                     \* the token has not expired
          valid : BOOLEAN,                     \* the body fits its schema
          offer : Offers,
          chained : BOOLEAN]                   \* a reshare chain is there

ASSUME ConstantsAssumption ==
  /\ Tenants \subseteq Orgs /\ NotATenant \notin Orgs
  /\ Fault \in [Tenants -> Faults]
  /\ Shapes \in [Requests -> SUBSET Shape]
  /\ Shares \subseteq [iss : Orgs, sub : Orgs, scopes : SUBSET ChainScope]
  /\ Pluggables \in Nat \ {0} /\ Connections \in Nat \ {0}
  /\ Rotating \subseteq Orgs /\ Leaving \subseteq Requests
  /\ MaxRotations \in Nat
  \* the signature of a token is never an offer id
  /\ \A s \in Shares, key \in 0 .. MaxRotations, o, id \in Offers :
       Signature(Link(s.iss, key, s.sub, o, s.scopes)) # id

VARIABLES
  server,    \* "off", "starting", "listening", "ready" or "closing"
  keys,      \* [Orgs -> Nat], the key each organization signs with now
  requests,  \* [Requests -> the request there and how far it is]
  leaked     \* connections kept by calls that threw

vars == <<server, keys, requests, leaked>>

-----------------------------------------------------------------------------
Stages == {"none", "received", "constructing", "starting", "token", "links",
           "handling", "answered", "closed", "lost"}

(* A request: how far it is, whether its client is still there, the        *)
(* objects made for it, whether the end of the response is hooked, the     *)
(* links verified, the answer and whether the offer model did what was     *)
(* asked.  From its receipt also: what it asks, the key its token is       *)
(* signed with, its chain and, for the properties, the keys at that time.  *)
Idle == [stage |-> "none", client |-> FALSE, plugs |-> 0, hooked |-> FALSE,
         checked |-> {}, status |-> 0, done |-> FALSE]

InFlight(r) ==
  requests[r].stage \in {"received", "constructing", "starting", "token",
                         "links", "handling"}

Sequel(r, stage) == [requests[r] EXCEPT !.stage = stage]
Reply(r, status) == [requests[r] EXCEPT !.stage = "answered", !.status = status]

Turn(r, next) ==
  /\ requests' = [requests EXCEPT ![r] = next]
  /\ UNCHANGED <<server, keys>>

Become(r, next) == Turn(r, next) /\ UNCHANGED leaked

Init ==
  /\ server = "off"
  /\ keys = [o \in Orgs |-> 0]
  /\ requests = [r \in Requests |-> Idle]
  /\ leaked = 0

-----------------------------------------------------------------------------
(* The process.  The storage is made as the server starts.  A request that *)
(* finds no handler is answered 404, which is what every request finds     *)
(* until initializeServer() has installed them.                            *)

Start ==
  /\ server = "off"
  /\ server' = "starting"
  /\ requests' = [r \in Requests |-> Idle]
  /\ leaked' = 0
  /\ UNCHANGED keys

Listen ==
  /\ server = "starting"
  /\ server' = "listening"
  /\ UNCHANGED <<keys, requests, leaked>>

Initialize ==
  /\ server = "listening"
  /\ server' = "ready"
  /\ UNCHANGED <<keys, requests, leaked>>

(* The process dies: a crash, or a rejection that nothing handles.  What   *)
(* was in flight or not yet delivered is lost.                             *)
Lost(r) ==
  CASE InFlight(r) -> [Idle EXCEPT !.stage = "lost"]
    [] requests[r].stage \in {"answered", "closed"} -> [Idle EXCEPT !.stage = "closed"]
    [] OTHER -> requests[r]

Die ==
  /\ server # "off"
  /\ server' = "off"
  /\ requests' = [r \in Requests |-> Lost(r)]
  /\ UNCHANGED <<keys, leaked>>

(* close() takes no new connection and ends when the last request has.     *)
Stop ==
  /\ server = "ready"
  /\ server' = "closing"
  /\ UNCHANGED <<keys, requests, leaked>>

Stopped ==
  /\ server = "closing"
  /\ \A r \in Requests : ~InFlight(r)
  /\ server' = "off"
  /\ requests' = [r \in Requests |-> Lost(r)]
  /\ UNCHANGED <<keys, leaked>>

(* An organization replaces its key.                                       *)
Rotate(org) ==
  /\ keys[org] < MaxRotations
  /\ keys' = [keys EXCEPT ![org] = @ + 1]
  /\ UNCHANGED <<server, requests, leaked>>

-----------------------------------------------------------------------------
(* A request comes.  Its token and its chain were signed with keys the     *)
(* signers had by then, and the chain may be any that was ever signed, or  *)
(* one pieced together from two: tests present both.                       *)

Presented(q) ==
  IF ~q.chained THEN {NoChain}
  ELSE LET signed == SignedChains(q.offer, Shares, keys)
       IN signed \cup { Tail(c) : c \in signed }
                 \cup { <<c[1]>> \o Tail(d) : c, d \in signed }

Incoming(q, key, chain) ==
  [stage |-> IF server = "ready" THEN "received" ELSE "answered",
   client |-> TRUE, plugs |-> 0, hooked |-> FALSE, checked |-> {},
   status |-> IF server = "ready" THEN 0 ELSE 404, done |-> FALSE,
   asks |-> q, key |-> key, chain |-> chain, since |-> keys]

Receive(r, q) ==
  /\ server \in {"listening", "ready"}
  /\ requests[r].stage = "none"
  /\ \E key \in 0 .. keys[q.caller], chain \in Presented(q) :
       Become(r, Incoming(q, key, chain))

(* Mutant: a client that goes takes the objects with it.                   *)
DisconnectDestroys(r) ==
  /\ InFlight(r) /\ requests[r].client
  /\ Become(r, [requests[r] EXCEPT !.client = FALSE, !.plugs = 0])

Disconnect(r) ==
  /\ InFlight(r) /\ requests[r].client
  /\ Become(r, [requests[r] EXCEPT !.client = FALSE])

(* getTenantId, then getHostConfig: the objects of the configuration are   *)
(* made one after the other.  When one cannot be made the request goes on  *)
(* to the 404 at the end, and those already made stay.                     *)
Identified(t) == t # NotATenant
Configured(t) == Fault[t] # "unknown"

Dispatch(r) ==
  /\ requests[r].stage = "received"
  /\ Become(r, LET t == requests[r].asks.tenant
               IN IF Identified(t) /\ Configured(t)
                  THEN Sequel(r, "constructing") ELSE Reply(r, 404))

(* Whether the next object can be made: its factory is known, does not     *)
(* throw and makes an object of the expected type.                         *)
CanBeMade(t, built) == Fault[t] # "construct" \/ built + 1 < Pluggables

(* Mutant: one object too many is made.                                    *)
ConstructPast(r) ==
  /\ requests[r].stage = "constructing"
  /\ requests[r].plugs <= Pluggables
  /\ Become(r, [requests[r] EXCEPT !.plugs = @ + 1])

Construct(r) ==
  LET t == requests[r].asks.tenant
      built == requests[r].plugs
  IN /\ requests[r].stage = "constructing"
     /\ built < Pluggables
     /\ Become(r, IF CanBeMade(t, built)
                  THEN [requests[r] EXCEPT !.plugs = built + 1]
                  ELSE Reply(r, 404))

(* The node is made; without a jwks provider its constructor throws.       *)
Build(r) ==
  /\ requests[r].stage = "constructing"
  /\ requests[r].plugs = Pluggables
  /\ Become(r, IF Fault[requests[r].asks.tenant] = "nojwks"
               THEN Reply(r, 500) ELSE Sequel(r, "starting"))

(* The integrations are installed.  Then, without a pause, the handler     *)
(* that cleans up is hooked to the end of the response, the URL is checked *)
(* and the tenant's router called.                                         *)
Routed(r, hooked) ==
  LET q == requests[r].asks
      at == [requests[r] EXCEPT !.hooked = hooked]
      Answered(status) == [at EXCEPT !.stage = "answered", !.status = status]
  IN IF Fault[q.tenant] = "prefix"       THEN Answered(500)
     ELSE IF q.route \in OpenRoutes      THEN Answered(200)
     ELSE IF q.route = "none"            THEN Answered(404)
     ELSE IF ~q.token                    THEN Answered(401)
     ELSE [at EXCEPT !.stage = "token"]

(* Mutant: the handler is hooked after the URL is checked.                 *)
StartNodeHookLate(r) ==
  /\ requests[r].stage = "starting"
  /\ Become(r, LET t == requests[r].asks.tenant
               IN IF Fault[t] = "install" THEN Reply(r, 500)
                  ELSE Routed(r, Fault[t] # "prefix"))

StartNode(r) ==
  /\ requests[r].stage = "starting"
  /\ Become(r, IF Fault[requests[r].asks.tenant] = "install"
               THEN Reply(r, 500) ELSE Routed(r, TRUE))

-----------------------------------------------------------------------------
(* The key set of an organization is fetched for each token and never      *)
(* kept.  That of a tenant is served by this server, while it serves.      *)

Serves(org) ==
  /\ server = "ready" /\ org \in Tenants
  /\ Fault[org] \in {"none", "uninstall", "response"}

Reachable(org) == org \notin Tenants \/ Serves(org)

(* Mutant: a fetch from this server while it closes waits for ever.        *)
FailsAbroad(org) == org \notin Tenants

MayFail(org) == org \notin Tenants \/ ~Serves(org)

KeySet(org) == {keys[org]}

(* Mutant: the keys an organization had before are still taken.            *)
VerifiedByOld(org, key) == key <= keys[org]

Verified(org, key) == key \in KeySet(org)

(* Mutant: a chain is no reason to leave the access control list aside.    *)
ExemptForHistory(q) == q.route = "history"

ExemptFromList(q) == q.route = "history" \/ q.chained

MayEnter(q) == ExemptFromList(q) \/ q.caller \in Listed

(* handleAuthenticatedRequest, once the token is verified: the first check *)
(* that fails answers.                                                     *)
Checked(r) ==
  LET q == requests[r].asks
  IN IF q.aud # q.tenant                            THEN Reply(r, 401)
     ELSE IF RequiredScope[q.route] \notin q.scopes THEN Reply(r, 403)
     ELSE IF ~q.valid                               THEN Reply(r, 400)
     ELSE IF ~MayEnter(q)                           THEN Reply(r, 403)
     ELSE Sequel(r, IF q.chained THEN "links" ELSE "handling")

VerifyToken(r) ==
  LET q == requests[r].asks
  IN /\ requests[r].stage = "token" /\ Reachable(q.caller)
     /\ Become(r, IF Verified(q.caller, requests[r].key) /\ q.fresh
                  THEN Checked(r) ELSE Reply(r, 401))

Unchecked(r) ==
  IF requests[r].stage = "links"
  THEN DOMAIN requests[r].chain \ requests[r].checked ELSE {}

(* The links are verified at the same time, in any order; the first that   *)
(* fails answers.  A token without scope breaks the decoding.              *)
VerifyLink(r, i) ==
  LET link == requests[r].chain[i]
  IN /\ Reachable(link.iss)
     /\ Become(r, IF ~Verified(link.iss, link.key) THEN Reply(r, 401)
                  ELSE IF link.scopes = {}         THEN Reply(r, 500)
                  ELSE [requests[r] EXCEPT !.checked = @ \cup {i}])

VerifyChain(r) ==
  LET q == requests[r].asks
      chain == requests[r].chain
  IN /\ requests[r].stage = "links"
     /\ requests[r].checked = DOMAIN chain
     /\ Become(r, IF chain # <<>>
                     /\ VerifyDecodedChain(chain, q.tenant, q.offer, q.caller)
                  THEN Sequel(r, "handling") ELSE Reply(r, 403))

(* Fetching a key set fails.                                               *)
FetchFails(r) ==
  /\ \/ /\ requests[r].stage = "token"
        /\ MayFail(requests[r].asks.caller)
     \/ \E i \in Unchecked(r) : MayFail(requests[r].chain[i].iss)
  /\ Become(r, Reply(r, 500))

Malformed(r) == Fault[requests[r].asks.tenant] = "response"

(* The handler's call of the offer model, which waits while the pool is    *)
(* used up.  It is done; or it fails and nothing stays open, when no page  *)
(* can be read or nothing committed; or it throws in its transaction,      *)
(* which is then neither committed nor failed.  With strict checks a       *)
(* malformed response is an error, after the deed.  What else uses the     *)
(* storage (ingest, integrations) is left out; what that leaks would count *)
(* as well.                                                                *)
Writes(r) == requests[r].asks.route \in {"accept", "reject", "reserve"}

Throw(r, status) ==
  /\ Writes(r)
  /\ Turn(r, Reply(r, status))
  /\ leaked' = leaked + 1

Handle(r) ==
  /\ requests[r].stage = "handling" /\ leaked < Connections
  /\ \/ Become(r, [Reply(r, IF Malformed(r) THEN 500 ELSE 200) EXCEPT !.done = TRUE])
     \/ Become(r, Reply(r, 500))
     \/ \E status \in {400, 500} : Throw(r, status)

(* The response is out: the node and the objects made for it go.  An       *)
(* integration that throws when uninstalled keeps the rest, and the        *)
(* rejection, handled by nobody, may end the process.                      *)
Destroyed(r) ==
  IF Fault[requests[r].asks.tenant] = "uninstall" THEN Sequel(r, "closed")
  ELSE [Idle EXCEPT !.stage = "closed"]

Finish(r) ==
  /\ requests[r].stage = "answered" /\ requests[r].hooked
  /\ Become(r, Destroyed(r))

-----------------------------------------------------------------------------
Proceed(r) ==
  \/ Dispatch(r) \/ Construct(r) \/ Build(r) \/ StartNode(r)
  \/ VerifyChain(r) \/ Handle(r)

Verify(r) ==
  \/ VerifyToken(r)
  \/ \E i \in Unchecked(r) : VerifyLink(r, i)
  \/ FetchFails(r)

Request(r) ==
  \/ \E q \in Shapes[r] : Receive(r, q)
  \/ r \in Leaving /\ Disconnect(r)
  \/ Proceed(r) \/ Verify(r) \/ Finish(r)

Next ==
  \/ Start \/ Listen \/ Initialize \/ Die \/ Stop \/ Stopped
  \/ \E org \in Rotating : Rotate(org)
  \/ \E r \in Requests : Request(r)

(* A request waits for the network when what it needs next comes from an   *)
(* organization served elsewhere.                                          *)
WaitsForNetwork(r) ==
  \/ requests[r].stage = "token" /\ requests[r].asks.caller \notin Tenants
  \/ \E i \in Unchecked(r) : requests[r].chain[i].iss \notin Tenants

(* It waits for the storage, for good, when calls that threw have used the *)
(* pool up: only a restart gives their connections back.                   *)
Starved(r) == requests[r].stage = "handling" /\ leaked = Connections

Stuck(r) == WaitsForNetwork(r) \/ Starved(r)

(* The event loop runs whatever can run, and the pool serves whoever waits *)
(* in order; the end of a response is told to the server when the client   *)
(* is still there.  Nothing is said of the network, of clients, of whoever *)
(* starts and stops the process, of keys, or of calls that throw.          *)
Fairness ==
  /\ WF_vars(Stopped)
  /\ \A r \in Requests :
       /\ WF_vars(Proceed(r))
       /\ WF_vars(Verify(r) /\ ~WaitsForNetwork(r))
       /\ WF_vars(Finish(r) /\ requests[r].client)

Spec == Init /\ [][Next]_vars /\ Fairness

-----------------------------------------------------------------------------
(* Properties.                                                             *)

TypeOK ==
  /\ server \in {"off", "starting", "listening", "ready", "closing"}
  /\ keys \in [Orgs -> 0 .. MaxRotations]
  /\ leaked \in 0 .. Connections
  /\ \A r \in Requests :
       LET x == requests[r]
       IN /\ x.stage \in Stages
          /\ x.plugs \in 0 .. Pluggables
          /\ x.client \in BOOLEAN /\ x.hooked \in BOOLEAN /\ x.done \in BOOLEAN
          /\ x.status \in {0, 200, 400, 401, 403, 404, 500}
          /\ InFlight(r) \/ x.stage = "answered" => x.asks \in Shapes[r]

Licensed(r) ==
  LET q == requests[r].asks
  IN /\ requests[r].chain \in LicensedChains(q.tenant, q.offer, Shares, keys)
     /\ EndsAt(requests[r].chain, q.caller)

(* What is done for a caller outside the access control list is its own    *)
(* history, or an offer the host itself shared, through organizations each *)
(* allowed to pass it on, with that caller.  A chain that does not show    *)
(* this is refused even to a caller on the list (verifyChain,              *)
(* shouldIgnoreAccessControlList).                                         *)
DoneByRight ==
  \A r \in Requests :
    requests[r].done =>
      LET q == requests[r].asks
      IN IF q.chained THEN Licensed(r)
         ELSE q.caller \in Listed \/ q.route = "history"

(* Every token that let a request through was signed with a key its signer *)
(* still used when the request came, or took up since: a key set that was  *)
(* replaced before is never used again (OrgConfigProvider without cache).  *)
KeysInUse ==
  \A r \in Requests :
    requests[r].done =>
      LET x == requests[r]
      IN /\ x.key >= x.since[x.asks.caller]
         /\ x.asks.chained =>
              \A i \in DOMAIN x.chain : x.chain[i].key >= x.since[x.chain[i].iss]

(* Whoever was properly given an offer gets through with the chain, on the *)
(* access control list or not, as long as nobody on the way has replaced a *)
(* key: neither the token nor the chain is refused (401, 403).             *)
ChainHonoured ==
  \A r \in Requests :
    LET x == requests[r]
    IN x.stage = "answered" /\ x.status \in {401, 403} =>
         ~ /\ x.asks.token /\ x.asks.chained /\ x.asks.fresh
           /\ x.asks.aud = x.asks.tenant
           /\ RequiredScope[x.asks.route] \in x.asks.scopes
           /\ x.key = keys[x.asks.caller]
           /\ \A i \in DOMAIN x.chain : x.chain[i].key = keys[x.chain[i].iss]
           /\ Licensed(r)

(* The objects of a tenant stay while its request is worked on, also when  *)
(* the client goes away meanwhile (res.on('finish')).                      *)
AliveWhileUsed ==
  \A r \in Requests :
    requests[r].stage \in {"starting", "token", "links", "handling"} =>
      requests[r].plugs = Pluggables

(* Every request is answered, or lost with the process, and stop() ends,   *)
(* also when a request in flight needs the keys of an organization this    *)
(* very server serves -- unless the network keeps a request waiting, or    *)
(* as many calls of the offer model have thrown as the pool has            *)
(* connections (persistentoffermodel.ts accept, reject, reserve).          *)
Answering ==
  /\ \A r \in Requests : []<>(~InFlight(r) \/ Stuck(r))
  /\ []<>(server # "closing" \/ \E r \in Requests : Stuck(r))

(* What a request made is given back in the end: when the tenant's         *)
(* configuration can be built and taken down, the client waits for the     *)
(* answer, and neither the network nor a used-up pool keeps it waiting.    *)
Sound(r) ==
  Fault[requests[r].asks.tenant] \in {"none", "unknown", "prefix", "response"}

GivenBack ==
  \A r \in Requests :
    []<>(requests[r].plugs = 0 \/ ~requests[r].client \/ ~Sound(r) \/ Stuck(r))
=============================================================================
