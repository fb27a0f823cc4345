# Open Product Recovery: TLA+ models, checks and proofs

This directory models the reference server of Open Product Recovery (OPR):
organizations offer surplus goods, other organizations list the offers, reserve,
accept or reject them, and servers feed each other. The modules are translated
from the TypeScript sources (`components/core/src` = *core*,
`integrations/sql-database/src` = *sql*), model-checked with TLC on small
instances and, for the results listed under *Proofs*, proved with TLAPS for all
values of the constants.

Run a check with `tlc -config core.cfg MCPersistentOfferModel.tla` (`PROJECT.json` names
the module of each configuration), a proof with `tlapm PersistentOfferModelProofs.tla`. `PROJECT.json` lists the runs, the
lines each definition models, the mutations that show each property can fail,
the hazards of the code and the findings.

## Inventory of the system

| Part (source) | State it keeps | Operations | What makes it correct |
|---|---|---|---|
| Offer model (core `model/persistentoffermodel.ts`) | none of its own; the tables below, through a transaction | `processUpdate`, `accept`, `reject`, `reserve`, `list`, `getHistory`, change handlers | a reservation is exclusive and kept; rejected and accepted offers stay off the market; nothing published is lost; listings are up to date; the timeline is a reliable history |
| SQL storage (sql `sqloprpersistentstorage.ts`, `persistentmodel/`) | corpora (which feed publishes which version), timeline entries, acceptances, rejections, reshare chains, known organizations, key-values, producer metadata | one query method per use | deletion counts all corpora; truncation splits an entry at an instant; the newest version wins |
| SQL transactions (same file, 77-265) | the connection attempt, the pool's connections, the queue for them, open transactions | connect, start, commit, fail; page through a query | every transaction ends and gives its connection back; no part of a failed one stays; a read passes on every row once |
| Older offer model (sql `sqloffermodel.ts`, `model/`) | corpora that supersede each other, their offers and chains, one timeline with listings, reservations and rejections, acceptances | `processUpdate`, `accept`, `reject`, `reserve`, `list`, `getHistory` | the newest version is the listed one; nobody gets an offer that may not be passed on to them; the past does not change |
| Interval arithmetic (core `model/interval.ts`) | none | `trim`, `intersect`, `subtract` | pointwise intersection and difference |
| Listing policies (core `policy/`) | none | `getListings` | stages keep their exclusive time; nobody is listed twice |
| Feed ingestion (core `server/oprtenantnode.ts`, `offerproducer/`) | per producer: last update time, next run time | `ingest`, `produceOffers`, retry | the copy converges to the feed; no change is skipped; no feed is asked too often |
| Patches and diffs (core `diff/`) | none | `diffAsOfferPatch`, `applyOfferPatch` | applying the diff of two versions to the old one gives the new one |
| Reshare chains (core `model/resharechains.ts`, `auth/decodechain.ts`, `auth/local/`) | none; chains are in requests and rows | sign, extend, decode, verify, choose the best | a chain proves that the host shared the offer, step by step, with its holder, and cannot be pieced together |
| Request handlers (core `server/handlers/`, `auth/`, `policy/staticserveraccesscontrollist.ts`) | none | authenticate, check scopes, body, access list and chain, call the offer model | no effect before all checks passed; those entitled get through |
| Integration API (core `server/integrationapiimpl.ts`, `net/`) | listeners of the offer model, handlers of each integration | handler registration, remote `accept`/`reject`/`reserve`, key-values | each handler hears each change once, in order; what it hears of remote calls has happened |
| Tenant server (core `server/oprserver.ts`) | is it listening, ready, closing; a tenant node per request | start, stop, route a request to its tenant, make and destroy the tenant's node | every request is answered and what was made for it given back |
| Tenant configuration (core `config/`, `integrations/`) | none | which tenant a URL names; make the objects of its configuration, destroy them | a configuration that fails half-way leaves nothing behind |
| Organization configuration (core `config/orgconfigprovider.ts`, `util/asyncgetter.ts`) | cached value and its age | fetch another organization's description and key set | a replaced key set is not used |
| Schemas, Google Cloud adapters, developer tools, test utilities, examples | - | - | not modelled, see below |

Parts that interact: feeds call `processUpdate` from `ingest`; other
organizations call `accept`, `reject`, `reserve` and `list` over HTTP; both go
through the offer model, which reads and writes the same rows of the storage in
one SERIALIZABLE transaction per call and asks the listing policy for the
offer's new listings. The policy's listings are cut by the running reservation
with the interval functions and stored as timeline entries, which `list` and
the next `accept` read. A listing of one server is the feed of the next. Each
change is told to the integrations' handlers inside the transaction, and handlers
use the same pool of connections. Every HTTP request makes a tenant node of its
own, with an offer model and integrations, and destroys it when the response is
sent; the storage beneath is the server's, one for all tenants and requests, so
that a connection one of them loses is lost to all; verifying a request fetches the keys of the organizations
that signed its token and its chain, possibly from this very server.

What is hard here: the calls of other organizations and of feeds interleave, and
each uses the time it read *before* its transaction; every relisting rebuilds
the future of an offer's timeline from the policy, the rejections and the
reservation it finds; several feeds publish versions of one offer in any order;
a feed is copied by diffs between times of two clocks, with failures and
retries; half-open intervals meet at their ends; calls that throw keep their
connection; reads go page by page over rows that change; handlers run inside
transactions; chains are combined from parts of genuine ones; keys are replaced
while tokens travel; clients leave and the server stops while requests run. `PROJECT.json` lists each of
these hazards with its line.

## Modules

| Module | What it is |
|---|---|
| `Interval` | `trim`, `intersect` and `subtract`; "an interval or undefined" is a set of at most one interval |
| `PersistentOfferModel` | the offer model over its storage, one tenant; its properties are at the end of the module |
| `PersistentOfferClaims` | what the repository's documents say and the code does not do |
| `ListingPolicies` | the universal and the hierarchical listing policy |
| `MCPersistentOfferModel` | values of the constants for TLC |
| `FeedSync` | one server following the feed of another: the runs of `produceOffers` against the publisher's `list`; its properties are at the end of the module |
| `FeedMirror` | what following a feed promises, in two variables: each round leaves exactly the offers shown |
| `MCFeedSync` | values of its constants for TLC |
| `SqlOfferModel`, `MCSqlOfferModel` | the older offer model, with reshare chains |
| `SqlStorage`, `MCSqlStorage` | the storage as a shared resource: connecting, transactions over a pool, calls that throw, reads page by page, restarts |
| `ReshareTokens` | tokens and reshare chains: signing, extending, the checks of `verifyDecodedChain`, and what it means to be properly given an offer |
| `TenantServer`, `MCTenantServer` | the HTTP server: its life, each request's tenant, node, checks, answer and cleanup; composes `ReshareTokens` |
| `IntegrationApi`, `MCIntegrationApi` | handlers of integrations, changes told in transactions, remote calls |
| `IntervalProofs` | intersect and subtract are the pointwise operations, for all integers |
| `PersistentOfferModelProofs` | the invariants proved for all values of the constants |
| `OfferMarketProofs` | availability and history, proved for any lag; withdrawals, reservations and acceptances, proved when nothing lags |
| `FeedSyncProofs` | types of `FeedSync`; one run at a time never puts the saved times back and keeps the poll time; the copy mirrors the feed (refinement of `FeedMirror`) |
| `SqlOfferModelProofs` | all seven properties of the older model |
| `SqlStorageProofs` | types; the pool is not overdrawn and its queue is right; what reads page by page leave out and double |
| `TenantServerProofs` | all five invariants of the tenant server |
| `IntegrationApiProofs` | types; handlers hear of each change once, what they hear is true, and updates wait for them |

### State and actions of PersistentOfferModel

* `store[o]` holds an offer's rows: `corpus[f]`, the version of `o` that feed `f`
  publishes (`CorpusOffer`); `chain`, the length of the stored RESHARE chain;
  `timeline` (`StoredTimelineEntry`); `rejected` (`StoredRejection`); `accepted`
  (`StoredAcceptance`). An offer's contents are its version and expiration.
* `clock` is what `clock.now()` answers; `calls` and `updates` are the calls that
  have read the clock and not yet committed.
* `BeginCall`, `BeginUpdate` read the clock. `Accept`, `Reject`, `Reserve`,
  `ProcessUpdate` are the whole transaction, the serializable isolation making
  it one step; `AbandonCall`, `AbandonUpdate` are a transaction that never
  commits. An error the code throws (no offer to see, offer too new, a second
  acceptance of the same version) is the call ending without effect.
* `Relist` is `updateListings`: find the reservation (the *first* timeline entry at
  the instant, any of those that start first), truncate the timeline, add the
  host's own entry and the entries made from the policy's listings.
* `ProcessUpdate` applies a batch: an optional leading `clear`, then at most one
  operation per offer. A list of offers (`SnapshotBatches`) removes what it does
  not name. Offers do not share rows, so the order among offers is immaterial.

`getBestReshareChainRoot` is called with four arguments (`persistentoffermodel.ts:485`)
and declared with three (`sqloprpersistentstorage.ts:580`): it searches for an
offer whose id is the host's URL and finds nothing, so an offer of another
organization is listed to the host only. The model does what the code does.

### State and actions of `FeedSync`

* `listed[t]` is what `getOffersAtTime` answers for the consumer at instant `t`: the
  version of each offer or `Unlisted`. `Publish` changes it from the present on, as
  `updateListings` does. The relation of this timeline to calls and policies is the
  subject of `PersistentOfferModel`.
* `copy` is the consumer's corpus of this feed, `metadata` its row of
  `ProducerMetadata`, `Null` a NULL column and `Undefined` a missing row; `applied` is
  the `resultsTimestampUTC` of the update applied last, which the code does not keep.
* `StartRun` reads the metadata and the clock (`oprtenantnode.ts:245-293`); `Answer` is
  the publisher's `list`; `Apply` is the arrival of the answer, which fixes
  `earliestNextRequestUTC`, and the transaction of `processUpdate`; `Finish` is the save
  of the metadata after an update or a skip, `Fail` the `catch` block with its save,
  `Crash` the end of the process.
* `Differed` gives, per offer, what the patches of a DIFF do to the copy: `add` and
  `remove` of the whole document for offers that appeared and disappeared, nothing for
  an offer listed in the same version at both ends, and for two versions the patch of
  `compare(toOffer, fromOffer)`, which leads to the older one. An empty listing at the
  start of the diff means a `clear` first.
* `clear` (`Renewed`) and the end of a SNAPSHOT (`Snapshotted`) delete offers while
  `getCorpusOffers` pages over the same corpus by offset: of a corpus of more than
  `CorpusPage` rows some are passed over and stay. `Leaves` lets any of them stay.

Left out: pages (an answer is one page), the contents of offers (a copy patched from a
third version may mix contents, here it has the version it is labelled with), a
difference between the two servers' clocks, a listing changed in the very millisecond
of an answer after it, and that the publisher's timeline can change for instants just
past when its own calls lag (`late`).

### State and actions of `SqlOfferModel`

* `db[o]` holds an offer's rows: `corpus[p]`, the version in the latest corpus of
  producer `p`; `sent`, the versions and chains of *all* corpora, superseded ones
  included, which is where `getBestReshareChainRoot` looks; `timeline`, with
  rejections as entries of their own; `accepted`, with the organizations that may
  see the acceptance in their history.
* `ProcessUpdate`, `Accept`, `Reject` and `Reserve` are the whole serializable
  transaction, including the time they read inside it; an operation that throws
  rolls back and is no step. A deferred `list` or `getHistory` only reads: they are
  the operators `ListAt` and `History`, which the properties compare over time.
* `CutLive` is what a relisting does to what lies ahead (entries that began this very
  instant go, what runs ends now), `OpenParts` splits a listing around the
  reservation, `RootChains` chooses the chain an offer is passed on with,
  `ChecksPass` the consistency checks behind `enableInternalChecks`.

The order among equal candidates of a lookup is left open. Two behaviours are kept as
they are: a DIFF given to this model withdraws every offer its patches do not name
(`diff/patch.ts:44`), and accepting leaves entries that begin later, so that another
organization is listed again after a reservation or a stage, although the comment at
`sqloffermodel.ts:1222` says an accepted offer is hidden from everyone.

### State and actions of `SqlStorage`

* `phase` is `initialize()`: one attempt to connect for all who wait for it. `calls`
  are READWRITE transactions, each a `Script` of statements as `accept`, `updateListings`,
  `storeValue` and `clearAllValues` issue them; `queue` is the pool's waiting list;
  `reads` are READONLY calls, which have no transaction: each page is a query of its
  own by offset over what is committed then. `table` are the committed rows.
* `Begin` gives the head of the queue a connection; `Execute` runs a statement; `Commit`
  makes all of them visible and gives the connection back, `Fail` undoes them and gives
  it back. `Throw` is a `StatusError` thrown by `accept`, `reject` or `reserve` after the
  transaction began: neither `commit` nor `fail` is called, the connection is *leaked*.
* `ReadPage` fetches `SelectPage` rows and passes them on until an answer of `ResultPage`
  is full, without those that double the offer before (`getOffersAtTime`).
* `Crash` ends the process: what was open is rolled back, leaked connections are free.

### State and actions of `ReshareTokens` and `TenantServer`

* A link of a chain is a record of what its token says and the key it is signed with; the
  first one names the offer, each further one the signature of the one before. `Extended`
  is `extendChain`, `Taken` all checks of `verifyDecodedChain`. `Presented` are the chains
  a client can send: signed chains, their ends, and the first link of one spliced to the
  rest of another. `LicensedChains`
  says, without looking at how it is checked, which chains record that the host shared
  the offer and each receiver, allowed to reshare, passed it on.
* `server` and `keys[org]`; `requests[r]` is a request: its stage, whether its client is
  still there, the objects made for it, the status answered, what the offer model did;
  `leaked` counts the connections of the shared pool that calls have lost since the start.
* `Receive` to `Finish` follow `initializeServer`: `Dispatch` finds the tenant, `Construct`
  makes the objects of its configuration one by one, `Build` the node, `StartNode` installs
  the integrations and serves the node's open files, `VerifyToken`, `VerifyLink` and
  `VerifyChain` are the checks with a key set fetched before each, `Handle` the call of the
  offer model and the answer, `Finish` the cleanup hooked to the end of the response.
  `Handle` waits while the pool is used up; a call of `accept`, `reject` or `reserve` may
  `Throw`, which is answered 400 or 500 and loses a connection, as in `SqlStorage`.
  `Fault[t]` is what is wrong with a tenant: unknown, an object that cannot be made, no
  key set, an integration that cannot be installed or uninstalled, a wrong URL, responses
  refused by the strict check.
* `Start`, `Listen`, `Initialize`, `Stop`, `Stopped`, `Die` are the server's life, `Rotate`
  replaces an organization's key, `Disconnect` is a client that goes away.

A link's token has no expiration (`signChain` sets none), so a chain holds until a key on
it is replaced, which voids it for good. Cryptography is ideal: a token is signed with
the key it says. Chains have at most two links. What `ingest` and the integrations do with
the pool meanwhile is left out; what they lost would count as `leaked`.

### State and actions of `IntegrationApi`

* `listeners` are the handlers of the offer model: the node's own API and a clone per
  integration (`namespacedClone`); `handlers[a]` those registered with clone `a`;
  `working` the handler runs that are not over.
* `Change` tells one change of an update to all listeners and waits for them
  (`fireEvent`, `Promise.all`); a handler `Store`s a value (a transaction of its own, a
  connection of its own), is `Done` or `Throw`s, which ends the waiting for the other
  handlers of its clone. `Commit` ends the update, or the database refuses.
* `leaked` counts connections lost: `storeValue`, `clearAllValues` and `processUpdate` do not
  call `fail()` when a statement throws (`StoreThrows`, `UpdateThrows`).
* `Send`, `Answer`, `Refuse`, `LoseReply`, `TellCall`, `Return` are a remote call: one
  organization is asked to accept or reserve, all sources to reject. `REMOTE_*` events
  reach the handlers of the calling clone only.
* `Destroy` takes the clones and then the node's own API off the model's list when the
  node's response is over, whatever is under way; with `IntegrationApiProofs` that leaves
  nobody (`DestroyEmpties`).

### Bounds

`MaxTime` bounds timestamps, `Horizon` the clock, `MaxLag` how far the clock runs
ahead of a call in flight, `MaxBegun` the calls and updates of a behaviour,
`MaxUpdates` those in flight at once, `Calls` the calls in flight, `MaxChain` the
length of chains. Four operations over four instants contain the histories that
matter: publish, reserve, a second operation that relists, a third one during or
after the reservation, in the same or different instants; two versions suffice
for newer and older; two organizations for the holder and everybody else.
Version 1 expires within the horizon, version 2 after it. Because budget and horizon stop the model,
deadlock is not checked. `late.cfg` uses symmetry in the identities of calls,
which no property distinguishes.

For the feed, `PollTime`, `RetryTime`, `MaxDelay`, `MaxChanges` and `Horizon` bound the
schedule, the age of a run, the changes of the publisher and the clock. Two offers are
needed because `clear` depends on whether any other is listed; two versions for
updates (three in `feed_update_lost`). Within six instants and a poll
time of two, three rounds with three changes and any failures in between happen: a
snapshot, a diff, and a diff from a diff. A page of a corpus is one row (`CorpusPage = 1`), so
that a corpus of two offers is more than a page.

`sql_model`: `MaxSteps = 3` operations on two offers from two producers within
`Horizon = 2` instants, times up to `MaxTime = 6`, three versions (one expires within
the horizon; three are needed for a version that is neither the newest sent nor the
newest left), reservations of length 1 and 2, and two chains beside none: one that ends in
leave to reshare only, and one that went through both organizations and gives leave to
accept as well. Three operations contain an update, a reservation or rejection and what a
later operation of another kind rewrites.
Producers are symmetric. `storage`: four calls of different kinds over `Connections = 2`,
so that two that throw use the pool up; six rows, three of them there at first, which
the calls add to and remove from before, between and after what is read, `SelectPage = 2`
at a time into answers of `ResultPage = 3`; three rows in succession show one offer, so
that it lies astride a page; `MaxCrashes = 1`.
`server`: one request of any of its `Shapes` beside one whose tenant is faulty, all tenant
faults, shares with and without leave to reshare, another host with the same offer id;
`Rotating` and `MaxRotations = 1` bound key replacements, `Leaving` the clients that go.
One replaced key gives both old and new tokens and links, and requests meet only in the
server's life and in its storage, which two show: with `Connections = 1` a call that throws
leaves the other waiting. `integration`: two clones, one with two handlers; an
update of `Changes = 2`, one rejection sent to two sources; one handler stores and may
throw. `Connections = 2` are enough for the update and its handler, and no longer after one
is lost. `Temporary` bounds the handlers that are removed.

## Runs

| Run | Question | Result |
|---|---|---|
| `core` | do calls that finish in the instant they began leave reservations in force and accepted versions off the market? One own offer, two organizations, one feed | yes |
| `late` | what still holds when transactions run up to two instants behind the clock, two calls and an update in flight? | exclusiveness of reservations, rejections, availability and the settled history hold |
| `sources` | do two feeds publishing an own and a foreign offer disturb each other? | no: availability, withdrawal and up-to-dateness hold |
| `late_accept_reserved` | is a reserved offer accepted only by its holder (`transfer_api.md:579`)? | no: an accept that read the clock before the reservation began |
| `accepted_twice` | is an accepted offer accepted by one organization only (`:577`)? | no: a newer version is listed afresh |
| `feed` | does a feed that is followed on schedule stay mirrored, when requests fail? | yes: `FeedSync` implements `FeedMirror`, and the feed is not asked again before the poll time |
| `feed_schedule` | do early runs, failures, crashes and lost saves put the saved times back? | no, except that a skipped run whose save fails shortens the wait |
| `feed_update_lost` | does a DIFF turn the old listing into the new one (`transfer_api.md:545`)? | no: the patch between two versions is computed the wrong way round (`diff.ts:89`) |
| `sql_model` | do updates and calls on the older model, with chains, keep its listings right? | yes: all seven properties hold |
| `storage` | who gets a connection when calls throw and keep theirs, and what do paged reads leave out or double? | everybody is served until the pool is used up; a row is missed only behind a removed one, an offer doubled only where or behind where a row was added |
| `server` | who gets through with which token and chain, and is every request answered and every object given back? | only those with a right to it, and everyone properly given an offer; answers and cleanup unless the network or a used-up pool keeps a request waiting, and under the conditions below |
| `integration` | who hears what, in which order, and do updates and calls end? | every handler once and in order; updates and calls end unless a handler starves for a connection |

Conditions that the properties of the passing runs need, each found by dropping it (a property is checked in the run where it is
hardest; `ReservationAlone`, `RejectedUnlisted` and `HistoryFixed` hold without lag because
they hold with it):

* `AcceptedStaysOff`, `ReserveHolds`, `ReservationKept`, `WithdrawnUnlisted` and
  `ListingNotStale` are stated for calls without lag. With `MaxLag = 2` TLC shows
  `AcceptedStaysOff` violated: a reserve that read the clock before an accept
  committed lists the accepted version again.
* `ReservationAlone` needs a policy that lists no organization twice
  (`OneListingPerOrg`). When a policy names an organization in two stages, each listing
  makes a reservation entry and only the last is subtracted (`persistentoffermodel.ts:563`).
* `HistoryFixed` speaks of versions that have not expired: a listing that has
  ended is added to the past untrimmed (`persistentoffermodel.ts:547`).
* `AvailableUntilTaken` speaks of instants at which no version has expired.
* `Mirrors` needs runs that are due, one at a time, without delay, whose metadata is
  saved. Without any one of these TLC refutes it. `Disturbances = {"early run"}`: a
  skipped run advances the start of the next diff. `{"lost save"}`: the next diff starts
  before the copy's time, and an offer listed in between only is kept for good.
  `MaxDelay = 1`: the next diff starts when the run started and not when it was
  answered, with the same effect. `Runs = {r1, r2}`: a run that fails late saves the
  start it read over the one saved meanwhile; nothing locks the producer, although the
  comment at `oprtenantnode.ts:247` says so.
* `NewestListed` says nothing of an offer that a version already expired replaces: it stays
  listed as it was. Nor is what is listed always a version somebody publishes: when a
  producer replaces the newest version by the oldest while another has one between, the
  newest stays listed (`sqloffermodel.ts:506-579` lists afresh only what the update itself
  brought). This takes three versions.
* `Served` ends with "unless `Starved`": after as many throwing calls as connections nothing
  is served until the process ends. `PagesComplete` excepts what lies behind a removed row,
  `PagesDistinct` what lies at an added row or behind it. An added row may well lie behind
  the one read first: of an offer with rows 2, 3 and 4, row 2 is read, then 3 and 4 are
  added, and the next page names the offer again with row 4.
* `ChainHonoured` is about keys not replaced since they signed: a replaced key voids all
  chains through it, and nothing makes its holder share again.
* `Answering` and `GivenBack` except a request that is `Stuck`: it waits for the keys of an
  organization served elsewhere, as the fetch has no timeout, or for a connection when
  as many calls have thrown as the pool has (`Starved`): `accept`, `reject` and `reserve` throw,
  to answer 400 among others, without `t.fail()` (`persistentoffermodel.ts:667`, `726`, `763`).
  Without either exception TLC refutes both: `stop()`, too, waits for ever then.
* `GivenBack` is about clients that wait for the answer (`'finish'` may not fire for one that
  left) and tenants without the faults `construct`, `nojwks`, `install` and `uninstall`: the
  cleanup is hooked after the configuration was resolved and the node started, so what was
  made before a failure there is kept, and an uninstalling integration that throws keeps
  what would be destroyed after it.
* `WorkEnds` ends with "unless `Starving`": a handler waits for a connection for ever when
  open updates, which wait for their handlers, and lost connections are as many as the
  pool has. No number of connections rules this out: each `storeValue` or `processUpdate` whose
  statement throws takes one away. Without the exception TLC refutes it.
* `HeardOnce` is about handlers removed once: `remove()` called twice takes the last
  handler of somebody else off the list (`indexOf` answers -1).

Every property of a passing run has a mutant in `PROJECT.json`: an operator of the
model replaced by what a plausible bug would make of it (the definitions marked
*Mutation of*), under which TLC finds the property violated.

### What else the code does that its documents do not say

Seen while modelling and kept in the models:

* A policy that lists `*`, as the starter example's does, never matches a reservation's
  holder: `reserve` answers success and the relisting drops the reservation
  (`persistentoffermodel.ts:555`). `ReserveHolds` is checked under policies that name
  organizations.
* `trim` moves the start of every listing to the present, so that the second stage of a
  hierarchy does not wait for the first (`hierarchicallistingpolicy.ts:25` says it does).
* `clear` followed by the same offer drops the offer's reservation (`transfer_api.md:640`).
* A skipped feed run advances the start of the next diff past changes nobody asked for
  (`oprtenantnode.ts:275`). When the first request of a feed fails, `lastUpdateTimeUTC`
  is stored as NULL, which is not `undefined`: the next run asks for a DIFF from `null`,
  the publisher's schema refuses it, and so every later run until a skipped one stores a time.
* `docs/integrations.md` lists an `ACCEPT` event; the offer model fires none. Change events
  are told before the transaction commits, and nothing takes them back if it does not.
* In both models a reservation is rebuilt from the policy's new listings: it is lost when
  the policy no longer lists its holder.
* A relisting adds listings that are over untrimmed to the past (`persistentoffermodel.ts:547`).
  Under a staged policy these are stages of versions that have not expired:
  `HistoryFixed` is proved for policies whose listings last until the version expires.
* A chain link without scopes is answered 500 where the verifier means 403. (A bearer token
  without the required scope is answered 403.)
* `storeValue`, `clearAllValues` and `processUpdate` leave their transaction open when a statement
  throws (`integrationapiimpl.ts:128-157`, `persistentoffermodel.ts:262-407`), as `accept`,
  `reject` and `reserve` do.
* `clear` and full lists delete the rows of a corpus while it is paged over by offset: of more
  than 100 offers some stay (`persistentoffermodel.ts:274`, `372`; `sqloprpersistentstorage.ts:651`).
* With strict response checks an offer is accepted and then answered 500.
* A rejection of `initializeServer` and one of `stop()` in flight are handled by nobody;
  `ingest()` destroys none of the configurations it resolves.
* The caches of organization configurations cannot be reached from `OprServer`: every
  token and every link is verified with a fresh key set.

### Fairness

The offer models and `FeedSync` are checked for safety and assume no fairness. The others
assume weak fairness of what the process itself keeps doing, because the event loop runs
every callback that is ready, the driver answers every statement and the pool serves its
queue in order:

* `SqlStorage`: `Connect`, `Begin`, `Refuse`; for each call `Execute \/ Commit \/ Fail`; for
  each read `ReadPage \/ RefuseRead`. Not `Request`, `Throw` or `Crash`.
* `TenantServer`: `Stopped`; for each request the next stage (`Proceed`), `Finish` while its
  client is there, and `Verify` unless it waits for the network, that is, for the keys of
  an organization this server does not serve, or does not serve at the moment. `Proceed`
  includes `Handle` only while a connection is left, and a call that throws is one of its
  ends: nothing is assumed of a call that waits for a used-up pool.
* `IntegrationApi`: for each update `Change \/ Commit`, for each handler `Store \/ Done`
  (integrations are asked to end; `Store` only while a connection is free), for each call
  `TellCall \/ Return`. Not `Throw`, `StoreThrows` or `UpdateThrows`.

Nothing is assumed of clients, other organizations, the network or the clock.

## Proofs

All theorems are for every value of the constants that satisfies the modules' named
assumptions (`ConstantsAssumption`, `PolicyAssumption`, `FeedAssumption`), which TLC
evaluates in the runs. They state every invariant and every safety action property that
the passing runs check. A theorem that needs more than the assumptions names it:

| Hypothesis | Meaning | Why, and who meets it |
|---|---|---|
| `NoLag` | calls and updates commit in the instant they read the clock (`MaxLag = 0`) | with lag TLC refutes each of these properties |
| `OneListingPerOrg`, `ListsToExpiration`, `ListsEveryone`, `ListsByName` | the policy lists nobody twice; its listings last until the version expires; it lists everybody who did not reject the offer, or `*`; it lists nobody but by name | the listing policy is a plug-in and promises nothing. `UniversalAcceptListingPolicy` meets all four: `UniversalPolicy` in `MCPersistentOfferModel` |
| `HonoursRefusals`, `ListsEachOnce`, `ListsStably` | the same for the older model: nobody who rejected or already had the offer; nobody twice and not the host; whom it listed it lists at least as long when asked again | the first two hold of both policies of `MCSqlOfferModel`, the third of the universal one (`UniversalListsStably`) |
| `OneRun`, `Undisturbed`, ... | one run of a feed at a time; due, immediate, its metadata saved | without any one TLC refutes the property (see *Conditions*) |

* `IntervalProofs`: `IntersectIsCommon` and `SubtractIsDifference`, for all integers,
  empty and inverted intervals included.
* `PersistentOfferModelProofs`:
  * `TypeCorrect` : `Spec => []TypeOK`.
  * `RejectedStayUnlisted` : `Spec => []RejectedUnlisted`, for every listing policy and any
    lag. Every step either keeps an offer's timeline, truncates it, or relists it with
    the rejections in force; the call's time is not after the clock
    (`CapturedInPast`), so what is truncated has ended by the present.
  * `ReservationsExclusive` : `Spec => []ReservationAlone`, assuming `OneListingPerOrg`. The
    entries that `Relist` adds are disjoint from the one reservation entry
    (`ListedEntriesAlone`), what it keeps ends before they start, and the reservation
    is recognized although any earliest entry may be found first.

  The inductive invariant `IInv` is `TypeOK /\ CapturedInPast`; the two safety invariants are
  inductive relative to it. It is needed because a commit truncates at the call's own
  time: if that could lie in the future, a listing between now and then would stay.
* `OfferMarketProofs`, any lag:
  * `AvailableTillTaken` : `Spec => []AvailableUntilTaken` (`ListsToExpiration`, `ListsEveryone`).
    Inductive: a step that does not accept the offer and leaves it published either keeps
    its timeline or relists it (`RelistAvailable`), and then each organization's listing is
    whole, or cut by the reservation of another (`SubtractIsDifference`).
  * `HistoryStands` : `Spec => HistoryFixed` (`ListsToExpiration`). What a step writes begins at
    the time its call captured, and truncation at that time leaves what was there before.
* `OfferMarketProofs`, `NoLag`. The invariant adds `InThisInstant`, the clock stands while
  something is in flight, so that what a call sees (`SeenMarket`) is on the market at the
  instant it commits. With lag a call relists what it saw before the offer went away, and
  a better chain relists an older version (see the hazards).
  * `NothingWithdrawnListed` : `Spec => []WithdrawnUnlisted`, for every policy and any number of
    feeds; `NothingStaleListed` : `Spec => []ListingNotStale` when also `MaxChain = 0`, that is,
    offers come without reshare chains.
  * `ReserveGivesWhatItAnswers` : `Spec => ReserveHolds`, and `ReservationsStand` :
    `Spec => ReservationKept`, the latter also with `OneListingPerOrg`. `NamedOnly` says that on
    the market nobody is listed as `*`, which would never match a holder. A relisting
    finds the running reservation because it is alone (`ReservationAlone`), and rebuilds it
    up to its end because its holder, who did not reject the offer
    (`RejectedUnlisted`), is listed until the version expires.
  * `AcceptedIsTakenOff` : `Spec => AcceptedStaysOff` (`ListsToExpiration`). `NoGaps`: a version
    that is on the market at some instant is until it expires, so that one that an accept
    took off has nothing ahead from which a later call could find it again.
* `FeedSyncProofs`:
  * `FeedTypeCorrect` : `Spec => []TypeOK`, for any number of overlapping runs.
  * `BaselineNeverBack` and `ScheduleNeverBack` : `Spec => BaselineKept` and `ScheduleKept` when
    `Runs` has at most one member. The invariant `ReadCurrent` says why: what a run in
    flight has read is still what is stored, an update runs only when due, and the time a
    run saves was in the past. With two runs both fail.
  * `NeverAskedTooSoon` : `Spec => []PolledSeldom` for one run at a time whose save is not
    lost. `Pace` follows the time of the next run: a poll time after the answer, it is with
    the run until it is saved, then in the metadata, and a run that asks has waited for it;
    `ReadCurrent` gives that a skipped run saves back what it read.
  * `CopyMirrorsFeed` : `Spec => Mirrors`, the refinement of `FeedMirror` with `shown` what is
    listed now and `copied` the copy, for a run that is due, immediate and saved, though
    its requests and transactions may fail. The invariant `MirrorInv`: what is listed now
    is listed from now on (`Held`), an offer that stays listed never gets older (`Grows`), an
    answer tells the present and the stored time (`Prompt`), that time is the one of
    the update applied last (`AppliedSaved`), and the copy holds just the offers listed then
    (`CopyFollows`). The two transactions of a run map to a `Round` and a stutter, a
    failure to a stutter.
* `SqlOfferModelProofs`. What a relisting leaves of a timeline and adds to it is said once
  (`RelistShape`, and `StepShape`: what a step does to an offer is an update, an accept, a
  rejection or a reservation), and each property follows from it:
  * `SqlModelTypeCorrect` : `Spec => []TypeOK`; `ListedIsNewest` : `Spec => []NewestListed`;
    `PastStaysFixed` : `Spec => PastFixed`; all for every policy. `NewestListed` is not
    inductive, as it speaks of the newest version only; `AllUpToDate` speaks of all that are not
    expired, each of which was there before a step or is the one that came.
  * `RejectedStaysUnlisted` : `Spec => []RejectedUnlisted` and `NeverPassedOnUnasked` :
    `Spec => []AuthorityKept` (`HonoursRefusals`); the first with `RejectionsMade`, a rejection
    began in the past, so that a cut at the present does not shorten it.
  * `ChecksNeverFail` : `Spec => []ChecksHold` (`ListsEachOnce`), with `ReservationsOwn`.
  * `ReservationStands` : `Spec => ReservationKept` (all three). `ReservationsBacked` remembers
    that the policy once listed the holder until the reservation's end or later; `ListsStably`
    then gives that it does when asked again.
* `SqlStorageProofs`:
  * `PoolIsKept` : `Spec => []PoolKept`. Inductive with the types of calls and queue: a call
    enters the queue's end when it starts waiting, only its head leaves, and a connection
    is taken only when one is free.
  * `StorageTypeCorrect` : `Spec => []TypeOK`, which includes that an answer is no longer
    than asked for.
  * `NoRowPassedOver` : `Spec => []PagesComplete` and `NoOfferTwice` : `Spec => []PagesDistinct`, for
    all tables, scripts and sizes of pages. `Owed`, in the invariant `ReadsRight`, says what an
    answer owes to the rows before the reader's offset: those that stayed are named
    unless one before was removed (`Covered`), and a row named lies before the offset
    unless one was added. It is kept when the table changes under the reader (`RowsChange`) and when a page is
    taken row by row (`PageTaken`). Rows are found by counting (`Rank`).
* `TenantServerProofs`, chains of at most two links, for every set of organizations,
  tenants, faults, shares and any number of key replacements:
  `ServerTyped`, `AllDoneByRight`, `OnlyKeysInUse`, `ChainsHonoured`, `ObjectsAlive` for the
  five invariants of the run. The inductive invariant `Inv` says of each request (`Good`)
  what its stage implies: which checks its token passed, that the links recorded as
  checked were signed with keys not replaced before it came, how many objects it has.
  The two lemmas that carry it are `TakenIsLicensed`, a chain put together from genuine
  links that passes `verifyDecodedChain` is one the organizations meant to give, and
  `LicensedIsTaken`, every chain they meant to give passes. The first needs that a
  signature is never an offer id.
* `IntegrationApiProofs`:
  * `RemoteEventsAreTrue` : `Spec => []RemoteEventsTrue`, from an invariant that counts nobody as
    told (`Silent`) until all asked have done it; and `ChangesAreInOrder` : `Spec => []InOrder`,
    from what `Waited` demands before an update goes on.
  * `EachHeardOnce` : `Spec => HeardOnce` and `ApiTypeCorrect` : `Spec => []TypeOK`, from `ApiInv`:
    the lists of listeners and handlers hold nobody twice, all clones listen once the node
    is started and nobody when it is destroyed (`Attached`), and no change is heard of
    before it is told (`Heard`). Removing a member of such a list leaves the others
    (`RemoveAtIs`).

Steps that need an induction over a list or a table, the rows of a page, the clones that
leave, the largest row of a finite table, take the smallest counterexample instead
(`MinExists`, from the well-foundedness of the natural numbers), as the library's induction
rules cannot be instantiated here. Therefore the models write such recursions as recursive functions.

Only model-checked: `Served`, `Answering`, `GivenBack` and `WorkEnds`, which are liveness under
fairness and need `ENABLED`; that a hierarchical policy answers what its `RECURSIVE`
`BuildListings` computes; and the three documented claims that do not hold.

## Plan

Done, in this order: `Interval`, `PersistentOfferModel`, `ListingPolicies`; `FeedSync` and
`FeedMirror`; `SqlOfferModel`; `SqlStorage`; `ReshareTokens` and `TenantServer`;
`IntegrationApi`; their proofs. What would come next:

1. Several tenants in one database: deletions and producer metadata do not name the host
   (`sqloprpersistentstorage.ts:616`, `1241`).
2. `OfferAvailability`: an abstract specification of one offer (listed, reserved by,
   accepted, withdrawn) that `PersistentOfferModel` without lag implements.
3. Proofs: that implementation of `OfferAvailability`, and chains of any length in
   `TenantServer`, whose proofs go through two links by name.

## Not modelled

* JSON, HTTP framing, schemas and generated types: a body that does not fit its schema is
  an input of `TenantServer`, nothing else depends on them.
* In `PersistentOfferModel`, corpora of more than a page (100 offers), whose `clear` passes over
  some; `FeedSync` has them.
* Key generation, signature arithmetic and key files: tokens are ideal.
* sqlite's single connection, on which transactions nest as savepoints of TypeORM, outside
  this repository's sources. Several tenants in one database. Page tokens: a token is a
  Promise nobody awaits, so there is no continuation to model.
* The in-memory cache of organization configurations and the cached getter: nothing in the
  server uses them. (The getter never records when it fetched and so never uses its value.)
* `OprServer.ingest()`, a loop over tenants around the run that `FeedSync` models; an error
  of one tenant ends it. Feeds of several pages, producers that are not feeds.
* Handlers that register or remove handlers while they are told; custom routes.
* In the older model: producer metadata, change handlers, RESHARE scopes of listings.
* The Google Cloud adapters (I/O without state), developer tools, test utilities, examples.
