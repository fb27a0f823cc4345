--------------------------- MODULE SqlOfferModel ---------------------------
(***************************************************************************)
(* The older, self-contained offer model (integrations/sql-database/src/   *)
(* sqloffermodel.ts), still exported beside PersistentOfferModel.  It      *)
(* differs in what it remembers and in how it relists:                     *)
(*   - a corpus is a whole new set of rows; superseded ones stay, and so   *)
(*     do the reshare chains that came with them;                          *)
(*   - rejections are rows of the timeline, with an end;                   *)
(*   - every operation runs in one serializable transaction, reads the     *)
(*     clock inside it and rolls back when it throws, so each is one       *)
(*     atomic step here.                                                   *)
(* Scopes of listings are left out: a policy here gives no RESHARE scope,  *)
(* so an offer of the host is listed without a chain.                      *)
(***************************************************************************)
EXTENDS Integers, FiniteSets, Sequences, Interval

CONSTANTS
  Offers,         \* offer ids
  OfferedBy,      \* [Offers -> Orgs \cup {Host}], the posting organization
  Orgs,           \* the other organizations
  Host,           \* hostOrgUrl
  Wildcard,       \* the listing target '*'
  Producers,      \* producer ids
  Versions,       \* update timestamps of offer versions
  Expiration,     \* [Offers -> [Versions -> Nat]]
  MaxReservation, \* [Offers -> Nat]; 0 is unset
  Lengths,        \* the reservation lengths that callers request
  Chains,         \* the valid reshare chains that may come with an offer
  MaxSteps,       \* bound: how many operations take place
  MaxTime,        \* bound: no reservation lasts longer
  Horizon,        \* bound: the clock stops here
  Listings(_, _, _, _, _, _)
                  \* listingPolicy.getListings(offer, version,
                  \*   firstListingTime, now, rejections, sharedBy)

VARIABLES
  clock,          \* clock.now()
  db,             \* the tables, by offer
  steps           \* operations so far; bounds the model

vars == <<clock, db, steps>>

-----------------------------------------------------------------------------
(* Rows                                                                    *)

NoVersion == 0
Time      == 0 .. MaxTime
Targets   == Orgs \cup {Host, Wildcard}

(* A decoded chain: who shared the offer, in order, and the scopes of the  *)
(* last link.  An offer that came straight from its owner has no chain.    *)
Chain   == [by : Seq(Orgs), reshare : BOOLEAN, accept : BOOLEAN]
NoChain == [by |-> <<>>, reshare |-> FALSE, accept |-> TRUE]

Entry ==
  { e \in [target : Targets, version : Versions, start : Time, end : Nat,
           kind : {"listing", "reservation", "rejection"},
           chain : Seq(Orgs \cup {Host})] :
      e.kind = "reservation" => e.end \in Time }

(* FeedCorpusOffer rows of all corpora, the superseded ones included.      *)
Sent == [version : Versions, chain : Chains \cup {NoChain}]

Acceptance == [version : Versions, by : Orgs, at : Time,
               viewers : SUBSET (Orgs \cup {Host})]

OfferRows == [corpus : [Producers -> Versions \cup {NoVersion}],
              sent : SUBSET Sent,
              timeline : SUBSET Entry,
              accepted : SUBSET Acceptance]

ASSUME ConstantsAssumption ==
  /\ Host \notin Orgs /\ Wildcard \notin Orgs /\ Host # Wildcard
  /\ OfferedBy \in [Offers -> Orgs \cup {Host}]
  /\ Versions \subseteq Nat \ {NoVersion}
  /\ MaxTime \in Nat /\ Horizon \in Time /\ MaxSteps \in Nat
  /\ Lengths \subseteq Nat /\ \A len \in Lengths : Horizon + len <= MaxTime
  /\ Expiration \in [Offers -> [Versions -> Nat]]
  /\ MaxReservation \in [Offers -> Nat]
  /\ Chains \subseteq Chain /\ \A c \in Chains : c.by # <<>>

(* What a listing policy answers.                                          *)
Listing == [org : Targets, start : Nat, end : Nat]

ASSUME PolicyAssumption ==
  \A o \in Offers, v \in Versions, first \in Time, now \in 0 .. Horizon,
     rejections, sharedBy \in SUBSET Targets :
    Listings(o, v, first, now, rejections, sharedBy) \in Seq(Listing)

TypeOK ==
  /\ clock \in 0 .. Horizon
  /\ db \in [Offers -> OfferRows]
  /\ steps \in 0 .. MaxSteps

Own(o) == OfferedBy[o] = Host

-----------------------------------------------------------------------------
(* Reading                                                                 *)

IsRejection(e) == e.kind = "rejection"

(* Mutation of Rejections: one that is made now does not count yet.        *)
RejectionsBefore(timeline, t) ==
  { e.target : e \in { e \in timeline : IsRejection(e) /\ e.start < t /\ t < e.end } }

Rejections(timeline, t) ==
  { e.target : e \in { e \in timeline : IsRejection(e) /\ Covers(e, t) } }

(* getCurrentReservation: any one of those that run, as a set.             *)
CurrentReservations(timeline, t) ==
  LET running == { e \in timeline : e.kind = "reservation" /\ Covers(e, t) }
  IN  IF running = {} THEN {{}} ELSE { {e} : e \in running }

FirstListingTime(timeline, t) ==
  IF timeline = {}
  THEN t
  ELSE CHOOSE s \in { e.start : e \in timeline } : \A e \in timeline : s <= e.start

(* The entry found for a viewer: of the OLDEST version, one of its own     *)
(* before one for everybody.                                               *)
EntriesFor(timeline, viewer, t) ==
  LET seen == { e \in timeline : /\ ~ IsRejection(e)
                                 /\ e.target \in {viewer, Wildcard}
                                 /\ Covers(e, t) }
      oldest == { e \in seen : \A d \in seen : e.version <= d.version }
      own == { e \in oldest : e.target = viewer }
  IN  IF own = {} THEN oldest ELSE own

(* listOffersAtTime, what the answers of list are made of.                 *)
ListAt(org, t) ==
  [ o \in Offers |-> { e.version : e \in EntriesFor(db[o].timeline, org, t) } ]

History(org, since) ==
  [ o \in Offers |-> { h \in db[o].accepted : org \in h.viewers /\ h.at >= since } ]

(* getAllSnapshots: of the versions in latest corpora that did not expire, *)
(* the newest.                                                             *)
Newest(o, rows, t) ==
  LET live == { v \in Versions : /\ \E p \in Producers : rows.corpus[p] = v
                                 /\ Expiration[o][v] > t }
  IN  { v \in live : \A w \in live : w <= v }

-----------------------------------------------------------------------------
(* Writing the timeline                                                    *)

IsLive(e, now) == ~ IsRejection(e) /\ Covers(e, now)

(* Mutations of CutLive: all of an entry is deleted; it ends in the        *)
(* instant before.                                                         *)
CutLiveWhole(timeline, now) == { e \in timeline : ~ IsLive(e, now) }
CutLiveBefore(timeline, now) ==
  CutLiveWhole(timeline, now)
  \cup { [e EXCEPT !.end = now - 1] : e \in { e \in timeline : IsLive(e, now) } }

(* truncateLiveTimelineEntries: what runs now ends now; an entry of which  *)
(* nothing is left is deleted.                                             *)
CutLive(timeline, now) ==
  { e \in timeline : ~ IsLive(e, now) }
  \cup { [e EXCEPT !.end = now] : e \in { e \in timeline : IsLive(e, now) /\ e.start < now } }

(* deleteFutureTimelineEntries                                             *)
DeleteFuture(timeline, now) ==
  { e \in CutLive(timeline, now) : e.start <= now }

MakeEntry(target, v, i, kind, chain) ==
  [target |-> target, version |-> v, start |-> i.start, end |-> i.end,
   kind |-> kind, chain |-> chain]

ChainsOf(rows, v) == { s.chain : s \in { s \in rows.sent : s.version = v } }

Shortest(chains) ==
  { c \in chains : \A d \in chains : Len(c.by) <= Len(d.by) }

(* generateLocalServerTimelineEntries, with the chain that                 *)
(* findBestLocalAcceptChainIndex picks: the host may take an offer of      *)
(* another organization that came without a chain or with one that ends in *)
(* the ACCEPT scope.                                                       *)
LocalEntries(o, v, rows, now) ==
  IF Own(o)
  THEN {{}}
  ELSE LET usable == { c \in ChainsOf(rows, v) : c.accept }
       IN  IF usable = {}
           THEN {{}}
           ELSE { { MakeEntry(Host, v, [start |-> now, end |-> Expiration[o][v]],
                              "listing", c.by) }
                  : c \in Shortest(usable) }

(* Mutation of RootChains: any chain will do.                              *)
RootChainsAnyScope(o, v, rows) ==
  IF Own(o) THEN {<<>>} ELSE { c.by : c \in Shortest(ChainsOf(rows, v)) }

(* findBestReshareChainIndex: the chain that others get the offer under.   *)
RootChains(o, v, rows) ==
  IF Own(o)
  THEN {<<>>}
  ELSE { c.by : c \in Shortest({ c \in ChainsOf(rows, v) : c.reshare }) }

SharedBy(o, v, rows) ==
  {OfferedBy[o]} \cup UNION { { c.by[i] : i \in DOMAIN c.by } : c \in ChainsOf(rows, v) }

(* Mutation of OpenParts: the reservation is not subtracted.               *)
OpenPartsWhole(listing, reserved) == Subtract(listing, {})

OpenParts(listing, reserved) == Subtract(listing, reserved)

(* The policy's listings that are not over.                                *)
LiveListings(listings, now) == { k \in DOMAIN listings : now < listings[k].end }

(* The reservation that runs is carried on by the first live listing of    *)
(* the organization that holds it, and lost if there is none.              *)
HeldEntries(v, listings, reservation, now) ==
  LET holds == { k \in LiveListings(listings, now) :
                   \E r \in reservation : r.target = listings[k].org }
  IN  { MakeEntry(r.target, v, [start |-> now, end |-> Lesser(r.end, listings[k].end)],
                  "reservation", <<>>)
        : r \in reservation, k \in { k \in holds : \A j \in holds : k <= j } }

(* The entries made of the listings: each begins now, around what is held. *)
ListedEntries(o, v, listings, reservation, root, now) ==
  LET held == HeldEntries(v, listings, reservation, now)
      chain == IF Own(o) THEN <<>> ELSE Append(root, Host)
      Pieces(k) == OpenParts([start |-> now, end |-> listings[k].end], held)
  IN  held \cup UNION { { MakeEntry(listings[k].org, v, i, "listing", chain)
                          : i \in Pieces(k) } : k \in LiveListings(listings, now) }

(* generateRemoteServerTimelineEntries: nothing without leave to reshare.  *)
RemoteEntries(o, v, rows, now) ==
  LET listings == Listings(o, v, FirstListingTime(rows.timeline, now), now,
                           Rejections(rows.timeline, now), SharedBy(o, v, rows))
  IN  IF RootChains(o, v, rows) = {}
      THEN {{}}
      ELSE { ListedEntries(o, v, listings, reservation, root, now)
             : root \in RootChains(o, v, rows),
               reservation \in CurrentReservations(rows.timeline, now) }

(* updateListings: every outcome.  All is read before anything is deleted. *)
Relist(o, v, rows, now) ==
  { [rows EXCEPT !.timeline = DeleteFuture(rows.timeline, now) \cup local \cup remote]
    : local \in LocalEntries(o, v, rows, now), remote \in RemoteEntries(o, v, rows, now) }

(* checkTimelineEntries: at most one reservation, no organization listed   *)
(* twice at one time, nobody listed while it runs.                         *)
ChecksPass(entries) ==
  \A d, e \in entries :
    /\ d.kind = "reservation" /\ e.kind = "reservation" => d = e
    /\ d # e /\ (d.target = e.target \/ e.kind = "reservation") => Intersect(d, e) = {}

-----------------------------------------------------------------------------
(* Feeds.  What an update makes of one offer: gone, or a version with the  *)
(* chain it came with.  A DIFF keeps only the offers it names, since       *)
(* applyOfferPatchesAsMap answers no others, so that a DIFF and a full     *)
(* list are the same here.  filterBadOffers drops what is not valid.       *)

Gone == [version |-> NoVersion, chain |-> NoChain]
News == Sent \cup {Gone}

Filed(rows, p, news) ==
  [rows EXCEPT !.corpus[p] = news.version,
               !.sent = IF news = Gone THEN @ ELSE @ \cup {news}]

(* Mutation of Received: an older version than another producer's is       *)
(* listed.                                                                 *)
ReceivedAnyVersion(o, p, news, now) ==
  LET rows == Filed(db[o], p, news)
  IN  IF news = Gone
      THEN {[rows EXCEPT !.timeline = DeleteFuture(@, now)]}
      ELSE Relist(o, news.version, rows, now)

(* processUpdateInTransaction, for one offer.                              *)
Received(o, p, news, now) ==
  LET old == db[o].corpus[p]
      rows == Filed(db[o], p, news)
  IN  IF news = Gone /\ old # NoVersion
      THEN {[rows EXCEPT !.timeline = DeleteFuture(@, now)]}
      ELSE IF news.version \in Newest(o, rows, now) /\ old # news.version
      THEN Relist(o, news.version, rows, now)
      ELSE {rows}

Step == steps < MaxSteps /\ steps' = steps + 1 /\ UNCHANGED clock

(* An offer whose source is not its owner comes with a chain, which its    *)
(* owner began.                                                            *)
Valid(o, source, news) ==
  news # Gone =>
    OfferedBy[o] = IF news.chain = NoChain THEN source ELSE Head(news.chain.by)

(* What the update may make of each offer, as pairs.                       *)
Outcomes(p, source) ==
  LET arriving == { n \in Offers \X News : Valid(n[1], source, n[2]) }
  IN  UNION { {n[1]} \X Received(n[1], p, n[2], clock) : n \in arriving }

(* The outcomes are bound, not defined, to compute them once per update.   *)
ProcessUpdate(p, source) ==
  /\ Step
  /\ \E outcomes \in {Outcomes(p, source)} :
       /\ db' \in [Offers -> { n[2] : n \in outcomes }]
       /\ \A o \in Offers : <<o, db'[o]>> \in outcomes

-----------------------------------------------------------------------------
(* Calls of other organizations.  Only an offer of the host may be         *)
(* accepted or reserved here.                                              *)

Accept(o, org, ifNotNewerThan, sharers) ==
  /\ Step
  /\ Own(o)
  /\ \E e \in EntriesFor(db[o].timeline, org, clock) :
       /\ ifNotNewerThan # NoVersion => e.version <= ifNotNewerThan
       /\ db' = [db EXCEPT
            ![o].accepted = @ \cup {[version |-> e.version, by |-> org, at |-> clock,
                                     viewers |-> {Host, org} \cup sharers]},
            ![o].timeline = CutLive(@, clock)]

Reject(o, org) ==
  /\ Step
  /\ \E e \in EntriesFor(db[o].timeline, org, clock) :
       LET rejection == MakeEntry(org, e.version,
                          [start |-> clock, end |-> Expiration[o][e.version]],
                          "rejection", <<>>)
       IN  \E rows \in Relist(o, e.version,
                              [db[o] EXCEPT !.timeline = @ \cup {rejection}], clock) :
             db' = [db EXCEPT ![o] = rows]

ReservationEnd(o, e, length, now) ==
  now + Lesser(Lesser(e.end - now, length),
               IF MaxReservation[o] = 0 THEN length ELSE MaxReservation[o])

Reserve(o, org, length) ==
  /\ Step
  /\ Own(o)
  /\ \E e \in EntriesFor(db[o].timeline, org, clock) :
       LET reservation == MakeEntry(org, e.version,
                            [start |-> clock, end |-> ReservationEnd(o, e, length, clock)],
                            "reservation", <<>>)
       IN  \E rows \in Relist(o, e.version,
                              [db[o] EXCEPT !.timeline = @ \cup {reservation}], clock) :
             db' = [db EXCEPT ![o] = rows]

-----------------------------------------------------------------------------
Init ==
  /\ clock = 0
  /\ db = [o \in Offers |-> [corpus |-> [p \in Producers |-> NoVersion],
                             sent |-> {}, timeline |-> {}, accepted |-> {}]]
  /\ steps = 0

Tick == clock < Horizon /\ clock' = clock + 1 /\ UNCHANGED <<db, steps>>

Next ==
  \/ Tick
  \/ \E p \in Producers, source \in Orgs \cup {Host} : ProcessUpdate(p, source)
  \/ \E o \in Offers, org \in Orgs, v \in Versions \cup {NoVersion} :
       \E sharers \in SUBSET (Orgs \ {org}) : Accept(o, org, v, sharers)
  \/ \E o \in Offers, org \in Orgs \cup {Host} : Reject(o, org)
  \/ \E o \in Offers, org \in Orgs, length \in Lengths : Reserve(o, org, length)

Spec == Init /\ [][Next]_vars

-----------------------------------------------------------------------------
(* Properties                                                              *)

(* What most policies promise besides: nobody is listed who rejected the   *)
(* offer or, if it is another organization's, who had it before; no        *)
(* organization is listed twice, and the host not at all.                  *)
HonoursRefusals ==
  \A o \in Offers, v \in Versions, first \in Time, now \in 0 .. Horizon,
     rejections, sharedBy \in SUBSET Targets :
    LET listings == Listings(o, v, first, now, rejections, sharedBy) IN
    \A k \in DOMAIN listings :
      listings[k].org \notin rejections \cup IF Own(o) THEN {} ELSE sharedBy

ListsEachOnce ==
  \A o \in Offers, v \in Versions, first \in Time, now \in 0 .. Horizon,
     rejections, sharedBy \in SUBSET Targets :
    LET listings == Listings(o, v, first, now, rejections, sharedBy) IN
    \A j, k \in DOMAIN listings :
      listings[j].org # Host /\ (listings[j].org = listings[k].org => j = k)

(* A policy that, once it listed an organization for a version, lists it   *)
(* at least as long whenever it is asked about that version again, whoever *)
(* refused meanwhile, unless it is itself refused.  One that lists viable  *)
(* organizations until the offer expires does (UniversalAccept).           *)
StillListed(before, after, rejections) ==
  \A k \in DOMAIN before :
    before[k].org \notin rejections =>
      \E j \in DOMAIN after : after[j].org = before[k].org /\ after[j].end >= before[k].end

ListsStably ==
  \A o \in Offers, v \in Versions : Own(o) =>
    \A first1 \in Time, now1 \in 0 .. Horizon, rejections1, sharedBy1 \in SUBSET Targets :
      \A first2 \in Time, now2 \in 0 .. Horizon, rejections2, sharedBy2 \in SUBSET Targets :
        StillListed(Listings(o, v, first1, now1, rejections1, sharedBy1),
                    Listings(o, v, first2, now2, rejections2, sharedBy2), rejections2)

(* What may still be found: the entries that are not over.                 *)
Ahead(timeline, t) == { e \in timeline : ~ IsRejection(e) /\ e.end > t }

(* What is listed is of an offer that a latest corpus holds.  It shows one *)
(* version only, so that the lookups, which take the oldest entry they     *)
(* find, never take a version that was superseded; and that is no older    *)
(* than any version a producer has now, unless that is expired.  (It may   *)
(* be newer: a version its producer took back for an older one stays       *)
(* listed while another producer has a version between the two.)           *)
NewestListed ==
  \A o \in Offers :
    LET ahead == Ahead(db[o].timeline, clock) IN
    ahead # {} =>
      /\ \E p \in Producers : db[o].corpus[p] # NoVersion
      /\ \A d, e \in ahead : d.version = e.version
      /\ \A e \in ahead, v \in Newest(o, db[o], clock) : v <= e.version

(* The checks that enableInternalChecks turns on would never fail: what    *)
(* lies ahead holds one reservation at most, nobody else is listed while   *)
(* it runs and no organization is listed twice at a time.                  *)
ChecksHold ==
  \A o \in Offers :
    ChecksPass(Ahead(db[o].timeline, clock))

(* While a rejection stands, the organization that made it is not listed,  *)
(* whatever updates and reservations rewrite the timeline meanwhile.       *)
RejectedUnlisted ==
  \A o \in Offers : \A r, e \in db[o].timeline :
    IsRejection(r) /\ ~ IsRejection(e) /\ e.target = r.target /\ r.target \in Orgs
      => Intersect(r, e) = {}

(* An offer of another organization is passed on only under a chain that   *)
(* came with that very version and gave leave to reshare it, and to no     *)
(* organization that the chain went through: none runs in a circle.        *)
AuthorityKept ==
  \A o \in Offers : \A e \in db[o].timeline :
    ~ Own(o) /\ e.kind = "listing" /\ e.target # Host =>
      /\ \E s \in db[o].sent : /\ s.version = e.version /\ s.chain.reshare
                               /\ e.chain = Append(s.chain.by, Host)
      /\ \A i \in DOMAIN e.chain : e.chain[i] # e.target

(* Answers about the past do not change: what list recomputes for the      *)
(* start of a diff is what was listed then, and no acceptance is lost from *)
(* a history.                                                              *)
PastFixed ==
  [][\A org \in Orgs \cup {Host} :
       /\ \A t \in 0 .. clock - 1 : ListAt(org, t)' = ListAt(org, t)
       /\ \A o \in Offers : History(org, 0)[o] \subseteq History(org, 0)'[o]]_vars

(* A reservation stands until it ends, or its holder accepts or rejects    *)
(* the offer, unless a feed changes the offer: no other organization's     *)
(* call takes it away.                                                     *)
ReservationKept ==
  [][\A o \in Offers : db'[o].corpus = db[o].corpus =>
       \A r \in db[o].timeline :
         r.kind = "reservation" /\ Covers(r, clock) /\ Covers(r, clock') =>
           \/ \E s \in db'[o].timeline : /\ s.kind = "reservation" /\ Covers(s, clock')
                                         /\ s.target = r.target
           \/ \E h \in db'[o].accepted : h.by = r.target /\ h.at = clock
           \/ r.target \in Rejections(db'[o].timeline, clock')]_vars
=============================================================================
