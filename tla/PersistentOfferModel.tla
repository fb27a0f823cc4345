------------------------ MODULE PersistentOfferModel ------------------------
(***************************************************************************)
(* One tenant's offer model (components/core/src/model/                    *)
(* persistentoffermodel.ts) over its SQL storage (integrations/            *)
(* sql-database/src/sqloprpersistentstorage.ts): what the host knows of    *)
(* each offer, the timeline of who may see it when, and the calls that     *)
(* change both -- processUpdate by feeds, and accept, reject and reserve   *)
(* by other organizations.                                                 *)
(*                                                                         *)
(* Every call reads the clock BEFORE its read-write transaction does its   *)
(* work, and uses that time for everything it reads and writes.  A call is *)
(* therefore two steps: one that captures "now" and one that stands for    *)
(* the serializable transaction, atomically.  Other calls and the clock    *)
(* move between the two.  MaxLag bounds how far the clock may run ahead of *)
(* a call in flight; 0 makes every call finish in the instant it began.    *)
(***************************************************************************)
EXTENDS Integers, FiniteSets, Sequences, Interval

CONSTANTS
  Offers,         \* offer ids (with their posting organization)
  OwnOffers,      \* those posted by the host itself
  Orgs,           \* the other organizations that call the host
  Host,           \* hostOrgUrl
  Wildcard,       \* the listing target '*'
  Feeds,          \* corpora: the producers whose offers the host ingests
  Versions,       \* update timestamps of offer versions, newer is greater
  Expiration,     \* [Offers -> [Versions -> 0..MaxTime]], offerExpirationUTC
  MaxReservation, \* [Offers -> Nat], maxReservationTimeSecs; 0 is unset
  Lengths,        \* the reservation lengths that callers request
  MaxChain,       \* longest reshare chain that comes with an offer
  Calls,          \* identities of calls in flight
  MaxUpdates,     \* how many feed updates may be in flight
  MaxBegun,       \* how many calls and updates begin altogether
  MaxLag,         \* how far the clock runs ahead of a call in flight
  MaxTime,        \* largest timestamp; the bound on listings
  Horizon,        \* the clock stops here
  Listings(_, _, _, _, _)
                  \* listingPolicy.getListings(offer, version,
                  \*   firstListingTime, now, rejections)

VARIABLES
  clock,          \* clock.now()
  store,          \* the tables, by offer
  calls,          \* calls of other organizations in flight
  updates,        \* processUpdate calls in flight
  begun           \* calls and updates so far; bounds the model

vars == <<clock, store, calls, updates, begun>>

-----------------------------------------------------------------------------
(* Constants                                                               *)

NoVersion == 0
Time      == 0 .. MaxTime
Targets   == Orgs \cup {Host, Wildcard}
Listing   == [org : Orgs \cup {Wildcard}, start : Time, end : Time]

ASSUME ConstantsAssumption ==
  /\ OwnOffers \subseteq Offers
  /\ Host \notin Orgs /\ Wildcard \notin Orgs /\ Host # Wildcard
  /\ Versions \subseteq Nat \ {NoVersion}
  /\ MaxTime \in Nat /\ Horizon \in Time /\ MaxLag \in Nat
  /\ MaxChain \in Nat /\ MaxUpdates \in Nat /\ MaxBegun \in Nat
  /\ Lengths \subseteq Nat /\ \A len \in Lengths : Horizon + len <= MaxTime
  /\ Expiration \in [Offers -> [Versions -> Time]]
  /\ MaxReservation \in [Offers -> Nat]

(* A listing policy answers a list of listings whatever it is asked.       *)
ASSUME PolicyAssumption ==
  \A o \in OwnOffers, v \in Versions, rejections \in SUBSET Orgs :
    \A first, now \in 0 .. Horizon :
      Listings(o, v, first, now, rejections) \in Seq(Listing)

(* The policy lists no organization twice.  Not assumed: what holds only   *)
(* under such a policy says so.                                            *)
OneListingPerOrg ==
  \A o \in OwnOffers, v \in Versions, rejections \in SUBSET Orgs :
    \A first, now \in 0 .. Horizon :
      LET listings == Listings(o, v, first, now, rejections)
      IN  \A j, k \in DOMAIN listings : listings[j].org = listings[k].org => j = k

(* Every listing lasts until the version expires, as the universal policy  *)
(* has it; every organization that did not reject the offer is listed, or  *)
(* '*' is; nobody is listed but by name.                                   *)
ListsToExpiration ==
  \A o \in OwnOffers, v \in Versions, rejections \in SUBSET Orgs :
    \A first, now \in 0 .. Horizon :
      LET listings == Listings(o, v, first, now, rejections)
      IN  \A k \in DOMAIN listings : listings[k].end = Expiration[o][v]

ListsEveryone ==
  \A o \in OwnOffers, v \in Versions, rejections \in SUBSET Orgs :
    \A first, now \in 0 .. Horizon :
      LET listings == Listings(o, v, first, now, rejections)
      IN  \A org \in Orgs \ rejections :
            \E k \in DOMAIN listings : listings[k].org \in {org, Wildcard}

ListsByName ==
  \A o \in OwnOffers, v \in Versions, rejections \in SUBSET Orgs :
    \A first, now \in 0 .. Horizon :
      LET listings == Listings(o, v, first, now, rejections)
      IN  \A k \in DOMAIN listings : listings[k].org \in Orgs

-----------------------------------------------------------------------------
(* The rows of one offer: the version each corpus holds, the length of the *)
(* best stored RESHARE chain (0 when none is stored), the timeline, who    *)
(* rejected the offer, and the acceptances.                                *)

Entry == [target : Targets, version : Versions, start : Time, end : Time,
          reserved : BOOLEAN]

Acceptance == [version : Versions, by : Orgs, at : Time]

OfferRows == [corpus : [Feeds -> Versions \cup {NoVersion}],
              chain : 0 .. MaxChain,
              timeline : SUBSET Entry,
              rejected : SUBSET Orgs,
              accepted : SUBSET Acceptance]

(* A call in flight.  "arg" is ifNotNewerThanTimestampUTC of an accept     *)
(* (NoVersion when it is not given) and the length a reserve asks for.     *)
CallArgs(op) ==
  CASE op = "accept"  -> Versions \cup {NoVersion}
    [] op = "reject"  -> {NoVersion}
    [] op = "reserve" -> Lengths

CallRecord == [id : Calls, op : {"accept", "reject", "reserve"}, org : Orgs,
               offer : Offers, arg : Nat, now : 0 .. Horizon]

Call == { c \in CallRecord : c.arg \in CallArgs(c.op) }

(* What one update does to one offer: a patch that changes nothing or      *)
(* fails, a removal, or a new version with its reshare chain's length.     *)
Keep   == [kind |-> "keep", version |-> NoVersion, chain |-> 0]
Remove == [kind |-> "remove", version |-> NoVersion, chain |-> 0]
Put    == [kind : {"put"}, version : Versions, chain : 0 .. MaxChain]

(* An update names an offer at most once after the optional leading        *)
(* "clear".  A full list of offers removes every offer it does not name.   *)
(* (Of a corpus of more than a page, 100 rows, some would be passed over,  *)
(* as rows are deleted while the corpus is paged over; see FeedSync.)      *)
Batch  == [clear : BOOLEAN, op : [Offers -> Put \cup {Keep, Remove}]]
Update == [feed : Feeds, now : 0 .. Horizon, batch : Batch]

TypeOK ==
  /\ clock \in 0 .. Horizon
  /\ store \in [Offers -> OfferRows]
  /\ calls \subseteq Call
  /\ updates \subseteq Update
  /\ begun \in 0 .. MaxBegun

-----------------------------------------------------------------------------
(* Reading the timeline                                                    *)

(* Mutation of VersionsSeen: an entry still counts in the instant it ends. *)
VersionsSeenAtEnd(timeline, viewer, t) ==
  { e.version : e \in { e \in timeline : e.target \in {viewer, Wildcard}
                                         /\ e.start <= t /\ t <= e.end } }

(* getOfferAtTime: the newest version with an entry for the viewer or for  *)
(* everyone at the instant t, as a set of at most one version.             *)
VersionsSeen(timeline, viewer, t) ==
  { e.version : e \in { e \in timeline : e.target \in {viewer, Wildcard}
                                         /\ Covers(e, t) } }

OfferAtTime(timeline, viewer, t) ==
  LET seen == VersionsSeen(timeline, viewer, t)
  IN  { v \in seen : \A w \in seen : w <= v }

EarliestOf(entries) ==
  IF entries = {}
  THEN {{}}
  ELSE { {e} : e \in { e \in entries : \A d \in entries : e.start <= d.start } }

(* Mutations of FirstEntries: an entry in its last instant is overlooked;  *)
(* an entry in its first instant is.                                       *)
FirstEntriesEndingLater(timeline, ts) ==
  EarliestOf({ e \in timeline : e.start < ts + 1 /\ e.end > ts + 1 })
FirstEntriesStartedBefore(timeline, ts) ==
  EarliestOf({ e \in timeline : e.start < ts /\ e.end > ts })

(* The first entry of getTimelineForOffer for the instant ts, which is     *)
(* ordered by start only: any of the earliest may come first.              *)
FirstEntries(timeline, ts) ==
  EarliestOf({ e \in timeline : e.start < ts + 1 /\ e.end > ts })

(* firstListingTime: the start of the first entry ever, or ts.             *)
FirstListingTime(timeline, ts) ==
  IF timeline = {}
  THEN ts
  ELSE CHOOSE s \in { e.start : e \in timeline } :
         \A e \in timeline : s <= e.start

-----------------------------------------------------------------------------
(* Writing the timeline                                                    *)

(* Mutations of Truncate: entries that span ts keep their end, or go.      *)
TruncateStartedOnly(timeline, ts) == { e \in timeline : e.start < ts }
TruncateSpanning(timeline, ts)    == { e \in timeline : e.end <= ts }

(* truncateFutureTimelineForOffer                                          *)
Truncate(timeline, ts) ==
  { [e EXCEPT !.end = Lesser(e.end, ts)] : e \in { e \in timeline : e.start < ts } }

MakeEntry(target, v, i, reserved) ==
  [target |-> target, version |-> v, start |-> i.start, end |-> i.end,
   reserved |-> reserved]

(* getLocalTimelineEntries: the host itself sees an offer of another       *)
(* organization until it expires.                                          *)
LocalEntries(o, v, ts) ==
  IF o \in OwnOffers
  THEN {}
  ELSE { MakeEntry(Host, v, [start |-> ts, end |-> Expiration[o][v]], FALSE) }

(* Mutation of Pulled: the listing starts in the instant before ts.        *)
PulledEarly(listing, ts) == [start |-> ts - 1, end |-> listing.end]

(* A listing trimmed to start at ts; trim answers undefined for one that   *)
(* already ended, which is then left as it is.                             *)
Pulled(listing, ts) ==
  IF listing.end > ts
  THEN [start |-> ts, end |-> listing.end]
  ELSE [start |-> listing.start, end |-> listing.end]

(* What is left of the stored reservation (a set of at most one entry)     *)
(* under a listing of the organization that holds it.                      *)
Continued(listing, reservation, ts) ==
  UNION { { i \in Intersect(r, Pulled(listing, ts)) : i.start = ts }
          : r \in { r \in reservation : r.target = listing.org } }

(* Mutation of OpenParts: the reservation is not subtracted.               *)
OpenPartsWhole(listing, newReservation, ts) == Subtract(Pulled(listing, ts), {})

(* What the new reservation leaves of a listing.                           *)
OpenParts(listing, newReservation, ts) ==
  Subtract(Pulled(listing, ts), newReservation)

(* The entries made of the policy's listings: a reservation entry for each *)
(* listing that continues the stored reservation, and every listing less   *)
(* the last of those entries.                                              *)
ListedEntries(v, ts, listings, rejected, reservation) ==
  LET live == { k \in DOMAIN listings : listings[k].org \notin rejected }
      Held(k) == { MakeEntry(listings[k].org, v,
                             [start |-> Pulled(listings[k], ts).start,
                              end |-> i.end], TRUE)
                   : i \in Continued(listings[k], reservation, ts) }
      holding == { k \in live : Held(k) # {} }
      last == { k \in holding : \A j \in holding : j <= k }
      newReservation == UNION { Held(k) : k \in last }
      Open(k) == { MakeEntry(listings[k].org, v, i, FALSE)
                   : i \in OpenParts(listings[k], newReservation, ts) }
  IN  UNION { Held(k) \cup Open(k) : k \in live }

(* getRemoteTimelineEntries.  An offer of another organization needs a     *)
(* reshare chain root; getBestReshareChainRoot is called with four         *)
(* arguments and takes three, so it looks for an offer whose id is the     *)
(* host's url and finds none.                                              *)
RemoteEntries(o, v, ts, timeline, rejected, reservation) ==
  IF o \in OwnOffers
  THEN ListedEntries(v, ts,
         Listings(o, v, FirstListingTime(timeline, ts), ts, rejected),
         rejected, reservation)
  ELSE {}

(* updateListings(offer, ts): every outcome it may have for an offer whose *)
(* rows are "rows".                                                        *)
Relist(o, v, rows, ts) ==
  LET kept == Truncate(rows.timeline, ts)
      local == LocalEntries(o, v, ts)
  IN  { [rows EXCEPT !.timeline =
           kept \cup local
           \cup RemoteEntries(o, v, ts, kept \cup local, rows.rejected,
                              { e \in first : e.reserved })]
        : first \in FirstEntries(rows.timeline, ts) }

-----------------------------------------------------------------------------
(* Corpora                                                                 *)

Published(corpus) == { corpus[f] : f \in Feeds } \ {NoVersion}

(* Mutations of DeleteFrom: the timeline is truncated although another     *)
(* corpus publishes the offer; it is left alone although none does.        *)
DeleteFromEvery(f, rows, ts) ==
  IF rows.corpus[f] = NoVersion
  THEN rows
  ELSE [rows EXCEPT !.corpus[f] = NoVersion, !.timeline = Truncate(@, ts)]
DeleteFromCorpusOnly(f, rows, ts) == [rows EXCEPT !.corpus[f] = NoVersion]

(* deleteOfferInCorpus, and the truncation that follows when no corpus     *)
(* publishes the offer any more.                                           *)
DeleteFrom(f, rows, ts) ==
  LET corpus == [rows.corpus EXCEPT ![f] = NoVersion]
  IN  IF rows.corpus[f] = NoVersion
      THEN rows
      ELSE [rows EXCEPT !.corpus = corpus,
                        !.timeline = IF Published(corpus) = {}
                                     THEN Truncate(@, ts) ELSE @]

(* A stored chain is replaced by a shorter one; 0 is no RESHARE chain.     *)
BetterChain(new, stored) == new > 0 /\ (stored = 0 \/ new < stored)

(* Mutation of UpdateType: a known offer is an update, however old.        *)
UpdateTypeAnyVersion(rows, put) ==
  IF Published(rows.corpus) = {} THEN "ADD" ELSE "UPDATE"

(* insertOrUpdateOfferInCorpus: ADD, UPDATE or NONE.                       *)
UpdateType(rows, put) ==
  IF Published(rows.corpus) = {} THEN "ADD"
  ELSE IF \/ \A w \in Published(rows.corpus) : w < put.version
          \/ BetterChain(put.chain, rows.chain)
       THEN "UPDATE"
       ELSE "NONE"

InsertInto(f, rows, put) ==
  [rows EXCEPT !.corpus[f] = Greater(@, put.version),
               !.chain = IF BetterChain(put.chain, @) THEN put.chain ELSE @]

(* What one operation of an update makes of an offer's rows.               *)
ApplyOp(o, f, rows, op, ts) ==
  CASE op.kind = "keep"   -> {rows}
    [] op.kind = "remove" -> {DeleteFrom(f, rows, ts)}
    [] op.kind = "put"    ->
         IF UpdateType(rows, op) = "NONE"
         THEN {InsertInto(f, rows, op)}
         ELSE Relist(o, op.version, InsertInto(f, rows, op), ts)

Outcomes(o, u) ==
  ApplyOp(o, u.feed,
          IF u.batch.clear THEN DeleteFrom(u.feed, store[o], u.now) ELSE store[o],
          u.batch.op[o], u.now)

-----------------------------------------------------------------------------
(* Initial state and the passing of time                                   *)

EmptyRows == [corpus |-> [f \in Feeds |-> NoVersion], chain |-> 0,
              timeline |-> {}, rejected |-> {}, accepted |-> {}]

Init ==
  /\ clock = 0
  /\ store = [o \in Offers |-> EmptyRows]
  /\ calls = {}
  /\ updates = {}
  /\ begun = 0

Begin == begun < MaxBegun /\ begun' = begun + 1

Tick ==
  /\ clock < Horizon
  /\ \A c \in calls \cup updates : clock < c.now + MaxLag
  /\ clock' = clock + 1
  /\ UNCHANGED <<store, calls, updates, begun>>

-----------------------------------------------------------------------------
(* processUpdate                                                           *)

(* A list of offers never says "keep": what it does not name goes.         *)
SnapshotBatches == [clear : {FALSE}, op : [Offers -> Put \cup {Remove}]]
DeltaBatches    == [clear : BOOLEAN, op : [Offers -> Put \cup {Keep, Remove}]]

BeginUpdate(f, batch) ==
  /\ Begin
  /\ Cardinality(updates) < MaxUpdates
  /\ updates' = updates \cup {[feed |-> f, now |-> clock, batch |-> batch]}
  /\ UNCHANGED <<clock, store, calls>>

ProcessUpdate(u) ==
  /\ updates' = updates \ {u}
  /\ \E next \in [Offers -> UNION { Outcomes(o, u) : o \in Offers }] :
       /\ \A o \in Offers : next[o] \in Outcomes(o, u)
       /\ store' = next
  /\ UNCHANGED <<clock, calls, begun>>

(* The transaction never commits: the feed's next page cannot be read, the *)
(* database refuses the commit, or the process stops.                      *)
AbandonUpdate(u) ==
  /\ updates' = updates \ {u}
  /\ UNCHANGED <<clock, store, calls, begun>>

-----------------------------------------------------------------------------
(* accept, reject, reserve                                                 *)

(* Calls that name an offer of another organization as "posted by the      *)
(* host" find nothing: accept and reserve are about the host's own offers. *)
BeginCall(id, op, org, o, arg) ==
  /\ Begin
  /\ id \notin { c.id : c \in calls }
  /\ op \in {"accept", "reserve"} => o \in OwnOffers
  /\ calls' = calls \cup {[id |-> id, op |-> op, org |-> org, offer |-> o,
                           arg |-> arg, now |-> clock]}
  /\ UNCHANGED <<clock, store, updates>>

(* The call ends without an effect.                                        *)
Refuse(c) ==
  /\ calls' = calls \ {c}
  /\ UNCHANGED <<clock, store, updates, begun>>

Commit(c, rows) ==
  /\ calls' = calls \ {c}
  /\ store' = [store EXCEPT ![c.offer] = rows]
  /\ UNCHANGED <<clock, updates, begun>>

(* StoredAcceptance is one-to-one with the accepted snapshot: the database *)
(* refuses a second acceptance of a version.                               *)
Acceptable(rows, v, c) ==
  /\ c.arg # NoVersion => v <= c.arg
  /\ v \notin { a.version : a \in rows.accepted }

Accept(c) ==
  /\ c.op = "accept"
  /\ LET rows == store[c.offer]
         seen == OfferAtTime(rows.timeline, c.org, c.now)
     IN  \/ /\ \A v \in seen : ~Acceptable(rows, v, c)
            /\ Refuse(c)
         \/ \E v \in seen :
              /\ Acceptable(rows, v, c)
              /\ Commit(c, [rows EXCEPT
                   !.accepted = @ \cup {[version |-> v, by |-> c.org, at |-> c.now]},
                   !.timeline = Truncate(@, c.now)])

Reject(c) ==
  /\ c.op = "reject"
  /\ LET rows == store[c.offer]
         seen == OfferAtTime(rows.timeline, c.org, c.now)
     IN  \/ seen = {} /\ Refuse(c)
         \/ \E v \in seen :
              \E next \in Relist(c.offer, v,
                            [rows EXCEPT !.rejected = @ \cup {c.org}], c.now) :
                Commit(c, next)

(* The reservation runs from now for the shorter of the requested length   *)
(* and the offer's maximum.                                                *)
ReservationEnd(o, len, now) ==
  now + (IF MaxReservation[o] = 0 THEN len ELSE Lesser(MaxReservation[o], len))

Reserve(c) ==
  /\ c.op = "reserve"
  /\ LET rows == store[c.offer]
         seen == OfferAtTime(rows.timeline, c.org, c.now)
     IN  \/ seen = {} /\ Refuse(c)
         \/ \E v \in seen :
              LET slot == [start |-> c.now,
                           end |-> ReservationEnd(c.offer, c.arg, c.now)]
                  held == [rows EXCEPT !.timeline =
                             Truncate(@, c.now)
                             \cup {MakeEntry(c.org, v, slot, TRUE)}]
              IN  \E next \in Relist(c.offer, v, held, c.now) : Commit(c, next)

(* The call's transaction never commits.                                   *)
AbandonCall(c) == Refuse(c)

-----------------------------------------------------------------------------
Next ==
  \/ Tick
  \/ \E f \in Feeds, batch \in SnapshotBatches \cup DeltaBatches : BeginUpdate(f, batch)
  \/ \E u \in updates : ProcessUpdate(u) \/ AbandonUpdate(u)
  \/ \E id \in Calls, op \in {"accept", "reject", "reserve"}, org \in Orgs, o \in Offers :
       \E arg \in CallArgs(op) : BeginCall(id, op, org, o, arg)
  \/ \E c \in calls : Accept(c) \/ Reject(c) \/ Reserve(c) \/ AbandonCall(c)

Spec == Init /\ [][Next]_vars
-----------------------------------------------------------------------------
(* Properties                                                              *)

(* What the timeline says of the instant t.                                *)
CoverAt(timeline, t) ==
  { <<e.target, e.version, e.reserved>> : e \in { e \in timeline : Covers(e, t) } }

(* No call in flight works with a time before Past: nothing may change at  *)
(* the instants before it.                                                 *)
Settled(t) == t < clock /\ \A c \in calls \cup updates : t < c.now

(* While a reservation runs it is the only thing on the timeline: nobody   *)
(* else can see the offer at any instant, now or later, that a reservation *)
(* covers.  persistentoffermodel.ts:416-418, "if there's an active         *)
(* reservation, there will be exactly one timeline entry at the current    *)
(* instant", and 583-585.                                                  *)
ReservationAlone ==
  \A o \in Offers : \A e, d \in store[o].timeline :
    \A t \in Time :
      t >= clock /\ e.reserved /\ Covers(e, t) /\ Covers(d, t) => d = e

(* An organization that rejected an offer is never listed again, whatever  *)
(* feeds, reservations and late calls do to the offer afterwards           *)
(* (persistentoffermodel.ts:534-535).                                      *)
RejectedUnlisted ==
  \A o \in Offers : \A e \in store[o].timeline :
    e.target \in store[o].rejected => e.end <= clock

(* Who the offer is for, as long as nobody has taken it.                   *)
Audience(o) == IF o \in OwnOffers THEN Orgs \ store[o].rejected ELSE {Host}

Live(o, t) == \A v \in Versions : t < Expiration[o][v]

(* An offer that some corpus publishes and nobody accepted is never lost:  *)
(* at every instant until it expires each organization of its audience     *)
(* sees it, unless another organization holds it reserved just then.  A    *)
(* listing cut off for a reservation resumes when the reservation ends,    *)
(* whatever calls and updates come in between.                             *)
AvailableUntilTaken ==
  \A o \in Offers : store[o].accepted = {} /\ Published(store[o].corpus) # {} =>
    \A t \in Time : t >= clock /\ Live(o, t) =>
      \A org \in Audience(o) :
        \/ VersionsSeen(store[o].timeline, org, t) # {}
        \/ \E e \in store[o].timeline : e.reserved /\ e.target # org /\ Covers(e, t)

(* An offer that no corpus publishes any more is listed to nobody.         *)
WithdrawnUnlisted ==
  \A o \in Offers : Published(store[o].corpus) = {} =>
    \A e \in store[o].timeline : e.end <= clock

(* Nobody is shown a version older than one that some corpus publishes.    *)
ListingNotStale ==
  \A o \in Offers : \A e \in store[o].timeline : e.end > clock =>
    \A v \in Published(store[o].corpus) : v <= e.version

(* The timeline is a history as well: no step changes who saw which        *)
(* version at an instant before the present of every call in flight, as    *)
(* long as the version has not expired.                                    *)
HistoryFixed ==
  [][\A o \in Offers : \A t \in Time : Settled(t) =>
       \A target \in Targets, v \in Versions, r \in BOOLEAN :
         clock < Expiration[o][v] =>
           (<<target, v, r>> \in CoverAt(store[o].timeline, t)
              <=> <<target, v, r>> \in CoverAt(store'[o].timeline, t))]_vars

(* A running reservation is cut short only by its holder (accepting,       *)
(* rejecting or reserving again), by a feed that was the only one to       *)
(* publish the offer and drops it, or because a version expires: other     *)
(* organizations and new versions of the offer leave it alone.             *)
Dropped(u, o) ==
  /\ u.batch.clear \/ u.batch.op[o].kind = "remove"
  /\ Published([store[o].corpus EXCEPT ![u.feed] = NoVersion]) = {}

ReservationKept ==
  [][\A o \in Offers : \A e \in store[o].timeline :
       e.reserved /\ Covers(e, clock) =>
         \/ \A t \in Time : t >= clock /\ Covers(e, t) /\ Live(o, t) =>
              \E d \in store'[o].timeline :
                d.reserved /\ d.target = e.target /\ Covers(d, t)
         \/ \E c \in calls \ calls' : c.org = e.target /\ c.offer = o
         \/ \E u \in updates \ updates' : Dropped(u, o)]_vars

(* A reserve that succeeds gives the caller what it answers: until the     *)
(* reservationExpirationUTC of the answer, or until the offer expires, the *)
(* offer is the caller's alone (standards/transfer_api.md:640).            *)
ReserveHolds ==
  [][\A c \in calls \ calls' : c.op = "reserve" /\ store' # store =>
       \A t \in Time :
         /\ c.now <= t /\ t < ReservationEnd(c.offer, c.arg, c.now)
         /\ Live(c.offer, t)
         => \E e \in store'[c.offer].timeline :
              e.reserved /\ e.target = c.org /\ Covers(e, t)]_vars

(* An accepted version comes off the market, and only a feed may put it    *)
(* back: no reserve or reject of another organization lists it again       *)
(* (standards/transfer_api.md:575).                                        *)
AcceptedStaysOff ==
  [][updates' = updates =>
       \A o \in Offers : \A a \in store'[o].accepted : \A t \in Time :
         /\ t >= clock
         /\ \E e \in store'[o].timeline : e.version = a.version /\ Covers(e, t)
         => /\ a \in store[o].accepted
            /\ \E e \in store[o].timeline : e.version = a.version /\ Covers(e, t)]_vars
=============================================================================
