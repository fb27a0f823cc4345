------------------------ MODULE SqlOfferModelProofs ------------------------
(***************************************************************************)
(* Proofs about SqlOfferModel: type correctness for every policy, what an  *)
(* update, a rejection or a reservation leaves of a timeline and what it   *)
(* adds to it, and from that what is listed, to whom, under which chain,   *)
(* and that the past stays as it was.                                      *)
(***************************************************************************)
EXTENDS SqlOfferModel, WellFoundedInduction, TLAPS

LEMMA MinExists ==
  ASSUME NEW S \in SUBSET Nat, S # {}
  PROVE  \E m \in S : \A x \in S : m <= x
<1>1. \E m \in S : \A y \in S : ~(<<y, m>> \in OpToRel(<, Nat))
  BY NatLessThanWellFounded, WFMin
<1>2. PICK m \in S : \A y \in S : ~(<<y, m>> \in OpToRel(<, Nat))
  BY <1>1
<1>3. \A y \in S : ~(y < m)
  BY <1>2 DEF OpToRel
<1> QED BY <1>3

LEMMA Numbers ==
  /\ Versions \subseteq Nat \ {NoVersion} /\ Time \subseteq Nat
  /\ 0 .. Horizon \subseteq Time /\ MaxTime \in Nat /\ Horizon \in Nat
  BY ConstantsAssumption DEF Time, NoVersion

LEMMA EntryIs ==
  ASSUME NEW e \in Entry
  PROVE  /\ e.target \in Targets /\ e.version \in Versions /\ e.start \in Time
         /\ e.end \in Nat /\ e.kind \in {"listing", "reservation", "rejection"}
         /\ e.chain \in Seq(Orgs \cup {Host})
         /\ e.kind = "reservation" => e.end \in Time
         /\ e.start \in Nat /\ e.version \in Nat
  BY Numbers DEF Entry

LEMMA FirstListingTimeType ==
  ASSUME NEW timeline \in SUBSET Entry, NEW now \in Time
  PROVE  FirstListingTime(timeline, now) \in Time
<1>1. CASE timeline = {}
  BY <1>1 DEF FirstListingTime
<1>2. CASE timeline # {}
  <2> DEFINE starts == { e.start : e \in timeline }
  <2>1. starts \subseteq Time
    BY EntryIs
  <2>2. starts \in SUBSET Nat /\ starts # {}
    BY <1>2, <2>1, Numbers
  <2>3. \E m \in starts : \A x \in starts : m <= x
    BY <2>2, MinExists
  <2>4. \E s \in starts : \A e \in timeline : s <= e.start
    BY <2>3
  <2>5. FirstListingTime(timeline, now) \in starts
    BY <1>2, <2>4 DEF FirstListingTime
  <2> QED BY <2>1, <2>5
<1> QED BY <1>1, <1>2

-----------------------------------------------------------------------------
(* What is left of a timeline                                              *)

(* The entry e is what is left of d: all of it, or a part that ends now.   *)
LeftOf(e, d, now) ==
  \/ e = d /\ ~ IsLive(d, now)
  \/ e = [d EXCEPT !.end = now] /\ IsLive(d, now) /\ d.start < now

LEMMA CutLiveShape ==
  ASSUME NEW timeline, NEW now, NEW e \in CutLive(timeline, now)
  PROVE  \E d \in timeline : LeftOf(e, d, now)
  BY DEF CutLive, LeftOf

LEMMA DeleteFutureShape ==
  ASSUME NEW timeline, NEW now, NEW e \in DeleteFuture(timeline, now)
  PROVE  e.start <= now /\ \E d \in timeline : LeftOf(e, d, now)
  BY CutLiveShape DEF DeleteFuture

(* What is left is an entry like the one it is left of, and never runs     *)
(* now, unless it is a rejection.                                          *)
LEMMA LeftOfShape ==
  ASSUME NEW d \in Entry, NEW now \in Time, NEW e, LeftOf(e, d, now)
  PROVE  /\ e \in Entry
         /\ e.target = d.target /\ e.version = d.version /\ e.start = d.start
         /\ e.kind = d.kind /\ e.chain = d.chain /\ e.end <= d.end
         /\ ~ IsRejection(e) => e.end <= now \/ now < e.start
         /\ IsRejection(d) => e = d
<1>1. now \in Nat /\ d.end \in Nat /\ d.start \in Nat
  BY Numbers, EntryIs
<1>2. CASE e = d /\ ~ IsLive(d, now)
  BY <1>1, <1>2 DEF IsLive, Covers
<1>3. CASE e = [d EXCEPT !.end = now] /\ IsLive(d, now) /\ d.start < now
  <2>1. e \in Entry
    BY <1>3, Numbers DEF Entry
  <2>2. /\ e.target = d.target /\ e.version = d.version /\ e.start = d.start
        /\ e.kind = d.kind /\ e.chain = d.chain /\ e.end = now
    BY <1>3 DEF Entry
  <2>3. ~ IsRejection(d) /\ now < d.end
    BY <1>3 DEF IsLive, Covers
  <2> QED BY <1>1, <2>1, <2>2, <2>3 DEF IsRejection
<1> QED BY <1>2, <1>3 DEF LeftOf

-----------------------------------------------------------------------------
(* What is added to a timeline                                             *)

Span == [start : Time, end : Nat]

(* The parts of a span that begins now outside one that begins now too.    *)
LEMMA OpenPartsShape ==
  ASSUME NEW now \in Time, NEW end \in Nat, now < end,
         NEW held, \A h \in held : h.start = now /\ h.end \in Time /\ now < h.end,
         NEW i \in OpenParts([start |-> now, end |-> end], held)
  PROVE  /\ i.start \in Time /\ i.end \in Nat /\ now <= i.start /\ i.start < i.end
         /\ i.end = end
         /\ held = {} => i.start = now
         /\ held # {} => \E h \in held : i.start = h.end
<1>1. now \in Nat /\ \A h \in held : h.end \in Nat
  BY Numbers
<1>2. CASE held = {}
  <2>1. i = [start |-> now, end |-> end]
    BY <1>2 DEF OpenParts, Subtract
  <2> QED BY <1>1, <1>2, <2>1
<1>3. CASE held # {}
  <2>1. PICK h \in held :
          i \in Between(Lesser(now, h.start), Lesser(end, h.start))
                \cup Between(Greater(now, h.end), Greater(end, h.end))
    BY <1>3 DEF OpenParts, Subtract
  <2>2. Between(Lesser(now, h.start), Lesser(end, h.start)) = {}
    BY <1>1 DEF Between, Lesser
  <2>3. Greater(now, h.end) = h.end /\ Greater(end, h.end) \in {end, h.end}
    BY <1>1 DEF Greater
  <2>4. i = [start |-> h.end, end |-> end]
    BY <1>1, <2>1, <2>2, <2>3 DEF Between
  <2>5. h.end < end
    BY <1>1, <2>1, <2>2, <2>3 DEF Between
  <2> QED BY <1>1, <1>3, <2>4, <2>5
<1> QED BY <1>2, <1>3

LEMMA MakeEntryIs ==
  ASSUME NEW target, NEW v, NEW i, NEW kind, NEW chain
  PROVE  LET e == MakeEntry(target, v, i, kind, chain) IN
         /\ e.target = target /\ e.version = v /\ e.start = i.start /\ e.end = i.end
         /\ e.kind = kind /\ e.chain = chain
BY DEF MakeEntry

LEMMA MakeEntryType ==
  ASSUME NEW target \in Targets, NEW v \in Versions, NEW i,
         i.start \in Time, i.end \in Nat, NEW chain \in Seq(Orgs \cup {Host}),
         NEW kind \in {"listing", "reservation", "rejection"},
         kind = "reservation" => i.end \in Time
  PROVE  MakeEntry(target, v, i, kind, chain) \in Entry
BY DEF MakeEntry, Entry

(* The reservation that runs, if any.                                      *)
IsCurrent(reservation, now) ==
  /\ reservation \subseteq Entry
  /\ \A q, r \in reservation : q = r
  /\ \A r \in reservation : r.kind = "reservation" /\ Covers(r, now)

LEMMA HeldShape ==
  ASSUME NEW v \in Versions, NEW listings \in Seq(Listing), NEW now \in Time,
         NEW reservation, IsCurrent(reservation, now),
         NEW e \in HeldEntries(v, listings, reservation, now)
  PROVE  /\ e \in Entry /\ e.version = v /\ e.start = now /\ now < e.end /\ e.end \in Time
         /\ e.kind = "reservation" /\ e.chain = <<>>
         /\ \E r \in reservation, k \in LiveListings(listings, now) :
              /\ r.target = listings[k].org /\ e.target = r.target
              /\ e.end = Lesser(r.end, listings[k].end)
<1>1. PICK r \in reservation, k \in LiveListings(listings, now) :
        /\ \E q \in reservation : q.target = listings[k].org
        /\ e = MakeEntry(r.target, v, [start |-> now, end |-> Lesser(r.end, listings[k].end)],
                         "reservation", <<>>)
  BY DEF HeldEntries
<1> DEFINE i == [start |-> now, end |-> Lesser(r.end, listings[k].end)]
<1>2. r \in Entry /\ r.kind = "reservation" /\ now < r.end /\ r.target = listings[k].org
  BY <1>1 DEF IsCurrent, Covers
<1>3. r.end \in Time /\ r.end \in Nat /\ r.target \in Targets
  BY <1>2, EntryIs
<1>4. listings[k] \in Listing /\ now < listings[k].end
  BY DEF LiveListings
<1>5. listings[k].end \in Nat
  BY <1>4 DEF Listing
<1>6. Lesser(r.end, listings[k].end) \in Time /\ now < Lesser(r.end, listings[k].end)
  BY <1>2, <1>3, <1>4, <1>5, Numbers DEF Lesser, Time
<1>7. i.start = now /\ i.end = Lesser(r.end, listings[k].end) /\ <<>> \in Seq(Orgs \cup {Host})
  OBVIOUS
<1>8. i.start \in Time /\ i.end \in Nat /\ i.end \in Time
  BY <1>6, <1>7, Numbers
<1>9. e = MakeEntry(r.target, v, i, "reservation", <<>>)
  BY <1>1
<1> HIDE DEF i
<1>10. e \in Entry
  BY <1>3, <1>7, <1>8, <1>9, MakeEntryType
<1>11. /\ e.target = r.target /\ e.version = v /\ e.start = now
       /\ e.end = Lesser(r.end, listings[k].end)
       /\ e.kind = "reservation" /\ e.chain = <<>>
  BY <1>7, <1>9, MakeEntryIs
<1> QED BY <1>2, <1>6, <1>10, <1>11

(* There is one reservation at most, so it is carried on by one entry.     *)
LEMMA HeldOnce ==
  ASSUME NEW v \in Versions, NEW listings \in Seq(Listing), NEW now \in Time,
         NEW reservation, IsCurrent(reservation, now),
         NEW d \in HeldEntries(v, listings, reservation, now),
         NEW e \in HeldEntries(v, listings, reservation, now)
  PROVE  d = e
<1> DEFINE holds == { k \in LiveListings(listings, now) :
                        \E r \in reservation : r.target = listings[k].org }
           first == { k \in holds : \A j \in holds : k <= j }
           Carried(r, k) ==
             MakeEntry(r.target, v, [start |-> now, end |-> Lesser(r.end, listings[k].end)],
                       "reservation", <<>>)
<1>1. HeldEntries(v, listings, reservation, now) = { Carried(r, k) : r \in reservation, k \in first }
  BY DEF HeldEntries
<1>3. ASSUME NEW k \in first, NEW l \in first PROVE k = l
  <2>1. k \in Nat /\ l \in Nat
    BY DEF LiveListings
  <2>2. k <= l /\ l <= k
    OBVIOUS
  <2> QED BY <2>1, <2>2
<1>4. \A q, r \in reservation : q = r
  BY DEF IsCurrent
<1> HIDE DEF first, Carried
<1>2. /\ \E r \in reservation, k \in first : d = Carried(r, k)
      /\ \E r \in reservation, k \in first : e = Carried(r, k)
  BY <1>1
<1> QED BY <1>2, <1>3, <1>4

(* What the listings make: entries of this version that begin now or later *)
(* for organizations that the policy lists.                                *)
LEMMA ListedShape ==
  ASSUME NEW o \in Offers, NEW v \in Versions, NEW listings \in Seq(Listing),
         NEW now \in Time, NEW reservation, IsCurrent(reservation, now),
         NEW root \in Seq(Orgs),
         NEW e \in ListedEntries(o, v, listings, reservation, root, now)
  PROVE  /\ e \in Entry /\ e.version = v /\ now <= e.start /\ e.start < e.end
         /\ \E k \in LiveListings(listings, now) : e.target = listings[k].org
         /\ \/ e \in HeldEntries(v, listings, reservation, now)
            \/ /\ e.kind = "listing"
               /\ e.chain = IF Own(o) THEN <<>> ELSE Append(root, Host)
<1> DEFINE held == HeldEntries(v, listings, reservation, now)
           chain == IF Own(o) THEN <<>> ELSE Append(root, Host)
<1>1. CASE e \in held
  <2>1. now \in Nat
    BY Numbers
  <2> QED BY <1>1, <2>1, HeldShape
<1>2. CASE e \notin held
  <2>1. PICK k \in LiveListings(listings, now) :
          \E i \in OpenParts([start |-> now, end |-> listings[k].end], held) :
            e = MakeEntry(listings[k].org, v, i, "listing", chain)
    BY <1>2 DEF ListedEntries
  <2>2. PICK i \in OpenParts([start |-> now, end |-> listings[k].end], held) :
          e = MakeEntry(listings[k].org, v, i, "listing", chain)
    BY <2>1
  <2>3. listings[k] \in Listing /\ now < listings[k].end
    BY DEF LiveListings
  <2>4. listings[k].org \in Targets /\ listings[k].end \in Nat
    BY <2>3 DEF Listing
  <2>5. chain \in Seq(Orgs \cup {Host})
    <3>1. Append(root, Host) \in Seq(Orgs \cup {Host})
      OBVIOUS
    <3> QED BY <3>1
  <2>6. \A h \in held : h.start = now /\ h.end \in Time /\ now < h.end
    BY HeldShape
  <2> HIDE DEF held, chain
  <2>7. i.start \in Time /\ i.end \in Nat /\ now <= i.start /\ i.start < i.end
    BY <2>3, <2>4, <2>6, OpenPartsShape
  <2>8. e \in Entry
    BY <2>2, <2>4, <2>5, <2>7, MakeEntryType
  <2>9. /\ e.target = listings[k].org /\ e.version = v /\ e.start = i.start
        /\ e.end = i.end /\ e.kind = "listing" /\ e.chain = chain
    BY <2>2, MakeEntryIs
  <2> QED BY <2>7, <2>8, <2>9 DEF chain
<1> QED BY <1>1, <1>2

LEMMA RowsAre ==
  ASSUME NEW rows \in OfferRows
  PROVE  /\ rows.timeline \subseteq Entry /\ rows.sent \subseteq Sent
         /\ rows.corpus \in [Producers -> Versions \cup {NoVersion}]
         /\ rows.accepted \subseteq Acceptance
BY DEF OfferRows

LEMMA CurrentReservationsShape ==
  ASSUME NEW timeline \in SUBSET Entry, NEW now,
         NEW reservation \in CurrentReservations(timeline, now)
  PROVE  IsCurrent(reservation, now) /\ reservation \subseteq timeline
BY DEF CurrentReservations, IsCurrent

(* A chain of a version came with that version.                            *)
LEMMA ChainsOfShape ==
  ASSUME NEW rows \in OfferRows, NEW v, NEW c \in ChainsOf(rows, v)
  PROVE  /\ c \in Chain /\ c.by \in Seq(Orgs)
         /\ \E s \in rows.sent : s.version = v /\ s.chain = c
<1>1. PICK s \in rows.sent : s.version = v /\ s.chain = c
  BY DEF ChainsOf
<1>2. s \in Sent
  BY RowsAre
<1>3. c \in Chains \cup {NoChain}
  BY <1>1, <1>2 DEF Sent
<1>4. NoChain \in Chain
  BY DEF NoChain, Chain
<1>5. c \in Chain
  BY <1>3, <1>4, ConstantsAssumption
<1> QED BY <1>1, <1>5 DEF Chain

(* The chain that others get an offer under gave leave to reshare this     *)
(* version, and whoever it went through counts as having had it.           *)
LEMMA RootChainsShape ==
  ASSUME NEW o \in Offers, NEW v, NEW rows \in OfferRows, NEW root \in RootChains(o, v, rows)
  PROVE  /\ root \in Seq(Orgs)
         /\ ~ Own(o) =>
              /\ \E s \in rows.sent : s.version = v /\ s.chain.reshare /\ root = s.chain.by
              /\ \A i \in DOMAIN root : root[i] \in SharedBy(o, v, rows)
<1>1. CASE Own(o)
  BY <1>1 DEF RootChains
<1>2. CASE ~ Own(o)
  <2>1. PICK c \in ChainsOf(rows, v) : c.reshare /\ root = c.by
    BY <1>2 DEF RootChains, Shortest
  <2>2. c.by \in Seq(Orgs) /\ \E s \in rows.sent : s.version = v /\ s.chain = c
    BY ChainsOfShape
  <2>3. \A i \in DOMAIN root : root[i] \in SharedBy(o, v, rows)
    BY <2>1 DEF SharedBy
  <2> QED BY <2>1, <2>2, <2>3
<1> QED BY <1>1, <1>2

LEMMA LocalShape ==
  ASSUME NEW o \in Offers, NEW v \in Versions, NEW rows \in OfferRows, NEW now \in Time,
         NEW local \in LocalEntries(o, v, rows, now)
  PROVE  /\ Own(o) => local = {}
         /\ \A d, e \in local : d = e
         /\ \A e \in local : /\ e \in Entry /\ e.target = Host /\ e.version = v
                             /\ e.kind = "listing" /\ e.start = now
<1>1. CASE local = {}
  BY <1>1
<1>2. CASE local # {}
  <2>1. ~ Own(o)
    BY <1>2 DEF LocalEntries
  <2>2. PICK c \in ChainsOf(rows, v) :
          local = { MakeEntry(Host, v, [start |-> now, end |-> Expiration[o][v]],
                              "listing", c.by) }
    BY <1>2, <2>1 DEF LocalEntries, Shortest
  <2> DEFINE i == [start |-> now, end |-> Expiration[o][v]]
  <2>3. i.start = now /\ i.start \in Time /\ i.end \in Nat
    BY ConstantsAssumption
  <2>4. c.by \in Seq(Orgs \cup {Host}) /\ Host \in Targets
    <3>1. c.by \in Seq(Orgs)
      BY ChainsOfShape
    <3>2. Seq(Orgs) \subseteq Seq(Orgs \cup {Host})
      OBVIOUS
    <3> QED BY <3>1, <3>2 DEF Targets
  <2>5. \A e \in local : e = MakeEntry(Host, v, i, "listing", c.by)
    BY <2>2
  <2> HIDE DEF i
  <2>6. MakeEntry(Host, v, i, "listing", c.by) \in Entry
    BY <2>3, <2>4, MakeEntryType
  <2> QED BY <2>1, <2>3, <2>5, <2>6, MakeEntryIs
<1> QED BY <1>1, <1>2

-----------------------------------------------------------------------------
(* Relisting                                                               *)

(* What the policy is asked when an offer is relisted.                     *)
PolicyListings(o, v, rows, now) ==
  Listings(o, v, FirstListingTime(rows.timeline, now), now,
           Rejections(rows.timeline, now), SharedBy(o, v, rows))

LEMMA PolicyIsAsked ==
  ASSUME NEW o \in Offers, NEW v \in Versions, NEW rows \in OfferRows, NEW now \in 0 .. Horizon
  PROVE  /\ FirstListingTime(rows.timeline, now) \in Time
         /\ Rejections(rows.timeline, now) \in SUBSET Targets
         /\ SharedBy(o, v, rows) \in SUBSET Targets
         /\ PolicyListings(o, v, rows, now) \in Seq(Listing)
<1>1. now \in Time /\ rows.timeline \in SUBSET Entry
  BY Numbers, RowsAre
<1>2. FirstListingTime(rows.timeline, now) \in Time
  BY <1>1, FirstListingTimeType
<1>3. Rejections(rows.timeline, now) \in SUBSET Targets
  BY <1>1, EntryIs DEF Rejections
<1>4. SharedBy(o, v, rows) \in SUBSET Targets
  <2>1. OfferedBy[o] \in Targets
    BY ConstantsAssumption DEF Targets
  <2>2. ASSUME NEW c \in ChainsOf(rows, v), NEW i \in DOMAIN c.by PROVE c.by[i] \in Targets
    <3>1. c.by \in Seq(Orgs)
      BY ChainsOfShape
    <3>2. c.by[i] \in Orgs
      BY <3>1
    <3> QED BY <3>2 DEF Targets
  <2> QED BY <2>1, <2>2 DEF SharedBy
<1> QED BY <1>2, <1>3, <1>4, PolicyAssumption DEF PolicyListings

LEMMA RemoteShape ==
  ASSUME NEW o \in Offers, NEW v \in Versions, NEW rows \in OfferRows, NEW now \in 0 .. Horizon,
         NEW remote \in RemoteEntries(o, v, rows, now), remote # {}
  PROVE  \E root \in RootChains(o, v, rows),
            reservation \in CurrentReservations(rows.timeline, now) :
           remote = ListedEntries(o, v, PolicyListings(o, v, rows, now), reservation, root, now)
BY DEF RemoteEntries, PolicyListings

(* An entry carries a reservation on or lists the offer under a chain that *)
(* it may be passed on under.                                              *)
CarriesOn(e, rows) ==
  /\ e.kind = "reservation"
  /\ \E r \in rows.timeline : r.kind = "reservation" /\ r.target = e.target

PassesOn(e, o, v, rows) ==
  /\ e.kind = "listing"
  /\ \E root \in RootChains(o, v, rows) :
       e.chain = IF Own(o) THEN <<>> ELSE Append(root, Host)

(* A member of what is relisted from the policy.                           *)
LEMMA RemoteMember ==
  ASSUME NEW o \in Offers, NEW v \in Versions, NEW rows \in OfferRows, NEW now \in 0 .. Horizon,
         NEW remote \in RemoteEntries(o, v, rows, now), NEW e \in remote
  PROVE  /\ e \in Entry /\ e.version = v /\ now <= e.start /\ e.start < e.end
         /\ \E k \in DOMAIN PolicyListings(o, v, rows, now) :
              e.target = PolicyListings(o, v, rows, now)[k].org
         /\ CarriesOn(e, rows) \/ PassesOn(e, o, v, rows)
<1> DEFINE listings == PolicyListings(o, v, rows, now)
<1>1. PICK root \in RootChains(o, v, rows),
           reservation \in CurrentReservations(rows.timeline, now) :
        remote = ListedEntries(o, v, listings, reservation, root, now)
  BY RemoteShape
<1>2. now \in Time /\ rows.timeline \in SUBSET Entry
  BY Numbers, RowsAre
<1>3. IsCurrent(reservation, now) /\ reservation \subseteq rows.timeline
  BY <1>2, CurrentReservationsShape
<1>4. root \in Seq(Orgs) /\ listings \in Seq(Listing)
  BY RootChainsShape, PolicyIsAsked
<1> HIDE DEF listings
<1>5. e \in ListedEntries(o, v, listings, reservation, root, now)
  BY <1>1
<1>6. /\ e \in Entry /\ e.version = v /\ now <= e.start /\ e.start < e.end
      /\ \E k \in LiveListings(listings, now) : e.target = listings[k].org
      /\ \/ e \in HeldEntries(v, listings, reservation, now)
         \/ /\ e.kind = "listing"
            /\ e.chain = IF Own(o) THEN <<>> ELSE Append(root, Host)
  BY <1>2, <1>3, <1>4, <1>5, ListedShape
<1>7. \E k \in DOMAIN listings : e.target = listings[k].org
  BY <1>6 DEF LiveListings
<1>8. CASE e \in HeldEntries(v, listings, reservation, now)
  <2>1. e.kind = "reservation" /\ \E r \in reservation : e.target = r.target
    BY <1>2, <1>3, <1>4, <1>8, HeldShape
  <2>2. CarriesOn(e, rows)
    BY <1>3, <2>1 DEF IsCurrent, CarriesOn
  <2> QED BY <1>6, <1>7, <2>2 DEF listings
<1>9. CASE e \notin HeldEntries(v, listings, reservation, now)
  <2>1. PassesOn(e, o, v, rows)
    BY <1>6, <1>9 DEF PassesOn
  <2> QED BY <1>6, <1>7, <2>1 DEF listings
<1> QED BY <1>8, <1>9

LEMMA RelistParts ==
  ASSUME NEW o, NEW v, NEW rows \in OfferRows, NEW now, NEW next \in Relist(o, v, rows, now)
  PROVE  /\ next.corpus = rows.corpus /\ next.sent = rows.sent /\ next.accepted = rows.accepted
         /\ \E local \in LocalEntries(o, v, rows, now), remote \in RemoteEntries(o, v, rows, now) :
              /\ next.timeline = DeleteFuture(rows.timeline, now) \cup local \cup remote
              /\ next = [rows EXCEPT !.timeline = next.timeline]
<1>1. PICK local \in LocalEntries(o, v, rows, now), remote \in RemoteEntries(o, v, rows, now) :
        next = [rows EXCEPT !.timeline = DeleteFuture(rows.timeline, now) \cup local \cup remote]
  BY DEF Relist
<1> QED BY <1>1 DEF OfferRows

(* After relisting, what is not a rejection is over or is of the version   *)
(* relisted and begins now or later.                                       *)
LEMMA RelistShape ==
  ASSUME NEW o \in Offers, NEW v \in Versions, NEW rows \in OfferRows, NEW now \in 0 .. Horizon,
         NEW next \in Relist(o, v, rows, now)
  PROVE  /\ next \in OfferRows
         /\ next.corpus = rows.corpus /\ next.sent = rows.sent /\ next.accepted = rows.accepted
         /\ \A e \in next.timeline :
              \/ /\ e.start <= now /\ (~ IsRejection(e) => e.end <= now)
                 /\ \E d \in rows.timeline : LeftOf(e, d, now)
              \/ /\ ~ Own(o) /\ e.target = Host /\ e.version = v /\ e.kind = "listing"
                 /\ e.start = now
              \/ \E remote \in RemoteEntries(o, v, rows, now) : e \in remote
<1>1. PICK local \in LocalEntries(o, v, rows, now), remote \in RemoteEntries(o, v, rows, now) :
        /\ next.timeline = DeleteFuture(rows.timeline, now) \cup local \cup remote
        /\ next = [rows EXCEPT !.timeline = next.timeline]
  BY RelistParts
<1>2. now \in Time /\ now \in Nat /\ rows.timeline \subseteq Entry
  BY Numbers, RowsAre
<1>3. ASSUME NEW e \in DeleteFuture(rows.timeline, now)
      PROVE  /\ e \in Entry /\ e.start <= now /\ (~ IsRejection(e) => e.end <= now)
             /\ \E d \in rows.timeline : LeftOf(e, d, now)
  <2>1. PICK d \in rows.timeline : LeftOf(e, d, now) /\ e.start <= now
    BY DeleteFutureShape
  <2>2. d \in Entry
    BY <1>2
  <2>3. e \in Entry /\ (~ IsRejection(e) => e.end <= now \/ now < e.start)
    BY <1>2, <2>1, <2>2, LeftOfShape
  <2>4. e.start \in Nat
    BY <2>3, EntryIs
  <2> QED BY <1>2, <2>1, <2>3, <2>4
<1>4. \A e \in local : /\ ~ Own(o) /\ e \in Entry /\ e.target = Host /\ e.version = v
                       /\ e.kind = "listing" /\ e.start = now
  BY <1>2, LocalShape
<1>5. \A e \in remote : e \in Entry
  BY RemoteMember
<1>6. next.timeline \subseteq Entry
  BY <1>1, <1>3, <1>4, <1>5
<1>7. next \in OfferRows
  BY <1>1, <1>6 DEF OfferRows
<1>8. next.corpus = rows.corpus /\ next.sent = rows.sent /\ next.accepted = rows.accepted
  BY RelistParts
<1> QED BY <1>1, <1>3, <1>4, <1>7, <1>8

-----------------------------------------------------------------------------
(* Type correctness                                                        *)

LEMMA EntriesForShape ==
  ASSUME NEW timeline, NEW viewer, NEW t, NEW e \in EntriesFor(timeline, viewer, t)
  PROVE  /\ e \in timeline /\ ~ IsRejection(e) /\ Covers(e, t)
         /\ e.target \in {viewer, Wildcard}
BY DEF EntriesFor

LEMMA FiledShape ==
  ASSUME NEW rows \in OfferRows, NEW p \in Producers, NEW news \in News
  PROVE  /\ Filed(rows, p, news) \in OfferRows
         /\ Filed(rows, p, news).timeline = rows.timeline
         /\ Filed(rows, p, news).accepted = rows.accepted
         /\ Filed(rows, p, news).corpus = [rows.corpus EXCEPT ![p] = news.version]
         /\ rows.sent \subseteq Filed(rows, p, news).sent
<1>1. news.version \in Versions \cup {NoVersion} /\ (news # Gone => news \in Sent)
  BY DEF News, Gone, Sent
<1>2. [rows.corpus EXCEPT ![p] = news.version] \in [Producers -> Versions \cup {NoVersion}]
  BY <1>1, RowsAre
<1>3. (IF news = Gone THEN rows.sent ELSE rows.sent \cup {news}) \in SUBSET Sent
  BY <1>1, RowsAre
<1>4. Filed(rows, p, news) =
        [rows EXCEPT !.corpus = [rows.corpus EXCEPT ![p] = news.version],
                     !.sent = IF news = Gone THEN rows.sent ELSE rows.sent \cup {news}]
  BY DEF Filed, OfferRows
<1> QED BY <1>2, <1>3, <1>4 DEF OfferRows

LEMMA NewsVersion ==
  ASSUME NEW news \in News, news # Gone
  PROVE  news.version \in Versions
BY DEF News, Sent

(* An update leaves the timeline, ends it or relists the offer.            *)
LEMMA ReceivedShape ==
  ASSUME NEW o \in Offers, NEW p \in Producers, NEW news \in News, NEW now \in 0 .. Horizon,
         db[o] \in OfferRows, NEW next \in Received(o, p, news, now)
  PROVE  LET rows == Filed(db[o], p, news) IN
         \/ /\ news = Gone /\ db[o].corpus[p] # NoVersion
            /\ next = [rows EXCEPT !.timeline = DeleteFuture(@, now)]
         \/ /\ news.version \in Newest(o, rows, now) /\ news.version \in Versions
            /\ db[o].corpus[p] # news.version
            /\ next \in Relist(o, news.version, rows, now)
         \/ /\ next = rows /\ (news = Gone => db[o].corpus[p] = NoVersion)
            /\ ~ (news.version \in Newest(o, rows, now) /\ db[o].corpus[p] # news.version)
<1>1. \A rows : Newest(o, rows, now) \subseteq Versions
  BY DEF Newest
<1> QED BY <1>1 DEF Received

LEMMA DeleteFutureType ==
  ASSUME NEW timeline \in SUBSET Entry, NEW now \in Time
  PROVE  DeleteFuture(timeline, now) \subseteq Entry
BY DeleteFutureShape, LeftOfShape

LEMMA CutLiveType ==
  ASSUME NEW timeline \in SUBSET Entry, NEW now \in Time
  PROVE  CutLive(timeline, now) \subseteq Entry
BY CutLiveShape, LeftOfShape

LEMMA ReceivedType ==
  ASSUME NEW o \in Offers, NEW p \in Producers, NEW news \in News, NEW now \in 0 .. Horizon,
         db[o] \in OfferRows, NEW next \in Received(o, p, news, now)
  PROVE  next \in OfferRows
<1> DEFINE rows == Filed(db[o], p, news)
<1>1. rows \in OfferRows
  BY FiledShape
<1>2. ASSUME next = [rows EXCEPT !.timeline = DeleteFuture(@, now)] PROVE next \in OfferRows
  <2>1. DeleteFuture(rows.timeline, now) \subseteq Entry
    BY <1>1, Numbers, RowsAre, DeleteFutureType
  <2> HIDE DEF rows
  <2> QED BY <1>1, <1>2, <2>1 DEF OfferRows
<1>3. ASSUME NEW v \in Versions, next \in Relist(o, v, rows, now) PROVE next \in OfferRows
  <2> HIDE DEF rows
  <2> QED BY <1>1, <1>3, RelistShape
<1> QED BY <1>1, <1>2, <1>3, ReceivedShape

(* The rows of an offer that an organization rejects or reserves, before   *)
(* it is relisted.                                                         *)
WithEntry(o, e) == [db[o] EXCEPT !.timeline = @ \cup {e}]

Rejection(o, org, e) ==
  MakeEntry(org, e.version, [start |-> clock, end |-> Expiration[o][e.version]],
            "rejection", <<>>)

Reservation(o, org, e, length) ==
  MakeEntry(org, e.version, [start |-> clock, end |-> ReservationEnd(o, e, length, clock)],
            "reservation", <<>>)

LEMMA WithEntryType ==
  ASSUME NEW o, db[o] \in OfferRows, NEW e \in Entry
  PROVE  /\ WithEntry(o, e) \in OfferRows
         /\ WithEntry(o, e).timeline = db[o].timeline \cup {e}
         /\ WithEntry(o, e).corpus = db[o].corpus
         /\ WithEntry(o, e).sent = db[o].sent
         /\ WithEntry(o, e).accepted = db[o].accepted
BY DEF WithEntry, OfferRows

LEMMA RejectionType ==
  ASSUME TypeOK, NEW o \in Offers, NEW org \in Orgs \cup {Host},
         NEW e \in EntriesFor(db[o].timeline, org, clock)
  PROVE  /\ e.version \in Versions
         /\ Rejection(o, org, e) \in Entry /\ IsRejection(Rejection(o, org, e))
         /\ Rejection(o, org, e).target = org /\ Rejection(o, org, e).start = clock
         /\ Rejection(o, org, e).end = Expiration[o][e.version]
<1>1. e \in Entry /\ clock \in Time /\ org \in Targets
  BY Numbers, RowsAre, EntriesForShape DEF TypeOK, Targets
<1>2. e.version \in Versions /\ Expiration[o][e.version] \in Nat
  BY <1>1, EntryIs, ConstantsAssumption
<1> DEFINE i == [start |-> clock, end |-> Expiration[o][e.version]]
<1>3. /\ i.start \in Time /\ i.end \in Nat /\ i.start = clock
      /\ i.end = Expiration[o][e.version] /\ <<>> \in Seq(Orgs \cup {Host})
  BY <1>1, <1>2
<1>4. Rejection(o, org, e) = MakeEntry(org, e.version, i, "rejection", <<>>)
  BY DEF Rejection
<1> HIDE DEF i
<1>5. Rejection(o, org, e) \in Entry
  BY <1>1, <1>2, <1>3, <1>4, MakeEntryType
<1> QED BY <1>2, <1>3, <1>4, <1>5, MakeEntryIs DEF IsRejection

LEMMA ReservationType ==
  ASSUME TypeOK, NEW o \in Offers, NEW org \in Orgs, NEW length \in Lengths,
         NEW e \in EntriesFor(db[o].timeline, org, clock)
  PROVE  /\ e.version \in Versions
         /\ Reservation(o, org, e, length) \in Entry
         /\ Reservation(o, org, e, length).kind = "reservation"
         /\ Reservation(o, org, e, length).target = org
         /\ Reservation(o, org, e, length).start = clock
         /\ Reservation(o, org, e, length).end = ReservationEnd(o, e, length, clock)
<1>1. e \in Entry /\ clock \in Time /\ clock \in 0 .. Horizon /\ org \in Targets /\ Covers(e, clock)
  BY Numbers, RowsAre, EntriesForShape DEF TypeOK, Targets
<1>2. e.version \in Versions /\ e.end \in Nat /\ clock < e.end
  BY <1>1, EntryIs DEF Covers
<1>3. /\ length \in Nat /\ Horizon + length <= MaxTime /\ MaxReservation[o] \in Nat
      /\ clock \in Nat /\ clock <= Horizon /\ Horizon \in Nat /\ MaxTime \in Nat
  BY <1>1, Numbers, ConstantsAssumption
<1>4. ReservationEnd(o, e, length, clock) \in 0 .. MaxTime
  <2> DEFINE most == IF MaxReservation[o] = 0 THEN length ELSE MaxReservation[o]
             rest == Lesser(Lesser(e.end - clock, length), most)
  <2>1. most \in Nat
    BY <1>3
  <2>2. Lesser(e.end - clock, length) \in 0 .. length
    BY <1>2, <1>3 DEF Lesser
  <2>3. rest \in 0 .. length
    BY <1>3, <2>1, <2>2 DEF Lesser
  <2>4. ReservationEnd(o, e, length, clock) = clock + rest
    BY DEF ReservationEnd
  <2> HIDE DEF rest
  <2> QED BY <1>3, <2>3, <2>4
<1> DEFINE i == [start |-> clock, end |-> ReservationEnd(o, e, length, clock)]
<1>5. /\ i.start \in Time /\ i.end \in Nat /\ i.end \in Time /\ i.start = clock
      /\ i.end = ReservationEnd(o, e, length, clock) /\ <<>> \in Seq(Orgs \cup {Host})
  BY <1>1, <1>4 DEF Time
<1>6. Reservation(o, org, e, length) = MakeEntry(org, e.version, i, "reservation", <<>>)
  BY DEF Reservation
<1> HIDE DEF i
<1>7. Reservation(o, org, e, length) \in Entry
  BY <1>1, <1>2, <1>5, <1>6, MakeEntryType
<1> QED BY <1>2, <1>5, <1>6, <1>7, MakeEntryIs

(* What a step may do to the rows of one offer.                            *)
Updated(o) == \E p \in Producers, news \in News : db'[o] \in Received(o, p, news, clock)

Accepted(o) ==
  /\ Own(o)
  /\ \E org \in Orgs, sharers \in SUBSET Orgs : \E e \in EntriesFor(db[o].timeline, org, clock) :
       db'[o] = [db[o] EXCEPT
                   !.accepted = @ \cup {[version |-> e.version, by |-> org, at |-> clock,
                                         viewers |-> {Host, org} \cup sharers]},
                   !.timeline = CutLive(@, clock)]

Rejected(o) ==
  \E org \in Orgs \cup {Host} : \E e \in EntriesFor(db[o].timeline, org, clock) :
    db'[o] \in Relist(o, e.version, WithEntry(o, Rejection(o, org, e)), clock)

Reserved(o) ==
  /\ Own(o)
  /\ \E org \in Orgs, length \in Lengths : \E e \in EntriesFor(db[o].timeline, org, clock) :
       db'[o] \in Relist(o, e.version, WithEntry(o, Reservation(o, org, e, length)), clock)

LEMMA StepShape ==
  ASSUME TypeOK, [Next]_vars
  PROVE  /\ steps' \in 0 .. MaxSteps /\ clock' \in 0 .. Horizon
         /\ db' = [o \in Offers |-> db'[o]]
         /\ \/ db' = db /\ clock' \in {clock, clock + 1}
            \/ /\ clock' = clock
               /\ \A o \in Offers : \/ db'[o] = db[o]
                                    \/ Updated(o) \/ Accepted(o) \/ Rejected(o) \/ Reserved(o)
<1>0. /\ db = [o \in Offers |-> db[o]] /\ \A o \in Offers : db[o] \in OfferRows
      /\ clock \in 0 .. Horizon /\ steps \in 0 .. MaxSteps /\ MaxSteps \in Nat /\ Horizon \in Nat
  BY Numbers, ConstantsAssumption DEF TypeOK
<1>s. Step => steps' \in 0 .. MaxSteps /\ clock' = clock
  BY <1>0 DEF Step
<1>1. CASE Tick
  BY <1>0, <1>1 DEF Tick
<1>2. ASSUME NEW p \in Producers, NEW source \in Orgs \cup {Host}, ProcessUpdate(p, source)
      PROVE  /\ Step /\ db' = [o \in Offers |-> db'[o]] /\ \A o \in Offers : Updated(o)
  <2>1. /\ Step /\ db' = [o \in Offers |-> db'[o]]
        /\ \A o \in Offers : <<o, db'[o]>> \in Outcomes(p, source)
    BY <1>2 DEF ProcessUpdate
  <2>2. ASSUME NEW o \in Offers PROVE Updated(o)
    <3>1. PICK n \in Offers \X News :
            <<o, db'[o]>> \in {n[1]} \X Received(n[1], p, n[2], clock)
      BY <2>1 DEF Outcomes
    <3>2. n[1] = o /\ n[2] \in News /\ db'[o] \in Received(n[1], p, n[2], clock)
      BY <3>1
    <3> QED BY <3>2 DEF Updated
  <2> QED BY <2>1, <2>2
<1>3. ASSUME NEW o \in Offers, NEW org \in Orgs, NEW v \in Versions \cup {NoVersion},
             NEW sharers \in SUBSET (Orgs \ {org}), Accept(o, org, v, sharers)
      PROVE  /\ Step /\ db' = [q \in Offers |-> db'[q]]
             /\ \A q \in Offers : db'[q] = db[q] \/ Accepted(q)
  <2>1. PICK e \in EntriesFor(db[o].timeline, org, clock) :
          db' = [db EXCEPT
              ![o].accepted = @ \cup {[version |-> e.version, by |-> org, at |-> clock,
                                       viewers |-> {Host, org} \cup sharers]},
              ![o].timeline = CutLive(@, clock)]
    BY <1>3 DEF Accept
  <2>2. Step /\ Own(o)
    BY <1>3 DEF Accept
  <2>3. db'[o] = [db[o] EXCEPT
                    !.accepted = @ \cup {[version |-> e.version, by |-> org, at |-> clock,
                                          viewers |-> {Host, org} \cup sharers]},
                    !.timeline = CutLive(@, clock)]
    BY <1>0, <2>1 DEF OfferRows
  <2>4. Accepted(o)
    BY <2>2, <2>3 DEF Accepted
  <2>5. \A q \in Offers \ {o} : db'[q] = db[q]
    BY <1>0, <2>1
  <2>6. db' = [q \in Offers |-> db'[q]]
    BY <1>0, <2>1
  <2> QED BY <2>2, <2>4, <2>5, <2>6
<1>4. ASSUME NEW o \in Offers, NEW org \in Orgs \cup {Host}, Reject(o, org)
      PROVE  /\ Step /\ db' = [q \in Offers |-> db'[q]]
             /\ \A q \in Offers : db'[q] = db[q] \/ Rejected(q)
  <2>1. PICK e \in EntriesFor(db[o].timeline, org, clock) :
          \E rows \in Relist(o, e.version, WithEntry(o, Rejection(o, org, e)), clock) :
            db' = [db EXCEPT ![o] = rows]
    BY <1>4 DEF Reject, WithEntry, Rejection
  <2>2. PICK rows \in Relist(o, e.version, WithEntry(o, Rejection(o, org, e)), clock) :
          db' = [db EXCEPT ![o] = rows]
    BY <2>1
  <2>3. db'[o] = rows /\ (\A q \in Offers \ {o} : db'[q] = db[q]) /\ db' = [q \in Offers |-> db'[q]]
    BY <1>0, <2>2
  <2> QED BY <1>4, <2>2, <2>3 DEF Reject, Rejected
<1>5. ASSUME NEW o \in Offers, NEW org \in Orgs, NEW length \in Lengths, Reserve(o, org, length)
      PROVE  /\ Step /\ db' = [q \in Offers |-> db'[q]]
             /\ \A q \in Offers : db'[q] = db[q] \/ Reserved(q)
  <2>1. PICK e \in EntriesFor(db[o].timeline, org, clock) :
          \E rows \in Relist(o, e.version, WithEntry(o, Reservation(o, org, e, length)), clock) :
            db' = [db EXCEPT ![o] = rows]
    BY <1>5 DEF Reserve, WithEntry, Reservation
  <2>2. PICK rows \in Relist(o, e.version, WithEntry(o, Reservation(o, org, e, length)), clock) :
          db' = [db EXCEPT ![o] = rows]
    BY <2>1
  <2>3. db'[o] = rows /\ (\A q \in Offers \ {o} : db'[q] = db[q]) /\ db' = [q \in Offers |-> db'[q]]
    BY <1>0, <2>2
  <2> QED BY <1>5, <2>2, <2>3 DEF Reserve, Reserved
<1>6. CASE UNCHANGED vars
  BY <1>0, <1>6 DEF vars
<1> QED BY <1>0, <1>s, <1>1, <1>2, <1>3, <1>4, <1>5, <1>6 DEF Next

LEMMA TypeStep ==
  ASSUME TypeOK, [Next]_vars
  PROVE  TypeOK'
<1>1. \A o \in Offers : db[o] \in OfferRows /\ clock \in 0 .. Horizon
  BY DEF TypeOK
<1>2. ASSUME NEW o \in Offers, Updated(o) PROVE db'[o] \in OfferRows
  BY <1>1, <1>2, ReceivedType DEF Updated
<1>3. ASSUME NEW o \in Offers, Accepted(o) PROVE db'[o] \in OfferRows
  <2>0. PICK org \in Orgs, sharers \in SUBSET Orgs :
          \E e \in EntriesFor(db[o].timeline, org, clock) :
            db'[o] = [db[o] EXCEPT
                        !.accepted = @ \cup {[version |-> e.version, by |-> org, at |-> clock,
                                              viewers |-> {Host, org} \cup sharers]},
                        !.timeline = CutLive(@, clock)]
    BY <1>3 DEF Accepted
  <2>1. PICK e \in EntriesFor(db[o].timeline, org, clock) :
          db'[o] = [db[o] EXCEPT
                      !.accepted = @ \cup {[version |-> e.version, by |-> org, at |-> clock,
                                            viewers |-> {Host, org} \cup sharers]},
                      !.timeline = CutLive(@, clock)]
    BY <2>0
  <2>2. clock \in Time /\ e \in Entry
    BY <1>1, Numbers, RowsAre, EntriesForShape
  <2>3. [version |-> e.version, by |-> org, at |-> clock,
         viewers |-> {Host, org} \cup sharers] \in Acceptance
    BY <2>2, EntryIs DEF Acceptance
  <2>4. CutLive(db[o].timeline, clock) \subseteq Entry
    BY <1>1, <2>2, RowsAre, CutLiveType
  <2>5. db[o].accepted \cup {[version |-> e.version, by |-> org, at |-> clock,
                              viewers |-> {Host, org} \cup sharers]} \in SUBSET Acceptance
    BY <1>1, <2>3, RowsAre
  <2> QED BY <1>1, <2>1, <2>4, <2>5 DEF OfferRows
<1>4. ASSUME NEW o \in Offers, Rejected(o) PROVE db'[o] \in OfferRows
  <2>0. PICK org \in Orgs \cup {Host} : \E e \in EntriesFor(db[o].timeline, org, clock) :
          db'[o] \in Relist(o, e.version, WithEntry(o, Rejection(o, org, e)), clock)
    BY <1>4 DEF Rejected
  <2>1. PICK e \in EntriesFor(db[o].timeline, org, clock) :
          db'[o] \in Relist(o, e.version, WithEntry(o, Rejection(o, org, e)), clock)
    BY <2>0
  <2> QED BY <1>1, <2>1, RejectionType, WithEntryType, RelistShape
<1>5. ASSUME NEW o \in Offers, Reserved(o) PROVE db'[o] \in OfferRows
  <2>0. PICK org \in Orgs, length \in Lengths : \E e \in EntriesFor(db[o].timeline, org, clock) :
          db'[o] \in Relist(o, e.version, WithEntry(o, Reservation(o, org, e, length)), clock)
    BY <1>5 DEF Reserved
  <2>1. PICK e \in EntriesFor(db[o].timeline, org, clock) :
          db'[o] \in Relist(o, e.version, WithEntry(o, Reservation(o, org, e, length)), clock)
    BY <2>0
  <2> QED BY <1>1, <2>1, ReservationType, WithEntryType, RelistShape
<1>6. \A o \in Offers : db'[o] \in OfferRows
  BY <1>1, <1>2, <1>3, <1>4, <1>5, StepShape
<1> QED BY <1>6, StepShape DEF TypeOK

LEMMA TypeInit == Init => TypeOK
  BY Numbers, ConstantsAssumption DEF Init, TypeOK, OfferRows

(* Every reachable state is well typed, whatever the listing policy lists: *)
(* no entry ends before time begins, a reservation ends within its bound,  *)
(* and acceptances and chains are of versions that were sent.              *)
THEOREM SqlModelTypeCorrect == Spec => []TypeOK
<1>1. TypeOK /\ [Next]_vars => TypeOK'
  BY TypeStep
<1> QED BY <1>1, TypeInit, PTL DEF Spec

-----------------------------------------------------------------------------
(* What a step does to a timeline                                          *)

(* A rejection or reservation that an organization asks for now.           *)
Asked(o, x) ==
  /\ x \in Entry /\ x.start = clock
  /\ \/ x.kind = "rejection"
     \/ x.kind = "reservation" /\ Own(o) /\ x.target \in Orgs

(* The rows an offer is relisted from.                                     *)
Source(o, rows) ==
  /\ rows \in OfferRows /\ rows.sent = db'[o].sent
  /\ \/ rows.timeline = db[o].timeline
     \/ \E x : Asked(o, x) /\ rows.timeline = db[o].timeline \cup {x}

TimelineStep(o) ==
  \/ db'[o].timeline = db[o].timeline
  \/ clock' = clock /\ db'[o].timeline = DeleteFuture(db[o].timeline, clock)
  \/ clock' = clock /\ db'[o].timeline = CutLive(db[o].timeline, clock)
  \/ /\ clock' = clock
     /\ \E v \in Versions, rows \in OfferRows :
          Source(o, rows) /\ db'[o] \in Relist(o, v, rows, clock)

LEMMA RowsStep ==
  ASSUME TypeOK, [Next]_vars, NEW o \in Offers
  PROVE  /\ db[o].sent \subseteq db'[o].sent /\ db[o].accepted \subseteq db'[o].accepted
         /\ TimelineStep(o)
         /\ db[o] \in OfferRows /\ db'[o] \in OfferRows
         /\ clock \in 0 .. Horizon /\ clock' \in {clock, clock + 1}
<1>0. /\ db[o] \in OfferRows /\ db'[o] \in OfferRows /\ clock \in 0 .. Horizon
      /\ clock' \in {clock, clock + 1}
  BY StepShape, TypeStep DEF TypeOK
<1>1. ASSUME NEW v \in Versions, NEW rows \in OfferRows, NEW next \in Relist(o, v, rows, clock)
      PROVE  next.sent = rows.sent /\ next.accepted = rows.accepted
  BY <1>0, <1>1, RelistShape
<1>2. CASE db'[o] = db[o]
  BY <1>0, <1>2 DEF TimelineStep
<1>3. CASE Updated(o) /\ clock' = clock
  <2>1. PICK p \in Producers, news \in News : db'[o] \in Received(o, p, news, clock)
    BY <1>3 DEF Updated
  <2> DEFINE rows == Filed(db[o], p, news)
  <2>2. /\ rows \in OfferRows /\ rows.timeline = db[o].timeline
        /\ rows.accepted = db[o].accepted /\ db[o].sent \subseteq rows.sent
    BY <1>0, FiledShape
  <2>3. \/ db'[o] = [rows EXCEPT !.timeline = DeleteFuture(@, clock)]
        \/ news.version \in Versions /\ db'[o] \in Relist(o, news.version, rows, clock)
        \/ db'[o] = rows
    BY <1>0, <2>1, ReceivedShape
  <2> HIDE DEF rows
  <2>4. CASE db'[o] = [rows EXCEPT !.timeline = DeleteFuture(@, clock)]
    <3>1. /\ db'[o].sent = rows.sent /\ db'[o].accepted = rows.accepted
          /\ db'[o].timeline = DeleteFuture(db[o].timeline, clock)
      BY <2>2, <2>4 DEF OfferRows
    <3> QED BY <1>0, <1>3, <2>2, <3>1 DEF TimelineStep
  <2>5. CASE news.version \in Versions /\ db'[o] \in Relist(o, news.version, rows, clock)
    <3>1. db'[o].sent = rows.sent /\ db'[o].accepted = rows.accepted
      BY <1>1, <2>2, <2>5
    <3>2. Source(o, rows)
      BY <2>2, <3>1 DEF Source
    <3> QED BY <1>0, <1>3, <2>2, <2>5, <3>1, <3>2 DEF TimelineStep
  <2>6. CASE db'[o] = rows
    BY <1>0, <2>2, <2>6 DEF TimelineStep
  <2> QED BY <2>3, <2>4, <2>5, <2>6
<1>4. CASE Accepted(o) /\ clock' = clock
  <2>1. \E a : db'[o] = [db[o] EXCEPT !.accepted = @ \cup {a}, !.timeline = CutLive(@, clock)]
    BY <1>4 DEF Accepted
  <2>2. /\ db'[o].sent = db[o].sent /\ db[o].accepted \subseteq db'[o].accepted
        /\ db'[o].timeline = CutLive(db[o].timeline, clock)
    BY <1>0, <2>1 DEF OfferRows
  <2> QED BY <1>0, <1>4, <2>2 DEF TimelineStep
<1>5. ASSUME NEW x \in Entry, Asked(o, x), NEW v \in Versions, clock' = clock,
             db'[o] \in Relist(o, v, WithEntry(o, x), clock)
      PROVE  /\ db[o].sent \subseteq db'[o].sent /\ db[o].accepted \subseteq db'[o].accepted
             /\ TimelineStep(o)
  <2>1. /\ WithEntry(o, x) \in OfferRows /\ WithEntry(o, x).sent = db[o].sent
        /\ WithEntry(o, x).accepted = db[o].accepted
        /\ WithEntry(o, x).timeline = db[o].timeline \cup {x}
    BY <1>0, WithEntryType
  <2>2. db'[o].sent = db[o].sent /\ db'[o].accepted = db[o].accepted
    BY <1>1, <1>5, <2>1
  <2>3. Source(o, WithEntry(o, x))
    BY <1>5, <2>1, <2>2 DEF Source
  <2> QED BY <1>5, <2>1, <2>2, <2>3 DEF TimelineStep
<1>6. CASE Rejected(o) /\ clock' = clock
  <2>1. PICK org \in Orgs \cup {Host} : \E e \in EntriesFor(db[o].timeline, org, clock) :
          db'[o] \in Relist(o, e.version, WithEntry(o, Rejection(o, org, e)), clock)
    BY <1>6 DEF Rejected
  <2>2. PICK e \in EntriesFor(db[o].timeline, org, clock) :
          db'[o] \in Relist(o, e.version, WithEntry(o, Rejection(o, org, e)), clock)
    BY <2>1
  <2>3. /\ e.version \in Versions /\ Rejection(o, org, e) \in Entry
        /\ IsRejection(Rejection(o, org, e)) /\ Rejection(o, org, e).start = clock
    BY RejectionType
  <2>4. Asked(o, Rejection(o, org, e))
    BY <2>3 DEF Asked, IsRejection
  <2> QED BY <1>0, <1>5, <1>6, <2>2, <2>3, <2>4
<1>7. CASE Reserved(o) /\ clock' = clock
  <2>1. PICK org \in Orgs, length \in Lengths : \E e \in EntriesFor(db[o].timeline, org, clock) :
          db'[o] \in Relist(o, e.version, WithEntry(o, Reservation(o, org, e, length)), clock)
    BY <1>7 DEF Reserved
  <2>2. PICK e \in EntriesFor(db[o].timeline, org, clock) :
          db'[o] \in Relist(o, e.version, WithEntry(o, Reservation(o, org, e, length)), clock)
    BY <2>1
  <2>3. /\ e.version \in Versions /\ Reservation(o, org, e, length) \in Entry
        /\ Asked(o, Reservation(o, org, e, length))
    BY <1>7, ReservationType DEF Asked, Reserved
  <2> QED BY <1>0, <1>5, <1>7, <2>2, <2>3
<1> QED BY <1>2, <1>3, <1>4, <1>6, <1>7, StepShape

(* An entry after a step is one of before, what is left of one, or what an *)
(* organization asked for now, or it is listed anew.                       *)
Carried(o, e) ==
  \/ \E d \in db[o].timeline : e = d \/ LeftOf(e, d, clock)
  \/ \E x : Asked(o, x) /\ LeftOf(e, x, clock)

ListedAnew(o, v, rows, e) ==
  \/ ~ Own(o) /\ e.target = Host /\ e.version = v /\ e.kind = "listing" /\ e.start = clock
  \/ \E remote \in RemoteEntries(o, v, rows, clock) : e \in remote

LEMMA EntryStep ==
  ASSUME TypeOK, [Next]_vars, NEW o \in Offers, NEW e \in db'[o].timeline
  PROVE  \/ Carried(o, e)
         \/ \E v \in Versions, rows \in OfferRows : Source(o, rows) /\ ListedAnew(o, v, rows, e)
<1>0. /\ db[o] \in OfferRows /\ clock \in 0 .. Horizon /\ TimelineStep(o)
  BY RowsStep
<1>1. CASE db'[o].timeline = db[o].timeline
  BY <1>1 DEF Carried
<1>2. CASE db'[o].timeline = DeleteFuture(db[o].timeline, clock)
  BY <1>2, DeleteFutureShape DEF Carried
<1>3. CASE db'[o].timeline = CutLive(db[o].timeline, clock)
  BY <1>3, CutLiveShape DEF Carried
<1>4. ASSUME NEW v \in Versions, NEW rows \in OfferRows,
             Source(o, rows), db'[o] \in Relist(o, v, rows, clock)
      PROVE  Carried(o, e) \/ ListedAnew(o, v, rows, e)
  <2>1. CASE \E d \in rows.timeline : LeftOf(e, d, clock)
    BY <1>4, <2>1 DEF Source, Carried
  <2> QED BY <1>0, <1>4, <2>1, RelistShape DEF ListedAnew
<1> QED BY <1>0, <1>1, <1>2, <1>3, <1>4 DEF TimelineStep

-----------------------------------------------------------------------------
(* Under which chain, and to whom                                          *)

(* What is asked of the policy does not concern those it must not list.    *)
LEMMA RefusalsHonoured ==
  ASSUME HonoursRefusals, NEW o \in Offers, NEW v \in Versions, NEW rows \in OfferRows,
         NEW now \in 0 .. Horizon, NEW remote \in RemoteEntries(o, v, rows, now), NEW e \in remote
  PROVE  /\ e.target \notin Rejections(rows.timeline, now)
         /\ ~ Own(o) => e.target \notin SharedBy(o, v, rows)
<1>1. /\ FirstListingTime(rows.timeline, now) \in Time
      /\ Rejections(rows.timeline, now) \in SUBSET Targets
      /\ SharedBy(o, v, rows) \in SUBSET Targets
  BY PolicyIsAsked
<1>2. PICK k \in DOMAIN PolicyListings(o, v, rows, now) :
        e.target = PolicyListings(o, v, rows, now)[k].org
  BY RemoteMember
<1>3. e.target \notin Rejections(rows.timeline, now) \cup
                      IF Own(o) THEN {} ELSE SharedBy(o, v, rows)
  BY <1>1, <1>2 DEF HonoursRefusals, PolicyListings
<1> QED BY <1>3

(* The chain of one listing.                                               *)
Authorized(e, sent) ==
  /\ \E s \in sent : /\ s.version = e.version /\ s.chain.reshare
                     /\ e.chain = Append(s.chain.by, Host)
  /\ \A i \in DOMAIN e.chain : e.chain[i] # e.target

LEMMA AuthorityStep ==
  ASSUME HonoursRefusals, TypeOK, AuthorityKept, [Next]_vars
  PROVE  AuthorityKept'
<1> SUFFICES ASSUME NEW o \in Offers, NEW e \in db'[o].timeline,
                    ~ Own(o), e.kind = "listing", e.target # Host
             PROVE  Authorized(e, db'[o].sent)
  BY DEF AuthorityKept, Authorized, Own
<1>0. /\ db[o].sent \subseteq db'[o].sent /\ db[o] \in OfferRows
      /\ clock \in 0 .. Horizon /\ clock \in Time
  BY RowsStep, Numbers
<1>1. ASSUME NEW d \in db[o].timeline, d.kind = e.kind, d.version = e.version,
             d.target = e.target, d.chain = e.chain
      PROVE  Authorized(e, db'[o].sent)
  <2>1. Authorized(d, db[o].sent)
    BY <1>1 DEF AuthorityKept, Authorized
  <2> QED BY <1>0, <1>1, <2>1 DEF Authorized
<1>2. CASE Carried(o, e)
  <2>1. ASSUME NEW d \in db[o].timeline, e = d \/ LeftOf(e, d, clock)
        PROVE  Authorized(e, db'[o].sent)
    <3>1. d \in Entry
      BY <1>0, RowsAre
    <3>2. d.kind = e.kind /\ d.version = e.version /\ d.target = e.target /\ d.chain = e.chain
      BY <1>0, <2>1, <3>1, LeftOfShape
    <3> QED BY <1>1, <3>2
  <2>2. ASSUME NEW x, Asked(o, x), LeftOf(e, x, clock) PROVE FALSE
    <3>1. x \in Entry /\ x.kind # "listing"
      BY <2>2 DEF Asked
    <3> QED BY <1>0, <2>2, <3>1, LeftOfShape
  <2> QED BY <1>2, <2>1, <2>2 DEF Carried
<1>3. ASSUME NEW v \in Versions, NEW rows \in OfferRows, Source(o, rows), ListedAnew(o, v, rows, e)
      PROVE  Authorized(e, db'[o].sent)
  <2>1. PICK remote \in RemoteEntries(o, v, rows, clock) : e \in remote
    BY <1>3 DEF ListedAnew
  <2>6. e.version = v /\ (CarriesOn(e, rows) \/ PassesOn(e, o, v, rows))
    BY <1>0, <2>1, RemoteMember
  <2>2. PICK root \in RootChains(o, v, rows) : e.chain = Append(root, Host)
    BY <2>6 DEF CarriesOn, PassesOn
  <2>3. /\ root \in Seq(Orgs)
        /\ \E s \in rows.sent : s.version = v /\ s.chain.reshare /\ root = s.chain.by
        /\ \A i \in DOMAIN root : root[i] \in SharedBy(o, v, rows)
    BY RootChainsShape
  <2>4. e.target \notin SharedBy(o, v, rows)
    BY <1>0, <2>1, RefusalsHonoured
  <2>5. \A i \in DOMAIN e.chain : e.chain[i] # e.target
    <3> SUFFICES ASSUME NEW i \in DOMAIN e.chain PROVE e.chain[i] # e.target
      OBVIOUS
    <3>1. Append(root, Host) \in Seq(Orgs \cup {Host}) /\ Len(Append(root, Host)) = Len(root) + 1
      BY <2>3
    <3>2. i \in 1 .. Len(root) + 1 /\ Len(root) \in Nat
      BY <2>2, <2>3, <3>1
    <3>3. CASE i \in DOMAIN root
      <4>1. e.chain[i] = root[i]
        BY <2>2, <2>3, <3>3
      <4> QED BY <2>3, <2>4, <3>3, <4>1
    <3>4. CASE i = Len(root) + 1
      <4>1. e.chain[i] = Host
        BY <2>2, <2>3, <3>4
      <4> QED BY <4>1
    <3> QED BY <2>3, <3>2, <3>3, <3>4
  <2> QED BY <1>3, <2>6, <2>2, <2>3, <2>5 DEF Authorized, Source
<1> QED BY <1>2, <1>3, EntryStep

(* Under any policy that lists nobody who had the offer before, another    *)
(* organization's offer is passed on only under a chain that came with     *)
(* that very version and gave leave to reshare it, and never back to an    *)
(* organization of the chain.                                              *)
THEOREM NeverPassedOnUnasked ==
  ASSUME HonoursRefusals PROVE Spec => []AuthorityKept
<1>1. Init => TypeOK /\ AuthorityKept
  BY TypeInit DEF Init, AuthorityKept
<1>2. TypeOK /\ AuthorityKept /\ [Next]_vars => (TypeOK /\ AuthorityKept)'
  BY AuthorityStep, TypeStep
<1> QED BY <1>1, <1>2, PTL DEF Spec

-----------------------------------------------------------------------------
(* Rejections                                                              *)

LEMMA Apart ==
  ASSUME NEW a, NEW b, a.start \in Nat, a.end \in Nat, b.start \in Nat, b.end \in Nat,
         a.end <= b.start \/ b.end <= a.start
  PROVE  Intersect(a, b) = {}
BY DEF Intersect, Between, Greater, Lesser

(* A part of an entry lies apart from what the entry lies apart from.      *)
LEMMA PartApart ==
  ASSUME NEW a \in Entry, NEW b \in Entry, NEW c \in Entry, Intersect(a, b) = {},
         c.start = b.start, c.end <= b.end
  PROVE  Intersect(a, c) = {}
<1>1. /\ a.start \in Nat /\ a.end \in Nat /\ b.start \in Nat /\ b.end \in Nat
      /\ c.start \in Nat /\ c.end \in Nat
  BY EntryIs
<1>2. ~ (Greater(a.start, b.start) < Lesser(a.end, b.end))
  BY DEF Intersect, Between
<1>3. ~ (Greater(a.start, c.start) < Lesser(a.end, c.end))
  BY <1>1, <1>2 DEF Greater, Lesser
<1> QED BY <1>3 DEF Intersect, Between

(* A rejection was made in the past.                                       *)
RejectionsMade ==
  \A o \in Offers : \A r \in db[o].timeline : IsRejection(r) => r.start <= clock

LEMMA RejectionsMadeStep ==
  ASSUME TypeOK, RejectionsMade, [Next]_vars
  PROVE  RejectionsMade'
<1> SUFFICES ASSUME NEW o \in Offers, NEW r \in db'[o].timeline, IsRejection(r)
             PROVE  r.start <= clock'
  BY DEF RejectionsMade, IsRejection
<1>0. /\ db[o] \in OfferRows /\ clock \in Time /\ clock \in Nat /\ clock \in 0 .. Horizon
      /\ clock' \in {clock, clock + 1}
  BY RowsStep, Numbers
<1>1. ASSUME NEW d \in Entry, LeftOf(r, d, clock) \/ r = d, d.start <= clock
      PROVE  r.start <= clock'
  <2>1. r.start = d.start /\ d.start \in Nat
    BY <1>0, <1>1, LeftOfShape, EntryIs
  <2> QED BY <1>0, <1>1, <2>1
<1>2. CASE Carried(o, r)
  <2>1. ASSUME NEW d \in db[o].timeline, r = d \/ LeftOf(r, d, clock) PROVE r.start <= clock'
    <3>1. d \in Entry
      BY <1>0, RowsAre
    <3>2. IsRejection(d)
      BY <1>0, <2>1, <3>1, LeftOfShape DEF IsRejection
    <3> QED BY <1>1, <2>1, <3>1, <3>2 DEF RejectionsMade
  <2>2. ASSUME NEW x, Asked(o, x), LeftOf(r, x, clock) PROVE r.start <= clock'
    <3>1. x \in Entry /\ x.start <= clock
      BY <1>0, <2>2 DEF Asked
    <3> QED BY <1>1, <2>2, <3>1
  <2> QED BY <1>2, <2>1, <2>2 DEF Carried
<1>3. ASSUME NEW v \in Versions, NEW rows \in OfferRows, ListedAnew(o, v, rows, r)
      PROVE  FALSE
  BY <1>0, <1>3, RemoteMember DEF ListedAnew, IsRejection, CarriesOn, PassesOn
<1> QED BY <1>2, <1>3, EntryStep

(* No entry of the organization that rejects runs while its rejection does.*)
LEMMA RejectedStep ==
  ASSUME HonoursRefusals, TypeOK, RejectionsMade, RejectedUnlisted, [Next]_vars
  PROVE  RejectedUnlisted'
<1> SUFFICES ASSUME NEW o \in Offers, NEW r \in db'[o].timeline, NEW e \in db'[o].timeline,
                    IsRejection(r), ~ IsRejection(e), e.target = r.target, r.target \in Orgs
             PROVE  Intersect(r, e) = {}
  BY DEF RejectedUnlisted, IsRejection
<1>0. /\ db[o] \in OfferRows /\ db'[o] \in OfferRows /\ clock \in 0 .. Horizon
      /\ clock \in Time /\ clock \in Nat /\ TimelineStep(o)
  BY RowsStep, Numbers
<1>1. /\ r \in Entry /\ e \in Entry /\ r.start \in Nat /\ r.end \in Nat
      /\ e.start \in Nat /\ e.end \in Nat
  BY <1>0, RowsAre, EntryIs
<1>2. CASE db'[o].timeline = db[o].timeline
  BY <1>2 DEF RejectedUnlisted
<1>3. ASSUME NEW c \in db[o].timeline, NEW d \in db[o].timeline,
             LeftOf(r, c, clock), LeftOf(e, d, clock)
      PROVE  Intersect(r, e) = {}
  <2>1. c \in Entry /\ d \in Entry
    BY <1>0, RowsAre
  <2>2. /\ IsRejection(c) /\ c = r /\ d.target = e.target /\ d.kind = e.kind
        /\ e.start = d.start /\ e.end <= d.end
    BY <1>0, <1>3, <2>1, LeftOfShape DEF IsRejection
  <2>3. Intersect(r, d) = {}
    BY <2>2 DEF RejectedUnlisted, IsRejection
  <2> QED BY <1>1, <2>1, <2>2, <2>3, PartApart
<1>4. CASE db'[o].timeline = DeleteFuture(db[o].timeline, clock)
  BY <1>3, <1>4, DeleteFutureShape
<1>5. CASE db'[o].timeline = CutLive(db[o].timeline, clock)
  BY <1>3, <1>5, CutLiveShape
<1>6. ASSUME NEW v \in Versions, NEW rows \in OfferRows,
             Source(o, rows), db'[o] \in Relist(o, v, rows, clock)
      PROVE  Intersect(r, e) = {}
  <2>1. r \in rows.timeline /\ r.start <= clock
    <3>1. PICK c \in rows.timeline : LeftOf(r, c, clock) /\ r.start <= clock
      BY <1>0, <1>6, RelistShape, RemoteMember DEF IsRejection, CarriesOn, PassesOn
    <3>2. c \in Entry
      BY RowsAre
    <3>3. r = c
      BY <1>0, <3>1, <3>2, LeftOfShape DEF IsRejection
    <3> QED BY <3>1, <3>3
  <2>2. CASE e.start <= clock /\ e.end <= clock /\ \E d \in rows.timeline : LeftOf(e, d, clock)
    <3>1. PICK d \in rows.timeline : LeftOf(e, d, clock)
      BY <2>2
    <3>2. CASE r \in db[o].timeline /\ d \in db[o].timeline
      <4>1. r \in Entry /\ ~ IsLive(r, clock)
        BY <1>1 DEF IsLive
      <4>2. LeftOf(r, r, clock)
        BY <4>1 DEF LeftOf
      <4> QED BY <1>3, <3>1, <3>2, <4>2
    <3>3. CASE r \notin db[o].timeline
      <4>1. r.start = clock
        BY <1>6, <2>1, <3>3 DEF Source, Asked
      <4> QED BY <1>1, <2>2, <4>1, Apart
    <3>4. CASE d \notin db[o].timeline
      <4>1. d.start = clock /\ d \in Entry
        BY <1>6, <3>1, <3>4 DEF Source, Asked
      <4>2. e.start = clock
        BY <1>0, <3>1, <4>1, LeftOfShape
      <4>3. e.end <= e.start
        BY <2>2, <4>2
      <4> QED BY <1>1, <4>3 DEF Intersect, Between, Greater, Lesser
    <3> QED BY <3>2, <3>3, <3>4
  <2>3. CASE \E remote \in RemoteEntries(o, v, rows, clock) : e \in remote
    <3>1. e.target \notin Rejections(rows.timeline, clock) /\ clock <= e.start
      BY <1>0, <2>3, RefusalsHonoured, RemoteMember
    <3>2. ~ Covers(r, clock)
      BY <2>1, <3>1 DEF Rejections
    <3>3. r.end <= clock
      BY <1>0, <1>1, <2>1, <3>2 DEF Covers
    <3> QED BY <1>0, <1>1, <3>1, <3>3, Apart
  <2>4. e.target # Host
    BY ConstantsAssumption
  <2> QED BY <1>0, <1>6, <2>2, <2>3, <2>4, RelistShape
<1> QED BY <1>0, <1>2, <1>4, <1>5, <1>6 DEF TimelineStep

(* Under any policy that lists nobody who rejected the offer, no           *)
(* organization is listed while its rejection stands: no update, other     *)
(* call or later relisting brings it back.                                 *)
THEOREM RejectedStaysUnlisted ==
  ASSUME HonoursRefusals PROVE Spec => []RejectedUnlisted
<1>1. Init => TypeOK /\ RejectionsMade /\ RejectedUnlisted
  BY TypeInit DEF Init, RejectionsMade, RejectedUnlisted
<1>2. TypeOK /\ RejectionsMade /\ RejectedUnlisted /\ [Next]_vars
        => (TypeOK /\ RejectionsMade /\ RejectedUnlisted)'
  BY RejectionsMadeStep, RejectedStep, TypeStep
<1> QED BY <1>1, <1>2, PTL DEF Spec

-----------------------------------------------------------------------------
(* The internal checks                                                     *)

(* What relisting makes passes the checks: one reservation at most, the    *)
(* listings around it, and no organization listed twice.                   *)
LEMMA ListedApart ==
  ASSUME NEW o \in Offers, NEW v \in Versions, NEW listings \in Seq(Listing),
         \A j, k \in DOMAIN listings : listings[j].org = listings[k].org => j = k,
         NEW now \in Time, NEW reservation, IsCurrent(reservation, now), NEW root \in Seq(Orgs)
  PROVE  ChecksPass(ListedEntries(o, v, listings, reservation, root, now))
<1> DEFINE held == HeldEntries(v, listings, reservation, now)
           chain == IF Own(o) THEN <<>> ELSE Append(root, Host)
           Open(k) == OpenParts([start |-> now, end |-> listings[k].end], held)
           Piece(e, k, i) == /\ k \in LiveListings(listings, now) /\ i \in Open(k)
                             /\ e = MakeEntry(listings[k].org, v, i, "listing", chain)
           all == ListedEntries(o, v, listings, reservation, root, now)
<1>1. \A e \in held : /\ e.start = now /\ now < e.end /\ e.end \in Time
                      /\ e.kind = "reservation"
  BY HeldShape
<1>2. \A d, e \in held : d = e
  BY HeldOnce
<1>3. \A e \in all : e \in held \/ \E k, i : Piece(e, k, i)
  BY DEF ListedEntries
<1>4. ASSUME NEW e, NEW k, NEW i, Piece(e, k, i)
      PROVE  /\ e.start \in Nat /\ e.end \in Nat /\ e.end = listings[k].end
             /\ e.kind = "listing" /\ e.target = listings[k].org
             /\ i.start = e.start /\ i.end = e.end
             /\ held = {} => e.start = now
             /\ held # {} => \E h \in held : e.start = h.end
  <2>1. listings[k] \in Listing /\ now < listings[k].end
    BY <1>4 DEF LiveListings
  <2>2. listings[k].end \in Nat
    BY <2>1 DEF Listing
  <2> HIDE DEF held
  <2>3. /\ i.start \in Time /\ i.end \in Nat /\ i.end = listings[k].end
        /\ held = {} => i.start = now
        /\ held # {} => \E h \in held : i.start = h.end
    BY <1>1, <1>4, <2>1, <2>2, OpenPartsShape
  <2>4. e.start = i.start /\ e.end = i.end /\ e.kind = "listing" /\ e.target = listings[k].org
    BY <1>4, MakeEntryIs
  <2> QED BY <2>3, <2>4, Numbers
<1>5. ASSUME NEW d, NEW e, NEW j, NEW k, NEW x, NEW y,
             Piece(d, j, x), Piece(e, k, y), d.target = e.target
      PROVE  d = e
  <2>1. j = k
    BY <1>4, <1>5 DEF LiveListings
  <2>2. x.start = y.start /\ x.end = y.end
    <3> HIDE DEF Piece, held
    <3>1. /\ x.end = listings[j].end /\ y.end = listings[k].end
          /\ held = {} => x.start = now /\ y.start = now
          /\ held # {} => \E g, h \in held : x.start = g.end /\ y.start = h.end
      BY <1>4, <1>5
    <3> QED BY <1>2, <2>1, <3>1
  <2> QED BY <1>5, <2>1, <2>2 DEF MakeEntry
<1>6. ASSUME NEW d \in held, NEW e, NEW k, NEW i, Piece(e, k, i)
      PROVE  Intersect(d, e) = {} /\ Intersect(e, d) = {}
  <2>1. e.start = d.end /\ e.start \in Nat /\ e.end \in Nat
    <3> HIDE DEF Piece, held
    <3> QED BY <1>2, <1>4, <1>6
  <2>2. d.start \in Nat /\ d.end \in Nat /\ d.end <= e.start
    BY <1>1, <2>1, Numbers
  <2> QED BY <2>1, <2>2, Apart
<1> HIDE DEF held, Piece, all
<1>7. ASSUME NEW d \in all, NEW e \in all
      PROVE  /\ d.kind = "reservation" /\ e.kind = "reservation" => d = e
             /\ d # e /\ (d.target = e.target \/ e.kind = "reservation") => Intersect(d, e) = {}
  <2>1. CASE d \in held /\ e \in held
    BY <1>2, <2>1
  <2>2. CASE d \in held /\ e \notin held
    <3>1. PICK k, i : Piece(e, k, i)
      BY <1>3, <2>2
    <3> QED BY <1>4, <1>6, <2>2, <3>1
  <2>3. CASE d \notin held /\ e \in held
    <3>1. PICK k, i : Piece(d, k, i)
      BY <1>3, <2>3
    <3> QED BY <1>4, <1>6, <2>3, <3>1
  <2>4. CASE d \notin held /\ e \notin held
    <3>1. PICK j, x : Piece(d, j, x)
      BY <1>3, <2>4
    <3>2. PICK k, y : Piece(e, k, y)
      BY <1>3, <2>4
    <3>3. d.kind = "listing" /\ e.kind = "listing"
      BY <1>4, <3>1, <3>2
    <3> QED BY <1>5, <3>1, <3>2, <3>3
  <2> QED BY <2>1, <2>2, <2>3, <2>4
<1> QED BY <1>7 DEF ChecksPass, all

(* Only offers of the host are reserved.                                   *)
ReservationsOwn ==
  \A o \in Offers : \A e \in db[o].timeline : e.kind = "reservation" => Own(o)

LEMMA ReservationsOwnStep ==
  ASSUME TypeOK, ReservationsOwn, [Next]_vars
  PROVE  ReservationsOwn'
<1> SUFFICES ASSUME NEW o \in Offers, NEW e \in db'[o].timeline, e.kind = "reservation"
             PROVE  Own(o)
  BY DEF ReservationsOwn, Own
<1>0. /\ db[o] \in OfferRows /\ clock \in Time /\ clock \in 0 .. Horizon
  BY RowsStep, Numbers
<1>1. ASSUME NEW d \in db[o].timeline, e = d \/ LeftOf(e, d, clock) PROVE Own(o)
  <2>1. d.kind = "reservation"
    BY <1>0, <1>1, RowsAre, LeftOfShape
  <2> QED BY <2>1 DEF ReservationsOwn
<1>2. ASSUME NEW x, Asked(o, x), LeftOf(e, x, clock) PROVE Own(o)
  <2>1. x \in Entry
    BY <1>2 DEF Asked
  <2>2. x.kind = "reservation"
    BY <1>0, <1>2, <2>1, LeftOfShape
  <2> QED BY <1>2, <2>2 DEF Asked
<1>3. ASSUME NEW v \in Versions, NEW rows \in OfferRows, Source(o, rows), ListedAnew(o, v, rows, e)
      PROVE  Own(o)
  <2>1. PICK remote \in RemoteEntries(o, v, rows, clock) : e \in remote
    BY <1>3 DEF ListedAnew
  <2>2. CarriesOn(e, rows) \/ PassesOn(e, o, v, rows)
    BY <1>0, <2>1, RemoteMember
  <2>3. PICK r \in rows.timeline : r.kind = "reservation"
    BY <2>2 DEF CarriesOn, PassesOn
  <2> QED BY <1>3, <2>3 DEF Source, Asked, ReservationsOwn
<1> QED BY <1>1, <1>2, <1>3, EntryStep DEF Carried

(* What relisting makes of rows whose reservations are on the host's own   *)
(* offers passes the checks.                                               *)
LEMMA RelistedChecksPass ==
  ASSUME ListsEachOnce, NEW o \in Offers, NEW v \in Versions, NEW rows \in OfferRows,
         NEW now \in 0 .. Horizon, \A r \in rows.timeline : r.kind = "reservation" => Own(o),
         NEW local \in LocalEntries(o, v, rows, now), NEW remote \in RemoteEntries(o, v, rows, now)
  PROVE  ChecksPass(local \cup remote)
<1> DEFINE listings == PolicyListings(o, v, rows, now)
<1>0. now \in Time /\ rows.timeline \in SUBSET Entry
  BY Numbers, RowsAre
<1>1. /\ listings \in Seq(Listing)
      /\ FirstListingTime(rows.timeline, now) \in Time
      /\ Rejections(rows.timeline, now) \in SUBSET Targets
      /\ SharedBy(o, v, rows) \in SUBSET Targets
  BY PolicyIsAsked
<1>2. \A j, k \in DOMAIN listings :
        listings[j].org # Host /\ (listings[j].org = listings[k].org => j = k)
  BY <1>1 DEF ListsEachOnce, PolicyListings
<1>3. ChecksPass(remote)
  <2>1. CASE remote = {}
    BY <2>1 DEF ChecksPass
  <2>2. CASE remote # {}
    <3>1. PICK root \in RootChains(o, v, rows),
               reservation \in CurrentReservations(rows.timeline, now) :
            remote = ListedEntries(o, v, listings, reservation, root, now)
      BY <2>2, RemoteShape
    <3>2. IsCurrent(reservation, now) /\ root \in Seq(Orgs)
      BY <1>0, CurrentReservationsShape, RootChainsShape
    <3> HIDE DEF listings
    <3> QED BY <1>0, <1>1, <1>2, <3>1, <3>2, ListedApart
  <2> QED BY <2>1, <2>2
<1>4. \A e \in remote : e.target # Host /\ (~ Own(o) => e.kind = "listing")
  <2> SUFFICES ASSUME NEW e \in remote
               PROVE  e.target # Host /\ (~ Own(o) => e.kind = "listing")
    OBVIOUS
  <2>1. /\ \E k \in DOMAIN listings : e.target = listings[k].org
        /\ CarriesOn(e, rows) \/ PassesOn(e, o, v, rows)
    BY RemoteMember
  <2>2. ~ Own(o) => e.kind = "listing"
    BY <2>1 DEF CarriesOn, PassesOn
  <2> QED BY <1>2, <2>1, <2>2
<1>5. /\ Own(o) => local = {}
      /\ \A d, e \in local : d = e
      /\ \A e \in local : e.target = Host /\ e.kind = "listing"
  BY <1>0, LocalShape
<1>6. CASE local = {}
  BY <1>3, <1>6
<1>7. CASE local # {}
  <2>1. ~ Own(o)
    BY <1>5, <1>7
  <2>2. \A e \in local \cup remote : e.kind = "listing"
    BY <1>4, <1>5, <2>1
  <2>3. \A d \in local, e \in remote : d.target # e.target
    BY <1>4, <1>5
  <2> QED BY <1>3, <1>5, <2>2, <2>3 DEF ChecksPass
<1> QED BY <1>6, <1>7

LEMMA ChecksPassFewer ==
  ASSUME NEW S, NEW T \in SUBSET S, ChecksPass(S)
  PROVE  ChecksPass(T)
BY DEF ChecksPass

(* What lies ahead after a step.                                           *)
LEMMA AheadAfter ==
  ASSUME NEW timeline \in SUBSET Entry, NEW now \in Time
  PROVE  /\ Ahead(DeleteFuture(timeline, now), now) = {}
         /\ Ahead(CutLive(timeline, now), now) \subseteq Ahead(timeline, now)
<1>0. now \in Nat
  BY Numbers
<1>1. ASSUME NEW e \in Ahead(DeleteFuture(timeline, now), now) PROVE FALSE
  <2>1. PICK d \in timeline : LeftOf(e, d, now) /\ e.start <= now
    BY DeleteFutureShape DEF Ahead
  <2>2. e \in Entry /\ ~ IsRejection(e) /\ e.end > now /\ (e.end <= now \/ now < e.start)
    BY <2>1, LeftOfShape DEF Ahead
  <2>3. e.start \in Nat /\ e.end \in Nat
    BY <2>2, EntryIs
  <2> QED BY <1>0, <2>1, <2>2, <2>3
<1>2. ASSUME NEW e \in Ahead(CutLive(timeline, now), now) PROVE e \in Ahead(timeline, now)
  <2>1. PICK d \in timeline : LeftOf(e, d, now)
    BY CutLiveShape DEF Ahead
  <2>2. CASE e = d
    BY <2>2 DEF Ahead
  <2>3. CASE e = [d EXCEPT !.end = now]
    <3>1. e.end = now
      BY <2>3 DEF Entry
    <3> QED BY <1>0, <3>1 DEF Ahead
  <2> QED BY <2>1, <2>2, <2>3 DEF LeftOf
<1> QED BY <1>1, <1>2

LEMMA RelistAhead ==
  ASSUME NEW o \in Offers, NEW v \in Versions, NEW rows \in OfferRows, NEW now \in 0 .. Horizon,
         NEW next \in Relist(o, v, rows, now)
  PROVE  \E local \in LocalEntries(o, v, rows, now), remote \in RemoteEntries(o, v, rows, now) :
           Ahead(next.timeline, now) \subseteq local \cup remote
<1>1. PICK local \in LocalEntries(o, v, rows, now), remote \in RemoteEntries(o, v, rows, now) :
        next.timeline = DeleteFuture(rows.timeline, now) \cup local \cup remote
  BY RelistParts
<1>2. Ahead(DeleteFuture(rows.timeline, now), now) = {}
  BY RowsAre, Numbers, AheadAfter
<1> QED BY <1>1, <1>2 DEF Ahead

LEMMA AheadLater ==
  ASSUME NEW timeline \in SUBSET Entry, NEW now \in Time, NEW later \in {now, now + 1}
  PROVE  Ahead(timeline, later) \subseteq Ahead(timeline, now)
BY Numbers, EntryIs DEF Ahead

LEMMA ChecksStep ==
  ASSUME ListsEachOnce, TypeOK, ReservationsOwn, ChecksHold, [Next]_vars
  PROVE  ChecksHold'
<1> SUFFICES ASSUME NEW o \in Offers PROVE ChecksPass(Ahead(db'[o].timeline, clock'))
  BY DEF ChecksHold
<1>0. /\ db[o] \in OfferRows /\ clock \in 0 .. Horizon /\ clock \in Time
      /\ clock' \in {clock, clock + 1} /\ TimelineStep(o)
  BY RowsStep, Numbers
<1>1. ChecksPass(Ahead(db[o].timeline, clock)) /\ db[o].timeline \in SUBSET Entry
  BY <1>0, RowsAre DEF ChecksHold
<1>2. CASE db'[o].timeline = db[o].timeline
  BY <1>0, <1>1, <1>2, AheadLater, ChecksPassFewer
<1>3. CASE clock' = clock /\ db'[o].timeline = DeleteFuture(db[o].timeline, clock)
  <2>1. Ahead(db'[o].timeline, clock') = {}
    BY <1>0, <1>1, <1>3, AheadAfter
  <2> QED BY <2>1, <1>1, ChecksPassFewer
<1>4. CASE clock' = clock /\ db'[o].timeline = CutLive(db[o].timeline, clock)
  <2>1. Ahead(db'[o].timeline, clock') \in SUBSET Ahead(db[o].timeline, clock)
    BY <1>0, <1>1, <1>4, AheadAfter
  <2> QED BY <2>1, <1>1, ChecksPassFewer
<1>5. ASSUME NEW v \in Versions, NEW rows \in OfferRows, clock' = clock,
             Source(o, rows), db'[o] \in Relist(o, v, rows, clock)
      PROVE  ChecksPass(Ahead(db'[o].timeline, clock'))
  <2>1. \A r \in rows.timeline : r.kind = "reservation" => Own(o)
    BY <1>5 DEF Source, Asked, ReservationsOwn
  <2>2. PICK local \in LocalEntries(o, v, rows, clock), remote \in RemoteEntries(o, v, rows, clock) :
          Ahead(db'[o].timeline, clock) \subseteq local \cup remote
    BY <1>0, <1>5, RelistAhead
  <2>3. ChecksPass(local \cup remote)
    BY <1>0, <2>1, RelistedChecksPass
  <2> QED BY <1>5, <2>2, <2>3, ChecksPassFewer
<1> QED BY <1>0, <1>2, <1>3, <1>4, <1>5 DEF TimelineStep

(* Under any policy that lists each organization once at most and never    *)
(* the host itself, the internal checks never fail.                        *)
THEOREM ChecksNeverFail ==
  ASSUME ListsEachOnce PROVE Spec => []ChecksHold
<1>1. Init => TypeOK /\ ReservationsOwn /\ ChecksHold
  BY TypeInit DEF Init, ReservationsOwn, ChecksHold, ChecksPass, Ahead
<1>2. TypeOK /\ ReservationsOwn /\ ChecksHold /\ [Next]_vars
        => (TypeOK /\ ReservationsOwn /\ ChecksHold)'
  BY TypeStep, ReservationsOwnStep, ChecksStep
<1> QED BY <1>1, <1>2, PTL DEF Spec

-----------------------------------------------------------------------------
(* Which version is listed                                                 *)

(* The versions that a producer has now and that are not expired.          *)
LiveVersions(o, corpus, t) ==
  { v \in Versions : (\E p \in Producers : corpus[p] = v) /\ Expiration[o][v] > t }

(* What is listed is of one version, no older than any live one.  Unlike   *)
(* the newest of the live versions, all of them can be followed through a  *)
(* step: each was live before or is the one that came.                     *)
UpToDate(o, corpus, ahead, t) ==
  ahead # {} =>
    /\ \E p \in Producers : corpus[p] # NoVersion
    /\ \A d, e \in ahead : d.version = e.version
    /\ \A e \in ahead, v \in LiveVersions(o, corpus, t) : v <= e.version

AllUpToDate ==
  \A o \in Offers : UpToDate(o, db[o].corpus, Ahead(db[o].timeline, clock), clock)

LEMMA UpToDateIsNewest ==
  ASSUME AllUpToDate
  PROVE  NewestListed
<1>1. \A o \in Offers : Newest(o, db[o], clock) \subseteq LiveVersions(o, db[o].corpus, clock)
  BY DEF Newest, LiveVersions
<1> QED BY <1>1 DEF AllUpToDate, UpToDate, NewestListed

(* Fewer entries and fewer live versions are up to date too.               *)
LEMMA UpToDateFewer ==
  ASSUME NEW o, NEW corpus, NEW S, NEW T \in SUBSET S, NEW t, NEW u,
         UpToDate(o, corpus, S, t),
         LiveVersions(o, corpus, u) \in SUBSET LiveVersions(o, corpus, t)
  PROVE  UpToDate(o, corpus, T, u)
BY DEF UpToDate

LEMMA RelistedVersion ==
  ASSUME NEW o \in Offers, NEW v \in Versions, NEW rows \in OfferRows, NEW now \in 0 .. Horizon,
         NEW next \in Relist(o, v, rows, now), NEW e \in Ahead(next.timeline, now)
  PROVE  e.version = v
<1>1. e \in next.timeline /\ ~ IsRejection(e) /\ e.end > now
  BY DEF Ahead
<1>2. next \in OfferRows
  BY RelistShape
<1>3. e.end \in Nat /\ now \in Nat
  BY <1>1, <1>2, RowsAre, EntryIs, Numbers
<1>4. ~ (e.end <= now)
  BY <1>1, <1>3
<1>5. CASE \E remote \in RemoteEntries(o, v, rows, now) : e \in remote
  BY <1>5, RemoteMember
<1> QED BY <1>1, <1>4, <1>5, RelistShape

LEMMA EntryFoundIsAhead ==
  ASSUME NEW timeline, NEW viewer, NEW t, NEW e \in EntriesFor(timeline, viewer, t)
  PROVE  e \in Ahead(timeline, t)
BY EntriesForShape DEF Ahead, Covers

(* An update that does not relist the offer brings no version newer than   *)
(* those that were live already.                                           *)
LEMMA FiledVersions ==
  ASSUME NEW o \in Offers, NEW p \in Producers, NEW news \in News, NEW now \in 0 .. Horizon,
         NEW rows \in OfferRows,
         ~ (news.version \in Newest(o, Filed(rows, p, news), now) /\ rows.corpus[p] # news.version),
         NEW v \in LiveVersions(o, Filed(rows, p, news).corpus, now)
  PROVE  \E w \in LiveVersions(o, rows.corpus, now) : v <= w
<1> DEFINE corpus == Filed(rows, p, news).corpus
<1>1. /\ corpus = [rows.corpus EXCEPT ![p] = news.version]
      /\ rows.corpus \in [Producers -> Versions \cup {NoVersion}]
  BY FiledShape, RowsAre
<1>2. v \in Versions /\ v \in Nat /\ Expiration[o][v] > now /\ \E q \in Producers : corpus[q] = v
  BY Numbers DEF LiveVersions
<1>3. PICK q \in Producers : corpus[q] = v
  BY <1>2
<1>4. CASE v \in LiveVersions(o, rows.corpus, now)
  BY <1>2, <1>4
<1>5. CASE v \notin LiveVersions(o, rows.corpus, now)
  <2>1. q = p /\ v = news.version /\ rows.corpus[p] # v
    BY <1>1, <1>2, <1>3, <1>5 DEF LiveVersions
  <2>2. v \notin Newest(o, Filed(rows, p, news), now)
    BY <2>1
  <2>3. PICK w \in Versions : /\ \E r \in Producers : corpus[r] = w
                              /\ Expiration[o][w] > now /\ ~ (w <= v)
    BY <1>2, <2>2 DEF Newest
  <2>4. PICK r \in Producers : corpus[r] = w
    BY <2>3
  <2>5. w \in Nat /\ v <= w /\ w # v
    BY <1>2, <2>3, Numbers
  <2>6. rows.corpus[r] = w
    BY <1>1, <2>1, <2>4, <2>5
  <2>7. w \in LiveVersions(o, rows.corpus, now)
    BY <2>3, <2>6 DEF LiveVersions
  <2> QED BY <2>5, <2>7
<1> QED BY <1>4, <1>5

LEMMA UpdatedUpToDate ==
  ASSUME TypeOK, NEW o \in Offers, Updated(o), clock' = clock,
         UpToDate(o, db[o].corpus, Ahead(db[o].timeline, clock), clock)
  PROVE  UpToDate(o, db'[o].corpus, Ahead(db'[o].timeline, clock), clock)
<1>1. PICK p \in Producers, news \in News : db'[o] \in Received(o, p, news, clock)
  BY DEF Updated
<1> DEFINE rows == Filed(db[o], p, news)
<1>2. db[o] \in OfferRows /\ clock \in 0 .. Horizon /\ clock \in Time
  BY Numbers DEF TypeOK
<1>3. /\ rows \in OfferRows /\ rows.timeline = db[o].timeline
      /\ rows.corpus = [db[o].corpus EXCEPT ![p] = news.version]
      /\ db[o].corpus \in [Producers -> Versions \cup {NoVersion}]
      /\ db[o].timeline \subseteq Entry
  BY <1>2, FiledShape, RowsAre
<1>4. CASE db'[o] = [rows EXCEPT !.timeline = DeleteFuture(@, clock)]
  <2>1. db'[o].timeline = DeleteFuture(db[o].timeline, clock)
    BY <1>3, <1>4 DEF OfferRows
  <2>2. Ahead(db'[o].timeline, clock) = {}
    BY <1>2, <1>3, <2>1, AheadAfter
  <2> QED BY <2>2 DEF UpToDate
<1>5. CASE /\ news.version \in Newest(o, rows, clock) /\ news.version \in Versions
           /\ db'[o] \in Relist(o, news.version, rows, clock)
  <2>1. db'[o].corpus = rows.corpus
    BY <1>2, <1>3, <1>5, RelistShape
  <2>2. \A e \in Ahead(db'[o].timeline, clock) : e.version = news.version
    BY <1>2, <1>3, <1>5, RelistedVersion
  <2>3. \A v \in LiveVersions(o, rows.corpus, clock) : v <= news.version
    BY <1>5 DEF Newest, LiveVersions
  <2>4. rows.corpus[p] # NoVersion
    BY <1>3, <1>5, Numbers
  <2> HIDE DEF rows
  <2> QED BY <2>1, <2>2, <2>3, <2>4 DEF UpToDate
<1>6. CASE /\ db'[o] = rows /\ (news = Gone => db[o].corpus[p] = NoVersion)
           /\ ~ (news.version \in Newest(o, rows, clock) /\ db[o].corpus[p] # news.version)
  <2>1. SUFFICES ASSUME Ahead(db[o].timeline, clock) # {}
                 PROVE  UpToDate(o, rows.corpus, Ahead(db[o].timeline, clock), clock)
    BY <1>3, <1>6 DEF UpToDate
  <2>2. \A v \in LiveVersions(o, rows.corpus, clock) :
          \E w \in LiveVersions(o, db[o].corpus, clock) : v <= w
    BY <1>2, <1>6, FiledVersions
  <2>3. ASSUME NEW v \in LiveVersions(o, rows.corpus, clock),
               NEW e \in Ahead(db[o].timeline, clock)
        PROVE  v <= e.version
    <3>1. PICK w \in LiveVersions(o, db[o].corpus, clock) : v <= w
      BY <2>2
    <3>2. w <= e.version
      BY DEF UpToDate
    <3>3. v \in Nat /\ w \in Nat /\ e.version \in Nat
      BY <1>3, Numbers, EntryIs DEF LiveVersions, Ahead
    <3> QED BY <3>1, <3>2, <3>3
  <2>4. \E q \in Producers : rows.corpus[q] # NoVersion
    <3>1. PICK q \in Producers : db[o].corpus[q] # NoVersion
      BY <2>1 DEF UpToDate
    <3>2. CASE q = p
      <4>1. news # Gone
        BY <1>6, <3>1, <3>2
      <4>2. news.version \in Versions
        BY <4>1, NewsVersion
      <4> QED BY <1>3, <4>2, Numbers
    <3>3. CASE q # p
      BY <1>3, <3>1, <3>3
    <3> QED BY <3>2, <3>3
  <2>5. \A d, e \in Ahead(db[o].timeline, clock) : d.version = e.version
    BY DEF UpToDate
  <2> HIDE DEF rows
  <2> QED BY <2>3, <2>4, <2>5 DEF UpToDate
<1> QED BY <1>1, <1>2, <1>4, <1>5, <1>6, ReceivedShape

(* A rejection or reservation relists the offer at the version found, that *)
(* of all that is listed.                                                  *)
LEMMA AskedUpToDate ==
  ASSUME TypeOK, NEW o \in Offers,
         UpToDate(o, db[o].corpus, Ahead(db[o].timeline, clock), clock),
         NEW org, NEW e \in EntriesFor(db[o].timeline, org, clock), e.version \in Versions,
         NEW x \in Entry, db'[o] \in Relist(o, e.version, WithEntry(o, x), clock)
  PROVE  UpToDate(o, db'[o].corpus, Ahead(db'[o].timeline, clock), clock)
<1>1. db[o] \in OfferRows /\ clock \in 0 .. Horizon
  BY DEF TypeOK
<1>2. WithEntry(o, x) \in OfferRows /\ WithEntry(o, x).corpus = db[o].corpus
  BY <1>1, WithEntryType
<1>3. db'[o].corpus = db[o].corpus
  BY <1>1, <1>2, RelistShape
<1>4. \A d \in Ahead(db'[o].timeline, clock) : d.version = e.version
  BY <1>1, <1>2, RelistedVersion
<1>5. e \in Ahead(db[o].timeline, clock)
  BY EntryFoundIsAhead
<1> QED BY <1>3, <1>4, <1>5 DEF UpToDate

LEMMA UpToDateStep ==
  ASSUME TypeOK, AllUpToDate, [Next]_vars
  PROVE  AllUpToDate'
<1> SUFFICES ASSUME NEW o \in Offers
             PROVE  UpToDate(o, db'[o].corpus, Ahead(db'[o].timeline, clock'), clock')
  BY DEF AllUpToDate, UpToDate, LiveVersions
<1>0. /\ db[o] \in OfferRows /\ clock \in 0 .. Horizon /\ clock \in Time /\ clock \in Nat
      /\ db[o].timeline \in SUBSET Entry
  BY Numbers, RowsAre DEF TypeOK
<1>1. UpToDate(o, db[o].corpus, Ahead(db[o].timeline, clock), clock)
  BY DEF AllUpToDate
<1>2. CASE db' = db /\ clock' \in {clock, clock + 1}
  <2>1. Ahead(db[o].timeline, clock') \in SUBSET Ahead(db[o].timeline, clock)
    BY <1>0, <1>2, AheadLater
  <2>2. LiveVersions(o, db[o].corpus, clock') \in SUBSET LiveVersions(o, db[o].corpus, clock)
    <3>1. \A v \in Versions : Expiration[o][v] \in Nat
      BY ConstantsAssumption
    <3>2. \A v \in Versions : Expiration[o][v] > clock' => Expiration[o][v] > clock
      BY <1>0, <1>2, <3>1
    <3> QED BY <3>2 DEF LiveVersions
  <2> QED BY <1>1, <1>2, <2>1, <2>2, UpToDateFewer
<1>3. CASE clock' = clock /\ db'[o] = db[o]
  BY <1>1, <1>3
<1>4. CASE clock' = clock /\ Updated(o)
  BY <1>1, <1>4, UpdatedUpToDate
<1>5. CASE clock' = clock /\ Accepted(o)
  <2>1. \E a : db'[o] = [db[o] EXCEPT !.accepted = @ \cup {a}, !.timeline = CutLive(@, clock)]
    BY <1>5 DEF Accepted
  <2>2. /\ db'[o].corpus = db[o].corpus /\ db'[o].timeline = CutLive(db[o].timeline, clock)
    BY <1>0, <2>1 DEF OfferRows
  <2>3. Ahead(db'[o].timeline, clock) \in SUBSET Ahead(db[o].timeline, clock)
    BY <1>0, <2>2, AheadAfter
  <2> QED BY <1>1, <1>5, <2>2, <2>3, UpToDateFewer
<1>6. CASE clock' = clock /\ Rejected(o)
  <2>1. PICK org \in Orgs \cup {Host} : \E e \in EntriesFor(db[o].timeline, org, clock) :
          db'[o] \in Relist(o, e.version, WithEntry(o, Rejection(o, org, e)), clock)
    BY <1>6 DEF Rejected
  <2>2. PICK e \in EntriesFor(db[o].timeline, org, clock) :
          db'[o] \in Relist(o, e.version, WithEntry(o, Rejection(o, org, e)), clock)
    BY <2>1
  <2> QED BY <1>1, <1>6, <2>2, RejectionType, AskedUpToDate
<1>7. CASE clock' = clock /\ Reserved(o)
  <2>1. PICK org \in Orgs, length \in Lengths : \E e \in EntriesFor(db[o].timeline, org, clock) :
          db'[o] \in Relist(o, e.version, WithEntry(o, Reservation(o, org, e, length)), clock)
    BY <1>7 DEF Reserved
  <2>2. PICK e \in EntriesFor(db[o].timeline, org, clock) :
          db'[o] \in Relist(o, e.version, WithEntry(o, Reservation(o, org, e, length)), clock)
    BY <2>1
  <2> QED BY <1>1, <1>7, <2>2, ReservationType, AskedUpToDate
<1> QED BY <1>2, <1>3, <1>4, <1>5, <1>6, <1>7, StepShape

(* What can be found of an offer is of one version only, which no version  *)
(* that a producer has now and that is not expired is newer than, and the  *)
(* offer is in some producer's latest corpus.                              *)
THEOREM ListedIsNewest == Spec => []NewestListed
<1>1. Init => TypeOK /\ AllUpToDate
  BY TypeInit DEF Init, AllUpToDate, UpToDate, Ahead
<1>2. TypeOK /\ AllUpToDate /\ [Next]_vars => (TypeOK /\ AllUpToDate)'
  BY TypeStep, UpToDateStep
<1> QED BY <1>1, <1>2, UpToDateIsNewest, PTL DEF Spec

-----------------------------------------------------------------------------
(* The past                                                                *)

(* Every entry of A that runs at t has one of B beside it, for the same    *)
(* target and of the same version.                                         *)
Matched(A, B, t) ==
  \A e \in A : ~ IsRejection(e) /\ Covers(e, t) =>
    \E d \in B : /\ ~ IsRejection(d) /\ Covers(d, t)
                 /\ d.target = e.target /\ d.version = e.version

VersionsFound(timeline, viewer, t) == { e.version : e \in EntriesFor(timeline, viewer, t) }

(* What is found at t depends on the targets and versions of what runs     *)
(* then only, not on when it began or ends.                                *)
LEMMA MatchedFound ==
  ASSUME NEW A \in SUBSET Entry, NEW B \in SUBSET Entry, NEW viewer, NEW t,
         Matched(A, B, t), Matched(B, A, t)
  PROVE  VersionsFound(A, viewer, t) \subseteq VersionsFound(B, viewer, t)
<1> DEFINE Seen(T) == { e \in T : /\ ~ IsRejection(e)
                                  /\ e.target \in {viewer, Wildcard}
                                  /\ Covers(e, t) }
           Oldest(T) == { e \in Seen(T) : \A d \in Seen(T) : e.version <= d.version }
           OfViewer(T) == { e \in Oldest(T) : e.target = viewer }
<1>1. \A T : EntriesFor(T, viewer, t) = IF OfViewer(T) = {} THEN Oldest(T) ELSE OfViewer(T)
  BY DEF EntriesFor
<1>2. Seen(A) \subseteq Entry /\ Seen(B) \subseteq Entry
  OBVIOUS
<1>3. /\ \A e \in Seen(A) : \E d \in Seen(B) : d.target = e.target /\ d.version = e.version
      /\ \A e \in Seen(B) : \E d \in Seen(A) : d.target = e.target /\ d.version = e.version
  BY DEF Matched
<1>4. \A d \in Entry : d.version \in Nat
  BY EntryIs
<1> HIDE DEF Seen
(* The oldest of one side match the oldest of the other.                   *)
<1>5. ASSUME NEW S, NEW T, Seen(S) \subseteq Entry, Seen(T) \subseteq Entry,
             \A x \in Seen(S) : \E y \in Seen(T) : y.target = x.target /\ y.version = x.version,
             \A x \in Seen(T) : \E y \in Seen(S) : y.target = x.target /\ y.version = x.version,
             NEW e \in Oldest(S)
      PROVE  \E d \in Oldest(T) : d.target = e.target /\ d.version = e.version
  <2>1. PICK d \in Seen(T) : d.target = e.target /\ d.version = e.version
    BY <1>5
  <2>2. \A x \in Seen(T) : d.version <= x.version
    BY <1>5, <2>1
  <2> QED BY <2>1, <2>2
<1>6. \A e \in Oldest(A) : \E d \in Oldest(B) : d.target = e.target /\ d.version = e.version
  BY <1>2, <1>3, <1>5
<1>7. \A e \in Oldest(B) : \E d \in Oldest(A) : d.target = e.target /\ d.version = e.version
  BY <1>2, <1>3, <1>5
<1> HIDE DEF Oldest
<1>8. ASSUME NEW e \in EntriesFor(A, viewer, t)
      PROVE  \E d \in EntriesFor(B, viewer, t) : d.version = e.version
  <2>1. CASE OfViewer(A) = {}
    <3>1. OfViewer(B) = {}
      BY <1>7, <2>1
    <3> QED BY <1>1, <1>6, <2>1, <3>1
  <2>2. CASE OfViewer(A) # {}
    <3>1. \E d \in OfViewer(B) : d.version = e.version
      BY <1>1, <1>6, <2>2
    <3> QED BY <1>1, <3>1
  <2> QED BY <2>1, <2>2
<1> QED BY <1>8 DEF VersionsFound

(* What ran before now is not touched: an entry that runs is cut, not      *)
(* taken away, and only one that began now or later goes.                  *)
LEMMA PastRemains ==
  ASSUME NEW timeline \in SUBSET Entry, NEW now \in Time, NEW t \in Nat, t < now
  PROVE  /\ Matched(timeline, CutLive(timeline, now), t)
         /\ Matched(timeline, DeleteFuture(timeline, now), t)
<1> SUFFICES ASSUME NEW e \in timeline, ~ IsRejection(e), Covers(e, t)
             PROVE  \E d \in DeleteFuture(timeline, now) :
                      /\ d \in CutLive(timeline, now) /\ ~ IsRejection(d) /\ Covers(d, t)
                      /\ d.target = e.target /\ d.version = e.version
  BY DEF Matched
<1>1. /\ now \in Nat /\ e \in Entry /\ e.start \in Nat /\ e.end \in Nat
      /\ e.start <= t /\ t < e.end /\ e.start < now
  BY Numbers, EntryIs DEF Covers
<1>2. CASE ~ IsLive(e, now)
  BY <1>1, <1>2 DEF CutLive, DeleteFuture
<1>3. CASE IsLive(e, now)
  <2> DEFINE d == [e EXCEPT !.end = now]
  <2>1. /\ d.start = e.start /\ d.end = now /\ d.target = e.target /\ d.version = e.version
        /\ d.kind = e.kind
    BY <1>1 DEF Entry
  <2>2. d \in CutLive(timeline, now)
    BY <1>1, <1>3 DEF CutLive
  <2> HIDE DEF d
  <2>3. d \in DeleteFuture(timeline, now)
    BY <1>1, <2>1, <2>2 DEF DeleteFuture
  <2>4. Covers(d, t) /\ ~ IsRejection(d)
    BY <1>1, <2>1 DEF Covers, IsRejection
  <2> QED BY <2>1, <2>2, <2>3, <2>4
<1> QED BY <1>2, <1>3

LEMMA RelistKeeps ==
  ASSUME NEW o, NEW v, NEW rows \in OfferRows, NEW now, NEW next \in Relist(o, v, rows, now)
  PROVE  DeleteFuture(rows.timeline, now) \subseteq next.timeline
<1>1. PICK local \in LocalEntries(o, v, rows, now), remote \in RemoteEntries(o, v, rows, now) :
        /\ next.timeline = DeleteFuture(rows.timeline, now) \cup local \cup remote
        /\ next = [rows EXCEPT !.timeline = next.timeline]
  BY RelistParts
<1> QED BY <1>1

(* A step leaves what ran before now and adds nothing that did.            *)
LEMMA PastMatched ==
  ASSUME TypeOK, [Next]_vars, NEW o \in Offers, NEW t \in 0 .. clock - 1
  PROVE  /\ Matched(db[o].timeline, db'[o].timeline, t)
         /\ Matched(db'[o].timeline, db[o].timeline, t)
<1>0. /\ db[o] \in OfferRows /\ db'[o] \in OfferRows /\ clock \in 0 .. Horizon
      /\ clock \in Time /\ TimelineStep(o)
      /\ db[o].timeline \in SUBSET Entry /\ db'[o].timeline \in SUBSET Entry
      /\ t \in Nat /\ clock \in Nat /\ t < clock
  BY RowsStep, RowsAre, Numbers
<1>1. Matched(db[o].timeline, db'[o].timeline, t)
  <2>1. CASE db'[o].timeline = db[o].timeline
    BY <2>1 DEF Matched
  <2>2. CASE db'[o].timeline \in {CutLive(db[o].timeline, clock), DeleteFuture(db[o].timeline, clock)}
    BY <1>0, <2>2, PastRemains
  <2>3. ASSUME NEW v \in Versions, NEW rows \in OfferRows, Source(o, rows),
               db'[o] \in Relist(o, v, rows, clock)
        PROVE  Matched(db[o].timeline, db'[o].timeline, t)
    <3>1. db[o].timeline \subseteq rows.timeline /\ rows.timeline \in SUBSET Entry
      BY <2>3, RowsAre DEF Source
    <3>2. Matched(rows.timeline, DeleteFuture(rows.timeline, clock), t)
      BY <1>0, <3>1, PastRemains
    <3>3. DeleteFuture(rows.timeline, clock) \subseteq db'[o].timeline
      BY <2>3, RelistKeeps
    <3> QED BY <3>1, <3>2, <3>3 DEF Matched
  <2> QED BY <1>0, <2>1, <2>2, <2>3 DEF TimelineStep
<1>2. Matched(db'[o].timeline, db[o].timeline, t)
  <2> SUFFICES ASSUME NEW e \in db'[o].timeline, ~ IsRejection(e), Covers(e, t)
               PROVE  \E d \in db[o].timeline :
                        /\ ~ IsRejection(d) /\ Covers(d, t)
                        /\ d.target = e.target /\ d.version = e.version
    BY DEF Matched
  <2>1. /\ e \in Entry /\ e.start \in Nat /\ e.end \in Nat
        /\ e.start <= t /\ t < e.end /\ e.start < clock
    BY <1>0, EntryIs DEF Covers
  <2>2. ASSUME NEW d \in Entry, LeftOf(e, d, clock)
        PROVE  /\ ~ IsRejection(d) /\ Covers(d, t)
               /\ d.target = e.target /\ d.version = e.version /\ d.start = e.start
    <3>1. /\ e.target = d.target /\ e.version = d.version /\ e.start = d.start
          /\ e.kind = d.kind /\ e.end <= d.end /\ d.end \in Nat
      BY <1>0, <2>2, LeftOfShape, EntryIs
    <3> QED BY <2>1, <1>0, <3>1 DEF Covers, IsRejection
  <2>3. CASE Carried(o, e)
    <3>1. ASSUME NEW x, Asked(o, x), LeftOf(e, x, clock) PROVE FALSE
      <4>1. x \in Entry /\ x.start = clock
        BY <3>1 DEF Asked
      <4> QED BY <1>0, <2>1, <2>2, <3>1, <4>1
    <3>2. PICK d \in db[o].timeline : e = d \/ LeftOf(e, d, clock)
      BY <2>3, <3>1 DEF Carried
    <3> QED BY <1>0, <2>2, <3>2
  <2>4. ASSUME NEW v \in Versions, NEW rows \in OfferRows, ListedAnew(o, v, rows, e)
        PROVE  FALSE
    <3>1. CASE e.start = clock
      BY <1>0, <2>1, <3>1
    <3>2. CASE \E remote \in RemoteEntries(o, v, rows, clock) : e \in remote
      <4>1. clock <= e.start
        BY <1>0, <3>2, RemoteMember
      <4> QED BY <1>0, <2>1, <4>1
    <3> QED BY <2>4, <3>1, <3>2 DEF ListedAnew
  <2> QED BY <2>3, <2>4, EntryStep
<1> QED BY <1>1, <1>2

(* Under every policy, what list answers about a moment that has passed    *)
(* stays as it was, whatever is updated, taken, refused or reserved since, *)
(* and histories only grow.                                                *)
THEOREM PastStaysFixed == Spec => PastFixed
<1>1. ASSUME TypeOK, [Next]_vars, NEW org \in Orgs \cup {Host}, NEW t \in 0 .. clock - 1
      PROVE  ListAt(org, t)' = ListAt(org, t)
  <2>1. ASSUME NEW o \in Offers
        PROVE  VersionsFound(db'[o].timeline, org, t) = VersionsFound(db[o].timeline, org, t)
    <3>1. db[o].timeline \in SUBSET Entry /\ db'[o].timeline \in SUBSET Entry
      BY <1>1, RowsStep, RowsAre
    <3>2. /\ Matched(db[o].timeline, db'[o].timeline, t)
          /\ Matched(db'[o].timeline, db[o].timeline, t)
      BY <1>1, PastMatched
    <3>3. VersionsFound(db'[o].timeline, org, t) \subseteq VersionsFound(db[o].timeline, org, t)
      BY <3>1, <3>2, MatchedFound
    <3>4. VersionsFound(db[o].timeline, org, t) \subseteq VersionsFound(db'[o].timeline, org, t)
      BY <3>1, <3>2, MatchedFound
    <3> QED BY <3>3, <3>4
  <2>2. /\ ListAt(org, t) = [o \in Offers |-> VersionsFound(db[o].timeline, org, t)]
        /\ ListAt(org, t)' = [o \in Offers |-> VersionsFound(db'[o].timeline, org, t)]
    BY DEF ListAt, VersionsFound
  <2> QED BY <2>1, <2>2
<1>2. ASSUME TypeOK, [Next]_vars, NEW org \in Orgs \cup {Host}, NEW o \in Offers
      PROVE  History(org, 0)[o] \subseteq History(org, 0)'[o]
  <2>1. db[o].accepted \subseteq db'[o].accepted
    BY <1>2, RowsStep
  <2> QED BY <2>1 DEF History
<1>3. TypeOK /\ [Next]_vars =>
        [\A org \in Orgs \cup {Host} :
           /\ \A t \in 0 .. clock - 1 : ListAt(org, t)' = ListAt(org, t)
           /\ \A o \in Offers : History(org, 0)[o] \subseteq History(org, 0)'[o]]_vars
  BY <1>1, <1>2
<1> QED BY <1>3, SqlModelTypeCorrect, PTL DEF Spec, PastFixed

-----------------------------------------------------------------------------
(* Reservations                                                            *)

(* The policy listed the holder of a reservation until its end or later.   *)
Backed(o, r) ==
  \E first \in Time, now \in 0 .. Horizon, rejections, sharedBy \in SUBSET Targets :
    LET listings == Listings(o, r.version, first, now, rejections, sharedBy) IN
    \E k \in DOMAIN listings : listings[k].org = r.target /\ r.end <= listings[k].end

(* Organizations hold reservations, those that are not over under a        *)
(* listing.                                                                *)
ReservationsBacked ==
  \A o \in Offers : \A r \in db[o].timeline : r.kind = "reservation" =>
    /\ r.target \in Orgs
    /\ r.end > clock => Backed(o, r)

LEMMA RemoteBacked ==
  ASSUME NEW o \in Offers, NEW v \in Versions, NEW rows \in OfferRows, NEW now \in 0 .. Horizon,
         NEW remote \in RemoteEntries(o, v, rows, now), NEW e \in remote,
         e.kind = "reservation"
  PROVE  Backed(o, e)
<1> DEFINE listings == PolicyListings(o, v, rows, now)
<1>1. PICK root \in RootChains(o, v, rows),
           reservation \in CurrentReservations(rows.timeline, now) :
        remote = ListedEntries(o, v, listings, reservation, root, now)
  BY RemoteShape
<1>2. now \in Time /\ rows.timeline \in SUBSET Entry
  BY Numbers, RowsAre
<1>3. IsCurrent(reservation, now)
  BY <1>2, CurrentReservationsShape
<1>4. /\ root \in Seq(Orgs) /\ listings \in Seq(Listing)
      /\ FirstListingTime(rows.timeline, now) \in Time
      /\ Rejections(rows.timeline, now) \in SUBSET Targets
      /\ SharedBy(o, v, rows) \in SUBSET Targets
  BY RootChainsShape, PolicyIsAsked
<1> HIDE DEF listings
<1>5. e \in HeldEntries(v, listings, reservation, now)
  BY <1>1, <1>2, <1>3, <1>4, ListedShape
<1>6. PICK r \in reservation, k \in LiveListings(listings, now) :
        /\ e.target = listings[k].org /\ e.end = Lesser(r.end, listings[k].end)
  BY <1>2, <1>3, <1>4, <1>5, HeldShape
<1>7. k \in DOMAIN listings /\ listings[k].end \in Nat
  <2>1. k \in DOMAIN listings
    BY DEF LiveListings
  <2>2. listings[k] \in Listing
    BY <1>4, <2>1
  <2> QED BY <2>1, <2>2 DEF Listing
<1>8. r.end \in Nat
  BY <1>3, EntryIs DEF IsCurrent
<1>9. e.end <= listings[k].end
  BY <1>6, <1>7, <1>8 DEF Lesser
<1>10. e.version = v
  BY RemoteMember
<1> QED BY <1>4, <1>6, <1>7, <1>9, <1>10 DEF Backed, listings, PolicyListings

LEMMA BackedStep ==
  ASSUME TypeOK, ReservationsBacked, [Next]_vars
  PROVE  ReservationsBacked'
<1> SUFFICES ASSUME NEW o \in Offers, NEW e \in db'[o].timeline, e.kind = "reservation"
             PROVE  e.target \in Orgs /\ (e.end > clock' => Backed(o, e))
  BY DEF ReservationsBacked, Backed
<1>0. /\ db[o] \in OfferRows /\ db'[o] \in OfferRows /\ clock \in 0 .. Horizon
      /\ clock \in Time /\ clock \in Nat /\ clock' \in {clock, clock + 1} /\ TimelineStep(o)
  BY RowsStep, Numbers
<1>1. e \in Entry /\ e.end \in Nat /\ e.start \in Nat /\ ~ IsRejection(e)
  BY <1>0, RowsAre, EntryIs DEF IsRejection
<1>2. e.target \in Orgs
  <2>1. ASSUME NEW d \in Entry, e = d \/ LeftOf(e, d, clock)
        PROVE  d.kind = "reservation" /\ d.target = e.target
    BY <1>0, <2>1, LeftOfShape
  <2>2. ASSUME NEW d \in db[o].timeline, d.kind = "reservation", d.target = e.target
        PROVE  e.target \in Orgs
    BY <2>2 DEF ReservationsBacked
  <2>3. CASE Carried(o, e)
    <3>1. ASSUME NEW x, Asked(o, x), LeftOf(e, x, clock) PROVE e.target \in Orgs
      BY <2>1, <3>1 DEF Asked
    <3>2. ASSUME NEW d \in db[o].timeline, e = d \/ LeftOf(e, d, clock) PROVE e.target \in Orgs
      BY <1>0, <2>1, <2>2, <3>2, RowsAre
    <3> QED BY <2>3, <3>1, <3>2 DEF Carried
  <2>4. ASSUME NEW v \in Versions, NEW rows \in OfferRows, Source(o, rows),
               ListedAnew(o, v, rows, e)
        PROVE  e.target \in Orgs
    <3>1. CarriesOn(e, rows)
      BY <1>0, <2>4, RemoteMember DEF ListedAnew, PassesOn
    <3>2. PICK r \in rows.timeline : r.kind = "reservation" /\ r.target = e.target
      BY <3>1 DEF CarriesOn
    <3> QED BY <2>2, <2>4, <3>2 DEF Source, Asked
  <2> QED BY <2>3, <2>4, EntryStep
<1>3. ASSUME e.end > clock' PROVE Backed(o, e)
  <2>1. e.end > clock
    BY <1>0, <1>1, <1>3
  <2>2. CASE e \in db[o].timeline
    BY <2>1, <2>2 DEF ReservationsBacked
  <2>3. ASSUME NEW timeline \in SUBSET Entry, e \in CutLive(timeline, clock) PROVE e \in timeline
    <3>1. e \in Ahead(CutLive(timeline, clock), clock)
      BY <1>1, <2>1, <2>3 DEF Ahead
    <3> QED BY <1>0, <3>1, AheadAfter DEF Ahead
  <2>4. CASE db'[o].timeline = CutLive(db[o].timeline, clock)
    BY <1>0, <2>2, <2>3, <2>4, RowsAre
  <2>5. CASE db'[o].timeline = DeleteFuture(db[o].timeline, clock)
    <3>1. e \in CutLive(db[o].timeline, clock)
      BY <2>5 DEF DeleteFuture
    <3> QED BY <1>0, <2>2, <2>3, <3>1, RowsAre
  <2>6. ASSUME NEW v \in Versions, NEW rows \in OfferRows, db'[o] \in Relist(o, v, rows, clock)
        PROVE  Backed(o, e)
    <3>1. ~ (e.end <= clock)
      BY <1>0, <1>1, <2>1
    <3>2. PICK remote \in RemoteEntries(o, v, rows, clock) : e \in remote
      BY <1>0, <1>1, <2>6, <3>1, RelistShape
    <3> QED BY <1>0, <3>2, RemoteBacked
  <2> QED BY <1>0, <2>2, <2>4, <2>5, <2>6 DEF TimelineStep
<1> QED BY <1>2, <1>3

(* While a reservation runs, only its holder finds the offer.              *)
LEMMA HolderFound ==
  ASSUME TypeOK, ChecksHold, ReservationsBacked, NEW o \in Offers,
         NEW r \in db[o].timeline, r.kind = "reservation", Covers(r, clock),
         NEW org, NEW e \in EntriesFor(db[o].timeline, org, clock)
  PROVE  e = r /\ org = r.target
<1>1. /\ db[o].timeline \subseteq Entry /\ clock \in Nat /\ e \in db[o].timeline
      /\ Covers(e, clock) /\ ~ IsRejection(e) /\ e.target \in {org, Wildcard}
  BY RowsAre, Numbers, EntriesForShape DEF TypeOK
<1>2. /\ e.start \in Nat /\ e.end \in Nat /\ r.start \in Nat /\ r.end \in Nat
  BY <1>1, EntryIs
<1>3. e \in Ahead(db[o].timeline, clock) /\ r \in Ahead(db[o].timeline, clock)
  BY <1>1, <1>2 DEF Ahead, Covers, IsRejection
<1>4. e = r
  <2> SUFFICES ASSUME e # r PROVE FALSE
    OBVIOUS
  <2>1. Intersect(e, r) = {}
    BY <1>3 DEF ChecksHold, ChecksPass
  <2>2. Greater(e.start, r.start) < Lesser(e.end, r.end)
    BY <1>1, <1>2 DEF Covers, Greater, Lesser
  <2> QED BY <2>1, <2>2 DEF Intersect, Between
<1>5. r.target \in Orgs /\ Wildcard \notin Orgs
  BY ConstantsAssumption DEF ReservationsBacked
<1> QED BY <1>1, <1>4, <1>5

(* Relisting carries a reservation on for a holder that is still listed.   *)
LEMMA HeldExists ==
  ASSUME NEW v \in Versions, NEW listings \in Seq(Listing), NEW now \in Time,
         NEW q, IsCurrent({q}, now),
         NEW j \in DOMAIN listings, listings[j].org = q.target, now < listings[j].end
  PROVE  \E s \in HeldEntries(v, listings, {q}, now) : s.target = q.target
<1> DEFINE holds == { k \in LiveListings(listings, now) :
                        \E r \in {q} : r.target = listings[k].org }
<1>1. j \in holds /\ holds \in SUBSET Nat
  BY DEF LiveListings
<1>2. PICK k \in holds : \A i \in holds : k <= i
  BY <1>1, MinExists
<1> DEFINE s == MakeEntry(q.target, v,
                          [start |-> now, end |-> Lesser(q.end, listings[k].end)],
                          "reservation", <<>>)
<1>3. s \in HeldEntries(v, listings, {q}, now)
  BY <1>2 DEF HeldEntries
<1>4. s.target = q.target
  BY MakeEntryIs
<1> QED BY <1>3, <1>4

LEMMA StablyListed ==
  ASSUME ListsStably, NEW o \in Offers, Own(o), NEW r, r.version \in Versions, r.end \in Nat,
         Backed(o, r), NEW rows \in OfferRows, NEW now \in 0 .. Horizon,
         r.target \notin Rejections(rows.timeline, now)
  PROVE  \E j \in DOMAIN PolicyListings(o, r.version, rows, now) :
           /\ PolicyListings(o, r.version, rows, now)[j].org = r.target
           /\ PolicyListings(o, r.version, rows, now)[j].end >= r.end
<1> DEFINE v == r.version
           first2 == FirstListingTime(rows.timeline, now)
           rejections2 == Rejections(rows.timeline, now)
           sharedBy2 == SharedBy(o, v, rows)
<1>1. PICK first1 \in Time, now1 \in 0 .. Horizon, rejections1 \in SUBSET Targets,
           sharedBy1 \in SUBSET Targets :
        \E k \in DOMAIN Listings(o, v, first1, now1, rejections1, sharedBy1) :
          /\ Listings(o, v, first1, now1, rejections1, sharedBy1)[k].org = r.target
          /\ r.end <= Listings(o, v, first1, now1, rejections1, sharedBy1)[k].end
  BY DEF Backed
<1>2. /\ first2 \in Time /\ rejections2 \in SUBSET Targets /\ sharedBy2 \in SUBSET Targets
  BY PolicyIsAsked
<1>3. PolicyListings(o, v, rows, now) = Listings(o, v, first2, now, rejections2, sharedBy2)
  BY DEF PolicyListings
<1>4. v \in Versions /\ r.target \notin rejections2
  OBVIOUS
<1> HIDE DEF v, first2, rejections2, sharedBy2
<1> DEFINE before == Listings(o, v, first1, now1, rejections1, sharedBy1)
           after == Listings(o, v, first2, now, rejections2, sharedBy2)
<1>5. PICK k \in DOMAIN before : before[k].org = r.target /\ r.end <= before[k].end
  BY <1>1
<1>6. StillListed(before, after, rejections2)
  <2>1. \A first \in Time, t \in 0 .. Horizon, rejections, sharedBy \in SUBSET Targets :
          StillListed(before, Listings(o, v, first, t, rejections, sharedBy), rejections)
    BY <1>4 DEF ListsStably
  <2> QED BY <1>2, <2>1
<1>7. before \in Seq(Listing) /\ after \in Seq(Listing)
  BY <1>2, <1>4, PolicyAssumption
<1> HIDE DEF before, after
<1>8. PICK j \in DOMAIN after : after[j].org = before[k].org /\ after[j].end >= before[k].end
  BY <1>4, <1>5, <1>6 DEF StillListed
<1>9. before[k].end \in Nat /\ after[j].end \in Nat
  <2>1. before[k] \in Listing /\ after[j] \in Listing
    BY <1>7
  <2> QED BY <2>1 DEF Listing
<1>10. after[j].org = r.target /\ after[j].end >= r.end
  BY <1>5, <1>8, <1>9
<1> QED BY <1>3, <1>10 DEF v, after

LEMMA ReservationCarried ==
  ASSUME ListsStably, TypeOK, NEW o \in Offers, Own(o),
         NEW r \in db[o].timeline, r.kind = "reservation", Covers(r, clock), Backed(o, r),
         NEW x \in Entry, r.target \notin Rejections(WithEntry(o, x).timeline, clock),
         \A q \in WithEntry(o, x).timeline :
           q.kind = "reservation" /\ Covers(q, clock) => q.target = r.target,
         NEW next \in Relist(o, r.version, WithEntry(o, x), clock)
  PROVE  \E s \in next.timeline : /\ s.kind = "reservation" /\ Covers(s, clock)
                                  /\ s.target = r.target
<1> DEFINE rows == WithEntry(o, x)
           listings == PolicyListings(o, r.version, rows, clock)
<1>1. /\ db[o] \in OfferRows /\ clock \in 0 .. Horizon /\ clock \in Time /\ clock \in Nat
  BY Numbers DEF TypeOK
<1>2. rows \in OfferRows /\ rows.timeline = db[o].timeline \cup {x} /\ rows.timeline \in SUBSET Entry
  BY <1>1, WithEntryType, RowsAre
<1>3. r \in Entry /\ r.version \in Versions /\ r.end \in Nat /\ clock < r.end
  BY <1>1, RowsAre, EntryIs DEF Covers
<1>4. /\ FirstListingTime(rows.timeline, clock) \in Time
      /\ Rejections(rows.timeline, clock) \in SUBSET Targets
      /\ SharedBy(o, r.version, rows) \in SUBSET Targets
      /\ listings \in Seq(Listing)
  BY <1>1, <1>2, <1>3, PolicyIsAsked
<1>5. \E j \in DOMAIN listings : listings[j].org = r.target /\ listings[j].end >= r.end
  BY <1>1, <1>2, <1>3, StablyListed
<1>0. next \in Relist(o, r.version, rows, clock)
  OBVIOUS
<1> HIDE DEF rows, listings
<1>6. PICK j \in DOMAIN listings : listings[j].org = r.target /\ listings[j].end >= r.end
  BY <1>5
<1>7. clock < listings[j].end
  <2>1. listings[j] \in Listing
    BY <1>4
  <2>2. listings[j].end \in Nat
    BY <2>1 DEF Listing
  <2> QED BY <1>1, <1>3, <1>6, <2>2
<1>8. PICK remote \in RemoteEntries(o, r.version, rows, clock) : remote \subseteq next.timeline
  <2>1. PICK local \in LocalEntries(o, r.version, rows, clock),
             remote \in RemoteEntries(o, r.version, rows, clock) :
          next = [rows EXCEPT !.timeline = DeleteFuture(rows.timeline, clock) \cup local \cup remote]
    BY <1>0 DEF Relist
  <2>2. next.timeline = DeleteFuture(rows.timeline, clock) \cup local \cup remote
    BY <1>2, <2>1 DEF OfferRows
  <2> QED BY <2>2
<1>9. PICK root \in RootChains(o, r.version, rows),
           reservation \in CurrentReservations(rows.timeline, clock) :
        remote = ListedEntries(o, r.version, listings, reservation, root, clock)
  <2>1. RootChains(o, r.version, rows) # {}
    BY DEF RootChains
  <2> QED BY <2>1, <1>8 DEF RemoteEntries, listings, PolicyListings
<1>10. PICK q \in rows.timeline : /\ q.kind = "reservation" /\ Covers(q, clock)
                                  /\ reservation = {q}
  BY <1>2, <1>9 DEF CurrentReservations
<1>11. q.target = r.target /\ IsCurrent({q}, clock)
  BY <1>1, <1>2, <1>9, <1>10, CurrentReservationsShape DEF rows
<1>12. PICK s \in HeldEntries(r.version, listings, {q}, clock) : s.target = q.target
  BY <1>1, <1>3, <1>4, <1>6, <1>7, <1>11, HeldExists
<1>13. s.kind = "reservation" /\ s.start = clock /\ clock < s.end
  BY <1>1, <1>3, <1>4, <1>11, HeldShape
<1>14. s \in next.timeline
  BY <1>8, <1>9, <1>10, <1>12 DEF ListedEntries
<1> QED BY <1>1, <1>11, <1>12, <1>13, <1>14 DEF Covers

(* What becomes of a reservation that runs.                                *)
Stands(o, r) ==
  \/ \E s \in db'[o].timeline : /\ s.kind = "reservation" /\ Covers(s, clock')
                                /\ s.target = r.target
  \/ \E h \in db'[o].accepted : h.by = r.target /\ h.at = clock
  \/ r.target \in Rejections(db'[o].timeline, clock')

(* Relisting after its holder asked for a rejection or another reservation.*)
LEMMA StandsAfterAsked ==
  ASSUME ListsStably, TypeOK, RejectedUnlisted, ChecksHold, ReservationsBacked,
         clock' = clock, NEW o \in Offers, Own(o),
         NEW r \in db[o].timeline, r.kind = "reservation", Covers(r, clock),
         NEW x \in Entry, x.start = clock, x.target = r.target,
         x.kind \in {"rejection", "reservation"},
         db'[o] \in Relist(o, r.version, WithEntry(o, x), clock)
  PROVE  Stands(o, r)
<1>1. /\ db[o] \in OfferRows /\ clock \in Time /\ clock \in Nat
      /\ db[o].timeline \subseteq Entry
  BY Numbers, RowsAre DEF TypeOK
<1>2. /\ WithEntry(o, x) \in OfferRows
      /\ WithEntry(o, x).timeline = db[o].timeline \cup {x}
  BY <1>1, WithEntryType
<1>3. /\ r.target \in Orgs /\ r.start \in Nat /\ r.end \in Nat /\ clock < r.end
      /\ r.start <= clock /\ r.version \in Versions /\ ~ IsRejection(r)
  BY <1>1, EntryIs DEF ReservationsBacked, Covers, IsRejection
<1>4. CASE IsRejection(x) /\ Covers(x, clock)
  <2>1. x \in DeleteFuture(WithEntry(o, x).timeline, clock)
    <3>1. x \in CutLive(WithEntry(o, x).timeline, clock)
      BY <1>2, <1>4 DEF CutLive, IsLive
    <3> QED BY <3>1, <1>1 DEF DeleteFuture
  <2>2. x \in db'[o].timeline
    BY <1>2, <2>1, RelistKeeps
  <2> QED BY <1>4, <2>2 DEF Stands, Rejections
<1>5. CASE ~ (IsRejection(x) /\ Covers(x, clock))
  <2>1. ASSUME NEW y \in db[o].timeline, IsRejection(y), Covers(y, clock), y.target = r.target
        PROVE  FALSE
    <3>1. y.start \in Nat /\ y.end \in Nat /\ y.start <= clock /\ clock < y.end
      BY <1>1, <2>1, EntryIs DEF Covers
    <3>2. Intersect(y, r) = {}
      BY <1>3, <2>1 DEF RejectedUnlisted
    <3>3. Greater(y.start, r.start) < Lesser(y.end, r.end)
      BY <1>1, <1>3, <3>1 DEF Greater, Lesser
    <3> QED BY <3>2, <3>3 DEF Intersect, Between
  <2>2. r.target \notin Rejections(WithEntry(o, x).timeline, clock)
    BY <1>2, <1>5, <2>1 DEF Rejections
  <2>3. ASSUME NEW q \in db[o].timeline, q.kind = "reservation", Covers(q, clock)
        PROVE  q.target = r.target
    <3>1. q \in Ahead(db[o].timeline, clock) /\ r \in Ahead(db[o].timeline, clock)
      BY <1>1, <1>3, <2>3, EntryIs DEF Ahead, Covers, IsRejection
    <3> QED BY <2>3, <3>1 DEF ChecksHold, ChecksPass
  <2>4. \A q \in WithEntry(o, x).timeline :
          q.kind = "reservation" /\ Covers(q, clock) => q.target = r.target
    BY <1>2, <2>3
  <2>5. Backed(o, r)
    BY <1>3 DEF ReservationsBacked
  <2>6. \E s \in db'[o].timeline : /\ s.kind = "reservation" /\ Covers(s, clock)
                                   /\ s.target = r.target
    BY <2>2, <2>4, <2>5, ReservationCarried
  <2> QED BY <2>6 DEF Stands
<1> QED BY <1>4, <1>5

LEMMA ReservationStep ==
  ASSUME ListsStably, TypeOK, RejectedUnlisted, ReservationsOwn, ChecksHold,
         ReservationsBacked, [Next]_vars,
         NEW o \in Offers, db'[o].corpus = db[o].corpus,
         NEW r \in db[o].timeline, r.kind = "reservation", Covers(r, clock), Covers(r, clock')
  PROVE  Stands(o, r)
<1>1. db[o] \in OfferRows /\ clock \in 0 .. Horizon /\ Own(o)
  BY DEF TypeOK, ReservationsOwn
<1>2. CASE db'[o].timeline = db[o].timeline
  BY <1>2 DEF Stands
<1>3. CASE clock' = clock /\ Updated(o)
  <2>1. PICK p \in Producers, news \in News : db'[o] \in Received(o, p, news, clock)
    BY <1>3 DEF Updated
  <2> DEFINE rows == Filed(db[o], p, news)
  <2>2. /\ rows \in OfferRows /\ rows.timeline = db[o].timeline
        /\ rows.corpus = [db[o].corpus EXCEPT ![p] = news.version]
        /\ db[o].corpus \in [Producers -> Versions \cup {NoVersion}]
    BY <1>1, FiledShape, RowsAre
  <2>3. rows.corpus[p] = news.version
    BY <2>2
  <2>4. CASE /\ news = Gone /\ db[o].corpus[p] # NoVersion
             /\ db'[o] = [rows EXCEPT !.timeline = DeleteFuture(@, clock)]
    <3>1. db'[o].corpus = rows.corpus
      BY <2>2, <2>4 DEF OfferRows
    <3> QED BY <2>3, <2>4, <3>1 DEF Gone
  <2>5. CASE /\ news.version \in Versions /\ db[o].corpus[p] # news.version
             /\ db'[o] \in Relist(o, news.version, rows, clock)
    <3>1. db'[o].corpus = rows.corpus
      BY <1>1, <2>2, <2>5, RelistShape
    <3> QED BY <2>3, <2>5, <3>1
  <2>6. CASE db'[o] = rows
    BY <1>2, <2>2, <2>6
  <2> QED BY <1>1, <2>1, <2>4, <2>5, <2>6, ReceivedShape
<1>4. CASE clock' = clock /\ Accepted(o)
  <2>1. PICK org \in Orgs, sharers \in SUBSET Orgs : \E e \in EntriesFor(db[o].timeline, org, clock) :
          db'[o] = [db[o] EXCEPT
                      !.accepted = @ \cup {[version |-> e.version, by |-> org, at |-> clock,
                                            viewers |-> {Host, org} \cup sharers]},
                      !.timeline = CutLive(@, clock)]
    BY <1>4 DEF Accepted
  <2>2. PICK e \in EntriesFor(db[o].timeline, org, clock) :
          db'[o] = [db[o] EXCEPT
                      !.accepted = @ \cup {[version |-> e.version, by |-> org, at |-> clock,
                                            viewers |-> {Host, org} \cup sharers]},
                      !.timeline = CutLive(@, clock)]
    BY <2>1
  <2> DEFINE h == [version |-> e.version, by |-> org, at |-> clock,
                   viewers |-> {Host, org} \cup sharers]
  <2>3. h \in db'[o].accepted
    BY <1>1, <2>2 DEF OfferRows
  <2>4. org = r.target
    BY HolderFound
  <2> QED BY <2>3, <2>4 DEF Stands
<1>5. CASE clock' = clock /\ Rejected(o)
  <2>1. PICK org \in Orgs \cup {Host} : \E e \in EntriesFor(db[o].timeline, org, clock) :
          db'[o] \in Relist(o, e.version, WithEntry(o, Rejection(o, org, e)), clock)
    BY <1>5 DEF Rejected
  <2>2. PICK e \in EntriesFor(db[o].timeline, org, clock) :
          db'[o] \in Relist(o, e.version, WithEntry(o, Rejection(o, org, e)), clock)
    BY <2>1
  <2>3. e = r /\ org = r.target
    BY HolderFound
  <2> DEFINE x == Rejection(o, org, e)
  <2>4. x \in Entry /\ IsRejection(x) /\ x.target = r.target /\ x.start = clock
    BY <2>3, RejectionType
  <2>5. db'[o] \in Relist(o, r.version, WithEntry(o, x), clock)
    BY <2>2, <2>3
  <2> HIDE DEF x
  <2> QED BY <1>1, <1>5, <2>4, <2>5, StandsAfterAsked DEF IsRejection
<1>6. CASE clock' = clock /\ Reserved(o)
  <2>1. PICK org \in Orgs, length \in Lengths : \E e \in EntriesFor(db[o].timeline, org, clock) :
          db'[o] \in Relist(o, e.version, WithEntry(o, Reservation(o, org, e, length)), clock)
    BY <1>6 DEF Reserved
  <2>2. PICK e \in EntriesFor(db[o].timeline, org, clock) :
          db'[o] \in Relist(o, e.version, WithEntry(o, Reservation(o, org, e, length)), clock)
    BY <2>1
  <2>3. e = r /\ org = r.target
    BY HolderFound
  <2> DEFINE x == Reservation(o, org, e, length)
  <2>4. x \in Entry /\ x.kind = "reservation" /\ x.target = r.target /\ x.start = clock
    BY <2>3, ReservationType
  <2>5. db'[o] \in Relist(o, r.version, WithEntry(o, x), clock)
    BY <2>2, <2>3
  <2> HIDE DEF x
  <2> QED BY <1>1, <1>6, <2>4, <2>5, StandsAfterAsked
<1> QED BY <1>2, <1>3, <1>4, <1>5, <1>6, StepShape

(* Under a policy that honours refusals, lists each organization once and  *)
(* goes on listing whom it lists, a reservation stands until it ends or    *)
(* its holder accepts or rejects the offer, unless a feed changes it.      *)
THEOREM ReservationStands ==
  ASSUME HonoursRefusals, ListsEachOnce, ListsStably
  PROVE  Spec => ReservationKept
<1> DEFINE Inv == /\ TypeOK /\ RejectionsMade /\ RejectedUnlisted
                  /\ ReservationsOwn /\ ChecksHold /\ ReservationsBacked
<1>1. Init => Inv
  BY TypeInit DEF Init, RejectionsMade, RejectedUnlisted, ReservationsOwn, ChecksHold,
                  ChecksPass, Ahead, ReservationsBacked
<1>2. Inv /\ [Next]_vars => Inv'
  BY TypeStep, RejectionsMadeStep, RejectedStep, ReservationsOwnStep, ChecksStep, BackedStep
<1>3. Inv /\ [Next]_vars =>
        [\A o \in Offers : db'[o].corpus = db[o].corpus =>
           \A r \in db[o].timeline :
             r.kind = "reservation" /\ Covers(r, clock) /\ Covers(r, clock') =>
               \/ \E s \in db'[o].timeline : /\ s.kind = "reservation" /\ Covers(s, clock')
                                             /\ s.target = r.target
               \/ \E h \in db'[o].accepted : h.by = r.target /\ h.at = clock
               \/ r.target \in Rejections(db'[o].timeline, clock')]_vars
  BY ReservationStep DEF Stands
<1> QED BY <1>1, <1>2, <1>3, PTL DEF Spec, ReservationKept
=============================================================================
