------------------------- MODULE OfferMarketProofs --------------------------
(***************************************************************************)
(* Proofs about what PersistentOfferModel keeps on the market.  However    *)
(* late calls commit: an offer stays listed to those it is for until it is *)
(* taken, and the settled past stays as it was.  When calls and updates    *)
(* commit in the instant in which they read the clock: nothing withdrawn,  *)
(* superseded or accepted is listed, and a reservation is given as it is   *)
(* answered and stands.  What the listing policy must promise is named in  *)
(* each theorem.                                                           *)
(***************************************************************************)
EXTENDS PersistentOfferModelProofs, IntervalProofs

NoLag == MaxLag = 0

(* The rows of an offer: on the market at t are versions that nothing      *)
(* published is newer than, and none when nothing is published.            *)
Withdrawn(rows, t) ==
  Published(rows.corpus) = {} => \A e \in rows.timeline : e.end <= t

Fresh(rows, t) ==
  \A e \in rows.timeline : e.end > t =>
    \A v \in Published(rows.corpus) : v <= e.version

-----------------------------------------------------------------------------
(* Which instants the entries made of a policy's listings cover            *)

(* What subtracting any record with a start and an end leaves.             *)
LEMMA SubtractOne ==
  ASSUME NEW basis \in AnyInterval, NEW other, other.start \in Int, other.end \in Int,
         NEW t \in Int
  PROVE  InSome(Subtract(basis, {other}), t) <=> Covers(basis, t) /\ ~Covers(other, t)
<1> DEFINE part == [start |-> other.start, end |-> other.end]
<1>1. part.start = other.start /\ part.end = other.end /\ part \in AnyInterval
  BY DEF AnyInterval
<1>2. ASSUME NEW x
      PROVE  Subtract(basis, {x}) = Between(Lesser(basis.start, x.start),
                                            Lesser(basis.end, x.start))
                                    \cup
                                    Between(Greater(basis.start, x.end),
                                            Greater(basis.end, x.end))
  <2>1. {x} # {}
    OBVIOUS
  <2>2. Subtract(basis, {x}) = UNION { Between(Lesser(basis.start, y.start),
                                               Lesser(basis.end, y.start))
                                       \cup
                                       Between(Greater(basis.start, y.end),
                                               Greater(basis.end, y.end)) : y \in {x} }
    BY <2>1 DEF Subtract
  <2> QED BY <2>2
<1> HIDE DEF part
<1>3. Subtract(basis, {part}) = Subtract(basis, {other})
  BY <1>1, <1>2
<1>4. InSome(Subtract(basis, {part}), t) <=> Covers(basis, t) /\ ~Covers(part, t)
  BY <1>1, SubtractIsDifference
<1> QED BY <1>1, <1>3, <1>4 DEF Covers

OfListing(e, ts, listings, rejected) ==
  \E k \in DOMAIN listings :
    /\ e.target = listings[k].org /\ listings[k].org \notin rejected
    /\ \A t \in Time : Covers(e, t) => Covers(Pulled(listings[k], ts), t)

(* The entries of a listing cover only what is left of it, in the version  *)
(* listed.                                                                 *)
LEMMA ListedCovers ==
  ASSUME NEW v \in Versions, NEW ts \in Time, NEW listings \in Seq(Listing),
         NEW rejected \in SUBSET Orgs, NEW reservation \in SUBSET Entry,
         \A q, r \in reservation : q = r,
         NEW e \in ListedEntries(v, ts, listings, rejected, reservation)
  PROVE  OfListing(e, ts, listings, rejected)
<1> DEFINE live == { k \in DOMAIN listings : listings[k].org \notin rejected }
           Held(k) == { MakeEntry(listings[k].org, v,
                                  [start |-> Pulled(listings[k], ts).start,
                                   end |-> i.end], TRUE)
                        : i \in Continued(listings[k], reservation, ts) }
           holding == { k \in live : Held(k) # {} }
           last == { k \in holding : \A j \in holding : j <= k }
           newReservation == UNION { Held(k) : k \in last }
           Open(k) == { MakeEntry(listings[k].org, v, i, FALSE)
                        : i \in OpenParts(listings[k], newReservation, ts) }
<1>1. ListedEntries(v, ts, listings, rejected, reservation)
        = UNION { Held(k) \cup Open(k) : k \in live }
  BY DEF ListedEntries
<1>2. \A k \in live : listings[k] \in Listing
  <2>1. \A j \in DOMAIN listings : listings[j] \in Listing
    OBVIOUS
  <2> QED BY <2>1
<1>3. ASSUME NEW k \in live, e \in Held(k)
      PROVE  /\ e.target = listings[k].org
             /\ \A t \in Time : Covers(e, t) => Covers(Pulled(listings[k], ts), t)
  <2> DEFINE pulled == Pulled(listings[k], ts)
  <2>1. PICK i \in Continued(listings[k], reservation, ts) :
          e = MakeEntry(listings[k].org, v, [start |-> pulled.start, end |-> i.end], TRUE)
    BY <1>3
  <2>2. PICK r \in reservation : i \in Intersect(r, pulled)
    BY <2>1 DEF Continued
  <2>3. pulled \in Span /\ r \in Entry
    BY <1>2, PulledType
  <2>4. /\ pulled.start \in Int /\ pulled.end \in Int /\ r.end \in Int
        /\ \A t \in Time : t \in Int
    BY <2>3, ConstantsAssumption DEF Span, Entry, Time
  <2>5. /\ e.target = listings[k].org
        /\ e.start = pulled.start /\ e.end = i.end
    BY <2>1 DEF MakeEntry
  <2> HIDE DEF pulled
  <2>6. i.end = Lesser(r.end, pulled.end)
    BY <2>2 DEF Intersect, Between
  <2>7. e.end <= pulled.end /\ e.end \in Int
    BY <2>4, <2>5, <2>6 DEF Lesser
  <2>8. \A t \in Time : Covers(e, t) => Covers(pulled, t)
    BY <2>4, <2>5, <2>7 DEF Covers
  <2> QED BY <2>5, <2>8 DEF pulled
<1>4. ASSUME NEW k \in live, e \in Open(k)
      PROVE  /\ e.target = listings[k].org
             /\ \A t \in Time : Covers(e, t) => Covers(Pulled(listings[k], ts), t)
  <2> DEFINE pulled == Pulled(listings[k], ts)
  <2>1. PICK i \in OpenParts(listings[k], newReservation, ts) :
          e = MakeEntry(listings[k].org, v, i, FALSE)
    BY <1>4
  <2>2. e.target = listings[k].org /\ e.start = i.start /\ e.end = i.end
    BY <2>1 DEF MakeEntry
  <2>3. pulled \in AnyInterval /\ \A t \in Time : t \in Int
    BY <1>2, PulledType, ConstantsAssumption DEF Span, Time, AnyInterval
  <2>4. \A other \in newReservation : other \in Entry
    <3>1. \A j \in last : j \in live
      OBVIOUS
    <3>2. \A j \in live : \A d \in Held(j) :
            d \in ListedEntries(v, ts, listings, rejected, reservation)
      <4> HIDE DEF live, Held, Open
      <4> QED BY <1>1
    <3> HIDE DEF Held, last, live
    <3>3. \A other \in newReservation :
            other \in ListedEntries(v, ts, listings, rejected, reservation)
      BY <3>1, <3>2
    <3> QED BY <3>3, ListedEntriesType
  <2> HIDE DEF newReservation
  <2>5. i \in Subtract(pulled, newReservation)
    BY <2>1 DEF OpenParts
  <2> HIDE DEF pulled
  <2>6. ASSUME NEW t \in Time, Covers(i, t)
        PROVE  Covers(pulled, t)
    <3>1. CASE newReservation = {}
      BY <2>3, <2>5, <2>6, <3>1 DEF Subtract, Covers
    <3>2. CASE newReservation # {}
      <4>1. PICK other \in newReservation : i \in Subtract(pulled, {other})
        BY <2>5, <3>2 DEF Subtract
      <4>2. other.start \in Int /\ other.end \in Int
        BY <2>4, ConstantsAssumption DEF Entry, Time
      <4>3. InSome(Subtract(pulled, {other}), t)
        BY <2>6, <4>1 DEF InSome
      <4> QED BY <2>3, <4>2, <4>3, SubtractOne
    <3> QED BY <3>1, <3>2
  <2>7. \A t \in Time : Covers(e, t) => Covers(pulled, t)
    BY <2>2, <2>6 DEF Covers
  <2> QED BY <2>2, <2>7 DEF pulled
<1> HIDE DEF Held, Open
<1>5. PICK k \in live : e \in Held(k) \cup Open(k)
  BY <1>1
<1> QED BY <1>3, <1>4, <1>5 DEF OfListing

(* And they cover all that is left of it, but for what is reserved.        *)
LEMMA CoversListed ==
  ASSUME NEW v \in Versions, NEW ts \in Time, NEW listings \in Seq(Listing),
         NEW rejected \in SUBSET Orgs, NEW reservation \in SUBSET Entry,
         \A q, r \in reservation : q = r,
         NEW k \in DOMAIN listings, listings[k].org \notin rejected,
         NEW t \in Time, Covers(Pulled(listings[k], ts), t)
  PROVE  \E e \in ListedEntries(v, ts, listings, rejected, reservation) :
           /\ Covers(e, t)
           /\ e.target = listings[k].org \/ e.reserved
<1> DEFINE live == { j \in DOMAIN listings : listings[j].org \notin rejected }
           Held(j) == { MakeEntry(listings[j].org, v,
                                  [start |-> Pulled(listings[j], ts).start,
                                   end |-> i.end], TRUE)
                        : i \in Continued(listings[j], reservation, ts) }
           holding == { j \in live : Held(j) # {} }
           last == { j \in holding : \A l \in holding : l <= j }
           newReservation == UNION { Held(j) : j \in last }
           Open(j) == { MakeEntry(listings[j].org, v, i, FALSE)
                        : i \in OpenParts(listings[j], newReservation, ts) }
           all == ListedEntries(v, ts, listings, rejected, reservation)
           pulled == Pulled(listings[k], ts)
<1>1. all = UNION { Held(j) \cup Open(j) : j \in live }
  BY DEF ListedEntries
<1>2. \A j \in live : j \in DOMAIN listings /\ listings[j] \in Listing /\ j \in Int
  <2>1. \A j \in DOMAIN listings : listings[j] \in Listing /\ j \in Int
    OBVIOUS
  <2> QED BY <2>1
<1>3. k \in live
  OBVIOUS
<1>4. ASSUME NEW i \in OpenParts(listings[k], newReservation, ts), Covers(i, t)
      PROVE  \E e \in all : Covers(e, t) /\ e.target = listings[k].org
  <2> DEFINE e == MakeEntry(listings[k].org, v, i, FALSE)
  <2>1. e \in Open(k)
    OBVIOUS
  <2>2. Covers(e, t) /\ e.target = listings[k].org
    BY <1>4 DEF MakeEntry, Covers
  <2> HIDE DEF e, Open, Held, live, all
  <2>3. e \in all
    BY <1>1, <1>3, <2>1
  <2> QED BY <2>2, <2>3
<1>5. \A j, l \in last : j = l
  <2>1. \A j \in last : j \in Int /\ j \in holding /\ \A l \in holding : l <= j
    <3>1. \A j \in holding : j \in Int
      BY <1>2
    <3> HIDE DEF holding
    <3> QED BY <3>1
  <2> HIDE DEF last, holding
  <2> QED BY <2>1
<1>6. ASSUME NEW j \in live, NEW d \in Held(j), NEW e \in Held(j)
      PROVE  d = e
  <2>1. ASSUME NEW i \in Continued(listings[j], reservation, ts),
               NEW h \in Continued(listings[j], reservation, ts)
        PROVE  i = h
    <3>1. PICK q \in reservation : i \in Intersect(q, Pulled(listings[j], ts))
      BY DEF Continued
    <3>2. PICK r \in reservation : h \in Intersect(r, Pulled(listings[j], ts))
      BY DEF Continued
    <3>3. q = r
      OBVIOUS
    <3> QED BY <3>1, <3>2, <3>3 DEF Intersect, Between
  <2> QED BY <2>1
<1>7. \A d, e \in newReservation : d = e
  <2>1. \A j \in last : j \in live
    OBVIOUS
  <2> HIDE DEF last, Held, live
  <2> QED BY <1>5, <1>6, <2>1
<1>8. \A d \in newReservation : d \in all /\ d.reserved
  <2>1. \A j \in live : \A d \in Held(j) : d.reserved
    BY DEF MakeEntry
  <2>2. \A j \in last : j \in live
    OBVIOUS
  <2> HIDE DEF last, Held, Open, live, all
  <2> QED BY <1>1, <2>1, <2>2
<1>9. pulled \in AnyInterval /\ t \in Int
  BY <1>2, <1>3, PulledType, ConstantsAssumption DEF Span, Time, AnyInterval
<1> HIDE DEF newReservation, all
<1>10. CASE newReservation = {}
  <2>1. Subtract(pulled, newReservation) = {[start |-> pulled.start, end |-> pulled.end]}
    BY <1>10 DEF Subtract
  <2> DEFINE i == [start |-> pulled.start, end |-> pulled.end]
  <2>2. i \in OpenParts(listings[k], newReservation, ts)
    BY <2>1 DEF OpenParts
  <2>3. Covers(i, t)
    BY DEF Covers
  <2> HIDE DEF i
  <2> QED BY <1>4, <2>2, <2>3 DEF all
<1>11. CASE newReservation # {}
  <2>1. PICK d \in newReservation : newReservation = {d}
    <3>1. PICK d \in newReservation : TRUE
      BY <1>11
    <3>2. newReservation = {d}
      BY <1>7
    <3> QED BY <3>2
  <2>2. d \in Entry /\ d \in all /\ d.reserved
    BY <1>8, <2>1, ListedEntriesType DEF all
  <2>3. CASE Covers(d, t)
    BY <2>2, <2>3 DEF all
  <2>4. CASE ~ Covers(d, t)
    <3>1. d.start \in Int /\ d.end \in Int
      BY <2>2, ConstantsAssumption DEF Entry, Time
    <3>4. InSome(Subtract(pulled, {d}), t)
      BY <1>9, <2>4, <3>1, SubtractOne
    <3>5. PICK i \in Subtract(pulled, {d}) : Covers(i, t)
      BY <3>4 DEF InSome
    <3>6. i \in OpenParts(listings[k], newReservation, ts)
      BY <2>1, <3>5 DEF OpenParts
    <3> QED BY <1>4, <3>5, <3>6 DEF all
  <2> QED BY <2>3, <2>4
<1> QED BY <1>10, <1>11

HeldAt(entries, target, t) ==
  \E e \in entries : e.reserved /\ e.target = target /\ Covers(e, t)

(* What is left of a reservation under a listing of its holder stays       *)
(* reserved.                                                               *)
LEMMA HeldListed ==
  ASSUME NEW v \in Versions, NEW ts \in Time, NEW listings \in Seq(Listing),
         NEW rejected \in SUBSET Orgs, NEW reservation \in SUBSET Entry,
         NEW r \in reservation, Covers(r, ts),
         NEW k \in DOMAIN listings, listings[k].org = r.target,
         r.target \notin rejected,
         NEW t \in Time, t >= ts, Covers(r, t), t < listings[k].end
  PROVE  HeldAt(ListedEntries(v, ts, listings, rejected, reservation), r.target, t)
<1> DEFINE live == { j \in DOMAIN listings : listings[j].org \notin rejected }
           Held(j) == { MakeEntry(listings[j].org, v,
                                  [start |-> Pulled(listings[j], ts).start,
                                   end |-> i.end], TRUE)
                        : i \in Continued(listings[j], reservation, ts) }
           holding == { j \in live : Held(j) # {} }
           last == { j \in holding : \A l \in holding : l <= j }
           newReservation == UNION { Held(j) : j \in last }
           Open(j) == { MakeEntry(listings[j].org, v, i, FALSE)
                        : i \in OpenParts(listings[j], newReservation, ts) }
           all == ListedEntries(v, ts, listings, rejected, reservation)
           pulled == Pulled(listings[k], ts)
           i == [start |-> ts, end |-> Lesser(r.end, pulled.end)]
           e == MakeEntry(listings[k].org, v, [start |-> pulled.start, end |-> i.end], TRUE)
<1>1. all = UNION { Held(j) \cup Open(j) : j \in live }
  BY DEF ListedEntries
<1>2. listings[k] \in Listing /\ k \in live
  OBVIOUS
<1>3. /\ listings[k].end \in Int /\ ts \in Int /\ t \in Int
      /\ r.start \in Int /\ r.end \in Int
  BY <1>2, ConstantsAssumption DEF Listing, Entry, Time
<1>4. /\ listings[k].end > ts
      /\ pulled = [start |-> ts, end |-> listings[k].end]
  BY <1>3 DEF Pulled
<1>5. pulled.start = ts /\ pulled.end = listings[k].end
  BY <1>4
<1> HIDE DEF pulled
<1>6. /\ Greater(r.start, pulled.start) = ts
      /\ Lesser(r.end, pulled.end) \in Int /\ t < Lesser(r.end, pulled.end)
  BY <1>3, <1>5 DEF Covers, Greater, Lesser
<1>7. i \in Intersect(r, pulled)
  BY <1>3, <1>6 DEF Intersect, Between
<1>8. i \in Continued(listings[k], reservation, ts)
  BY <1>7 DEF Continued, pulled
<1>9. e \in Held(k)
  BY <1>8 DEF pulled
<1>10. e.reserved /\ e.target = r.target /\ Covers(e, t)
  BY <1>3, <1>5, <1>6 DEF MakeEntry, Covers
<1> HIDE DEF e, Held, Open, live, all
<1>11. e \in all
  BY <1>1, <1>2, <1>9
<1> QED BY <1>10, <1>11 DEF all, HeldAt

-----------------------------------------------------------------------------
(* What is listed afresh is listed in the version given.                   *)

LEMMA ListedVersion ==
  ASSUME NEW v, NEW ts, NEW listings, NEW rejected, NEW reservation,
         NEW e \in ListedEntries(v, ts, listings, rejected, reservation)
  PROVE  e.version = v
<1>1. \E target, i, reserved : e = MakeEntry(target, v, i, reserved)
  BY Zenon DEF ListedEntries
<1> QED BY <1>1 DEF MakeEntry

LEMMA RelistVersion ==
  ASSUME NEW o \in Offers, NEW v \in Versions, NEW rows \in OfferRows,
         NEW ts \in 0 .. Horizon, NEW next \in Relist(o, v, rows, ts)
  PROVE  /\ next \in OfferRows /\ next.corpus = rows.corpus
         /\ \A e \in next.timeline : e.end <= ts \/ e.version = v
<1>1. next \in OfferRows /\ ts \in Time
  BY RelistType, ConstantsAssumption DEF Time
<1>2. \A e \in Truncate(rows.timeline, ts) : e.end <= ts
  BY <1>1, TruncateType DEF OfferRows
<1>3. CASE o \in OwnOffers
  <2>1. PICK first \in 0 .. Horizon, reservation \in SUBSET Entry :
          next = ListedAfresh(o, v, rows, ts, first, reservation)
    BY <1>3, RelistOwn
  <2> DEFINE listings == Listings(o, v, first, ts, rows.rejected)
             new == ListedEntries(v, ts, listings, rows.rejected, reservation)
  <2>2. next = [rows EXCEPT !.timeline = Truncate(rows.timeline, ts) \cup new]
    BY <2>1 DEF ListedAfresh
  <2>3. \A e \in new : e.version = v
    BY ListedVersion
  <2> HIDE DEF new
  <2>4. /\ next.corpus = rows.corpus
        /\ next.timeline = Truncate(rows.timeline, ts) \cup new
    BY <2>2 DEF OfferRows
  <2> QED BY <1>1, <1>2, <2>3, <2>4
<1>4. CASE o \notin OwnOffers
  <2>1. next = [rows EXCEPT !.timeline =
                  Truncate(rows.timeline, ts) \cup LocalEntries(o, v, ts)]
    BY <1>4, RelistForeign
  <2>2. \A e \in LocalEntries(o, v, ts) : e.version = v
    BY DEF LocalEntries, MakeEntry
  <2>3. /\ next.corpus = rows.corpus
        /\ next.timeline = Truncate(rows.timeline, ts) \cup LocalEntries(o, v, ts)
    BY <2>1 DEF OfferRows
  <2> QED BY <1>1, <1>2, <2>2, <2>3
<1> QED BY <1>3, <1>4

-----------------------------------------------------------------------------
(* What an update of the listings at ts puts on the market, under a policy *)
(* whose listings last until the version expires.                          *)

(* Only what has not expired, from ts on.                                  *)
Afresh(o, v, ts, new) ==
  \A e \in new : \A t \in Time : Covers(e, t) =>
    t < Expiration[o][v] /\ (ts < Expiration[o][v] => ts <= t)

(* If anything, then something at every instant until the expiration.      *)
Gapless(o, v, ts, new) ==
  new # {} => \A t \in Time : ts <= t /\ t < Expiration[o][v] =>
                \E e \in new : Covers(e, t)

(* Something for everyone that it is for, or a reservation.                *)
Everyone(o, v, ts, rejected, new) ==
  \A org \in IF o \in OwnOffers THEN Orgs \ rejected ELSE {Host} :
    \A t \in Time : ts <= t /\ t < Expiration[o][v] =>
      \E e \in new : Covers(e, t) /\ (e.target \in {org, Wildcard} \/ e.reserved)

(* The running reservation, for as long as it was.                         *)
Continues(o, v, ts, rows, new) ==
  \A r \in Entry :
    /\ r.reserved /\ Covers(r, ts) /\ r.target \in Orgs \ rows.rejected
    /\ FirstEntries(rows.timeline, ts) = {{r}}
    => \A t \in Time : ts <= t /\ t < Expiration[o][v] /\ Covers(r, t) =>
         HeldAt(new, r.target, t)

(* Nobody but by name, and the host only for what others offer.            *)
NamedEntry(o, e) ==
  IF o \in OwnOffers THEN e.target \in Orgs ELSE e.target = Host /\ ~ e.reserved

Named(o, entries) == \A e \in entries : NamedEntry(o, e)

OnMarket(o, v, rows, ts, new) ==
  /\ \A e \in new : e.version = v /\ e.target \notin rows.rejected
  /\ Afresh(o, v, ts, new) /\ Gapless(o, v, ts, new)
  /\ ListsEveryone => Everyone(o, v, ts, rows.rejected, new)
  /\ ListsByName => Named(o, new)
  /\ o \in OwnOffers /\ ListsEveryone /\ ListsByName => Continues(o, v, ts, rows, new)

LEMMA PulledToExpiration ==
  ASSUME NEW listing \in Listing, NEW ts \in Time, NEW t \in Time
  PROVE  /\ Covers(Pulled(listing, ts), t) => t < listing.end /\ (ts < listing.end => ts <= t)
         /\ ts <= t /\ t < listing.end => Covers(Pulled(listing, ts), t)
<1>1. /\ listing.start \in Int /\ listing.end \in Int /\ ts \in Int /\ t \in Int
  BY ConstantsAssumption DEF Listing, Time
<1>2. CASE listing.end > ts
  BY <1>1, <1>2 DEF Pulled, Covers
<1>3. CASE ~ (listing.end > ts)
  BY <1>1, <1>3 DEF Pulled, Covers
<1> QED BY <1>2, <1>3

LEMMA RelistOwnMarket ==
  ASSUME ListsToExpiration,
         NEW o \in OwnOffers, NEW v \in Versions, NEW rows \in OfferRows,
         NEW ts \in 0 .. Horizon, NEW next \in Relist(o, v, rows, ts)
  PROVE  \E new \in SUBSET Entry :
           /\ next = [rows EXCEPT !.timeline = Truncate(rows.timeline, ts) \cup new]
           /\ OnMarket(o, v, rows, ts, new)
<1>1. PICK first \in 0 .. Horizon, reservation \in SUBSET Entry :
        /\ \A q, r \in reservation : q = r
        /\ Running(rows.timeline, ts, reservation)
        /\ next = ListedAfresh(o, v, rows, ts, first, reservation)
  BY RelistOwn
<1> DEFINE listings == Listings(o, v, first, ts, rows.rejected)
           new == ListedEntries(v, ts, listings, rows.rejected, reservation)
<1>0. ts \in Int /\ \A t \in Time : t \in Int
  BY ConstantsAssumption DEF Time
<1>2. ts \in Time /\ rows.rejected \in SUBSET Orgs /\ o \in Offers
  BY ConstantsAssumption DEF Time, OfferRows
<1>3. /\ listings \in Seq(Listing)
      /\ \A k \in DOMAIN listings : listings[k].end = Expiration[o][v]
  BY <1>2, PolicyAssumption DEF ListsToExpiration
<1>4. next = [rows EXCEPT !.timeline = Truncate(rows.timeline, ts) \cup new]
  BY <1>1 DEF ListedAfresh
<1>5. ListsEveryone => \A org \in Orgs \ rows.rejected :
        \E k \in DOMAIN listings : listings[k].org \in {org, Wildcard}
  BY <1>2 DEF ListsEveryone
<1>6. ListsByName => \A k \in DOMAIN listings : listings[k].org \in Orgs
  BY <1>2 DEF ListsByName
<1> HIDE DEF listings
<1>7. \A k \in DOMAIN listings : listings[k] \in Listing
  BY <1>3
<1>8. \A e \in new : /\ e \in Entry /\ e.target \notin rows.rejected
                     /\ e.version = v
  BY <1>2, <1>3, ListedEntriesType, ListedVersion
<1>9. ASSUME NEW e \in new
      PROVE  \E k \in DOMAIN listings :
               /\ e.target = listings[k].org /\ listings[k].org \notin rows.rejected
               /\ \A t \in Time : Covers(e, t) => Covers(Pulled(listings[k], ts), t)
  <2>1. e \in ListedEntries(v, ts, listings, rows.rejected, reservation)
    OBVIOUS
  <2> HIDE DEF new
  <2>2. OfListing(e, ts, listings, rows.rejected)
    BY <1>1, <1>2, <1>3, <2>1, ListedCovers
  <2> QED BY <2>2 DEF OfListing
<1>10. ASSUME NEW k \in DOMAIN listings, listings[k].org \notin rows.rejected,
              NEW t \in Time, ts <= t, t < Expiration[o][v]
       PROVE  \E e \in new : Covers(e, t) /\ (e.target = listings[k].org \/ e.reserved)
  <2>1. Covers(Pulled(listings[k], ts), t)
    BY <1>0, <1>2, <1>3, <1>7, <1>10, PulledToExpiration
  <2> QED BY <1>1, <1>2, <1>3, <1>10, <2>1, CoversListed
<1>11. ASSUME NEW r \in reservation, Covers(r, ts),
              NEW k \in DOMAIN listings, listings[k].org = r.target,
              r.target \notin rows.rejected,
              NEW t \in Time, ts <= t, t < Expiration[o][v], Covers(r, t)
       PROVE  HeldAt(new, r.target, t)
  <2>1. t >= ts /\ t < listings[k].end
    BY <1>0, <1>2, <1>3, <1>11
  <2>2. HeldAt(ListedEntries(v, ts, listings, rows.rejected, reservation), r.target, t)
    BY <1>2, <1>3, <1>11, <2>1, HeldListed
  <2> QED BY <2>2
<1> HIDE DEF new
<1>12. Afresh(o, v, ts, new)
  <2> SUFFICES ASSUME NEW e \in new, NEW t \in Time, Covers(e, t)
               PROVE  t < Expiration[o][v] /\ (ts < Expiration[o][v] => ts <= t)
    BY DEF Afresh
  <2>1. PICK k \in DOMAIN listings : Covers(Pulled(listings[k], ts), t)
    BY <1>9
  <2> QED BY <2>1, <1>0, <1>2, <1>3, <1>7, PulledToExpiration
<1>13. Gapless(o, v, ts, new)
  <2> SUFFICES ASSUME new # {}, NEW t \in Time, ts <= t, t < Expiration[o][v]
               PROVE  \E e \in new : Covers(e, t)
    BY DEF Gapless
  <2>1. PICK k \in DOMAIN listings : listings[k].org \notin rows.rejected
    BY <1>9
  <2> QED BY <2>1, <1>10
<1>14. ListsEveryone => Everyone(o, v, ts, rows.rejected, new)
  <2> SUFFICES ASSUME ListsEveryone, NEW org \in Orgs \ rows.rejected,
                      NEW t \in Time, ts <= t, t < Expiration[o][v]
               PROVE  \E e \in new : Covers(e, t)
                        /\ (e.target \in {org, Wildcard} \/ e.reserved)
    BY DEF Everyone
  <2>1. PICK k \in DOMAIN listings : listings[k].org \in {org, Wildcard}
    BY <1>5
  <2>2. listings[k].org \notin rows.rejected
    BY <1>2, <2>1, ConstantsAssumption
  <2> QED BY <2>1, <2>2, <1>10
<1>15. ListsEveryone /\ ListsByName => Continues(o, v, ts, rows, new)
  <2> SUFFICES ASSUME ListsEveryone, ListsByName, NEW r \in Entry,
                      r.reserved, Covers(r, ts), r.target \in Orgs \ rows.rejected,
                      FirstEntries(rows.timeline, ts) = {{r}},
                      NEW t \in Time, ts <= t, t < Expiration[o][v], Covers(r, t)
               PROVE  HeldAt(new, r.target, t)
    BY DEF Continues
  <2>1. r \in reservation
    BY <1>1 DEF Running
  <2>2. PICK k \in DOMAIN listings : listings[k].org \in {r.target, Wildcard}
    BY <1>5
  <2>3. listings[k].org = r.target
    BY <1>6, <2>2, ConstantsAssumption
  <2> QED BY <2>1, <2>3, <1>11
<1>16. ListsByName => Named(o, new)
  <2> SUFFICES ASSUME ListsByName, NEW e \in new
               PROVE  e.target \in Orgs
    BY DEF Named, NamedEntry
  <2> QED BY <1>6, <1>9
<1>17. new \in SUBSET Entry
  BY <1>8
<1> QED BY <1>4, <1>8, <1>12, <1>13, <1>14, <1>15, <1>16, <1>17
  DEF OnMarket

LEMMA RelistForeignMarket ==
  ASSUME NEW o \in Offers \ OwnOffers, NEW v \in Versions, NEW rows \in OfferRows,
         NEW ts \in 0 .. Horizon, NEW next \in Relist(o, v, rows, ts)
  PROVE  \E new \in SUBSET Entry :
           /\ next = [rows EXCEPT !.timeline = Truncate(rows.timeline, ts) \cup new]
           /\ OnMarket(o, v, rows, ts, new)
<1> DEFINE entry == MakeEntry(Host, v, [start |-> ts, end |-> Expiration[o][v]], FALSE)
           new == LocalEntries(o, v, ts)
<1>1. ts \in Time /\ rows.rejected \in SUBSET Orgs /\ o \in Offers
  BY ConstantsAssumption DEF Time, OfferRows
<1>2. next = [rows EXCEPT !.timeline = Truncate(rows.timeline, ts) \cup new]
  BY RelistForeign
<1>3. new \in SUBSET Entry
  <2>1. new \subseteq Entry
    BY <1>1, LocalEntriesType
  <2> QED BY <2>1
<1>4. new = {entry}
  BY DEF LocalEntries
<1>5. /\ entry.target = Host /\ entry.version = v /\ entry.reserved = FALSE
      /\ \A t : Covers(entry, t) <=> ts <= t /\ t < Expiration[o][v]
  BY DEF MakeEntry, Covers
<1> HIDE DEF entry, new
<1>6. Host \notin rows.rejected
  BY <1>1, ConstantsAssumption
<1>7. Afresh(o, v, ts, new) /\ Gapless(o, v, ts, new)
  BY <1>4, <1>5 DEF Afresh, Gapless
<1>8. Everyone(o, v, ts, rows.rejected, new) /\ Named(o, new)
  BY <1>4, <1>5 DEF Everyone, Named, NamedEntry
<1> QED BY <1>2, <1>3, <1>4, <1>5, <1>6, <1>7, <1>8 DEF OnMarket

LEMMA RelistNew ==
  ASSUME ListsToExpiration,
         NEW o \in Offers, NEW v \in Versions, NEW rows \in OfferRows,
         NEW ts \in 0 .. Horizon, NEW next \in Relist(o, v, rows, ts)
  PROVE  \E new \in SUBSET Entry :
           /\ next = [rows EXCEPT !.timeline = Truncate(rows.timeline, ts) \cup new]
           /\ OnMarket(o, v, rows, ts, new)
<1>1. CASE o \in OwnOffers
  BY <1>1, RelistOwnMarket
<1>2. CASE o \notin OwnOffers
  BY <1>2, RelistForeignMarket
<1> QED BY <1>1, <1>2

-----------------------------------------------------------------------------
(* Corpora                                                                 *)

LEMMA PublishedVersions ==
  ASSUME NEW rows \in OfferRows
  PROVE  Published(rows.corpus) \subseteq Versions /\ Versions \subseteq Nat
BY ConstantsAssumption DEF Published, OfferRows

(* A deletion publishes nothing new, and ends the listings with the last.  *)
LEMMA DeleteFromMarket ==
  ASSUME NEW f \in Feeds, NEW rows \in OfferRows, NEW ts \in 0 .. Horizon,
         Withdrawn(rows, ts)
  PROVE  /\ Withdrawn(DeleteFrom(f, rows, ts), ts)
         /\ Fresh(rows, ts) => Fresh(DeleteFrom(f, rows, ts), ts)
<1> DEFINE corpus == [rows.corpus EXCEPT ![f] = NoVersion]
           timeline == IF Published(corpus) = {}
                       THEN Truncate(rows.timeline, ts) ELSE rows.timeline
<1>1. CASE rows.corpus[f] = NoVersion
  <2>1. DeleteFrom(f, rows, ts) = rows
    BY <1>1 DEF DeleteFrom
  <2> QED BY <2>1
<1>2. CASE rows.corpus[f] # NoVersion
  <2>1. DeleteFrom(f, rows, ts) = [rows EXCEPT !.corpus = corpus, !.timeline = timeline]
    BY <1>2 DEF DeleteFrom
  <2>2. Published(corpus) \subseteq Published(rows.corpus)
    BY DEF Published, OfferRows
  <2>3. \A e \in Truncate(rows.timeline, ts) : e.end <= ts /\ e.end \in Int /\ ts \in Int
    BY TruncateType, ConstantsAssumption DEF OfferRows, Time, Entry
  <2>4. CASE Published(corpus) = {}
    <3>1. timeline = Truncate(rows.timeline, ts)
      BY <2>4
    <3> HIDE DEF corpus, timeline
    <3>2. /\ DeleteFrom(f, rows, ts).corpus = corpus
          /\ DeleteFrom(f, rows, ts).timeline = Truncate(rows.timeline, ts)
      BY <2>1, <3>1 DEF OfferRows
    <3>3. \A e \in Truncate(rows.timeline, ts) : ~ (e.end > ts)
      BY <2>3
    <3> QED BY <2>3, <3>2, <3>3 DEF Withdrawn, Fresh
  <2>5. CASE Published(corpus) # {}
    <3>1. timeline = rows.timeline
      BY <2>5
    <3> HIDE DEF corpus, timeline
    <3>2. /\ DeleteFrom(f, rows, ts).corpus = corpus
          /\ DeleteFrom(f, rows, ts).timeline = rows.timeline
      BY <2>1, <3>1 DEF OfferRows
    <3> QED BY <2>2, <2>5, <3>2 DEF Withdrawn, Fresh
  <2> QED BY <2>4, <2>5
<1> QED BY <1>1, <1>2

(* An insertion publishes something, and nothing new but what is put.      *)
LEMMA InsertIntoMarket ==
  ASSUME NEW f \in Feeds, NEW rows \in OfferRows, NEW put \in Put
  PROVE  /\ Published(InsertInto(f, rows, put).corpus) # {}
         /\ Published(InsertInto(f, rows, put).corpus)
              \subseteq Published(rows.corpus) \cup {put.version}
<1> DEFINE held == Greater(rows.corpus[f], put.version)
           corpus == [rows.corpus EXCEPT ![f] = held]
<1>1. /\ rows.corpus \in [Feeds -> Versions \cup {NoVersion}]
      /\ put.version \in Versions /\ Versions \subseteq Nat \ {NoVersion}
  BY ConstantsAssumption DEF OfferRows, Put
<1>2. held \in {rows.corpus[f], put.version} /\ held # NoVersion
  <2>1. rows.corpus[f] \in Versions \cup {NoVersion}
    BY <1>1
  <2>2. NoVersion = 0 /\ \A v \in Versions : v \in Nat /\ v # NoVersion
    BY <1>1 DEF NoVersion
  <2> DEFINE old == rows.corpus[f]
             new == put.version
  <2>3. old \in Versions \cup {NoVersion} /\ new \in Versions /\ held = Greater(old, new)
    BY <1>1, <2>1
  <2> HIDE DEF held, old, new
  <2>4. new \in Nat /\ new # 0 /\ old \in Nat
    BY <2>2, <2>3
  <2>5. Greater(old, new) \in {old, new} /\ Greater(old, new) # 0
    BY <2>4 DEF Greater
  <2> QED BY <2>2, <2>3, <2>5 DEF old, new
<1>3. InsertInto(f, rows, put).corpus = corpus
  BY DEF InsertInto, OfferRows
<1> HIDE DEF held
<1>4. corpus[f] = held /\ \A g \in Feeds : corpus[g] \in {rows.corpus[g], held}
  BY <1>1
<1>5. held \in Published(corpus)
  BY <1>2, <1>4 DEF Published
<1>6. ASSUME NEW v \in Published(corpus)
      PROVE  v \in Published(rows.corpus) \cup {put.version}
  BY <1>2, <1>4 DEF Published
<1> QED BY <1>3, <1>5, <1>6

(* A listing in a version that nothing published is newer than is fresh.   *)
LEMMA RelistMarket ==
  ASSUME NEW o \in Offers, NEW v \in Versions, NEW rows \in OfferRows,
         NEW ts \in 0 .. Horizon, NEW next \in Relist(o, v, rows, ts)
  PROVE  /\ Published(rows.corpus) # {} => Withdrawn(next, ts)
         /\ (\A w \in Published(rows.corpus) : w <= v) => Fresh(next, ts)
<1>1. /\ next \in OfferRows /\ next.corpus = rows.corpus
      /\ \A e \in next.timeline : e.end <= ts \/ e.version = v
  BY RelistVersion
<1>2. \A e \in next.timeline : e.end \in Int /\ ts \in Int
  BY <1>1, ConstantsAssumption DEF OfferRows, Entry, Time
<1>3. \A e \in next.timeline : e.end > ts => e.version = v
  BY <1>1, <1>2
<1> QED BY <1>1, <1>3 DEF Withdrawn, Fresh

LEMMA PutMarket ==
  ASSUME NEW o \in Offers, NEW f \in Feeds, NEW rows \in OfferRows, NEW put \in Put,
         NEW ts \in 0 .. Horizon,
         NEW next \in ApplyOp(o, f, rows, put, ts)
  PROVE  /\ Withdrawn(next, ts)
         /\ MaxChain = 0 /\ Fresh(rows, ts) => Fresh(next, ts)
<1> DEFINE in == InsertInto(f, rows, put)
<1>1. /\ in \in OfferRows /\ in.timeline = rows.timeline
      /\ Published(in.corpus) # {}
      /\ Published(in.corpus) \subseteq Published(rows.corpus) \cup {put.version}
  BY InsertIntoShape, InsertIntoMarket
<1>2. put.kind = "put" /\ put.version \in Versions /\ put.chain \in 0 .. MaxChain
  BY DEF Put
<1>3. next \in IF UpdateType(rows, put) = "NONE" THEN {in} ELSE Relist(o, put.version, in, ts)
  BY <1>2 DEF ApplyOp
<1>4. Published(rows.corpus) \subseteq Nat /\ put.version \in Nat
  BY <1>2, PublishedVersions
<1>5. CASE UpdateType(rows, put) = "NONE"
  <2>1. next = in
    BY <1>3, <1>5
  <2>2. PICK w \in Published(rows.corpus) : ~ (w < put.version)
    BY <1>5 DEF UpdateType
  <2> HIDE DEF in
  <2>3. Withdrawn(next, ts)
    BY <1>1, <2>1 DEF Withdrawn
  <2>4. ASSUME Fresh(rows, ts), NEW e \in rows.timeline, e.end > ts,
               NEW x \in Published(in.corpus)
        PROVE  x <= e.version
    <3>1. e.version \in Nat
      BY ConstantsAssumption DEF OfferRows, Entry
    <3>2. w <= e.version
      BY <2>4 DEF Fresh
    <3>3. CASE x \in Published(rows.corpus)
      BY <2>4, <3>3 DEF Fresh
    <3>4. CASE x = put.version
      <4>1. w \in Nat
        BY <1>4
      <4> QED BY <1>4, <2>2, <3>1, <3>2, <3>4, <4>1
    <3> QED BY <1>1, <3>3, <3>4
  <2>5. Fresh(rows, ts) => Fresh(next, ts)
    BY <1>1, <2>1, <2>4 DEF Fresh
  <2> QED BY <2>3, <2>5
<1>6. CASE UpdateType(rows, put) # "NONE"
  <2>1. next \in Relist(o, put.version, in, ts)
    BY <1>3, <1>6
  <2> HIDE DEF in
  <2>2. Withdrawn(next, ts)
    BY <1>1, <1>2, <2>1, RelistMarket
  <2>3. ASSUME MaxChain = 0
        PROVE  \A w \in Published(in.corpus) : w <= put.version
    <3>1. ~ BetterChain(put.chain, rows.chain)
      BY <1>2, <2>3 DEF BetterChain
    <3>2. \A w \in Published(rows.corpus) : w < put.version
      BY <1>6, <3>1 DEF UpdateType
    <3> QED BY <1>1, <1>4, <3>2
  <2>4. MaxChain = 0 => Fresh(next, ts)
    BY <1>1, <1>2, <2>1, <2>3, RelistMarket
  <2> QED BY <2>2, <2>4
<1> QED BY <1>5, <1>6

LEMMA OutcomesMarket ==
  ASSUME TypeOK, NEW o \in Offers, NEW u \in updates, NEW next \in Outcomes(o, u),
         Withdrawn(store[o], u.now)
  PROVE  /\ Withdrawn(next, u.now)
         /\ MaxChain = 0 /\ Fresh(store[o], u.now) => Fresh(next, u.now)
<1> DEFINE op == u.batch.op[o]
           rows == IF u.batch.clear THEN DeleteFrom(u.feed, store[o], u.now)
                   ELSE store[o]
<1>1. /\ store[o] \in OfferRows /\ u.feed \in Feeds /\ u.now \in 0 .. Horizon
      /\ op \in Put \cup {Keep, Remove}
  BY DEF TypeOK, Update, Batch
<1>2. /\ rows \in OfferRows /\ Withdrawn(rows, u.now)
      /\ Fresh(store[o], u.now) => Fresh(rows, u.now)
  BY <1>1, DeleteFromShape, DeleteFromMarket
<1>3. next \in ApplyOp(o, u.feed, rows, op, u.now)
  BY DEF Outcomes
<1> HIDE DEF rows, op
<1>4. CASE op = Keep
  <2>1. next = rows
    BY <1>3, <1>4 DEF ApplyOp, Keep
  <2> QED BY <2>1, <1>2
<1>5. CASE op = Remove
  <2>1. next = DeleteFrom(u.feed, rows, u.now)
    BY <1>3, <1>5 DEF ApplyOp, Remove
  <2> QED BY <1>1, <1>2, <2>1, DeleteFromMarket
<1>6. CASE op \in Put
  BY <1>1, <1>2, <1>3, <1>6, PutMarket
<1> QED BY <1>1, <1>4, <1>5, <1>6

-----------------------------------------------------------------------------
(* Whoever the offer is for sees it, or it is reserved for another.        *)

Available(o, rows, now) ==
  rows.accepted = {} /\ Published(rows.corpus) # {} =>
    \A t \in Time : t >= now /\ Live(o, t) =>
      \A org \in IF o \in OwnOffers THEN Orgs \ rows.rejected ELSE {Host} :
        \/ VersionsSeen(rows.timeline, org, t) # {}
        \/ \E e \in rows.timeline : e.reserved /\ e.target # org /\ Covers(e, t)

LEMMA RelistAvailable ==
  ASSUME ListsToExpiration, ListsEveryone,
         NEW o \in Offers, NEW v \in Versions, NEW rows \in OfferRows,
         NEW ts \in 0 .. Horizon, NEW next \in Relist(o, v, rows, ts),
         NEW now \in Int, ts <= now
  PROVE  Available(o, next, now)
<1>1. PICK new \in SUBSET Entry :
        /\ next = [rows EXCEPT !.timeline = Truncate(rows.timeline, ts) \cup new]
        /\ OnMarket(o, v, rows, ts, new)
  BY RelistNew
<1>2. /\ next.rejected = rows.rejected
      /\ next.timeline = Truncate(rows.timeline, ts) \cup new
  BY <1>1 DEF OfferRows
<1>3. ts \in Int /\ \A t \in Time : t \in Int
  BY ConstantsAssumption DEF Time
<1> DEFINE audience == IF o \in OwnOffers THEN Orgs \ rows.rejected ELSE {Host}
<1> SUFFICES ASSUME NEW t \in Time, t >= now, Live(o, t), NEW org \in audience
             PROVE  \/ VersionsSeen(next.timeline, org, t) # {}
                    \/ \E e \in next.timeline :
                         e.reserved /\ e.target # org /\ Covers(e, t)
  BY <1>2 DEF Available
<1>4. ts <= t /\ t < Expiration[o][v]
  BY <1>3 DEF Live
<1>5. PICK e \in new : Covers(e, t) /\ (e.target \in {org, Wildcard} \/ e.reserved)
  BY <1>1, <1>4 DEF OnMarket, Everyone
<1>6. e \in next.timeline
  BY <1>2, <1>5
<1>7. CASE e.target \in {org, Wildcard}
  <2>1. e.version \in VersionsSeen(next.timeline, org, t)
    BY <1>5, <1>6, <1>7 DEF VersionsSeen
  <2> QED BY <2>1
<1>8. CASE e.target \notin {org, Wildcard}
  BY <1>5, <1>6, <1>8
<1> QED BY <1>7, <1>8

(* Rows that differ only in what is published by fewer corpora.            *)
LEMMA SameAvailable ==
  ASSUME NEW o, NEW rows, NEW next, NEW now,
         next.timeline = rows.timeline, next.rejected = rows.rejected,
         next.accepted = rows.accepted,
         Published(next.corpus) # {} => Published(rows.corpus) # {},
         Available(o, rows, now)
  PROVE  Available(o, next, now)
BY DEF Available

LEMMA DeleteFromAvailable ==
  ASSUME NEW o, NEW f \in Feeds, NEW rows \in OfferRows, NEW ts \in 0 .. Horizon,
         NEW now, Available(o, rows, now)
  PROVE  Available(o, DeleteFrom(f, rows, ts), now)
<1> DEFINE corpus == [rows.corpus EXCEPT ![f] = NoVersion]
           timeline == IF Published(corpus) = {}
                       THEN Truncate(rows.timeline, ts) ELSE rows.timeline
           next == DeleteFrom(f, rows, ts)
<1>1. CASE rows.corpus[f] = NoVersion
  BY <1>1 DEF DeleteFrom
<1>2. CASE rows.corpus[f] # NoVersion
  <2>1. next = [rows EXCEPT !.corpus = corpus, !.timeline = timeline]
    BY <1>2 DEF DeleteFrom
  <2>2. Published(corpus) \subseteq Published(rows.corpus)
    BY DEF Published, OfferRows
  <2>3. Published(corpus) # {} => timeline = rows.timeline
    OBVIOUS
  <2> HIDE DEF corpus, timeline, next
  <2>4. /\ next.corpus = corpus /\ next.timeline = timeline
        /\ next.rejected = rows.rejected /\ next.accepted = rows.accepted
    BY <2>1 DEF OfferRows
  <2>5. CASE Published(corpus) = {}
    BY <2>4, <2>5 DEF Available, next
  <2>6. CASE Published(corpus) # {}
    <3>1. Available(o, next, now)
      BY <2>2, <2>3, <2>4, <2>6, SameAvailable
    <3> QED BY <3>1 DEF next
  <2> QED BY <2>5, <2>6
<1> QED BY <1>1, <1>2

LEMMA OutcomesAvailable ==
  ASSUME ListsToExpiration, ListsEveryone, TypeOK,
         NEW o \in Offers, NEW u \in updates, NEW next \in Outcomes(o, u),
         NEW now \in Int, u.now <= now, Available(o, store[o], now)
  PROVE  Available(o, next, now)
<1> DEFINE op == u.batch.op[o]
           rows == IF u.batch.clear THEN DeleteFrom(u.feed, store[o], u.now)
                   ELSE store[o]
<1>1. /\ store[o] \in OfferRows /\ u.feed \in Feeds /\ u.now \in 0 .. Horizon
      /\ op \in Put \cup {Keep, Remove}
  BY DEF TypeOK, Update, Batch
<1>2. rows \in OfferRows /\ Available(o, rows, now)
  BY <1>1, DeleteFromShape, DeleteFromAvailable
<1>3. next \in ApplyOp(o, u.feed, rows, op, u.now)
  BY DEF Outcomes
<1> HIDE DEF rows, op
<1>4. CASE op = Keep
  <2>1. next = rows
    BY <1>3, <1>4 DEF ApplyOp, Keep
  <2> QED BY <2>1, <1>2
<1>5. CASE op = Remove
  <2>1. next = DeleteFrom(u.feed, rows, u.now)
    BY <1>3, <1>5 DEF ApplyOp, Remove
  <2> QED BY <1>1, <1>2, <2>1, DeleteFromAvailable
<1>6. CASE op \in Put
  <2> DEFINE in == InsertInto(u.feed, rows, op)
  <2>1. op.kind = "put" /\ op.version \in Versions
    BY <1>6 DEF Put
  <2>2. next \in IF UpdateType(rows, op) = "NONE" THEN {in}
                 ELSE Relist(o, op.version, in, u.now)
    BY <1>3, <2>1 DEF ApplyOp
  <2>3. /\ in \in OfferRows /\ in.rejected = rows.rejected
        /\ in.timeline = rows.timeline
    BY <1>1, <1>2, <1>6, InsertIntoShape
  <2>4. in.accepted = rows.accepted
    BY <1>2 DEF InsertInto, OfferRows
  <2> HIDE DEF in
  <2>5. CASE UpdateType(rows, op) = "NONE"
    <3>1. Published(rows.corpus) # {}
      BY <2>5 DEF UpdateType
    <3>2. next = in
      BY <2>2, <2>5
    <3> QED BY <1>2, <2>3, <2>4, <3>1, <3>2, SameAvailable
  <2>6. CASE UpdateType(rows, op) # "NONE"
    BY <1>1, <2>1, <2>2, <2>3, <2>6, RelistAvailable
  <2> QED BY <2>5, <2>6
<1> QED BY <1>1, <1>4, <1>5, <1>6

-----------------------------------------------------------------------------
(* Calls                                                                   *)

(* The rows that a rejection and a reservation list afresh.                *)
Rejecting(c) == [store[c.offer] EXCEPT !.rejected = @ \cup {c.org}]

Slot(c) == [start |-> c.now, end |-> ReservationEnd(c.offer, c.arg, c.now)]

Holding(c, v) ==
  [store[c.offer] EXCEPT !.timeline =
     Truncate(@, c.now) \cup {MakeEntry(c.org, v, Slot(c), TRUE)}]

(* What a call makes of the rows of its offer, if it succeeds.             *)
SeenBy(c) == OfferAtTime(store[c.offer].timeline, c.org, c.now)

TakenBy(c, next) ==
  /\ c.op = "accept"
  /\ \E v \in SeenBy(c) :
       next = [store[c.offer] EXCEPT
                 !.accepted = @ \cup {[version |-> v, by |-> c.org, at |-> c.now]},
                 !.timeline = Truncate(@, c.now)]

RejectedBy(c, next) ==
  c.op = "reject" /\ \E v \in SeenBy(c) : next \in Relist(c.offer, v, Rejecting(c), c.now)

ReservedBy(c, next) ==
  c.op = "reserve" /\ \E v \in SeenBy(c) : next \in Relist(c.offer, v, Holding(c, v), c.now)

LEMMA CallTypes ==
  ASSUME TypeOK, NEW c \in calls
  PROVE  /\ c.offer \in Offers /\ c.org \in Orgs /\ c.now \in 0 .. Horizon
         /\ c.now \in Time /\ store[c.offer] \in OfferRows
         /\ SeenBy(c) \subseteq Versions
<1>1. /\ c.offer \in Offers /\ c.org \in Orgs /\ c.now \in 0 .. Horizon
      /\ c.now \in Time /\ store[c.offer] \in OfferRows
  BY ConstantsAssumption DEF TypeOK, Call, CallRecord, Time
<1>2. SeenBy(c) \subseteq Versions
  BY <1>1, VersionsSeenType DEF SeenBy
<1> QED BY <1>1, <1>2

LEMMA CallOutcomes ==
  ASSUME TypeOK, NEW c \in calls, Accept(c) \/ Reject(c) \/ Reserve(c),
         NEW o \in Offers
  PROVE  \/ store'[o] = store[o]
         \/ /\ o = c.offer
            /\ TakenBy(c, store'[o]) \/ RejectedBy(c, store'[o]) \/ ReservedBy(c, store'[o])
<1>1. SUFFICES ASSUME store'[o] # store[o]
               PROVE  /\ o = c.offer
                      /\ \/ TakenBy(c, store'[o])
                         \/ RejectedBy(c, store'[o])
                         \/ ReservedBy(c, store'[o])
  OBVIOUS
<1>2. ASSUME NEW next, Commit(c, next)
      PROVE  o = c.offer /\ store'[o] = next
  BY <1>1, <1>2, CallTypes DEF Commit, TypeOK
<1>3. ~ Refuse(c)
  BY <1>1 DEF Refuse
<1>4. CASE Accept(c)
  <2> DEFINE taken(v) ==
        [store[c.offer] EXCEPT
           !.accepted = @ \cup {[version |-> v, by |-> c.org, at |-> c.now]},
           !.timeline = Truncate(@, c.now)]
  <2>1. c.op = "accept" /\ \E v \in SeenBy(c) : Commit(c, taken(v))
    BY <1>3, <1>4 DEF Accept, SeenBy
  <2>2. PICK v \in SeenBy(c) : Commit(c, taken(v))
    BY <2>1
  <2>3. o = c.offer /\ store'[o] = taken(v)
    BY <1>2, <2>2
  <2> QED BY <2>1, <2>3 DEF TakenBy
<1>5. CASE Reject(c)
  <2>1. /\ c.op = "reject"
        /\ \E v \in SeenBy(c) :
             \E next \in Relist(c.offer, v, Rejecting(c), c.now) : Commit(c, next)
    BY <1>3, <1>5 DEF Reject, SeenBy, Rejecting
  <2>2. PICK v \in SeenBy(c) :
          \E next \in Relist(c.offer, v, Rejecting(c), c.now) : Commit(c, next)
    BY <2>1
  <2>3. o = c.offer /\ store'[o] \in Relist(c.offer, v, Rejecting(c), c.now)
    BY <1>2, <2>2
  <2> QED BY <2>1, <2>3 DEF RejectedBy
<1>6. CASE Reserve(c)
  <2>1. /\ c.op = "reserve"
        /\ \E v \in SeenBy(c) :
             \E next \in Relist(c.offer, v, Holding(c, v), c.now) : Commit(c, next)
    BY <1>3, <1>6 DEF Reserve, SeenBy, Holding, Slot
  <2>2. PICK v \in SeenBy(c) :
          \E next \in Relist(c.offer, v, Holding(c, v), c.now) : Commit(c, next)
    BY <2>1
  <2>3. o = c.offer /\ store'[o] \in Relist(c.offer, v, Holding(c, v), c.now)
    BY <1>2, <2>2
  <2> QED BY <2>1, <2>3 DEF ReservedBy
<1> QED BY <1>4, <1>5, <1>6

LEMMA RejectingRows ==
  ASSUME TypeOK, NEW c \in calls
  PROVE  /\ Rejecting(c) \in OfferRows
         /\ Rejecting(c).corpus = store[c.offer].corpus
         /\ Rejecting(c).timeline = store[c.offer].timeline
         /\ Rejecting(c).accepted = store[c.offer].accepted
         /\ Rejecting(c).rejected = store[c.offer].rejected \cup {c.org}
BY CallTypes DEF Rejecting, OfferRows

LEMMA HoldingRows ==
  ASSUME TypeOK, NEW c \in calls, c.op = "reserve", NEW v \in Versions
  PROVE  /\ Holding(c, v) \in OfferRows
         /\ Holding(c, v).corpus = store[c.offer].corpus
         /\ Holding(c, v).rejected = store[c.offer].rejected
         /\ Holding(c, v).accepted = store[c.offer].accepted
         /\ Holding(c, v).timeline = Truncate(store[c.offer].timeline, c.now)
                                     \cup {MakeEntry(c.org, v, Slot(c), TRUE)}
         /\ MakeEntry(c.org, v, Slot(c), TRUE) \in Entry
<1>1. Slot(c).start = c.now /\ Slot(c).end = ReservationEnd(c.offer, c.arg, c.now)
  BY DEF Slot
<1>2. c.now \in Time /\ ReservationEnd(c.offer, c.arg, c.now) \in Time
  <2>1. c.arg \in Lengths
    BY DEF TypeOK, Call, CallArgs
  <2>2. /\ c.arg \in Nat /\ Horizon + c.arg <= MaxTime
        /\ MaxReservation[c.offer] \in Nat
    BY <2>1, CallTypes, ConstantsAssumption
  <2>3. ReservationEnd(c.offer, c.arg, c.now) \in 0 .. MaxTime
    BY <2>2, CallTypes, ConstantsAssumption DEF ReservationEnd, Lesser, Time
  <2> QED BY <2>3, CallTypes DEF Time
<1>3. MakeEntry(c.org, v, Slot(c), TRUE) \in Entry
  BY <1>1, <1>2, CallTypes DEF MakeEntry, Entry, Targets
<1>4. Truncate(store[c.offer].timeline, c.now) \subseteq Entry
  BY CallTypes, TruncateType DEF OfferRows
<1> DEFINE timeline == Truncate(store[c.offer].timeline, c.now)
                       \cup {MakeEntry(c.org, v, Slot(c), TRUE)}
<1>5. Holding(c, v) = [store[c.offer] EXCEPT !.timeline = timeline]
  BY DEF Holding
<1>6. timeline \subseteq Entry
  BY <1>3, <1>4
<1> HIDE DEF timeline
<1>7. /\ Holding(c, v) \in OfferRows
      /\ Holding(c, v).corpus = store[c.offer].corpus
      /\ Holding(c, v).rejected = store[c.offer].rejected
      /\ Holding(c, v).accepted = store[c.offer].accepted
      /\ Holding(c, v).timeline = timeline
  BY <1>5, <1>6, CallTypes DEF OfferRows
<1> QED BY <1>3, <1>7 DEF timeline

(* What a caller is shown is on the market: something is published, and    *)
(* nothing newer than what the caller sees.                                *)
LEMMA SeenMarket ==
  ASSUME NEW rows \in OfferRows, NEW viewer, NEW ts \in 0 .. Horizon,
         NEW v \in OfferAtTime(rows.timeline, viewer, ts), Withdrawn(rows, ts)
  PROVE  /\ Published(rows.corpus) # {}
         /\ Fresh(rows, ts) => \A w \in Published(rows.corpus) : w <= v
<1>1. PICK e \in rows.timeline : v = e.version /\ Covers(e, ts)
  BY DEF OfferAtTime, VersionsSeen
<1>2. e.end \in Int /\ ts \in Int
  BY ConstantsAssumption DEF OfferRows, Entry, Time
<1>3. e.end > ts /\ ~ (e.end <= ts)
  BY <1>1, <1>2 DEF Covers
<1> QED BY <1>1, <1>3 DEF Withdrawn, Fresh

(* A call that commits truncates the timeline, or lists what it saw.       *)
LEMMA CallMarket ==
  ASSUME TypeOK, NEW c \in calls, Accept(c) \/ Reject(c) \/ Reserve(c),
         NEW o \in Offers, Withdrawn(store[o], c.now)
  PROVE  /\ Withdrawn(store'[o], c.now)
         /\ Fresh(store[o], c.now) => Fresh(store'[o], c.now)
<1> DEFINE rows == store[o]
           next == store'[o]
<1> HIDE DEF next
<1>1. SUFFICES ASSUME next # rows
               PROVE  Withdrawn(next, c.now) /\ (Fresh(rows, c.now) => Fresh(next, c.now))
  BY DEF next
<1>2. /\ o = c.offer
      /\ TakenBy(c, next) \/ RejectedBy(c, next) \/ ReservedBy(c, next)
  BY <1>1, CallOutcomes DEF next
<1>3. /\ c.now \in 0 .. Horizon /\ c.now \in Time /\ rows \in OfferRows
      /\ SeenBy(c) \subseteq Versions
  BY CallTypes, <1>2
<1>4. CASE TakenBy(c, next)
  <2>1. /\ next.corpus = rows.corpus
        /\ next.timeline = Truncate(rows.timeline, c.now)
    BY <1>2, <1>3, <1>4 DEF TakenBy, OfferRows
  <2>2. \A e \in Truncate(rows.timeline, c.now) :
          e.end <= c.now /\ e.end \in Int /\ c.now \in Int
    BY <1>3, TruncateType, ConstantsAssumption DEF OfferRows, Time, Entry
  <2>3. \A e \in Truncate(rows.timeline, c.now) : ~ (e.end > c.now)
    BY <2>2
  <2> QED BY <2>1, <2>2, <2>3 DEF Withdrawn, Fresh
<1>5. ASSUME NEW v \in SeenBy(c),
             NEW before \in OfferRows, before.corpus = rows.corpus,
             next \in Relist(c.offer, v, before, c.now)
      PROVE  Withdrawn(next, c.now) /\ (Fresh(rows, c.now) => Fresh(next, c.now))
  <2>1. /\ Published(before.corpus) # {}
        /\ Fresh(rows, c.now) => \A w \in Published(before.corpus) : w <= v
    BY <1>2, <1>3, <1>5, SeenMarket DEF SeenBy
  <2> QED BY <1>2, <1>3, <1>5, <2>1, RelistMarket
<1>6. CASE RejectedBy(c, next)
  <2>1. Rejecting(c) \in OfferRows /\ Rejecting(c).corpus = rows.corpus
    BY <1>2, RejectingRows
  <2> QED BY <1>5, <1>6, <2>1 DEF RejectedBy
<1>7. CASE ReservedBy(c, next)
  <2>1. PICK v \in SeenBy(c) : next \in Relist(c.offer, v, Holding(c, v), c.now)
    BY <1>7 DEF ReservedBy
  <2>2. Holding(c, v) \in OfferRows /\ Holding(c, v).corpus = rows.corpus
    BY <1>2, <1>3, <1>7, HoldingRows DEF ReservedBy
  <2> QED BY <1>5, <2>1, <2>2
<1> QED BY <1>2, <1>4, <1>6, <1>7

LEMMA CallAvailable ==
  ASSUME ListsToExpiration, ListsEveryone, TypeOK,
         NEW c \in calls, Accept(c) \/ Reject(c) \/ Reserve(c), NEW o \in Offers,
         NEW now \in Int, c.now <= now, Available(o, store[o], now)
  PROVE  Available(o, store'[o], now)
<1> DEFINE next == store'[o]
<1> HIDE DEF next
<1>1. SUFFICES ASSUME next # store[o]
               PROVE  Available(o, next, now)
  BY DEF next
<1>2. /\ o = c.offer
      /\ TakenBy(c, next) \/ RejectedBy(c, next) \/ ReservedBy(c, next)
  BY <1>1, CallOutcomes DEF next
<1>3. c.now \in 0 .. Horizon /\ store[o] \in OfferRows /\ SeenBy(c) \subseteq Versions
  BY CallTypes, <1>2
<1>4. CASE TakenBy(c, next)
  <2>1. PICK v \in SeenBy(c) :
          next = [store[o] EXCEPT
                    !.accepted = @ \cup {[version |-> v, by |-> c.org, at |-> c.now]},
                    !.timeline = Truncate(@, c.now)]
    BY <1>2, <1>4 DEF TakenBy
  <2>2. [version |-> v, by |-> c.org, at |-> c.now] \in next.accepted
    BY <1>3, <2>1 DEF OfferRows
  <2> QED BY <2>2 DEF Available
<1>5. CASE RejectedBy(c, next)
  <2>1. Rejecting(c) \in OfferRows
    BY RejectingRows
  <2> QED BY <1>2, <1>3, <1>5, <2>1, RelistAvailable DEF RejectedBy
<1>6. CASE ReservedBy(c, next)
  <2>1. PICK v \in SeenBy(c) : next \in Relist(c.offer, v, Holding(c, v), c.now)
    BY <1>6 DEF ReservedBy
  <2>2. Holding(c, v) \in OfferRows
    BY <1>3, <1>6, HoldingRows DEF ReservedBy
  <2> QED BY <1>2, <1>3, <2>1, <2>2, RelistAvailable
<1> QED BY <1>2, <1>4, <1>5, <1>6

LEMMA AvailableStep ==
  ASSUME ListsToExpiration, ListsEveryone, IInv, [Next]_vars, NEW o \in Offers,
         clock \in Int, Available(o, store[o], clock)
  PROVE  Available(o, store'[o], clock)
<1>1. CASE store' = store
  BY <1>1
<1>2. CASE \E u \in updates : ProcessUpdate(u)
  <2>1. PICK u \in updates : ProcessUpdate(u)
    BY <1>2
  <2> DEFINE next == store'[o]
  <2>2. next \in Outcomes(o, u) /\ u.now <= clock
    BY <2>1 DEF ProcessUpdate, IInv, CapturedInPast
  <2> HIDE DEF next
  <2>3. Available(o, next, clock)
    BY <2>2, OutcomesAvailable DEF IInv
  <2> QED BY <2>3 DEF next
<1>3. CASE \E c \in calls : Accept(c) \/ Reject(c) \/ Reserve(c)
  <2>1. PICK c \in calls : Accept(c) \/ Reject(c) \/ Reserve(c)
    BY <1>3
  <2>2. c.now <= clock
    BY DEF IInv, CapturedInPast
  <2> QED BY <2>1, <2>2, CallAvailable DEF IInv
<1> QED BY <1>1, <1>2, <1>3
  DEF Next, vars, Tick, BeginUpdate, AbandonUpdate, BeginCall, AbandonCall, Refuse

(* Under a policy that lists everyone who did not reject the offer until   *)
(* it expires, an offer that is published and not accepted is never lost,  *)
(* however late calls and updates commit: whoever it is for sees it at     *)
(* every instant until the expiration, unless another holds it just then   *)
(* (persistentoffermodel.ts, updateListings).                              *)
THEOREM AvailableTillTaken ==
  ASSUME ListsToExpiration, ListsEveryone PROVE Spec => []AvailableUntilTaken
<1>1. AvailableUntilTaken <=> \A o \in Offers : Available(o, store[o], clock)
  BY DEF AvailableUntilTaken, Available, Audience
<1>2. AvailableUntilTaken' <=> \A o \in Offers : Available(o, store'[o], clock')
  BY DEF AvailableUntilTaken, Available, Audience
<1>3. Init => AvailableUntilTaken
  <2> SUFFICES ASSUME Init, NEW o \in Offers PROVE Available(o, store[o], clock)
    BY <1>1
  <2>1. Published(store[o].corpus) = {}
    BY DEF Init, EmptyRows, Published
  <2> QED BY <2>1 DEF Available
<1>4. IInv /\ AvailableUntilTaken /\ [Next]_vars => AvailableUntilTaken'
  <2> SUFFICES ASSUME IInv, AvailableUntilTaken, [Next]_vars, NEW o \in Offers
               PROVE  Available(o, store'[o], clock')
    BY <1>2
  <2>1. clock \in Int /\ clock' \in Int /\ clock <= clock'
    BY ClockAdvances
  <2>2. Available(o, store[o], clock)
    BY <1>1
  <2>3. Available(o, store'[o], clock)
    BY <2>1, <2>2, AvailableStep
  <2>4. \A t \in Time : t >= clock' => t >= clock
    BY <2>1, ConstantsAssumption DEF Time
  <2> DEFINE next == store'[o]
  <2>5. Available(o, next, clock)
    BY <2>3
  <2> HIDE DEF next
  <2>6. Available(o, next, clock')
    BY <2>4, <2>5 DEF Available
  <2> QED BY <2>6 DEF next
<1> QED BY <1>3, <1>4, InductiveInvariant, PTL DEF Spec

-----------------------------------------------------------------------------
(* The timeline as a history                                               *)

(* Two timelines say the same of every instant before ts, as far as        *)
(* versions are concerned that have not expired at ts.                     *)
SamePast(o, before, after, ts) ==
  \A t \in Time, v \in Versions : t < ts /\ ts < Expiration[o][v] =>
    \A target \in Targets, r \in BOOLEAN :
      <<target, v, r>> \in CoverAt(before, t) <=> <<target, v, r>> \in CoverAt(after, t)

LEMMA CoverAtIs ==
  ASSUME NEW timeline, NEW t, NEW target, NEW v, NEW r
  PROVE  <<target, v, r>> \in CoverAt(timeline, t)
           <=> \E e \in timeline : /\ Covers(e, t) /\ e.target = target
                                   /\ e.version = v /\ e.reserved = r
<1>1. <<target, v, r>> \in CoverAt(timeline, t)
        <=> \E e \in { e \in timeline : Covers(e, t) } :
              <<target, v, r>> = <<e.target, e.version, e.reserved>>
  BY DEF CoverAt
<1> QED BY <1>1

LEMMA SamePastTwice ==
  ASSUME NEW o, NEW ts, NEW x, NEW y, NEW z, SamePast(o, x, y, ts), SamePast(o, y, z, ts)
  PROVE  SamePast(o, x, z, ts)
BY DEF SamePast

LEMMA TruncatePast ==
  ASSUME NEW o, NEW timeline \in SUBSET Entry, NEW ts \in Time
  PROVE  SamePast(o, timeline, Truncate(timeline, ts), ts)
<1> SUFFICES ASSUME NEW t \in Time, NEW v \in Versions, t < ts,
                    NEW target \in Targets, NEW r \in BOOLEAN
             PROVE  <<target, v, r>> \in CoverAt(timeline, t)
                      <=> <<target, v, r>> \in CoverAt(Truncate(timeline, ts), t)
  BY DEF SamePast
<1>1. ts \in Int /\ t \in Int
  BY ConstantsAssumption DEF Time
<1>2. ASSUME NEW e \in timeline
      PROVE  /\ e.start \in Int /\ e.end \in Int
             /\ [e EXCEPT !.end = Lesser(e.end, ts)].start = e.start
             /\ [e EXCEPT !.end = Lesser(e.end, ts)].end = Lesser(e.end, ts)
             /\ [e EXCEPT !.end = Lesser(e.end, ts)].target = e.target
             /\ [e EXCEPT !.end = Lesser(e.end, ts)].version = e.version
             /\ [e EXCEPT !.end = Lesser(e.end, ts)].reserved = e.reserved
  <2>1. e \in Entry
    OBVIOUS
  <2> QED BY <2>1, ConstantsAssumption DEF Entry, Time
<1>3. ASSUME NEW e \in timeline, Covers(e, t), e.target = target, e.version = v,
             e.reserved = r
      PROVE  \E d \in Truncate(timeline, ts) :
               Covers(d, t) /\ d.target = target /\ d.version = v /\ d.reserved = r
  <2> DEFINE d == [e EXCEPT !.end = Lesser(e.end, ts)]
  <2>1. e.start < ts
    BY <1>1, <1>2, <1>3 DEF Covers
  <2>2. d \in Truncate(timeline, ts)
    BY <2>1 DEF Truncate
  <2>3. /\ d.start = e.start /\ d.end = Lesser(e.end, ts) /\ d.target = target
        /\ d.version = v /\ d.reserved = r
    BY <1>2, <1>3
  <2> HIDE DEF d
  <2>4. Covers(d, t)
    BY <1>1, <1>2, <1>3, <2>3 DEF Covers, Lesser
  <2> QED BY <2>2, <2>3, <2>4
<1>4. ASSUME NEW d \in Truncate(timeline, ts), Covers(d, t), d.target = target,
             d.version = v, d.reserved = r
      PROVE  \E e \in timeline :
               Covers(e, t) /\ e.target = target /\ e.version = v /\ e.reserved = r
  <2>1. PICK e \in timeline : d = [e EXCEPT !.end = Lesser(e.end, ts)]
    BY DEF Truncate
  <2>2. /\ d.start = e.start /\ d.end = Lesser(e.end, ts) /\ e.target = target
        /\ e.version = v /\ e.reserved = r
    BY <1>2, <1>4, <2>1
  <2>3. Covers(e, t)
    BY <1>1, <1>2, <1>4, <2>2 DEF Covers, Lesser
  <2> QED BY <2>2, <2>3
<1> QED BY <1>3, <1>4, CoverAtIs

(* Entries that start now change nothing of the past.                      *)
LEMMA MorePast ==
  ASSUME NEW o, NEW ts \in Int, NEW timeline, NEW new,
         \A e \in new : \A t \in Time : Covers(e, t) /\ ts < Expiration[o][e.version] => ts <= t
  PROVE  SamePast(o, timeline, timeline \cup new, ts)
<1> SUFFICES ASSUME NEW t \in Time, NEW v \in Versions, t < ts, ts < Expiration[o][v],
                    NEW target \in Targets, NEW r \in BOOLEAN
             PROVE  <<target, v, r>> \in CoverAt(timeline, t)
                      <=> <<target, v, r>> \in CoverAt(timeline \cup new, t)
  BY DEF SamePast
<1>1. t \in Int
  BY ConstantsAssumption DEF Time
<1>2. \A e \in new : ~ (Covers(e, t) /\ e.version = v)
  BY <1>1
<1> QED BY <1>2, CoverAtIs

LEMMA RelistPast ==
  ASSUME ListsToExpiration,
         NEW o \in Offers, NEW v \in Versions, NEW rows \in OfferRows,
         NEW ts \in 0 .. Horizon, NEW next \in Relist(o, v, rows, ts)
  PROVE  SamePast(o, rows.timeline, next.timeline, ts)
<1>1. PICK new \in SUBSET Entry :
        /\ next = [rows EXCEPT !.timeline = Truncate(rows.timeline, ts) \cup new]
        /\ OnMarket(o, v, rows, ts, new)
  BY RelistNew
<1>2. next.timeline = Truncate(rows.timeline, ts) \cup new
  BY <1>1 DEF OfferRows
<1>3. ts \in Time /\ ts \in Int /\ rows.timeline \in SUBSET Entry
  BY ConstantsAssumption DEF Time, OfferRows
<1>4. \A e \in new : \A t \in Time : Covers(e, t) /\ ts < Expiration[o][e.version] => ts <= t
  BY <1>1 DEF OnMarket, Afresh
<1>5. SamePast(o, rows.timeline, Truncate(rows.timeline, ts), ts)
  BY <1>3, TruncatePast
<1> DEFINE kept == Truncate(rows.timeline, ts)
<1> HIDE DEF kept
<1>6. SamePast(o, kept, kept \cup new, ts)
  BY <1>3, <1>4, MorePast
<1>7. SamePast(o, Truncate(rows.timeline, ts), next.timeline, ts)
  BY <1>2, <1>6 DEF kept
<1> QED BY <1>5, <1>7, SamePastTwice

LEMMA DeleteFromPast ==
  ASSUME NEW o, NEW f \in Feeds, NEW rows \in OfferRows, NEW ts \in 0 .. Horizon
  PROVE  SamePast(o, rows.timeline, DeleteFrom(f, rows, ts).timeline, ts)
<1>1. \/ DeleteFrom(f, rows, ts).timeline = rows.timeline
      \/ DeleteFrom(f, rows, ts).timeline = Truncate(rows.timeline, ts)
  BY DeleteFromShape
<1>2. ts \in Time /\ rows.timeline \in SUBSET Entry
  BY ConstantsAssumption DEF Time, OfferRows
<1>3. SamePast(o, rows.timeline, rows.timeline, ts)
  BY DEF SamePast
<1> QED BY <1>1, <1>2, <1>3, TruncatePast

LEMMA OutcomesPast ==
  ASSUME ListsToExpiration, TypeOK,
         NEW o \in Offers, NEW u \in updates, NEW next \in Outcomes(o, u)
  PROVE  SamePast(o, store[o].timeline, next.timeline, u.now)
<1> DEFINE op == u.batch.op[o]
           rows == IF u.batch.clear THEN DeleteFrom(u.feed, store[o], u.now)
                   ELSE store[o]
<1>1. /\ store[o] \in OfferRows /\ u.feed \in Feeds /\ u.now \in 0 .. Horizon
      /\ op \in Put \cup {Keep, Remove}
  BY DEF TypeOK, Update, Batch
<1>2. ASSUME NEW timeline
      PROVE  SamePast(o, timeline, timeline, u.now)
  BY DEF SamePast
<1>3. rows \in OfferRows /\ SamePast(o, store[o].timeline, rows.timeline, u.now)
  BY <1>1, <1>2, DeleteFromShape, DeleteFromPast
<1>4. next \in ApplyOp(o, u.feed, rows, op, u.now)
  BY DEF Outcomes
<1> HIDE DEF rows, op
<1>5. SamePast(o, rows.timeline, next.timeline, u.now)
  <2>1. CASE op = Keep
    <3>1. next = rows
      BY <1>4, <2>1 DEF ApplyOp, Keep
    <3> QED BY <3>1, <1>2
  <2>2. CASE op = Remove
    <3>1. next = DeleteFrom(u.feed, rows, u.now)
      BY <1>4, <2>2 DEF ApplyOp, Remove
    <3> QED BY <1>1, <1>3, <3>1, DeleteFromPast
  <2>3. CASE op \in Put
    <3> DEFINE in == InsertInto(u.feed, rows, op)
    <3>1. op.kind = "put" /\ op.version \in Versions
      BY <2>3 DEF Put
    <3>2. next \in IF UpdateType(rows, op) = "NONE" THEN {in}
                   ELSE Relist(o, op.version, in, u.now)
      BY <1>4, <3>1 DEF ApplyOp
    <3>3. in \in OfferRows /\ in.timeline = rows.timeline
      BY <1>1, <1>3, <2>3, InsertIntoShape
    <3> HIDE DEF in
    <3>4. CASE next = in
      BY <1>2, <3>3, <3>4
    <3>5. CASE next \in Relist(o, op.version, in, u.now)
      BY <1>1, <3>1, <3>3, <3>5, RelistPast
    <3> QED BY <3>2, <3>4, <3>5
  <2> QED BY <1>1, <2>1, <2>2, <2>3
<1> QED BY <1>3, <1>5, SamePastTwice

LEMMA CallPast ==
  ASSUME ListsToExpiration, TypeOK,
         NEW c \in calls, Accept(c) \/ Reject(c) \/ Reserve(c), NEW o \in Offers
  PROVE  SamePast(o, store[o].timeline, store'[o].timeline, c.now)
<1> DEFINE rows == store[o]
           next == store'[o]
<1> HIDE DEF next
<1>1. CASE next = rows
  BY <1>1 DEF SamePast, next
<1>2. SUFFICES ASSUME next # rows
               PROVE  SamePast(o, rows.timeline, next.timeline, c.now)
  BY <1>1 DEF next
<1>3. /\ o = c.offer
      /\ TakenBy(c, next) \/ RejectedBy(c, next) \/ ReservedBy(c, next)
  BY <1>2, CallOutcomes DEF next
<1>4. /\ c.now \in 0 .. Horizon /\ c.now \in Time /\ c.now \in Int
      /\ rows \in OfferRows /\ SeenBy(c) \subseteq Versions
      /\ rows.timeline \in SUBSET Entry
  BY CallTypes, <1>3, ConstantsAssumption DEF OfferRows, Time
<1>5. SamePast(o, rows.timeline, Truncate(rows.timeline, c.now), c.now)
  BY <1>4, TruncatePast
<1>6. CASE TakenBy(c, next)
  <2>1. next.timeline = Truncate(rows.timeline, c.now)
    BY <1>3, <1>4, <1>6 DEF TakenBy, OfferRows
  <2> QED BY <1>5, <2>1
<1>7. CASE RejectedBy(c, next)
  <2>1. Rejecting(c) \in OfferRows /\ Rejecting(c).timeline = rows.timeline
    BY <1>3, RejectingRows
  <2> QED BY <1>3, <1>4, <1>7, <2>1, RelistPast DEF RejectedBy
<1>8. CASE ReservedBy(c, next)
  <2>1. PICK v \in SeenBy(c) : next \in Relist(c.offer, v, Holding(c, v), c.now)
    BY <1>8 DEF ReservedBy
  <2> DEFINE entry == MakeEntry(c.org, v, Slot(c), TRUE)
             slot == {entry}
  <2>2. /\ Holding(c, v) \in OfferRows
        /\ Holding(c, v).timeline = Truncate(rows.timeline, c.now) \cup slot
    BY <1>3, <1>4, <1>8, HoldingRows DEF ReservedBy
  <2>3. entry.start = c.now
    BY DEF MakeEntry, Slot
  <2>4. \A e \in slot : \A t \in Time :
          Covers(e, t) /\ c.now < Expiration[o][e.version] => c.now <= t
    BY <2>3 DEF Covers
  <2> HIDE DEF slot, entry
  <2> DEFINE kept == Truncate(rows.timeline, c.now)
  <2> HIDE DEF kept
  <2>5. SamePast(o, Truncate(rows.timeline, c.now), Holding(c, v).timeline, c.now)
    <3>1. SamePast(o, kept, kept \cup slot, c.now)
      BY <1>4, <2>4, MorePast
    <3> QED BY <2>2, <3>1 DEF kept
  <2>6. SamePast(o, Holding(c, v).timeline, next.timeline, c.now)
    BY <1>3, <1>4, <2>1, <2>2, RelistPast
  <2> QED BY <1>5, <2>5, <2>6, SamePastTwice
<1> QED BY <1>3, <1>6, <1>7, <1>8

(* What a step may change of an offer's timeline lies at an instant that a *)
(* call in flight captured, or later.                                      *)
LEMMA StepPast ==
  ASSUME ListsToExpiration, IInv, [Next]_vars, NEW o \in Offers,
         NEW t \in Time, Settled(t)
  PROVE  \E ts \in 0 .. Horizon :
           t < ts /\ ts <= clock /\ SamePast(o, store[o].timeline, store'[o].timeline, ts)
<1>1. CASE store' = store
  <2>1. t < clock /\ clock \in 0 .. Horizon /\ clock <= clock
    BY DEF Settled, IInv, TypeOK
  <2>2. SamePast(o, store[o].timeline, store'[o].timeline, clock)
    BY <1>1 DEF SamePast
  <2> QED BY <2>1, <2>2
<1>2. CASE \E u \in updates : ProcessUpdate(u)
  <2>1. PICK u \in updates : ProcessUpdate(u)
    BY <1>2
  <2> DEFINE next == store'[o]
  <2>2. next \in Outcomes(o, u)
    BY <2>1 DEF ProcessUpdate
  <2> HIDE DEF next
  <2>3. t < u.now /\ u.now <= clock /\ u.now \in 0 .. Horizon
    BY DEF IInv, CapturedInPast, Settled, TypeOK, Update
  <2>4. SamePast(o, store[o].timeline, next.timeline, u.now)
    BY <2>2, OutcomesPast DEF IInv
  <2> QED BY <2>3, <2>4 DEF next
<1>3. CASE \E c \in calls : Accept(c) \/ Reject(c) \/ Reserve(c)
  <2>1. PICK c \in calls : Accept(c) \/ Reject(c) \/ Reserve(c)
    BY <1>3
  <2>2. t < c.now /\ c.now <= clock /\ c.now \in 0 .. Horizon
    BY CallTypes DEF IInv, CapturedInPast, Settled
  <2>3. SamePast(o, store[o].timeline, store'[o].timeline, c.now)
    BY <2>1, CallPast DEF IInv
  <2> QED BY <2>2, <2>3
<1> QED BY <1>1, <1>2, <1>3
  DEF Next, vars, Tick, BeginUpdate, AbandonUpdate, BeginCall, AbandonCall, Refuse

(* Under a policy whose listings last until the version expires the        *)
(* timeline is a history: however late calls and updates commit, no step   *)
(* changes who saw which unexpired version before the time that a call in  *)
(* flight captured (truncateFutureTimelineForOffer, updateListings).       *)
THEOREM HistoryStands == ASSUME ListsToExpiration PROVE Spec => HistoryFixed
<1>1. ASSUME IInv, [Next]_vars, NEW o \in Offers, NEW t \in Time, Settled(t),
             NEW target \in Targets, NEW v \in Versions, NEW r \in BOOLEAN,
             clock < Expiration[o][v]
      PROVE  <<target, v, r>> \in CoverAt(store[o].timeline, t)
               <=> <<target, v, r>> \in CoverAt(store'[o].timeline, t)
  <2>1. PICK ts \in 0 .. Horizon :
          t < ts /\ ts <= clock /\ SamePast(o, store[o].timeline, store'[o].timeline, ts)
    BY <1>1, StepPast
  <2>2. ts < Expiration[o][v]
    <3>1. Expiration[o][v] \in Int /\ ts \in Int /\ clock \in Int
      BY <1>1, ConstantsAssumption DEF IInv, TypeOK, Time
    <3> QED BY <1>1, <2>1, <3>1
  <2> DEFINE after == store'[o].timeline
  <2>3. SamePast(o, store[o].timeline, after, ts)
    BY <2>1
  <2> HIDE DEF after
  <2>4. <<target, v, r>> \in CoverAt(store[o].timeline, t)
          <=> <<target, v, r>> \in CoverAt(after, t)
    BY <2>1, <2>2, <2>3 DEF SamePast
  <2> QED BY <2>4 DEF after
<1>2. IInv /\ [Next]_vars =>
        [\A o \in Offers : \A t \in Time : Settled(t) =>
           \A target \in Targets, v \in Versions, r \in BOOLEAN :
             clock < Expiration[o][v] =>
               (<<target, v, r>> \in CoverAt(store[o].timeline, t)
                  <=> <<target, v, r>> \in CoverAt(store'[o].timeline, t))]_vars
  BY <1>1
<1> QED BY <1>2, InductiveInvariant, PTL DEF Spec, HistoryFixed

-----------------------------------------------------------------------------
(* Without lag the clock stands while a call is in flight.                 *)
InThisInstant == \A c \in calls \cup updates : c.now = clock

LEMMA InstantNext == NoLag /\ IInv /\ InThisInstant /\ [Next]_vars => InThisInstant'
<1> SUFFICES ASSUME NoLag, IInv, InThisInstant, [Next]_vars PROVE InThisInstant'
  OBVIOUS
<1>1. clock \in Int
  BY DEF IInv, TypeOK
<1>2. CASE Tick
  <2>1. \A c \in calls \cup updates : clock < c.now + 0 /\ c.now = clock
    BY <1>2 DEF Tick, NoLag, InThisInstant
  <2>2. calls \cup updates = {}
    BY <1>1, <2>1
  <2>3. UNCHANGED <<calls, updates>>
    BY <1>2 DEF Tick
  <2> QED BY <2>2, <2>3 DEF InThisInstant
<1>3. CASE UNCHANGED vars
  BY <1>3 DEF vars, InThisInstant
<1>4. ASSUME NEW f \in Feeds, NEW batch, BeginUpdate(f, batch)
      PROVE  InThisInstant'
  BY <1>4 DEF BeginUpdate, InThisInstant
<1>5. ASSUME NEW u \in updates, ProcessUpdate(u) \/ AbandonUpdate(u)
      PROVE  InThisInstant'
  BY <1>5 DEF ProcessUpdate, AbandonUpdate, InThisInstant
<1>6. ASSUME NEW id, NEW op, NEW org, NEW o, NEW arg, BeginCall(id, op, org, o, arg)
      PROVE  InThisInstant'
  BY <1>6 DEF BeginCall, InThisInstant
<1>7. ASSUME NEW c \in calls, Accept(c) \/ Reject(c) \/ Reserve(c) \/ AbandonCall(c)
      PROVE  InThisInstant'
  <2>1. clock' = clock /\ updates' = updates /\ calls' = calls \ {c}
    BY <1>7 DEF Accept, Reject, Reserve, AbandonCall, Refuse, Commit
  <2> QED BY <2>1 DEF InThisInstant
<1> QED BY <1>2, <1>3, <1>4, <1>5, <1>6, <1>7 DEF Next

(* Every step keeps each offer's market right, at the instant it happens.  *)
LEMMA MarketStep ==
  ASSUME IInv, InThisInstant, [Next]_vars, NEW o \in Offers,
         Withdrawn(store[o], clock)
  PROVE  /\ Withdrawn(store'[o], clock)
         /\ MaxChain = 0 /\ Fresh(store[o], clock) => Fresh(store'[o], clock)
<1>1. CASE store' = store
  BY <1>1
<1>2. CASE \E u \in updates : ProcessUpdate(u)
  <2>1. PICK u \in updates : ProcessUpdate(u)
    BY <1>2
  <2>2. store'[o] \in Outcomes(o, u) /\ u.now = clock
    BY <2>1 DEF ProcessUpdate, InThisInstant
  <2> DEFINE next == store'[o]
  <2>3. next \in Outcomes(o, u)
    BY <2>2
  <2> HIDE DEF next
  <2>4. /\ Withdrawn(next, clock)
        /\ MaxChain = 0 /\ Fresh(store[o], clock) => Fresh(next, clock)
    BY <2>2, <2>3, OutcomesMarket DEF IInv
  <2> QED BY <2>4 DEF next
<1>3. CASE \E c \in calls : Accept(c) \/ Reject(c) \/ Reserve(c)
  <2>1. PICK c \in calls : Accept(c) \/ Reject(c) \/ Reserve(c)
    BY <1>3
  <2>2. c.now = clock
    BY DEF InThisInstant
  <2> QED BY <2>1, <2>2, CallMarket DEF IInv
<1> QED BY <1>1, <1>2, <1>3
  DEF Next, vars, Tick, BeginUpdate, AbandonUpdate, BeginCall, AbandonCall, Refuse

(* The clock only makes both easier.                                       *)
LEMMA MarketLater ==
  ASSUME NEW rows \in OfferRows, NEW s \in Int, NEW t \in Int, s <= t
  PROVE  /\ Withdrawn(rows, s) => Withdrawn(rows, t)
         /\ Fresh(rows, s) => Fresh(rows, t)
<1>1. \A e \in rows.timeline : e.end \in Int
  BY ConstantsAssumption DEF OfferRows, Entry, Time
<1>2. \A e \in rows.timeline : (e.end <= s => e.end <= t) /\ (e.end > t => e.end > s)
  BY <1>1
<1> QED BY <1>2 DEF Withdrawn, Fresh

-----------------------------------------------------------------------------
(* What is live of a timeline                                              *)

(* Everything on the market is what one update of the listings put there.  *)
ListedBy(o, next, now, ts, v, rows, new) ==
  /\ ts <= now /\ OnMarket(o, v, rows, ts, new) /\ new \subseteq next.timeline
  /\ \A e \in next.timeline : e.end <= now \/ e \in new

ListedNow(o, next, now) ==
  \E ts \in 0 .. Horizon, v \in Versions, rows \in OfferRows, new \in SUBSET Entry :
    ListedBy(o, next, now, ts, v, rows, new)

LEMMA LiveStep ==
  ASSUME ListsToExpiration, IInv, [Next]_vars, NEW o \in Offers
  PROVE  \/ store'[o].timeline = store[o].timeline
         \/ \A e \in store'[o].timeline : e.end <= clock
         \/ ListedNow(o, store'[o], clock)
<1> DEFINE next == store'[o]
<1>1. Step(o, next) /\ store[o] \in OfferRows /\ clock \in Int
  BY StepShape DEF IInv, TypeOK
<1> HIDE DEF next
<1>2. PICK ts \in 0 .. Horizon :
        /\ ts <= clock
        /\ Kept(store[o], next) \/ Shortened(store[o], next, ts) \/ Relisted(o, next, ts)
  BY <1>1 DEF Step
<1>3. ts \in Time /\ ts \in Int
  BY ConstantsAssumption DEF Time
<1>4. ASSUME NEW timeline \in SUBSET Entry, NEW e \in Truncate(timeline, ts)
      PROVE  e.end <= clock
  <2>1. e \in Entry /\ e.end <= ts
    BY <1>3, TruncateType
  <2>2. e.end \in Int
    BY <2>1, ConstantsAssumption DEF Entry, Time
  <2> QED BY <1>1, <1>2, <1>3, <2>1, <2>2
<1>5. CASE Kept(store[o], next)
  BY <1>5 DEF Kept, next
<1>6. CASE Shortened(store[o], next, ts)
  <2>1. store[o].timeline \in SUBSET Entry
    BY <1>1 DEF OfferRows
  <2> QED BY <1>4, <1>6, <2>1 DEF Shortened, next
<1>7. CASE Relisted(o, next, ts)
  <2>1. PICK v \in Versions, rows \in OfferRows : next \in Relist(o, v, rows, ts)
    BY <1>7 DEF Relisted
  <2>2. PICK new \in SUBSET Entry :
          /\ next = [rows EXCEPT !.timeline = Truncate(rows.timeline, ts) \cup new]
          /\ OnMarket(o, v, rows, ts, new)
    BY <2>1, RelistNew
  <2>3. next.timeline = Truncate(rows.timeline, ts) \cup new
    BY <2>2 DEF OfferRows
  <2>4. rows.timeline \in SUBSET Entry
    BY DEF OfferRows
  <2>5. \A e \in next.timeline : e.end <= clock \/ e \in new
    BY <1>4, <2>3, <2>4
  <2>6. ListedBy(o, next, clock, ts, v, rows, new)
    BY <1>2, <2>2, <2>3, <2>5 DEF ListedBy
  <2> QED BY <2>6 DEF ListedNow, next
<1> QED BY <1>2, <1>5, <1>6, <1>7

(* On the market nobody is listed but by name, and the host for what       *)
(* others offer.                                                           *)
NamedOnly ==
  \A o \in Offers : \A e \in store[o].timeline : e.end > clock => NamedEntry(o, e)

(* A version that is on the market is until it expires.                    *)
NoGaps ==
  \A o \in Offers : \A e \in store[o].timeline : e.end > clock =>
    \A t \in Time : clock <= t /\ t < Expiration[o][e.version] =>
      \E d \in store[o].timeline : d.version = e.version /\ Covers(d, t)

LEMMA LiveTypes ==
  ASSUME IInv, [Next]_vars, NEW o \in Offers
  PROVE  /\ clock \in Int /\ clock' \in Int /\ clock <= clock'
         /\ \A e \in store'[o].timeline : e.end \in Int
<1>1. store'[o] \in OfferRows
  BY StepShape DEF IInv
<1>2. \A e \in store'[o].timeline : e.end \in Int
  BY <1>1, ConstantsAssumption DEF OfferRows, Entry, Time
<1> QED BY <1>2, ClockAdvances

LEMMA NamedOnlyHolds ==
  ASSUME ListsToExpiration, ListsByName PROVE Spec => []NamedOnly
<1>1. Init => NamedOnly
  BY DEF Init, EmptyRows, NamedOnly
<1>2. IInv /\ NamedOnly /\ [Next]_vars => NamedOnly'
  <2> SUFFICES ASSUME IInv, NamedOnly, [Next]_vars, NEW o \in Offers,
                      NEW e \in store'[o].timeline, e.end > clock'
               PROVE  NamedEntry(o, e)
    BY DEF NamedOnly
  <2>1. e.end > clock /\ ~ (e.end <= clock)
    BY LiveTypes
  <2>2. CASE store'[o].timeline = store[o].timeline
    BY <2>1, <2>2 DEF NamedOnly
  <2>3. CASE ListedNow(o, store'[o], clock)
    <3>1. PICK ts \in 0 .. Horizon, v \in Versions, rows \in OfferRows,
               new \in SUBSET Entry :
            ListedBy(o, store'[o], clock, ts, v, rows, new)
      BY <2>3 DEF ListedNow
    <3>2. e \in new /\ Named(o, new)
      BY <2>1, <3>1 DEF ListedBy, OnMarket
    <3> QED BY <3>2 DEF Named
  <2> QED BY <2>1, <2>2, <2>3, LiveStep
<1> QED BY <1>1, <1>2, InductiveInvariant, PTL DEF Spec

LEMMA NoGapsHold == ASSUME ListsToExpiration PROVE Spec => []NoGaps
<1>1. Init => NoGaps
  BY DEF Init, EmptyRows, NoGaps
<1>2. IInv /\ NoGaps /\ [Next]_vars => NoGaps'
  <2> SUFFICES ASSUME IInv, NoGaps, [Next]_vars, NEW o \in Offers,
                      NEW e \in store'[o].timeline, e.end > clock',
                      NEW t \in Time, clock' <= t, t < Expiration[o][e.version]
               PROVE  \E d \in store'[o].timeline : d.version = e.version /\ Covers(d, t)
    BY DEF NoGaps
  <2>1. e.end > clock /\ ~ (e.end <= clock)
    BY LiveTypes
  <2>2. clock <= t /\ t \in Int /\ clock \in Int
    BY LiveTypes, ConstantsAssumption DEF Time
  <2>3. CASE store'[o].timeline = store[o].timeline
    BY <2>1, <2>2, <2>3 DEF NoGaps
  <2>4. CASE ListedNow(o, store'[o], clock)
    <3>1. PICK ts \in 0 .. Horizon, v \in Versions, rows \in OfferRows,
               new \in SUBSET Entry :
            ListedBy(o, store'[o], clock, ts, v, rows, new)
      BY <2>4 DEF ListedNow
    <3>2. e \in new /\ e.version = v
      BY <2>1, <3>1 DEF ListedBy, OnMarket
    <3>3. ts <= t
      BY <2>2, <3>1 DEF ListedBy
    <3>4. PICK d \in new : Covers(d, t)
      BY <3>1, <3>2, <3>3 DEF ListedBy, OnMarket, Gapless
    <3>5. d.version = e.version /\ d \in store'[o].timeline
      BY <3>1, <3>2 DEF ListedBy, OnMarket
    <3> QED BY <3>4, <3>5
  <2> QED BY <2>1, <2>3, <2>4, LiveStep
<1> QED BY <1>1, <1>2, InductiveInvariant, PTL DEF Spec

MarketInv == IInv /\ InThisInstant /\ WithdrawnUnlisted

LEMMA MarketInit == Init => MarketInv /\ ListingNotStale
<1>1. Init => InThisInstant /\ WithdrawnUnlisted /\ ListingNotStale
  BY DEF Init, EmptyRows, InThisInstant, WithdrawnUnlisted, ListingNotStale
<1> QED BY <1>1, InitIInv DEF MarketInv

LEMMA MarketNext ==
  NoLag /\ MarketInv /\ [Next]_vars
    => MarketInv' /\ (MaxChain = 0 /\ ListingNotStale => ListingNotStale')
<1> SUFFICES ASSUME NoLag, MarketInv, [Next]_vars
             PROVE  MarketInv' /\ (MaxChain = 0 /\ ListingNotStale => ListingNotStale')
  OBVIOUS
<1>1. IInv' /\ InThisInstant' /\ clock \in Int /\ clock' \in Int /\ clock <= clock'
  BY StepIInv, InstantNext, ClockAdvances DEF MarketInv
<1>2. ASSUME NEW o \in Offers
      PROVE  /\ Withdrawn(store'[o], clock')
             /\ MaxChain = 0 /\ Fresh(store[o], clock) => Fresh(store'[o], clock')
  <2>1. Withdrawn(store[o], clock)
    BY DEF MarketInv, WithdrawnUnlisted, Withdrawn
  <2>2. /\ Withdrawn(store'[o], clock)
        /\ MaxChain = 0 /\ Fresh(store[o], clock) => Fresh(store'[o], clock)
    BY <2>1, MarketStep DEF MarketInv
  <2>3. store'[o] \in OfferRows
    BY <1>1 DEF IInv, TypeOK
  <2> QED BY <1>1, <2>2, <2>3, MarketLater
<1>3. WithdrawnUnlisted'
  BY <1>2 DEF WithdrawnUnlisted, Withdrawn
<1>4. MaxChain = 0 /\ ListingNotStale => ListingNotStale'
  BY <1>2 DEF ListingNotStale, Fresh
<1> QED BY <1>1, <1>3, <1>4 DEF MarketInv

(* When calls and updates commit in the instant they began, an offer that  *)
(* no corpus publishes any more is listed to nobody, whichever of several  *)
(* feeds delete it in whichever order and whatever is called meanwhile     *)
(* (deleteOfferInCorpus, updateListings).                                  *)
THEOREM NothingWithdrawnListed == ASSUME NoLag PROVE Spec => []WithdrawnUnlisted
<1>1. Init => MarketInv
  BY MarketInit
<1>2. MarketInv /\ [Next]_vars => MarketInv'
  BY MarketNext
<1>3. MarketInv => WithdrawnUnlisted
  BY DEF MarketInv
<1> QED BY <1>1, <1>2, <1>3, PTL DEF Spec

(* And, if offers come without reshare chains, nobody is shown a version   *)
(* older than one that some corpus publishes, in whichever order versions  *)
(* arrive (insertOrUpdateOfferInCorpus).                                   *)
THEOREM NothingStaleListed ==
  ASSUME NoLag, MaxChain = 0 PROVE Spec => []ListingNotStale
<1>1. Init => MarketInv /\ ListingNotStale
  BY MarketInit
<1>2. MarketInv /\ ListingNotStale /\ [Next]_vars => (MarketInv /\ ListingNotStale)'
  BY MarketNext
<1> QED BY <1>1, <1>2, PTL DEF Spec
-----------------------------------------------------------------------------
(* Reservations and acceptances                                            *)

LEMMA InThisInstantHolds == ASSUME NoLag PROVE Spec => []InThisInstant
<1>1. Init => InThisInstant
  BY DEF Init, InThisInstant
<1> QED BY <1>1, InstantNext, InductiveInvariant, PTL DEF Spec

(* What a caller sees comes from an entry for the caller or for everyone.  *)
LEMMA SeenEntry ==
  ASSUME NEW c, NEW v \in SeenBy(c)
  PROVE  \E e \in store[c.offer].timeline :
           e.version = v /\ e.target \in {c.org, Wildcard} /\ Covers(e, c.now)
BY DEF SeenBy, OfferAtTime, VersionsSeen

(* An entry that alone covers an instant is the first one there.           *)
LEMMA OnlyFirst ==
  ASSUME NEW timeline \in SUBSET Entry, NEW ts \in Int, NEW e \in timeline,
         Covers(e, ts), \A d \in timeline : Covers(d, ts) => d = e
  PROVE  FirstEntries(timeline, ts) = {{e}}
<1> DEFINE here == { d \in timeline : d.start < ts + 1 /\ d.end > ts }
<1>1. \A d \in timeline : d.start \in Int /\ d.end \in Int
  BY ConstantsAssumption DEF Entry, Time
<1>2. \A d \in timeline : (d.start < ts + 1 /\ d.end > ts) <=> Covers(d, ts)
  BY <1>1 DEF Covers
<1>3. here = {e}
  BY <1>2
<1>4. FirstEntries(timeline, ts) = EarliestOf(here)
  BY DEF FirstEntries
<1> HIDE DEF here
<1>5. { d \in {e} : \A x \in {e} : d.start <= x.start } = {e}
  BY <1>1
<1>6. EarliestOf({e}) = {{e}}
  BY <1>5 DEF EarliestOf
<1> QED BY <1>3, <1>4, <1>6

(* A caller who sees an offer now sees one of the host's, by name, and has *)
(* not rejected it.                                                        *)
LEMMA CallerIsListed ==
  ASSUME TypeOK, NamedOnly, RejectedUnlisted, InThisInstant,
         NEW c \in calls, NEW v \in SeenBy(c)
  PROVE  c.offer \in OwnOffers /\ c.org \in Orgs \ store[c.offer].rejected
<1>1. /\ c.offer \in Offers /\ c.org \in Orgs /\ store[c.offer] \in OfferRows
      /\ c.now = clock
  BY CallTypes DEF InThisInstant
<1>2. PICK e \in store[c.offer].timeline :
        e.target \in {c.org, Wildcard} /\ Covers(e, c.now)
  BY SeenEntry
<1>3. e.end \in Int /\ clock \in Int
  BY <1>1, ConstantsAssumption DEF OfferRows, Entry, Time, TypeOK
<1>4. e.end > clock /\ ~ (e.end <= clock)
  BY <1>1, <1>2, <1>3 DEF Covers
<1>5. NamedEntry(c.offer, e) /\ e.target \notin store[c.offer].rejected
  BY <1>1, <1>4 DEF NamedOnly, RejectedUnlisted
<1> QED BY <1>1, <1>2, <1>5, ConstantsAssumption DEF NamedEntry

(* A reservation that is relisted at ts stays until it ends or the offer   *)
(* expires.                                                                *)
Stays(o, r, next, now) ==
  \A t \in Time : t >= now /\ Covers(r, t) /\ Live(o, t) => HeldAt(next.timeline, r.target, t)

LEMMA RelistStays ==
  ASSUME ListsToExpiration, ListsEveryone, ListsByName,
         NEW o \in OwnOffers, NEW v \in Versions, NEW rows \in OfferRows,
         NEW ts \in 0 .. Horizon, NEW next \in Relist(o, v, rows, ts),
         NEW r \in Entry, r.reserved, Covers(r, ts), r.target \in Orgs \ rows.rejected,
         FirstEntries(rows.timeline, ts) = {{r}}
  PROVE  Stays(o, r, next, ts)
<1>0. o \in Offers
  BY ConstantsAssumption
<1>1. PICK new \in SUBSET Entry :
        /\ next = [rows EXCEPT !.timeline = Truncate(rows.timeline, ts) \cup new]
        /\ OnMarket(o, v, rows, ts, new)
  BY <1>0, RelistNew
<1>2. new \subseteq next.timeline
  BY <1>1 DEF OfferRows
<1>3. Continues(o, v, ts, rows, new)
  BY <1>1 DEF OnMarket
<1> SUFFICES ASSUME NEW t \in Time, t >= ts, Covers(r, t), Live(o, t)
             PROVE  HeldAt(next.timeline, r.target, t)
  BY DEF Stays
<1>4. ts <= t /\ t < Expiration[o][v]
  BY ConstantsAssumption DEF Live, Time
<1>5. HeldAt(new, r.target, t)
  BY <1>3, <1>4 DEF Continues
<1> QED BY <1>2, <1>5 DEF HeldAt

LEMMA ReserveGives ==
  ASSUME ListsToExpiration, ListsEveryone, ListsByName,
         TypeOK, NamedOnly, RejectedUnlisted, InThisInstant,
         NEW c \in calls, NEW next, ReservedBy(c, next),
         NEW t \in Time, c.now <= t, t < ReservationEnd(c.offer, c.arg, c.now),
         Live(c.offer, t)
  PROVE  HeldAt(next.timeline, c.org, t)
<1>1. PICK v \in SeenBy(c) : next \in Relist(c.offer, v, Holding(c, v), c.now)
  BY DEF ReservedBy
<1> DEFINE slot == MakeEntry(c.org, v, Slot(c), TRUE)
           rows == Holding(c, v)
           old == Truncate(store[c.offer].timeline, c.now)
<1>2. /\ c.now \in 0 .. Horizon /\ c.now \in Time /\ c.now \in Int /\ t \in Int
      /\ v \in Versions /\ store[c.offer].timeline \in SUBSET Entry
  BY CallTypes, ConstantsAssumption DEF Time, OfferRows
<1>3. /\ rows \in OfferRows /\ slot \in Entry
      /\ rows.rejected = store[c.offer].rejected
      /\ rows.timeline = old \cup {slot}
  BY <1>2, HoldingRows DEF ReservedBy
<1>4. /\ slot.target = c.org /\ slot.reserved /\ slot.start = c.now
      /\ slot.end = ReservationEnd(c.offer, c.arg, c.now)
  BY DEF MakeEntry, Slot
<1> HIDE DEF slot, rows
<1>5. slot.end \in Int
  BY <1>3, ConstantsAssumption DEF Entry, Time
<1>6. Covers(slot, c.now) /\ Covers(slot, t)
  BY <1>2, <1>4, <1>5 DEF Covers
<1>7. \A d \in old : ~ Covers(d, c.now)
  <2>1. ASSUME NEW d \in old, Covers(d, c.now)
        PROVE  FALSE
    <3>1. c.now < c.now
      BY <1>2, <2>1, TruncateCovers
    <3> QED BY <1>2, <3>1
  <2> QED BY <2>1
<1> HIDE DEF old
<1>8. FirstEntries(rows.timeline, c.now) = {{slot}}
  <2>1. \A d \in rows.timeline : Covers(d, c.now) => d = slot
    BY <1>3, <1>7
  <2>2. rows.timeline \in SUBSET Entry /\ slot \in rows.timeline
    BY <1>3 DEF OfferRows
  <2> QED BY <1>2, <1>6, <2>1, <2>2, OnlyFirst
<1>9. c.offer \in OwnOffers /\ c.org \in Orgs \ rows.rejected
  BY <1>3, CallerIsListed
<1>10. Stays(c.offer, slot, next, c.now)
  <2>1. next \in Relist(c.offer, v, rows, c.now)
    BY <1>1 DEF rows
  <2> QED BY <1>2, <1>3, <1>4, <1>6, <1>8, <1>9, <2>1, RelistStays
<1> QED BY <1>2, <1>4, <1>6, <1>10 DEF Stays

(* A call leaves the rows of its offer as they are, or succeeds.           *)
LEMMA StepCall ==
  ASSUME IInv, [Next]_vars, NEW c \in calls \ calls'
  PROVE  \/ store' = store
         \/ /\ Accept(c) \/ Reject(c) \/ Reserve(c)
            /\ \A o \in Offers : o # c.offer => store'[o] = store[o]
<1>1. SUFFICES ASSUME store' # store
               PROVE  /\ Accept(c) \/ Reject(c) \/ Reserve(c)
                      /\ \A o \in Offers : o # c.offer => store'[o] = store[o]
  OBVIOUS
<1>2. \E d \in calls : Accept(d) \/ Reject(d) \/ Reserve(d)
  BY <1>1 DEF Next, vars, Tick, BeginUpdate, ProcessUpdate, AbandonUpdate, BeginCall,
              AbandonCall, Refuse
<1>3. PICK d \in calls : Accept(d) \/ Reject(d) \/ Reserve(d)
  BY <1>2
<1>4. calls' = calls \ {d}
  BY <1>3 DEF Accept, Reject, Reserve, Refuse, Commit
<1>5. d = c
  BY <1>4
<1>6. \A o \in Offers : o # c.offer => store'[o] = store[o]
  BY <1>3, <1>5, CallOutcomes DEF IInv
<1> QED BY <1>3, <1>5, <1>6

(* Without lag, and under a policy that lists everyone who did not reject  *)
(* the offer by name and until it expires, a reserve that succeeds gives   *)
(* the caller what it answers: the offer is the caller's until the         *)
(* reservation or the offer ends (persistentoffermodel.ts, reserve).       *)
THEOREM ReserveGivesWhatItAnswers ==
  ASSUME NoLag, ListsToExpiration, ListsEveryone, ListsByName
  PROVE  Spec => ReserveHolds
<1> DEFINE Inv == IInv /\ InThisInstant /\ NamedOnly /\ RejectedUnlisted
<1>1. ASSUME Inv, [Next]_vars, NEW c \in calls \ calls', c.op = "reserve",
             store' # store, NEW t \in Time, c.now <= t,
             t < ReservationEnd(c.offer, c.arg, c.now), Live(c.offer, t)
      PROVE  \E e \in store'[c.offer].timeline :
               e.reserved /\ e.target = c.org /\ Covers(e, t)
  <2>1. /\ Accept(c) \/ Reject(c) \/ Reserve(c)
        /\ \A o \in Offers : o # c.offer => store'[o] = store[o]
    BY <1>1, StepCall
  <2>2. store'[c.offer] # store[c.offer]
    <3>1. store \in [Offers -> OfferRows] /\ store' \in [Offers -> OfferRows]
      BY <1>1, StepShape DEF IInv, TypeOK
    <3> QED BY <1>1, <2>1, <3>1
  <2>3. ReservedBy(c, store'[c.offer])
    BY <1>1, <2>1, <2>2, CallOutcomes, CallTypes DEF IInv, TakenBy, RejectedBy
  <2> DEFINE next == store'[c.offer]
  <2>4. ReservedBy(c, next)
    BY <2>3
  <2> HIDE DEF next
  <2>5. HeldAt(next.timeline, c.org, t)
    BY <1>1, <2>4, ReserveGives DEF IInv
  <2> QED BY <2>5 DEF HeldAt, next
<1>2. Inv /\ [Next]_vars =>
        [\A c \in calls \ calls' : c.op = "reserve" /\ store' # store =>
           \A t \in Time :
             /\ c.now <= t /\ t < ReservationEnd(c.offer, c.arg, c.now)
             /\ Live(c.offer, t)
             => \E e \in store'[c.offer].timeline :
                  e.reserved /\ e.target = c.org /\ Covers(e, t)]_vars
  BY <1>1
<1> QED BY <1>2, InductiveInvariant, InThisInstantHolds, NamedOnlyHolds,
           RejectedStayUnlisted, PTL DEF Spec, ReserveHolds
(* A running reservation is alone, by name, and of one of the host's       *)
(* offers.                                                                 *)
LEMMA RunningReservation ==
  ASSUME TypeOK, NamedOnly, RejectedUnlisted, ReservationAlone,
         NEW o \in Offers, NEW r \in store[o].timeline, r.reserved, Covers(r, clock)
  PROVE  /\ o \in OwnOffers /\ r \in Entry /\ r.target \in Orgs \ store[o].rejected
         /\ \A d \in store[o].timeline : Covers(d, clock) => d = r
         /\ FirstEntries(store[o].timeline, clock) = {{r}}
<1>1. /\ store[o].timeline \in SUBSET Entry /\ clock \in Time /\ clock \in Int
  BY ConstantsAssumption DEF TypeOK, OfferRows, Time
<1>2. r \in Entry
  BY <1>1
<1>3. r.end > clock /\ ~ (r.end <= clock)
  BY <1>1, <1>2, ConstantsAssumption DEF Covers, Entry, Time
<1>4. NamedEntry(o, r) /\ r.target \notin store[o].rejected
  BY <1>3 DEF NamedOnly, RejectedUnlisted
<1>5. o \in OwnOffers /\ r.target \in Orgs
  BY <1>4 DEF NamedEntry
<1>6. \A d \in store[o].timeline : Covers(d, clock) => d = r
  BY <1>1 DEF ReservationAlone
<1>7. FirstEntries(store[o].timeline, clock) = {{r}}
  BY <1>1, <1>6, OnlyFirst
<1> QED BY <1>2, <1>4, <1>5, <1>6, <1>7

LEMMA OutcomesStay ==
  ASSUME ListsToExpiration, ListsEveryone, ListsByName, TypeOK,
         NEW o \in OwnOffers, NEW u \in updates, NEW next \in Outcomes(o, u),
         NEW r \in store[o].timeline, r.reserved, Covers(r, u.now),
         r.target \in Orgs \ store[o].rejected,
         FirstEntries(store[o].timeline, u.now) = {{r}}
  PROVE  Stays(o, r, next, u.now) \/ Dropped(u, o)
<1> DEFINE op == u.batch.op[o]
           rows == IF u.batch.clear THEN DeleteFrom(u.feed, store[o], u.now)
                   ELSE store[o]
           dropped == [store[o].corpus EXCEPT ![u.feed] = NoVersion]
<1>1. /\ store[o] \in OfferRows /\ u.feed \in Feeds /\ u.now \in 0 .. Horizon
      /\ op \in Put \cup {Keep, Remove} /\ r \in Entry /\ o \in Offers
  BY ConstantsAssumption DEF TypeOK, Update, Batch, OfferRows
<1>2. SUFFICES ASSUME ~ Dropped(u, o) PROVE Stays(o, r, next, u.now)
  OBVIOUS
<1>3. u.batch.clear \/ op.kind = "remove" => Published(dropped) # {}
  BY <1>2 DEF Dropped
<1>4. ASSUME NEW before \in OfferRows, Published(before.corpus) # {},
             before.corpus[u.feed] = NoVersion
      PROVE  DeleteFrom(u.feed, before, u.now) = before
  BY <1>4 DEF DeleteFrom
<1>5. Published(dropped) # {} =>
        /\ DeleteFrom(u.feed, store[o], u.now).timeline = store[o].timeline
        /\ DeleteFrom(u.feed, store[o], u.now).rejected = store[o].rejected
        /\ DeleteFrom(u.feed, store[o], u.now).corpus = dropped
  <2>1. CASE store[o].corpus[u.feed] = NoVersion
    <3>1. DeleteFrom(u.feed, store[o], u.now) = store[o]
      BY <2>1 DEF DeleteFrom
    <3>2. dropped = store[o].corpus
      BY <1>1, <2>1 DEF OfferRows
    <3> QED BY <3>1, <3>2
  <2>2. CASE store[o].corpus[u.feed] # NoVersion
    <3>1. Published(dropped) # {} =>
            DeleteFrom(u.feed, store[o], u.now)
              = [store[o] EXCEPT !.corpus = dropped, !.timeline = store[o].timeline]
      BY <2>2 DEF DeleteFrom
    <3> HIDE DEF dropped
    <3> QED BY <1>1, <3>1 DEF OfferRows
  <2> QED BY <2>1, <2>2
<1>6. /\ rows \in OfferRows
      /\ rows.timeline = store[o].timeline /\ rows.rejected = store[o].rejected
  BY <1>1, <1>3, <1>5, DeleteFromShape
<1>7. next \in ApplyOp(o, u.feed, rows, op, u.now)
  BY DEF Outcomes
<1>8. ASSUME NEW after, after.timeline = store[o].timeline
      PROVE  Stays(o, r, after, u.now)
  BY <1>8 DEF Stays, HeldAt
<1>9. op = Remove => DeleteFrom(u.feed, rows, u.now).timeline = store[o].timeline
  <2>1. SUFFICES ASSUME op = Remove
                 PROVE  DeleteFrom(u.feed, rows, u.now).timeline = store[o].timeline
    OBVIOUS
  <2>2. Published(dropped) # {}
    BY <1>3, <2>1 DEF Remove
  <2>3. CASE u.batch.clear
    <3>1. rows.corpus = dropped /\ dropped[u.feed] = NoVersion
      BY <1>1, <1>5, <2>2, <2>3 DEF OfferRows
    <3> HIDE DEF rows, dropped
    <3>2. DeleteFrom(u.feed, rows, u.now) = rows
      BY <1>4, <1>6, <2>2, <3>1
    <3> QED BY <1>6, <3>2
  <2>4. CASE ~ u.batch.clear
    BY <1>5, <2>2, <2>4
  <2> QED BY <2>3, <2>4
<1> HIDE DEF rows, op, dropped
<1>10. CASE op = Keep
  <2>1. next = rows
    BY <1>7, <1>10 DEF ApplyOp, Keep
  <2> QED BY <2>1, <1>6, <1>8
<1>11. CASE op = Remove
  <2>1. next = DeleteFrom(u.feed, rows, u.now)
    BY <1>7, <1>11 DEF ApplyOp, Remove
  <2> QED BY <2>1, <1>8, <1>9, <1>11
<1>12. CASE op \in Put
  <2> DEFINE in == InsertInto(u.feed, rows, op)
  <2>1. op.kind = "put" /\ op.version \in Versions
    BY <1>12 DEF Put
  <2>2. next \in IF UpdateType(rows, op) = "NONE" THEN {in}
                 ELSE Relist(o, op.version, in, u.now)
    BY <1>7, <2>1 DEF ApplyOp
  <2>3. /\ in \in OfferRows /\ in.timeline = store[o].timeline
        /\ in.rejected = store[o].rejected
    BY <1>1, <1>6, <1>12, InsertIntoShape
  <2> HIDE DEF in
  <2>4. CASE next = in
    BY <1>8, <2>3, <2>4
  <2>5. CASE next \in Relist(o, op.version, in, u.now)
    BY <1>1, <2>1, <2>3, <2>5, RelistStays
  <2> QED BY <2>2, <2>4, <2>5
<1> QED BY <1>1, <1>10, <1>11, <1>12

(* Without lag, and under a policy that lists everyone who did not reject  *)
(* the offer by name, once and until it expires, a running reservation is  *)
(* cut short by nobody but its holder, the last corpus to drop the offer,  *)
(* or the expiration (persistentoffermodel.ts:583-585).                    *)
THEOREM ReservationsStand ==
  ASSUME NoLag, OneListingPerOrg, ListsToExpiration, ListsEveryone, ListsByName
  PROVE  Spec => ReservationKept
<1> DEFINE Inv == /\ IInv /\ InThisInstant /\ NamedOnly
                  /\ RejectedUnlisted /\ ReservationAlone
           Goal(o, e) ==
             \/ \A t \in Time : t >= clock /\ Covers(e, t) /\ Live(o, t) =>
                  \E d \in store'[o].timeline :
                    d.reserved /\ d.target = e.target /\ Covers(d, t)
             \/ \E c \in calls \ calls' : c.org = e.target /\ c.offer = o
             \/ \E u \in updates \ updates' : Dropped(u, o)
<1>1. ASSUME Inv, [Next]_vars, NEW o \in Offers, NEW e \in store[o].timeline,
             e.reserved, Covers(e, clock)
      PROVE  Goal(o, e)
  <2>1. /\ o \in OwnOffers /\ e \in Entry /\ e.target \in Orgs \ store[o].rejected
        /\ \A d \in store[o].timeline : Covers(d, clock) => d = e
        /\ FirstEntries(store[o].timeline, clock) = {{e}}
    BY <1>1, RunningReservation DEF IInv
  <2>2. CASE store'[o] = store[o]
    BY <1>1, <2>2
  <2>3. CASE \E u \in updates : ProcessUpdate(u)
    <3>1. PICK u \in updates : ProcessUpdate(u)
      BY <2>3
    <3> DEFINE next == store'[o]
    <3>2. next \in Outcomes(o, u) /\ u.now = clock /\ u \in updates \ updates'
      BY <1>1, <3>1 DEF ProcessUpdate, InThisInstant
    <3> HIDE DEF next
    <3>3. Stays(o, e, next, clock) \/ Dropped(u, o)
      BY <1>1, <2>1, <3>2, OutcomesStay DEF IInv
    <3>4. Stays(o, e, next, clock) =>
            \A t \in Time : t >= clock /\ Covers(e, t) /\ Live(o, t) =>
              \E d \in next.timeline : d.reserved /\ d.target = e.target /\ Covers(d, t)
      BY DEF Stays, HeldAt
    <3> QED BY <3>2, <3>3, <3>4 DEF next
  <2>4. ASSUME NEW c \in calls, Accept(c) \/ Reject(c) \/ Reserve(c), store'[o] # store[o]
        PROVE  Goal(o, e)
    <3>1. /\ o = c.offer
          /\ TakenBy(c, store'[o]) \/ RejectedBy(c, store'[o]) \/ ReservedBy(c, store'[o])
      BY <1>1, <2>4, CallOutcomes DEF IInv
    <3>2. PICK v \in SeenBy(c) : TRUE
      BY <3>1 DEF TakenBy, RejectedBy, ReservedBy
    <3>3. PICK d \in store[o].timeline : d.target \in {c.org, Wildcard} /\ Covers(d, c.now)
      BY <3>1, <3>2, SeenEntry
    <3>4. c.now = clock
      BY <1>1 DEF InThisInstant
    <3>5. d = e
      BY <2>1, <3>3, <3>4
    <3>6. e.target = c.org
      BY <2>1, <3>3, <3>5, ConstantsAssumption
    <3>7. c \in calls \ calls'
      BY <2>4 DEF Accept, Reject, Reserve, Refuse, Commit
    <3> QED BY <3>1, <3>6, <3>7
  <2> HIDE DEF Goal
  <2> QED BY <1>1, <2>2, <2>3, <2>4
    DEF Next, vars, Tick, BeginUpdate, AbandonUpdate, BeginCall, AbandonCall, Refuse
<1>2. Inv /\ [Next]_vars =>
        [\A o \in Offers : \A e \in store[o].timeline :
           e.reserved /\ Covers(e, clock) => Goal(o, e)]_vars
  BY <1>1
<1> QED BY <1>2, InductiveInvariant, InThisInstantHolds, NamedOnlyHolds,
           RejectedStayUnlisted, ReservationsExclusive, PTL DEF Spec, ReservationKept

(* Without lag, and under a policy whose listings last until the version   *)
(* expires, an accepted version that is off the market is put back by a    *)
(* feed only (standards/transfer_api.md:575).                              *)
THEOREM AcceptedIsTakenOff ==
  ASSUME NoLag, ListsToExpiration PROVE Spec => AcceptedStaysOff
<1> DEFINE Inv == IInv /\ InThisInstant /\ NoGaps
           Shown(rows, a, t) ==
             \E e \in rows.timeline : e.version = a.version /\ Covers(e, t)
<1>1. ASSUME Inv, [Next]_vars, updates' = updates, NEW o \in Offers,
             NEW a \in store'[o].accepted, NEW t \in Time, t >= clock,
             Shown(store'[o], a, t)
      PROVE  a \in store[o].accepted /\ Shown(store[o], a, t)
  <2>1. CASE store'[o] = store[o]
    BY <1>1, <2>1
  <2>2. ~ \E u \in updates : ProcessUpdate(u)
    BY <1>1 DEF ProcessUpdate
  <2>3. ASSUME NEW c \in calls, Accept(c) \/ Reject(c) \/ Reserve(c), store'[o] # store[o]
        PROVE  a \in store[o].accepted /\ Shown(store[o], a, t)
    <3> DEFINE next == store'[o]
               rows == store[o]
    <3> HIDE DEF next
    <3>1. /\ o = c.offer
          /\ TakenBy(c, next) \/ RejectedBy(c, next) \/ ReservedBy(c, next)
      BY <1>1, <2>3, CallOutcomes DEF IInv, next
    <3>2. c.now = clock /\ clock \in Int /\ t \in Int
      BY <1>1, ConstantsAssumption DEF InThisInstant, IInv, TypeOK, Time
    <3>3. /\ c.now \in 0 .. Horizon /\ c.now \in Time /\ rows \in OfferRows
          /\ SeenBy(c) \subseteq Versions /\ rows.timeline \in SUBSET Entry
      BY <1>1, <3>1, CallTypes DEF IInv, OfferRows
    <3>4. PICK e \in next.timeline : e.version = a.version /\ Covers(e, t)
      BY <1>1 DEF next
    <3>5. ~ (t < c.now)
      BY <1>1, <3>2
    <3>6. ASSUME TakenBy(c, next) PROVE FALSE
      <4>1. next.timeline = Truncate(rows.timeline, c.now)
        BY <3>1, <3>3, <3>6 DEF TakenBy, OfferRows
      <4> QED BY <3>3, <3>4, <3>5, <4>1, TruncateCovers
    <3>7. ASSUME NEW v \in SeenBy(c), NEW before \in OfferRows,
                 before.accepted = rows.accepted,
                 next \in Relist(c.offer, v, before, c.now)
          PROVE  a \in rows.accepted /\ Shown(rows, a, t)
      <4>1. PICK new \in SUBSET Entry :
              /\ next = [before EXCEPT !.timeline = Truncate(before.timeline, c.now) \cup new]
              /\ OnMarket(o, v, before, c.now, new)
        BY <3>1, <3>3, <3>7, RelistNew
      <4>2. /\ next.timeline = Truncate(before.timeline, c.now) \cup new
            /\ next.accepted = rows.accepted
        BY <3>7, <4>1 DEF OfferRows
      <4>3. e \in new
        <5>1. before.timeline \in SUBSET Entry
          BY DEF OfferRows
        <5> QED BY <3>3, <3>4, <3>5, <4>2, <5>1, TruncateCovers
      <4>4. e.version = v /\ t < Expiration[o][v]
        BY <3>4, <4>1, <4>3 DEF OnMarket, Afresh
      <4>5. PICK d \in rows.timeline : d.version = v /\ Covers(d, clock)
        BY <3>1, <3>2, SeenEntry
      <4>6. d.end > clock
        BY <3>2, <3>3, <4>5, ConstantsAssumption DEF Covers, Entry, Time
      <4>7. \E x \in rows.timeline : x.version = v /\ Covers(x, t)
        BY <1>1, <3>2, <4>4, <4>5, <4>6 DEF NoGaps
      <4>8. a \in rows.accepted
        BY <4>2 DEF next
      <4> QED BY <3>4, <4>4, <4>7, <4>8
    <3>8. CASE RejectedBy(c, next)
      <4>1. Rejecting(c) \in OfferRows /\ Rejecting(c).accepted = rows.accepted
        BY <1>1, <3>1, RejectingRows DEF IInv
      <4> QED BY <3>7, <3>8, <4>1 DEF RejectedBy
    <3>9. CASE ReservedBy(c, next)
      <4>1. PICK v \in SeenBy(c) : next \in Relist(c.offer, v, Holding(c, v), c.now)
        BY <3>9 DEF ReservedBy
      <4>2. Holding(c, v) \in OfferRows /\ Holding(c, v).accepted = rows.accepted
        BY <1>1, <3>1, <3>3, <3>9, HoldingRows DEF IInv, ReservedBy
      <4> QED BY <3>7, <4>1, <4>2
    <3> QED BY <3>1, <3>6, <3>8, <3>9
  <2> HIDE DEF Shown
  <2> QED BY <1>1, <2>1, <2>2, <2>3
    DEF Next, vars, Tick, BeginUpdate, AbandonUpdate, BeginCall, AbandonCall, Refuse
<1>2. Inv /\ [Next]_vars =>
        [updates' = updates =>
           \A o \in Offers : \A a \in store'[o].accepted : \A t \in Time :
             /\ t >= clock
             /\ \E e \in store'[o].timeline : e.version = a.version /\ Covers(e, t)
             => /\ a \in store[o].accepted
                /\ \E e \in store[o].timeline : e.version = a.version /\ Covers(e, t)]_vars
  BY <1>1
<1> QED BY <1>2, InductiveInvariant, InThisInstantHolds, NoGapsHold, PTL
           DEF Spec, AcceptedStaysOff
=============================================================================
