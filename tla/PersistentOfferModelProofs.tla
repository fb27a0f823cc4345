--------------------- MODULE PersistentOfferModelProofs ---------------------
(***************************************************************************)
(* Theorems about PersistentOfferModel, for every value of its constants.  *)
(***************************************************************************)
EXTENDS PersistentOfferModel, TLAPS, WellFoundedInduction

-----------------------------------------------------------------------------
(* Facts about the operators                                               *)

(* A set of natural numbers that is not empty has a least member.          *)
LEMMA MinExists ==
  ASSUME NEW S \in SUBSET Nat, S # {}
  PROVE  \E m \in S : \A x \in S : m <= x
<1>1. IsWellFoundedOn(OpToRel(<, Nat), Nat)
  BY NatLessThanWellFounded
<1>2. \E m \in S : \A y \in S : ~(<<y, m>> \in OpToRel(<, Nat))
  BY <1>1, WFMin
<1>3. PICK m \in S : \A y \in S : ~(<<y, m>> \in OpToRel(<, Nat))
  BY <1>2
<1>4. \A y \in S : ~(y < m)
  BY <1>3 DEF OpToRel
<1> QED BY <1>4

(* The first listing time of entries that start before ts, or at ts, is    *)
(* not after ts.                                                           *)
LEMMA FirstListingTimeBound ==
  ASSUME NEW timeline \in SUBSET Entry, NEW ts \in Nat,
         \A e \in timeline : e.start <= ts
  PROVE  FirstListingTime(timeline, ts) \in 0 .. ts
<1>1. CASE timeline = {}
  BY <1>1 DEF FirstListingTime
<1>2. CASE timeline # {}
  <2> DEFINE starts == { e.start : e \in timeline }
  <2>1. starts \in SUBSET Nat /\ starts # {}
    BY <1>2, ConstantsAssumption DEF Entry, Time
  <2>2. \E m \in starts : \A x \in starts : m <= x
    BY <2>1, MinExists
  <2>3. \E s \in starts : \A e \in timeline : s <= e.start
    BY <2>2
  <2>4. FirstListingTime(timeline, ts) \in starts
    BY <2>3, <1>2 DEF FirstListingTime
  <2> QED BY <2>1, <2>4
<1> QED BY <1>1, <1>2

(* The interval functions stay within the instants they are given.         *)
Span == [start : Time, end : Time]

LEMMA BetweenType ==
  ASSUME NEW s \in Time, NEW e \in Time
  PROVE  Between(s, e) \subseteq Span
BY DEF Between, Span

LEMMA SubtractType ==
  ASSUME NEW basis \in Span, NEW others,
         \A other \in others : other.start \in Time /\ other.end \in Time
  PROVE  Subtract(basis, others) \subseteq Span
<1>1. ASSUME NEW x \in Time, NEW y \in Time
      PROVE  Lesser(x, y) \in Time /\ Greater(x, y) \in Time
  BY DEF Lesser, Greater
<1>2. ASSUME NEW other \in others
      PROVE  /\ Between(Lesser(basis.start, other.start),
                        Lesser(basis.end, other.start)) \subseteq Span
             /\ Between(Greater(basis.start, other.end),
                        Greater(basis.end, other.end)) \subseteq Span
  <2>1. /\ basis.start \in Time /\ basis.end \in Time
        /\ other.start \in Time /\ other.end \in Time
    BY DEF Span
  <2> QED BY <2>1, <1>1, BetweenType
<1>3. [start |-> basis.start, end |-> basis.end] \in Span
  BY DEF Span
<1> QED BY <1>2, <1>3 DEF Subtract

(* What subtracting one interval leaves lies before it or after it.        *)
LEMMA SubtractLeavesOutside ==
  ASSUME NEW basis \in Span, NEW other,
         other.start \in Time, other.end \in Time,
         NEW i \in Subtract(basis, {other})
  PROVE  i.end <= other.start \/ other.end <= i.start
<1>1. /\ basis.start \in Int /\ basis.end \in Int
      /\ other.start \in Int /\ other.end \in Int
  BY ConstantsAssumption DEF Span, Time
<1>2. \/ i \in Between(Lesser(basis.start, other.start),
                       Lesser(basis.end, other.start))
      \/ i \in Between(Greater(basis.start, other.end),
                       Greater(basis.end, other.end))
  BY DEF Subtract
<1> QED BY <1>1, <1>2 DEF Between, Lesser, Greater

LEMMA PulledType ==
  ASSUME NEW listing \in Listing, NEW ts \in Time
  PROVE  Pulled(listing, ts) \in Span
BY DEF Pulled, Listing, Span

(* What continues a reservation is part of the reservation and of the      *)
(* listing, and starts now.                                                *)
LEMMA ContinuedType ==
  ASSUME NEW listing \in Listing, NEW ts \in Time, NEW reservation \in SUBSET Entry
  PROVE  /\ Continued(listing, reservation, ts) \subseteq Span
         /\ \A i \in Continued(listing, reservation, ts) : i.start = ts
<1>1. ASSUME NEW r \in reservation
      PROVE  Intersect(r, Pulled(listing, ts)) \subseteq Span
  <2>1. /\ Pulled(listing, ts).start \in Time /\ Pulled(listing, ts).end \in Time
        /\ r.start \in Time /\ r.end \in Time
    BY PulledType DEF Span, Entry
  <2>2. /\ Greater(r.start, Pulled(listing, ts).start) \in Time
        /\ Lesser(r.end, Pulled(listing, ts).end) \in Time
    BY <2>1 DEF Greater, Lesser
  <2> QED BY <2>2, BetweenType DEF Intersect
<1> QED BY <1>1 DEF Continued

(* The entries made of a policy's listings are entries of the timeline,    *)
(* and none of them is for an organization that rejected the offer.        *)
LEMMA ListedEntriesType ==
  ASSUME NEW v \in Versions, NEW ts \in Time, NEW listings \in Seq(Listing),
         NEW rejected \in SUBSET Orgs, NEW reservation \in SUBSET Entry
  PROVE  \A e \in ListedEntries(v, ts, listings, rejected, reservation) :
           e \in Entry /\ e.target \notin rejected
<1> DEFINE live == { k \in DOMAIN listings : listings[k].org \notin rejected }
           Held(k) == { MakeEntry(listings[k].org, v,
                                  [start |-> Pulled(listings[k], ts).start,
                                   end |-> i.end], TRUE)
                        : i \in Continued(listings[k], reservation, ts) }
           holding == { k \in live : Held(k) # {} }
           last == { k \in holding : \A j \in holding : j <= k }
           newReservation == UNION { Held(k) : k \in last }
           Open(k) == { MakeEntry(listings[k].org, v, i, FALSE)
                        : i \in OpenParts(listings[k], newReservation, ts) }
<1>1. ListedEntries(v, ts, listings, rejected, reservation)
        = UNION { Held(k) \cup Open(k) : k \in live }
  BY DEF ListedEntries
<1>2. ASSUME NEW k \in live
      PROVE  listings[k] \in Listing /\ listings[k].org \in Targets \ rejected
  <2>1. \A j \in DOMAIN listings : listings[j] \in Listing
    OBVIOUS
  <2>2. listings[k] \in Listing
    BY <2>1
  <2> QED BY <2>2 DEF Listing, Targets
<1>3. ASSUME NEW k \in live, NEW e \in Held(k)
      PROVE  e \in Entry /\ e.target \notin rejected
  <2>1. PICK i \in Continued(listings[k], reservation, ts) :
          e = MakeEntry(listings[k].org, v,
                        [start |-> Pulled(listings[k], ts).start, end |-> i.end], TRUE)
    OBVIOUS
  <2>2. i \in Span /\ Pulled(listings[k], ts) \in Span
    BY <1>2, ContinuedType, PulledType
  <2> QED BY <2>1, <2>2, <1>2 DEF MakeEntry, Entry, Span
<1>4. ASSUME NEW k \in live, NEW e \in Open(k)
      PROVE  e \in Entry /\ e.target \notin rejected
  <2>1. PICK i \in OpenParts(listings[k], newReservation, ts) :
          e = MakeEntry(listings[k].org, v, i, FALSE)
    OBVIOUS
  <2>2. \A other \in newReservation : other.start \in Time /\ other.end \in Time
    <3>1. \A j \in last : j \in live
      OBVIOUS
    <3>2. \A d \in Entry : d.start \in Time /\ d.end \in Time
      BY DEF Entry
    <3> HIDE DEF Held, last, live
    <3> QED BY <3>1, <3>2, <1>3
  <2>3. i \in Span
    BY <2>2, <1>2, PulledType, SubtractType DEF OpenParts
  <2> QED BY <2>1, <2>3, <1>2 DEF MakeEntry, Entry, Span
<1> HIDE DEF Held, Open, live
<1> QED BY <1>1, <1>3, <1>4

(* Under a policy that lists no organization twice, the entry of a         *)
(* reservation that goes on covers no instant that another entry covers.   *)
LEMMA ListedEntriesAlone ==
  ASSUME NEW v \in Versions, NEW ts \in Time, NEW listings \in Seq(Listing),
         NEW rejected \in SUBSET Orgs, NEW reservation \in SUBSET Entry,
         \A q, r \in reservation : q = r,
         \A j, k \in DOMAIN listings : listings[j].org = listings[k].org => j = k
  PROVE  \A d, e \in ListedEntries(v, ts, listings, rejected, reservation) :
           \A t \in Time : e.reserved /\ Covers(e, t) /\ Covers(d, t) => d = e
<1> DEFINE live == { k \in DOMAIN listings : listings[k].org \notin rejected }
           Held(k) == { MakeEntry(listings[k].org, v,
                                  [start |-> Pulled(listings[k], ts).start,
                                   end |-> i.end], TRUE)
                        : i \in Continued(listings[k], reservation, ts) }
           holding == { k \in live : Held(k) # {} }
           last == { k \in holding : \A j \in holding : j <= k }
           newReservation == UNION { Held(k) : k \in last }
           Open(k) == { MakeEntry(listings[k].org, v, i, FALSE)
                        : i \in OpenParts(listings[k], newReservation, ts) }
           all == ListedEntries(v, ts, listings, rejected, reservation)
<1>1. all = UNION { Held(k) \cup Open(k) : k \in live }
  BY DEF ListedEntries
<1>2. \A k \in live : k \in DOMAIN listings /\ listings[k] \in Listing /\ k \in Int
  <2>1. \A j \in DOMAIN listings : listings[j] \in Listing /\ j \in Int
    OBVIOUS
  <2> QED BY <2>1
<1>3. ASSUME NEW k \in live, NEW e \in Held(k)
      PROVE  e.reserved = TRUE
  BY DEF MakeEntry
<1>4. ASSUME NEW k \in live, NEW e \in Open(k)
      PROVE  e.reserved = FALSE
  <2>1. PICK i \in OpenParts(listings[k], newReservation, ts) :
          e = MakeEntry(listings[k].org, v, i, FALSE)
    OBVIOUS
  <2> HIDE DEF newReservation
  <2> QED BY <2>1 DEF MakeEntry
<1>5. ASSUME NEW j \in holding, NEW k \in holding
      PROVE  j = k
  <2>1. ASSUME NEW l \in holding
        PROVE  \E r \in reservation : r.target = listings[l].org
    <3>1. PICK i : i \in Continued(listings[l], reservation, ts)
      OBVIOUS
    <3> HIDE DEF holding
    <3> QED BY <3>1 DEF Continued
  <2>2. listings[j].org = listings[k].org
    <3>1. PICK q \in reservation : q.target = listings[j].org
      BY <2>1
    <3>2. PICK r \in reservation : r.target = listings[k].org
      BY <2>1
    <3> QED BY <3>1, <3>2
  <2>3. j \in DOMAIN listings /\ k \in DOMAIN listings
    OBVIOUS
  <2> QED BY <2>2, <2>3
<1>6. ASSUME NEW k \in live, NEW d \in Held(k), NEW e \in Held(k)
      PROVE  d = e
  <2>1. ASSUME NEW i \in Continued(listings[k], reservation, ts),
               NEW j \in Continued(listings[k], reservation, ts)
        PROVE  i = j
    <3>1. PICK q \in reservation : i \in Intersect(q, Pulled(listings[k], ts))
      BY DEF Continued
    <3>2. PICK r \in reservation : j \in Intersect(r, Pulled(listings[k], ts))
      BY DEF Continued
    <3>3. q = r
      OBVIOUS
    <3> QED BY <3>1, <3>2, <3>3 DEF Intersect, Between
  <2> QED BY <2>1
<1>7. ASSUME NEW k \in live, NEW e \in Held(k)
      PROVE  newReservation = {e}
  <2>1. k \in holding /\ k <= k
    <3>1. k <= k
      BY <1>2
    <3>2. Held(k) # {}
      OBVIOUS
    <3> HIDE DEF Held, live
    <3> QED BY <3>1, <3>2
  <2>2. last = {k}
    <3> HIDE DEF holding
    <3> QED BY <2>1, <1>5
  <2>3. newReservation = Held(k)
    <3> HIDE DEF last, Held
    <3> QED BY <2>2
  <2> HIDE DEF newReservation, Held, live
  <2> QED BY <2>3, <1>6
<1>8. ASSUME NEW k \in live, NEW e \in Held(k), NEW l \in live, NEW d \in Open(l),
             NEW t \in Time, Covers(e, t), Covers(d, t)
      PROVE  FALSE
  <2>1. PICK i \in OpenParts(listings[l], newReservation, ts) :
          d = MakeEntry(listings[l].org, v, i, FALSE)
    OBVIOUS
  <2>2. i \in Subtract(Pulled(listings[l], ts), {e})
    <3> HIDE DEF newReservation
    <3> QED BY <1>7 DEF OpenParts
  <2>3. Pulled(listings[l], ts) \in Span
    BY <1>2, PulledType
  <2>4. e \in Entry
    <3> HIDE DEF Held, Open, live
    <3>1. e \in ListedEntries(v, ts, listings, rejected, reservation)
      BY <1>1
    <3> QED BY <3>1, ListedEntriesType
  <2>5. e.start \in Time /\ e.end \in Time
    BY <2>4 DEF Entry
  <2>6. i.end <= e.start \/ e.end <= i.start
    BY <2>2, <2>3, <2>5, SubtractLeavesOutside
  <2>7. i \in Span
    <3>1. \A other \in {e} : other.start \in Time /\ other.end \in Time
      BY <2>5
    <3> QED BY <2>2, <2>3, <3>1, SubtractType
  <2>8. d.start = i.start /\ d.end = i.end
    BY <2>1 DEF MakeEntry
  <2>9. /\ i.start \in Int /\ i.end \in Int /\ e.start \in Int /\ e.end \in Int
        /\ t \in Int
    BY <2>5, <2>7, ConstantsAssumption DEF Span, Time
  <2> HIDE DEF Held, Open, live, newReservation
  <2>10. e.start <= t /\ t < e.end /\ i.start <= t /\ t < i.end
    BY <1>8, <2>8 DEF Covers
  <2> QED BY <2>6, <2>9, <2>10
<1> SUFFICES ASSUME NEW d \in all, NEW e \in all, NEW t \in Time,
                    e.reserved, Covers(e, t), Covers(d, t)
             PROVE  d = e
  OBVIOUS
<1> HIDE DEF Held, Open, live, all
<1>9. PICK k \in live : e \in Held(k)
  BY <1>1, <1>4
<1>10. PICK l \in live : d \in Held(l) \cup Open(l)
  BY <1>1
<1>11. CASE d \in Held(l)
  <2>1. k \in holding /\ l \in holding
    BY <1>9, <1>11
  <2>2. k = l
    BY <2>1, <1>5
  <2> QED BY <2>2, <1>9, <1>11, <1>6
<1>12. CASE d \in Open(l)
  BY <1>8, <1>9, <1>12
<1> QED BY <1>10, <1>11, <1>12

(* Truncation shortens entries, and leaves none after ts.                  *)
LEMMA TruncateType ==
  ASSUME NEW timeline \in SUBSET Entry, NEW ts \in Time
  PROVE  /\ Truncate(timeline, ts) \subseteq Entry
         /\ \A e \in Truncate(timeline, ts) :
              /\ e.start < ts /\ e.end <= ts
              /\ \E d \in timeline : e.target = d.target /\ e.end <= d.end
<1> SUFFICES ASSUME NEW e \in Truncate(timeline, ts)
             PROVE  /\ e \in Entry
                    /\ e.start < ts /\ e.end <= ts
                    /\ \E d \in timeline : e.target = d.target /\ e.end <= d.end
  OBVIOUS
<1>1. PICK d \in timeline : d.start < ts /\ e = [d EXCEPT !.end = Lesser(d.end, ts)]
  BY DEF Truncate
<1>2. d \in Entry
  OBVIOUS
<1>3. d.end \in Time /\ d.end \in Int /\ ts \in Int
  BY <1>2, ConstantsAssumption DEF Entry, Time
<1>4. Lesser(d.end, ts) \in Time /\ Lesser(d.end, ts) <= ts /\ Lesser(d.end, ts) <= d.end
  BY <1>3 DEF Lesser
<1>5. e \in Entry
  BY <1>1, <1>2, <1>4 DEF Entry
<1>6. e.start = d.start /\ e.end = Lesser(d.end, ts) /\ e.target = d.target
  BY <1>1, <1>2 DEF Entry
<1> QED BY <1>1, <1>4, <1>5, <1>6

LEMMA TruncateTwice ==
  ASSUME NEW timeline \in SUBSET Entry, NEW ts \in 0 .. Horizon
  PROVE  Truncate(Truncate(timeline, ts), ts) = Truncate(timeline, ts)
<1>1. ts \in Time /\ ts \in Int
  BY ConstantsAssumption DEF Time
<1>2. \A e \in Truncate(timeline, ts) :
        e \in Entry /\ e.start < ts /\ Lesser(e.end, ts) = e.end
  <2> SUFFICES ASSUME NEW e \in Truncate(timeline, ts)
               PROVE  e \in Entry /\ e.start < ts /\ Lesser(e.end, ts) = e.end
    OBVIOUS
  <2>1. e \in Entry /\ e.start < ts /\ e.end <= ts
    BY <1>1, TruncateType
  <2>2. e.end \in Int
    BY <2>1, ConstantsAssumption DEF Entry, Time
  <2> QED BY <1>1, <2>1, <2>2 DEF Lesser
<1>3. \A e \in Entry : [e EXCEPT !.end = e.end] = e
  BY DEF Entry
<1> DEFINE once == Truncate(timeline, ts)
<1>4. Truncate(once, ts) = { [e EXCEPT !.end = Lesser(e.end, ts)] : e \in once }
  BY <1>2 DEF Truncate
<1> HIDE DEF once
<1>5. \A e \in once : [e EXCEPT !.end = Lesser(e.end, ts)] = e
  BY <1>2, <1>3 DEF once
<1> QED BY <1>4, <1>5 DEF once

LEMMA FirstEntriesType ==
  ASSUME NEW timeline \in SUBSET Entry, NEW ts, NEW first \in FirstEntries(timeline, ts)
  PROVE  /\ first \subseteq timeline
         /\ \A d, e \in first : d = e
BY DEF FirstEntries, EarliestOf

LEMMA LocalEntriesType ==
  ASSUME NEW o \in Offers, NEW v \in Versions, NEW ts \in Time
  PROVE  /\ LocalEntries(o, v, ts) \subseteq Entry
         /\ o \in OwnOffers => LocalEntries(o, v, ts) = {}
         /\ \A e \in LocalEntries(o, v, ts) :
              e.target = Host /\ e.start = ts /\ e.reserved = FALSE
<1> DEFINE entry == MakeEntry(Host, v, [start |-> ts, end |-> Expiration[o][v]], FALSE)
<1>1. Expiration[o][v] \in Time
  BY ConstantsAssumption
<1>2. entry = [target |-> Host, version |-> v, start |-> ts,
               end |-> Expiration[o][v], reserved |-> FALSE]
  BY DEF MakeEntry
<1>3. LocalEntries(o, v, ts) \subseteq {entry}
  BY DEF LocalEntries
<1>4. o \in OwnOffers => LocalEntries(o, v, ts) = {}
  BY DEF LocalEntries
<1> HIDE DEF entry
<1>5. Host \in Targets
  BY DEF Targets
<1>6. entry \in Entry
  BY <1>1, <1>2, <1>5 DEF Entry
<1>7. entry.target = Host /\ entry.start = ts /\ entry.reserved = FALSE
  BY <1>2
<1> QED BY <1>3, <1>4, <1>6, <1>7

(* An update of the listings of one of the host's own offers truncates the *)
(* timeline and adds the entries made of the policy's listings.            *)
ListedAfresh(o, v, rows, ts, first, reservation) ==
  [rows EXCEPT !.timeline =
     Truncate(rows.timeline, ts)
     \cup ListedEntries(v, ts, Listings(o, v, first, ts, rows.rejected),
                        rows.rejected, reservation)]

(* The reservation that is looked at is the first entry of the instant.    *)
Running(timeline, ts, reservation) ==
  \E first \in FirstEntries(timeline, ts) :
    reservation = { e \in first : e.reserved }

LEMMA RelistOwn ==
  ASSUME NEW o \in OwnOffers, NEW v \in Versions, NEW rows \in OfferRows,
         NEW ts \in 0 .. Horizon, NEW next \in Relist(o, v, rows, ts)
  PROVE  \E first \in 0 .. Horizon, reservation \in SUBSET Entry :
           /\ \A q, r \in reservation : q = r
           /\ Running(rows.timeline, ts, reservation)
           /\ next = ListedAfresh(o, v, rows, ts, first, reservation)
<1> DEFINE kept == Truncate(rows.timeline, ts)
<1>1. ts \in Time /\ ts \in Nat /\ o \in Offers
  BY ConstantsAssumption DEF Time
<1>2. rows.timeline \in SUBSET Entry
  BY DEF OfferRows
<1>3. LocalEntries(o, v, ts) = {}
  BY <1>1, LocalEntriesType
<1>4. PICK f \in FirstEntries(rows.timeline, ts) :
        next = [rows EXCEPT !.timeline =
                  kept \cup {}
                  \cup RemoteEntries(o, v, ts, kept \cup {}, rows.rejected,
                                     { e \in f : e.reserved })]
  BY <1>3 DEF Relist
<1> DEFINE reservation == { e \in f : e.reserved }
           first == FirstListingTime(kept, ts)
<1>5. reservation \in SUBSET Entry /\ \A q, r \in reservation : q = r
  BY <1>2, FirstEntriesType
<1>6. first \in 0 .. Horizon
  <2>1. kept \in SUBSET Entry /\ \A e \in kept : e.start < ts
    BY <1>1, <1>2, TruncateType
  <2>2. \A e \in kept : e.start \in Int
    BY <2>1, ConstantsAssumption DEF Entry, Time
  <2>3. \A e \in kept : e.start <= ts
    BY <2>1, <2>2, <1>1
  <2>4. first \in 0 .. ts
    BY <1>1, <2>1, <2>3, FirstListingTimeBound
  <2> QED BY <2>4, ConstantsAssumption DEF Time
<1> HIDE DEF kept
<1>7. kept \cup {} = kept
  OBVIOUS
<1>8. next = [rows EXCEPT !.timeline =
                kept \cup ListedEntries(v, ts, Listings(o, v, first, ts, rows.rejected),
                                        rows.rejected, reservation)]
  BY <1>4, <1>7 DEF RemoteEntries
<1>9. next = ListedAfresh(o, v, rows, ts, first, reservation)
  BY <1>8 DEF kept, ListedAfresh
<1>10. Running(rows.timeline, ts, reservation)
  BY DEF Running
<1> HIDE DEF first, reservation
<1> QED BY <1>5, <1>6, <1>9, <1>10

(* For an offer of another organization it adds the host's own entry.      *)
LEMMA RelistForeign ==
  ASSUME NEW o \in Offers \ OwnOffers, NEW v \in Versions, NEW rows \in OfferRows,
         NEW ts \in 0 .. Horizon, NEW next \in Relist(o, v, rows, ts)
  PROVE  next = [rows EXCEPT !.timeline =
                   Truncate(rows.timeline, ts) \cup LocalEntries(o, v, ts)]
<1>1. ASSUME NEW timeline, NEW reservation
      PROVE  RemoteEntries(o, v, ts, timeline, rows.rejected, reservation) = {}
  BY DEF RemoteEntries
<1>2. ASSUME NEW kept, NEW local PROVE kept \cup local \cup {} = kept \cup local
  OBVIOUS
<1> QED BY <1>1, <1>2 DEF Relist

(* Either way none of the new entries is for an organization that rejected *)
(* the offer.                                                              *)
LEMMA RelistShape ==
  ASSUME NEW o \in Offers, NEW v \in Versions, NEW rows \in OfferRows,
         NEW ts \in 0 .. Horizon, NEW next \in Relist(o, v, rows, ts)
  PROVE  \E new \in SUBSET Entry :
           /\ next = [rows EXCEPT !.timeline = Truncate(rows.timeline, ts) \cup new]
           /\ \A e \in new : e.target \notin rows.rejected
<1>1. ts \in Time /\ rows.rejected \in SUBSET Orgs
  BY ConstantsAssumption DEF Time, OfferRows
<1>2. CASE o \in OwnOffers
  <2>1. PICK first \in 0 .. Horizon, reservation \in SUBSET Entry :
          next = ListedAfresh(o, v, rows, ts, first, reservation)
    BY <1>2, RelistOwn
  <2> DEFINE new == ListedEntries(v, ts, Listings(o, v, first, ts, rows.rejected),
                                  rows.rejected, reservation)
  <2>2. Listings(o, v, first, ts, rows.rejected) \in Seq(Listing)
    BY <1>1, <1>2, PolicyAssumption
  <2>3. \A e \in new : e \in Entry /\ e.target \notin rows.rejected
    BY <1>1, <2>2, ListedEntriesType
  <2>4. next = [rows EXCEPT !.timeline = Truncate(rows.timeline, ts) \cup new]
    BY <2>1 DEF ListedAfresh
  <2> HIDE DEF new
  <2>5. new \in SUBSET Entry
    BY <2>3
  <2> QED BY <2>3, <2>4, <2>5
<1>3. CASE o \notin OwnOffers
  <2>1. /\ LocalEntries(o, v, ts) \in SUBSET Entry
        /\ \A e \in LocalEntries(o, v, ts) : e.target \notin rows.rejected
    <3>1. Host \notin rows.rejected
      BY <1>1, ConstantsAssumption
    <3> QED BY <1>1, <3>1, LocalEntriesType
  <2> QED BY <1>3, <2>1, RelistForeign
<1> QED BY <1>2, <1>3

(* Whoever held the offer reserved before: under a policy that lists no    *)
(* organization twice, what is listed afresh leaves a reservation alone.   *)
LEMMA RelistAlone ==
  ASSUME OneListingPerOrg,
         NEW o \in Offers, NEW v \in Versions, NEW rows \in OfferRows,
         NEW ts \in 0 .. Horizon, NEW next \in Relist(o, v, rows, ts)
  PROVE  \A d, e \in next.timeline, t \in Time :
           t >= ts /\ e.reserved /\ Covers(e, t) /\ Covers(d, t) => d = e
<1>1. ts \in Time /\ ts \in Int /\ \A t \in Time : t \in Int
  BY ConstantsAssumption DEF Time
<1>2. ASSUME NEW x \in Truncate(rows.timeline, ts), NEW t \in Time, t >= ts
      PROVE  ~Covers(x, t)
  <2>1. x \in Entry /\ x.end <= ts
    BY <1>1, TruncateType DEF OfferRows
  <2>2. x.end \in Int
    BY <2>1, ConstantsAssumption DEF Entry, Time
  <2> QED BY <1>1, <1>2, <2>1, <2>2 DEF Covers
<1>3. CASE o \in OwnOffers
  <2>1. PICK first \in 0 .. Horizon, reservation \in SUBSET Entry :
          /\ \A q, r \in reservation : q = r
          /\ next = ListedAfresh(o, v, rows, ts, first, reservation)
    BY <1>3, RelistOwn
  <2> DEFINE listings == Listings(o, v, first, ts, rows.rejected)
             listed == ListedEntries(v, ts, listings, rows.rejected, reservation)
  <2>2. /\ listings \in Seq(Listing)
        /\ \A j, k \in DOMAIN listings : listings[j].org = listings[k].org => j = k
    BY <1>3, PolicyAssumption DEF OneListingPerOrg, OfferRows
  <2>3. next.timeline = Truncate(rows.timeline, ts) \cup listed
    BY <2>1 DEF OfferRows, ListedAfresh
  <2> HIDE DEF listings
  <2>4. rows.rejected \in SUBSET Orgs
    BY DEF OfferRows
  <2>5. \A x, y \in listed : \A t \in Time :
          y.reserved /\ Covers(y, t) /\ Covers(x, t) => x = y
    BY <1>1, <2>1, <2>2, <2>4, ListedEntriesAlone
  <2> HIDE DEF listed
  <2> QED BY <1>2, <2>3, <2>5
<1>4. CASE o \notin OwnOffers
  <2>1. next.timeline = Truncate(rows.timeline, ts) \cup LocalEntries(o, v, ts)
    BY <1>4, RelistForeign DEF OfferRows
  <2>2. \A e \in LocalEntries(o, v, ts) : e.reserved = FALSE
    BY <1>1, LocalEntriesType
  <2> QED BY <1>2, <2>1, <2>2
<1> QED BY <1>3, <1>4

LEMMA RelistType ==
  ASSUME NEW o \in Offers, NEW v \in Versions, NEW rows \in OfferRows,
         NEW ts \in 0 .. Horizon, NEW next \in Relist(o, v, rows, ts)
  PROVE  next \in OfferRows
<1>1. PICK new \in SUBSET Entry :
        next = [rows EXCEPT !.timeline = Truncate(rows.timeline, ts) \cup new]
  BY RelistShape
<1>2. Truncate(rows.timeline, ts) \subseteq Entry
  BY TruncateType, ConstantsAssumption DEF OfferRows, Time
<1> QED BY <1>1, <1>2 DEF OfferRows

-----------------------------------------------------------------------------
(* What an update makes of the rows of an offer                            *)

LEMMA DeleteFromShape ==
  ASSUME NEW f \in Feeds, NEW rows \in OfferRows, NEW ts \in 0 .. Horizon
  PROVE  /\ DeleteFrom(f, rows, ts) \in OfferRows
         /\ DeleteFrom(f, rows, ts).rejected = rows.rejected
         /\ \/ DeleteFrom(f, rows, ts).timeline = rows.timeline
            \/ DeleteFrom(f, rows, ts).timeline = Truncate(rows.timeline, ts)
<1> DEFINE corpus == [rows.corpus EXCEPT ![f] = NoVersion]
           timeline == IF Published(corpus) = {}
                       THEN Truncate(rows.timeline, ts) ELSE rows.timeline
<1>1. Truncate(rows.timeline, ts) \subseteq Entry
  BY TruncateType, ConstantsAssumption DEF OfferRows, Time
<1>2. corpus \in [Feeds -> Versions \cup {NoVersion}]
  BY DEF OfferRows
<1>3. timeline \subseteq Entry
  BY <1>1 DEF OfferRows
<1>4. DeleteFrom(f, rows, ts) =
        IF rows.corpus[f] = NoVersion
        THEN rows
        ELSE [rows EXCEPT !.corpus = corpus, !.timeline = timeline]
  BY DEF DeleteFrom
<1>5. timeline = rows.timeline \/ timeline = Truncate(rows.timeline, ts)
  OBVIOUS
<1> HIDE DEF corpus, timeline
<1> QED BY <1>2, <1>3, <1>4, <1>5 DEF OfferRows

LEMMA InsertIntoShape ==
  ASSUME NEW f \in Feeds, NEW rows \in OfferRows, NEW put \in Put
  PROVE  /\ InsertInto(f, rows, put) \in OfferRows
         /\ InsertInto(f, rows, put).rejected = rows.rejected
         /\ InsertInto(f, rows, put).timeline = rows.timeline
<1>1. Greater(rows.corpus[f], put.version) \in Versions \cup {NoVersion}
  BY DEF Greater, OfferRows, Put
<1> DEFINE chain == IF BetterChain(put.chain, rows.chain) THEN put.chain ELSE rows.chain
<1>2. chain \in 0 .. MaxChain
  BY DEF OfferRows, Put
<1>3. InsertInto(f, rows, put) =
        [rows EXCEPT !.corpus = [rows.corpus EXCEPT ![f] =
                                   Greater(rows.corpus[f], put.version)],
                     !.chain = chain]
  BY DEF InsertInto, OfferRows
<1> HIDE DEF chain
<1> QED BY <1>1, <1>2, <1>3 DEF OfferRows

(* The rows keep their timeline or have it truncated, or the offer is      *)
(* listed afresh; nothing else happens to the timeline of an offer.        *)
Kept(rows, next) ==
  next.rejected = rows.rejected /\ next.timeline = rows.timeline

Shortened(rows, next, ts) ==
  next.rejected = rows.rejected /\ next.timeline = Truncate(rows.timeline, ts)

Relisted(o, next, ts) ==
  \E v \in Versions, rows \in OfferRows : next \in Relist(o, v, rows, ts)

LEMMA OutcomesShape ==
  ASSUME TypeOK, NEW o \in Offers, NEW u \in updates, NEW next \in Outcomes(o, u)
  PROVE  /\ next \in OfferRows
         /\ \/ Kept(store[o], next)
            \/ Shortened(store[o], next, u.now)
            \/ Relisted(o, next, u.now)
<1> DEFINE op == u.batch.op[o]
           rows == IF u.batch.clear THEN DeleteFrom(u.feed, store[o], u.now)
                   ELSE store[o]
<1>1. /\ store[o] \in OfferRows /\ u.feed \in Feeds /\ u.now \in 0 .. Horizon
      /\ op \in Put \cup {Keep, Remove}
  BY DEF TypeOK, Update, Batch
<1>2. /\ rows \in OfferRows /\ rows.rejected = store[o].rejected
      /\ \/ rows.timeline = store[o].timeline
         \/ rows.timeline = Truncate(store[o].timeline, u.now)
  BY <1>1, DeleteFromShape
<1>3. next \in ApplyOp(o, u.feed, rows, op, u.now)
  BY DEF Outcomes
<1> HIDE DEF rows, op
<1>4. CASE op = Keep
  <2>1. next = rows
    BY <1>3, <1>4 DEF ApplyOp, Keep
  <2> QED BY <2>1, <1>2 DEF Kept, Shortened
<1>5. CASE op = Remove
  <2>1. next = DeleteFrom(u.feed, rows, u.now)
    BY <1>3, <1>5 DEF ApplyOp, Remove
  <2>2. /\ next \in OfferRows /\ next.rejected = rows.rejected
        /\ next.timeline = rows.timeline \/ next.timeline = Truncate(rows.timeline, u.now)
    BY <2>1, <1>1, <1>2, DeleteFromShape
  <2>3. store[o].timeline \in SUBSET Entry
    BY <1>1 DEF OfferRows
  <2>4. Truncate(Truncate(store[o].timeline, u.now), u.now) = Truncate(store[o].timeline, u.now)
    BY <1>1, <2>3, TruncateTwice
  <2> QED BY <2>2, <2>4, <1>2 DEF Kept, Shortened
<1>6. CASE op \in Put
  <2>1. op.kind = "put" /\ op.version \in Versions
    BY <1>6 DEF Put
  <2>2. next \in IF UpdateType(rows, op) = "NONE"
                 THEN {InsertInto(u.feed, rows, op)}
                 ELSE Relist(o, op.version, InsertInto(u.feed, rows, op), u.now)
    BY <1>3, <2>1 DEF ApplyOp
  <2>3. /\ InsertInto(u.feed, rows, op) \in OfferRows
        /\ InsertInto(u.feed, rows, op).rejected = rows.rejected
        /\ InsertInto(u.feed, rows, op).timeline = rows.timeline
    BY <1>1, <1>2, <1>6, InsertIntoShape
  <2>4. CASE next = InsertInto(u.feed, rows, op)
    BY <2>3, <2>4, <1>2 DEF Kept, Shortened
  <2>5. CASE next \in Relist(o, op.version, InsertInto(u.feed, rows, op), u.now)
    BY <2>1, <2>3, <2>5, <1>1, RelistType DEF Relisted
  <2> QED BY <2>2, <2>4, <2>5
<1> QED BY <1>1, <1>4, <1>5, <1>6

-----------------------------------------------------------------------------
(* What a step makes of the rows of an offer                               *)

(* The times that calls in flight work with are not in the future.         *)
CapturedInPast == \A c \in calls \cup updates : c.now <= clock

Step(o, next) ==
  /\ next \in OfferRows
  /\ \E ts \in 0 .. Horizon :
       /\ ts <= clock
       /\ Kept(store[o], next) \/ Shortened(store[o], next, ts) \/ Relisted(o, next, ts)

LEMMA KeptStep ==
  ASSUME TypeOK, NEW o \in Offers
  PROVE  Step(o, store[o])
<1>1. clock \in 0 .. Horizon /\ clock <= clock /\ store[o] \in OfferRows
  BY ConstantsAssumption DEF TypeOK, Time
<1> QED BY <1>1 DEF Step, Kept

LEMMA VersionsSeenType ==
  ASSUME TypeOK, NEW o \in Offers, NEW viewer, NEW t,
         NEW v \in OfferAtTime(store[o].timeline, viewer, t)
  PROVE  v \in Versions
<1>1. \A e \in store[o].timeline : e.version \in Versions
  BY DEF TypeOK, OfferRows, Entry
<1> QED BY <1>1 DEF OfferAtTime, VersionsSeen

(* A call that commits leaves the rows of its offer in one of these shapes *)
(* and does not touch those of any other.                                  *)
LEMMA CommitStep ==
  ASSUME TypeOK, CapturedInPast, NEW c \in calls, NEW rows, Commit(c, rows),
         Step(c.offer, rows)
  PROVE  /\ \A o \in Offers : Step(o, store'[o])
         /\ store' \in [Offers -> OfferRows]
<1>1. /\ c.offer \in Offers /\ store \in [Offers -> OfferRows]
      /\ store' = [store EXCEPT ![c.offer] = rows] /\ rows \in OfferRows
  BY DEF TypeOK, Call, CallRecord, Commit, Step
<1>2. \A o \in Offers : store'[o] = store[o] \/ (o = c.offer /\ store'[o] = rows)
  BY <1>1
<1>3. \A o \in Offers : Step(o, store[o])
  BY KeptStep
<1> QED BY <1>1, <1>2, <1>3

LEMMA AcceptStep ==
  ASSUME TypeOK, CapturedInPast, NEW c \in calls, Accept(c)
  PROVE  /\ \A o \in Offers : Step(o, store'[o])
         /\ store' \in [Offers -> OfferRows]
<1> DEFINE rows == store[c.offer]
<1>1. /\ c.offer \in Offers /\ c.org \in Orgs /\ c.now \in 0 .. Horizon
      /\ c.now <= clock /\ c.now \in Time /\ rows \in OfferRows
  BY ConstantsAssumption DEF TypeOK, Call, CallRecord, CapturedInPast, Time
<1>2. CASE Refuse(c)
  BY <1>2, KeptStep DEF Refuse, TypeOK
<1>3. CASE \E v \in OfferAtTime(rows.timeline, c.org, c.now) :
             Commit(c, [rows EXCEPT
               !.accepted = @ \cup {[version |-> v, by |-> c.org, at |-> c.now]},
               !.timeline = Truncate(@, c.now)])
  <2>1. PICK v \in OfferAtTime(rows.timeline, c.org, c.now) :
             Commit(c, [rows EXCEPT
               !.accepted = @ \cup {[version |-> v, by |-> c.org, at |-> c.now]},
               !.timeline = Truncate(@, c.now)])
    BY <1>3
  <2> DEFINE next == [rows EXCEPT
               !.accepted = @ \cup {[version |-> v, by |-> c.org, at |-> c.now]},
               !.timeline = Truncate(@, c.now)]
  <2>2. [version |-> v, by |-> c.org, at |-> c.now] \in Acceptance
    BY <1>1, VersionsSeenType DEF Acceptance
  <2>3. Truncate(rows.timeline, c.now) \subseteq Entry
    BY <1>1, TruncateType DEF OfferRows
  <2>4. next \in OfferRows /\ Shortened(rows, next, c.now)
    BY <1>1, <2>2, <2>3 DEF OfferRows, Shortened
  <2>5. Step(c.offer, next)
    BY <1>1, <2>4 DEF Step
  <2> QED BY <2>1, <2>5, CommitStep
<1> QED BY <1>2, <1>3 DEF Accept

LEMMA RelistedStep ==
  ASSUME TypeOK, CapturedInPast, NEW c \in calls,
         NEW v \in Versions, NEW rows \in OfferRows,
         NEW next \in Relist(c.offer, v, rows, c.now)
  PROVE  Step(c.offer, next)
<1>1. c.offer \in Offers /\ c.now \in 0 .. Horizon /\ c.now <= clock
  BY DEF TypeOK, Call, CallRecord, CapturedInPast
<1>2. next \in OfferRows
  BY <1>1, RelistType
<1> QED BY <1>1, <1>2 DEF Step, Relisted

LEMMA RejectStep ==
  ASSUME TypeOK, CapturedInPast, NEW c \in calls, Reject(c)
  PROVE  /\ \A o \in Offers : Step(o, store'[o])
         /\ store' \in [Offers -> OfferRows]
<1> DEFINE rows == store[c.offer]
           rejecting == [rows EXCEPT !.rejected = @ \cup {c.org}]
<1>1. /\ c.offer \in Offers /\ c.org \in Orgs /\ rows \in OfferRows
  BY DEF TypeOK, Call, CallRecord
<1>2. CASE Refuse(c)
  BY <1>2, KeptStep DEF Refuse, TypeOK
<1>3. CASE \E v \in OfferAtTime(rows.timeline, c.org, c.now) :
             \E next \in Relist(c.offer, v, rejecting, c.now) : Commit(c, next)
  <2>0. PICK v \in OfferAtTime(rows.timeline, c.org, c.now) :
               \E next \in Relist(c.offer, v, rejecting, c.now) : Commit(c, next)
    BY <1>3
  <2>1. PICK next \in Relist(c.offer, v, rejecting, c.now) : Commit(c, next)
    BY <2>0
  <2>2. rejecting \in OfferRows
    BY <1>1 DEF OfferRows
  <2>3. v \in Versions
    BY <1>1, VersionsSeenType
  <2>4. Step(c.offer, next)
    <3> HIDE DEF rejecting
    <3> QED BY <2>1, <2>2, <2>3, RelistedStep
  <2> QED BY <2>1, <2>4, CommitStep
<1> QED BY <1>2, <1>3 DEF Reject

LEMMA ReserveStep ==
  ASSUME TypeOK, CapturedInPast, NEW c \in calls, Reserve(c)
  PROVE  /\ \A o \in Offers : Step(o, store'[o])
         /\ store' \in [Offers -> OfferRows]
<1> DEFINE rows == store[c.offer]
           slot == [start |-> c.now, end |-> ReservationEnd(c.offer, c.arg, c.now)]
           held(v) == [rows EXCEPT !.timeline =
                         Truncate(@, c.now) \cup {MakeEntry(c.org, v, slot, TRUE)}]
<1>1. /\ c.offer \in Offers /\ c.org \in Orgs /\ c.now \in 0 .. Horizon
      /\ c.now \in Time /\ rows \in OfferRows /\ c.arg \in CallArgs(c.op)
  BY ConstantsAssumption DEF TypeOK, Call, CallRecord, Time
<1>2. CASE Refuse(c)
  BY <1>2, KeptStep DEF Refuse, TypeOK
<1>3. CASE /\ c.op = "reserve"
           /\ \E v \in OfferAtTime(rows.timeline, c.org, c.now) :
                \E next \in Relist(c.offer, v, held(v), c.now) : Commit(c, next)
  <2>1. PICK v \in OfferAtTime(rows.timeline, c.org, c.now) :
               \E next \in Relist(c.offer, v, held(v), c.now) : Commit(c, next)
    BY <1>3
  <2>2. PICK next \in Relist(c.offer, v, held(v), c.now) : Commit(c, next)
    BY <2>1
  <2>3. v \in Versions
    BY <1>1, VersionsSeenType
  <2>4. slot.start \in Time /\ slot.end \in Time
    <3>1. c.arg \in Lengths
      BY <1>1, <1>3 DEF CallArgs
    <3>2. /\ c.arg \in Nat /\ Horizon + c.arg <= MaxTime
          /\ MaxReservation[c.offer] \in Nat
      BY <3>1, <1>1, ConstantsAssumption
    <3>3. ReservationEnd(c.offer, c.arg, c.now) \in 0 .. MaxTime
      BY <3>2, <1>1, ConstantsAssumption DEF ReservationEnd, Lesser, Time
    <3> QED BY <3>3, <1>1 DEF Time
  <2>5. MakeEntry(c.org, v, slot, TRUE) \in Entry
    <3> HIDE DEF slot
    <3> QED BY <2>3, <2>4, <1>1 DEF MakeEntry, Entry, Targets
  <2>6. held(v) \in OfferRows
    <3>1. Truncate(rows.timeline, c.now) \subseteq Entry
      BY <1>1, TruncateType DEF OfferRows
    <3> QED BY <3>1, <2>5, <1>1 DEF OfferRows
  <2>7. Step(c.offer, next)
    <3> HIDE DEF held
    <3> QED BY <2>2, <2>3, <2>6, RelistedStep
  <2> QED BY <2>2, <2>7, CommitStep
<1> QED BY <1>2, <1>3 DEF Reserve

LEMMA ProcessUpdateStep ==
  ASSUME TypeOK, CapturedInPast, NEW u \in updates, ProcessUpdate(u)
  PROVE  /\ \A o \in Offers : Step(o, store'[o])
         /\ store' \in [Offers -> OfferRows]
<1>1. /\ DOMAIN store' = Offers /\ \A o \in Offers : store'[o] \in Outcomes(o, u)
      /\ store' = [o \in Offers |-> store'[o]]
  BY DEF ProcessUpdate
<1>2. u.now \in 0 .. Horizon /\ u.now <= clock
  BY DEF TypeOK, Update, CapturedInPast
<1>3. ASSUME NEW o \in Offers PROVE Step(o, store'[o])
  BY <1>1, <1>2, OutcomesShape DEF Step
<1>4. \A o \in Offers : store'[o] \in OfferRows
  BY <1>3 DEF Step
<1> QED BY <1>1, <1>3, <1>4

(* Every step leaves the rows of every offer in one of these shapes.       *)
LEMMA StepShape ==
  ASSUME TypeOK, CapturedInPast, [Next]_vars
  PROVE  /\ \A o \in Offers : Step(o, store'[o])
         /\ store' \in [Offers -> OfferRows]
<1>1. CASE store' = store
  BY <1>1, KeptStep DEF TypeOK
<1>2. CASE \E u \in updates : ProcessUpdate(u)
  BY <1>2, ProcessUpdateStep
<1>3. CASE \E c \in calls : Accept(c) \/ Reject(c) \/ Reserve(c)
  BY <1>3, AcceptStep, RejectStep, ReserveStep
<1> QED BY <1>1, <1>2, <1>3
  DEF Next, vars, Tick, BeginUpdate, AbandonUpdate, BeginCall, AbandonCall, Refuse

-----------------------------------------------------------------------------
(* The inductive invariant: the tables and the calls in flight have their  *)
(* types, and no call works with a time that is still to come.             *)
IInv == TypeOK /\ CapturedInPast

LEMMA InitIInv == Init => IInv
<1> SUFFICES ASSUME Init PROVE IInv
  OBVIOUS
<1>1. clock \in 0 .. Horizon /\ calls = {} /\ updates = {} /\ begun \in 0 .. MaxBegun
  BY ConstantsAssumption DEF Init, Time
<1>2. EmptyRows \in OfferRows
  BY ConstantsAssumption DEF EmptyRows, OfferRows
<1>3. store \in [Offers -> OfferRows]
  BY <1>2 DEF Init
<1> QED BY <1>1, <1>3 DEF IInv, TypeOK, CapturedInPast

LEMMA StepIInv == IInv /\ [Next]_vars => IInv'
<1> SUFFICES ASSUME IInv, [Next]_vars PROVE IInv'
  OBVIOUS
<1> USE DEF IInv
<1>1. /\ clock \in 0 .. Horizon /\ clock \in Int /\ begun \in 0 .. MaxBegun
      /\ calls \subseteq Call /\ updates \subseteq Update
      /\ \A c \in calls \cup updates : c.now \in Int /\ c.now <= clock
  BY DEF TypeOK, CapturedInPast, Call, CallRecord, Update
<1>2. store' \in [Offers -> OfferRows]
  BY StepShape
<1>3. /\ clock' \in 0 .. Horizon /\ begun' \in 0 .. MaxBegun
      /\ calls' \subseteq Call /\ updates' \subseteq Update
      /\ CapturedInPast'
  <2>1. CASE Tick
    BY <2>1, <1>1, ConstantsAssumption DEF Tick, CapturedInPast, Time
  <2>2. CASE \E f \in Feeds, batch \in SnapshotBatches \cup DeltaBatches :
               BeginUpdate(f, batch)
    <3>1. PICK f \in Feeds, batch \in SnapshotBatches \cup DeltaBatches :
            BeginUpdate(f, batch)
      BY <2>2
    <3> DEFINE u == [feed |-> f, now |-> clock, batch |-> batch]
    <3>2. batch \in Batch
      BY DEF SnapshotBatches, DeltaBatches, Batch
    <3>3. u \in Update /\ u.now <= clock
      BY <3>2, <1>1 DEF Update
    <3>4. begun' \in 0 .. MaxBegun
      BY <3>1, <1>1, ConstantsAssumption DEF BeginUpdate, Begin
    <3>5. UNCHANGED <<clock, calls>> /\ updates' = updates \cup {u}
      BY <3>1 DEF BeginUpdate
    <3> HIDE DEF u
    <3> QED BY <3>3, <3>4, <3>5, <1>1 DEF CapturedInPast
  <2>3. CASE \E u \in updates : ProcessUpdate(u) \/ AbandonUpdate(u)
    <3>1. UNCHANGED <<clock, calls, begun>> /\ updates' \subseteq updates
      BY <2>3 DEF ProcessUpdate, AbandonUpdate
    <3> QED BY <3>1, <1>1 DEF CapturedInPast
  <2>4. CASE \E id \in Calls, op \in {"accept", "reject", "reserve"}, org \in Orgs,
                o \in Offers : \E arg \in CallArgs(op) : BeginCall(id, op, org, o, arg)
    <3>1. PICK id \in Calls, op \in {"accept", "reject", "reserve"}, org \in Orgs,
               o \in Offers : \E arg \in CallArgs(op) : BeginCall(id, op, org, o, arg)
      BY <2>4
    <3>2. PICK arg \in CallArgs(op) : BeginCall(id, op, org, o, arg)
      BY <3>1
    <3> DEFINE c == [id |-> id, op |-> op, org |-> org, offer |-> o, arg |-> arg,
                     now |-> clock]
    <3>3. arg \in Nat
      BY ConstantsAssumption DEF CallArgs, NoVersion
    <3>4. c \in CallRecord
      BY <3>3, <1>1 DEF CallRecord
    <3>5. c \in Call /\ c.now <= clock
      BY <3>4, <1>1 DEF Call
    <3>6. begun' \in 0 .. MaxBegun
      BY <3>2, <1>1, ConstantsAssumption DEF BeginCall, Begin
    <3>7. UNCHANGED <<clock, updates>> /\ calls' = calls \cup {c}
      BY <3>2 DEF BeginCall
    <3> HIDE DEF c
    <3> QED BY <3>5, <3>6, <3>7, <1>1 DEF CapturedInPast
  <2>5. CASE \E c \in calls : Accept(c) \/ Reject(c) \/ Reserve(c) \/ AbandonCall(c)
    <3>1. UNCHANGED <<clock, updates, begun>> /\ calls' \subseteq calls
      BY <2>5 DEF Accept, Reject, Reserve, AbandonCall, Refuse, Commit
    <3> QED BY <3>1, <1>1 DEF CapturedInPast
  <2>6. CASE UNCHANGED vars
    BY <2>6, <1>1 DEF vars, CapturedInPast
  <2> QED BY <2>1, <2>2, <2>3, <2>4, <2>5, <2>6 DEF Next
<1> QED BY <1>2, <1>3 DEF TypeOK

(* The tables and the calls in flight keep their types: no step writes an  *)
(* entry, a version or a reservation that is not one.                      *)
THEOREM TypeCorrect == Spec => []TypeOK
<1>1. IInv => TypeOK
  BY DEF IInv
<1> QED BY <1>1, InitIInv, StepIInv, PTL DEF Spec

LEMMA InductiveInvariant == Spec => []IInv
BY InitIInv, StepIInv, PTL DEF Spec

-----------------------------------------------------------------------------
LEMMA ClockAdvances ==
  ASSUME IInv, [Next]_vars
  PROVE  clock \in Int /\ clock' \in Int /\ clock <= clock'
<1>1. clock \in 0 .. Horizon
  BY DEF IInv, TypeOK
<1>2. clock' = clock \/ clock' = clock + 1
  BY DEF Next, vars, Tick, BeginUpdate, ProcessUpdate, AbandonUpdate, BeginCall,
         Accept, Reject, Reserve, AbandonCall, Refuse, Commit
<1> QED BY <1>1, <1>2

(* What a truncated timeline still covers, it covered before.              *)
LEMMA TruncateCovers ==
  ASSUME NEW timeline \in SUBSET Entry, NEW ts \in Time,
         NEW e \in Truncate(timeline, ts), NEW t \in Time, Covers(e, t)
  PROVE  t < ts
<1>1. e \in Entry /\ e.end <= ts
  BY TruncateType
<1>2. e.end \in Int /\ ts \in Int /\ t \in Int
  BY <1>1, ConstantsAssumption DEF Entry, Time
<1> QED BY <1>1, <1>2 DEF Covers

(* An organization that rejected an offer is never listed again, under any *)
(* policy and however late calls and updates commit.                       *)
THEOREM RejectedStayUnlisted == Spec => []RejectedUnlisted
<1>1. Init => RejectedUnlisted
  BY DEF Init, EmptyRows, RejectedUnlisted
<1>2. IInv /\ RejectedUnlisted /\ [Next]_vars => RejectedUnlisted'
  <2> SUFFICES ASSUME IInv, RejectedUnlisted, [Next]_vars,
                      NEW o \in Offers, NEW e \in store'[o].timeline,
                      e.target \in store'[o].rejected
               PROVE  e.end <= clock'
    BY DEF RejectedUnlisted
  <2>1. /\ clock \in Int /\ clock' \in Int /\ clock <= clock'
        /\ Step(o, store'[o]) /\ store[o] \in OfferRows
    BY ClockAdvances, StepShape DEF IInv, TypeOK
  <2>2. PICK ts \in 0 .. Horizon :
          /\ ts <= clock
          /\ \/ Kept(store[o], store'[o])
             \/ Shortened(store[o], store'[o], ts)
             \/ Relisted(o, store'[o], ts)
    BY <2>1 DEF Step
  <2>3. ts \in Time /\ ts \in Int /\ \A x \in Entry : x.end \in Int
    BY ConstantsAssumption DEF Time, Entry
  <2>4. store[o].timeline \in SUBSET Entry /\ store'[o].timeline \in SUBSET Entry
    BY <2>1 DEF OfferRows, Step
  <2>5. CASE Kept(store[o], store'[o])
    <3>1. e.end <= clock
      BY <2>5 DEF Kept, RejectedUnlisted
    <3> QED BY <3>1, <2>1, <2>3, <2>4
  <2>6. CASE Shortened(store[o], store'[o], ts)
    <3>1. e.end <= ts
      BY <2>3, <2>4, <2>6, TruncateType DEF Shortened
    <3> QED BY <3>1, <2>1, <2>2, <2>3, <2>4
  <2>7. CASE Relisted(o, store'[o], ts)
    <3>1. PICK v \in Versions, rows \in OfferRows : store'[o] \in Relist(o, v, rows, ts)
      BY <2>7 DEF Relisted
    <3>2. PICK new \in SUBSET Entry :
            /\ store'[o] = [rows EXCEPT !.timeline = Truncate(rows.timeline, ts) \cup new]
            /\ \A x \in new : x.target \notin rows.rejected
      <4>1. store'[o] \in Relist(o, v, rows, ts)
        BY <3>1
      <4> DEFINE next == store'[o]
      <4>2. next \in Relist(o, v, rows, ts)
        BY <4>1
      <4> HIDE DEF next
      <4>3. \E new \in SUBSET Entry :
              /\ next = [rows EXCEPT !.timeline = Truncate(rows.timeline, ts) \cup new]
              /\ \A x \in new : x.target \notin rows.rejected
        BY <4>2, RelistShape
      <4> QED BY <4>3 DEF next
    <3>3. /\ store'[o].timeline = Truncate(rows.timeline, ts) \cup new
          /\ store'[o].rejected = rows.rejected
      BY <3>2 DEF OfferRows
    <3>4. e \in Truncate(rows.timeline, ts)
      BY <3>2, <3>3
    <3>5. e.end <= ts
      BY <2>3, <3>4, TruncateType DEF OfferRows
    <3> QED BY <3>5, <2>1, <2>2, <2>3, <2>4
  <2> QED BY <2>2, <2>5, <2>6, <2>7
<1> QED BY <1>1, <1>2, InductiveInvariant, PTL DEF Spec

(* Under a policy that lists no organization twice, a reservation is alone *)
(* on the timeline from the present on, however late calls and updates     *)
(* commit: nobody else can be shown an offer that is reserved.             *)
THEOREM ReservationsExclusive ==
  ASSUME OneListingPerOrg
  PROVE  Spec => []ReservationAlone
<1>1. Init => ReservationAlone
  BY DEF Init, EmptyRows, ReservationAlone
<1>2. IInv /\ ReservationAlone /\ [Next]_vars => ReservationAlone'
  <2> SUFFICES ASSUME IInv, ReservationAlone, [Next]_vars,
                      NEW o \in Offers, NEW e \in store'[o].timeline,
                      NEW d \in store'[o].timeline, NEW t \in Time,
                      t >= clock', e.reserved, Covers(e, t), Covers(d, t)
               PROVE  d = e
    BY DEF ReservationAlone
  <2>1. /\ clock \in Int /\ clock' \in Int /\ clock <= clock' /\ t \in Int
        /\ Step(o, store'[o]) /\ store[o] \in OfferRows
    BY ClockAdvances, StepShape, ConstantsAssumption DEF IInv, TypeOK, Time
  <2>2. PICK ts \in 0 .. Horizon :
          /\ ts <= clock
          /\ \/ Kept(store[o], store'[o])
             \/ Shortened(store[o], store'[o], ts)
             \/ Relisted(o, store'[o], ts)
    BY <2>1 DEF Step
  <2>3. ts \in Time /\ ts \in Int /\ t >= ts /\ t >= clock
    BY <2>1, <2>2, ConstantsAssumption DEF Time
  <2>4. CASE Kept(store[o], store'[o])
    BY <2>3, <2>4 DEF Kept, ReservationAlone
  <2>5. CASE Shortened(store[o], store'[o], ts)
    <3>1. t < ts
      BY <2>1, <2>3, <2>5, TruncateCovers DEF Shortened, OfferRows
    <3> QED BY <3>1, <2>1, <2>3
  <2>6. CASE Relisted(o, store'[o], ts)
    BY <2>3, <2>6, RelistAlone DEF Relisted
  <2> QED BY <2>2, <2>4, <2>5, <2>6
<1> QED BY <1>1, <1>2, InductiveInvariant, PTL DEF Spec
=============================================================================
