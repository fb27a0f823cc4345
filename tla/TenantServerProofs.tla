------------------------- MODULE TenantServerProofs -------------------------
(***************************************************************************)
(* Proofs about TenantServer, for any number of organizations, tenants,    *)
(* requests and keys: what is done is done by right, with keys in use, and *)
(* with the tenant's objects alive.  Chains of at most two links, as in    *)
(* ReshareTokens.                                                          *)
(***************************************************************************)
EXTENDS TenantServer, SequenceTheorems, TLAPS

(* A share as a link of a chain.                                           *)
Granted(s, key, entitlements) ==
  Link(s.iss, key, s.sub, entitlements, s.scopes)

KeysUsed == [Orgs -> Nat]

-----------------------------------------------------------------------------
(* Tuples of one and of two elements.                                      *)

LEMMA Tuples ==
  ASSUME NEW S, NEW a \in S, NEW b \in S
  PROVE  /\ <<>> \in Seq(S) /\ <<a>> \in Seq(S) /\ <<a, b>> \in Seq(S)
         /\ Len(<<a>>) = 1 /\ <<a>>[1] = a
         /\ Len(<<a, b>>) = 2 /\ <<a, b>>[1] = a /\ <<a, b>>[2] = b
  OBVIOUS

LEMMA AppendSecond ==
  ASSUME NEW a, NEW b
  PROVE  Append(<<a>>, b) = <<a, b>>
<1> DEFINE S == {a, b}
<1>1. a \in S /\ b \in S
  OBVIOUS
<1> HIDE DEF S
<1>2. /\ <<a>> \in Seq(S) /\ <<a, b>> \in Seq(S)
      /\ Len(<<a>>) = 1 /\ <<a>>[1] = a
      /\ Len(<<a, b>>) = 2 /\ <<a, b>>[1] = a /\ <<a, b>>[2] = b
  BY <1>1, Tuples
<1>3. /\ Append(<<a>>, b) \in Seq(S)
      /\ Len(Append(<<a>>, b)) = 2
      /\ Append(<<a>>, b)[1] = a /\ Append(<<a>>, b)[2] = b
  BY <1>1, <1>2, AppendProperties
<1>4. \A i \in 1 .. 2 : Append(<<a>>, b)[i] = <<a, b>>[i]
  BY <1>2, <1>3
<1> QED BY <1>2, <1>3, <1>4, SeqEqual

LEMMA TailOfTuples ==
  ASSUME NEW a, NEW b
  PROVE  Tail(<<a>>) = <<>> /\ Tail(<<a, b>>) = <<b>>
<1> DEFINE S == {a, b}
<1>1. a \in S /\ b \in S
  OBVIOUS
<1> HIDE DEF S
<1>2. /\ <<>> \in Seq(S) /\ <<a>> \in Seq(S) /\ <<b>> \in Seq(S) /\ <<a, b>> \in Seq(S)
      /\ Len(<<a>>) = 1 /\ <<b>>[1] = b /\ Len(<<b>>) = 1
      /\ Len(<<a, b>>) = 2 /\ <<a, b>>[2] = b /\ Len(<<>>) = 0
  BY <1>1, Tuples
<1>3. Tail(<<a>>) \in Seq(S) /\ Len(Tail(<<a>>)) = 0
  BY <1>2, HeadTailProperties
<1>4. Tail(<<a>>) = <<>>
  BY <1>3, EmptySeq
<1>5. /\ Tail(<<a, b>>) \in Seq(S) /\ Len(Tail(<<a, b>>)) = 1
      /\ Tail(<<a, b>>)[1] = b
  BY <1>2, HeadTailProperties
<1>6. \A i \in 1 .. 1 : Tail(<<a, b>>)[i] = <<b>>[i]
  BY <1>2, <1>5
<1> QED BY <1>2, <1>4, <1>5, <1>6, SeqEqual

LEMMA ConcatTuples ==
  ASSUME NEW a, NEW b
  PROVE  <<a>> \o <<>> = <<a>> /\ <<a>> \o <<b>> = <<a, b>>
<1> DEFINE S == {a, b}
<1>1. a \in S /\ b \in S
  OBVIOUS
<1> HIDE DEF S
<1>2. <<a>> \in Seq(S)
  BY <1>1, Tuples
<1>3. <<a>> \o <<>> = <<a>>
  BY <1>2, ConcatEmptySeq
<1>4. Append(<<a>>, b) = <<a>> \o <<b>>
  BY <1>1, <1>2, AppendIsConcat
<1> QED BY <1>3, <1>4, AppendSecond

-----------------------------------------------------------------------------
(* Chains, as tuples of one or two links.                                  *)

LEMMA SignFirst ==
  ASSUME NEW iss, NEW key, NEW sub, NEW offer, NEW scopes
  PROVE  SignChain(<<>>, iss, key, sub, offer, scopes)
           = <<Link(iss, key, sub, offer, scopes)>>
  BY DEF SignChain

LEMMA SignSecond ==
  ASSUME NEW link, NEW iss, NEW key, NEW sub, NEW offer, NEW scopes
  PROVE  SignChain(<<link>>, iss, key, sub, offer, scopes)
           = <<link, Link(iss, key, sub, link, scopes)>>
<1> DEFINE next == Link(iss, key, sub, link, scopes)
<1>1. <<link>> # <<>> /\ Last(<<link>>) = link
  BY DEF Last
<1>2. SignChain(<<link>>, iss, key, sub, offer, scopes) = Append(<<link>>, next)
  BY <1>1 DEF SignChain, Signature
<1> HIDE DEF next
<1>3. Append(<<link>>, next) = <<link, next>>
  BY AppendSecond
<1> QED BY <1>2, <1>3 DEF next

(* The chains one share, or a share passed on, can make.                   *)
LEMMA ExtendedForm ==
  ASSUME NEW chain, NEW offer, NEW shares, NEW used, NEW c
  PROVE  c \in Extended(chain, offer, shares, used) <=>
           \E s \in shares : \E k \in 0 .. used[s.iss] :
             c = SignChain(chain, s.iss, k, s.sub, offer, s.scopes)
  BY DEF Extended

LEMMA ExtendedFirst ==
  ASSUME NEW offer, NEW shares, NEW used, NEW c
  PROVE  c \in Extended(<<>>, offer, shares, used) <=>
           \E s \in shares : \E k \in 0 .. used[s.iss] : c = <<Granted(s, k, offer)>>
<1>1. \A s, k : SignChain(<<>>, s.iss, k, s.sub, offer, s.scopes)
                  = <<Granted(s, k, offer)>>
  BY SignFirst DEF Granted
<1> DEFINE signed(s, k) == SignChain(<<>>, s.iss, k, s.sub, offer, s.scopes)
           granted(s, k) == <<Granted(s, k, offer)>>
<1>2. c \in Extended(<<>>, offer, shares, used) <=>
        \E s \in shares : \E k \in 0 .. used[s.iss] : c = signed(s, k)
  <2>1. \A chain : c \in Extended(chain, offer, shares, used) <=>
          \E s \in shares : \E k \in 0 .. used[s.iss] :
            c = SignChain(chain, s.iss, k, s.sub, offer, s.scopes)
    BY ExtendedForm
  <2> QED BY <2>1, Zenon
<1>3. \A s, k : signed(s, k) = granted(s, k)
  BY <1>1
<1> HIDE DEF signed, granted
<1>4. c \in Extended(<<>>, offer, shares, used) <=>
        \E s \in shares : \E k \in 0 .. used[s.iss] : c = granted(s, k)
  BY <1>2, <1>3
<1> QED BY <1>4 DEF granted

LEMMA ExtendedSecond ==
  ASSUME NEW link, NEW offer, NEW shares, NEW used, NEW c
  PROVE  c \in Extended(<<link>>, offer, shares, used) <=>
           \E s \in shares : \E k \in 0 .. used[s.iss] :
             c = <<link, Granted(s, k, link)>>
<1>1. \A s, k : SignChain(<<link>>, s.iss, k, s.sub, offer, s.scopes)
                  = <<link, Granted(s, k, link)>>
  BY SignSecond DEF Granted
<1> DEFINE signed(s, k) == SignChain(<<link>>, s.iss, k, s.sub, offer, s.scopes)
           granted(s, k) == <<link, Granted(s, k, link)>>
<1>2. c \in Extended(<<link>>, offer, shares, used) <=>
        \E s \in shares : \E k \in 0 .. used[s.iss] : c = signed(s, k)
  BY ExtendedForm
<1>3. \A s, k : signed(s, k) = granted(s, k)
  BY <1>1
<1> HIDE DEF signed, granted
<1>4. c \in Extended(<<link>>, offer, shares, used) <=>
        \E s \in shares : \E k \in 0 .. used[s.iss] : c = granted(s, k)
  BY <1>2, <1>3
<1> QED BY <1>4 DEF granted

(* What is the same about every chain of two steps.                        *)
TwoLinks(c, s, t, k, l, offer) ==
  c = <<Granted(s, k, offer), Granted(t, l, Granted(s, k, offer))>>

LEMMA LastOfGranted ==
  ASSUME NEW s, NEW k, NEW offer
  PROVE  /\ Last(<<Granted(s, k, offer)>>) = Granted(s, k, offer)
         /\ Granted(s, k, offer).iss = s.iss
         /\ Granted(s, k, offer).sub = s.sub
         /\ Granted(s, k, offer).key = k
         /\ Granted(s, k, offer).scopes = s.scopes
         /\ Granted(s, k, offer).entitlements = offer
  BY DEF Last, Granted, Link

LEMMA SignedForm ==
  ASSUME NEW offer, NEW shares, NEW used, NEW c
  PROVE  c \in SignedChains(offer, shares, used) <=>
           \/ \E s \in shares : \E k \in 0 .. used[s.iss] : c = <<Granted(s, k, offer)>>
           \/ \E s, t \in shares : \E k \in 0 .. used[s.iss], l \in 0 .. used[t.iss] :
                t.iss = s.sub /\ TwoLinks(c, s, t, k, l, offer)
<1> DEFINE first == Extended(<<>>, offer, shares, used)
<1>1. c \in SignedChains(offer, shares, used) <=>
        c \in first \/ \E d \in first : c \in Extended(d, offer, Held(d, shares), used)
  BY DEF SignedChains
<1>2. ASSUME NEW s \in shares, NEW k \in 0 .. used[s.iss]
      PROVE  c \in Extended(<<Granted(s, k, offer)>>, offer,
                            Held(<<Granted(s, k, offer)>>, shares), used) <=>
               \E t \in shares : \E l \in 0 .. used[t.iss] :
                 t.iss = s.sub /\ TwoLinks(c, s, t, k, l, offer)
  <2>1. Held(<<Granted(s, k, offer)>>, shares) = { t \in shares : t.iss = s.sub }
    BY LastOfGranted DEF Held
  <2> QED BY <2>1, ExtendedSecond DEF TwoLinks
<1>3. \A d : d \in first <=> \E s \in shares : \E k \in 0 .. used[s.iss] :
                               d = <<Granted(s, k, offer)>>
  BY ExtendedFirst
<1> HIDE DEF first
<1>4. (\E d \in first : c \in Extended(d, offer, Held(d, shares), used)) <=>
        \E s \in shares : \E k \in 0 .. used[s.iss] :
          \E t \in shares : \E l \in 0 .. used[t.iss] :
            t.iss = s.sub /\ TwoLinks(c, s, t, k, l, offer)
  BY <1>2, <1>3, Zenon
<1> QED BY <1>1, <1>3, <1>4, Zenon

LEMMA LicensedForm ==
  ASSUME NEW host, NEW offer, NEW shares, NEW used, NEW c
  PROVE  c \in LicensedChains(host, offer, shares, used) <=>
           \/ \E s \in shares : \E k \in 0 .. used[s.iss] :
                s.iss = host /\ c = <<Granted(s, k, offer)>>
           \/ \E s, t \in shares : \E k \in 0 .. used[s.iss], l \in 0 .. used[t.iss] :
                /\ s.iss = host /\ "RESHARE" \in s.scopes /\ t.iss = s.sub
                /\ TwoLinks(c, s, t, k, l, offer)
<1> DEFINE own == { s \in shares : s.iss = host }
           first == Extended(<<>>, offer, own, used)
           next(d) == IF "RESHARE" \in Last(d).scopes THEN Held(d, shares) ELSE {}
<1>1. c \in LicensedChains(host, offer, shares, used) <=>
        c \in first \/ \E d \in first : c \in Extended(d, offer, next(d), used)
  BY DEF LicensedChains
<1>2. ASSUME NEW s \in shares, NEW k \in 0 .. used[s.iss]
      PROVE  c \in Extended(<<Granted(s, k, offer)>>, offer,
                            next(<<Granted(s, k, offer)>>), used) <=>
               \E t \in shares : \E l \in 0 .. used[t.iss] :
                 /\ "RESHARE" \in s.scopes /\ t.iss = s.sub
                 /\ TwoLinks(c, s, t, k, l, offer)
  <2>1. next(<<Granted(s, k, offer)>>) =
          { t \in shares : "RESHARE" \in s.scopes /\ t.iss = s.sub }
    BY LastOfGranted DEF Held
  <2> HIDE DEF next
  <2> QED BY <2>1, ExtendedSecond DEF TwoLinks
<1> HIDE DEF next
<1>3. \A d : d \in first <=> \E s \in shares : \E k \in 0 .. used[s.iss] :
                               s.iss = host /\ d = <<Granted(s, k, offer)>>
  BY ExtendedFirst
<1> HIDE DEF first
<1>4. (\E d \in first : c \in Extended(d, offer, next(d), used)) <=>
        \E s \in shares : \E k \in 0 .. used[s.iss] :
          s.iss = host /\ \E t \in shares : \E l \in 0 .. used[t.iss] :
            "RESHARE" \in s.scopes /\ t.iss = s.sub /\ TwoLinks(c, s, t, k, l, offer)
  BY <1>2, <1>3, Zenon
<1> QED BY <1>1, <1>3, <1>4, Zenon

-----------------------------------------------------------------------------
(* What verifyDecodedChain takes and refuses.                              *)

LEMMA OneLink ==
  ASSUME NEW a, NEW host, NEW offer, NEW caller
  PROVE  VerifyDecodedChain(<<a>>, host, offer, caller) <=>
           /\ a.iss = host /\ a.entitlements = offer
           /\ a.sub = caller /\ "ACCEPT" \in a.scopes
<1>1. <<a>>[1] = a /\ Len(<<a>>) = 1 /\ Last(<<a>>) = a
  BY DEF Last
<1>2. Linked(<<a>>) /\ Reshareable(<<a>>)
  BY <1>1 DEF Linked, Reshareable
<1> QED BY <1>1, <1>2 DEF VerifyDecodedChain, StartsAt, EndsAt

LEMMA PairOfLinks ==
  ASSUME NEW a, NEW b, NEW host, NEW offer, NEW caller
  PROVE  VerifyDecodedChain(<<a, b>>, host, offer, caller) <=>
           /\ a.iss = host /\ a.entitlements = offer
           /\ b.sub = caller /\ "ACCEPT" \in b.scopes
           /\ b.iss = a.sub /\ b.entitlements = a
           /\ "RESHARE" \in a.scopes
<1> DEFINE c == <<a, b>>
<1>1. c[1] = a /\ c[2] = b /\ Len(c) = 2 /\ Last(c) = b
  BY DEF Last
<1> HIDE DEF c
<1>2. Linked(c) <=> b.iss = a.sub /\ b.entitlements = a
  BY <1>1 DEF Linked, Signature
<1>3. Reshareable(c) <=> "RESHARE" \in a.scopes
  BY <1>1 DEF Reshareable
<1>4. VerifyDecodedChain(c, host, offer, caller) <=>
        /\ a.iss = host /\ a.entitlements = offer
        /\ b.sub = caller /\ "ACCEPT" \in b.scopes
        /\ Linked(c) /\ Reshareable(c)
  BY <1>1 DEF VerifyDecodedChain, StartsAt, EndsAt
<1>5. VerifyDecodedChain(c, host, offer, caller) <=>
        /\ a.iss = host /\ a.entitlements = offer
        /\ b.sub = caller /\ "ACCEPT" \in b.scopes
        /\ b.iss = a.sub /\ b.entitlements = a
        /\ "RESHARE" \in a.scopes
  BY <1>2, <1>3, <1>4
<1> QED BY <1>5 DEF c

(* Every chain whose links were all allowed is taken.                      *)
LEMMA LicensedIsTaken ==
  ASSUME NEW host, NEW offer, NEW caller, NEW used, NEW c,
         c \in LicensedChains(host, offer, Shares, used), EndsAt(c, caller)
  PROVE  c # <<>> /\ VerifyDecodedChain(c, host, offer, caller)
<1>1. CASE \E s \in Shares : \E k \in 0 .. used[s.iss] :
             s.iss = host /\ c = <<Granted(s, k, offer)>>
  <2>1. PICK s \in Shares, k \in Nat : s.iss = host /\ c = <<Granted(s, k, offer)>>
    BY <1>1
  <2> DEFINE a == Granted(s, k, offer)
  <2>2. a.iss = host /\ a.entitlements = offer
    BY <2>1, LastOfGranted
  <2> HIDE DEF a
  <2>3. c = <<a>>
    BY <2>1 DEF a
  <2>4. a.sub = caller /\ "ACCEPT" \in a.scopes
    BY <2>3 DEF EndsAt, Last
  <2>5. <<a>> # <<>>
    OBVIOUS
  <2> QED BY <2>2, <2>3, <2>4, <2>5, OneLink
<1>2. CASE \E s, t \in Shares : \E k \in 0 .. used[s.iss], l \in 0 .. used[t.iss] :
             /\ s.iss = host /\ "RESHARE" \in s.scopes /\ t.iss = s.sub
             /\ TwoLinks(c, s, t, k, l, offer)
  <2>1. PICK s \in Shares, t \in Shares, k \in Nat, l \in Nat :
          /\ s.iss = host /\ "RESHARE" \in s.scopes /\ t.iss = s.sub
          /\ TwoLinks(c, s, t, k, l, offer)
    BY <1>2
  <2> DEFINE a == Granted(s, k, offer)
             b == Granted(t, l, a)
  <2>2. c = <<a, b>>
    BY <2>1 DEF TwoLinks
  <2>3. /\ a.iss = host /\ a.entitlements = offer /\ "RESHARE" \in a.scopes
        /\ b.iss = a.sub /\ b.entitlements = a
    <3>1. /\ a.iss = host /\ a.entitlements = offer
          /\ a.sub = s.sub /\ "RESHARE" \in a.scopes
      BY <2>1 DEF Granted, Link
    <3> HIDE DEF a
    <3>2. b.iss = t.iss /\ b.entitlements = a
      BY DEF Granted, Link
    <3> QED BY <2>1, <3>1, <3>2
  <2> HIDE DEF a, b
  <2>4. b.sub = caller /\ "ACCEPT" \in b.scopes
    BY <2>2 DEF EndsAt, Last
  <2>5. <<a, b>> # <<>>
    OBVIOUS
  <2> QED BY <2>2, <2>3, <2>4, <2>5, PairOfLinks
<1> QED BY <1>1, <1>2, LicensedForm

(* What can be presented: also the end of a chain, and the first link of   *)
(* one with the rest of another.                                           *)
LEMMA PresentedForm ==
  ASSUME NEW q, q.chained, NEW c \in Presented(q)
  PROVE  \/ c = <<>>
         \/ \E s \in Shares : \E k \in 0 .. keys[s.iss] : c = <<Granted(s, k, q.offer)>>
         \/ \E s, t \in Shares : \E k \in 0 .. keys[s.iss], l \in 0 .. keys[t.iss] :
              c = <<Granted(t, l, Granted(s, k, q.offer))>>
         \/ \E s, t, u \in Shares :
              \E k \in 0 .. keys[s.iss], l \in 0 .. keys[t.iss], m \in 0 .. keys[u.iss] :
                c = <<Granted(s, k, q.offer), Granted(u, m, Granted(t, l, q.offer))>>
<1> DEFINE signed == SignedChains(q.offer, Shares, keys)
           One(d, s, k) == d = <<Granted(s, k, q.offer)>>
           Two(d, s, t, k, l) == TwoLinks(d, s, t, k, l, q.offer)
<1>1. \/ c \in signed
      \/ \E d \in signed : c = Tail(d)
      \/ \E d, e \in signed : c = <<d[1]>> \o Tail(e)
  BY DEF Presented
<1>2. ASSUME NEW d \in signed
      PROVE  \/ \E s \in Shares : \E k \in 0 .. keys[s.iss] : One(d, s, k)
             \/ \E s, t \in Shares : \E k \in 0 .. keys[s.iss], l \in 0 .. keys[t.iss] :
                  Two(d, s, t, k, l)
  BY SignedForm
<1>3. ASSUME NEW d, NEW s, NEW k, One(d, s, k)
      PROVE  d[1] = Granted(s, k, q.offer) /\ Tail(d) = <<>>
  BY <1>3, TailOfTuples
<1>4. ASSUME NEW d, NEW s, NEW t, NEW k, NEW l, Two(d, s, t, k, l)
      PROVE  /\ d[1] = Granted(s, k, q.offer)
             /\ Tail(d) = <<Granted(t, l, Granted(s, k, q.offer))>>
  BY <1>4, TailOfTuples DEF TwoLinks
<1> HIDE DEF signed
<1>5. CASE c \in signed
  BY <1>2, <1>5 DEF TwoLinks
<1>6. CASE \E d \in signed : c = Tail(d)
  <2> HIDE DEF One, Two
  <2> QED BY <1>2, <1>3, <1>4, <1>6
<1>7. CASE \E d, e \in signed : c = <<d[1]>> \o Tail(e)
  <2>1. PICK d \in signed, e \in signed : c = <<d[1]>> \o Tail(e)
    BY <1>7
  <2>2. PICK s \in Shares : \E k \in 0 .. keys[s.iss] : d[1] = Granted(s, k, q.offer)
    <3> HIDE DEF One, Two
    <3> QED BY <1>2, <1>3, <1>4
  <2>3. PICK k \in 0 .. keys[s.iss] : d[1] = Granted(s, k, q.offer)
    BY <2>2
  <2>4. \/ Tail(e) = <<>>
        \/ \E t, u \in Shares : \E l \in 0 .. keys[t.iss], m \in 0 .. keys[u.iss] :
             Tail(e) = <<Granted(u, m, Granted(t, l, q.offer))>>
    <3> HIDE DEF One, Two
    <3> QED BY <1>2, <1>3, <1>4
  <2>5. CASE Tail(e) = <<>>
    <3>1. <<d[1]>> \o <<>> = <<d[1]>>
      BY ConcatTuples
    <3>2. c = <<Granted(s, k, q.offer)>>
      BY <2>1, <2>3, <2>5, <3>1
    <3> QED BY <3>2
  <2>6. CASE \E t, u \in Shares : \E l \in 0 .. keys[t.iss], m \in 0 .. keys[u.iss] :
               Tail(e) = <<Granted(u, m, Granted(t, l, q.offer))>>
    <3>1. PICK t \in Shares, u \in Shares :
            \E l \in 0 .. keys[t.iss], m \in 0 .. keys[u.iss] :
              Tail(e) = <<Granted(u, m, Granted(t, l, q.offer))>>
      BY <2>6
    <3>2. PICK l \in 0 .. keys[t.iss], m \in 0 .. keys[u.iss] :
            Tail(e) = <<Granted(u, m, Granted(t, l, q.offer))>>
      BY <3>1
    <3>3. c = <<Granted(s, k, q.offer), Granted(u, m, Granted(t, l, q.offer))>>
      BY <2>1, <2>3, <3>2, ConcatTuples
    <3> QED BY <3>3
  <2> QED BY <2>4, <2>5, <2>6
<1> QED BY <1>1, <1>5, <1>6, <1>7

(* Of these, verifyDecodedChain takes none but the allowed ones.           *)
LEMMA TakenIsLicensed ==
  ASSUME keys \in [Orgs -> 0 .. MaxRotations],
         NEW q, q.chained, q.offer \in Offers, NEW host, NEW caller,
         NEW c \in Presented(q), c # <<>>,
         VerifyDecodedChain(c, host, q.offer, caller)
  PROVE  c \in LicensedChains(host, q.offer, Shares, keys)
<1>1. CASE \E s \in Shares : \E k \in 0 .. keys[s.iss] : c = <<Granted(s, k, q.offer)>>
  <2>1. PICK s \in Shares : \E k \in 0 .. keys[s.iss] : c = <<Granted(s, k, q.offer)>>
    BY <1>1
  <2>2. PICK k \in 0 .. keys[s.iss] : c = <<Granted(s, k, q.offer)>>
    BY <2>1
  <2>3. s.iss = host
    BY <2>2, OneLink DEF Granted, Link
  <2> QED BY <2>2, <2>3, LicensedForm
<1>2. CASE \E s, t \in Shares : \E k \in 0 .. keys[s.iss], l \in 0 .. keys[t.iss] :
             c = <<Granted(t, l, Granted(s, k, q.offer))>>
  <2>1. PICK s \in Shares, t \in Shares :
          \E k \in 0 .. keys[s.iss], l \in 0 .. keys[t.iss] :
            c = <<Granted(t, l, Granted(s, k, q.offer))>>
    BY <1>2
  <2>2. PICK k \in 0 .. keys[s.iss], l \in 0 .. keys[t.iss] :
          c = <<Granted(t, l, Granted(s, k, q.offer))>>
    BY <2>1
  <2>3. Granted(s, k, q.offer) = q.offer
    BY <2>2, OneLink DEF Granted, Link
  <2>4. k \in 0 .. MaxRotations
    BY ConstantsAssumption
  <2> QED BY <2>3, <2>4, ConstantsAssumption DEF Granted, Signature
<1>3. CASE \E s, t, u \in Shares :
             \E k \in 0 .. keys[s.iss], l \in 0 .. keys[t.iss], m \in 0 .. keys[u.iss] :
               c = <<Granted(s, k, q.offer), Granted(u, m, Granted(t, l, q.offer))>>
  <2>1. PICK s \in Shares, t \in Shares, u \in Shares :
          \E k \in 0 .. keys[s.iss], l \in 0 .. keys[t.iss], m \in 0 .. keys[u.iss] :
            c = <<Granted(s, k, q.offer), Granted(u, m, Granted(t, l, q.offer))>>
    BY <1>3
  <2>2. PICK k \in 0 .. keys[s.iss], l \in 0 .. keys[t.iss], m \in 0 .. keys[u.iss] :
          c = <<Granted(s, k, q.offer), Granted(u, m, Granted(t, l, q.offer))>>
    BY <2>1
  <2> DEFINE a == Granted(s, k, q.offer)
             b == Granted(u, m, Granted(t, l, q.offer))
  <2>3. /\ a.iss = s.iss /\ a.sub = s.sub /\ a.scopes = s.scopes
        /\ b.iss = u.iss /\ b.entitlements = Granted(t, l, q.offer)
    BY DEF Granted, Link
  <2>4. c = <<a, b>>
    BY <2>2
  <2> HIDE DEF a, b
  <2>5. a.iss = host /\ b.iss = a.sub /\ b.entitlements = a /\ "RESHARE" \in a.scopes
    BY <2>4, PairOfLinks
  <2>6. s.iss = host /\ u.iss = s.sub /\ "RESHARE" \in s.scopes
    BY <2>3, <2>5
  <2>7. TwoLinks(c, s, u, k, m, q.offer)
    BY <2>2, <2>3, <2>5 DEF TwoLinks, a
  <2> QED BY <2>6, <2>7, LicensedForm
<1> QED BY <1>1, <1>2, <1>3, PresentedForm

(* What is licensed stays so when keys are replaced.                       *)
LEMMA LicensedGrows ==
  ASSUME NEW old \in [Orgs -> Nat], NEW new \in [Orgs -> Nat],
         \A o \in Orgs : old[o] <= new[o],
         NEW host, NEW offer, NEW c \in LicensedChains(host, offer, Shares, old)
  PROVE  c \in LicensedChains(host, offer, Shares, new)
<1>1. \A s \in Shares : \A k \in 0 .. old[s.iss] : k \in 0 .. new[s.iss]
  BY ConstantsAssumption
<1> QED BY <1>1, LicensedForm

(* The links of what is presented were signed with keys used by then.      *)
LEMMA PresentedKeys ==
  ASSUME keys \in [Orgs -> 0 .. MaxRotations],
         NEW q, q.chained, NEW c \in Presented(q), NEW i \in DOMAIN c
  PROVE  c[i].iss \in Orgs /\ c[i].key \in 0 .. keys[c[i].iss]
<1> DEFINE Fine(link) == link.iss \in Orgs /\ link.key \in 0 .. keys[link.iss]
<1>1. ASSUME NEW s \in Shares, NEW k \in 0 .. keys[s.iss], NEW x
      PROVE  Fine(Granted(s, k, x))
  BY ConstantsAssumption DEF Granted, Link
<1> HIDE DEF Fine
<1>2. c # <<>>
  OBVIOUS
<1>3. \/ \E a : c = <<a>> /\ Fine(a)
      \/ \E a, b : c = <<a, b>> /\ Fine(a) /\ Fine(b)
  BY <1>1, <1>2, PresentedForm
<1>4. Fine(c[i])
  BY <1>3
<1> QED BY <1>4 DEF Fine

-----------------------------------------------------------------------------
(* The inductive invariant, about one request x at keys ks.                *)

Codes == {0, 200, 400, 401, 403, 404, 500}

Bare == [stage : Stages \ {"received", "constructing", "starting", "token",
                           "links", "handling", "answered"},
         client : BOOLEAN, plugs : 0 .. Pluggables, hooked : BOOLEAN,
         checked : {{}}, status : Codes, done : {FALSE}]

Whole(r, chain) ==
  [stage : Stages, client : BOOLEAN, plugs : 0 .. Pluggables, hooked : BOOLEAN,
   checked : SUBSET DOMAIN chain, status : Codes, done : BOOLEAN,
   asks : Shapes[r], key : Nat, chain : {chain}, since : [Orgs -> Nat]]

Taken(x) ==
  /\ x.chain # <<>>
  /\ VerifyDecodedChain(x.chain, x.asks.tenant, x.asks.offer, x.asks.caller)

(* The keys of the token and of the links were used when the request came, *)
(* keys only grow, and what would be taken is licensed.                    *)
Dated(x, ks) ==
  /\ x.key <= x.since[x.asks.caller]
  /\ \A o \in Orgs : x.since[o] <= ks[o]
  /\ x.asks.chained =>
       /\ \A i \in DOMAIN x.chain : /\ x.chain[i].iss \in Orgs
                                    /\ x.chain[i].key \in 0 .. x.since[x.chain[i].iss]
       /\ Taken(x) =>
            x.chain \in LicensedChains(x.asks.tenant, x.asks.offer, Shares, ks)

(* What each stage stands for.                                             *)
Entered(x) ==
  /\ x.stage \in {"links", "handling"} \/ x.done => x.key >= x.since[x.asks.caller]
  /\ x.stage = "links" => x.asks.chained
  /\ \A i \in x.checked : x.chain[i].key >= x.since[x.chain[i].iss]

Entitled(x) ==
  x.stage = "handling" \/ x.done =>
    IF x.asks.chained THEN Taken(x) /\ x.checked = DOMAIN x.chain
    ELSE x.asks.caller \in Listed \/ x.asks.route = "history"

Furnished(x) ==
  x.stage \in {"starting", "token", "links", "handling"} => x.plugs = Pluggables

(* Who may not be refused, and that it was not.                            *)
Owed(x, ks) ==
  /\ x.asks.token /\ x.asks.chained /\ x.asks.fresh
  /\ x.asks.aud = x.asks.tenant
  /\ RequiredScope[x.asks.route] \in x.asks.scopes
  /\ x.key = ks[x.asks.caller]
  /\ \A i \in DOMAIN x.chain : x.chain[i].key = ks[x.chain[i].iss]
  /\ Taken(x)

Honoured(x, ks) ==
  x.stage = "answered" /\ x.status \in {401, 403} => ~Owed(x, ks)

Good(r, x, ks) ==
  /\ x \in Whole(r, x.chain)
  /\ Dated(x, ks) /\ Entered(x) /\ Entitled(x) /\ Furnished(x) /\ Honoured(x, ks)

Inv ==
  /\ server \in {"off", "starting", "listening", "ready", "closing"}
  /\ keys \in [Orgs -> 0 .. MaxRotations]
  /\ requests = [r \in Requests |-> requests[r]]
  /\ \A r \in Requests : requests[r] \in Bare \/ Good(r, requests[r], keys)

(* All that the invariant says, for every instance.                        *)
LEMMA InvImplies ==
  ASSUME Inv
  PROVE  /\ leaked \in 0 .. Connections => TypeOK
         /\ DoneByRight /\ KeysInUse /\ ChainHonoured /\ AliveWhileUsed
<1>1. leaked \in 0 .. Connections => TypeOK
  <2> SUFFICES ASSUME NEW r \in Requests
               PROVE  LET x == requests[r]
                      IN /\ x.stage \in Stages
                         /\ x.plugs \in 0 .. Pluggables
                         /\ x.client \in BOOLEAN /\ x.hooked \in BOOLEAN /\ x.done \in BOOLEAN
                         /\ x.status \in {0, 200, 400, 401, 403, 404, 500}
                         /\ InFlight(r) \/ x.stage = "answered" => x.asks \in Shapes[r]
    BY DEF TypeOK, Inv
  <2>1. CASE requests[r] \in Bare
    BY <2>1 DEF Bare, Codes, InFlight
  <2>2. CASE requests[r] \in Whole(r, requests[r].chain)
    BY <2>2 DEF Whole, Codes
  <2> QED BY <2>1, <2>2 DEF Inv, Good
<1>2. ASSUME NEW r \in Requests, requests[r].done
      PROVE  Good(r, requests[r], keys)
  BY <1>2 DEF Inv, Bare
<1>3. DoneByRight
  <2> SUFFICES ASSUME NEW r \in Requests, requests[r].done
               PROVE  IF requests[r].asks.chained THEN Licensed(r)
                      ELSE \/ requests[r].asks.caller \in Listed
                           \/ requests[r].asks.route = "history"
    BY DEF DoneByRight
  <2> DEFINE x == requests[r]
  <2>1. Dated(x, keys) /\ Entitled(x)
    BY <1>2 DEF Good
  <2>2. x.asks.chained => Taken(x)
    BY <2>1 DEF Entitled
  <2>3. Taken(x) => EndsAt(x.chain, x.asks.caller)
    BY DEF Taken, VerifyDecodedChain
  <2> QED BY <2>1, <2>2, <2>3 DEF Dated, Entitled, Licensed
<1>4. KeysInUse
  <2> SUFFICES ASSUME NEW r \in Requests, requests[r].done
               PROVE  LET x == requests[r]
                      IN /\ x.key >= x.since[x.asks.caller]
                         /\ x.asks.chained =>
                              \A i \in DOMAIN x.chain :
                                x.chain[i].key >= x.since[x.chain[i].iss]
    BY DEF KeysInUse
  <2> QED BY <1>2 DEF Good, Entered, Entitled
<1>5. ChainHonoured
  <2> SUFFICES ASSUME NEW r \in Requests,
                      requests[r].stage = "answered", requests[r].status \in {401, 403},
                      Licensed(r)
               PROVE  LET x == requests[r]
                      IN ~ /\ x.asks.token /\ x.asks.chained /\ x.asks.fresh
                           /\ x.asks.aud = x.asks.tenant
                           /\ RequiredScope[x.asks.route] \in x.asks.scopes
                           /\ x.key = keys[x.asks.caller]
                           /\ \A i \in DOMAIN x.chain :
                                x.chain[i].key = keys[x.chain[i].iss]
    BY DEF ChainHonoured
  <2> DEFINE x == requests[r]
  <2>1. Honoured(x, keys)
    BY DEF Inv, Bare, Good
  <2>2. Taken(x)
    BY LicensedIsTaken DEF Licensed, Taken
  <2> QED BY <2>1, <2>2 DEF Honoured, Owed
<1>6. AliveWhileUsed
  BY DEF Inv, Bare, Good, Furnished, AliveWhileUsed
<1> QED BY <1>1, <1>3, <1>4, <1>5, <1>6

-----------------------------------------------------------------------------
(* Requests stay good when keys are replaced.                              *)
LEMMA GoodGrows ==
  ASSUME NEW r \in Requests, NEW x, NEW old \in [Orgs -> Nat], NEW new \in [Orgs -> Nat],
         \A o \in Orgs : old[o] <= new[o], Good(r, x, old)
  PROVE  Good(r, x, new)
<1>1. /\ x.since \in [Orgs -> Nat] /\ x.key \in Nat /\ x.asks.caller \in Orgs
  <2>1. x.asks \in Shape
    BY ConstantsAssumption DEF Good, Whole
  <2> QED BY <2>1 DEF Good, Whole, Shape
<1>2. Dated(x, old)
  BY DEF Good
<1>3. Dated(x, new)
  <2>1. \A o \in Orgs : x.since[o] <= new[o]
    BY <1>1, <1>2 DEF Dated
  <2>2. x.asks.chained /\ Taken(x) =>
          x.chain \in LicensedChains(x.asks.tenant, x.asks.offer, Shares, new)
    BY <1>2, LicensedGrows DEF Dated
  <2> QED BY <1>2, <2>1, <2>2 DEF Dated
<1>4. Owed(x, new) => Owed(x, old)
  <2>1. x.key = new[x.asks.caller] => x.key = old[x.asks.caller]
    BY <1>1, <1>2 DEF Dated
  <2>2. ASSUME x.asks.chained, NEW i \in DOMAIN x.chain,
               x.chain[i].key = new[x.chain[i].iss]
        PROVE  x.chain[i].key = old[x.chain[i].iss]
    <3>1. x.chain[i].iss \in Orgs /\ x.chain[i].key \in 0 .. x.since[x.chain[i].iss]
      BY <1>2, <2>2 DEF Dated
    <3> QED BY <1>1, <1>2, <2>2, <3>1 DEF Dated
  <2> QED BY <2>1, <2>2 DEF Owed
<1> QED BY <1>3, <1>4 DEF Good, Honoured

-----------------------------------------------------------------------------
(* How a request goes on.                                                  *)

(* What is asked, and with which keys and chain, never changes.            *)
Same(x, y) ==
  y.asks = x.asks /\ y.key = x.key /\ y.chain = x.chain /\ y.since = x.since

LEMMA SameFacts ==
  ASSUME NEW x, NEW y, NEW ks, Same(x, y)
  PROVE  /\ Dated(x, ks) <=> Dated(y, ks)
         /\ Taken(x) <=> Taken(y)
         /\ Owed(x, ks) <=> Owed(y, ks)
<1>1. Taken(x) <=> Taken(y)
  BY DEF Same, Taken
<1> QED BY <1>1 DEF Same, Dated, Owed

LEMMA Moved ==
  ASSUME NEW r, NEW x, NEW ks, Good(r, x, ks),
         NEW stage \in Stages \ {"answered"},
         stage \in {"links", "handling"} => x.key >= x.since[x.asks.caller],
         stage = "links" => x.asks.chained,
         stage = "handling" => IF x.asks.chained THEN Taken(x) /\ x.checked = DOMAIN x.chain
                               ELSE x.asks.caller \in Listed \/ x.asks.route = "history",
         stage \in {"starting", "token", "links", "handling"} => x.plugs = Pluggables
  PROVE  Good(r, [x EXCEPT !.stage = stage], ks)
<1> DEFINE y == [x EXCEPT !.stage = stage]
<1>1. x \in Whole(r, x.chain)
  BY DEF Good
<1>2. y \in Whole(r, x.chain)
  BY <1>1 DEF Whole
<1>3. /\ Same(x, y) /\ y.stage = stage
      /\ y.plugs = x.plugs /\ y.checked = x.checked /\ y.done = x.done
  BY <1>1 DEF Whole, Same
<1> HIDE DEF y
<1>4. y \in Whole(r, y.chain)
  BY <1>2, <1>3 DEF Same
<1>5. Dated(y, ks)
  BY <1>3, SameFacts DEF Good
<1>6. Entered(y)
  BY <1>3 DEF Good, Entered, Same
<1>7. Entitled(y)
  BY <1>3, SameFacts DEF Good, Entitled, Same
<1>8. Furnished(y) /\ Honoured(y, ks)
  BY <1>3 DEF Furnished, Honoured
<1>9. Good(r, y, ks)
  BY <1>4, <1>5, <1>6, <1>7, <1>8 DEF Good
<1> QED BY <1>9 DEF y

LEMMA Replied ==
  ASSUME NEW r, NEW x, NEW ks, Good(r, x, ks), NEW status \in Codes,
         status \in {401, 403} => ~Owed(x, ks)
  PROVE  Good(r, [x EXCEPT !.stage = "answered", !.status = status], ks)
<1> DEFINE y == [x EXCEPT !.stage = "answered", !.status = status]
<1>1. x \in Whole(r, x.chain)
  BY DEF Good
<1>2. y \in Whole(r, x.chain)
  BY <1>1 DEF Whole, Stages
<1>3. /\ Same(x, y) /\ y.stage = "answered" /\ y.status = status
      /\ y.checked = x.checked /\ y.done = x.done
  BY <1>1 DEF Whole, Same
<1> HIDE DEF y
<1>4. y \in Whole(r, y.chain)
  BY <1>2, <1>3 DEF Same
<1>5. Dated(y, ks)
  BY <1>3, SameFacts DEF Good
<1>6. Entered(y)
  BY <1>3 DEF Good, Entered, Same
<1>7. Entitled(y)
  BY <1>3, SameFacts DEF Good, Entitled, Same
<1>8. Furnished(y) /\ Honoured(y, ks)
  BY <1>3, SameFacts DEF Furnished, Honoured
<1>9. Good(r, y, ks)
  BY <1>4, <1>5, <1>6, <1>7, <1>8 DEF Good
<1> QED BY <1>9 DEF y

(* An answer that refuses nobody who may not be refused.                   *)
LEMMA ReplyGood ==
  ASSUME NEW r, Good(r, requests[r], keys), NEW status \in Codes \ {401, 403}
  PROVE  Good(r, Reply(r, status), keys)
  BY Replied DEF Reply

LEMMA ReplyRefuses ==
  ASSUME NEW r, Good(r, requests[r], keys), ~Owed(requests[r], keys),
         NEW status \in {401, 403}
  PROVE  Good(r, Reply(r, status), keys)
<1> DEFINE x == requests[r]
<1>1. status \in Codes /\ (status \in {401, 403} => ~Owed(x, keys))
  BY DEF Codes
<1>2. Good(r, x, keys)
  OBVIOUS
<1> HIDE DEF x
<1>3. Good(r, [x EXCEPT !.stage = "answered", !.status = status], keys)
  BY <1>1, <1>2, Replied, Zenon
<1> QED BY <1>3 DEF x, Reply

(* One request changes, the others and the keys stay.                      *)
LEMMA OneTurns ==
  ASSUME Inv, NEW r \in Requests, NEW next, Turn(r, next),
         next \in Bare \/ Good(r, next, keys)
  PROVE  Inv'
<1>1. /\ requests' = [requests EXCEPT ![r] = next]
      /\ server' = server /\ keys' = keys
  BY DEF Turn
<1>2. requests' = [s \in Requests |-> requests'[s]]
  BY <1>1 DEF Inv
<1>3. ASSUME NEW s \in Requests
      PROVE  requests'[s] \in Bare \/ Good(s, requests'[s], keys)
  <2>1. CASE s = r
    BY <1>1, <2>1 DEF Inv
  <2>2. CASE s # r
    <3>1. requests'[s] = requests[s]
      BY <1>1, <2>2 DEF Inv
    <3> QED BY <3>1 DEF Inv
  <2> QED BY <2>1, <2>2
<1> QED BY <1>1, <1>2, <1>3 DEF Inv

LEMMA OneChanges ==
  ASSUME Inv, NEW r \in Requests, NEW next, Become(r, next),
         next \in Bare \/ Good(r, next, keys)
  PROVE  Inv'
  BY OneTurns DEF Become

(* A request at a stage between receipt and answer is whole.               *)
LEMMA WholeAt ==
  ASSUME Inv, NEW r \in Requests,
         requests[r].stage \in {"received", "constructing", "starting", "token",
                               "links", "handling", "answered"}
  PROVE  Good(r, requests[r], keys)
  BY DEF Inv, Bare

-----------------------------------------------------------------------------
(* The steps of the process and of the keys.                               *)

LEMMA IdleBare ==
  /\ Idle \in Bare /\ [Idle EXCEPT !.stage = "closed"] \in Bare
  /\ [Idle EXCEPT !.stage = "lost"] \in Bare
<1>1. 0 \in 0 .. Pluggables
  BY ConstantsAssumption
<1>2. Idle \in Bare
  BY <1>1 DEF Idle, Bare, Stages, Codes
<1>3. "closed" \in Stages /\ "lost" \in Stages
  BY DEF Stages
<1> HIDE DEF Idle
<1> QED BY <1>2, <1>3 DEF Bare

LEMMA InvInit == Init => Inv
<1> SUFFICES ASSUME Init PROVE Inv
  OBVIOUS
<1>1. keys \in [Orgs -> 0 .. MaxRotations]
  BY ConstantsAssumption DEF Init
<1>2. requests = [r \in Requests |-> requests[r]]
  <2> HIDE DEF Idle
  <2> QED BY DEF Init
<1>3. \A r \in Requests : requests[r] \in Bare
  BY IdleBare DEF Init
<1> QED BY <1>1, <1>2, <1>3 DEF Init, Inv

LEMMA ProcessStep ==
  ASSUME Inv, Start \/ Listen \/ Initialize \/ Die \/ Stop \/ Stopped
  PROVE  Inv'
<1>1. keys' = keys /\ server' \in {"off", "starting", "listening", "ready", "closing"}
  BY DEF Start, Listen, Initialize, Die, Stop, Stopped
<1>2. ASSUME NEW r \in Requests PROVE Lost(r) \in Bare \/ Lost(r) = requests[r]
  BY IdleBare DEF Lost
<1>3. \/ requests' = requests
      \/ requests' = [r \in Requests |-> Idle]
      \/ requests' = [r \in Requests |-> Lost(r)]
  BY DEF Start, Listen, Initialize, Die, Stop, Stopped
<1>4. requests' = [r \in Requests |-> requests'[r]]
  <2>1. CASE requests' = requests
    BY <2>1 DEF Inv
  <2>2. CASE requests' = [r \in Requests |-> Idle]
    BY <2>2
  <2>3. CASE requests' = [r \in Requests |-> Lost(r)]
    <3> HIDE DEF Lost
    <3> QED BY <2>3
  <2> QED BY <1>3, <2>1, <2>2, <2>3
<1>5. ASSUME NEW r \in Requests
      PROVE  requests'[r] \in Bare \/ Good(r, requests'[r], keys)
  BY <1>2, <1>3, IdleBare DEF Inv
<1> QED BY <1>1, <1>4, <1>5 DEF Inv

LEMMA KeyStep ==
  ASSUME Inv, NEW org \in Rotating, Rotate(org)
  PROVE  Inv'
<1>1. org \in Orgs
  BY ConstantsAssumption
<1>2. /\ keys' = [keys EXCEPT ![org] = @ + 1] /\ keys[org] < MaxRotations
      /\ server' = server /\ requests' = requests
  BY DEF Rotate
<1>3. keys' \in [Orgs -> 0 .. MaxRotations]
  BY <1>1, <1>2, ConstantsAssumption DEF Inv
<1>4. /\ keys \in [Orgs -> Nat] /\ keys' \in [Orgs -> Nat]
      /\ \A o \in Orgs : keys[o] <= keys'[o]
  BY <1>1, <1>2, <1>3, ConstantsAssumption DEF Inv
<1>5. ASSUME NEW r \in Requests
      PROVE  requests[r] \in Bare \/ Good(r, requests[r], keys')
  BY <1>4, GoodGrows DEF Inv
<1> QED BY <1>2, <1>3, <1>5 DEF Inv

-----------------------------------------------------------------------------
(* The steps of a request.                                                 *)

LEMMA ReceiveStep ==
  ASSUME Inv, NEW r \in Requests, NEW q \in Shapes[r], Receive(r, q)
  PROVE  Inv'
<1>1. PICK key \in 0 .. keys[q.caller], chain \in Presented(q) :
        Become(r, Incoming(q, key, chain))
  BY DEF Receive
<1> DEFINE x == Incoming(q, key, chain)
<1>2. q \in Shape /\ q.caller \in Orgs /\ q.offer \in Offers
  <2>1. q \in Shape
    BY ConstantsAssumption
  <2> QED BY <2>1 DEF Shape
<1>3. keys \in [Orgs -> 0 .. MaxRotations] /\ keys \in [Orgs -> Nat]
  BY ConstantsAssumption DEF Inv
<1>4. x \in Whole(r, chain)
  <2>1. key \in Nat /\ 0 \in 0 .. Pluggables
    BY <1>2, <1>3, ConstantsAssumption
  <2> QED BY <1>3, <2>1 DEF Incoming, Whole, Stages, Codes
<1>5. /\ x.asks = q /\ x.key = key /\ x.chain = chain /\ x.since = keys
      /\ x.stage \in {"received", "answered"} /\ x.status \in {0, 404}
      /\ x.checked = {} /\ x.done = FALSE
  BY DEF Incoming
<1> HIDE DEF x
<1>6. Dated(x, keys)
  <2>1. x.asks.chained => \A i \in DOMAIN x.chain :
          x.chain[i].iss \in Orgs /\ x.chain[i].key \in 0 .. x.since[x.chain[i].iss]
    BY <1>3, <1>5, PresentedKeys
  <2>2. x.asks.chained /\ Taken(x) =>
          x.chain \in LicensedChains(x.asks.tenant, x.asks.offer, Shares, keys)
    BY <1>2, <1>3, <1>5, TakenIsLicensed DEF Taken
  <2> QED BY <1>2, <1>3, <1>5, <2>1, <2>2 DEF Dated
<1>7. Entered(x) /\ Entitled(x) /\ Furnished(x) /\ Honoured(x, keys)
  BY <1>5 DEF Entered, Entitled, Furnished, Honoured
<1>8. Good(r, x, keys)
  BY <1>4, <1>5, <1>6, <1>7 DEF Good
<1> QED BY <1>1, <1>8, OneChanges DEF x

LEMMA DisconnectStep ==
  ASSUME Inv, NEW r \in Requests, Disconnect(r)
  PROVE  Inv'
<1> DEFINE x == requests[r]
           y == [x EXCEPT !.client = FALSE]
<1>1. Good(r, x, keys) /\ Become(r, y)
  BY WholeAt DEF Disconnect, InFlight
<1> HIDE DEF x
<1>2. x \in Whole(r, x.chain)
  BY <1>1 DEF Good
<1>3. y \in Whole(r, x.chain)
  BY <1>2 DEF Whole
<1>4. /\ Same(x, y) /\ y.stage = x.stage /\ y.status = x.status
      /\ y.plugs = x.plugs /\ y.checked = x.checked /\ y.done = x.done
  BY <1>2 DEF Whole, Same
<1> HIDE DEF y
<1>5. y \in Whole(r, y.chain) /\ Dated(y, keys)
  BY <1>1, <1>3, <1>4, SameFacts DEF Good, Same
<1>6. Entered(y) /\ Entitled(y)
  BY <1>1, <1>4, SameFacts DEF Good, Entered, Entitled, Same
<1>7. Furnished(y) /\ Honoured(y, keys)
  BY <1>1, <1>4, SameFacts DEF Good, Furnished, Honoured
<1>8. Good(r, y, keys)
  BY <1>5, <1>6, <1>7 DEF Good
<1> QED BY <1>1, <1>8, OneChanges

LEMMA DispatchStep ==
  ASSUME Inv, NEW r \in Requests, Dispatch(r)
  PROVE  Inv'
<1>1. Good(r, requests[r], keys)
  BY WholeAt DEF Dispatch
<1>2. Good(r, Sequel(r, "constructing"), keys)
  BY <1>1, Moved DEF Sequel, Stages
<1>3. Good(r, Reply(r, 404), keys)
  BY <1>1, ReplyGood DEF Codes
<1>4. Become(r, Sequel(r, "constructing")) \/ Become(r, Reply(r, 404))
  BY DEF Dispatch
<1> QED BY <1>2, <1>3, <1>4, OneChanges

LEMMA ConstructStep ==
  ASSUME Inv, NEW r \in Requests, Construct(r)
  PROVE  Inv'
<1> DEFINE x == requests[r]
           y == [x EXCEPT !.plugs = x.plugs + 1]
<1>1. /\ x.stage = "constructing" /\ x.plugs < Pluggables
      /\ Become(r, y) \/ Become(r, Reply(r, 404))
  BY DEF Construct
<1>2. Good(r, x, keys)
  BY <1>1, WholeAt
<1>3. Good(r, Reply(r, 404), keys)
  BY <1>2, ReplyGood DEF Codes
<1>4. Good(r, y, keys)
  <2> HIDE DEF x
  <2>1. x \in Whole(r, x.chain) /\ x.plugs + 1 \in 0 .. Pluggables
    BY <1>1, <1>2, ConstantsAssumption DEF Good, Whole
  <2>2. y \in Whole(r, x.chain)
    BY <2>1 DEF Whole
  <2>3. /\ Same(x, y) /\ y.stage = x.stage
        /\ y.checked = x.checked /\ y.done = x.done
    BY <2>1 DEF Whole, Same
  <2> HIDE DEF y
  <2>4. y \in Whole(r, y.chain) /\ Dated(y, keys)
    BY <1>2, <2>2, <2>3, SameFacts DEF Good, Same
  <2>5. Entered(y) /\ Entitled(y)
    BY <1>2, <2>3, SameFacts DEF Good, Entered, Entitled, Same
  <2>6. Furnished(y) /\ Honoured(y, keys)
    BY <1>1, <2>3 DEF Furnished, Honoured
  <2> QED BY <2>4, <2>5, <2>6 DEF Good
<1> HIDE DEF y
<1> QED BY <1>1, <1>3, <1>4, OneChanges

LEMMA BuildStep ==
  ASSUME Inv, NEW r \in Requests, Build(r)
  PROVE  Inv'
<1>1. Good(r, requests[r], keys)
  BY WholeAt DEF Build
<1>2. Good(r, Sequel(r, "starting"), keys)
  BY <1>1, Moved DEF Sequel, Stages, Build
<1>3. Good(r, Reply(r, 500), keys)
  BY <1>1, ReplyGood DEF Codes
<1>4. Become(r, Sequel(r, "starting")) \/ Become(r, Reply(r, 500))
  BY DEF Build
<1> QED BY <1>2, <1>3, <1>4, OneChanges

LEMMA StartNodeStep ==
  ASSUME Inv, NEW r \in Requests, StartNode(r)
  PROVE  Inv'
<1> DEFINE x == requests[r]
           y == [x EXCEPT !.hooked = TRUE]
<1>1. Good(r, x, keys) /\ x.stage = "starting"
  BY WholeAt DEF StartNode
<1>2. \/ Become(r, Reply(r, 500))
      \/ \E status \in {200, 404, 500} :
           Become(r, [y EXCEPT !.stage = "answered", !.status = status])
      \/ /\ ~x.asks.token
         /\ Become(r, [y EXCEPT !.stage = "answered", !.status = 401])
      \/ Become(r, [y EXCEPT !.stage = "token"])
  BY DEF StartNode, Routed
<1>3. Good(r, Reply(r, 500), keys)
  BY <1>1, ReplyGood DEF Codes
<1>4. Good(r, y, keys) /\ y.plugs = Pluggables /\ y.asks = x.asks
  <2> HIDE DEF x
  <2>1. x \in Whole(r, x.chain)
    BY <1>1 DEF Good
  <2>2. y \in Whole(r, x.chain)
    BY <2>1 DEF Whole
  <2>3. /\ Same(x, y) /\ y.stage = x.stage /\ y.plugs = x.plugs
        /\ y.checked = x.checked /\ y.done = x.done
    BY <2>1 DEF Whole, Same
  <2> HIDE DEF y
  <2>4. y \in Whole(r, y.chain) /\ Dated(y, keys)
    BY <1>1, <2>2, <2>3, SameFacts DEF Good, Same
  <2>5. Entered(y) /\ Entitled(y)
    BY <1>1, <2>3, SameFacts DEF Good, Entered, Entitled, Same
  <2>6. y.plugs = Pluggables /\ Furnished(y) /\ Honoured(y, keys)
    BY <1>1, <2>3 DEF Good, Furnished, Honoured
  <2> QED BY <2>3, <2>4, <2>5, <2>6 DEF Good, Same
<1> HIDE DEF x, y
<1>5. ASSUME NEW status \in {200, 404, 500}
      PROVE  Good(r, [y EXCEPT !.stage = "answered", !.status = status], keys)
  <2>1. status \in Codes /\ (status \in {401, 403} => ~Owed(y, keys))
    BY DEF Codes
  <2>2. Good(r, y, keys)
    BY <1>4
  <2> QED BY <2>1, <2>2, Replied, Zenon
<1>6. ASSUME ~x.asks.token
      PROVE  Good(r, [y EXCEPT !.stage = "answered", !.status = 401], keys)
  <2>1. ~Owed(y, keys) /\ 401 \in Codes
    BY <1>4, <1>6 DEF Owed, Codes
  <2> QED BY <1>4, <2>1, Replied
<1>7. Good(r, [y EXCEPT !.stage = "token"], keys)
  BY <1>4, Moved DEF Stages
<1> QED BY <1>2, <1>3, <1>5, <1>6, <1>7, OneChanges

LEMMA HandleStep ==
  ASSUME Inv, NEW r \in Requests, Handle(r)
  PROVE  Inv'
<1> DEFINE done(status) == [Reply(r, status) EXCEPT !.done = TRUE]
<1>1. /\ requests[r].stage = "handling"
      /\ \/ \E status \in {400, 500} : Turn(r, Reply(r, status))
         \/ \E status \in {200, 500} : Turn(r, done(status))
  <2>1. ASSUME NEW status, Throw(r, status) PROVE Turn(r, Reply(r, status))
    BY <2>1 DEF Throw
  <2>2. ASSUME NEW next, Become(r, next) PROVE Turn(r, next)
    BY <2>2 DEF Become
  <2> HIDE DEF done
  <2>3. /\ requests[r].stage = "handling"
        /\ \/ Become(r, done(IF Malformed(r) THEN 500 ELSE 200))
           \/ Become(r, Reply(r, 500))
           \/ \E status \in {400, 500} : Throw(r, status)
    BY DEF Handle, done
  <2> QED BY <2>1, <2>2, <2>3
<1>2. Good(r, requests[r], keys)
  BY <1>1, WholeAt
<1>3. ASSUME NEW status \in {400, 500}
      PROVE  Good(r, Reply(r, status), keys)
  BY <1>2, ReplyGood DEF Codes
<1>4. ASSUME NEW status \in {200, 500}
      PROVE  Good(r, done(status), keys)
  <2> DEFINE x == requests[r]
             y == [[x EXCEPT !.stage = "answered", !.status = status] EXCEPT !.done = TRUE]
             z == [x EXCEPT !.stage = "answered", !.status = status]
  <2> HIDE DEF x
  <2>1. x \in Whole(r, x.chain)
    BY <1>2 DEF Good, x
  <2>2. y \in Whole(r, x.chain)
    <3>1. z \in Whole(r, x.chain)
      <4>1. "answered" \in Stages /\ status \in Codes
        BY DEF Stages, Codes
      <4> QED BY <2>1, <4>1 DEF Whole
    <3> HIDE DEF z
    <3>2. [z EXCEPT !.done = TRUE] \in Whole(r, x.chain)
      BY <3>1 DEF Whole
    <3> QED BY <3>2 DEF z
  <2>3. /\ Same(x, y) /\ y.stage = "answered" /\ y.status = status
        /\ y.checked = x.checked
    BY <2>1 DEF Whole, Same
  <2>4. done(status) = y
    BY DEF Reply, x
  <2> HIDE DEF y, done
  <2>5. y \in Whole(r, y.chain) /\ Dated(y, keys)
    BY <1>2, <2>2, <2>3, SameFacts DEF Good, Same, x
  <2>6. Entered(y) /\ Entitled(y)
    BY <1>1, <1>2, <2>3, SameFacts DEF Good, Entered, Entitled, Same, x
  <2>7. Furnished(y) /\ Honoured(y, keys)
    BY <2>3 DEF Furnished, Honoured
  <2> QED BY <2>4, <2>5, <2>6, <2>7 DEF Good
<1> HIDE DEF done
<1> QED BY <1>1, <1>3, <1>4, OneTurns

LEMMA TokenStep ==
  ASSUME Inv, NEW r \in Requests, VerifyToken(r)
  PROVE  Inv'
<1> DEFINE x == requests[r]
           q == x.asks
           entered == Verified(q.caller, x.key) /\ q.fresh
<1>1. x.stage = "token" /\ Become(r, IF entered THEN Checked(r) ELSE Reply(r, 401))
  BY DEF VerifyToken
<1>2. Good(r, x, keys) /\ x.plugs = Pluggables
  BY <1>1, WholeAt DEF Good, Furnished
<1>3. ASSUME ~Owed(x, keys), NEW status \in {401, 403}
      PROVE  Good(r, Reply(r, status), keys)
  BY <1>2, <1>3, ReplyRefuses
<1>4. CASE ~entered
  <2>1. ~Owed(x, keys)
    BY <1>4 DEF Verified, KeySet, Owed
  <2>2. Become(r, Reply(r, 401))
    BY <1>1, <1>4
  <2> QED BY <1>3, <2>1, <2>2, OneChanges
<1>5. CASE entered
  <2>1. x.key >= x.since[q.caller]
    <3>1. x.since \in [Orgs -> Nat] /\ x.key \in Nat /\ q.caller \in Orgs
      <4>1. q \in Shape
        BY <1>2, ConstantsAssumption DEF Good, Whole
      <4> QED BY <1>2, <4>1 DEF Good, Whole, Shape
    <3>2. x.key = keys[q.caller] /\ keys \in [Orgs -> 0 .. MaxRotations]
      BY <1>5 DEF Verified, KeySet, Inv
    <3>3. x.since[q.caller] <= keys[q.caller]
      BY <1>2, <3>1 DEF Good, Dated
    <3> QED BY <3>1, <3>2, <3>3, ConstantsAssumption
  <2>2. Become(r, Checked(r))
    BY <1>1, <1>5
  <2>3. \/ q.aud # q.tenant /\ Become(r, Reply(r, 401))
        \/ RequiredScope[q.route] \notin q.scopes /\ Become(r, Reply(r, 403))
        \/ Become(r, Reply(r, 400))
        \/ ~MayEnter(q) /\ Become(r, Reply(r, 403))
        \/ MayEnter(q) /\ q.chained /\ Become(r, Sequel(r, "links"))
        \/ MayEnter(q) /\ ~q.chained /\ Become(r, Sequel(r, "handling"))
    BY <2>2 DEF Checked
  <2>4. CASE \/ q.aud # q.tenant /\ Become(r, Reply(r, 401))
             \/ RequiredScope[q.route] \notin q.scopes /\ Become(r, Reply(r, 403))
             \/ ~MayEnter(q) /\ Become(r, Reply(r, 403))
    <3>1. ~Owed(x, keys)
      BY <2>4 DEF Owed, MayEnter, ExemptFromList
    <3> QED BY <1>3, <2>4, <3>1, OneChanges
  <2>5. CASE Become(r, Reply(r, 400))
    <3>1. Good(r, Reply(r, 400), keys)
      BY <1>2, ReplyGood DEF Codes
    <3> QED BY <2>5, <3>1, OneChanges
  <2>6. CASE MayEnter(q) /\ q.chained /\ Become(r, Sequel(r, "links"))
    <3>1. Good(r, Sequel(r, "links"), keys)
      BY <1>2, <2>1, <2>6, Moved DEF Sequel, Stages
    <3> QED BY <2>6, <3>1, OneChanges
  <2>7. CASE MayEnter(q) /\ ~q.chained /\ Become(r, Sequel(r, "handling"))
    <3>1. q.caller \in Listed \/ q.route = "history"
      BY <2>7 DEF MayEnter, ExemptFromList
    <3>2. Good(r, Sequel(r, "handling"), keys)
      BY <1>2, <2>1, <2>7, <3>1, Moved DEF Sequel, Stages
    <3> QED BY <2>7, <3>2, OneChanges
  <2> QED BY <2>3, <2>4, <2>5, <2>6, <2>7
<1> QED BY <1>4, <1>5

LEMMA LinkStep ==
  ASSUME Inv, NEW r \in Requests, NEW i \in Unchecked(r), VerifyLink(r, i)
  PROVE  Inv'
<1> DEFINE x == requests[r]
           y == [x EXCEPT !.checked = x.checked \cup {i}]
<1>1. x.stage = "links" /\ i \in DOMAIN x.chain
  BY DEF Unchecked
<1>2. Good(r, x, keys) /\ x.asks.chained
  BY <1>1, WholeAt DEF Good, Entered
<1>3. \/ ~Verified(x.chain[i].iss, x.chain[i].key) /\ Become(r, Reply(r, 401))
      \/ Become(r, Reply(r, 500))
      \/ Verified(x.chain[i].iss, x.chain[i].key) /\ Become(r, y)
  BY DEF VerifyLink
<1>4. CASE ~Verified(x.chain[i].iss, x.chain[i].key) /\ Become(r, Reply(r, 401))
  <2>1. ~Owed(x, keys)
    BY <1>1, <1>4 DEF Owed, Verified, KeySet
  <2>2. Good(r, Reply(r, 401), keys)
    BY <1>2, <2>1, ReplyRefuses
  <2> QED BY <1>4, <2>2, OneChanges
<1>5. CASE Become(r, Reply(r, 500))
  <2>1. Good(r, Reply(r, 500), keys)
    BY <1>2, ReplyGood DEF Codes
  <2> QED BY <1>5, <2>1, OneChanges
<1>6. CASE Verified(x.chain[i].iss, x.chain[i].key) /\ Become(r, y)
  <2>1. x.chain[i].key >= x.since[x.chain[i].iss]
    <3>1. /\ x.since \in [Orgs -> Nat] /\ x.chain[i].iss \in Orgs
          /\ x.chain[i].key \in Nat
      BY <1>1, <1>2 DEF Good, Whole, Dated
    <3>2. /\ x.chain[i].key = keys[x.chain[i].iss]
          /\ x.since[x.chain[i].iss] <= keys[x.chain[i].iss]
      BY <1>2, <1>6, <3>1 DEF Verified, KeySet, Good, Dated
    <3> QED BY <3>1, <3>2
  <2> HIDE DEF x
  <2>2. x \in Whole(r, x.chain)
    BY <1>2 DEF Good
  <2>3. y \in Whole(r, x.chain)
    BY <1>1, <2>2 DEF Whole
  <2>4. /\ Same(x, y) /\ y.stage = x.stage /\ y.plugs = x.plugs
        /\ y.checked = x.checked \cup {i} /\ y.done = x.done
    BY <2>2 DEF Whole, Same
  <2> HIDE DEF y
  <2>5. y \in Whole(r, y.chain) /\ Dated(y, keys)
    BY <1>2, <2>3, <2>4, SameFacts DEF Good, Same
  <2>6. Entered(y)
    BY <1>2, <2>1, <2>4 DEF Good, Entered, Same
  <2>7. Entitled(y)
    <3>1. x.checked \subseteq DOMAIN x.chain
      BY <2>2 DEF Whole
    <3> QED BY <1>1, <1>2, <2>4, <3>1, SameFacts DEF Good, Entitled, Same
  <2>8. Furnished(y) /\ Honoured(y, keys)
    BY <1>1, <1>2, <2>4 DEF Good, Furnished, Honoured
  <2>9. Good(r, y, keys)
    BY <2>5, <2>6, <2>7, <2>8 DEF Good
  <2> QED BY <1>6, <2>9, OneChanges
<1> QED BY <1>3, <1>4, <1>5, <1>6

LEMMA ChainStep ==
  ASSUME Inv, NEW r \in Requests, VerifyChain(r)
  PROVE  Inv'
<1> DEFINE x == requests[r]
<1>1. /\ x.stage = "links" /\ x.checked = DOMAIN x.chain
      /\ Become(r, IF Taken(x) THEN Sequel(r, "handling") ELSE Reply(r, 403))
  BY DEF VerifyChain, Taken
<1>2. Good(r, x, keys) /\ x.asks.chained
  BY <1>1, WholeAt DEF Good, Entered
<1>3. x.key >= x.since[x.asks.caller] /\ x.plugs = Pluggables
  BY <1>1, <1>2 DEF Good, Entered, Furnished
<1>4. CASE Taken(x)
  <2>1. Good(r, Sequel(r, "handling"), keys)
    BY <1>1, <1>2, <1>3, <1>4, Moved DEF Sequel, Stages
  <2> QED BY <1>1, <1>4, <2>1, OneChanges
<1>5. CASE ~Taken(x)
  <2>1. ~Owed(x, keys)
    BY <1>5 DEF Owed
  <2>2. Good(r, Reply(r, 403), keys)
    BY <1>2, <2>1, ReplyRefuses
  <2> QED BY <1>1, <1>5, <2>2, OneChanges
<1> QED BY <1>4, <1>5

LEMMA FetchStep ==
  ASSUME Inv, NEW r \in Requests, FetchFails(r)
  PROVE  Inv'
<1>1. requests[r].stage \in {"token", "links"} /\ Become(r, Reply(r, 500))
  BY DEF FetchFails, Unchecked
<1>2. Good(r, Reply(r, 500), keys)
  BY <1>1, WholeAt, ReplyGood DEF Codes
<1> QED BY <1>1, <1>2, OneChanges

LEMMA FinishStep ==
  ASSUME Inv, NEW r \in Requests, Finish(r)
  PROVE  Inv'
<1>1. Good(r, requests[r], keys)
  BY WholeAt DEF Finish
<1>2. Good(r, Sequel(r, "closed"), keys)
  BY <1>1, Moved DEF Sequel, Stages
<1>3. Become(r, Sequel(r, "closed")) \/ Become(r, [Idle EXCEPT !.stage = "closed"])
  BY DEF Finish, Destroyed
<1> QED BY <1>2, <1>3, IdleBare, OneChanges

-----------------------------------------------------------------------------
LEMMA InvNext == Inv /\ [Next]_vars => Inv'
<1> SUFFICES ASSUME Inv, [Next]_vars PROVE Inv'
  OBVIOUS
<1>1. CASE UNCHANGED vars
  BY <1>1 DEF Inv, vars
<1>2. CASE Start \/ Listen \/ Initialize \/ Die \/ Stop \/ Stopped
  BY <1>2, ProcessStep
<1>3. CASE \E org \in Rotating : Rotate(org)
  BY <1>3, KeyStep
<1>4. ASSUME NEW r \in Requests, Request(r) PROVE Inv'
  <2>1. CASE Proceed(r)
    BY <2>1, DispatchStep, ConstructStep, BuildStep, StartNodeStep, ChainStep,
       HandleStep DEF Proceed
  <2>2. CASE Verify(r)
    BY <2>2, TokenStep, LinkStep, FetchStep DEF Verify
  <2> QED BY <1>4, <2>1, <2>2, ReceiveStep, DisconnectStep, FinishStep DEF Request
<1> QED BY <1>1, <1>2, <1>3, <1>4 DEF Next

LEMMA InvAlways == Spec => []Inv
  BY InvInit, InvNext, PTL DEF Spec

-----------------------------------------------------------------------------
(* No more connections are lost than the pool has.                         *)
LEMMA LeakedBounded == Spec => [](leaked \in 0 .. Connections)
<1> DEFINE Kept == leaked \in 0 .. Connections
<1>1. Init => Kept
  BY ConstantsAssumption DEF Init
<1>2. ASSUME Kept, [Next]_vars PROVE Kept'
  <2>1. CASE UNCHANGED vars
    BY <1>2, <2>1 DEF vars
  <2>2. CASE Start
    BY <2>2, ConstantsAssumption DEF Start
  <2>3. CASE Listen \/ Initialize \/ Die \/ Stop \/ Stopped \/ \E org \in Rotating : Rotate(org)
    BY <1>2, <2>3 DEF Listen, Initialize, Die, Stop, Stopped, Rotate
  <2>4. ASSUME NEW r \in Requests, Request(r) PROVE Kept'
    <3>1. CASE Handle(r)
      BY <1>2, <3>1, ConstantsAssumption DEF Handle, Become, Throw
    <3>2. CASE Verify(r)
      BY <1>2, <3>2 DEF Verify, VerifyToken, VerifyLink, FetchFails, Become
    <3>3. CASE \/ \E q \in Shapes[r] : Receive(r, q)
               \/ Disconnect(r) \/ Finish(r)
      BY <1>2, <3>3 DEF Receive, Disconnect, Finish, Become
    <3>4. CASE \/ Dispatch(r) \/ Construct(r) \/ Build(r) \/ StartNode(r)
               \/ VerifyChain(r)
      BY <1>2, <3>4 DEF Dispatch, Construct, Build, StartNode, VerifyChain, Become
    <3> QED BY <2>4, <3>1, <3>2, <3>3, <3>4 DEF Request, Proceed
  <2> QED BY <1>2, <2>1, <2>2, <2>3, <2>4 DEF Next
<1> QED BY <1>1, <1>2, PTL DEF Spec

(* The types of the tenant server, for every instance.                     *)
THEOREM ServerTyped == Spec => []TypeOK
  BY InvAlways, LeakedBounded, InvImplies, PTL

(* Whatever is asked, by whomever, with whatever chain: what the server    *)
(* does was the caller's right (handleAuthenticatedRequest, verifyChain,   *)
(* decodechain.ts verifyDecodedChain).                                     *)
THEOREM AllDoneByRight == Spec => []DoneByRight
  BY InvAlways, InvImplies, PTL

(* However often keys are replaced, none is used that was replaced before  *)
(* the request came (standardverifier.ts, oprnetworkclient.ts).            *)
THEOREM OnlyKeysInUse == Spec => []KeysInUse
  BY InvAlways, InvImplies, PTL

(* Nobody properly given an offer is refused for want of the right to it.  *)
THEOREM ChainsHonoured == Spec => []ChainHonoured
  BY InvAlways, InvImplies, PTL

(* A request worked on has all the objects of its tenant, whoever leaves.  *)
THEOREM ObjectsAlive == Spec => []AliveWhileUsed
  BY InvAlways, InvImplies, PTL
=============================================================================
