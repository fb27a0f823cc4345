--------------------------- MODULE ReshareTokens ---------------------------
(***************************************************************************)
(* Reshare chains as signed tokens: signing (components/core/src/auth/     *)
(* local/localkeysigner.ts) and verifying (auth/standardverifier.ts,       *)
(* auth/decodechain.ts).                                                   *)
(*                                                                         *)
(* A token is its decoded form.  The signature of a token is taken to be   *)
(* the token itself: equal signatures mean equal tokens, and nobody signs  *)
(* for another organization.  An organization replaces its key by raising  *)
(* the number of the key it signs with; its key set then holds only that   *)
(* key.                                                                    *)
(***************************************************************************)
EXTENDS Integers, Sequences, SequencesExt

CONSTANTS
  Orgs,     \* organizations
  Offers    \* offer ids; two organizations may use the same one

ChainScope == {"RESHARE", "ACCEPT"}

(* A link says that iss shares what the entitlements stand for with sub.   *)
(* The entitlements of the first link are an offer id, those of any other  *)
(* the signature of the link before it.                                    *)
Link(iss, key, sub, entitlements, scopes) ==
  [iss |-> iss, key |-> key, sub |-> sub, entitlements |-> entitlements,
   scopes |-> scopes]

Signature(link) == link

(* The signer asks neither whether the chain was given to it nor whether   *)
(* it may be reshared.                                                     *)
SignChain(chain, iss, key, sub, offer, scopes) ==
  Append(chain, Link(iss, key, sub,
                     IF chain = <<>> THEN offer ELSE Signature(Last(chain)),
                     scopes))

-----------------------------------------------------------------------------
(* verifyDecodedChain: what a chain must look like for caller to accept or *)
(* reserve the offer at the host.                                          *)

StartsAt(chain, host, offer) ==
  chain[1].iss = host /\ chain[1].entitlements = offer

EndsAt(chain, caller) ==
  Last(chain).sub = caller /\ "ACCEPT" \in Last(chain).scopes

(* Mutant: neighbours are compared by name alone.                          *)
LinkedByName(chain) ==
  \A i \in 2 .. Len(chain) : chain[i].iss = chain[i - 1].sub

Linked(chain) ==
  \A i \in 2 .. Len(chain) :
    /\ chain[i].iss = chain[i - 1].sub
    /\ chain[i].entitlements = Signature(chain[i - 1])

Reshareable(chain) ==
  \A i \in 1 .. Len(chain) - 1 : "RESHARE" \in chain[i].scopes

VerifyDecodedChain(chain, host, offer, caller) ==
  /\ StartsAt(chain, host, offer)
  /\ EndsAt(chain, caller)
  /\ Linked(chain)
  /\ Reshareable(chain)

-----------------------------------------------------------------------------
(* The chains there can be when each organization has used the keys up to  *)
(* keys[org], shares is the set of what organizations ever grant, as       *)
(* [iss, sub, scopes], whoever adds a link was given the chain, and no     *)
(* chain is longer than two links.                                         *)

Extended(chain, offer, shares, keys) ==
  UNION { { SignChain(chain, s.iss, k, s.sub, offer, s.scopes) :
              k \in 0 .. keys[s.iss] } : s \in shares }

Held(chain, shares) == { s \in shares : s.iss = Last(chain).sub }

SignedChains(offer, shares, keys) ==
  LET first == Extended(<<>>, offer, shares, keys)
  IN first \cup UNION { Extended(c, offer, Held(c, shares), keys) : c \in first }

(* Chains every link of which was allowed: the host gives the first, and   *)
(* whoever adds another was given the chain so far with the right to       *)
(* reshare it.                                                             *)
LicensedChains(host, offer, shares, keys) ==
  LET first == Extended(<<>>, offer, { s \in shares : s.iss = host }, keys)
      next(c) == IF "RESHARE" \in Last(c).scopes THEN Held(c, shares) ELSE {}
  IN first \cup UNION { Extended(c, offer, next(c), keys) : c \in first }

=============================================================================
