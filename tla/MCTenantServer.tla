--------------------------- MODULE MCTenantServer ---------------------------
(***************************************************************************)
(* TLC instance of TenantServer.  In one place come requests with every    *)
(* way of being refused, to tenants with every fault, and with every chain *)
(* that two sharing steps can sign; in the other, meanwhile, a rejection   *)
(* at a tenant that cannot be taken down.  They share one connection.      *)
(***************************************************************************)
EXTENDS TenantServer

CONSTANTS
  host, friend, stranger, elsewhere,
  unknown, unmade, unlocked, uninstalled, misnamed, stuck, strict,
  offer, main, side

MCFault == (host :> "none") @@ (unknown :> "unknown") @@ (unmade :> "construct")
        @@ (unlocked :> "nojwks") @@ (uninstalled :> "install")
        @@ (misnamed :> "prefix") @@ (stuck :> "uninstall")
        @@ (strict :> "response")

(* The friend is listed and may reshare, or may not; the stranger is known *)
(* only through the friend; elsewhere uses the same offer id as the host.  *)
MCShares ==
  { [iss |-> host,      sub |-> friend,   scopes |-> {"RESHARE", "ACCEPT"}],
    [iss |-> host,      sub |-> friend,   scopes |-> {"ACCEPT"}],
    [iss |-> elsewhere, sub |-> friend,   scopes |-> {"RESHARE"}],
    [iss |-> friend,    sub |-> stranger, scopes |-> {"ACCEPT"}] }

Ask(tenant, route, caller) ==
  [tenant |-> tenant, route |-> route, token |-> TRUE, caller |-> caller,
   aud |-> host, scopes |-> {"ACCEPTPRODUCT"}, fresh |-> TRUE, valid |-> TRUE,
   offer |-> offer, chained |-> FALSE]

Plain == Ask(host, "accept", friend)

MCShapes ==
  (main :> { Plain,
             [Plain EXCEPT !.token = FALSE], [Plain EXCEPT !.aud = friend],
             [Plain EXCEPT !.scopes = {"LISTPRODUCTS"}],
             [Plain EXCEPT !.fresh = FALSE], [Plain EXCEPT !.valid = FALSE],
             [Plain EXCEPT !.caller = stranger],
             [Plain EXCEPT !.caller = stranger, !.chained = TRUE],
             [Plain EXCEPT !.route = "reserve", !.chained = TRUE],
             [Ask(host, "history", stranger) EXCEPT !.scopes = {"PRODUCTHISTORY"}],
             [Ask(strict, "reject", friend) EXCEPT !.aud = strict] }
           \cup { Ask(t, "jwks", stranger) : t \in Tenants \cup {NotATenant} })
  @@
  (side :> { [Ask(stuck, "reject", elsewhere) EXCEPT !.aud = stuck] })

=============================================================================
