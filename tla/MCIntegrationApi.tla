-------------------------- MODULE MCIntegrationApi --------------------------
(* TLC instance of IntegrationApi: a notifier with two handlers, one of     *)
(* which stores and may throw before or while it does, a watcher with one   *)
(* handler, an update with two changes and a remote rejection with two      *)
(* sources.  Of two connections, one that is lost leaves an update alone.   *)
EXTENDS IntegrationApi

CONSTANTS notifier, watcher, log, count, watch, reject, poster, source

MCApiOf == (log :> notifier) @@ (count :> notifier) @@ (watch :> watcher)
MCCaller == [c \in Calls |-> notifier]
MCTargets == [c \in Calls |-> {poster, source}]

=============================================================================
