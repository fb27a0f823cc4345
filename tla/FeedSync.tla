------------------------------ MODULE FeedSync ------------------------------
(***************************************************************************)
(* One server follows the feed of another: ingest and produceOffers of the *)
(* tenant node (components/core/src/server/oprtenantnode.ts) with the feed *)
(* producer (offerproducer/oprfeedproducer.ts), against the list endpoint  *)
(* of the publisher (model/persistentoffermodel.ts, diff/diff.ts).         *)
(*                                                                         *)
(* A run of produceOffers is a sequence of steps: it reads the producer's  *)
(* metadata and the clock, asks, is answered by the publisher, applies the *)
(* answer in one transaction and saves the metadata in another.  Offers    *)
(* are told apart by their update timestamps; both servers read the same   *)
(* clock; an answer is one page.                                           *)
(***************************************************************************)
EXTENDS Interval, FiniteSets

CONSTANTS
  Offers,        \* offer ids
  Versions,      \* update timestamps of offer versions, newer is greater
  Runs,          \* identities of the runs of produceOffers in flight
  CorpusPage,    \* selectPageSize: rows of a corpus read by one query
  PollTime,      \* maxUpdateFrequencyMillis of the feed
  RetryTime,     \* getFailedRetryIntervalMillis
  Disturbances,  \* what else happens: see AllDisturbances
  MaxDelay,      \* how far the clock runs ahead of a run in flight
  MaxChanges,    \* how often the publisher changes its listing
  Horizon,       \* the clock stops here
  Undefined,     \* no value was ever stored
  Null           \* a NULL column

VARIABLES
  clock,         \* clock.now() of both servers
  listed,        \* what the publisher lists to the consumer at each instant
  changes,       \* how often that changed; bounds the model
  copy,          \* the consumer's corpus of this feed
  applied,       \* resultsTimestampUTC of the update applied last, 0 if none
  metadata,      \* the producer's metadata in the consumer's storage
  runs           \* the runs of produceOffers

vars == <<clock, listed, changes, copy, applied, metadata, runs>>

-----------------------------------------------------------------------------
Unlisted == 0
Listing  == [Offers -> Versions \cup {Unlisted}]
Nothing  == [o \in Offers |-> Unlisted]
Times    == 1 .. Horizon

(* "early run": ingest is called before the next run is due.               *)
(* "failure":   the request or the transaction of an update fails.         *)
(* "lost save": the update is applied and the metadata is not saved,       *)
(*              because the process stops or the save fails.               *)
AllDisturbances == {"early run", "failure", "lost save"}

ASSUME FeedAssumption ==
  /\ Versions \subseteq Nat \ {Unlisted}
  /\ CorpusPage \in Nat \ {0}
  /\ PollTime \in Nat \ {0} /\ RetryTime \in Nat \ {0}
  /\ Disturbances \subseteq AllDisturbances
  /\ MaxDelay \in Nat /\ MaxChanges \in Nat /\ Horizon \in Nat \ {0}
  /\ Undefined \notin Times /\ Null \notin Times /\ Undefined # Null

Phases   == {"idle", "skipping", "asking", "answered", "applied"}
Metadata == [last : Times \cup {Undefined, Null}, next : Nat]
Run      == [phase : Phases, now : Times \cup {0}, at : Times \cup {0},
             last : Times \cup {Undefined, Null}, next : Nat,
             from : Listing, to : Listing]

(* No row is stored for the producer yet.                                  *)
NoMetadata == [last |-> Undefined, next |-> 0]

Idle == [phase |-> "idle", now |-> 0, at |-> 0, last |-> Undefined, next |-> 0,
         from |-> Nothing, to |-> Nothing]

Init ==
  /\ clock = 1
  /\ listed = [t \in Times |-> Nothing]
  /\ changes = 0
  /\ copy = Nothing
  /\ applied = 0
  /\ metadata = NoMetadata
  /\ runs = [r \in Runs |-> Idle]

(* Requests, transactions and saves keep pace with the clock.              *)
Tick ==
  /\ clock < Horizon
  /\ \A r \in Runs : runs[r].phase # "idle" => clock - runs[r].now < MaxDelay
  /\ clock' = clock + 1
  /\ UNCHANGED <<listed, changes, copy, applied, metadata, runs>>

-----------------------------------------------------------------------------
(* The publisher                                                           *)

(* The publisher's timeline changes from now on: offers appear, disappear  *)
(* and get newer versions.  An instant that an answer has shown is over.   *)
Publish ==
  /\ changes < MaxChanges
  /\ applied # clock
  /\ \A r \in Runs : runs[r].at # clock
  /\ \E new \in Listing \ {listed[clock]} :
       /\ \A o \in Offers, t \in 1 .. clock :
            new[o] # Unlisted => listed[t][o] <= new[o]
       /\ listed' = [t \in Times |-> IF t < clock THEN listed[t] ELSE new]
  /\ changes' = changes + 1
  /\ UNCHANGED <<clock, copy, applied, metadata, runs>>

(* A run that knows no earlier time asks for a SNAPSHOT, and NULL counts   *)
(* as a time.                                                              *)
AsksSnapshot(run) == run.last = Undefined

(* list: what was listed at the start of the difference, and what is now.  *)
(* A DIFF request without a number to start from is refused by the schema. *)
Answer(r) ==
  LET run == runs[r] IN
  /\ run.phase = "asking" /\ run.last # Null
  /\ runs' = [runs EXCEPT ![r].phase = "answered",
                ![r].at = clock,
                ![r].from = IF AsksSnapshot(run) THEN Nothing ELSE listed[run.last],
                ![r].to = listed[clock]]
  /\ UNCHANGED <<clock, listed, changes, copy, applied, metadata>>

-----------------------------------------------------------------------------
(* The consumer                                                            *)

(* diffAsOfferPatch of two versions leads to the OLDER one, because it     *)
(* compares the new version with the old one; it fails on an offer that    *)
(* is missing and possibly on one that is neither of the two.              *)
Patched(o, run) ==
  IF copy[o] = Unlisted THEN {Unlisted} ELSE {copy[o], Greater(copy[o], run.from[o])}

(* What removing an offer leaves of it when the corpus held rows: they are *)
(* deleted while the corpus is read page by page, by counting, so that of  *)
(* more than a page some are passed over.  Which, is not told apart.       *)
Leaves(o, rows) ==
  {Unlisted} \cup IF Cardinality(rows) > CorpusPage THEN {copy[o]} ELSE {}

InCopy == { o \in Offers : copy[o] # Unlisted }

(* 'clear', and then what is listed now.                                   *)
Renewed(o, run) ==
  { IF run.to[o] = Unlisted THEN v ELSE Greater(v, run.to[o]) : v \in Leaves(o, InCopy) }

(* Mutation of Differed: offers that are gone are kept.                    *)
DifferedKeepGone(o, run) ==
  IF run.from = Nothing              THEN Renewed(o, run)
  ELSE IF run.from[o] = run.to[o]    THEN {copy[o]}
  ELSE IF run.to[o] = Unlisted       THEN {copy[o]}
  ELSE IF run.from[o] = Unlisted     THEN {Greater(copy[o], run.to[o])}
  ELSE Patched(o, run)

(* The patches of a DIFF, headed by 'clear' if nothing was listed at the   *)
(* start: the versions the copy may hold of an offer afterwards.           *)
Differed(o, run) ==
  IF run.from = Nothing              THEN Renewed(o, run)
  ELSE IF run.from[o] = run.to[o]    THEN {copy[o]}
  ELSE IF run.to[o] = Unlisted       THEN {Unlisted}
  ELSE IF run.from[o] = Unlisted     THEN {Greater(copy[o], run.to[o])}
  ELSE Patched(o, run)

(* A SNAPSHOT never puts a version back; afterwards it removes what it     *)
(* does not list.                                                          *)
Snapshotted(o, run) ==
  IF run.to[o] = Unlisted
  THEN Leaves(o, InCopy \cup { x \in Offers : run.to[x] # Unlisted })
  ELSE {Greater(copy[o], run.to[o])}

(* produceOffers reads the metadata, then the clock, and skips the feed if *)
(* its next run is not due.                                                *)
StartRun(r) ==
  LET early == metadata.next > clock IN
  /\ runs[r].phase = "idle"
  /\ early => "early run" \in Disturbances
  /\ runs' = [runs EXCEPT ![r] =
                [Idle EXCEPT !.phase = IF early THEN "skipping" ELSE "asking",
                             !.now = clock,
                             !.last = metadata.last,
                             !.next = metadata.next]]
  /\ UNCHANGED <<clock, listed, changes, copy, applied, metadata>>

(* The answer arrives, which fixes the time of the next run, and           *)
(* processUpdate makes one transaction of it.                              *)
Apply(r) ==
  LET run == runs[r] IN
  /\ run.phase = "answered"
  /\ copy' \in { c \in Listing : \A o \in Offers :
                  c[o] \in IF AsksSnapshot(run) THEN Snapshotted(o, run)
                                               ELSE Differed(o, run) }
  /\ applied' = run.at
  /\ runs' = [runs EXCEPT ![r].phase = "applied",
                          ![r].next = clock + PollTime,
                          ![r].from = Nothing, ![r].to = Nothing]
  /\ UNCHANGED <<clock, listed, changes, metadata>>

(* Mutations of Saved: a skipped run is due again at once; a run is due    *)
(* again a moment early; the time of the last update is lost.              *)
SavedDue(run) ==
  [last |-> run.now, next |-> IF run.phase = "skipping" THEN run.now ELSE run.next]
SavedEarly(run) == [last |-> run.now, next |-> run.next - 1]

(* What a run saves that ends well: it counts as an update at the time the *)
(* run started, also if it was skipped.                                    *)
Saved(run) == [last |-> run.now, next |-> run.next]

Finish(r) ==
  /\ runs[r].phase \in {"applied", "skipping"}
  /\ metadata' = Saved(runs[r])
  /\ runs' = [runs EXCEPT ![r] = Idle]
  /\ UNCHANGED <<clock, listed, changes, copy, applied>>

(* A missing value is stored as NULL.                                      *)
Stored(time) == IF time = Undefined THEN Null ELSE time

(* Mutations of SavedAfterFailure: the missing value stays missing; the    *)
(* last update is forgotten.                                               *)
SavedUnstored(run) == [last |-> run.last, next |-> run.now + RetryTime]
SavedForgetting(run) == [last |-> Null, next |-> run.now + RetryTime]

(* What a run saves that fails: the last update stays where it was.        *)
SavedAfterFailure(run) == [last |-> Stored(run.last), next |-> run.now + RetryTime]

(* The request, the transaction of the update or the save failed, and the  *)
(* second save succeeds.                                                   *)
Fail(r) ==
  LET run == runs[r] IN
  /\ \/ run.phase \in {"asking", "answered"} /\ "failure" \in Disturbances
     \/ run.phase = "asking" /\ run.last = Null
     \/ run.phase \in {"applied", "skipping"} /\ "lost save" \in Disturbances
  /\ metadata' = SavedAfterFailure(run)
  /\ runs' = [runs EXCEPT ![r] = Idle]
  /\ UNCHANGED <<clock, listed, changes, copy, applied>>

(* The process stops, and with it the run.                                 *)
Crash(r) ==
  /\ runs[r].phase # "idle"
  /\ runs[r].phase = "applied" => "lost save" \in Disturbances
  /\ runs' = [runs EXCEPT ![r] = Idle]
  /\ UNCHANGED <<clock, listed, changes, copy, applied, metadata>>

-----------------------------------------------------------------------------
Next ==
  \/ Tick
  \/ Publish
  \/ \E r \in Runs : \/ StartRun(r) \/ Answer(r) \/ Apply(r)
                     \/ Finish(r) \/ Fail(r) \/ Crash(r)

Spec == Init /\ [][Next]_vars

-----------------------------------------------------------------------------
(* Properties                                                              *)

(* Types, and: a stored row holds a time or NULL, never "undefined"        *)
(* (sqloprpersistentstorage.ts:1230).                                      *)
TypeOK ==
  /\ clock \in Times
  /\ listed \in [Times -> Listing]
  /\ changes \in 0 .. MaxChanges
  /\ copy \in Listing
  /\ applied \in Times \cup {0}
  /\ metadata \in Metadata /\ (metadata # NoMetadata => metadata.last # Undefined)
  /\ runs \in [Runs -> Run]

(* While runs start when they are due, one at a time, take no time and     *)
(* save what they did, each update leaves the copy with exactly the offers *)
(* the publisher lists, whatever requests fail in between: the diff since  *)
(* the last saved time fits the copy it is applied to                      *)
(* (oprtenantnode.ts:284-303, persistentoffermodel.ts:171-239).            *)
Mirror  == INSTANCE FeedMirror WITH shown <- listed[clock], copied <- copy
Mirrors == Mirror!Spec

(* After an update the publisher is not asked again before the poll time   *)
(* is over, however runs fail and are retried                              *)
(* (oprtenantnode.ts:265-301, oprfeedproducer.ts:72).                      *)
PolledSeldom ==
  \A r \in Runs : runs[r].phase = "asking" /\ applied # 0
                    => runs[r].now >= applied + PollTime

(* The time of the next run is never put back, however runs come early,    *)
(* fail and get lost -- except when the save of a skipped run fails, which *)
(* is then treated like a failed request (oprtenantnode.ts:275-279, 306).  *)
ScheduleKept ==
  [][metadata'.next < metadata.next
       => \E r \in Runs : /\ runs[r].phase = "skipping"
                          /\ metadata'.next = runs[r].now + RetryTime]_vars

(* Once an update was saved the feed is followed by diffs from then on: no *)
(* failure, skipped run or crash puts the saved time back                  *)
(* (oprtenantnode.ts:275, 298, 309).                                       *)
BaselineKept ==
  [][metadata.last \in Times
       => metadata'.last \in Times /\ metadata'.last >= metadata.last]_vars

-----------------------------------------------------------------------------
(* What the standard says of followers and publishers of feeds, where the  *)
(* code does something else.                                               *)

(* A DIFF transforms what was listed at its start into what is listed now  *)
(* (standards/transfer_api.md:545).                                        *)
DiffTransforms ==
  [][\A r \in Runs :
       LET run == runs[r] IN
       run.phase = "answered" /\ runs'[r].phase = "applied"
         /\ ~ AsksSnapshot(run) /\ copy = run.from
       => copy' = run.to]_vars
=============================================================================
