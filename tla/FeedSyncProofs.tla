--------------------------- MODULE FeedSyncProofs ---------------------------
(***************************************************************************)
(* Proofs about FeedSync: type correctness for every number of runs in     *)
(* flight; for one run at a time, that neither the time of the last update *)
(* nor that of the next run is put back and that the feed is not asked too *)
(* soon; and for a run that is not disturbed, that FeedSync implements     *)
(* FeedMirror.                                                             *)
(***************************************************************************)
EXTENDS FeedSync, TLAPS

(* A run in flight started at an instant of the past.                      *)
Started == \A r \in Runs : runs[r].phase # "idle" => runs[r].now \in 1 .. clock

TypeInv == TypeOK /\ Started

LEMMA TypeInit == Init => TypeInv
  BY FeedAssumption
     DEF Init, TypeInv, TypeOK, Started, Times, Listing, Nothing, Unlisted,
         NoMetadata, Metadata, Idle, Run, Phases

(* Saving ends a run and leaves the others alone.                          *)
LEMMA TypeSave ==
  ASSUME TypeInv, NEW r \in Runs, runs[r].phase # "idle",
         metadata' = Saved(runs[r]) \/ metadata' = SavedAfterFailure(runs[r]),
         runs' = [runs EXCEPT ![r] = Idle],
         UNCHANGED <<clock, listed, changes, copy, applied>>
  PROVE  TypeInv'
<1>1. runs[r] \in Run /\ runs[r].now \in Times /\ runs[r].now \in Nat
  BY FeedAssumption DEF TypeInv, TypeOK, Started, Times
<1>2. Idle \in Run
  BY FeedAssumption DEF Idle, Run, Phases, Nothing, Listing, Unlisted
<1>3. metadata' \in Metadata /\ metadata'.last # Undefined
  <2>1. CASE metadata' = Saved(runs[r])
    BY <1>1, <2>1, FeedAssumption DEF Saved, Metadata, Run
  <2>2. CASE metadata' = SavedAfterFailure(runs[r])
    BY <1>1, <2>2, FeedAssumption DEF SavedAfterFailure, Stored, Metadata, Run
  <2> QED BY <2>1, <2>2
<1>4. TypeOK'
  BY <1>2, <1>3 DEF TypeInv, TypeOK
<1>5. Started'
  BY DEF TypeInv, TypeOK, Started, Idle
<1> QED BY <1>4, <1>5 DEF TypeInv

LEMMA TypeNext == TypeInv /\ [Next]_vars => TypeInv'
<1> SUFFICES ASSUME TypeInv, [Next]_vars PROVE TypeInv'
  OBVIOUS
<1>0. Idle \in Run /\ Nothing \in Listing
  BY FeedAssumption DEF Idle, Run, Phases, Nothing, Listing, Unlisted
<1>1. CASE Tick
  BY <1>1, FeedAssumption DEF TypeInv, TypeOK, Started, Tick, Times
<1>2. CASE Publish
  <2>1. PICK new \in Listing :
          listed' = [t \in Times |-> IF t < clock THEN listed[t] ELSE new]
    BY <1>2 DEF Publish
  <2>2. listed' \in [Times -> Listing]
    BY <2>1 DEF TypeInv, TypeOK
  <2>3. changes' \in 0 .. MaxChanges
    BY <1>2, FeedAssumption DEF Publish, TypeInv, TypeOK
  <2> QED BY <1>2, <2>2, <2>3 DEF Publish, TypeInv, TypeOK, Started
<1>3. ASSUME NEW r \in Runs, StartRun(r) PROVE TypeInv'
  <2>1. runs'[r] \in Run
    BY <1>0, <1>3, FeedAssumption
       DEF StartRun, TypeInv, TypeOK, Metadata, Run, Idle, Phases
  <2>2. runs' \in [Runs -> Run] /\ runs'[r].now = clock
    BY <1>3, <2>1 DEF StartRun, TypeInv, TypeOK, Idle
  <2>3. \A q \in Runs \ {r} : runs'[q] = runs[q]
    BY <1>3 DEF StartRun, TypeInv, TypeOK
  <2>4. UNCHANGED <<clock, listed, changes, copy, applied, metadata>>
    BY <1>3 DEF StartRun
  <2>5. Started'
    BY <2>2, <2>3, <2>4, FeedAssumption DEF TypeInv, TypeOK, Started, Times
  <2>6. TypeOK'
    BY <2>2, <2>4 DEF TypeInv, TypeOK
  <2> QED BY <2>5, <2>6 DEF TypeInv
<1>4. ASSUME NEW r \in Runs, Answer(r) PROVE TypeInv'
  <2>1. runs[r].last \in Times \/ AsksSnapshot(runs[r])
    BY <1>4 DEF Answer, AsksSnapshot, TypeInv, TypeOK, Run
  <2>2. (IF AsksSnapshot(runs[r]) THEN Nothing ELSE listed[runs[r].last]) \in Listing
    BY <1>0, <2>1 DEF TypeInv, TypeOK
  <2> DEFINE from == IF AsksSnapshot(runs[r]) THEN Nothing ELSE listed[runs[r].last]
             answered == [runs[r] EXCEPT !.phase = "answered", !.at = clock,
                                         !.from = from, !.to = listed[clock]]
  <2>3. runs[r] \in Run /\ clock \in Times /\ listed[clock] \in Listing
    BY DEF TypeInv, TypeOK
  <2>4. answered \in Run
    BY <2>2, <2>3 DEF Run, Phases
  <2>5. runs' = [runs EXCEPT ![r] = answered]
    BY <1>4, <2>3 DEF Answer, TypeInv, TypeOK, Run
  <2>6. runs' \in [Runs -> Run]
    BY <2>4, <2>5 DEF TypeInv, TypeOK
  <2> QED BY <1>4, <2>6 DEF Answer, TypeInv, TypeOK, Started
<1>5. ASSUME NEW r \in Runs, Apply(r) PROVE TypeInv'
  <2>1. copy' \in Listing /\ applied' \in Times \cup {0}
    BY <1>5 DEF Apply, TypeInv, TypeOK, Run
  <2> DEFINE done == [runs[r] EXCEPT !.phase = "applied", !.next = clock + PollTime,
                                     !.from = Nothing, !.to = Nothing]
  <2>2. runs[r] \in Run /\ clock + PollTime \in Nat
    BY FeedAssumption DEF TypeInv, TypeOK, Times
  <2>3. done \in Run
    BY <1>0, <2>2 DEF Run, Phases
  <2>4. runs' = [runs EXCEPT ![r] = done]
    BY <1>5, <2>2 DEF Apply, TypeInv, TypeOK, Run
  <2>5. runs' \in [Runs -> Run]
    BY <2>3, <2>4 DEF TypeInv, TypeOK
  <2> QED BY <1>5, <2>1, <2>5 DEF Apply, TypeInv, TypeOK, Started
<1>6. ASSUME NEW r \in Runs, Finish(r) PROVE TypeInv'
  BY <1>6, TypeSave DEF Finish
<1>7. ASSUME NEW r \in Runs, Fail(r) PROVE TypeInv'
  BY <1>7, TypeSave DEF Fail
<1>8. ASSUME NEW r \in Runs, Crash(r) PROVE TypeInv'
  BY <1>0, <1>8 DEF Crash, TypeInv, TypeOK, Started, Idle
<1>9. CASE UNCHANGED vars
  BY <1>9 DEF vars, TypeInv, TypeOK, Started
<1> QED BY <1>1, <1>2, <1>3, <1>4, <1>5, <1>6, <1>7, <1>8, <1>9 DEF Next

LEMMA TypeAlways == Spec => []TypeInv
  BY TypeInit, TypeNext, PTL DEF Spec

(* Every reachable state is well typed, however many runs overlap; above   *)
(* all, a stored row never holds "undefined".                              *)
THEOREM FeedTypeCorrect == Spec => []TypeOK
<1>1. TypeInv => TypeOK
  BY DEF TypeInv
<1> QED BY <1>1, TypeAlways, PTL

-----------------------------------------------------------------------------
(* One run at a time                                                       *)

(* What a run in flight read of the metadata is still stored, its update   *)
(* is due unless it is skipped, and times of the past are in the past.     *)
ReadCurrent ==
  /\ metadata.last \in Times => metadata.last <= clock
  /\ \A r \in Runs :
       runs[r].phase # "idle" =>
         /\ runs[r].last = metadata.last
         /\ metadata.last \in Times => metadata.last <= runs[r].now
         /\ IF runs[r].phase = "skipping"
            THEN runs[r].next = metadata.next
            ELSE metadata.next <= runs[r].now
         /\ runs[r].phase = "applied" => runs[r].now <= runs[r].next

OneRunInv == TypeInv /\ ReadCurrent

OneRun == \A q, r \in Runs : q = r

LEMMA OneRunInit == Init => OneRunInv
  BY TypeInit, FeedAssumption DEF OneRunInv, ReadCurrent, Init, NoMetadata, Idle

(* What a save does to the two times.                                      *)
SaveProperties ==
  /\ metadata.last \in Times
       => metadata'.last \in Times /\ metadata'.last >= metadata.last
  /\ metadata'.next < metadata.next
       => \E r \in Runs : /\ runs[r].phase = "skipping"
                          /\ metadata'.next = runs[r].now + RetryTime

LEMMA OneRunSave ==
  ASSUME OneRun, OneRunInv, NEW r \in Runs, runs[r].phase # "idle",
         \/ metadata' = Saved(runs[r]) /\ runs[r].phase \in {"applied", "skipping"}
         \/ metadata' = SavedAfterFailure(runs[r]),
         runs' = [runs EXCEPT ![r] = Idle],
         UNCHANGED <<clock, listed, changes, copy, applied>>
  PROVE  ReadCurrent' /\ SaveProperties
<1>1. /\ runs[r] \in Run /\ metadata \in Metadata
      /\ clock \in Times /\ runs[r].now \in 1 .. clock
  BY DEF OneRunInv, TypeInv, TypeOK, Started
<1>2. /\ runs[r].now \in Times /\ runs[r].now \in Nat /\ runs[r].now <= clock
      /\ runs[r].next \in Nat /\ metadata.next \in Nat /\ Times \subseteq Nat
  BY <1>1, FeedAssumption DEF Times, Run, Metadata
<1>3. /\ runs[r].last = metadata.last
      /\ metadata.last \in Times => metadata.last <= runs[r].now
      /\ IF runs[r].phase = "skipping"
         THEN runs[r].next = metadata.next
         ELSE metadata.next <= runs[r].now
      /\ runs[r].phase = "applied" => runs[r].now <= runs[r].next
      /\ metadata.last \in Times => metadata.last <= clock
  BY DEF OneRunInv, ReadCurrent
<1>4. \A q \in Runs : runs'[q].phase = "idle"
  BY DEF OneRun, OneRunInv, TypeInv, TypeOK, Idle
<1>5. CASE metadata' = Saved(runs[r]) /\ runs[r].phase \in {"applied", "skipping"}
  <2>1. metadata'.last = runs[r].now /\ metadata'.next = runs[r].next
    BY <1>5 DEF Saved
  <2>2. metadata'.next >= metadata.next
    BY <1>2, <1>3, <1>5, <2>1
  <2> QED BY <1>2, <1>3, <1>4, <2>1, <2>2 DEF ReadCurrent, SaveProperties
<1>6. CASE metadata' = SavedAfterFailure(runs[r])
  <2>1. /\ metadata'.last = Stored(metadata.last)
        /\ metadata'.next = runs[r].now + RetryTime
    BY <1>3, <1>6 DEF SavedAfterFailure
  <2>2. /\ metadata.last \in Times => metadata'.last = metadata.last
        /\ metadata'.last \in Times => metadata.last \in Times
    BY <2>1, FeedAssumption DEF Stored
  <2>3. runs[r].phase # "skipping" => metadata'.next >= metadata.next
    BY <1>2, <1>3, <2>1, FeedAssumption
  <2>4. ReadCurrent'
    BY <1>3, <1>4, <2>2 DEF ReadCurrent
  <2>5. metadata'.next < metadata.next => runs[r].phase = "skipping"
    BY <1>2, <2>1, <2>3, FeedAssumption
  <2>6. metadata.last \in Times => metadata'.last >= metadata.last
    <3> SUFFICES ASSUME metadata.last \in Times PROVE metadata'.last >= metadata.last
      OBVIOUS
    <3>1. metadata.last \in Nat /\ metadata'.last = metadata.last
      BY <1>2, <2>2
    <3> QED BY <3>1
  <2> QED BY <2>1, <2>2, <2>4, <2>5, <2>6 DEF SaveProperties
<1> QED BY <1>5, <1>6

LEMMA OneRunNext ==
  OneRun /\ OneRunInv /\ [Next]_vars
    => OneRunInv' /\ (metadata' # metadata => SaveProperties)
<1> SUFFICES ASSUME OneRun, OneRunInv, [Next]_vars
             PROVE  ReadCurrent' /\ (metadata' # metadata => SaveProperties)
  BY TypeNext DEF OneRunInv
<1>0. /\ clock \in Times /\ Times \subseteq Nat /\ metadata \in Metadata
      /\ runs \in [Runs -> Run]
  BY DEF OneRunInv, TypeInv, TypeOK, Times
<1>1. CASE Tick
  <2>1. clock' = clock + 1 /\ UNCHANGED <<metadata, runs>>
    BY <1>1 DEF Tick
  <2>2. metadata.last \in Times => metadata.last <= clock'
    <3> SUFFICES ASSUME metadata.last \in Times PROVE metadata.last <= clock'
      OBVIOUS
    <3>1. metadata.last \in Nat /\ clock \in Nat
      BY <1>0
    <3>2. metadata.last <= clock
      BY DEF OneRunInv, ReadCurrent
    <3> QED BY <2>1, <3>1, <3>2
  <2> QED BY <2>1, <2>2 DEF OneRunInv, ReadCurrent
<1>2. CASE Publish
  BY <1>2 DEF Publish, OneRunInv, ReadCurrent
<1>3. ASSUME NEW r \in Runs, StartRun(r)
      PROVE  ReadCurrent' /\ metadata' = metadata
  <2>1. /\ runs'[r].now = clock /\ runs'[r].last = metadata.last
        /\ runs'[r].next = metadata.next
        /\ runs'[r].phase = IF metadata.next > clock THEN "skipping" ELSE "asking"
    BY <1>0, <1>3 DEF StartRun, Idle
  <2>2. \A q \in Runs : q = r
    BY DEF OneRun
  <2>3. UNCHANGED <<clock, metadata>>
    BY <1>3 DEF StartRun
  <2>4. metadata.next > clock \/ metadata.next <= clock
    BY <1>0 DEF Metadata
  <2> QED BY <2>1, <2>2, <2>3, <2>4 DEF OneRunInv, ReadCurrent
<1>4. ASSUME NEW r \in Runs, Answer(r)
      PROVE  ReadCurrent' /\ metadata' = metadata
  BY <1>0, <1>4 DEF Answer, OneRunInv, ReadCurrent, Run
<1>5. ASSUME NEW r \in Runs, Apply(r)
      PROVE  ReadCurrent' /\ metadata' = metadata
  <2>1. /\ runs'[r].phase = "applied" /\ runs'[r].now = runs[r].now
        /\ runs'[r].last = runs[r].last /\ runs'[r].next = clock + PollTime
        /\ runs[r].phase = "answered"
    BY <1>0, <1>5 DEF Apply, Run
  <2>2. runs[r].now \in 1 .. clock
    BY <2>1 DEF OneRunInv, TypeInv, Started
  <2>3. runs'[r].now <= runs'[r].next
    BY <1>0, <2>1, <2>2, FeedAssumption
  <2>4. \A q \in Runs : q = r
    BY DEF OneRun
  <2>5. UNCHANGED <<clock, metadata>>
    BY <1>5 DEF Apply
  <2> QED BY <2>1, <2>3, <2>4, <2>5 DEF OneRunInv, ReadCurrent
<1>6. ASSUME NEW r \in Runs, Finish(r) PROVE ReadCurrent' /\ SaveProperties
  BY <1>6, OneRunSave DEF Finish
<1>7. ASSUME NEW r \in Runs, Fail(r) PROVE ReadCurrent' /\ SaveProperties
  BY <1>7, OneRunSave DEF Fail
<1>8. ASSUME NEW r \in Runs, Crash(r)
      PROVE  ReadCurrent' /\ metadata' = metadata
  BY <1>0, <1>8 DEF Crash, OneRunInv, ReadCurrent, Idle
<1>9. CASE UNCHANGED vars
  BY <1>9 DEF vars, OneRunInv, ReadCurrent
<1> QED BY <1>1, <1>2, <1>3, <1>4, <1>5, <1>6, <1>7, <1>8, <1>9
        DEF Next, Tick, Publish, vars

LEMMA OneRunAlways == ASSUME OneRun PROVE Spec => []OneRunInv
<1>1. OneRunInv /\ [Next]_vars => OneRunInv'
  BY OneRunNext
<1> QED BY <1>1, OneRunInit, PTL DEF Spec

(* With one run at a time, a saved time of the last update is never lost   *)
(* or put back, whatever fails, comes early or is lost on the way.         *)
THEOREM BaselineNeverBack == ASSUME OneRun PROVE Spec => BaselineKept
<1>1. OneRunInv /\ [Next]_vars
        => [metadata.last \in Times => metadata'.last \in Times
                                       /\ metadata'.last >= metadata.last]_vars
  BY OneRunNext DEF SaveProperties, OneRunInv, TypeInv, TypeOK, Times
<1> QED BY <1>1, OneRunAlways, PTL DEF Spec, BaselineKept

(* With one run at a time, only a skipped run whose save fails puts the    *)
(* time of the next run back.                                              *)
THEOREM ScheduleNeverBack == ASSUME OneRun PROVE Spec => ScheduleKept
<1>1. OneRunInv /\ [Next]_vars
        => [metadata'.next < metadata.next
              => \E r \in Runs : /\ runs[r].phase = "skipping"
                                 /\ metadata'.next = runs[r].now + RetryTime]_vars
  BY OneRunNext DEF SaveProperties, OneRunInv, TypeInv, TypeOK, Metadata
<1> QED BY <1>1, OneRunAlways, PTL DEF Spec, ScheduleKept
-----------------------------------------------------------------------------
(* The poll time                                                           *)

(* From an update on, the time of the next run is at least a poll time     *)
(* after the answer it applied: the run has it until it is saved, the      *)
(* metadata after, and a run that asks has waited for it.                  *)
Pace ==
  /\ \A r \in Runs : runs[r].phase = "answered" => runs[r].at <= clock
  /\ applied # 0 =>
       /\ \A r \in Runs :
            /\ runs[r].phase = "applied" => runs[r].next >= applied + PollTime
            /\ runs[r].phase \in {"asking", "answered"}
                 => runs[r].now >= applied + PollTime
       /\ (\A r \in Runs : runs[r].phase # "applied")
            => metadata.next >= applied + PollTime

NoLostSave == "lost save" \notin Disturbances

PaceInv == OneRunInv /\ Pace

LEMMA PaceInit == Init => Pace
  BY DEF Init, Pace, Idle

(* A save hands the time on that the run or the metadata had.              *)
LEMMA PaceSave ==
  ASSUME OneRun, PaceInv, NEW r \in Runs,
         \/ /\ metadata' = Saved(runs[r])
            /\ runs[r].phase \in {"applied", "skipping"}
         \/ /\ metadata' = SavedAfterFailure(runs[r])
            /\ runs[r].phase \in {"asking", "answered"},
         runs' = [runs EXCEPT ![r] = Idle],
         UNCHANGED <<clock, applied>>
  PROVE  Pace'
<1>1. /\ runs[r].now \in Nat /\ applied \in Nat
      /\ PollTime \in Nat /\ RetryTime \in Nat
  BY FeedAssumption DEF PaceInv, OneRunInv, TypeInv, TypeOK, Times, Run
<1>2. \A q \in Runs : q = r /\ runs'[q].phase = "idle"
  BY DEF OneRun, PaceInv, OneRunInv, TypeInv, TypeOK, Idle
<1>3. SUFFICES ASSUME applied # 0 PROVE metadata'.next >= applied + PollTime
  BY <1>2 DEF Pace
<1>4. CASE metadata' = Saved(runs[r]) /\ runs[r].phase = "applied"
  BY <1>3, <1>4 DEF Saved, PaceInv, Pace
<1>5. CASE metadata' = Saved(runs[r]) /\ runs[r].phase = "skipping"
  <2>1. runs[r].next = metadata.next
    BY <1>5 DEF PaceInv, OneRunInv, ReadCurrent
  <2>2. metadata.next >= applied + PollTime
    BY <1>2, <1>3, <1>5 DEF PaceInv, Pace
  <2> QED BY <1>5, <2>1, <2>2 DEF Saved
<1>6. CASE /\ metadata' = SavedAfterFailure(runs[r])
           /\ runs[r].phase \in {"asking", "answered"}
  <2>1. runs[r].now >= applied + PollTime
    BY <1>3, <1>6 DEF PaceInv, Pace
  <2>2. metadata'.next = runs[r].now + RetryTime
    BY <1>6 DEF SavedAfterFailure
  <2> QED BY <1>1, <2>1, <2>2
<1> QED BY <1>4, <1>5, <1>6

LEMMA PaceNext == OneRun /\ NoLostSave /\ PaceInv /\ [Next]_vars => PaceInv'
<1> SUFFICES ASSUME OneRun, NoLostSave, PaceInv, [Next]_vars PROVE Pace'
  BY OneRunNext DEF PaceInv
<1>0. /\ clock \in Nat /\ applied \in Nat /\ metadata \in Metadata
      /\ runs \in [Runs -> Run] /\ PollTime \in Nat
  BY FeedAssumption DEF PaceInv, OneRunInv, TypeInv, TypeOK, Times
<1>1. CASE Tick
  <2>1. \A r \in Runs : runs[r].at \in Nat
    BY <1>0 DEF Run, Times
  <2>2. clock' = clock + 1 /\ UNCHANGED <<applied, metadata, runs>>
    BY <1>1 DEF Tick
  <2> QED BY <1>0, <2>1, <2>2 DEF PaceInv, Pace
<1>2. CASE Publish
  BY <1>2 DEF Publish, PaceInv, Pace
<1>3. ASSUME NEW r \in Runs, StartRun(r) PROVE Pace'
  <2>1. /\ runs'[r].now = clock /\ runs[r].phase = "idle"
        /\ runs'[r].phase = IF metadata.next > clock THEN "skipping" ELSE "asking"
    BY <1>0, <1>3 DEF StartRun, Idle
  <2>2. \A q \in Runs : q = r
    BY DEF OneRun
  <2>3. UNCHANGED <<clock, applied, metadata>>
    BY <1>3 DEF StartRun
  <2>4. applied # 0 => metadata.next >= applied + PollTime
    BY <2>1, <2>2 DEF PaceInv, Pace
  <2>5. runs'[r].phase = "asking" => metadata.next <= clock
    BY <1>0, <2>1 DEF Metadata
  <2>6. metadata.next \in Nat
    BY <1>0 DEF Metadata
  <2> QED BY <1>0, <2>1, <2>2, <2>3, <2>4, <2>5, <2>6 DEF Pace
<1>4. ASSUME NEW r \in Runs, Answer(r) PROVE Pace'
  <2>1. /\ runs'[r].phase = "answered" /\ runs[r].phase = "asking"
        /\ runs'[r].now = runs[r].now /\ runs'[r].at = clock
    BY <1>0, <1>4 DEF Answer, Run
  <2>2. \A q \in Runs : q = r
    BY DEF OneRun
  <2>3. UNCHANGED <<clock, applied, metadata>>
    BY <1>4 DEF Answer
  <2> QED BY <1>0, <2>1, <2>2, <2>3 DEF PaceInv, Pace
<1>5. ASSUME NEW r \in Runs, Apply(r) PROVE Pace'
  <2>1. /\ runs[r].phase = "answered" /\ runs'[r].phase = "applied"
        /\ runs'[r].next = clock + PollTime /\ applied' = runs[r].at
    BY <1>0, <1>5 DEF Apply, Run
  <2>2. \A q \in Runs : q = r
    BY DEF OneRun
  <2>3. runs[r].at <= clock /\ runs[r].at \in Nat
    BY <1>0, <2>1 DEF PaceInv, Pace, Run, Times
  <2>4. runs'[r].next >= applied' + PollTime
    BY <1>0, <2>1, <2>3
  <2> QED BY <2>1, <2>2, <2>4 DEF Pace
<1>6. ASSUME NEW r \in Runs, Finish(r) PROVE Pace'
  BY <1>6, PaceSave DEF Finish
<1>7. ASSUME NEW r \in Runs, Fail(r) PROVE Pace'
  <2>1. runs[r].phase \in {"asking", "answered"}
    BY <1>7 DEF Fail, NoLostSave
  <2> QED BY <1>7, <2>1, PaceSave DEF Fail
<1>8. ASSUME NEW r \in Runs, Crash(r) PROVE Pace'
  <2>1. runs[r].phase # "applied" /\ runs'[r].phase = "idle"
    BY <1>0, <1>8 DEF Crash, NoLostSave, Idle
  <2>2. \A q \in Runs : q = r
    BY DEF OneRun
  <2>3. UNCHANGED <<clock, applied, metadata>>
    BY <1>8 DEF Crash
  <2> QED BY <2>1, <2>2, <2>3 DEF PaceInv, Pace
<1>9. CASE UNCHANGED vars
  BY <1>9 DEF vars, PaceInv, Pace
<1> QED BY <1>1, <1>2, <1>3, <1>4, <1>5, <1>6, <1>7, <1>8, <1>9 DEF Next

(* With one run at a time whose save is not lost, a publisher is not asked *)
(* again before the poll time after its last answer is over, however runs  *)
(* come early, fail, are delayed and crash.                                *)
THEOREM NeverAskedTooSoon ==
  ASSUME OneRun, NoLostSave PROVE Spec => []PolledSeldom
<1>1. Init => PaceInv
  BY OneRunInit, PaceInit DEF PaceInv
<1>2. PaceInv /\ [Next]_vars => PaceInv'
  BY PaceNext
<1>3. PaceInv => PolledSeldom
  BY DEF PaceInv, Pace, PolledSeldom
<1> QED BY <1>1, <1>2, <1>3, PTL DEF Spec

-----------------------------------------------------------------------------
(* The copy mirrors the feed                                               *)

(* What is listed now is listed from now on, and a later version of an     *)
(* offer is never an older one.                                            *)
Held == \A t \in Times : t >= clock => listed[t] = listed[clock]

Grows ==
  \A o \in Offers, s, t \in Times :
    s <= t /\ t <= clock /\ listed[t][o] # Unlisted => listed[s][o] <= listed[t][o]

(* A run in flight started now; its answer says what is listed now and     *)
(* what was listed when the stored time was the time.                      *)
Prompt ==
  \A r \in Runs :
    LET run == runs[r] IN
    /\ run.phase # "idle" => run.now = clock /\ run.phase # "skipping"
    /\ run.phase = "answered" =>
         /\ run.last # Null /\ run.at = clock /\ run.to = listed[clock]
         /\ run.from = IF AsksSnapshot(run) THEN Nothing ELSE listed[run.last]

(* The stored time is the time of the update applied last, except between  *)
(* the two transactions of a run.                                          *)
AppliedSaved ==
  IF \E r \in Runs : runs[r].phase = "applied"
  THEN applied = clock
  ELSE applied = IF metadata.last \in Times THEN metadata.last ELSE 0

(* The copy holds the offers of the update applied last, at most as new.   *)
Follows(content) ==
  \A o \in Offers : /\ copy[o] = Unlisted <=> content[o] = Unlisted
                    /\ copy[o] <= content[o]

CopyFollows ==
  /\ applied = 0 => copy = Nothing
  /\ applied # 0 => applied <= clock /\ Follows(listed[applied])

MirrorInv == OneRunInv /\ Held /\ Grows /\ Prompt /\ AppliedSaved /\ CopyFollows

(* Runs start when they are due, take no time and save what they did;      *)
(* requests and transactions may fail.                                     *)
Undisturbed == MaxDelay = 0 /\ Disturbances \subseteq {"failure"}

LEMMA VersionsAreNumbers == Versions \cup {Unlisted} \subseteq Nat
  BY FeedAssumption DEF Unlisted

LEMMA MirrorInit == Init => MirrorInv
<1> SUFFICES ASSUME Init PROVE MirrorInv
  OBVIOUS
<1>1. OneRunInv
  BY OneRunInit
<1>2. Held /\ Grows
  BY FeedAssumption DEF Init, Held, Grows, Times, Nothing, Unlisted
<1>3. Prompt
  BY DEF Init, Prompt, Idle
<1>4. AppliedSaved
  BY FeedAssumption DEF Init, AppliedSaved, Idle, NoMetadata
<1>5. CopyFollows
  BY DEF Init, CopyFollows
<1> QED BY <1>1, <1>2, <1>3, <1>4, <1>5 DEF MirrorInv

(* The one run ends and the stored time is that of the update applied last.*)
LEMMA MirrorRunEnds ==
  ASSUME OneRun, MirrorInv, NEW r \in Runs, runs' = [runs EXCEPT ![r] = Idle],
         UNCHANGED <<clock, listed, changes, copy, applied>>,
         applied = IF metadata'.last \in Times THEN metadata'.last ELSE 0
  PROVE  Held' /\ Grows' /\ Prompt' /\ AppliedSaved' /\ CopyFollows'
<1>1. \A q \in Runs : runs'[q].phase = "idle"
  BY DEF OneRun, MirrorInv, OneRunInv, TypeInv, TypeOK, Idle
<1>2. Prompt' /\ AppliedSaved'
  BY <1>1 DEF Prompt, AppliedSaved
<1>3. Held' /\ Grows' /\ CopyFollows'
  BY DEF MirrorInv, Held, Grows, CopyFollows, Follows
<1> QED BY <1>2, <1>3

(* The answer fits the copy: what it makes of an offer is what following   *)
(* the feed promises.                                                      *)
LEMMA ApplyCatchesUp ==
  ASSUME OneRun, MirrorInv, NEW r \in Runs, runs[r].phase = "answered", NEW o \in Offers,
         NEW v \in IF AsksSnapshot(runs[r]) THEN Snapshotted(o, runs[r])
                                            ELSE Differed(o, runs[r])
  PROVE  /\ v \in Mirror!Caught(o)
         /\ v = Unlisted <=> listed[clock][o] = Unlisted
         /\ v <= listed[clock][o]
<1> DEFINE run == runs[r]
           shown == listed[clock][o]
<1>1. /\ run \in Run /\ clock \in Times /\ Times \subseteq Nat
      /\ copy[o] \in Nat /\ shown \in Nat
  BY VersionsAreNumbers DEF MirrorInv, OneRunInv, TypeInv, TypeOK, Listing, Times
<1>2. /\ run.last # Null /\ run.to = listed[clock] /\ run.now = clock
      /\ run.from = IF AsksSnapshot(run) THEN Nothing ELSE listed[run.last]
  BY DEF MirrorInv, Prompt
<1>3. run.last = metadata.last
  BY DEF MirrorInv, OneRunInv, ReadCurrent
<1>4. applied = IF metadata.last \in Times THEN metadata.last ELSE 0
  BY DEF OneRun, MirrorInv, AppliedSaved
<1>5. CASE AsksSnapshot(run)
  <2>1. copy[o] = Unlisted /\ v \in Snapshotted(o, run)
    BY <1>3, <1>4, <1>5, FeedAssumption
       DEF AsksSnapshot, MirrorInv, CopyFollows, Nothing
  <2>2. v = shown
    BY <1>1, <1>2, <2>1 DEF Snapshotted, Leaves, Greater, Unlisted
  <2> QED BY <1>1, <2>1, <2>2 DEF Mirror!Caught, Mirror!Absent, Unlisted
<1>6. CASE ~ AsksSnapshot(run)
  <2>1. run.last \in Times /\ applied = run.last /\ run.from = listed[applied]
    BY <1>1, <1>2, <1>3, <1>4, <1>6 DEF AsksSnapshot, Run
  <2>2. /\ applied <= clock
        /\ copy[o] = Unlisted <=> run.from[o] = Unlisted
        /\ copy[o] <= run.from[o]
    <3>1. applied # 0
      BY <2>1 DEF Times
    <3> QED BY <2>1, <3>1 DEF MirrorInv, CopyFollows, Follows
  <2>3. run.from[o] \in Nat
    BY <2>1, VersionsAreNumbers DEF MirrorInv, OneRunInv, TypeInv, TypeOK, Listing
  <2>4. shown # Unlisted => run.from[o] <= shown
    <3>1. applied \in Times /\ applied <= clock /\ clock <= clock
      BY <1>1, <2>1, <2>2
    <3>2. shown # Unlisted => listed[applied][o] <= shown
      BY <1>1, <3>1 DEF MirrorInv, Grows
    <3> QED BY <2>1, <3>2
  <2>5. v \in Differed(o, run) /\ run.to[o] = shown
    BY <1>2, <1>6
  <2>6. CASE run.from = Nothing
    <3>1. v = shown /\ copy[o] = Unlisted
      <4>1. copy[o] = Unlisted /\ v \in Renewed(o, run)
        BY <2>2, <2>5, <2>6 DEF Differed, Nothing
      <4>2. v = IF shown = Unlisted THEN Unlisted ELSE Greater(Unlisted, shown)
        BY <2>5, <4>1 DEF Renewed, Leaves
      <4> QED BY <1>1, <4>1, <4>2 DEF Greater, Unlisted
    <3> QED BY <1>1, <3>1 DEF Mirror!Caught, Mirror!Absent, Unlisted
  <2>7. CASE run.from # Nothing /\ run.from[o] = shown
    <3>1. v = copy[o]
      BY <2>5, <2>7 DEF Differed
    <3> QED BY <1>1, <2>2, <2>7, <3>1 DEF Mirror!Caught, Mirror!Absent, Unlisted
  <2>8. CASE run.from # Nothing /\ run.from[o] # shown /\ shown = Unlisted
    <3>1. v = Unlisted
      BY <2>5, <2>8 DEF Differed
    <3> QED BY <2>8, <3>1 DEF Mirror!Caught, Mirror!Absent, Unlisted
  <2>9. CASE run.from # Nothing /\ run.from[o] # shown /\ shown # Unlisted /\ run.from[o] = Unlisted
    <3>1. v = Greater(copy[o], shown) /\ copy[o] = Unlisted
      BY <2>2, <2>5, <2>9 DEF Differed
    <3> QED BY <1>1, <2>9, <3>1 DEF Mirror!Caught, Mirror!Absent, Unlisted, Greater
  <2>10. CASE run.from # Nothing /\ run.from[o] # shown /\ shown # Unlisted /\ run.from[o] # Unlisted
    <3>1. v \in Patched(o, run) /\ copy[o] # Unlisted
      BY <2>2, <2>5, <2>10 DEF Differed
    <3>2. v \in {copy[o], Greater(copy[o], run.from[o])}
      BY <3>1 DEF Patched
    <3>3. v \in Nat /\ copy[o] <= v /\ v <= shown
      BY <1>1, <2>2, <2>3, <2>4, <2>10, <3>2 DEF Greater
    <3>4. v # Unlisted
      BY <1>1, <3>1, <3>3 DEF Unlisted
    <3> QED BY <1>1, <2>10, <3>1, <3>3, <3>4 DEF Mirror!Caught, Mirror!Absent, Unlisted
  <2> QED BY <2>6, <2>7, <2>8, <2>9, <2>10
<1> QED BY <1>5, <1>6

LEMMA MirrorApply ==
  ASSUME OneRun, MirrorInv, NEW r \in Runs, Apply(r)
  PROVE  /\ Mirror!Round
         /\ Held' /\ Grows' /\ Prompt' /\ AppliedSaved' /\ CopyFollows'
<1>1. /\ runs[r].phase = "answered" /\ copy' \in Listing
      /\ \A o \in Offers :
           copy'[o] \in IF AsksSnapshot(runs[r]) THEN Snapshotted(o, runs[r])
                                                 ELSE Differed(o, runs[r])
      /\ UNCHANGED <<clock, listed, metadata>>
  BY DEF Apply
<1>2. /\ runs[r].now = clock /\ runs[r].at = clock /\ applied' = clock
  BY <1>1 DEF Apply, MirrorInv, Prompt
<1>3. runs'[r].phase = "applied" /\ runs'[r].now = clock /\ \A q \in Runs : q = r
  BY <1>1, <1>2 DEF Apply, OneRun, MirrorInv, OneRunInv, TypeInv, TypeOK, Run
<1>4. \A o \in Offers : /\ copy'[o] \in Mirror!Caught(o)
                        /\ copy'[o] = Unlisted <=> listed[clock][o] = Unlisted
                        /\ copy'[o] <= listed[clock][o]
  BY <1>1, ApplyCatchesUp
<1>5. Mirror!Round
  <2>1. Mirror!Content = Listing
    BY DEF Mirror!Content, Mirror!Absent, Listing, Unlisted
  <2> QED BY <1>1, <1>4, <2>1 DEF Mirror!Round
<1>6. clock \in Times /\ Times \subseteq Nat \ {0}
  BY DEF MirrorInv, OneRunInv, TypeInv, TypeOK, Times
<1>7. CopyFollows'
  BY <1>1, <1>2, <1>4, <1>6 DEF CopyFollows, Follows
<1>8. Prompt' /\ AppliedSaved'
  BY <1>1, <1>2, <1>3 DEF Prompt, AppliedSaved
<1>9. Held' /\ Grows'
  BY <1>1 DEF MirrorInv, Held, Grows
<1> QED BY <1>5, <1>7, <1>8, <1>9

LEMMA MirrorPublish ==
  ASSUME OneRun, MirrorInv, Publish
  PROVE  /\ Mirror!Change
         /\ Held' /\ Grows' /\ Prompt' /\ AppliedSaved' /\ CopyFollows'
<1>1. PICK new \in Listing :
        /\ \A o \in Offers, t \in 1 .. clock : new[o] # Unlisted => listed[t][o] <= new[o]
        /\ listed' = [t \in Times |-> IF t < clock THEN listed[t] ELSE new]
  BY DEF Publish
<1>2. /\ applied # clock /\ \A r \in Runs : runs[r].at # clock
      /\ UNCHANGED <<clock, copy, applied, metadata, runs>>
  BY DEF Publish
<1>3. clock \in Times /\ Times \subseteq Nat \ {0}
  BY DEF MirrorInv, OneRunInv, TypeInv, TypeOK, Times
<1>4. \A t \in Times : listed'[t] = IF t < clock THEN listed[t] ELSE new
  BY <1>1
<1>5. Mirror!Change
  <2>1. listed'[clock'] \in Mirror!Content
    BY <1>2, <1>3, <1>4 DEF Mirror!Content, Mirror!Absent, Listing, Unlisted
  <2> QED BY <1>2, <2>1 DEF Mirror!Change
<1>6. Held'
  BY <1>2, <1>3, <1>4 DEF Held
<1>7. Grows'
  <2> SUFFICES ASSUME NEW o \in Offers, NEW s \in Times, NEW t \in Times,
                      s <= t, t <= clock, listed'[t][o] # Unlisted
               PROVE  listed'[s][o] <= listed'[t][o]
    BY <1>2 DEF Grows
  <2>1. CASE t < clock
    <3>1. s < clock
      BY <1>3, <2>1
    <3> QED BY <1>4, <2>1, <3>1 DEF MirrorInv, Grows
  <2>2. CASE t = clock
    <3>1. listed'[t] = new /\ new[o] \in Nat
      BY <1>3, <1>4, <2>2, VersionsAreNumbers DEF Listing
    <3>2. CASE s < clock
      <4>1. s \in 1 .. clock /\ listed'[s] = listed[s]
        BY <1>3, <1>4, <3>2
      <4> QED BY <1>1, <3>1, <4>1
    <3>3. CASE s = clock
      BY <1>4, <3>1, <3>3, <2>2
    <3> QED BY <1>3, <2>2, <3>2, <3>3
  <2> QED BY <1>3, <2>1, <2>2
<1>8. Prompt'
  BY <1>2 DEF MirrorInv, Prompt
<1>9. AppliedSaved'
  BY <1>2 DEF MirrorInv, AppliedSaved
<1>10. CopyFollows'
  <2>1. applied # 0 => applied \in Times /\ applied < clock
    BY <1>2, <1>3 DEF MirrorInv, CopyFollows, OneRunInv, TypeInv, TypeOK
  <2>2. applied # 0 => listed'[applied] = listed[applied]
    BY <1>4, <2>1
  <2> QED BY <1>2, <2>2 DEF MirrorInv, CopyFollows, Follows
<1> QED BY <1>5, <1>6, <1>7, <1>8, <1>9, <1>10

(* Every step that neither changes the feed nor applies an answer leaves   *)
(* the feed and the copy as they are.                                      *)
LEMMA MirrorNext ==
  OneRun /\ Undisturbed /\ MirrorInv /\ [Next]_vars
    => MirrorInv' /\ [Mirror!Next]_(Mirror!vars)
<1> SUFFICES ASSUME OneRun, Undisturbed, MirrorInv, [Next]_vars
             PROVE  /\ Held' /\ Grows' /\ Prompt' /\ AppliedSaved' /\ CopyFollows'
                    /\ [Mirror!Next]_(Mirror!vars)
  BY OneRunNext DEF MirrorInv
<1>0. /\ clock \in Times /\ Times \subseteq Nat \ {0} /\ runs \in [Runs -> Run]
      /\ \A q, r \in Runs : q = r
  BY DEF MirrorInv, OneRunInv, TypeInv, TypeOK, Times, OneRun
<1>1. CASE Tick
  <2>1. clock' = clock + 1 /\ UNCHANGED <<listed, changes, copy, applied, metadata, runs>>
    BY <1>1 DEF Tick
  <2>2. clock' \in Times /\ clock < clock'
    BY <1>0, <1>1, FeedAssumption DEF Tick, Times
  <2>3. \A r \in Runs : runs[r].phase = "idle"
    <3> SUFFICES ASSUME NEW r \in Runs, runs[r].phase # "idle" PROVE FALSE
      OBVIOUS
    <3>1. runs[r].now = clock
      BY DEF MirrorInv, Prompt
    <3>2. clock - runs[r].now < 0
      BY <1>1 DEF Tick, Undisturbed
    <3> QED BY <1>0, <3>1, <3>2
  <2>4. listed[clock'] = listed[clock]
    BY <1>0, <2>2 DEF MirrorInv, Held
  <2>5. Held'
    BY <1>0, <2>1, <2>2, <2>4 DEF MirrorInv, Held
  <2>6. Grows'
    <3> SUFFICES ASSUME NEW o \in Offers, NEW s \in Times, NEW t \in Times,
                        s <= t, t <= clock + 1, listed[t][o] # Unlisted
                 PROVE  listed[s][o] <= listed[t][o]
      BY <2>1 DEF Grows
    <3>1. CASE t <= clock
      BY <3>1 DEF MirrorInv, Grows
    <3>2. CASE t = clock + 1
      <4>1. listed[t] = listed[clock]
        BY <2>1, <2>4, <3>2
      <4>2. CASE s <= clock
        <5>1. clock <= clock
          BY <1>0
        <5> QED BY <1>0, <4>1, <4>2, <5>1 DEF MirrorInv, Grows
      <4>3. CASE s = t
        <5>1. listed[t][o] \in Nat
          BY VersionsAreNumbers DEF MirrorInv, OneRunInv, TypeInv, TypeOK, Listing
        <5> QED BY <4>3, <5>1
      <4> QED BY <1>0, <3>2, <4>2, <4>3
    <3> QED BY <1>0, <3>1, <3>2
  <2>7. Prompt'
    BY <2>1, <2>3 DEF Prompt
  <2>8. AppliedSaved'
    BY <2>1, <2>3 DEF MirrorInv, AppliedSaved
  <2>9. CopyFollows'
    <3>1. applied # 0 => applied <= clock'
      BY <1>0, <2>1 DEF MirrorInv, CopyFollows, OneRunInv, TypeInv, TypeOK
    <3> QED BY <2>1, <3>1 DEF MirrorInv, CopyFollows, Follows
  <2> QED BY <2>1, <2>4, <2>5, <2>6, <2>7, <2>8, <2>9 DEF Mirror!vars
<1>2. CASE Publish
  BY <1>2, MirrorPublish DEF Mirror!Next
<1>3. ASSUME NEW r \in Runs, StartRun(r)
      PROVE  /\ Held' /\ Grows' /\ Prompt' /\ AppliedSaved' /\ CopyFollows'
             /\ UNCHANGED Mirror!vars
  <2>1. /\ ~ (metadata.next > clock) /\ runs[r].phase = "idle"
        /\ UNCHANGED <<clock, listed, copy, applied, metadata>>
    BY <1>3 DEF StartRun, Undisturbed
  <2>2. runs'[r].now = clock /\ runs'[r].phase = "asking"
    BY <1>0, <1>3, <2>1 DEF StartRun, Idle
  <2>3. Prompt'
    BY <1>0, <2>1, <2>2 DEF Prompt
  <2>4. AppliedSaved'
    BY <1>0, <2>1, <2>2 DEF MirrorInv, AppliedSaved
  <2> QED BY <2>1, <2>3, <2>4 DEF MirrorInv, Held, Grows, CopyFollows, Follows, Mirror!vars
<1>4. ASSUME NEW r \in Runs, Answer(r)
      PROVE  /\ Held' /\ Grows' /\ Prompt' /\ AppliedSaved' /\ CopyFollows'
             /\ UNCHANGED Mirror!vars
  <2>1. /\ runs[r].phase = "asking" /\ runs[r].last # Null
        /\ UNCHANGED <<clock, listed, copy, applied, metadata>>
    BY <1>4 DEF Answer
  <2>2. /\ runs'[r].phase = "answered" /\ runs'[r].now = runs[r].now
        /\ runs'[r].last = runs[r].last
        /\ runs'[r].at = clock /\ runs'[r].to = listed[clock]
        /\ runs'[r].from = IF AsksSnapshot(runs[r]) THEN Nothing ELSE listed[runs[r].last]
    BY <1>0, <1>4 DEF Answer, Run
  <2>3. runs[r].now = clock
    BY <2>1 DEF MirrorInv, Prompt
  <2>4. Prompt'
    BY <1>0, <2>1, <2>2, <2>3 DEF Prompt, AsksSnapshot
  <2>5. AppliedSaved'
    BY <1>0, <2>1, <2>2 DEF MirrorInv, AppliedSaved
  <2> QED BY <2>1, <2>4, <2>5 DEF MirrorInv, Held, Grows, CopyFollows, Follows, Mirror!vars
<1>5. ASSUME NEW r \in Runs, Apply(r)
      PROVE  /\ Held' /\ Grows' /\ Prompt' /\ AppliedSaved' /\ CopyFollows'
             /\ Mirror!Next
  BY <1>5, MirrorApply DEF Mirror!Next
<1>6. ASSUME NEW r \in Runs, Finish(r)
      PROVE  /\ Held' /\ Grows' /\ Prompt' /\ AppliedSaved' /\ CopyFollows'
             /\ UNCHANGED Mirror!vars
  <2>1. runs[r].phase = "applied"
    BY <1>6 DEF Finish, MirrorInv, Prompt
  <2>2. applied = clock /\ metadata'.last = clock
    BY <1>6, <2>1 DEF Finish, Saved, MirrorInv, AppliedSaved, Prompt
  <2> QED BY <1>0, <1>6, <2>2, MirrorRunEnds DEF Finish, Mirror!vars
<1>7. ASSUME NEW r \in Runs, Fail(r)
      PROVE  /\ Held' /\ Grows' /\ Prompt' /\ AppliedSaved' /\ CopyFollows'
             /\ UNCHANGED Mirror!vars
  <2>1. runs[r].phase \in {"asking", "answered"}
    BY <1>7 DEF Fail, Undisturbed
  <2>2. runs[r].last = metadata.last
    BY <2>1 DEF MirrorInv, OneRunInv, ReadCurrent
  <2>3. metadata'.last = Stored(metadata.last)
    BY <1>7, <2>2 DEF Fail, SavedAfterFailure
  <2>4. applied = IF metadata.last \in Times THEN metadata.last ELSE 0
    BY <1>0, <2>1 DEF MirrorInv, AppliedSaved
  <2>5. applied = IF metadata'.last \in Times THEN metadata'.last ELSE 0
    BY <2>3, <2>4, FeedAssumption DEF Stored
  <2> QED BY <1>7, <2>5, MirrorRunEnds DEF Fail, Mirror!vars
<1>8. ASSUME NEW r \in Runs, Crash(r)
      PROVE  /\ Held' /\ Grows' /\ Prompt' /\ AppliedSaved' /\ CopyFollows'
             /\ UNCHANGED Mirror!vars
  <2>1. runs[r].phase # "applied"
    BY <1>8 DEF Crash, Undisturbed
  <2>2. applied = IF metadata'.last \in Times THEN metadata'.last ELSE 0
    BY <1>0, <1>8, <2>1 DEF Crash, MirrorInv, AppliedSaved
  <2> QED BY <1>8, <2>2, MirrorRunEnds DEF Crash, Mirror!vars
<1>9. CASE UNCHANGED vars
  BY <1>9 DEF vars, MirrorInv, Held, Grows, Prompt, AppliedSaved, CopyFollows, Follows,
              AsksSnapshot, Mirror!vars
<1> QED BY <1>1, <1>2, <1>3, <1>4, <1>5, <1>6, <1>7, <1>8, <1>9 DEF Next

(* While one run at a time starts when it is due, takes no time and saves  *)
(* what it did, following a feed implements FeedMirror, whatever is        *)
(* published and whatever requests and transactions fail: each update      *)
(* leaves the copy with exactly the offers that are listed at its moment.  *)
THEOREM CopyMirrorsFeed ==
  ASSUME OneRun, Undisturbed PROVE Spec => Mirrors
<1>1. Init => Mirror!Init
  <2>1. Init => clock \in Times
    BY FeedAssumption DEF Init, Times
  <2> QED BY <2>1 DEF Init, Nothing, Unlisted, Mirror!Init, Mirror!Absent
<1>2. MirrorInv /\ [Next]_vars => MirrorInv' /\ [Mirror!Next]_(Mirror!vars)
  BY MirrorNext
<1> QED BY <1>1, <1>2, MirrorInit, PTL DEF Spec, Mirrors, Mirror!Spec
=============================================================================
