----------------------------- MODULE SqlStorage -----------------------------
(***************************************************************************)
(* The storage driver as a shared resource (integrations/sql-database/src/ *)
(* sqloprpersistentstorage.ts) and the way the offer model and the         *)
(* integration API use it (components/core/src/model/                      *)
(* persistentoffermodel.ts, server/integrationapiimpl.ts), on a database   *)
(* with a pool of connections:                                             *)
(*   - a READWRITE transaction takes a connection when it begins and keeps *)
(*     it until commit() or fail(); a call that throws does neither;       *)
(*   - a READONLY transaction is none: every page is a query of its own,   *)
(*     found by counting the rows before it, so what is committed between  *)
(*     two pages shifts the pages.                                         *)
(* Rows are numbers in the order of the query; which rows are there is all *)
(* that paging depends on.  sqlite, where every transaction shares one     *)
(* connection, is left out.                                                *)
(***************************************************************************)
EXTENDS Integers, FiniteSets, Sequences, SequencesExt

CONSTANTS
  Callers,      \* READWRITE calls, each made once
  Op,           \* [Callers -> Ops], what each call writes
  Readers,      \* READONLY calls, each made once
  Rows,         \* rows of the queried table, in its order
  OfferOf,      \* [Rows -> offers]: adjacent rows may show the same offer
  FirstRows,    \* the rows there at first
  Connections,  \* connections in the pool
  SelectPage,   \* selectPageSize, rows per query
  ResultPage,   \* maxPageSize, results per answer
  MaxCrashes    \* bound: how often the process restarts

VARIABLES
  table,    \* the committed rows
  phase,    \* initialize(): "new", "starting", "ready" or "failed"
  calls,    \* READWRITE calls: state, statements executed, place in queue
  queue,    \* calls that wait for a connection, in order
  reads,    \* READONLY calls
  crashes   \* restarts so far; bounds the model

vars == <<table, phase, calls, queue, reads, crashes>>

-----------------------------------------------------------------------------
(* What calls write.  "store": one save (storeValue, writeReject,          *)
(* writeOfferProducerMetadata).  "clear": one statement deletes many rows  *)
(* (clearAllValues).  "accept": the acceptance, then a save per viewer.    *)
(* "relist": entries are removed, then new ones saved.  "empty": an update *)
(* that specifies nothing.                                                 *)

Ops == [kind : {"store", "clear", "accept", "relist", "empty"},
        old : SUBSET Rows, new : SUBSET Rows]

Delete(rows) == [old |-> rows, new |-> {}]
Save(rows)   == [old |-> {}, new |-> rows]

RowAt(rows, i) ==
  CHOOSE row \in rows : Cardinality({ x \in rows : x <= row }) = i

Script(op) ==
  CASE op.kind = "store"  -> <<Save(op.new)>>
    [] op.kind = "clear"  -> <<Delete(op.old)>>
    [] op.kind = "accept" -> [ i \in 1 .. Cardinality(op.new) |->
                                 Save({RowAt(op.new, i)}) ]
    [] op.kind = "relist" -> <<Delete(op.old), Save(op.new)>>
    [] op.kind = "empty"  -> <<>>

(* The rows of one offer are next to each other: the query orders by       *)
(* posting organization and offer id.                                      *)
ASSUME ConstantsAssumption ==
  /\ Rows \subseteq Nat /\ FirstRows \subseteq Rows /\ IsFiniteSet(FirstRows)
  /\ \A x, y, z \in Rows :
       x < y /\ y < z /\ OfferOf[x] = OfferOf[z] => OfferOf[y] = OfferOf[x]
  /\ IsFiniteSet(Callers) /\ Op \in [Callers -> Ops]
  /\ \A c \in Callers : IsFiniteSet(Op[c].new)
  /\ Connections \in Nat \ {0}
  /\ SelectPage \in Nat \ {0} /\ ResultPage \in Nat \ {0}
  /\ MaxCrashes \in Nat

-----------------------------------------------------------------------------
CallState == {"idle", "waiting", "open", "answered", "refused", "leaked", "lost"}

(* A read: how many rows it has passed, the rows it has passed on, whether *)
(* there may be more, and, for the properties only: the rows there ever    *)
(* since it began, those added and those removed meanwhile.                *)
Read == [state : {"idle", "reading", "answered", "lost"}, cursor : Nat,
         got : Seq(Rows), more : BOOLEAN,
         steady : SUBSET Rows, added : SUBSET Rows, removed : SUBSET Rows]

TypeOK ==
  /\ table \subseteq Rows
  /\ phase \in {"new", "starting", "ready", "failed"}
  /\ calls \in [Callers -> [state : CallState, done : Nat]]
  /\ queue \in Seq(Callers)
  /\ reads \in [Readers -> Read]
  /\ \A r \in Readers : Len(reads[r].got) <= ResultPage
  /\ crashes \in 0 .. MaxCrashes

InState(s) == { c \in Callers : calls[c].state = s }

(* Mutation of Held: a call that threw is taken to give its connection up. *)
HeldByOpen == InState("open")

(* The connections that are taken.                                         *)
Held == InState("open") \cup InState("leaked")

Free == Cardinality(Held) < Connections

SetState(c, s) == calls' = [calls EXCEPT ![c].state = s]

Init ==
  /\ table = FirstRows
  /\ phase = "new"
  /\ calls = [c \in Callers |-> [state |-> "idle", done |-> 0]]
  /\ queue = <<>>
  /\ reads = [r \in Readers |->
       [state |-> "idle", cursor |-> 0, got |-> <<>>, more |-> FALSE,
        steady |-> {}, added |-> {}, removed |-> {}]]
  /\ crashes = 0

-----------------------------------------------------------------------------
(* initialize(): the first createTransaction connects; the others await    *)
(* the same promise, which is kept when it is rejected.                    *)

Connect ==
  /\ phase = "starting"
  /\ phase' \in {"ready", "failed"}
  /\ UNCHANGED <<table, calls, queue, reads, crashes>>

Started == IF phase = "new" THEN "starting" ELSE phase

-----------------------------------------------------------------------------
(* READWRITE transactions                                                  *)

(* createTransaction: every call waits for initialize() and then for a     *)
(* connection; the pool serves them in order.                              *)
Request(c) ==
  /\ calls[c].state = "idle"
  /\ phase' = Started
  /\ IF phase = "failed"
     THEN SetState(c, "refused") /\ UNCHANGED queue
     ELSE SetState(c, "waiting") /\ queue' = Append(queue, c)
  /\ UNCHANGED <<table, reads, crashes>>

(* Mutation of Begin: one transaction at a time.                           *)
BeginAlone ==
  /\ phase = "ready"
  /\ queue # <<>> /\ Held = {}
  /\ SetState(Head(queue), "open")
  /\ queue' = Tail(queue)
  /\ UNCHANGED <<table, phase, reads, crashes>>

Begin ==
  /\ phase = "ready"
  /\ queue # <<>> /\ Free
  /\ SetState(Head(queue), "open")
  /\ queue' = Tail(queue)
  /\ UNCHANGED <<table, phase, reads, crashes>>

(* The calls that waited for a connection that could not be made.          *)
Refuse ==
  /\ phase = "failed" /\ queue # <<>>
  /\ SetState(Head(queue), "refused")
  /\ queue' = Tail(queue)
  /\ UNCHANGED <<table, phase, reads, crashes>>

Execute(c) ==
  /\ calls[c].state = "open"
  /\ calls[c].done < Len(Script(Op[c]))
  /\ calls' = [calls EXCEPT ![c].done = @ + 1]
  /\ UNCHANGED <<table, phase, queue, reads, crashes>>

(* Nothing to accept, or a statement that fails: the call throws and its   *)
(* transaction is neither committed nor failed.                            *)
Throw(c) ==
  /\ calls[c].state = "open" /\ Op[c].kind # "empty"
  /\ SetState(c, "leaked")
  /\ UNCHANGED <<table, phase, queue, reads, crashes>>

(* Bookkeeping of the reads under way when rows go and come.               *)
Witness(old, new) ==
  [ r \in Readers |->
      IF reads[r].state = "reading"
      THEN [reads[r] EXCEPT !.steady = @ \ old, !.added = @ \cup new,
                            !.removed = @ \cup old]
      ELSE reads[r] ]

(* The rows as the statements of a transaction leave them: each row as     *)
(* the last statement that touches it does.                                *)
Applied(script) ==
  LET touching(row) == { i \in DOMAIN script : row \in script[i].old \cup script[i].new }
  IN  { row \in table \cup UNION { script[i].new : i \in DOMAIN script } :
          touching(row) # {} =>
            \E i \in touching(row) : /\ row \in script[i].new
                                     /\ \A j \in touching(row) : j <= i }

(* commit(); the database may refuse it, which also ends the transaction.  *)
Commit(c) ==
  /\ calls[c].state = "open" /\ Op[c].kind # "empty"
  /\ calls[c].done = Len(Script(Op[c]))
  /\ \/ /\ SetState(c, "answered")
        /\ table' = Applied(Script(Op[c]))
        /\ reads' = Witness(table \ table', table' \ table)
     \/ /\ SetState(c, "refused")
        /\ UNCHANGED <<table, reads>>
  /\ UNCHANGED <<phase, queue, crashes>>

(* fail(): only for an update that specifies neither offers nor a delta.   *)
Fail(c) ==
  /\ calls[c].state = "open" /\ Op[c].kind = "empty"
  /\ SetState(c, "refused")
  /\ UNCHANGED <<table, phase, queue, reads, crashes>>

-----------------------------------------------------------------------------
(* READONLY transactions: list, getHistory, getAllOffers, getValues and    *)
(* getKnownOfferingOrgs                                                    *)

BeginRead(r) ==
  /\ reads[r].state = "idle"
  /\ phase' = Started
  /\ reads' = [reads EXCEPT ![r].state = IF phase = "failed" THEN "lost" ELSE "reading",
                            ![r].steady = table]
  /\ UNCHANGED <<table, calls, queue, crashes>>

(* Mutation of Yield: the same offer is yielded again.                     *)
YieldEvery(got, row) == Append(got, row)

(* A row that shows the same offer as the one yielded last is skipped.     *)
Yield(got, row) ==
  IF got # <<>> /\ OfferOf[Last(got)] = OfferOf[row] THEN got ELSE Append(got, row)

(* skip(cursor).take(SelectPage), in the order of the query.               *)
Page(cursor) ==
  LET size == Cardinality(table)
      left == IF cursor < size THEN size - cursor ELSE 0
  IN  [ i \in 1 .. (IF left < SelectPage THEN left ELSE SelectPage) |->
          RowAt(table, cursor + i) ]

LastPage(page) == Len(page) < SelectPage

(* Mutation of Taken: a page is passed on whole.                           *)
TakenWhole(got, page) ==
  LET taken[i \in 0 .. Len(page)] ==
        IF i = 0 THEN got ELSE Yield(taken[i - 1], page[i])
  IN  taken[Len(page)]

(* Rows are passed on until an answer is full; the rest of the page is not *)
(* looked at.                                                              *)
TakeRow(got, row) == IF Len(got) = ResultPage THEN got ELSE Yield(got, row)

Taken(got, page) ==
  LET taken[i \in 0 .. Len(page)] ==
        IF i = 0 THEN got ELSE TakeRow(taken[i - 1], page[i])
  IN  taken[Len(page)]

(* Mutation of Cursor: the row after a page is passed over.                *)
CursorPastNext(cursor) == cursor + SelectPage + 1

Cursor(cursor) == cursor + SelectPage

ReadPage(r) ==
  /\ phase = "ready"
  /\ reads[r].state = "reading" /\ Free
  /\ LET page == Page(reads[r].cursor)
         got == Taken(reads[r].got, page)
         full == Len(got) >= ResultPage
     IN  reads' = [reads EXCEPT
           ![r].got = got,
           ![r].cursor = Cursor(reads[r].cursor),
           ![r].more = full,
           ![r].state = IF full \/ LastPage(page) THEN "answered" ELSE @]
  /\ UNCHANGED <<table, phase, calls, queue, crashes>>

(* A read whose connection cannot be made is refused.                      *)
RefuseRead(r) ==
  /\ phase = "failed" /\ reads[r].state = "reading"
  /\ reads' = [reads EXCEPT ![r].state = "lost"]
  /\ UNCHANGED <<table, phase, calls, queue, crashes>>

-----------------------------------------------------------------------------
(* The process ends and starts again: open transactions are rolled back,   *)
(* and nobody answers the calls that were under way.  A BEGIN that fails   *)
(* ends so too: startInternal never resolves, and nobody handles the       *)
(* rejection of completionPromise.                                         *)
Crash ==
  /\ crashes < MaxCrashes
  /\ crashes' = crashes + 1
  /\ phase' = "new"
  /\ queue' = <<>>
  /\ calls' = [c \in Callers |->
       IF calls[c].state \in {"waiting", "open"}
       THEN [calls[c] EXCEPT !.state = "lost"]
       ELSE IF calls[c].state = "leaked"
       THEN [calls[c] EXCEPT !.state = "refused"]
       ELSE calls[c]]
  /\ reads' = [r \in Readers |->
       IF reads[r].state = "reading" THEN [reads[r] EXCEPT !.state = "lost"] ELSE reads[r]]
  /\ UNCHANGED table

Next ==
  \/ Connect \/ Begin \/ Refuse \/ Crash
  \/ \E c \in Callers : Request(c) \/ Execute(c) \/ Throw(c) \/ Commit(c) \/ Fail(c)
  \/ \E r \in Readers : BeginRead(r) \/ ReadPage(r) \/ RefuseRead(r)

(* What the event loop, the driver and the pool keep doing by themselves.  *)
(* Nothing makes a caller call, and a crash or an exception need not come. *)
Fairness ==
  /\ WF_vars(Connect) /\ WF_vars(Begin) /\ WF_vars(Refuse)
  /\ \A c \in Callers : WF_vars(Execute(c) \/ Commit(c) \/ Fail(c))
  /\ \A r \in Readers : WF_vars(ReadPage(r) \/ RefuseRead(r))

Spec == Init /\ [][Next]_vars /\ Fairness

-----------------------------------------------------------------------------
(* Properties                                                              *)

(* The pool is used up by calls that threw.                                *)
Starved == Cardinality(InState("leaked")) = Connections

(* The pool is not overdrawn, not by calls that threw either, and the      *)
(* calls that wait are just those in the queue, once each, through crashes *)
(* and failed connections.                                                 *)
PoolKept ==
  /\ Cardinality(InState("open") \cup InState("leaked")) <= Connections
  /\ { queue[i] : i \in DOMAIN queue } = InState("waiting")
  /\ \A i, j \in DOMAIN queue : queue[i] = queue[j] => i = j

(* Every call that waits for a connection gets one, is refused or dies     *)
(* with the process, and every read ends -- unless as many calls have      *)
(* thrown as the pool has connections, after which nothing moves.          *)
Served ==
  /\ \A c \in Callers : calls[c].state = "waiting" ~> (calls[c].state # "waiting" \/ Starved)
  /\ \A r \in Readers : reads[r].state = "reading" ~> (reads[r].state # "reading" \/ Starved)

(* An answer that does not say there is more names the offer of every row  *)
(* that was there all the time, unless a row before it was removed         *)
(* meanwhile and the pages moved up.                                       *)
PagesComplete ==
  \A r \in Readers : reads[r].state = "answered" /\ ~ reads[r].more =>
    \A row \in reads[r].steady :
      \/ \E i \in DOMAIN reads[r].got : OfferOf[reads[r].got[i]] = OfferOf[row]
      \/ \E gone \in reads[r].removed : gone < row

(* An answer names an offer twice only if a row was added meanwhile, the   *)
(* one that names it again or one before it: the pages moved down, or the  *)
(* offer was listed again among rows already read.                         *)
PagesDistinct ==
  \A r \in Readers : \A i, j \in DOMAIN reads[r].got :
    OfferOf[reads[r].got[i]] = OfferOf[reads[r].got[j]] /\ i < j =>
      \E new \in reads[r].added : new <= reads[r].got[j]
=============================================================================
