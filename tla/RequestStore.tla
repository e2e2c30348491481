---------------------------- MODULE RequestStore ----------------------------
(***************************************************************************)
(* The request records of src/observability/storage.ts: one row per        *)
(* request, written in several statements by the middleware and the route, *)
(* a full-text index kept beside the table by separate statements, the     *)
(* write-ahead log and its checkpoints, the shutdown of src/index.ts, and  *)
(* the purge script that deletes rows from another process.                *)
(*                                                                         *)
(* A step of a turn is one SQL statement: it commits by itself, the        *)
(* process can die after it and the purge can come between two of them,    *)
(* but no other handler of the same process can.                           *)
(***************************************************************************)
EXTENDS Naturals, FiniteSets

CONSTANTS
    Trace,          \* requests, by trace id
    Kind,           \* what each request is
    MaxStarts,      \* bound: how often the process is started
    MaxFaults       \* bound: failed statements, purges, crashes, lost sidecars

(* A route under withObservability: chat or fim completions, streamed or    *)
(* not, or any other.                                                       *)
StoreConstantsOK ==
    /\ Kind \in [Trace -> {"chat", "chatStream", "fim", "fimStream", "other"}]
    /\ MaxStarts \in Nat \ {0} /\ MaxFaults \in Nat
    /\ IsFiniteSet(Trace)

ChatKind == {"chat", "chatStream"}
Streamed == {"chatStream", "fimStream"}

(* The columns of a row in the groups that one statement writes: asked is   *)
(* what the middleware inserts, reply the response body and the tokens.     *)
Column == {"asked", "model", "status", "reply"}
Indexed == {"asked", "reply"}

VARIABLES
    proc,           \* the process: up, draining, down
    starts,         \* how often it was started
    stage,          \* where each request is in its handler
    open,           \* streams whose final record is not written
    turn,           \* the storage call that runs, statement by statement
    rows,           \* the columns each row has; none, when there is no row
    index,          \* the indexed columns the full-text index holds of it
    docs,           \* the rows of requests_fts_docsize
    main,           \* what the database file holds without its -wal sidecar, and its gap
    fts,            \* `ftsAvailable`
    \* history
    gap,            \* rows whose indexing failed, or was cut unseen, since the last rebuild
    missed,         \* rows with a statement that failed, or purged
    orderly,        \* the last stop went through closeStorage
    faults          \* how often something has failed

db == <<rows, index, docs>>
life == <<proc, starts, fts, orderly>>
handler == <<stage, open>>
history == <<gap, missed>>
storeVars == <<life, handler, turn, db, main, history, faults>>

NoTurn == [at |-> "idle"]
Insert(t) == [at |-> "write", trace |-> t, patch |-> {"asked"}, before |-> {}, sync |-> TRUE]
Update(t, patch) ==
    [at |-> IF patch \cap Indexed = {} THEN "write" ELSE "select",
     trace |-> t, patch |-> patch, before |-> {}, sync |-> FALSE]
Turn == {NoTurn} \cup
    [at : {"select", "write", "unindex", "index"}, trace : Trace,
     patch : SUBSET Column, before : SUBSET Indexed, sync : BOOLEAN]

Present == {t \in Trace : rows[t] # {}}
Body(t) == rows[t] \cap Indexed
Snapshot == [rows |-> rows, index |-> index, docs |-> docs, gap |-> gap]

StoreInit ==
    /\ proc = "up" /\ starts = 1 /\ fts = TRUE /\ orderly = FALSE
    /\ stage = [t \in Trace |-> "new"]
    /\ open = {}
    /\ turn = NoTurn
    /\ rows = [t \in Trace |-> {}]
    /\ index = [t \in Trace |-> {}]
    /\ docs = {}
    /\ gap = {} /\ missed = {} /\ faults = 0
    /\ main = Snapshot

Fault == faults < MaxFaults /\ faults' = faults + 1

----------------------------------------------------------------------------
(* The handlers.  Each starts one storage call and runs it to its end.      *)

Running == proc \in {"up", "draining"} /\ turn = NoTurn

To(t, from, to) == stage[t] \in from /\ stage' = [stage EXCEPT ![t] = to]

(* withObservability inserts the row before the handler runs.               *)
Begin(t) ==
    /\ Running /\ proc = "up"
    /\ To(t, {"new"}, "running")
    /\ turn' = Insert(t)
    /\ UNCHANGED <<life, open, db, main, history, faults>>

(* handleChat records model and upstream body before it calls upstream;     *)
(* handleCompletions does not.                                              *)
RecordModel(t) ==
    /\ Running /\ Kind[t] \in ChatKind
    /\ To(t, {"running"}, "calling")
    /\ turn' = Update(t, {"model"})
    /\ UNCHANGED <<life, open, db, main, history, faults>>

(* Upstream answers.  A stream will write its record when it ends; a chat   *)
(* reply is recorded here; a fim reply is not recorded.                     *)
RequestSucceeds(t) ==
    /\ Running /\ Kind[t] # "other"
    /\ To(t, {IF Kind[t] \in ChatKind THEN "calling" ELSE "running"}, "replied")
    /\ open' = IF Kind[t] \in Streamed THEN open \cup {t} ELSE open
    /\ turn' = IF Kind[t] = "chat" THEN Update(t, {"reply"}) ELSE NoTurn
    /\ UNCHANGED <<life, db, main, history, faults>>

(* The finally of streamAnthropicToOpenai: before or after the head.        *)
StreamEnds(t) ==
    /\ Running /\ t \in open
    /\ open' = open \ {t}
    /\ turn' = Update(t, IF rows[t] = {} THEN {"reply"} ELSE {"reply", "model"})
    /\ UNCHANGED <<life, stage, db, main, history, faults>>

(* The middleware records the status once the handler has returned or       *)
(* thrown, at whatever point.                                               *)
Respond(t) ==
    /\ Running
    /\ \/ To(t, {"replied"}, "served")
       \/ To(t, {"running", "calling"}, "failed")
    /\ turn' = Update(t, {"status"})
    /\ UNCHANGED <<life, open, db, main, history, faults>>

----------------------------------------------------------------------------
(* insertRequest, updateRequest and syncFtsRow, statement by statement.     *)

At(step) == turn.at = step /\ proc # "down"
T == turn.trace

SelectBefore ==
    /\ At("select")
    /\ turn' = [turn EXCEPT !.at = "write", !.before = Body(T), !.sync = rows[T] # {}]
    /\ UNCHANGED <<life, handler, db, main, history, faults>>

\* Mutant of Columns: a field the patch leaves out is bound as null.
ColumnsOnly(patch) == patch \cup {"asked"}

Columns(patch) == rows[T] \cup patch

IsInsert == "asked" \in turn.patch

(* After the base write, its own failure domain: a row to sync goes on to   *)
(* the index, an insert without a delete of its former terms.               *)
Written ==
    IF turn.sync /\ fts
    THEN [turn EXCEPT !.at = IF IsInsert THEN "index" ELSE "unindex"]
    ELSE NoTurn

(* An UPDATE of a row that is gone changes nothing and is no error.         *)
Write ==
    /\ At("write")
    /\ rows' = IF IsInsert \/ rows[T] # {}
               THEN [rows EXCEPT ![T] = Columns(turn.patch)] ELSE rows
    /\ turn' = Written
    /\ UNCHANGED <<life, handler, index, docs, main, history, faults>>

WriteFails ==
    /\ Fault
    /\ At("select") \/ At("write")
    /\ turn' = NoTurn
    /\ missed' = missed \cup {T}
    /\ UNCHANGED <<life, handler, db, main, gap>>

Unindex ==
    /\ At("unindex")
    /\ index' = [index EXCEPT ![T] = @ \ turn.before]
    /\ docs' = docs \ {T}
    /\ turn' = [turn EXCEPT !.at = "index"]
    /\ UNCHANGED <<life, handler, rows, main, history, faults>>

Index ==
    /\ At("index")
    /\ index' = [index EXCEPT ![T] = @ \cup turn.before \cup (turn.patch \cap Indexed)]
    /\ docs' = docs \cup {T}
    /\ turn' = NoTurn
    /\ UNCHANGED <<life, handler, rows, main, history, faults>>

SyncFails ==
    /\ Fault
    /\ At("unindex") \/ At("index")
    /\ turn' = NoTurn
    /\ gap' = gap \cup {T}
    /\ UNCHANGED <<life, handler, db, main, missed>>

Statement == SelectBefore \/ Write \/ WriteFails \/ Unindex \/ Index \/ SyncFails

----------------------------------------------------------------------------
(* The log, the shutdown, the crash and the next start.                     *)

(* The timer's checkpoint.  SQLite's own, at a thousand pages, is left out, *)
(* and so is a reader that pins the log meanwhile.                          *)
Checkpoint ==
    /\ proc = "up" /\ turn = NoTurn /\ main # Snapshot
    /\ main' = Snapshot
    /\ UNCHANGED <<life, handler, turn, db, history, faults>>

Signal ==
    /\ proc = "up" /\ turn = NoTurn
    /\ proc' = "draining"
    /\ UNCHANGED <<starts, fts, orderly, handler, turn, db, main, history, faults>>

(* Requests in flight end with the process.                                 *)
Stop ==
    /\ proc' = "down"
    /\ turn' = NoTurn
    /\ stage' = [t \in Trace |->
         IF stage[t] \in {"new", "served", "failed"} /\ t \notin open THEN stage[t] ELSE "cut"]
    /\ open' = {}
    /\ UNCHANGED <<starts, fts, db>>

CloseStorage == orderly' = TRUE /\ main' = Snapshot /\ UNCHANGED history

Drained ==
    /\ proc = "draining" /\ turn = NoTurn
    /\ open = {} /\ \A t \in Trace : stage[t] \in {"new", "served", "failed", "cut"}
    /\ Stop /\ CloseStorage /\ UNCHANGED faults

\* Mutant of ForceClose: no timer, the drain is waited for.
ForceCloseNever == FALSE /\ UNCHANGED storeVars

(* Five seconds after the signal, whatever is still open.                   *)
ForceClose ==
    /\ proc = "draining" /\ turn = NoTurn
    /\ Stop /\ CloseStorage /\ UNCHANGED faults

Crash ==
    /\ Fault
    /\ proc # "down"
    /\ Stop /\ orderly' = FALSE
    /\ gap' = IF At("unindex") THEN gap \cup {T} ELSE gap
    /\ UNCHANGED <<main, missed>>

(* Losing -wal and -shm while nothing runs: the file as last checkpointed,  *)
(* before a rebuild of the index that was not.                              *)
SidecarLost ==
    /\ Fault
    /\ proc = "down" /\ main # Snapshot
    /\ rows' = main.rows /\ index' = main.index /\ docs' = main.docs
    /\ gap' = main.gap
    /\ UNCHANGED <<life, handler, turn, main, missed>>

\* Mutant of IndexStale: count(*) of the index reads the table's own count.
IndexStaleContent == Cardinality(Present) # Cardinality(Present)

IndexStale == Cardinality(docs) # Cardinality(Present)

(* initStorage and initRequestsFts: the index is rebuilt when it has not as *)
(* many documents as there are rows.  FTS5 may be unavailable.              *)
ServerStarts ==
    /\ proc = "down" /\ starts < MaxStarts
    /\ proc' = "up" /\ starts' = starts + 1 /\ fts' \in BOOLEAN
    /\ IF fts' /\ IndexStale
       THEN index' = [t \in Trace |-> Body(t)] /\ docs' = Present /\ gap' = {}
       ELSE UNCHANGED <<index, docs, gap>>
    /\ UNCHANGED <<orderly, handler, turn, rows, main, missed, faults>>

(* purge-telemetry.ts deletes a row from another process, and the trigger   *)
(* its index entry in the same statement.  With the service down it is the  *)
(* last to close the database, which checkpoints.                           *)
Purge(t) ==
    /\ Fault
    /\ rows[t] # {}
    /\ rows' = [rows EXCEPT ![t] = {}]
    /\ index' = [index EXCEPT ![t] = @ \ Body(t)]
    /\ docs' = docs \ {t}
    /\ UNCHANGED gap
    /\ main' = IF proc = "down" THEN Snapshot' ELSE main
    /\ missed' = missed \cup {t}
    /\ UNCHANGED <<life, handler, turn>>

StoreNext ==
    \/ \E t \in Trace : \/ Begin(t) \/ RecordModel(t) \/ RequestSucceeds(t) \/ StreamEnds(t)
                        \/ Respond(t) \/ Purge(t)
    \/ Statement \/ Checkpoint \/ Signal \/ Drained \/ ForceClose
    \/ Crash \/ SidecarLost \/ ServerStarts

(* A storage call runs to its end and the force timer fires; requests,      *)
(* streams and the purge owe nothing.                                       *)
StoreFairness == WF_storeVars(Statement) /\ WF_storeVars(ForceClose)

StoreSpec == StoreInit /\ [][StoreNext]_storeVars /\ StoreFairness

----------------------------------------------------------------------------
StoreTypeOK ==
    /\ proc \in {"up", "draining", "down"} /\ starts \in 0..MaxStarts
    /\ fts \in BOOLEAN /\ orderly \in BOOLEAN
    /\ stage \in [Trace -> {"new", "running", "calling", "replied", "served", "failed", "cut"}]
    /\ open \subseteq Trace
    /\ turn \in Turn
    /\ rows \in [Trace -> SUBSET Column]
    /\ index \in [Trace -> SUBSET Indexed]
    /\ docs \subseteq Trace
    /\ gap \subseteq Trace /\ missed \subseteq Trace
    /\ main \in [rows : [Trace -> SUBSET Column], index : [Trace -> SUBSET Indexed],
                docs : SUBSET Trace, gap : SUBSET Trace]
    /\ faults \in Nat

(* The index, however the statements, crashes, restarts, lost sidecars and   *)
(* periods without FTS5 interleave, holds of every row exactly its bodies,  *)
(* but for the rows in gap: the start-up reconciliation repairs a row that  *)
(* was never indexed or was cut between its two index statements, and the   *)
(* ones it cannot see are those whose update was cut, or failed, before the *)
(* first of the two.  One exception: a purge that deletes a row in the      *)
(* middle of its update leaves a document without a row, and the counts can *)
(* then agree by accident.                                                  *)
IndexExact ==
    proc = "up" /\ fts /\ turn = NoTurn /\ docs \subseteq Present =>
        \A t \in Present \ gap : index[t] = Body(t)

(* No statement takes away what an earlier one wrote, in whatever order the *)
(* status, the early and the final update of a row come, and after a stop   *)
(* through closeStorage, drained or forced, losing the sidecars loses       *)
(* nothing; only a purge and a crash without its sidecars remove columns.   *)
NothingWrittenIsLost ==
    [][ \A t \in Trace :
          \/ rows[t] \subseteq rows'[t]
          \/ rows'[t] = {} /\ t \in missed'
          \/ proc = "down" /\ ~orderly ]_storeVars

(* A signal ends the process within the force timer, however many streams   *)
(* are open.                                                                *)
ShutdownEnds == proc = "draining" ~> proc = "down"
=============================================================================
