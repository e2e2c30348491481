--------------------------- MODULE TelemetryProofs ---------------------------
(* The request records and the filter over them: the full-text index stays  *)
(* true to the rows and no written column is lost, for any number of        *)
(* requests, failures and restarts; and the date filter covers the picked   *)
(* days, for every zone with one change and every pair of dates.  Proofs of *)
(* the properties of RequestStore and DateRange.                            *)
EXTENDS RequestStore, DateRange, FiniteSetTheorems, TLAPS

Stage == {"new", "running", "calling", "replied", "served", "failed", "cut"}
Image ==
    [rows : [Trace -> SUBSET Column], index : [Trace -> SUBSET Indexed],
     docs : SUBSET Trace, gap : SUBSET Trace]

(* What a storage call is, at each statement.                               *)
LEMMA TurnFields ==
  ASSUME turn \in Turn, turn.at # "idle"
  PROVE  /\ turn.at \in {"select", "write", "unindex", "index"} /\ turn.trace \in Trace
         /\ turn.patch \in SUBSET Column /\ turn.before \in SUBSET Indexed
         /\ turn.sync \in BOOLEAN
  BY DEF Turn, NoTurn

LEMMA TurnMoves ==
  ASSUME turn \in Turn, turn.at # "idle",
         NEW at \in {"select", "write", "unindex", "index"}
  PROVE  /\ [turn EXCEPT !.at = at] \in Turn
         /\ [turn EXCEPT !.at = at].at = at
         /\ [turn EXCEPT !.at = at].trace = turn.trace
         /\ [turn EXCEPT !.at = at].patch = turn.patch
         /\ [turn EXCEPT !.at = at].before = turn.before
         /\ [turn EXCEPT !.at = at].sync = turn.sync
  BY DEF Turn, NoTurn

LEMMA Calls ==
  ASSUME NEW t \in Trace, NEW patch \in SUBSET (Column \ {"asked"})
  PROVE  /\ NoTurn \in Turn /\ NoTurn.at = "idle"
         /\ Insert(t) \in Turn /\ Update(t, patch) \in Turn
         /\ Insert(t).at = "write" /\ Insert(t).trace = t /\ Insert(t).sync
         /\ Insert(t).patch = {"asked"} /\ Insert(t).before = {}
         /\ Update(t, patch).at \in {"write", "select"} /\ Update(t, patch).trace = t
         /\ Update(t, patch).patch = patch /\ Update(t, patch).before = {}
         /\ ~Update(t, patch).sync
         /\ Update(t, patch).at = "write" => patch \cap Indexed = {}
<1>1. NoTurn \in Turn /\ NoTurn.at = "idle"
  BY DEF Turn, NoTurn
<1>2. Insert(t) \in Turn
  BY DEF Turn, Insert, Column
<1>3. Update(t, patch) \in Turn
  BY DEF Turn, Update
<1> QED
  BY <1>1, <1>2, <1>3 DEF Insert, Update

(* The records are of their types.                                          *)
LEMMA StoreTypeInit == ASSUME StoreConstantsOK, StoreInit PROVE StoreTypeOK
<1>1. rows \in [Trace -> SUBSET Column] /\ index \in [Trace -> SUBSET Indexed]
  BY DEF StoreInit
<1>2. main \in Image
  BY <1>1 DEF StoreInit, Snapshot, Image
<1>3. starts \in 0..MaxStarts /\ faults \in Nat
  BY DEF StoreConstantsOK, StoreInit
<1>4. turn \in Turn
  BY DEF StoreInit, Turn
<1> QED
  BY <1>1, <1>2, <1>3, <1>4 DEF StoreInit, StoreTypeOK, Image

LEMMA StoreTypeNext == ASSUME StoreConstantsOK, StoreTypeOK, [StoreNext]_storeVars PROVE StoreTypeOK'
<1> USE DEF StoreTypeOK
<1>h. ASSUME faults' \in {faults, faults + 1} PROVE faults' \in Nat
  BY <1>h
<1>1. ASSUME NEW t \in Trace,
             Begin(t) \/ RecordModel(t) \/ RequestSucceeds(t) \/ StreamEnds(t) \/ Respond(t)
      PROVE  StoreTypeOK'
  <2>1. CASE Begin(t)
    BY <2>1, Calls DEF Begin, To, life, db, history
  <2>2. CASE RecordModel(t)
    BY <2>2, Calls DEF RecordModel, To, life, db, history, Column
  <2>3. CASE RequestSucceeds(t)
    BY <2>3, Calls DEF RequestSucceeds, To, life, db, history, Column
  <2>4. CASE StreamEnds(t)
    BY <2>4, Calls DEF StreamEnds, life, db, history, Column
  <2>5. CASE Respond(t)
    BY <2>5, Calls DEF Respond, To, life, db, history, Column
  <2> QED
    BY <1>1, <2>1, <2>2, <2>3, <2>4, <2>5
<1>2. ASSUME NEW t \in Trace, Purge(t) PROVE StoreTypeOK'
  <2>1. rows' \in [Trace -> SUBSET Column] /\ index' \in [Trace -> SUBSET Indexed]
        /\ docs' \subseteq Trace /\ gap' \subseteq Trace /\ missed' \subseteq Trace
    BY <1>2 DEF Purge
  <2> QED
    BY <1>2, <2>1 DEF Purge, Fault, life, handler, Snapshot
<1>3. CASE Statement
  <2>0. turn.at # "idle" /\ T \in Trace
    BY <1>3, TurnFields DEF Statement, SelectBefore, Write, WriteFails, Unindex, Index, SyncFails, At, T
  <2>1. CASE SelectBefore
    <3>1. Body(T) \in SUBSET Indexed /\ (rows[T] # {}) \in BOOLEAN
      BY <2>0 DEF Body
    <3>2. turn \in [at : {"select", "write", "unindex", "index"}, trace : Trace,
                    patch : SUBSET Column, before : SUBSET Indexed, sync : BOOLEAN]
      BY <2>0 DEF Turn, NoTurn
    <3>3. turn' \in Turn
      BY <2>1, <3>1, <3>2 DEF SelectBefore, Turn
    <3> QED
      BY <2>1, <3>3 DEF SelectBefore, life, handler, db, history
  <2>2. CASE Write
    <3>1. turn' \in Turn
      BY <2>0, <2>2, TurnMoves, Calls DEF Write, Written
    <3>2. rows' \in [Trace -> SUBSET Column]
      BY <2>0, <2>2, TurnFields DEF Write, Columns, T
    <3> QED
      BY <2>2, <3>1, <3>2 DEF Write, life, handler, history
  <2>3. CASE WriteFails \/ SyncFails
    <3>1. turn' \in Turn
      BY <2>3 DEF WriteFails, SyncFails, Turn
    <3>2. gap' \subseteq Trace /\ missed' \subseteq Trace /\ faults' \in Nat
      BY <2>0, <2>3 DEF WriteFails, SyncFails, Fault
    <3> QED
      BY <2>3, <3>1, <3>2 DEF WriteFails, SyncFails, life, handler, db
  <2>4. CASE Unindex
    <3>1. turn' \in Turn
      BY <2>0, <2>4, TurnMoves DEF Unindex
    <3> QED
      BY <2>4, <3>1 DEF Unindex, life, handler, history
  <2>5. CASE Index
    <3>1. index' \in [Trace -> SUBSET Indexed]
      BY <2>0, <2>5, TurnFields DEF Index, T
    <3> QED
      BY <2>0, <2>5, <3>1, Calls DEF Index, life, handler, history
  <2> QED
    BY <1>3, <2>1, <2>2, <2>3, <2>4, <2>5 DEF Statement
<1>4. CASE Checkpoint
  BY <1>4 DEF Checkpoint, Snapshot, life, handler, db, history
<1>5. CASE Signal
  BY <1>5 DEF Signal, handler, db, history
<1>6. CASE Stop /\ (Drained \/ ForceClose \/ Crash)
  <2>1. stage' \in [Trace -> Stage]
    BY <1>6 DEF Stop, Stage
  <2>2. turn' \in Turn
    BY <1>6, Calls DEF Stop, Turn
  <2>3. main' \in Image
    BY <1>6 DEF Drained, ForceClose, Crash, CloseStorage, Snapshot, Image
  <2>4. gap' \subseteq Trace /\ missed' \subseteq Trace
    <3>1. At("unindex") => T \in Trace
      BY TurnFields DEF At, T
    <3> QED
      BY <1>6, <3>1 DEF Drained, ForceClose, Crash, CloseStorage, history
  <2>5. faults' \in Nat
    BY <1>6 DEF Drained, ForceClose, Crash, Fault
  <2>6. orderly' \in BOOLEAN
    BY <1>6 DEF Drained, ForceClose, Crash, CloseStorage
  <2> QED
    BY <1>6, <2>1, <2>2, <2>3, <2>4, <2>5, <2>6 DEF Stop, Stage, Image, db
<1>7. CASE SidecarLost
  BY <1>7 DEF SidecarLost, Fault, life, handler
<1>8. CASE ServerStarts
  <2>1. index' \in [Trace -> SUBSET Indexed] /\ docs' \subseteq Trace /\ gap' \subseteq Trace
    BY <1>8 DEF ServerStarts, Body, Present
  <2>2. starts' \in 0..MaxStarts
    BY <1>8 DEF ServerStarts, StoreConstantsOK
  <2> QED
    BY <1>8, <2>1, <2>2 DEF ServerStarts, handler
<1>9. CASE UNCHANGED storeVars
  BY <1>9 DEF storeVars, life, handler, db, history
<1> QED
  BY <1>1, <1>2, <1>3, <1>4, <1>5, <1>6, <1>7, <1>8, <1>9 DEF StoreNext, Drained, ForceClose, Crash

THEOREM StoreTypeCorrect == ASSUME StoreConstantsOK PROVE StoreSpec => []StoreTypeOK
<1>1. StoreInit => StoreTypeOK
  BY StoreTypeInit
<1>2. StoreTypeOK /\ [StoreNext]_storeVars => StoreTypeOK'
  BY StoreTypeNext
<1> QED
  BY <1>1, <1>2, PTL DEF StoreSpec

----------------------------------------------------------------------------
(* A storage call of the row runs, it stands between its two index          *)
(* statements, and no call will come any more.                              *)
Busy(t) == turn.at # "idle" /\ turn.trace = t
Mid(t) == turn.at \in {"unindex", "index"} /\ turn.trace = t
Over(t) == stage[t] \in {"served", "failed", "cut"} /\ t \notin open /\ ~Busy(t)

(* What the index should hold of a row, and a document of none: one that a  *)
(* purge in the middle of an update has left, which nothing takes away      *)
(* before the next rebuild.                                                 *)
Holds(t) == t \in docs /\ index[t] = Body(t)
Orphaned == \E t \in docs \ Present : Over(t)

Orderly == proc = "down" /\ orderly => main = Snapshot

Stopped ==
    /\ turn.at # "idle" => proc # "down"
    /\ proc = "down" => \A t \in Trace : stage[t] = "new" \/ Over(t)

(* Nothing is written of a request that has not come.                       *)
Untouched ==
    \A t \in Trace : stage[t] = "new" =>
        /\ t \notin open /\ ~Busy(t)
        /\ rows[t] = {} /\ index[t] = {} /\ t \notin docs
        /\ main.rows[t] = {} /\ main.index[t] = {} /\ t \notin main.docs

(* What each statement of a call may count on.                              *)
InsertReady ==
    turn.at = "write" /\ "asked" \in turn.patch =>
        /\ turn.sync /\ turn.before = {}
        /\ rows[turn.trace] = {} /\ index[turn.trace] = {} /\ turn.trace \notin docs
UpdateReady ==
    /\ turn.at = "select" => "asked" \notin turn.patch
    /\ turn.at = "write" /\ "asked" \notin turn.patch =>
         \/ rows[turn.trace] = {}
         \/ IF turn.sync THEN turn.before = Body(turn.trace) ELSE turn.patch \cap Indexed = {}
Whole == Body(turn.trace) = turn.before \cup (turn.patch \cap Indexed)
IndexReady ==
    /\ turn.at \in {"unindex", "index"} => fts
    /\ turn.at = "unindex" /\ turn.trace \in Present \ gap =>
         Whole /\ index[turn.trace] = turn.before
    /\ turn.at = "index" =>
         /\ turn.trace \notin docs
         /\ turn.trace \in Present \ gap => Whole /\ index[turn.trace] = {}

(* A document is true to its row, in the database and in the file that is   *)
(* left when the sidecars are lost, but for the gap that goes with each.    *)
Sound ==
    \A t \in Trace : rows[t] # {} /\ t \in docs /\ t \notin gap => Mid(t) \/ index[t] = Body(t)
FileSound ==
    \A t \in Trace : main.rows[t] # {} /\ t \in main.docs /\ t \notin main.gap =>
        main.index[t] = main.rows[t] \cap Indexed

(* While the process runs with FTS5 every row has its document, or the      *)
(* start was deceived by an orphan; while it runs without, only rows that   *)
(* are over have one.                                                       *)
RowsCovered ==
    proc # "down" =>
        IF fts THEN \A t \in Trace : rows[t] # {} /\ t \notin gap =>
                        Mid(t) \/ Holds(t) \/ (Over(t) /\ Orphaned)
               ELSE \A t \in docs : Over(t)

IndexInv ==
    /\ Orderly /\ Stopped /\ Untouched /\ InsertReady /\ UpdateReady /\ IndexReady
    /\ Sound /\ FileSound /\ RowsCovered

LEMMA IndexInit == ASSUME StoreConstantsOK, StoreInit PROVE IndexInv
<1>1. turn.at = "idle" /\ proc = "up" /\ fts /\ open = {} /\ docs = {}
  BY DEF StoreInit, NoTurn
<1>2. \A t \in Trace : rows[t] = {} /\ index[t] = {}
  BY DEF StoreInit
<1>3. main.rows = rows /\ main.index = index /\ main.docs = docs
  BY DEF StoreInit, Snapshot
<1>4. Orderly /\ Stopped /\ InsertReady /\ UpdateReady /\ IndexReady
  BY <1>1 DEF Orderly, Stopped, InsertReady, UpdateReady, IndexReady
<1>5. Untouched /\ Sound /\ FileSound /\ RowsCovered
  BY <1>1, <1>2, <1>3 DEF Untouched, Busy, Sound, FileSound, RowsCovered
<1> QED
  BY <1>4, <1>5 DEF IndexInv

(* A step of a handler starts at most one storage call, and only for a      *)
(* request that is not over.                                                *)
HandlerStep(t) == Begin(t) \/ RecordModel(t) \/ RequestSucceeds(t) \/ StreamEnds(t) \/ Respond(t)

LEMMA HandlerSteps ==
  ASSUME StoreTypeOK, Untouched, NEW t \in Trace, HandlerStep(t)
  PROVE  /\ turn = NoTurn /\ proc # "down" /\ UNCHANGED <<life, db, main, history>>
         /\ ~Over(t) /\ stage'[t] # "new"
         /\ \A u \in Trace \ {t} : stage'[u] = stage[u] /\ (u \in open' <=> u \in open)
         /\ turn' = NoTurn \/ turn'.trace = t
         /\ InsertReady' /\ UpdateReady' /\ turn'.at \in {"idle", "select", "write"}
<1> USE DEF StoreTypeOK
<1>1. turn.at = "idle" /\ ~Busy(t) /\ proc # "down"
  BY DEF HandlerStep, Begin, RecordModel, RequestSucceeds, StreamEnds, Respond, Running, NoTurn, Busy
<1>2. stage[t] = "new" => t \notin open
  BY DEF Untouched
<1>3. /\ turn = NoTurn /\ UNCHANGED <<life, db, main, history>>
      /\ ~Over(t) /\ stage'[t] # "new"
      /\ \A u \in Trace \ {t} : stage'[u] = stage[u] /\ (u \in open' <=> u \in open)
  BY <1>1, <1>2 DEF HandlerStep, Begin, RecordModel, RequestSucceeds, StreamEnds, Respond, Running, To, Over
<1>4. \/ Begin(t) /\ turn' = Insert(t)
      \/ turn' = NoTurn
      \/ \E patch \in SUBSET (Column \ {"asked"}) : turn' = Update(t, patch)
  BY DEF HandlerStep, Begin, RecordModel, RequestSucceeds, StreamEnds, Respond, Column
<1>5. CASE Begin(t) /\ turn' = Insert(t)
  <2>1. stage[t] = "new"
    BY <1>5 DEF Begin, To
  <2>2. turn'.at = "write" /\ turn'.trace = t /\ turn'.sync /\ "asked" \in turn'.patch
        /\ turn'.before = {}
    BY <1>5 DEF Insert
  <2>3. rows'[t] = {} /\ index'[t] = {} /\ t \notin docs'
    BY <1>3, <2>1 DEF Untouched, db
  <2> QED
    BY <1>1, <1>3, <2>2, <2>3 DEF InsertReady, UpdateReady
<1>6. CASE turn' = NoTurn
  BY <1>1, <1>3, <1>6 DEF InsertReady, UpdateReady, NoTurn
<1>7. ASSUME NEW patch \in SUBSET (Column \ {"asked"}), turn' = Update(t, patch)
      PROVE  /\ InsertReady' /\ UpdateReady' /\ turn'.at \in {"idle", "select", "write"}
             /\ turn'.trace = t
  <2>1. /\ turn'.at \in {"select", "write"} /\ turn'.trace = t /\ "asked" \notin turn'.patch
        /\ ~turn'.sync
        /\ turn'.at = "write" => turn'.patch \cap Indexed = {}
    BY <1>7, Calls
  <2> QED
    BY <2>1 DEF InsertReady, UpdateReady
<1> QED
  BY <1>1, <1>3, <1>4, <1>5, <1>6, <1>7

LEMMA HandlersKeep ==
  ASSUME StoreTypeOK, IndexInv, NEW t \in Trace, HandlerStep(t) PROVE IndexInv'
<1> USE DEF StoreTypeOK, IndexInv
<1>1. /\ turn = NoTurn /\ proc # "down" /\ UNCHANGED <<life, db, main, history>>
      /\ ~Over(t) /\ stage'[t] # "new"
      /\ \A u \in Trace \ {t} : stage'[u] = stage[u] /\ (u \in open' <=> u \in open)
      /\ turn' = NoTurn \/ turn'.trace = t
      /\ InsertReady' /\ UpdateReady' /\ turn'.at \in {"idle", "select", "write"}
  BY HandlerSteps
<1>2. UNCHANGED <<proc, fts, orderly, rows, index, docs, main, gap>>
  BY <1>1 DEF life, db, history
<1>3. /\ \A u \in Trace : ~Mid(u) /\ ~Mid(u)'
      /\ \A u \in Trace : Over(u) => Over(u)' /\ u # t
  BY <1>1 DEF Mid, Over, Busy, NoTurn
<1>4. Orphaned => Orphaned'
  BY <1>2, <1>3 DEF Orphaned, Present
<1>5. \A u \in Trace : Holds(u)' <=> Holds(u)
  BY <1>2 DEF Holds, Body
<1>6. RowsCovered'
  BY <1>1, <1>2, <1>3, <1>4, <1>5 DEF RowsCovered
<1>7. Untouched'
  BY <1>1, <1>2 DEF Untouched, Busy, NoTurn
<1>8. Sound' /\ FileSound'
  BY <1>1, <1>2, <1>3 DEF Sound, FileSound, Body
<1>9. Orderly' /\ Stopped' /\ IndexReady'
  BY <1>1, <1>2 DEF Orderly, Stopped, IndexReady
<1> QED
  BY <1>1, <1>6, <1>7, <1>8, <1>9

(* What a statement leaves alone.                                           *)
LEMMA StatementSteps ==
  ASSUME StoreTypeOK, Stopped, Untouched, Statement, NEW t, t = turn.trace
  PROVE  /\ turn.at # "idle" /\ t \in Trace /\ proc # "down" /\ stage[t] # "new" /\ ~Over(t)
         /\ UNCHANGED <<proc, fts, orderly, stage, open, main>>
         /\ turn' = NoTurn \/ turn'.trace = t
         /\ \A u \in Trace \ {t} :
              /\ rows'[u] = rows[u] /\ index'[u] = index[u] /\ (u \in docs' <=> u \in docs)
              /\ u \in gap' <=> u \in gap
              /\ ~Mid(u) /\ ~Mid(u)'
         /\ \A u \in Trace : Over(u) => Over(u)' /\ u # t
<1> USE DEF StoreTypeOK
<1>1. turn.at # "idle" /\ proc # "down"
  BY DEF Statement, SelectBefore, Write, WriteFails, Unindex, Index, SyncFails, At
<1>2. t \in Trace
  BY <1>1, TurnFields DEF T
<1>3. stage[t] # "new" /\ ~Over(t)
  BY <1>1, <1>2 DEF Untouched, Over, Busy, T
<1>4. UNCHANGED <<proc, fts, orderly, stage, open, main>>
  BY DEF Statement, SelectBefore, Write, WriteFails, Unindex, Index, SyncFails, life, handler, db
<1>5. turn' = NoTurn \/ turn'.trace = t
  <2>1. CASE SelectBefore \/ Unindex
    <3>1. turn \in [at : {"select", "write", "unindex", "index"}, trace : Trace,
                    patch : SUBSET Column, before : SUBSET Indexed, sync : BOOLEAN]
      BY <1>1 DEF Turn, NoTurn
    <3> QED
      BY <2>1, <3>1 DEF SelectBefore, Unindex, T
  <2>2. CASE Write
    BY <2>2, <1>1, TurnMoves DEF Write, Written, T
  <2>3. CASE WriteFails \/ Index \/ SyncFails
    BY <2>3 DEF WriteFails, Index, SyncFails
  <2> QED
    BY <2>1, <2>2, <2>3 DEF Statement
<1>6. ASSUME NEW u \in Trace \ {t}
      PROVE  /\ rows'[u] = rows[u] /\ index'[u] = index[u] /\ (u \in docs' <=> u \in docs)
             /\ u \in gap' <=> u \in gap
  BY <1>2 DEF Statement, SelectBefore, Write, WriteFails, Unindex, Index, SyncFails, T, db, history
<1>7. \A u \in Trace \ {t} : ~Mid(u) /\ ~Mid(u)'
  BY <1>5 DEF Mid, T, NoTurn
<1>8. ASSUME NEW u \in Trace, Over(u) PROVE Over(u)' /\ u # t
  BY <1>3, <1>4, <1>5, <1>8 DEF Over, Busy, NoTurn
<1> QED
  BY <1>1, <1>2, <1>3, <1>4, <1>5, <1>6, <1>7, <1>8

(* What no statement disturbs, and what of the invariant a statement need   *)
(* only show of its own row.                                                *)
LEMMA StatementsKeep ==
  ASSUME StoreTypeOK, StoreTypeOK', IndexInv, Statement, NEW t, t = turn.trace,
         InsertReady', UpdateReady', IndexReady',
         rows'[t] # {} /\ t \in docs' /\ t \notin gap' => Mid(t)' \/ index'[t] = Body(t)',
         fts /\ rows'[t] # {} /\ t \notin gap' => Mid(t)' \/ Holds(t)',
         ~fts => t \notin docs'
  PROVE  IndexInv'
<1> USE DEF StoreTypeOK, IndexInv
<1>1. /\ turn.at # "idle" /\ t \in Trace /\ proc # "down" /\ stage[t] # "new" /\ ~Over(t)
      /\ UNCHANGED <<proc, fts, orderly, stage, open, main>>
      /\ turn' = NoTurn \/ turn'.trace = t
      /\ \A u \in Trace \ {t} :
           /\ rows'[u] = rows[u] /\ index'[u] = index[u] /\ (u \in docs' <=> u \in docs)
           /\ u \in gap' <=> u \in gap
           /\ ~Mid(u) /\ ~Mid(u)'
      /\ \A u \in Trace : Over(u) => Over(u)' /\ u # t
  BY StatementSteps
<1>2. Orderly' /\ Stopped'
  BY <1>1 DEF Orderly, Stopped
<1>3. Untouched'
  BY <1>1 DEF Untouched, Busy, NoTurn
<1>4. FileSound'
  BY <1>1 DEF FileSound
<1>5. Sound'
  BY <1>1 DEF Sound, Body
<1>6. Orphaned => Orphaned'
  BY <1>1 DEF Orphaned, Present
<1>7. RowsCovered'
  <2>1. CASE fts
    BY <2>1, <1>1, <1>6 DEF RowsCovered, Holds, Body
  <2>2. CASE ~fts
    <3>1. \A u \in docs : Over(u)
      BY <2>2, <1>1 DEF RowsCovered
    <3>2. \A u \in docs' : u \in docs
      BY <2>2, <1>1
    <3> QED
      BY <2>2, <3>1, <3>2, <1>1 DEF RowsCovered
  <2> QED
    BY <2>1, <2>2
<1> QED
  BY <1>2, <1>3, <1>4, <1>5, <1>7

LEMMA StatementKeeps ==
  ASSUME StoreTypeOK, StoreTypeOK', IndexInv, Statement, NEW t, t = turn.trace PROVE IndexInv'
<1> USE DEF StoreTypeOK, IndexInv
<1>0. /\ turn.at # "idle" /\ t \in Trace /\ proc # "down" /\ stage[t] # "new" /\ ~Over(t)
      /\ UNCHANGED fts
  BY StatementSteps
<1>t. /\ turn.at \in {"select", "write", "unindex", "index"}
      /\ turn.patch \in SUBSET Column /\ turn.before \in SUBSET Indexed
      /\ turn.sync \in BOOLEAN
  BY <1>0, TurnFields
<1>r. turn \in [at : {"select", "write", "unindex", "index"}, trace : Trace,
                patch : SUBSET Column, before : SUBSET Indexed, sync : BOOLEAN]
  BY <1>0 DEF Turn, NoTurn
(* Before its base write the row is as its document says, if it is covered. *)
<1>p. turn.at \in {"select", "write"} =>
        /\ rows[t] # {} /\ t \in docs /\ t \notin gap => index[t] = Body(t)
        /\ fts /\ rows[t] # {} /\ t \notin gap => Holds(t)
        /\ ~fts => t \notin docs
  BY <1>0 DEF Sound, RowsCovered, Mid
<1>1. CASE SelectBefore
  <2>1. /\ turn.at = "select" /\ UNCHANGED <<rows, index, docs, gap>>
        /\ turn'.at = "write" /\ turn'.trace = t /\ turn'.patch = turn.patch
        /\ turn'.before = Body(t) /\ turn'.sync = (rows[t] # {})
    BY <1>1, <1>r DEF SelectBefore, At, T, db, history
  <2>2. InsertReady' /\ UpdateReady' /\ IndexReady'
    BY <2>1 DEF UpdateReady, InsertReady, IndexReady, Body
  <2> QED
    BY <1>0, <1>1, <1>p, <2>1, <2>2, StatementsKeep DEF Holds, Body, Statement
<1>2. CASE Write
  <2>1. /\ turn.at = "write" /\ UNCHANGED <<index, docs, gap>>
        /\ rows'[t] = IF "asked" \in turn.patch \/ rows[t] # {} THEN rows[t] \cup turn.patch
                      ELSE {}
    BY <1>0, <1>2 DEF Write, At, IsInsert, Columns, T, history
  <2>2. CASE turn.sync /\ fts
    <3>1. /\ turn'.at = IF "asked" \in turn.patch THEN "index" ELSE "unindex"
          /\ turn'.trace = t /\ turn'.patch = turn.patch /\ turn'.before = turn.before
      BY <1>2, <1>r, <2>2 DEF Write, Written, IsInsert, T
    <3>2. Mid(t)'
      BY <3>1 DEF Mid
    <3>3. InsertReady' /\ UpdateReady'
      BY <3>1 DEF InsertReady, UpdateReady
    <3>4. CASE "asked" \in turn.patch
      <4>1. rows[t] = {} /\ index[t] = {} /\ t \notin docs /\ turn.before = {}
        BY <2>1, <3>4 DEF InsertReady, T
      <4>2. Body(t)' = turn.patch \cap Indexed
        BY <2>1, <3>4, <4>1 DEF Body
      <4>3. IndexReady'
        BY <1>0, <2>1, <2>2, <3>1, <3>4, <4>1, <4>2 DEF IndexReady, Whole, Body
      <4> QED
        BY <1>0, <1>2, <1>p, <2>1, <2>2, <3>2, <3>3, <4>3, StatementsKeep DEF Statement
    <3>5. CASE "asked" \notin turn.patch
      <4>1. rows'[t] # {} =>
              rows[t] # {} /\ turn.before = Body(t) /\ Body(t)' = Body(t) \cup (turn.patch \cap Indexed)
        BY <2>1, <2>2, <3>5 DEF UpdateReady, Body, T
      <4>2. rows'[t] # {} /\ t \notin gap => index[t] = turn.before
        BY <4>1, <1>p, <2>1, <2>2 DEF Holds
      <4>3. IndexReady'
        BY <1>0, <2>1, <2>2, <3>1, <3>5, <4>1, <4>2 DEF IndexReady, Whole, Body, Present
      <4> QED
        BY <1>0, <1>2, <1>p, <2>1, <2>2, <3>2, <3>3, <4>3, StatementsKeep DEF Statement
    <3> QED
      BY <3>4, <3>5
  <2>3. CASE ~(turn.sync /\ fts)
    <3>1. turn' = NoTurn /\ turn'.at = "idle"
      BY <1>2, <2>3 DEF Write, Written, NoTurn
    <3>2. InsertReady' /\ UpdateReady' /\ IndexReady'
      BY <3>1 DEF InsertReady, UpdateReady, IndexReady
    <3>3. CASE fts
      <4>1. "asked" \notin turn.patch /\ ~turn.sync
        BY <2>1, <2>3, <3>3 DEF InsertReady
      <4>2. rows'[t] # {} => rows[t] # {} /\ Body(t)' = Body(t)
        BY <2>1, <4>1 DEF UpdateReady, Body, T
      <4> QED
        BY <1>0, <1>2, <1>p, <2>1, <3>2, <3>3, <4>2, StatementsKeep DEF Statement, Holds
    <3>4. CASE ~fts
      BY <1>0, <1>2, <1>p, <2>1, <3>2, <3>4, StatementsKeep DEF Statement
    <3> QED
      BY <3>3, <3>4
  <2> QED
    BY <2>2, <2>3
<1>3. CASE WriteFails
  <2>1. /\ turn.at \in {"select", "write"} /\ UNCHANGED <<rows, index, docs, gap>>
        /\ turn' = NoTurn /\ turn'.at = "idle"
    BY <1>3 DEF WriteFails, At, NoTurn, db
  <2>2. InsertReady' /\ UpdateReady' /\ IndexReady'
    BY <2>1 DEF InsertReady, UpdateReady, IndexReady
  <2> QED
    BY <1>0, <1>3, <1>p, <2>1, <2>2, StatementsKeep DEF Statement, Holds, Body
<1>4. CASE Unindex
  <2>1. /\ turn.at = "unindex" /\ UNCHANGED <<rows, gap>>
        /\ index'[t] = index[t] \ turn.before /\ docs' = docs \ {t}
        /\ turn'.at = "index" /\ turn'.trace = t /\ turn'.patch = turn.patch
        /\ turn'.before = turn.before
    BY <1>0, <1>4, <1>r DEF Unindex, At, T, history
  <2>2. InsertReady' /\ UpdateReady'
    BY <2>1 DEF InsertReady, UpdateReady
  <2>3. IndexReady'
    BY <1>0, <2>1 DEF IndexReady, Whole, Body, Present, T
  <2>4. Mid(t)'
    BY <2>1 DEF Mid
  <2> QED
    BY <1>4, <2>1, <2>2, <2>3, <2>4, StatementsKeep DEF Statement
<1>5. CASE Index
  <2>1. /\ turn.at = "index" /\ UNCHANGED <<rows, gap>>
        /\ index'[t] = index[t] \cup turn.before \cup (turn.patch \cap Indexed)
        /\ docs' = docs \cup {t} /\ turn' = NoTurn /\ turn'.at = "idle"
    BY <1>0, <1>5 DEF Index, At, T, history, NoTurn
  <2>2. InsertReady' /\ UpdateReady' /\ IndexReady' /\ fts
    BY <2>1 DEF InsertReady, UpdateReady, IndexReady
  <2>3. rows[t] # {} /\ t \notin gap => index'[t] = Body(t)
    BY <1>0, <2>1 DEF IndexReady, Whole, Present, T
  <2> QED
    BY <1>0, <1>5, <2>1, <2>2, <2>3, StatementsKeep DEF Statement, Holds, Body
<1>6. CASE SyncFails
  <2>1. /\ turn.at \in {"unindex", "index"} /\ t \in gap' /\ turn' = NoTurn /\ turn'.at = "idle"
    BY <1>6 DEF SyncFails, At, T, NoTurn
  <2>2. InsertReady' /\ UpdateReady' /\ IndexReady' /\ fts
    BY <2>1 DEF InsertReady, UpdateReady, IndexReady
  <2> QED
    BY <1>6, <2>1, <2>2, StatementsKeep DEF Statement
<1> QED
  BY <1>1, <1>2, <1>3, <1>4, <1>5, <1>6 DEF Statement

(* The log, the shutdown, the crash and the next start.                     *)
LEMMA StopKeeps ==
  ASSUME StoreTypeOK, IndexInv, Stop, Drained \/ ForceClose \/ Crash PROVE IndexInv'
<1> USE DEF StoreTypeOK, IndexInv
<1>1. /\ proc' = "down" /\ turn' = NoTurn /\ turn'.at = "idle" /\ open' = {}
      /\ UNCHANGED <<fts, rows, index, docs>>
      /\ \A t \in Trace : /\ stage'[t] \in {"new", "served", "failed", "cut"}
                          /\ stage'[t] = "new" => stage[t] = "new"
  BY DEF Stop, NoTurn, db
<1>2. Stopped' /\ InsertReady' /\ UpdateReady' /\ IndexReady' /\ RowsCovered'
  BY <1>1 DEF Stopped, Over, Busy, InsertReady, UpdateReady, IndexReady, RowsCovered
<1>3. CASE Drained \/ ForceClose
  <2>1. turn.at = "idle" /\ UNCHANGED gap /\ main' = Snapshot
    BY <1>3 DEF Drained, ForceClose, CloseStorage, history, NoTurn
  <2>2. main.rows' = rows /\ main.index' = index /\ main.docs' = docs /\ main.gap' = gap
        /\ main' = Snapshot'
    BY <1>1, <2>1 DEF Snapshot
  <2>3. Sound' /\ FileSound'
    BY <1>1, <2>1, <2>2 DEF Sound, FileSound, Mid, Body
  <2>4. Untouched'
    BY <1>1, <2>2 DEF Untouched, Busy
  <2> QED
    BY <1>2, <2>2, <2>3, <2>4 DEF Orderly
<1>4. CASE Crash
  <2>1. /\ ~orderly' /\ UNCHANGED main /\ gap \subseteq gap'
        /\ turn.at = "unindex" => turn.trace \in gap'
    BY <1>4 DEF Crash, At, T
  <2>2. \A t \in Trace : t \notin gap' /\ t \in docs => ~Mid(t)
    BY <2>1 DEF Mid, IndexReady
  <2>3. Sound' /\ FileSound'
    BY <1>1, <2>1, <2>2 DEF Sound, FileSound, Body
  <2>4. Untouched'
    BY <1>1, <2>1 DEF Untouched, Busy
  <2> QED
    BY <1>2, <2>1, <2>3, <2>4 DEF Orderly
<1> QED
  BY <1>3, <1>4

LEMMA SidecarKeeps ==
  ASSUME StoreTypeOK, IndexInv, SidecarLost \/ Checkpoint \/ Signal PROVE IndexInv'
<1> USE DEF StoreTypeOK, IndexInv
<1>1. CASE SidecarLost
  <2>1. /\ proc = "down" /\ turn.at = "idle" /\ ~orderly
        /\ UNCHANGED <<proc, orderly, fts, stage, open, turn, main>>
        /\ rows' = main.rows /\ index' = main.index /\ docs' = main.docs /\ gap' = main.gap
    BY <1>1 DEF SidecarLost, Stopped, Orderly, life, handler
  <2>2. Orderly' /\ Stopped' /\ InsertReady' /\ UpdateReady' /\ IndexReady' /\ RowsCovered'
    BY <2>1 DEF Orderly, Stopped, Over, Busy, InsertReady, UpdateReady, IndexReady, RowsCovered
  <2>3. Untouched'
    BY <2>1 DEF Untouched, Busy
  <2>4. Sound' /\ FileSound'
    BY <2>1 DEF Sound, FileSound, Body
  <2> QED
    BY <2>2, <2>3, <2>4
<1>2. CASE Checkpoint \/ Signal
  <2>1. /\ proc = "up" /\ proc' # "down" /\ turn.at = "idle"
        /\ UNCHANGED <<fts, stage, open, turn, rows, index, docs, gap>>
        /\ main' \in {main, Snapshot}
    BY <1>2 DEF Checkpoint, Signal, life, handler, db, history, NoTurn
  <2>2. \A t \in Trace : /\ Mid(t)' <=> Mid(t)
                         /\ Over(t)' <=> Over(t)
                         /\ Holds(t)' <=> Holds(t)
    BY <2>1 DEF Mid, Over, Busy, Holds, Body
  <2>3. Orphaned' <=> Orphaned
    BY <2>1 DEF Orphaned, Over, Busy, Present
  <2>4. RowsCovered'
    BY <2>1, <2>2, <2>3 DEF RowsCovered
  <2>5. Orderly' /\ Stopped' /\ InsertReady' /\ UpdateReady' /\ IndexReady' /\ Sound'
    BY <2>1 DEF Orderly, Stopped, InsertReady, UpdateReady, IndexReady, Sound, Mid, Body
  <2>6. CASE main' = main
    BY <2>1, <2>4, <2>5, <2>6 DEF Untouched, FileSound, Busy
  <2>7. CASE main' = Snapshot
    <3>1. main.rows' = rows /\ main.index' = index /\ main.docs' = docs /\ main.gap' = gap
      BY <2>7 DEF Snapshot
    <3>2. Untouched' /\ FileSound'
      BY <2>1, <3>1 DEF Untouched, FileSound, Sound, Mid, Busy, Body
    <3> QED
      BY <2>4, <2>5, <3>2
  <2> QED
    BY <2>1, <2>6, <2>7
<1> QED
  BY <1>1, <1>2

(* The reconciliation compares two counts: when every document has its row, *)
(* equal counts mean that every row has its document.                       *)
LEMMA CountsAgree ==
  ASSUME StoreConstantsOK, StoreTypeOK, ~IndexStale, docs \subseteq Present PROVE docs = Present
<1>1. IsFiniteSet(Present)
  BY FS_Subset DEF StoreConstantsOK, Present
<1> QED
  BY <1>1, FS_Subset DEF IndexStale

LEMMA StartKeeps == ASSUME StoreConstantsOK, StoreTypeOK, IndexInv, ServerStarts PROVE IndexInv'
<1> USE DEF StoreTypeOK, IndexInv
<1>1. /\ proc = "down" /\ proc' = "up" /\ turn.at = "idle"
      /\ UNCHANGED <<orderly, stage, open, turn, rows, main>>
  BY DEF ServerStarts, Stopped, handler
<1>2. \A t \in Trace : /\ stage[t] = "new" \/ Over(t)
                       /\ Over(t)' <=> Over(t)
                       /\ ~Mid(t)
  BY <1>1 DEF Stopped, Over, Busy, Mid
<1>3. Orderly' /\ Stopped' /\ InsertReady' /\ UpdateReady' /\ IndexReady' /\ FileSound'
  BY <1>1 DEF Orderly, Stopped, InsertReady, UpdateReady, IndexReady, FileSound
<1>4. CASE fts' /\ IndexStale
  <2>1. index' = [t \in Trace |-> Body(t)] /\ docs' = Present /\ gap' = {}
    BY <1>4 DEF ServerStarts
  <2>2. \A t \in Trace : index'[t] = Body(t)' /\ (rows[t] # {} => Holds(t)')
    BY <1>1, <2>1 DEF Holds, Body, Present
  <2>3. Untouched'
    BY <1>1, <2>1 DEF Untouched, Busy, Body, Present
  <2> QED
    BY <1>1, <1>3, <1>4, <2>2, <2>3 DEF Sound, RowsCovered
<1>5. CASE ~(fts' /\ IndexStale)
  <2>1. UNCHANGED <<index, docs, gap>>
    BY <1>5 DEF ServerStarts
  <2>2. Untouched' /\ Sound'
    BY <1>1, <2>1 DEF Untouched, Busy, Sound, Mid, Body
  <2>3. CASE ~fts'
    <3>1. \A t \in docs : Over(t)
      BY <1>2 DEF Untouched
    <3> QED
      BY <1>2, <1>3, <2>1, <2>2, <2>3, <3>1 DEF RowsCovered
  <2>4. CASE docs \subseteq Present /\ ~IndexStale
    <3>1. docs = Present
      BY <2>4, CountsAgree
    <3>2. \A t \in Trace : rows[t] # {} /\ t \notin gap => Holds(t)
      BY <1>2, <3>1 DEF Sound, Holds, Present
    <3>3. \A t \in Trace : Holds(t)' <=> Holds(t)
      BY <1>1, <2>1 DEF Holds, Body
    <3> QED
      BY <1>1, <1>3, <2>1, <2>2, <2>3, <3>2, <3>3 DEF RowsCovered
  <2>5. CASE ~(docs \subseteq Present)
    <3>1. PICK o \in docs \ Present : TRUE
      BY <2>5
    <3>2. Over(o)'
      BY <1>2 DEF Untouched
    <3>3. Orphaned'
      BY <1>1, <2>1, <3>1, <3>2 DEF Orphaned, Present
    <3>4. \A t \in Trace : rows[t] # {} => Over(t)'
      BY <1>2 DEF Untouched
    <3> QED
      BY <1>1, <1>3, <2>1, <2>2, <2>3, <3>3, <3>4 DEF RowsCovered
  <2> QED
    BY <1>5, <2>3, <2>4, <2>5
<1> QED
  BY <1>4, <1>5

LEMMA PurgeKeeps == ASSUME StoreTypeOK, StoreTypeOK', IndexInv, NEW t \in Trace, Purge(t) PROVE IndexInv'
<1> USE DEF StoreTypeOK, IndexInv
<1>1. /\ rows[t] # {} /\ rows'[t] = {} /\ docs' = docs \ {t}
      /\ \A u \in Trace \ {t} : rows'[u] = rows[u] /\ index'[u] = index[u]
      /\ index'[t] = index[t] \ Body(t)
      /\ UNCHANGED <<proc, orderly, fts, stage, open, turn, gap>>
      /\ main' = IF proc = "down" THEN Snapshot' ELSE main
  BY DEF Purge, life, handler
<1>2. stage[t] # "new"
  BY <1>1 DEF Untouched
<1>3. \A u \in Trace : /\ Mid(u)' <=> Mid(u)
                       /\ Over(u)' <=> Over(u)
                       /\ u # t => (Holds(u)' <=> Holds(u)) /\ Body(u)' = Body(u)
  BY <1>1 DEF Mid, Over, Busy, Holds, Body
<1>4. Orphaned => Orphaned'
  <2> SUFFICES ASSUME Orphaned PROVE Orphaned'
    OBVIOUS
  <2>1. PICK o \in docs \ Present : Over(o)
    BY DEF Orphaned
  <2>2. o \in docs' \ Present' /\ Over(o)'
    BY <1>1, <1>3, <2>1 DEF Present
  <2> QED
    BY <2>2 DEF Orphaned
<1>5. RowsCovered'
  BY <1>1, <1>3, <1>4 DEF RowsCovered
<1>6. Orderly' /\ Stopped'
  BY <1>1, <1>3 DEF Orderly, Stopped
<1>7. InsertReady' /\ UpdateReady' /\ IndexReady'
  <2>1. turn.at # "idle" => turn.trace \in Trace
    BY TurnFields
  <2>2. CASE turn.at # "idle" /\ turn.trace = t
    BY <1>1, <2>2 DEF InsertReady, UpdateReady, IndexReady, Present
  <2>3. CASE turn.at # "idle" /\ turn.trace # t
    <3>1. PICK u \in Trace \ {t} : u = turn.trace
      BY <2>1, <2>3
    <3>2. rows'[u] = rows[u] /\ index'[u] = index[u] /\ Body(u)' = Body(u)
          /\ (u \in docs' <=> u \in docs) /\ (u \in Present' <=> u \in Present)
      BY <1>1, <3>1 DEF Body, Present
    <3> QED
      BY <1>1, <3>1, <3>2 DEF InsertReady, UpdateReady, IndexReady, Whole
  <2>4. CASE turn.at = "idle"
    BY <1>1, <2>4 DEF InsertReady, UpdateReady, IndexReady
  <2> QED
    BY <2>2, <2>3, <2>4
<1>8. Sound'
  BY <1>1, <1>3 DEF Sound
<1>9. Untouched' /\ FileSound'
  <2>1. CASE proc = "down"
    <3>1. main.rows' = rows' /\ main.index' = index' /\ main.docs' = docs' /\ main.gap' = gap'
      BY <1>1, <2>1 DEF Snapshot
    <3>2. \A u \in Trace : ~Mid(u)
      BY <2>1 DEF Stopped, Mid
    <3> QED
      BY <1>1, <1>2, <1>3, <1>8, <3>1, <3>2 DEF Untouched, Busy, FileSound, Sound, Body
  <2>2. CASE proc # "down"
    BY <1>1, <1>2, <2>2 DEF Untouched, Busy, FileSound
  <2> QED
    BY <2>1, <2>2
<1> QED
  BY <1>5, <1>6, <1>7, <1>8, <1>9

LEMMA IndexNext ==
  ASSUME StoreConstantsOK, StoreTypeOK, StoreTypeOK', IndexInv, [StoreNext]_storeVars PROVE IndexInv'
<1>1. ASSUME NEW t \in Trace, HandlerStep(t) PROVE IndexInv'
  BY <1>1, HandlersKeep
<1>2. ASSUME NEW t \in Trace, Purge(t) PROVE IndexInv'
  BY <1>2, PurgeKeeps
<1>3. CASE Statement
  BY <1>3, StatementKeeps
<1>4. CASE Checkpoint \/ Signal \/ SidecarLost
  BY <1>4, SidecarKeeps
<1>5. CASE Drained \/ ForceClose \/ Crash
  BY <1>5, StopKeeps DEF Drained, ForceClose, Crash
<1>6. CASE ServerStarts
  BY <1>6, StartKeeps
<1>7. CASE UNCHANGED storeVars
  <2>1. UNCHANGED <<proc, fts, orderly, stage, open, turn, rows, index, docs, main, gap>>
    BY <1>7 DEF storeVars, life, handler, db, history
  <2>2. \A t : /\ Mid(t)' <=> Mid(t)
               /\ Over(t)' <=> Over(t)
               /\ Holds(t)' <=> Holds(t)
    BY <2>1 DEF Mid, Over, Busy, Holds, Body
  <2>3. RowsCovered'
    BY <2>1, <2>2 DEF IndexInv, RowsCovered, Orphaned, Present
  <2>4. Orderly' /\ Stopped' /\ Untouched' /\ Sound' /\ FileSound'
    BY <2>1, <2>2 DEF IndexInv, Orderly, Stopped, Untouched, Busy, Sound, FileSound, Snapshot, Body
  <2>5. InsertReady' /\ UpdateReady' /\ IndexReady'
    BY <2>1 DEF IndexInv, InsertReady, UpdateReady, IndexReady, Whole, Body, Present
  <2> QED
    BY <2>3, <2>4, <2>5 DEF IndexInv
<1> QED
  BY <1>1, <1>2, <1>3, <1>4, <1>5, <1>6, <1>7 DEF StoreNext, HandlerStep

LEMMA IndexInvariant == ASSUME StoreConstantsOK PROVE StoreSpec => [](StoreTypeOK /\ IndexInv)
<1>1. StoreInit => StoreTypeOK /\ IndexInv
  BY StoreTypeInit, IndexInit
<1>2. (StoreTypeOK /\ IndexInv) /\ [StoreNext]_storeVars => (StoreTypeOK /\ IndexInv)'
  BY StoreTypeNext, IndexNext
<1> QED
  BY <1>1, <1>2, PTL DEF StoreSpec

(* While the service answers, with FTS5, the full-text index holds of every *)
(* row exactly what the row says, but for the rows whose indexing failed or *)
(* was cut unseen: the counts the start compares are enough to notice the   *)
(* rest, for any number of requests, failures and restarts.                 *)
THEOREM IndexStaysExact == ASSUME StoreConstantsOK PROVE StoreSpec => []IndexExact
<1>1. StoreTypeOK /\ IndexInv => IndexExact
  <2> SUFFICES ASSUME StoreTypeOK, IndexInv, proc = "up", fts, turn = NoTurn, docs \subseteq Present,
                      NEW t \in Present \ gap
               PROVE  index[t] = Body(t)
    BY DEF IndexExact
  <2>1. ~Orphaned /\ ~Mid(t)
    BY DEF Orphaned, Mid, NoTurn
  <2>2. t \in Trace /\ rows[t] # {} /\ t \notin gap
    BY DEF Present
  <2>3. Holds(t)
    BY <2>1, <2>2 DEF IndexInv, RowsCovered
  <2> QED
    BY <2>3 DEF Holds
<1> QED
  BY <1>1, IndexInvariant, PTL

(* No statement, shutdown or start takes back what an earlier statement     *)
(* wrote: only a purge does, and a crash whose sidecars are lost.           *)
THEOREM WritesAreKept == ASSUME StoreConstantsOK PROVE StoreSpec => NothingWrittenIsLost
<1> DEFINE Kept == \A t \in Trace :
                     \/ rows[t] \subseteq rows'[t]
                     \/ rows'[t] = {} /\ t \in missed'
                     \/ proc = "down" /\ ~orderly
<1>1. StoreTypeOK /\ IndexInv /\ [StoreNext]_storeVars => [Kept]_storeVars
  <2> SUFFICES ASSUME StoreTypeOK, IndexInv, [StoreNext]_storeVars, NEW t \in Trace PROVE Kept!(t)
    BY DEF Kept
  <2>1. CASE UNCHANGED rows
    BY <2>1
  <2>2. CASE Write
    <3>1. turn.trace \in Trace
      BY <2>2, TurnFields DEF StoreTypeOK, Write, At
    <3> QED
      BY <2>2, <3>1 DEF StoreTypeOK, Write, Columns, T
  <2>3. ASSUME NEW u \in Trace, Purge(u) PROVE Kept!(t)
    BY <2>3 DEF StoreTypeOK, Purge
  <2>4. CASE SidecarLost
    BY <2>4 DEF SidecarLost, IndexInv, Orderly
  <2> QED
    BY <2>1, <2>2, <2>3, <2>4
    DEF StoreNext, Begin, RecordModel, RequestSucceeds, StreamEnds, Respond, Statement, SelectBefore, WriteFails,
        Unindex, Index, SyncFails, Checkpoint, Signal, Drained, ForceClose, Crash, Stop, ServerStarts,
        storeVars, db
<1> QED
  BY <1>1, IndexInvariant, PTL DEF StoreSpec, NothingWrittenIsLost

----------------------------------------------------------------------------
(* What is picked is a date or none, and the zone and the row are as the    *)
(* store and the environment give them.                                     *)
THEOREM DateTypeCorrect == ASSUME DateConstantsOK PROVE DateSpec => []DateTypeOK
<1>1. DateInit => DateTypeOK
  BY DEF DateInit, DateTypeOK, Picked
<1>2. DateTypeOK /\ [DateNext]_dateVars => DateTypeOK'
  <2> SUFFICES ASSUME DateTypeOK, [DateNext]_dateVars PROVE DateTypeOK'
    OBVIOUS
  <2>1. ASSUME NEW p \in Picked, PickFrom(p) PROVE DateTypeOK'
    BY <2>1 DEF PickFrom, DateTypeOK
  <2>2. ASSUME NEW p \in Picked, PickTo(p) PROVE DateTypeOK'
    BY <2>2 DEF PickTo, DateTypeOK
  <2>3. CASE UNCHANGED dateVars
    BY <2>3 DEF dateVars, DateTypeOK
  <2> QED
    BY <2>1, <2>2, <2>3 DEF DateNext
<1> QED
  BY <1>1, <1>2, PTL DEF DateSpec

(* The numbers that the filter works on.                                    *)
LEMMA Numbers ==
  ASSUME DateConstantsOK, DateTypeOK
  PROVE  /\ zone.before \in Int /\ zone.after \in Int /\ zone.at \in Int
         /\ -Margin < zone.before /\ zone.before < Margin
         /\ -Margin < zone.after /\ zone.after < Margin
         /\ Day \in Nat \ {0} /\ Margin \in Nat /\ LastMs \in Nat
         /\ row.sec \in Int /\ row.ms \in 0..LastMs
         /\ \A d \in from \cup to : d \in Int
<1>1. zone.before \in Offset /\ zone.after \in Offset /\ zone.at \in Change
  BY DEF DateTypeOK
<1>2. row.sec \in Second /\ row.ms \in 0..LastMs
  BY DEF DateTypeOK, Instant
<1>3. from \subseteq Date /\ to \subseteq Date
  BY DEF DateTypeOK, Picked
<1>4. Offset \subseteq Int /\ Change \subseteq Int /\ Second \subseteq Int /\ Date \subseteq Int
  BY DEF DateConstantsOK
<1>5. \A o \in Offset : -Margin < o /\ o < Margin
  BY DEF DateConstantsOK
<1>6. Day \in Nat \ {0} /\ Margin \in Nat /\ LastMs \in Nat
  BY DEF DateConstantsOK
<1> QED
  BY <1>1, <1>2, <1>3, <1>4, <1>5, <1>6

(* Where a wall-clock time is put, resolved to the earlier side: no second  *)
(* that reads this time or a later one comes before it, and its own reading *)
(* is no further off than the change moves the clock.                       *)
LEMMA EarlierBound ==
  ASSUME DateConstantsOK, DateTypeOK, NEW target \in Int, NEW s \in Int
  PROVE  /\ target <= s + OffsetMsAt(s) => ZonedWallClock(target, FALSE) <= s
         /\ ZonedWallClock(target, FALSE) <= s => target - Jump <= s + OffsetMsAt(s)
<1> USE Numbers
<1>1. CASE target + Margin < zone.at
  BY <1>1, SMTT(60) DEF ZonedWallClock, OffsetMsAt, Jump, Larger, Smaller
<1>2. CASE zone.at <= target - Margin
  BY <1>2, SMTT(60) DEF ZonedWallClock, OffsetMsAt, Jump, Larger, Smaller
<1>3. CASE target - Margin < zone.at /\ zone.at <= target + Margin
  BY <1>3, SMTT(60) DEF ZonedWallClock, OffsetMsAt, Jump, Larger, Smaller
<1>4. \/ target + Margin < zone.at
      \/ zone.at <= target - Margin
      \/ target - Margin < zone.at /\ zone.at <= target + Margin
  OBVIOUS
<1> HIDE Numbers
<1> QED
  BY <1>1, <1>2, <1>3, <1>4, Zenon

(* The same, resolved to the later side.                                    *)
LEMMA LaterBound ==
  ASSUME DateConstantsOK, DateTypeOK, NEW target \in Int, NEW s \in Int
  PROVE  /\ s + OffsetMsAt(s) <= target => s <= ZonedWallClock(target, TRUE)
         /\ s <= ZonedWallClock(target, TRUE) => s + OffsetMsAt(s) <= target + Jump
<1> USE Numbers
<1>1. CASE target + Margin < zone.at
  BY <1>1, SMTT(60) DEF ZonedWallClock, OffsetMsAt, Jump, Larger, Smaller
<1>2. CASE zone.at <= target - Margin
  BY <1>2, SMTT(60) DEF ZonedWallClock, OffsetMsAt, Jump, Larger, Smaller
<1>3. CASE target - Margin < zone.at /\ zone.at <= target + Margin
  BY <1>3, SMTT(60) DEF ZonedWallClock, OffsetMsAt, Jump, Larger, Smaller
<1>4. \/ target + Margin < zone.at
      \/ zone.at <= target - Margin
      \/ target - Margin < zone.at /\ zone.at <= target + Margin
  OBVIOUS
<1> HIDE Numbers
<1> QED
  BY <1>1, <1>2, <1>3, <1>4, Zenon

LEMMA SecondsDecide ==
  ASSUME NEW x \in Int, NEW y \in Int, NEW m \in Int, NEW n \in Int, m <= n
  PROVE  (x < y \/ (x = y /\ m <= n)) <=> x <= y
  OBVIOUS

(* A local date is over at the midnight that follows it, to the last        *)
(* millisecond of its last second; so the days picked are covered, and the  *)
(* list overshoots them by no more than the change moves the clock.         *)
LEMMA CoversTheDays == ASSUME DateConstantsOK, DateTypeOK PROVE DaysCovered
<1>1. \A d \in from : AtMost(DayStartUtc(d), row) <=> ZonedWallClock(d, FALSE) <= row.sec
  <2> SUFFICES ASSUME NEW d \in from
               PROVE AtMost(DayStartUtc(d), row) <=> ZonedWallClock(d, FALSE) <= row.sec
    OBVIOUS
  <2>1. ZonedWallClock(d, FALSE) \in Int
    BY Numbers DEF ZonedWallClock, OffsetMsAt, Larger, Smaller
  <2>2. DayStartUtc(d).sec = ZonedWallClock(d, FALSE) /\ DayStartUtc(d).ms = 0
    BY DEF DayStartUtc
  <2>3. AtMost(DayStartUtc(d), row)
          <=> \/ ZonedWallClock(d, FALSE) < row.sec
              \/ ZonedWallClock(d, FALSE) = row.sec /\ 0 <= row.ms
    BY <2>2, Zenon DEF AtMost
  <2>4. (\/ ZonedWallClock(d, FALSE) < row.sec
         \/ ZonedWallClock(d, FALSE) = row.sec /\ 0 <= row.ms)
          <=> ZonedWallClock(d, FALSE) <= row.sec
    <3>1. row.sec \in Int /\ row.ms \in Int /\ 0 \in Int /\ 0 <= row.ms
      BY Numbers
    <3> QED
      BY <2>1, <3>1, SecondsDecide, Zenon
  <2> QED
    BY <2>3, <2>4, Zenon
<1>2. \A d \in to : AtMost(row, DayEndUtc(d)) <=> row.sec <= ZonedWallClock(d + Day - 1, TRUE)
  <2> SUFFICES ASSUME NEW d \in to
               PROVE AtMost(row, DayEndUtc(d)) <=> row.sec <= ZonedWallClock(d + Day - 1, TRUE)
    OBVIOUS
  <2>1. ZonedWallClock(d + Day - 1, TRUE) \in Int
    BY Numbers DEF ZonedWallClock, OffsetMsAt, Larger, Smaller
  <2>2. DayEndUtc(d).sec = ZonedWallClock(d + Day - 1, TRUE) /\ DayEndUtc(d).ms = LastMs
    BY DEF DayEndUtc
  <2>3. AtMost(row, DayEndUtc(d))
          <=> \/ row.sec < ZonedWallClock(d + Day - 1, TRUE)
              \/ row.sec = ZonedWallClock(d + Day - 1, TRUE) /\ row.ms <= LastMs
    BY <2>2, Zenon DEF AtMost
  <2>4. (\/ row.sec < ZonedWallClock(d + Day - 1, TRUE)
         \/ row.sec = ZonedWallClock(d + Day - 1, TRUE) /\ row.ms <= LastMs)
          <=> row.sec <= ZonedWallClock(d + Day - 1, TRUE)
    <3>1. row.sec \in Int /\ row.ms \in Int /\ LastMs \in Int /\ row.ms <= LastMs
      BY Numbers
    <3> QED
      BY <2>1, <3>1, SecondsDecide
  <2> QED
    BY <2>3, <2>4, Zenon
<1>3. Local \in Int /\ Jump \in Int
  BY Numbers DEF Local, OffsetMsAt, Jump, Larger
<1>4. \A d \in from : /\ d <= Local => AtMost(DayStartUtc(d), row)
                      /\ AtMost(DayStartUtc(d), row) => d - Jump <= Local
  BY <1>1, Numbers, EarlierBound DEF Local
<1>5. \A d \in to : /\ Local < d + Day => AtMost(row, DayEndUtc(d))
                    /\ AtMost(row, DayEndUtc(d)) => Local < d + Day + Jump
  <2> SUFFICES ASSUME NEW d \in to
               PROVE  /\ Local < d + Day => AtMost(row, DayEndUtc(d))
                      /\ AtMost(row, DayEndUtc(d)) => Local < d + Day + Jump
    OBVIOUS
  <2>1. d + Day - 1 \in Int /\ row.sec \in Int
    BY Numbers
  <2>2. /\ Local <= d + Day - 1 => row.sec <= ZonedWallClock(d + Day - 1, TRUE)
        /\ row.sec <= ZonedWallClock(d + Day - 1, TRUE) => Local <= d + Day - 1 + Jump
    BY <2>1, LaterBound DEF Local
  <2>3. (Local < d + Day <=> Local <= d + Day - 1)
        /\ (Local < d + Day + Jump <=> Local <= d + Day - 1 + Jump)
    BY <1>3, Numbers
  <2> QED
    BY <1>2, <2>2, <2>3, Zenon
<1> QED
  BY <1>4, <1>5 DEF DaysCovered, Covered, Tight, Listed

(* In every zone whose offsets the margin exceeds and that changes once,    *)
(* the filter of the sessions page covers the days that are picked.         *)
THEOREM FilterCoversTheDays == ASSUME DateConstantsOK PROVE DateSpec => []DaysCovered
<1>1. DateSpec => []DateTypeOK
  BY DateTypeCorrect
<1>2. DateTypeOK => DaysCovered
  BY CoversTheDays
<1> QED
  BY <1>1, <1>2, PTL
=============================================================================
