------------------------ MODULE MetadataIndex_proofs ------------------------
(***************************************************************************)
(* For any replicas, requests, keys, batch size and number of admin calls: *)
(* what is in indexed_metadata goes back to an activation, and a backfill  *)
(* that is over has reached every row of its past.                         *)
(***************************************************************************)
EXTENDS MetadataIndex, TLAPS

(* A log in progress is in the hands of one write loop, and before its     *)
(* INSERT there is no row of it.  What is inserted is a log with metadata. *)
LogsOwned ==
  \A p \in Replicas :
    /\ writer[p].pc \in {"insert", "register"} => writer[p].log # None
    /\ writer[p].log # None =>
         /\ writer[p].pc # "register" => writer[p].log \notin rows
         /\ \A q \in Replicas \ {p} : writer[q].log # writer[p].log

(* Jobs are numbered by the call they belong to.                           *)
CallsCounted == \A p \in Replicas : admin[p] # IdleAdmin => calls > 0

Typed == TypeOK /\ LogsOwned /\ CallsCounted

-----------------------------------------------------------------------------
WriterState == [pc : {"idle", "fetch", "store", "insert", "register"},
                log : Requests \cup {None}, keys : SUBSET Keys]

(* A step within writeLog keeps the log.                                   *)
WriterAt(p, pc, keys) ==
  writer' = [writer EXCEPT ![p] = [pc |-> pc, log |-> writer[p].log, keys |-> keys]]

LEMMA WriterMoves ==
  ASSUME Typed, NEW p \in Replicas, NEW pc \in {"fetch", "store", "insert", "register"},
         NEW keys \in SUBSET Keys, WriterAt(p, pc, keys),
         pc \in {"insert", "register"} => writer[p].log # None,
         UNCHANGED admin, calls' = calls,
         pc # "register" => writer[p].pc # "register" /\ UNCHANGED rows,
         rows' \subseteq rows \cup {writer[p].log}
  PROVE  writer' \in [Replicas -> WriterState] /\ LogsOwned' /\ CallsCounted'
<1>1. writer \in [Replicas -> WriterState] /\ writer[p].log \in Requests \cup {None}
  BY DEF Typed, TypeOK, WriterState
<1>2. [pc |-> pc, log |-> writer[p].log, keys |-> keys] \in WriterState
  BY <1>1 DEF WriterState
<1>3. writer' \in [Replicas -> WriterState]
  BY <1>1, <1>2 DEF WriterAt
<1>4. /\ writer'[p].pc = pc /\ writer'[p].log = writer[p].log
      /\ \A q \in Replicas \ {p} : writer'[q] = writer[q]
  BY <1>1 DEF WriterAt
<1>5. \A q \in Replicas : writer'[q].log = writer[q].log
  BY <1>4
<1>6. LogsOwned'
  BY <1>4, <1>5 DEF Typed, LogsOwned
<1>7. CallsCounted'
  BY DEF Typed, CallsCounted
<1> QED
  BY <1>3, <1>6, <1>7

(* A write loop that is done with its log.                                 *)
LEMMA WriterRests ==
  ASSUME Typed, NEW p \in Replicas, writer' = [writer EXCEPT ![p] = IdleWriter],
         UNCHANGED admin, calls' = calls, rows' \in {rows, rows \cup {writer[p].log}}
  PROVE  writer' \in [Replicas -> WriterState] /\ LogsOwned' /\ CallsCounted'
<1>1. writer \in [Replicas -> WriterState] /\ IdleWriter \in WriterState
  BY DEF Typed, TypeOK, WriterState, IdleWriter
<1>2. /\ writer'[p].pc = "idle" /\ writer'[p].log = None
      /\ \A q \in Replicas \ {p} : writer'[q] = writer[q]
  BY <1>1 DEF IdleWriter
<1>3. LogsOwned'
  BY <1>2 DEF Typed, LogsOwned
<1> QED
  BY <1>1, <1>3 DEF Typed, CallsCounted

LEMMA NextLog ==
  ASSUME NEW p \in Replicas, writer[p] \in WriterState
  PROVE  KeysKnown(p) \in {IdleWriter, [pc |-> "insert", log |-> writer[p].log, keys |-> writer[p].keys]}
         /\ (writer[p].log = None => KeysKnown(p) = IdleWriter)
  BY DEF KeysKnown, WriterState

LEMMA InitTyped == Init => Typed
<1> SUFFICES ASSUME Init PROVE Typed
  OBVIOUS
<1> USE MetadataIndexAssumption
<1>1. TypeOK
  BY DEF Init, TypeOK, NoEntry, IdleWriter
<1>2. LogsOwned /\ CallsCounted
  BY DEF Init, LogsOwned, CallsCounted, IdleWriter
<1> QED
  BY <1>1, <1>2 DEF Typed

LEMMA NextTyped == Typed /\ [Next]_vars => Typed'
<1> SUFFICES ASSUME Typed, [Next]_vars PROVE Typed'
  OBVIOUS
<1> USE MetadataIndexAssumption
<1>1. ASSUME NEW p \in Replicas, NEW r \in Requests, TakeLog(p, r) PROVE Typed'
  <2>1. PICK w \in WriterState : /\ w.log = r /\ w.pc \in {"fetch", "insert"}
                                 /\ writer' = [writer EXCEPT ![p] = w]
    <3>1. cache[p].keys \in SUBSET Keys
      BY DEF Typed, TypeOK
    <3>2. /\ [pc |-> "fetch", log |-> r, keys |-> {}] \in WriterState
          /\ [pc |-> "insert", log |-> r, keys |-> cache[p].keys] \in WriterState
      BY <3>1 DEF WriterState
    <3> QED
      BY <1>1, <3>2 DEF TakeLog
  <2>2. writer \in [Replicas -> WriterState] /\ writer' \in [Replicas -> WriterState]
    BY <2>1 DEF Typed, TypeOK, WriterState
  <2>3. /\ writer'[p] = w /\ \A q \in Replicas \ {p} : writer'[q] = writer[q]
        /\ r \notin rows /\ \A q \in Replicas : writer[q].log # r
    BY <1>1, <2>1, <2>2 DEF TakeLog, Taken
  <2>4. LogsOwned'
    BY <1>1, <2>1, <2>3 DEF Typed, LogsOwned, TakeLog, dbVars
  <2> QED
    BY <1>1, <2>2, <2>4 DEF Typed, TypeOK, CallsCounted, TakeLog, dbVars, historyVars, WriterState
<1>2. ASSUME NEW p \in Replicas, TakeOther(p) PROVE Typed'
  <2>1. [pc |-> "fetch", log |-> None, keys |-> {}] \in WriterState
    BY DEF WriterState
  <2>2. writer \in [Replicas -> WriterState] /\ writer' \in [Replicas -> WriterState]
    BY <1>2, <2>1 DEF TakeOther, Typed, TypeOK, WriterState
  <2>3. /\ writer'[p].log = None /\ writer'[p].pc = "fetch"
        /\ \A q \in Replicas \ {p} : writer'[q] = writer[q]
    BY <1>2, <2>2 DEF TakeOther
  <2>4. LogsOwned'
    BY <1>2, <2>3 DEF Typed, LogsOwned, TakeOther, dbVars
  <2> QED
    BY <1>2, <2>2, <2>4 DEF Typed, TypeOK, CallsCounted, TakeOther, dbVars, historyVars, WriterState
<1>3. ASSUME NEW p \in Replicas, FetchActiveKeys(p) PROVE Typed'
  <2>1. writer[p] \in WriterState /\ isActive \in SUBSET Keys
    BY DEF Typed, TypeOK, WriterState
  <2>2. \/ WriterAt(p, "store", isActive)
        \/ WriterAt(p, "store", writer[p].keys)
        \/ WriterAt(p, "insert", writer[p].keys) /\ writer[p].log # None
        \/ writer' = [writer EXCEPT ![p] = IdleWriter]
    <3>1. \/ writer' = [writer EXCEPT ![p].pc = "store", ![p].keys = isActive]
          \/ writer' = [writer EXCEPT ![p].pc = "store"]
          \/ writer' = [writer EXCEPT ![p] = KeysKnown(p)]
      BY <1>3 DEF FetchActiveKeys
    <3>2. CASE writer' = [writer EXCEPT ![p] = KeysKnown(p)]
      BY <2>1, <3>2, NextLog DEF WriterAt
    <3>3. CASE writer' # [writer EXCEPT ![p] = KeysKnown(p)]
      BY <2>1, <3>1, <3>3 DEF WriterAt, WriterState
    <3> QED
      BY <3>2, <3>3
  <2>3. writer' \in [Replicas -> WriterState] /\ LogsOwned' /\ CallsCounted'
    BY <1>3, <2>1, <2>2, WriterMoves, WriterRests DEF FetchActiveKeys, dbVars, WriterState
  <2>4. errors' \in 0..MaxErrors
    BY <1>3 DEF Typed, TypeOK, FetchActiveKeys, Works, Fails
  <2> QED
    BY <1>3, <2>3, <2>4 DEF Typed, TypeOK, WriterState, FetchActiveKeys, dbVars, historyVars
<1>4. ASSUME NEW p \in Replicas, StoreEntry(p) PROVE Typed'
  <2>1. writer[p] \in WriterState
    BY DEF Typed, TypeOK, WriterState
  <2>2. \/ WriterAt(p, "insert", writer[p].keys) /\ writer[p].log # None
        \/ writer' = [writer EXCEPT ![p] = IdleWriter]
    BY <1>4, <2>1, NextLog DEF StoreEntry, WriterAt
  <2>3. writer' \in [Replicas -> WriterState] /\ LogsOwned' /\ CallsCounted'
    BY <1>4, <2>1, <2>2, WriterMoves, WriterRests DEF StoreEntry, dbVars, WriterState
  <2>4. cache' \in [Replicas -> [fresh : BOOLEAN, keys : SUBSET Keys]]
    BY <1>4, <2>1 DEF Typed, TypeOK, StoreEntry, WriterState
  <2> QED
    BY <1>4, <2>3, <2>4 DEF Typed, TypeOK, WriterState, StoreEntry, dbVars, historyVars
<1>5. ASSUME NEW p \in Replicas, InsertRow(p) PROVE Typed'
  <2>0. writer[p] \in WriterState /\ writer[p].log \in Requests
    BY <1>5 DEF Typed, TypeOK, LogsOwned, InsertRow, WriterState
  <2>1. CASE Works /\ WriterAt(p, "register", {}) /\ rows' = rows \cup {writer[p].log}
    <3>1. writer' \in [Replicas -> WriterState] /\ LogsOwned' /\ CallsCounted'
      BY <1>5, <2>0, <2>1, WriterMoves DEF InsertRow
    <3>2. indexed' \in [Requests -> SUBSET Keys] /\ rows' \subseteq Requests /\ errors' \in 0..MaxErrors
      BY <1>5, <2>0, <2>1 DEF Typed, TypeOK, InsertRow, Works, Fails
    <3> QED
      BY <1>5, <3>1, <3>2 DEF Typed, TypeOK, WriterState, InsertRow, historyVars
  <2>2. CASE Fails /\ writer' = [writer EXCEPT ![p] = IdleWriter] /\ UNCHANGED <<rows, indexed>>
    <3>1. writer' \in [Replicas -> WriterState] /\ LogsOwned' /\ CallsCounted'
      BY <1>5, <2>2, WriterRests DEF InsertRow
    <3>2. errors' \in 0..MaxErrors
      BY <2>2 DEF Typed, TypeOK, Fails
    <3> QED
      BY <1>5, <2>2, <3>1, <3>2 DEF Typed, TypeOK, WriterState, InsertRow, historyVars
  <2> QED
    BY <1>5, <2>1, <2>2 DEF InsertRow, WriterAt
<1>6. ASSUME NEW p \in Replicas, RegisterKeys(p) PROVE Typed'
  <2>0. writer[p].log \in Requests
    BY <1>6 DEF Typed, TypeOK, LogsOwned, RegisterKeys
  <2>1. writer' \in [Replicas -> WriterState] /\ LogsOwned' /\ CallsCounted'
    BY <1>6, WriterRests DEF RegisterKeys
  <2>2. registered \subseteq registered' /\ registered' \subseteq Keys /\ errors' \in 0..MaxErrors
    BY <1>6, <2>0 DEF Typed, TypeOK, RegisterKeys, Works, Fails
  <2> QED
    BY <1>6, <2>1, <2>2 DEF Typed, TypeOK, RegisterKeys, WriterState, historyVars
<1>7. ASSUME NEW p \in Replicas, Expire(p) PROVE Typed'
  <2>1. cache[p] \in [fresh : BOOLEAN, keys : SUBSET Keys]
    BY DEF Typed, TypeOK
  <2>2. [cache[p] EXCEPT !.fresh = FALSE] \in [fresh : BOOLEAN, keys : SUBSET Keys]
    BY <2>1
  <2>3. cache' = [cache EXCEPT ![p] = [cache[p] EXCEPT !.fresh = FALSE]]
    BY <1>7 DEF Expire
  <2>4. cache' \in [Replicas -> [fresh : BOOLEAN, keys : SUBSET Keys]]
    BY <2>2, <2>3 DEF Typed, TypeOK
  <2> QED
    BY <1>7, <2>4 DEF Typed, TypeOK, LogsOwned, CallsCounted, Expire, dbVars, historyVars
<1>8. ASSUME NEW p \in Replicas, NEW op \in Ops, NEW k \in Keys, UpdateIsActive(p, op, k)
      PROVE  Typed'
  <2>1. TypeOK'
    <3>1. isActive' \subseteq registered' /\ everActive' \subseteq Keys /\ undone' \subseteq Keys
      BY <1>8 DEF Typed, TypeOK, UpdateIsActive
    <3>2. activatedBefore' \in [Keys -> SUBSET Requests]
      BY <1>8 DEF Typed, TypeOK, UpdateIsActive
    <3>3. admin' \in [Replicas -> [op : Ops, key : Keys] \cup {IdleAdmin}]
      BY <1>8 DEF Typed, TypeOK, UpdateIsActive
    <3>4. calls' \in 0..MaxCalls /\ errors' \in 0..MaxErrors
      BY <1>8 DEF Typed, TypeOK, UpdateIsActive, Works, Fails
    <3> QED
      BY <1>8, <3>1, <3>2, <3>3, <3>4 DEF Typed, TypeOK, UpdateIsActive
  <2>2. LogsOwned' /\ CallsCounted'
    BY <1>8 DEF Typed, TypeOK, LogsOwned, CallsCounted, UpdateIsActive
  <2> QED
    BY <2>1, <2>2 DEF Typed
<1>9. ASSUME NEW p \in Replicas, InvalidateAndSpawn(p) PROVE Typed'
  <2>1. [id |-> calls, at |-> p, op |-> admin[p].op, key |-> admin[p].key] \in Job
    BY <1>9 DEF Typed, TypeOK, CallsCounted, InvalidateAndSpawn, Job
  <2>2. TypeOK'
    BY <1>9, <2>1 DEF Typed, TypeOK, InvalidateAndSpawn, NoEntry, dbVars, historyVars
  <2>3. LogsOwned' /\ CallsCounted'
    BY <1>9 DEF Typed, TypeOK, LogsOwned, CallsCounted, InvalidateAndSpawn, dbVars, historyVars
  <2> QED
    BY <2>2, <2>3 DEF Typed
<1>10. ASSUME NEW p \in Replicas, Restart(p) PROVE Typed'
  <2>1. TypeOK'
    BY <1>10 DEF Typed, TypeOK, Restart, Fails, NoEntry, IdleWriter, Job, dbVars
  <2>2. LogsOwned' /\ CallsCounted'
    BY <1>10 DEF Typed, TypeOK, LogsOwned, CallsCounted, Restart, IdleWriter, dbVars
  <2> QED
    BY <2>1, <2>2 DEF Typed
<1>11. ASSUME NEW j \in jobs, NEW S \in SUBSET rows, Batch(j, S) PROVE Typed'
  <2>1. TypeOK'
    BY <1>11 DEF Typed, TypeOK, Batch, Job, historyVars
  <2>2. LogsOwned' /\ CallsCounted'
    BY <1>11 DEF Typed, LogsOwned, CallsCounted, Batch, historyVars
  <2> QED
    BY <2>1, <2>2 DEF Typed
<1>12. ASSUME NEW j \in jobs, JobFails(j) PROVE Typed'
  <2>1. TypeOK'
    BY <1>12 DEF Typed, TypeOK, JobFails, Fails, Job, dbVars
  <2>2. LogsOwned' /\ CallsCounted'
    BY <1>12 DEF Typed, LogsOwned, CallsCounted, JobFails, dbVars
  <2> QED
    BY <2>1, <2>2 DEF Typed
<1>13. CASE UNCHANGED vars
  BY <1>13 DEF Typed, TypeOK, LogsOwned, CallsCounted, vars
<1> QED
  BY <1>1, <1>2, <1>3, <1>4, <1>5, <1>6, <1>7, <1>8, <1>9, <1>10, <1>11, <1>12, <1>13
     DEF Next, WriterNext, JobNext

LEMMA AlwaysTyped == Spec => []Typed
  BY InitTyped, NextTyped, PTL DEF Spec

(* Every reachable state is well typed, a log is in the hands of one write *)
(* loop, and its row is inserted once (writer.go:78-147).                  *)
THEOREM IndexTyped == Spec => [](TypeOK /\ LogsOwned)
<1>1. Typed => TypeOK /\ LogsOwned
  BY DEF Typed
<1> QED
  BY <1>1, AlwaysTyped, PTL

-----------------------------------------------------------------------------
(* Wherever a set of active keys is, however stale, and whatever job still *)
(* runs, an activation came before it.                                     *)
OnceActive ==
  /\ isActive \subseteq everActive
  /\ \A p \in Replicas : /\ cache[p].keys \subseteq everActive
                         /\ writer[p].keys \subseteq everActive
                         /\ admin[p].op = "activate" => admin[p].key \in everActive
  /\ \A j \in jobs : j.op = "activate" => j.key \in everActive

Bounded == OnceActive /\ IndexBounded

LEMMA InitBounded == Init => Bounded
  BY DEF Init, Bounded, OnceActive, IndexBounded, NoEntry, IdleWriter, IdleAdmin

LEMMA NextBounded == Typed /\ Bounded /\ [Next]_vars => Bounded'
<1> SUFFICES ASSUME Typed, Bounded, [Next]_vars PROVE Bounded'
  OBVIOUS
<1> USE MetadataIndexAssumption DEF Bounded
<1>0. TypeOK
  BY DEF Typed
<1>1. ASSUME NEW p \in Replicas, NEW r \in Requests, TakeLog(p, r) PROVE Bounded'
  <2>1. \A q \in Replicas : writer'[q].keys \in {writer[q].keys, cache[q].keys, {}}
    BY <1>0, <1>1 DEF TypeOK, TakeLog
  <2> QED
    BY <1>1, <2>1 DEF OnceActive, IndexBounded, TakeLog, dbVars, historyVars
<1>2. ASSUME NEW p \in Replicas, TakeOther(p) PROVE Bounded'
  <2>1. \A q \in Replicas : writer'[q].keys \in {writer[q].keys, {}}
    BY <1>0, <1>2 DEF TypeOK, TakeOther
  <2> QED
    BY <1>2, <2>1 DEF OnceActive, IndexBounded, TakeOther, dbVars, historyVars
<1>3. ASSUME NEW p \in Replicas, FetchActiveKeys(p) PROVE Bounded'
  <2>1. writer[p] \in WriterState /\ writer \in [Replicas -> WriterState]
    BY <1>0 DEF TypeOK, WriterState
  <2>2. \A q \in Replicas : writer'[q].keys \in {writer[q].keys, isActive, {}}
    BY <1>3, <2>1, NextLog DEF FetchActiveKeys, WriterState, IdleWriter
  <2> QED
    BY <1>3, <2>2 DEF OnceActive, IndexBounded, FetchActiveKeys, dbVars, historyVars
<1>4. ASSUME NEW p \in Replicas, StoreEntry(p) PROVE Bounded'
  <2>1. writer[p] \in WriterState /\ writer \in [Replicas -> WriterState]
    BY <1>0 DEF TypeOK, WriterState
  <2>2. \A q \in Replicas : writer'[q].keys \in {writer[q].keys, {}}
    BY <1>4, <2>1, NextLog DEF StoreEntry, WriterState, IdleWriter
  <2>3. \A q \in Replicas : cache'[q].keys \in {cache[q].keys, writer[q].keys}
    BY <1>0, <1>4 DEF StoreEntry, TypeOK
  <2> QED
    BY <1>4, <2>2, <2>3 DEF OnceActive, IndexBounded, StoreEntry, dbVars, historyVars
<1>5. ASSUME NEW p \in Replicas, InsertRow(p) PROVE Bounded'
  <2>1. writer[p] \in WriterState /\ writer \in [Replicas -> WriterState]
    BY <1>0 DEF TypeOK, WriterState
  <2>2. \A q \in Replicas : writer'[q].keys \in {writer[q].keys, {}}
    BY <1>5, <2>1 DEF InsertRow, WriterState, IdleWriter
  <2>3. OnceActive'
    BY <1>5, <2>2 DEF OnceActive, InsertRow, historyVars
  <2>4. IndexBounded'
    BY <1>0, <1>5 DEF OnceActive, IndexBounded, InsertRow, TypeOK, historyVars
  <2> QED
    BY <2>3, <2>4
<1>6. ASSUME NEW p \in Replicas, RegisterKeys(p) PROVE Bounded'
  BY <1>0, <1>6 DEF TypeOK, OnceActive, IndexBounded, RegisterKeys, IdleWriter, historyVars
<1>7. ASSUME NEW p \in Replicas, Expire(p) PROVE Bounded'
  <2>1. \A q \in Replicas : cache'[q].keys = cache[q].keys
    BY <1>0, <1>7 DEF Expire, TypeOK
  <2> QED
    BY <1>7, <2>1 DEF OnceActive, IndexBounded, Expire, dbVars, historyVars
<1>8. ASSUME NEW p \in Replicas, NEW op \in Ops, NEW k \in Keys, UpdateIsActive(p, op, k)
      PROVE  Bounded'
  <2>1. everActive \subseteq everActive' /\ (op = "activate" => k \in everActive')
    BY <1>8 DEF UpdateIsActive
  <2>2. isActive' \subseteq everActive'
    BY <1>8, <2>1 DEF UpdateIsActive, OnceActive
  <2>3. \A q \in Replicas : admin'[q].op = "activate" => admin'[q].key \in everActive'
    BY <1>0, <1>8, <2>1 DEF UpdateIsActive, OnceActive, TypeOK
  <2> QED
    BY <1>8, <2>1, <2>2, <2>3 DEF OnceActive, IndexBounded, UpdateIsActive
<1>9. ASSUME NEW p \in Replicas, InvalidateAndSpawn(p) PROVE Bounded'
  <2>1. \A j \in jobs' : j.op = "activate" => j.key \in everActive
    BY <1>9 DEF InvalidateAndSpawn, OnceActive
  <2>2. \A q \in Replicas : admin'[q] \in {admin[q], IdleAdmin} /\ cache'[q] \in {cache[q], NoEntry}
    BY <1>0, <1>9 DEF InvalidateAndSpawn, TypeOK
  <2> QED
    BY <1>9, <2>1, <2>2
       DEF OnceActive, IndexBounded, InvalidateAndSpawn, NoEntry, IdleAdmin, dbVars, historyVars
<1>10. ASSUME NEW p \in Replicas, Restart(p) PROVE Bounded'
  <2>1. \A q \in Replicas : /\ admin'[q] \in {admin[q], IdleAdmin}
                           /\ cache'[q] \in {cache[q], NoEntry}
                           /\ writer'[q] \in {writer[q], IdleWriter}
    BY <1>0, <1>10 DEF Restart, TypeOK
  <2> QED
    BY <1>10, <2>1
       DEF OnceActive, IndexBounded, Restart, NoEntry, IdleAdmin, IdleWriter, dbVars
<1>11. ASSUME NEW j \in jobs, NEW S \in SUBSET rows, Batch(j, S) PROVE Bounded'
  <2>1. S \subseteq Todo(j)
    BY <1>11 DEF Batch, Batches
  <2>2. IndexBounded'
    <3>1. \A r \in S : j.op = "activate" => j.key \in MetaOf[r] \cap everActive
      BY <2>1 DEF Todo, OnceActive
    <3>2. \A r \in Requests :
            /\ r \notin S => indexed'[r] = indexed[r]
            /\ \/ indexed'[r] \subseteq indexed[r]
               \/ /\ r \in S /\ j.op = "activate"
                  /\ indexed'[r] = indexed[r] \cup {j.key}
      BY <1>11 DEF Batch
    <3> QED
      BY <1>11, <3>1, <3>2 DEF IndexBounded, Batch, historyVars
  <2>3. OnceActive'
    BY <1>11 DEF OnceActive, Batch, historyVars
  <2> QED
    BY <2>2, <2>3
<1>12. ASSUME NEW j \in jobs, JobFails(j) PROVE Bounded'
  BY <1>12 DEF OnceActive, IndexBounded, JobFails, dbVars
<1>13. CASE UNCHANGED vars
  BY <1>13 DEF OnceActive, IndexBounded, vars
<1> QED
  BY <1>1, <1>2, <1>3, <1>4, <1>5, <1>6, <1>7, <1>8, <1>9, <1>10, <1>11, <1>12, <1>13
     DEF Next, WriterNext, JobNext

(* The index is bounded by what operators activated: see IndexBounded      *)
(* (writer.go:81-92, active_keys_cache.go:38-84).                          *)
THEOREM IndexAlwaysBounded == Spec => []IndexBounded
<1>1. Bounded => IndexBounded
  BY DEF Bounded
<1> QED
  BY <1>1, InitBounded, NextBounded, AlwaysTyped, PTL DEF Spec

-----------------------------------------------------------------------------
(* A key with a deactivation under way counts as undone, and what existed  *)
(* at an activation is in the table.                                       *)
UndoingKnown == \A k \in Keys : Undoing(k) => k \in undone
PastHasRows == \A k \in Keys : activatedBefore[k] \subseteq rows

Covers == UndoingKnown /\ PastHasRows /\ BackfillCoversPast

Covered(k) == \A r \in activatedBefore[k] : k \in MetaOf[r] => k \in indexed[r]

LEMMA InitCovers == Init => Covers
  BY MetadataIndexAssumption
     DEF Init, Covers, UndoingKnown, PastHasRows, BackfillCoversPast, Undoing, IdleAdmin

(* A step that leaves activations, calls and jobs alone and takes no       *)
(* indexed key away from the past.                                         *)
LEMMA IndexGrows ==
  ASSUME Typed, Covers, UNCHANGED <<admin, jobs, isActive, historyVars>>,
         rows \subseteq rows',
         \A r \in rows : indexed[r] \subseteq indexed'[r]
  PROVE  Covers'
<1>0. isActive \subseteq Keys
  BY DEF Typed, TypeOK
<1>1. \A k \in Keys : (Undoing(k) <=> Undoing(k)') /\ (Backfilling(k) <=> Backfilling(k)')
  BY DEF Undoing, Backfilling
<1>2. UndoingKnown' /\ PastHasRows'
  BY <1>1 DEF Covers, UndoingKnown, PastHasRows, historyVars
<1>3. BackfillCoversPast'
  <2> SUFFICES ASSUME NEW k \in isActive \ undone, ~Backfilling(k)
               PROVE  \A r \in activatedBefore[k] : k \in MetaOf[r] => k \in indexed'[r]
    BY <1>0, <1>1 DEF BackfillCoversPast, historyVars
  <2>1. Covered(k) /\ activatedBefore[k] \subseteq rows
    BY <1>0 DEF Covers, BackfillCoversPast, PastHasRows, Covered
  <2> QED
    BY <2>1 DEF Covered
<1> QED
  BY <1>2, <1>3 DEF Covers

(* Keys that a step does not concern: their jobs and calls stay, and their *)
(* marks in the index do.                                                  *)
LEMMA OtherKeys ==
  ASSUME Covers, NEW k \in Keys,
         k \in isActive' => k \in isActive, k \in undone => k \in undone',
         activatedBefore'[k] = activatedBefore[k],
         Backfilling(k) => Backfilling(k)' \/ k \in undone',
         \A r \in rows : k \in indexed[r] => k \in indexed'[r]
  PROVE  k \in isActive' \ undone' /\ ~Backfilling(k)' => Covered(k)'
<1> SUFFICES ASSUME k \in isActive', k \notin undone', ~Backfilling(k)'
             PROVE  \A r \in activatedBefore'[k] : k \in MetaOf[r] => k \in indexed'[r]
  BY DEF Covered
<1>1. Covered(k) /\ activatedBefore[k] \subseteq rows
  BY DEF Covers, BackfillCoversPast, PastHasRows, Covered
<1> QED
  BY <1>1 DEF Covered

LEMMA CoversEveryKey ==
  ASSUME isActive' \subseteq Keys,
         \A k \in Keys : k \in isActive' \ undone' /\ ~Backfilling(k)' => Covered(k)'
  PROVE  BackfillCoversPast'
  BY DEF BackfillCoversPast, Covered

LEMMA UpdateCovers ==
  ASSUME Typed, Typed', Covers, NEW p \in Replicas, NEW op \in Ops, NEW k \in Keys,
         UpdateIsActive(p, op, k)
  PROVE  Covers'
<1> USE MetadataIndexAssumption
<1>0. /\ isActive' \subseteq Keys /\ admin \in [Replicas -> [op : Ops, key : Keys] \cup {IdleAdmin}]
      /\ activatedBefore \in [Keys -> SUBSET Requests]
      /\ UNCHANGED <<jobs, rows, indexed>>
  BY DEF Typed, TypeOK, UpdateIsActive
<1>1. \/ admin' = [admin EXCEPT ![p] = [op |-> op, key |-> k]]
      \/ admin' = admin /\ k \in undone'
  BY DEF UpdateIsActive
<1>2. /\ admin[p] = IdleAdmin /\ \A q \in Replicas \ {p} : admin'[q] = admin[q]
      /\ \/ admin'[p] = [op |-> op, key |-> k]
         \/ admin'[p] = IdleAdmin /\ k \in undone'
  BY <1>0, <1>1 DEF UpdateIsActive
<1>3. Backfilling(k)' \/ k \in undone'
  BY <1>2 DEF Backfilling
<1>4. ASSUME NEW h \in Keys, h # k
      PROVE  (Undoing(h)' => Undoing(h)) /\ (Backfilling(h) => Backfilling(h)')
  BY <1>0, <1>2, <1>4 DEF Undoing, Backfilling, IdleAdmin
<1>5. ASSUME op = "activate" PROVE Undoing(k)' => Undoing(k)
  BY <1>0, <1>2, <1>5 DEF Undoing, IdleAdmin
<1>6. ASSUME NEW h \in Keys, h # k
      PROVE  /\ h \in undone <=> h \in undone'
             /\ activatedBefore'[h] = activatedBefore[h]
             /\ h \in isActive' <=> h \in isActive
  BY <1>0, <1>6 DEF UpdateIsActive
<1>7. UndoingKnown'
  <2>1. op = "activate" => k \in undone' \/ ~Undoing(k)
    BY DEF UpdateIsActive
  <2>2. op # "activate" => k \in undone'
    BY DEF UpdateIsActive
  <2> QED
    BY <1>4, <1>5, <1>6, <2>1, <2>2 DEF Covers, UndoingKnown
<1>8. PastHasRows'
  <2>1. activatedBefore'[k] \in {rows, activatedBefore[k]}
    BY <1>0 DEF UpdateIsActive
  <2> QED
    BY <1>0, <1>6, <2>1 DEF Covers, PastHasRows
<1>9. BackfillCoversPast'
  <2>1. ASSUME NEW h \in Keys, h # k
        PROVE  h \in isActive' \ undone' /\ ~Backfilling(h)' => Covered(h)'
    BY <1>0, <1>4, <1>6, <2>1, OtherKeys
  <2> QED
    BY <1>0, <1>3, <2>1, CoversEveryKey
<1> QED
  BY <1>7, <1>8, <1>9 DEF Covers

(* The job takes over from the call; only an activation leaves a key that  *)
(* is not undone.                                                          *)
LEMMA SpawnCovers ==
  ASSUME Typed, Typed', Covers, NEW p \in Replicas, InvalidateAndSpawn(p)
  PROVE  Covers'
<1> USE MetadataIndexAssumption
<1> DEFINE job == [id |-> calls, at |-> p, op |-> admin[p].op, key |-> admin[p].key]
<1>0. /\ isActive' \subseteq Keys /\ admin[p] \in [op : Ops, key : Keys]
      /\ admin \in [Replicas -> [op : Ops, key : Keys] \cup {IdleAdmin}]
      /\ UNCHANGED <<rows, indexed, isActive, undone, activatedBefore>>
      /\ jobs' = jobs \cup {job} /\ admin'[p] = IdleAdmin
      /\ \A q \in Replicas \ {p} : admin'[q] = admin[q]
  BY DEF Typed, TypeOK, InvalidateAndSpawn, dbVars, historyVars
<1>1. job.key = admin[p].key /\ job.op = admin[p].op
  OBVIOUS
<1>2. admin[p] = [op |-> admin[p].op, key |-> admin[p].key]
  BY <1>0
<1>3. ASSUME NEW k \in Keys PROVE Undoing(k)' => Undoing(k)
  <2> SUFFICES ASSUME Undoing(k)' PROVE Undoing(k)
    OBVIOUS
  <2>1. CASE \E j \in jobs' : j.key = k /\ j.op = "deactivate"
    <3>1. PICK j \in jobs' : j.key = k /\ j.op = "deactivate"
      BY <2>1
    <3>2. CASE j = job
      <4>1. admin[p] = [op |-> "deactivate", key |-> k]
        BY <1>1, <1>2, <3>1, <3>2
      <4> QED
        BY <4>1 DEF Undoing
    <3>3. CASE j # job
      BY <1>0, <3>1, <3>3 DEF Undoing
    <3> QED
      BY <3>2, <3>3
  <2>2. CASE \E q \in Replicas : admin'[q] = [op |-> "deactivate", key |-> k]
    <3>1. PICK q \in Replicas : admin'[q] = [op |-> "deactivate", key |-> k]
      BY <2>2
    <3>2. q # p
      BY <1>0, <3>1 DEF IdleAdmin
    <3> QED
      BY <1>0, <3>1, <3>2 DEF Undoing
  <2> QED
    BY <2>1, <2>2 DEF Undoing
<1>4. ASSUME NEW k \in Keys PROVE Backfilling(k) => Backfilling(k)' \/ k \in undone'
  <2>1. CASE admin[p].key = k /\ admin[p].op = "activate"
    BY <1>0, <1>1, <2>1 DEF Backfilling
  <2>2. CASE admin[p].key = k /\ admin[p].op # "activate"
    <3>1. admin[p] = [op |-> "deactivate", key |-> k]
      BY <1>0, <1>2, <2>2
    <3> QED
      BY <1>0, <3>1 DEF Undoing, Covers, UndoingKnown
  <2>3. CASE admin[p].key # k
    BY <1>0, <2>3 DEF Backfilling
  <2> QED
    BY <2>1, <2>2, <2>3
<1>5. UndoingKnown' /\ PastHasRows'
  BY <1>0, <1>3 DEF Covers, UndoingKnown, PastHasRows
<1>6. \A k \in Keys : k \in isActive' \ undone' /\ ~Backfilling(k)' => Covered(k)'
  BY <1>0, <1>4, OtherKeys
<1> QED
  BY <1>0, <1>5, <1>6, CoversEveryKey DEF Covers

(* A backfill that ends took all that was left to do.                      *)
LEMMA BatchCovers ==
  ASSUME Typed, Typed', Covers, NEW j \in jobs, NEW S \in SUBSET rows, Batch(j, S)
  PROVE  Covers'
<1> USE MetadataIndexAssumption
<1>0. /\ isActive' \subseteq Keys /\ j.key \in Keys /\ j.op \in Ops /\ rows \subseteq Requests
      /\ UNCHANGED <<admin, rows, isActive, undone, activatedBefore>>
      /\ jobs' \subseteq jobs /\ jobs \subseteq jobs' \cup {j}
  BY DEF Typed, TypeOK, Job, Batch, historyVars
<1>1. \A k \in Keys : Undoing(k)' => Undoing(k)
  BY <1>0 DEF Undoing
<1>2. ASSUME NEW k \in Keys, k # j.key
      PROVE  k \in isActive' \ undone' /\ ~Backfilling(k)' => Covered(k)'
  <2>1. Backfilling(k) => Backfilling(k)'
    BY <1>0, <1>2 DEF Backfilling
  <2>2. \A r \in rows : k \in indexed[r] => k \in indexed'[r]
    BY <1>0, <1>2 DEF Batch
  <2> QED
    BY <1>0, <2>1, <2>2, OtherKeys
<1>3. CASE j.op # "activate"
  <2>1. j.key \in undone'
    BY <1>0, <1>3 DEF Covers, UndoingKnown, Undoing
  <2>2. \A k \in Keys : k \in isActive' \ undone' /\ ~Backfilling(k)' => Covered(k)'
    BY <1>2, <2>1
  <2> QED
    BY <1>0, <1>1, <2>2, CoversEveryKey DEF Covers, UndoingKnown, PastHasRows
<1>4. CASE j.op = "activate"
  <2>1. CASE jobs' = jobs
    <3>1. Backfilling(j.key)'
      BY <1>4, <2>1 DEF Backfilling
    <3> QED
      BY <1>0, <1>1, <1>2, <3>1, CoversEveryKey DEF Covers, UndoingKnown, PastHasRows
  <2>2. CASE jobs' # jobs
    <3>1. S = Todo(j)
      <4>1. Cardinality(S) < BatchSize
        BY <2>2 DEF Batch
      <4>2. Cardinality(S) # BatchSize
        BY <4>1
      <4> QED
        BY <4>2 DEF Batch, Batches
    <3>2. \A r \in rows : j.key \in MetaOf[r] => j.key \in indexed'[r]
      BY <1>0, <1>4, <3>1 DEF Batch, Todo
    <3>3. Covered(j.key)'
      BY <1>0, <3>2 DEF Covered, Covers, PastHasRows
    <3> QED
      BY <1>0, <1>1, <1>2, <3>3, CoversEveryKey DEF Covers, UndoingKnown, PastHasRows
  <2> QED
    BY <2>1, <2>2
<1> QED
  BY <1>3, <1>4

(* What dies with a replica, or fails, is undone.                          *)
LEMMA FailureCovers ==
  ASSUME Typed, Typed', Covers,
         (\E p \in Replicas : Restart(p)) \/ (\E j \in jobs : JobFails(j))
  PROVE  Covers'
<1> USE MetadataIndexAssumption
<1>0. isActive' \subseteq Keys /\ UNCHANGED <<rows, indexed, isActive, activatedBefore>>
      /\ undone \subseteq undone'
  BY DEF Typed, TypeOK, Restart, JobFails, dbVars
<1>1. ASSUME NEW k \in Keys
      PROVE  (Undoing(k)' => Undoing(k)) /\ (Backfilling(k) => Backfilling(k)' \/ k \in undone')
  <2>1. ASSUME NEW p \in Replicas, Restart(p)
        PROVE  (Undoing(k)' => Undoing(k)) /\ (Backfilling(k) => Backfilling(k)' \/ k \in undone')
    <3>1. /\ admin'[p] = IdleAdmin /\ \A q \in Replicas \ {p} : admin'[q] = admin[q]
          /\ jobs' = {j \in jobs : j.at # p}
          /\ \A j \in jobs : j.at = p => j.key \in undone'
          /\ admin[p].key = k => k \in undone'
      BY <2>1 DEF Restart, Typed, TypeOK
    <3>2. Undoing(k)' => Undoing(k)
      BY <3>1 DEF Undoing, IdleAdmin
    <3>3. Backfilling(k) => Backfilling(k)' \/ k \in undone'
      BY <3>1 DEF Backfilling
    <3> QED
      BY <3>2, <3>3
  <2>2. ASSUME NEW j \in jobs, JobFails(j)
        PROVE  (Undoing(k)' => Undoing(k)) /\ (Backfilling(k) => Backfilling(k)' \/ k \in undone')
    BY <2>2 DEF JobFails, Undoing, Backfilling
  <2> QED
    BY <2>1, <2>2
<1>2. UndoingKnown' /\ PastHasRows'
  BY <1>0, <1>1 DEF Covers, UndoingKnown, PastHasRows
<1>3. \A k \in Keys : k \in isActive' \ undone' /\ ~Backfilling(k)' => Covered(k)'
  BY <1>0, <1>1, OtherKeys
<1> QED
  BY <1>0, <1>2, <1>3, CoversEveryKey DEF Covers

LEMMA NextCovers == Typed /\ Typed' /\ Covers /\ [Next]_vars => Covers'
<1> SUFFICES ASSUME Typed, Typed', Covers, [Next]_vars PROVE Covers'
  OBVIOUS
<1>1. ASSUME NEW p \in Replicas,
             \/ \E r \in Requests : TakeLog(p, r)
             \/ TakeOther(p) \/ FetchActiveKeys(p) \/ StoreEntry(p) \/ RegisterKeys(p)
             \/ Expire(p)
      PROVE  Covers'
  BY <1>1, IndexGrows
     DEF TakeLog, TakeOther, FetchActiveKeys, StoreEntry, RegisterKeys, Expire, dbVars
<1>2. ASSUME NEW p \in Replicas, InsertRow(p) PROVE Covers'
  <2>1. writer[p].log \notin rows
    BY <1>2 DEF Typed, LogsOwned, InsertRow
  <2>2. rows \subseteq rows' /\ \A r \in rows : indexed[r] \subseteq indexed'[r]
    BY <1>2, <2>1 DEF Typed, TypeOK, InsertRow
  <2> QED
    BY <1>2, <2>2, IndexGrows DEF InsertRow
<1>3. CASE \E p \in Replicas : \E op \in Ops, k \in Keys : UpdateIsActive(p, op, k)
  BY <1>3, UpdateCovers
<1>4. CASE \E p \in Replicas : InvalidateAndSpawn(p)
  BY <1>4, SpawnCovers
<1>5. CASE \E j \in jobs : \E S \in SUBSET rows : Batch(j, S)
  BY <1>5, BatchCovers
<1>6. CASE (\E p \in Replicas : Restart(p)) \/ (\E j \in jobs : JobFails(j))
  BY <1>6, FailureCovers
<1>7. CASE UNCHANGED vars
  BY <1>7, IndexGrows DEF vars, historyVars
<1> QED
  BY <1>1, <1>2, <1>3, <1>4, <1>5, <1>6, <1>7 DEF Next, WriterNext, JobNext

(* Activating makes the past queryable: see BackfillCoversPast             *)
(* (metadata_service.go:38-70, metadata_keys.go:123-184).                  *)
THEOREM BackfillAlwaysCoversPast == Spec => []BackfillCoversPast
<1>1. Covers => BackfillCoversPast
  BY DEF Covers
<1> QED
  BY <1>1, InitCovers, NextCovers, AlwaysTyped, PTL DEF Spec

=============================================================================
