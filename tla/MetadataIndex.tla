--------------------------- MODULE MetadataIndex ---------------------------
(***************************************************************************)
(* Which metadata of a request becomes queryable: the active-keys cache of *)
(* every gateway replica (internal/repositories/active_keys_cache.go), the *)
(* part of writeLog that copies active keys into indexed_metadata          *)
(* (internal/requestlog/writer.go), and activation and deactivation with   *)
(* their background backfill and cleanup (internal/services/               *)
(* metadata_service.go, internal/repositories/metadata_keys.go).           *)
(*                                                                         *)
(* One API key is modelled: cache entries, key rows and jobs of different  *)
(* API keys share nothing.  Values of metadata are left out: indexed[r] is *)
(* the set of keys of row r's indexed_metadata.  A log of the API key that *)
(* carries none of Keys matters by the cache entry it makes: such logs     *)
(* (log = None) never run out, so that an entry may be fetched again for   *)
(* ever.                                                                   *)
(***************************************************************************)
EXTENDS Integers, FiniteSets

CONSTANTS Replicas,   \* gateway processes over one database
          Requests,   \* requests whose log carries some of Keys
          Keys,       \* metadata key names
          MetaOf,     \* the keys in a request's raw_metadata
          BatchSize,  \* backfillBatchSize
          Ops,        \* the admin operations used: "activate", "deactivate"
          MaxCalls,   \* bound: admin calls in a behaviour
          MaxErrors,  \* bound: failed database calls in a behaviour
          None

ASSUME MetadataIndexAssumption ==
  /\ MetaOf \in [Requests -> SUBSET Keys]
  /\ BatchSize \in Nat \ {0}
  /\ Ops \subseteq {"activate", "deactivate"}
  /\ MaxCalls \in Nat /\ MaxErrors \in Nat
  /\ None \notin Requests /\ None \notin Keys

VARIABLES
  cache,       \* per replica: [fresh, keys]; fresh: before expiresAt
  writer,      \* per replica: [pc, log, keys] of writeLog
  admin,       \* per replica: the admin call between its UPDATE and its return
  jobs,        \* running backfill and cleanup goroutines
  rows,        \* database: llm_requests
  indexed,     \* database: indexed_metadata of every row
  registered,  \* database: keys with a row in llm_requests_metadata_keys
  isActive,    \* database: the rows with is_active
  calls, errors,  \* how much of the bounds is used
  activatedBefore, \* history: the rows that existed at the key's activation
  everActive,  \* history: keys activated at least once
  undone       \* history: keys whose last activation was contradicted, or had
               \*          a job that failed or was killed

vars == <<cache, writer, admin, jobs, rows, indexed, registered, isActive,
          calls, errors, activatedBefore, everActive, undone>>

NoEntry == [fresh |-> FALSE, keys |-> {}]
IdleWriter == [pc |-> "idle", log |-> None, keys |-> {}]
IdleAdmin == [op |-> "none", key |-> None]
Job == [id : 1..MaxCalls, at : Replicas, op : Ops, key : Keys]

TypeOK ==
  /\ cache \in [Replicas -> [fresh : BOOLEAN, keys : SUBSET Keys]]
  /\ writer \in [Replicas -> [pc : {"idle", "fetch", "store", "insert", "register"},
                              log : Requests \cup {None}, keys : SUBSET Keys]]
  /\ admin \in [Replicas -> [op : Ops, key : Keys] \cup {IdleAdmin}]
  /\ jobs \subseteq Job
  /\ rows \subseteq Requests
  /\ indexed \in [Requests -> SUBSET Keys]
  /\ registered \subseteq Keys
  /\ isActive \subseteq registered
  /\ calls \in 0..MaxCalls /\ errors \in 0..MaxErrors
  /\ activatedBefore \in [Keys -> SUBSET Requests]
  /\ everActive \subseteq Keys /\ undone \subseteq Keys

Init ==
  /\ cache = [p \in Replicas |-> NoEntry]
  /\ writer = [p \in Replicas |-> IdleWriter]
  /\ admin = [p \in Replicas |-> IdleAdmin]
  /\ jobs = {}
  /\ rows = {}
  /\ indexed = [r \in Requests |-> {}]
  /\ registered = {}
  /\ isActive = {}
  /\ calls = 0 /\ errors = 0
  /\ activatedBefore = [k \in Keys |-> {}]
  /\ everActive = {} /\ undone = {}

Fails == errors < MaxErrors /\ errors' = errors + 1
Works == UNCHANGED errors

dbVars == <<rows, indexed, registered, isActive>>
historyVars == <<activatedBefore, everActive, undone>>

-----------------------------------------------------------------------------
(* writeLog: GetActiveKeys, then the INSERT, then registerMetadataKeys.    *)
(* GetActiveKeys is called for a log without metadata as well.             *)

Taken == rows \cup {writer[p].log : p \in Replicas}

(* The entry is looked up as soon as the log is taken.                     *)
TakeLog(p, r) ==
  /\ writer[p].pc = "idle"
  /\ r \notin Taken
  /\ \/ /\ cache[p].fresh
        /\ writer' = [writer EXCEPT ![p] = [pc |-> "insert", log |-> r, keys |-> cache[p].keys]]
     \/ /\ ~cache[p].fresh
        /\ writer' = [writer EXCEPT ![p] = [pc |-> "fetch", log |-> r, keys |-> {}]]
  /\ UNCHANGED <<cache, admin, jobs, dbVars, calls, errors, historyVars>>

(* A log with other metadata, or none, misses the cache.  Where it hits it *)
(* there is nothing to see.                                                *)
TakeOther(p) ==
  /\ writer[p].pc = "idle" /\ ~cache[p].fresh
  /\ writer' = [writer EXCEPT ![p] = [pc |-> "fetch", log |-> None, keys |-> {}]]
  /\ UNCHANGED <<cache, admin, jobs, dbVars, calls, errors, historyVars>>

(* What is left of a log once its active keys are known: its INSERT, if it *)
(* has a row to look at.                                                   *)
KeysKnown(p) ==
  IF writer[p].log = None THEN IdleWriter ELSE [writer[p] EXCEPT !.pc = "insert"]

(* fetchActiveKeys, outside the lock.  A failed query yields the empty set *)
(* and is cached like a result; an error while reading rows is returned,   *)
(* so that nothing is cached and the log goes on with no active key.       *)
FetchActiveKeysOfAll(p) ==
  /\ writer[p].pc = "fetch"
  /\ \/ Works /\ writer' = [writer EXCEPT ![p].pc = "store", ![p].keys = registered]
     \/ Fails /\ writer' = [writer EXCEPT ![p].pc = "store"]
     \/ Fails /\ writer' = [writer EXCEPT ![p] = KeysKnown(p)]
  /\ UNCHANGED <<cache, admin, jobs, dbVars, calls, historyVars>>

FetchActiveKeys(p) ==
  /\ writer[p].pc = "fetch"
  /\ \/ Works /\ writer' = [writer EXCEPT ![p].pc = "store", ![p].keys = isActive]
     \/ Fails /\ writer' = [writer EXCEPT ![p].pc = "store"]
     \/ Fails /\ writer' = [writer EXCEPT ![p] = KeysKnown(p)]
  /\ UNCHANGED <<cache, admin, jobs, dbVars, calls, historyVars>>

(* The entry is stored whatever happened to the cache since the query, and *)
(* in the place of an entry that expired.                                  *)
StoreEntryMerges(p) ==
  /\ writer[p].pc = "store"
  /\ cache' = [cache EXCEPT ![p] = [fresh |-> TRUE, keys |-> cache[p].keys \cup writer[p].keys]]
  /\ writer' = [writer EXCEPT ![p] = KeysKnown(p)]
  /\ UNCHANGED <<admin, jobs, dbVars, calls, errors, historyVars>>

StoreEntry(p) ==
  /\ writer[p].pc = "store"
  /\ cache' = [cache EXCEPT ![p] = [fresh |-> TRUE, keys |-> writer[p].keys]]
  /\ writer' = [writer EXCEPT ![p] = KeysKnown(p)]
  /\ UNCHANGED <<admin, jobs, dbVars, calls, errors, historyVars>>

InsertRow(p) ==
  LET r == writer[p].log IN
  /\ writer[p].pc = "insert"
  /\ \/ /\ Works
        /\ rows' = rows \cup {r}
        /\ indexed' = [indexed EXCEPT ![r] = MetaOf[r] \cap writer[p].keys]
        /\ writer' = [writer EXCEPT ![p] = [pc |-> "register", log |-> r, keys |-> {}]]
     \/ /\ Fails
        /\ writer' = [writer EXCEPT ![p] = IdleWriter]
        /\ UNCHANGED <<rows, indexed>>
  /\ UNCHANGED <<cache, admin, jobs, registered, isActive, calls, historyVars>>

(* One INSERT ... ON CONFLICT DO NOTHING per key; each may fail.           *)
RegisterKeys(p) ==
  /\ writer[p].pc = "register"
  /\ \/ Works /\ registered' = registered \cup MetaOf[writer[p].log]
     \/ Fails /\ \E S \in SUBSET MetaOf[writer[p].log] : registered' = registered \cup S
  /\ writer' = [writer EXCEPT ![p] = IdleWriter]
  /\ UNCHANGED <<cache, admin, jobs, rows, indexed, isActive, calls, historyVars>>

(* time.Now() passes expiresAt.                                            *)
Expire(p) ==
  /\ cache[p].fresh
  /\ cache' = [cache EXCEPT ![p].fresh = FALSE]
  /\ UNCHANGED <<writer, admin, jobs, dbVars, calls, errors, historyVars>>

-----------------------------------------------------------------------------
(* Activate and Deactivate: the UPDATE (a key without a row is reported as *)
(* unknown), then the invalidation of this replica's entry, then           *)
(* go backfill / go cleanup.  An UPDATE whose answer is lost is reported   *)
(* as an error, although it may be committed: nothing is invalidated and   *)
(* no job starts.                                                          *)

(* A deactivation whose cleanup is running, or about to start.             *)
Undoing(k) ==
  \/ \E j \in jobs : j.key = k /\ j.op = "deactivate"
  \/ \E p \in Replicas : admin[p] = [op |-> "deactivate", key |-> k]

UpdateIsActiveUpserts(p, op, k) ==
  /\ calls < MaxCalls
  /\ admin[p] = IdleAdmin
  /\ op \in Ops
  /\ calls' = calls + 1
  /\ isActive' = IF op = "activate" THEN isActive \cup {k} ELSE isActive \ {k}
  /\ IF op = "activate"
       THEN /\ activatedBefore' = [activatedBefore EXCEPT ![k] = rows]
            /\ everActive' = everActive \cup {k}
       ELSE UNCHANGED <<activatedBefore, everActive>>
  /\ \/ /\ Works
        /\ admin' = [admin EXCEPT ![p] = [op |-> op, key |-> k]]
        /\ undone' = IF op = "activate" /\ ~Undoing(k) THEN undone \ {k}
                     ELSE undone \cup {k}
     \/ /\ Fails
        /\ undone' = undone \cup {k}
        /\ UNCHANGED admin
  /\ UNCHANGED <<cache, writer, jobs, rows, indexed, registered>>

UpdateIsActive(p, op, k) ==
  /\ calls < MaxCalls
  /\ admin[p] = IdleAdmin
  /\ k \in registered
  /\ op \in Ops
  /\ calls' = calls + 1
  /\ isActive' = IF op = "activate" THEN isActive \cup {k} ELSE isActive \ {k}
  /\ IF op = "activate"
       THEN /\ activatedBefore' = [activatedBefore EXCEPT ![k] = rows]
            /\ everActive' = everActive \cup {k}
       ELSE UNCHANGED <<activatedBefore, everActive>>
  /\ \/ /\ Works
        /\ admin' = [admin EXCEPT ![p] = [op |-> op, key |-> k]]
        /\ undone' = IF op = "activate" /\ ~Undoing(k) THEN undone \ {k}
                     ELSE undone \cup {k}
     \/ /\ Fails
        /\ undone' = undone \cup {k}
        /\ UNCHANGED admin
  /\ UNCHANGED <<cache, writer, jobs, rows, indexed, registered>>

InvalidateAndSpawn(p) ==
  /\ admin[p] # IdleAdmin
  /\ cache' = [cache EXCEPT ![p] = NoEntry]
  /\ jobs' = jobs \cup {[id |-> calls, at |-> p, op |-> admin[p].op, key |-> admin[p].key]}
  /\ admin' = [admin EXCEPT ![p] = IdleAdmin]
  /\ UNCHANGED <<writer, dbVars, calls, errors, historyVars>>

(* One batch: an UPDATE of at most BatchSize of the rows that still need   *)
(* it.  The job ends after a batch that was not full, or on an error.      *)
TodoAlreadyIndexed(j) ==
  IF j.op = "activate"
    THEN {r \in rows : j.key \in MetaOf[r]}
    ELSE {r \in rows : j.key \in indexed[r]}

Todo(j) ==
  IF j.op = "activate"
    THEN {r \in rows : j.key \in MetaOf[r] /\ j.key \notin indexed[r]}
    ELSE {r \in rows : j.key \in indexed[r]}

Batches(j) ==
  {S \in SUBSET Todo(j) : Cardinality(S) = BatchSize}
    \cup (IF Cardinality(Todo(j)) < BatchSize THEN {Todo(j)} ELSE {})

BatchOnlyOnce(j, S) ==
  /\ S \in Batches(j)
  /\ indexed' = [r \in Requests |->
                   IF r \notin S THEN indexed[r]
                   ELSE IF j.op = "activate" THEN indexed[r] \cup {j.key}
                   ELSE indexed[r] \ {j.key}]
  /\ jobs' = jobs \ {j}
  /\ UNCHANGED <<cache, writer, admin, rows, registered, isActive, calls,
                 errors, historyVars>>

Batch(j, S) ==
  /\ S \in Batches(j)
  /\ indexed' = [r \in Requests |->
                   IF r \notin S THEN indexed[r]
                   ELSE IF j.op = "activate" THEN indexed[r] \cup {j.key}
                   ELSE indexed[r] \ {j.key}]
  /\ jobs' = IF Cardinality(S) < BatchSize THEN jobs \ {j} ELSE jobs
  /\ UNCHANGED <<cache, writer, admin, rows, registered, isActive, calls,
                 errors, historyVars>>

JobFails(j) ==
  /\ Fails
  /\ jobs' = jobs \ {j}
  /\ undone' = undone \cup {j.key}
  /\ UNCHANGED <<cache, writer, admin, dbVars, calls, activatedBefore, everActive>>

(* A replica is killed: its cache, its log in progress and its jobs are    *)
(* gone, and nothing resumes them.  Counted as an error.                   *)
Restart(p) ==
  /\ Fails
  /\ cache' = [cache EXCEPT ![p] = NoEntry]
  /\ writer' = [writer EXCEPT ![p] = IdleWriter]
  /\ admin' = [admin EXCEPT ![p] = IdleAdmin]
  /\ jobs' = {j \in jobs : j.at # p}
  /\ undone' = undone \cup {j.key : j \in {i \in jobs : i.at = p}}
                      \cup ({admin[p].key} \cap Keys)
  /\ UNCHANGED <<dbVars, calls, activatedBefore, everActive>>

-----------------------------------------------------------------------------

WriterNext(p) ==
  \/ FetchActiveKeys(p) \/ StoreEntry(p)
  \/ InsertRow(p) \/ RegisterKeys(p)

JobNext(j) == (\E S \in SUBSET rows : Batch(j, S)) \/ JobFails(j)

Next ==
  \/ \E p \in Replicas :
       \/ \E r \in Requests : TakeLog(p, r)
       \/ TakeOther(p)
       \/ WriterNext(p)
       \/ Expire(p)
       \/ \E op \in Ops, k \in Keys : UpdateIsActive(p, op, k)
       \/ InvalidateAndSpawn(p)
       \/ Restart(p)
  \/ \E j \in jobs : JobNext(j)

Spec == Init /\ [][Next]_vars

(* The write loop, an admin call in progress and a background job run, and *)
(* time passes.  Logs may come for ever and may stop at any time.          *)
Fairness ==
  /\ \A p \in Replicas :
       /\ WF_vars(WriterNext(p))
       /\ WF_vars(Expire(p))
       /\ WF_vars(InvalidateAndSpawn(p))
  /\ WF_vars(\E j \in jobs : JobNext(j))

FairSpec == Spec /\ Fairness

-----------------------------------------------------------------------------
(***************************************************************************)
(* Properties                                                              *)
(***************************************************************************)

(* Only keys an operator activated at some time are ever in                *)
(* indexed_metadata, and only for rows that carry them in raw_metadata:    *)
(* however stale a cache entry, a fetched set or a running backfill is, it *)
(* goes back to an activation.  This is what bounds the GIN index.         *)
IndexBounded ==
  \A r \in Requests : indexed[r] \subseteq MetaOf[r] \cap everActive

Backfilling(k) ==
  \/ \E j \in jobs : j.key = k /\ j.op = "activate"
  \/ \E p \in Replicas : admin[p].key = k

(* Activating backfills existing rows: once the backfill of an active key  *)
(* is over, every row that was there when the key was activated is         *)
(* queryable by it, unless a job of that key failed or was killed since,   *)
(* the key was deactivated since, or the cleanup of an earlier             *)
(* deactivation was still going on when it was activated again             *)
(* (metadata_service.go:38-70 does not stop it).  A failed backfill is     *)
(* repaired by the next activation.  New rows, other activations and       *)
(* batches of any size may interleave.                                     *)
BackfillCoversPast ==
  \A k \in isActive \ undone :
    ~Backfilling(k) =>
      \A r \in activatedBefore[k] : k \in MetaOf[r] => k \in indexed[r]

(* Activation and deactivation reach every replica, the one that handled   *)
(* the call by invalidation and the others by expiry: a key that stays     *)
(* active is in the end in every entry that is served, and a key that      *)
(* stays inactive is in none, although a query that overlaps the call may  *)
(* store the set of before it, a failed query is cached as an empty set,   *)
(* and the answer of the UPDATE may be lost.  Logs may come for ever, so   *)
(* that entries are stored again and again.                                *)
CacheConverges ==
  \A k \in Keys :
    /\ <>[](k \in isActive) => <>[](\A p \in Replicas : cache[p].fresh => k \in cache[p].keys)
    /\ <>[](k \notin isActive) => <>[](\A p \in Replicas : cache[p].fresh => k \notin cache[p].keys)

(* A background job reaches a batch that is not full and ends, although    *)
(* rows are inserted while it runs.  Only a backfill and a cleanup of one  *)
(* key that run together can keep each other going, each undoing the       *)
(* batch of the other.                                                     *)
Contested == \E i, j \in jobs : i.key = j.key /\ i.op # j.op
JobsEnd == []<>Contested \/ <>[](jobs = {})

=============================================================================
