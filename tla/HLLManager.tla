----------------------------- MODULE HLLManager -----------------------------
(***************************************************************************)
(* The HyperLogLog manager (internal/repositories/hll_manager.go): one     *)
(* in-memory sketch and one unflushed request count per metadata key, and  *)
(* a flush goroutine that periodically moves them to the row of the key in *)
(* llm_requests_metadata_keys.                                             *)
(*                                                                         *)
(* Data abstraction: a sketch is the set of the distinct values inserted   *)
(* in it, {} standing for "no entry" (an entry is created by its first     *)
(* Insert, and only dirty entries are ever persisted).  A key is an        *)
(* hllKey, that is an (API key, key name) pair.                            *)
(***************************************************************************)
EXTENDS Integers, FiniteSets

CONSTANTS Keys,    \* the metadata keys (hllKey)
          Values,  \* the metadata values
          NoKey    \* "no sketch is being marshalled"

ASSUME NoKeyAssumption == NoKey \notin Keys

VARIABLES
  hlls,          \* memory: [sketch, dirty, count] of every key
  toFlush,       \* the keys the running Flush still has to write
  flushCount,    \* the counts it took from the entries
  flushPC,       \* flushLoop: waiting, flushing, flushing for the last time, gone
  marshalling,   \* the key whose sketch is being read outside the mutex
  hllBytes,      \* what MarshalBinary had read when it started
  hllDone,       \* HLLManager.done is closed
  loadedKeys,    \* the keys whose persisted state LoadFromDB restored
  registered,    \* database: the keys that have a row
  requestCount,  \* database: request_count
  hllState       \* database: hll_state ({} = NULL)

memVars == <<hlls, toFlush, flushCount, flushPC, marshalling, hllBytes,
             hllDone, loadedKeys>>
keyTableVars == <<registered, requestCount, hllState>>
hllVars == <<hlls, toFlush, flushCount, flushPC, marshalling, hllBytes,
             hllDone, loadedKeys, registered, requestCount, hllState>>

Entry == [sketch : SUBSET Values, dirty : BOOLEAN, count : Nat]
EmptyEntry == [sketch |-> {}, dirty |-> FALSE, count |-> 0]

HLLTypeOK ==
  /\ hlls \in [Keys -> Entry]
  /\ toFlush \in SUBSET Keys
  /\ flushCount \in [Keys -> Nat]
  /\ flushPC \in {"waiting", "flushing", "final", "stopped"}
  /\ marshalling \in Keys \cup {NoKey}
  /\ hllBytes \in SUBSET Values
  /\ hllDone \in BOOLEAN
  /\ loadedKeys \in SUBSET Keys
  /\ registered \in SUBSET Keys
  /\ requestCount \in [Keys -> Nat]
  /\ hllState \in [Keys -> SUBSET Values]

-----------------------------------------------------------------------------
(* NewHLLManager and LoadFromDB.  A failed query, scan or decode is only   *)
(* logged, so the manager starts with the states of some subset of the     *)
(* keys; L is that subset.                                                 *)

LoadFromDBIgnoresState(L) ==
  /\ hlls' = [k \in Keys |-> EmptyEntry]
  /\ loadedKeys' = L
  /\ toFlush' = {}
  /\ flushCount' = [k \in Keys |-> 0]
  /\ flushPC' = "waiting"
  /\ marshalling' = NoKey
  /\ hllBytes' = {}
  /\ hllDone' = FALSE
  /\ UNCHANGED keyTableVars

LoadFromDB(L) ==
  /\ hlls' = [k \in Keys |->
                IF k \in L THEN [EmptyEntry EXCEPT !.sketch = hllState[k]]
                           ELSE EmptyEntry]
  /\ loadedKeys' = L
  /\ toFlush' = {}
  /\ flushCount' = [k \in Keys |-> 0]
  /\ flushPC' = "waiting"
  /\ marshalling' = NoKey
  /\ hllBytes' = {}
  /\ hllDone' = FALSE
  /\ UNCHANGED keyTableVars

(* What is left of the manager when the process is gone.                   *)
MemoryLost ==
  /\ hlls' = [k \in Keys |-> EmptyEntry]
  /\ loadedKeys' = {}
  /\ toFlush' = {}
  /\ flushCount' = [k \in Keys |-> 0]
  /\ flushPC' = "stopped"
  /\ marshalling' = NoKey
  /\ hllBytes' = {}
  /\ hllDone' = FALSE
  /\ UNCHANGED keyTableVars

HLLInit ==
  /\ hlls = [k \in Keys |-> EmptyEntry]
  /\ loadedKeys = {}
  /\ toFlush = {}
  /\ flushCount = [k \in Keys |-> 0]
  /\ flushPC = "stopped"
  /\ marshalling = NoKey
  /\ hllBytes = {}
  /\ hllDone = FALSE
  /\ registered = {}
  /\ requestCount = [k \in Keys |-> 0]
  /\ hllState = [k \in Keys |-> {}]

-----------------------------------------------------------------------------
(* AddValue runs under the mutex; MarshalBinary and Estimate do not, and   *)
(* both compact the sketch they read.  An Insert that races with them may  *)
(* therefore be lost.                                                      *)

Inserted(k, v) ==
  LET sketch == hlls[k].sketch
  IN IF marshalling = k THEN {sketch, sketch \cup {v}} ELSE {sketch \cup {v}}

AddValue(k, v) ==
  /\ \E s \in Inserted(k, v) :
       hlls' = [hlls EXCEPT ![k] = [sketch |-> s, dirty |-> TRUE,
                                    count |-> hlls[k].count + 1]]
  /\ UNCHANGED <<toFlush, flushCount, flushPC, marshalling, hllBytes,
                 hllDone, loadedKeys, registered, requestCount, hllState>>

(* registerMetadataKeys: INSERT ... ON CONFLICT DO NOTHING.                *)
RegisterKey(k) ==
  /\ registered' = registered \cup {k}
  /\ UNCHANGED <<requestCount, hllState>>
  /\ UNCHANGED memVars

-----------------------------------------------------------------------------
(* Flush.  The snapshot is taken under the mutex: the dirty entries lose   *)
(* their mark and their count before anything is written.                  *)

FlushSnapshotKeepsCount(final) ==
  LET dirty == {k \in Keys : hlls[k].dirty}
  IN /\ flushPC = "waiting"
     /\ final => hllDone
     /\ toFlush' = dirty
     /\ flushCount' = [k \in Keys |-> IF k \in dirty THEN hlls[k].count ELSE 0]
     /\ hlls' = [k \in Keys |-> [hlls[k] EXCEPT !.dirty = FALSE]]
     /\ flushPC' = IF final THEN "final" ELSE "flushing"
     /\ UNCHANGED <<marshalling, hllBytes, hllDone, loadedKeys>>
     /\ UNCHANGED keyTableVars

FlushSnapshot(final) ==
  LET dirty == {k \in Keys : hlls[k].dirty}
  IN /\ flushPC = "waiting"
     /\ final => hllDone
     /\ toFlush' = dirty
     /\ flushCount' = [k \in Keys |-> IF k \in dirty THEN hlls[k].count ELSE 0]
     /\ hlls' = [k \in Keys |->
                   IF k \in dirty
                     THEN [hlls[k] EXCEPT !.dirty = FALSE, !.count = 0]
                     ELSE hlls[k]]
     /\ flushPC' = IF final THEN "final" ELSE "flushing"
     /\ UNCHANGED <<marshalling, hllBytes, hllDone, loadedKeys>>
     /\ UNCHANGED keyTableVars

Flushing == flushPC \in {"flushing", "final"}

FlushMarshal(k) ==
  /\ Flushing
  /\ marshalling = NoKey
  /\ k \in toFlush
  /\ marshalling' = k
  /\ hllBytes' = hlls[k].sketch
  /\ UNCHANGED <<hlls, toFlush, flushCount, flushPC, hllDone, loadedKeys>>
  /\ UNCHANGED keyTableVars

FlushExecSubtracts(k, ok) ==
  /\ Flushing
  /\ marshalling = k
  /\ IF ok /\ k \in registered
       THEN requestCount' = [requestCount EXCEPT
                                  ![k] = requestCount[k] - flushCount[k]]
       ELSE UNCHANGED requestCount
  /\ toFlush' = toFlush \ {k}
  /\ flushCount' = [flushCount EXCEPT ![k] = 0]
  /\ marshalling' = NoKey
  /\ hllBytes' = {}
  /\ UNCHANGED <<hlls, flushPC, hllDone, loadedKeys, registered, hllState>>

(* The snapshot shares the sketch with the entry, so the bytes written are *)
(* anything between the sketch when marshalling began and the sketch now.  *)
(* An UPDATE that matches no row changes nothing, and its count is gone;   *)
(* so is the count of an UPDATE that fails (ok = FALSE).                   *)
FlushExec(k, ok) ==
  /\ Flushing
  /\ marshalling = k
  /\ IF ok /\ k \in registered
       THEN /\ \E bytes \in SUBSET hlls[k].sketch :
                 /\ hllBytes \subseteq bytes
                 /\ hllState' = [hllState EXCEPT ![k] = bytes]
            /\ requestCount' = [requestCount EXCEPT
                                  ![k] = requestCount[k] + flushCount[k]]
       ELSE UNCHANGED <<hllState, requestCount>>
  /\ toFlush' = toFlush \ {k}
  /\ flushCount' = [flushCount EXCEPT ![k] = 0]
  /\ marshalling' = NoKey
  /\ hllBytes' = {}
  /\ UNCHANGED <<hlls, flushPC, hllDone, loadedKeys, registered>>

FlushEndKeepsLooping ==
  /\ Flushing
  /\ toFlush = {}
  /\ flushPC' = "waiting"
  /\ UNCHANGED <<hlls, toFlush, flushCount, marshalling, hllBytes, hllDone,
                 loadedKeys>>
  /\ UNCHANGED keyTableVars

FlushEnd ==
  /\ Flushing
  /\ toFlush = {}
  /\ flushPC' = IF flushPC = "final" THEN "stopped" ELSE "waiting"
  /\ UNCHANGED <<hlls, toFlush, flushCount, marshalling, hllBytes, hllDone,
                 loadedKeys>>
  /\ UNCHANGED keyTableVars

(* The first half of Stop; the second, wg.Wait, is flushPC = "stopped".    *)
StopSignal ==
  /\ hllDone' = TRUE
  /\ UNCHANGED <<hlls, toFlush, flushCount, flushPC, marshalling, hllBytes,
                 loadedKeys>>
  /\ UNCHANGED keyTableVars

=============================================================================
