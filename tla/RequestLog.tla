----------------------------- MODULE RequestLog -----------------------------
(***************************************************************************)
(* The life of a request's log row in one gateway process: the handler     *)
(* answers the client and starts a logRequest goroutine                    *)
(* (internal/proxy/handler.go), which offers the row to the bounded        *)
(* channel of the asynchronous writer (internal/requestlog/writer.go); the *)
(* write loop inserts it, feeds the HyperLogLog manager and registers the  *)
(* metadata keys.  The main goroutine (cmd/gateway/main.go,                *)
(* internal/app/app.go) shuts all of this down on a signal; the process    *)
(* may also die at any point, and be started again.                        *)
(*                                                                         *)
(* Splitting metadata into raw and indexed, the other part of writeLog, is *)
(* the subject of module MetadataIndex.                                    *)
(***************************************************************************)
EXTENDS HLLManager, Sequences, Functions

CONSTANTS Requests,  \* request ids
          NoReq,     \* "the write loop holds no log"
          Cap,       \* the capacity of logChan
          MetaOf,    \* the metadata keys a request carries
          ValueOf    \* the value it carries under each of them

ASSUME RequestLogAssumption ==
  /\ NoReq \notin Requests
  /\ Cap \in Nat \ {0}
  /\ MetaOf \in [Requests -> SUBSET Keys]
  /\ ValueOf \in [Requests -> Values]

VARIABLES
  handler,   \* ServeHTTP of every request
  logging,   \* the running logRequest goroutines
  logChan,   \* Writer.logChan
  done,      \* Writer.done is closed
  writerPC,  \* writeLoop / writeLog
  draining,  \* writeLoop left its select through <-done
  wlog,      \* the log writeLog holds
  wtodo,     \* the metadata keys left in the loop writeLog is in
  main,      \* the main goroutine
  rows,      \* database: the requests with a row in llm_requests
  dropped,   \* logs refused by a full channel
  failed,    \* logs whose INSERT returned an error
  vanished   \* logs that were in memory when the process ended

pipeVars == <<handler, logging, logChan, done, writerPC, draining, wlog,
              wtodo, main, rows, dropped, failed, vanished>>
vars == <<hllVars, pipeVars>>

HandlerState == {"new", "serving", "refused", "answered", "aborted"}
WriterState == {"select", "insert", "add", "register", "drain", "recv", "exited"}
MainState == {"down", "up", "shutdown", "close", "stop", "wait", "dbclosed"}

TypeOK ==
  /\ HLLTypeOK
  /\ handler \in [Requests -> HandlerState]
  /\ logging \in SUBSET Requests
  /\ logChan \in Seq(Requests)
  /\ done \in BOOLEAN
  /\ writerPC \in WriterState
  /\ draining \in BOOLEAN
  /\ wlog \in Requests \cup {NoReq}
  /\ wtodo \in SUBSET Keys
  /\ main \in MainState
  /\ rows \in SUBSET Requests
  /\ dropped \in SUBSET Requests
  /\ failed \in SUBSET Requests
  /\ vanished \in SUBSET Requests

(* writeLog runs exactly while the write loop holds a log, and there is no *)
(* write loop while the process is down.                                   *)
WriterHoldsLog ==
  /\ wlog \in Requests <=> writerPC \in {"insert", "add", "register"}
  /\ main = "down" => writerPC = "exited"

Running == main # "down"
dbOpen == main \notin {"down", "dbclosed"}

Init ==
  /\ HLLInit
  /\ handler = [r \in Requests |-> "new"]
  /\ logging = {}
  /\ logChan = <<>>
  /\ done = FALSE
  /\ writerPC = "exited"
  /\ draining = FALSE
  /\ wlog = NoReq
  /\ wtodo = {}
  /\ main = "down"
  /\ rows = {}
  /\ dropped = {}
  /\ failed = {}
  /\ vanished = {}

-----------------------------------------------------------------------------
(* The process: app.Build, the shutdown sequence, the end.                 *)

Build(L) ==
  /\ main = "down"
  /\ LoadFromDB(L)
  /\ main' = "up"
  /\ done' = FALSE
  /\ writerPC' = "select"
  /\ draining' = FALSE
  /\ UNCHANGED <<handler, logging, logChan, wlog, wtodo, rows, dropped,
                 failed, vanished>>

MainStep(from, to) ==
  /\ main = from
  /\ main' = to
  /\ UNCHANGED <<handler, logging, logChan, writerPC, draining, wlog, wtodo,
                 rows, dropped, failed, vanished>>

(* A signal: the listener closes, so no request is accepted any more.      *)
Signal ==
  /\ MainStep("up", "shutdown")
  /\ UNCHANGED <<done, hllVars>>

(* http.Server.Shutdown returns when the handlers are gone or when its 30  *)
(* seconds are over, so it may leave handlers behind.  pricing.Close       *)
(* follows.                                                                *)
ShutdownReturns ==
  /\ MainStep("shutdown", "close")
  /\ UNCHANGED <<done, hllVars>>

(* Writer.Close: close(done); hllManager.Stop(); db.Close().               *)
CloseDone ==
  /\ MainStep("close", "stop")
  /\ done' = TRUE
  /\ UNCHANGED hllVars

StopHLL ==
  /\ MainStep("stop", "wait")
  /\ StopSignal
  /\ UNCHANGED done

CloseDB ==
  /\ flushPC = "stopped"
  /\ MainStep("wait", "dbclosed")
  /\ UNCHANGED <<done, hllVars>>

InMemory == logging \cup Range(logChan)
              \cup (IF writerPC = "insert" THEN {wlog} ELSE {})

(* The process ends: runServe returns, or it is killed.  Everything in     *)
(* memory is gone with it.                                                 *)
ProcessEnds ==
  /\ Running
  /\ main' = "down"
  /\ handler' = [r \in Requests |->
                   IF handler[r] = "serving" THEN "aborted" ELSE handler[r]]
  /\ vanished' = vanished \cup InMemory
  /\ logging' = {}
  /\ logChan' = <<>>
  /\ done' = FALSE
  /\ writerPC' = "exited"
  /\ draining' = FALSE
  /\ wlog' = NoReq
  /\ wtodo' = {}
  /\ MemoryLost
  /\ UNCHANGED <<rows, dropped, failed>>

Exit == main = "dbclosed" /\ ProcessEnds
Crash == main # "dbclosed" /\ ProcessEnds

-----------------------------------------------------------------------------
(* The handler.  Its early returns (401, 400, 502, 500) write no log row;  *)
(* module Handler models what leads to them.                               *)

Accept(r) ==
  /\ main = "up"
  /\ handler[r] = "new"
  /\ handler' = [handler EXCEPT ![r] = "serving"]
  /\ UNCHANGED <<logging, logChan, done, writerPC, draining, wlog, wtodo,
                 main, rows, dropped, failed, vanished, hllVars>>

Refuse(r) ==
  /\ handler[r] = "serving"
  /\ handler' = [handler EXCEPT ![r] = "refused"]
  /\ UNCHANGED <<logging, logChan, done, writerPC, draining, wlog, wtodo,
                 main, rows, dropped, failed, vanished, hllVars>>

(* The response is written and logAndFinish starts go h.logRequest(...).   *)
Answer(r) ==
  /\ handler[r] = "serving"
  /\ handler' = [handler EXCEPT ![r] = "answered"]
  /\ logging' = logging \cup {r}
  /\ UNCHANGED <<logChan, done, writerPC, draining, wlog, wtodo, main, rows,
                 dropped, failed, vanished, hllVars>>

(* WriteRequestLog: a non-blocking send.                                   *)
WriteRequestLog(r) ==
  /\ r \in logging
  /\ logging' = logging \ {r}
  /\ IF Len(logChan) < Cap
       THEN logChan' = Append(logChan, r) /\ UNCHANGED dropped
       ELSE dropped' = dropped \cup {r} /\ UNCHANGED logChan
  /\ UNCHANGED <<handler, done, writerPC, draining, wlog, wtodo, main, rows,
                 failed, vanished, hllVars>>

-----------------------------------------------------------------------------
(* writeLoop and writeLog.                                                 *)

LoopTop == IF draining THEN "drain" ELSE "select"

Receive(from) ==
  /\ writerPC = from
  /\ logChan # <<>>
  /\ wlog' = Head(logChan)
  /\ logChan' = Tail(logChan)
  /\ writerPC' = "insert"
  /\ UNCHANGED <<handler, logging, done, draining, wtodo, main, rows, dropped,
                 failed, vanished, hllVars>>

SelectReceive == Receive("select")

(* for len(logChan) > 0 { writeLog(<-logChan) }                            *)
DrainReceive == Receive("recv")

SelectDone ==
  /\ writerPC = "select"
  /\ done
  /\ writerPC' = "drain"
  /\ draining' = TRUE
  /\ UNCHANGED <<handler, logging, logChan, done, wlog, wtodo, main, rows,
                 dropped, failed, vanished, hllVars>>

DrainCheckAlways ==
  /\ writerPC = "drain"
  /\ writerPC' = IF Len(logChan) >= 0 THEN "recv" ELSE "exited"
  /\ UNCHANGED <<handler, logging, logChan, done, draining, wlog, wtodo, main,
                 rows, dropped, failed, vanished, hllVars>>

DrainCheck ==
  /\ writerPC = "drain"
  /\ writerPC' = IF Len(logChan) > 0 THEN "recv" ELSE "exited"
  /\ UNCHANGED <<handler, logging, logChan, done, draining, wlog, wtodo, main,
                 rows, dropped, failed, vanished, hllVars>>

(* INSERT INTO llm_requests.                                               *)
InsertRow ==
  /\ writerPC = "insert"
  /\ dbOpen
  /\ rows' = rows \cup {wlog}
  /\ writerPC' = "add"
  /\ wtodo' = MetaOf[wlog]
  /\ UNCHANGED <<handler, logging, logChan, done, draining, wlog, main,
                 dropped, failed, vanished, hllVars>>

(* The INSERT returns an error.  The row may nevertheless have been        *)
(* committed (stored = TRUE) when only the answer of the database is lost. *)
InsertFailsRetried(stored) ==
  /\ writerPC = "insert"
  /\ stored => dbOpen
  /\ rows' = IF stored THEN rows \cup {wlog} ELSE rows
  /\ failed' = failed \cup {wlog}
  /\ logChan' = Append(logChan, wlog)
  /\ writerPC' = LoopTop
  /\ wlog' = NoReq
  /\ UNCHANGED <<handler, logging, done, draining, wtodo, main,
                 dropped, vanished, hllVars>>

InsertFailsEndsLoop(stored) ==
  /\ writerPC = "insert"
  /\ stored => dbOpen
  /\ rows' = IF stored THEN rows \cup {wlog} ELSE rows
  /\ failed' = failed \cup {wlog}
  /\ writerPC' = "exited"
  /\ wlog' = NoReq
  /\ UNCHANGED <<handler, logging, logChan, done, draining, wtodo, main,
                 dropped, vanished, hllVars>>

InsertFails(stored) ==
  /\ writerPC = "insert"
  /\ stored => dbOpen
  /\ rows' = IF stored THEN rows \cup {wlog} ELSE rows
  /\ failed' = failed \cup {wlog}
  /\ writerPC' = LoopTop
  /\ wlog' = NoReq
  /\ UNCHANGED <<handler, logging, logChan, done, draining, wtodo, main,
                 dropped, vanished, hllVars>>

AddMetadataValueTwice(k) ==
  /\ writerPC = "add"
  /\ k \in MetaOf[wlog]
  /\ AddValue(k, ValueOf[wlog])
  /\ wtodo' = wtodo \ {k}
  /\ UNCHANGED <<handler, logging, logChan, done, writerPC, draining, wlog,
                 main, rows, dropped, failed, vanished>>

AddMetadataValue(k) ==
  /\ writerPC = "add"
  /\ k \in wtodo
  /\ AddValue(k, ValueOf[wlog])
  /\ wtodo' = wtodo \ {k}
  /\ UNCHANGED <<handler, logging, logChan, done, writerPC, draining, wlog,
                 main, rows, dropped, failed, vanished>>

ValuesAdded ==
  /\ writerPC = "add"
  /\ wtodo = {}
  /\ writerPC' = "register"
  /\ wtodo' = MetaOf[wlog]
  /\ UNCHANGED <<handler, logging, logChan, done, draining, wlog, main, rows,
                 dropped, failed, vanished, hllVars>>

(* A failure to register a key is only logged.                             *)
RegisterMetadataKey(k, ok) ==
  /\ writerPC = "register"
  /\ k \in wtodo
  /\ ok => dbOpen
  /\ IF ok THEN RegisterKey(k) ELSE UNCHANGED hllVars
  /\ wtodo' = wtodo \ {k}
  /\ UNCHANGED <<handler, logging, logChan, done, writerPC, draining, wlog,
                 main, rows, dropped, failed, vanished>>

WriteLogReturns ==
  /\ writerPC = "register"
  /\ wtodo = {}
  /\ writerPC' = LoopTop
  /\ wlog' = NoReq
  /\ UNCHANGED <<handler, logging, logChan, done, draining, wtodo, main, rows,
                 dropped, failed, vanished, hllVars>>

-----------------------------------------------------------------------------
(* The flush goroutine.                                                    *)

FlushStart(final) == FlushSnapshot(final) /\ UNCHANGED pipeVars
FlushRead(k) == FlushMarshal(k) /\ UNCHANGED pipeVars
FlushWrite(k, ok) == (ok => dbOpen) /\ FlushExec(k, ok) /\ UNCHANGED pipeVars
FlushReturns == FlushEnd /\ UNCHANGED pipeVars

-----------------------------------------------------------------------------

MainNext == Signal \/ ShutdownReturns \/ CloseDone \/ StopHLL \/ CloseDB \/ Exit

WriterNext ==
  \/ SelectReceive \/ SelectDone \/ DrainCheck \/ DrainReceive
  \/ InsertRow \/ \E stored \in BOOLEAN : InsertFails(stored)
  \/ \E k \in Keys : AddMetadataValue(k)
  \/ ValuesAdded
  \/ \E k \in Keys, ok \in BOOLEAN : RegisterMetadataKey(k, ok)
  \/ WriteLogReturns

FlushNext ==
  \/ \E final \in BOOLEAN : FlushStart(final)
  \/ \E k \in Keys : FlushRead(k)
  \/ \E k \in Keys, ok \in BOOLEAN : FlushWrite(k, ok)
  \/ FlushReturns

Next ==
  \/ \E L \in SUBSET Keys : Build(L)
  \/ MainNext
  \/ Crash
  \/ \E r \in Requests : Accept(r) \/ Refuse(r) \/ Answer(r) \/ WriteRequestLog(r)
  \/ WriterNext
  \/ FlushNext

Spec == Init /\ [][Next]_vars

(***************************************************************************)
(* Fairness: a runnable goroutine is eventually scheduled, a database call *)
(* returns, Shutdown returns after at most 30 seconds.  flushLoop selects  *)
(* between a 60-second ticker and done; Go picks at random among the ready *)
(* cases, so a closed done is not passed over forever (strong fairness).   *)
(* Nothing is assumed of clients, of upstream providers, of signals or of  *)
(* restarts.                                                               *)
(***************************************************************************)
Fairness ==
  /\ WF_vars(ShutdownReturns \/ CloseDone \/ StopHLL \/ CloseDB \/ Exit)
  /\ WF_vars(WriterNext)
  /\ WF_vars((\E k \in Keys : FlushRead(k) \/ \E ok \in BOOLEAN : FlushWrite(k, ok))
               \/ FlushReturns)
  /\ SF_vars(FlushStart(TRUE))
  /\ \A r \in Requests : WF_vars(WriteRequestLog(r))

FairSpec == Spec /\ Fairness

-----------------------------------------------------------------------------
(***************************************************************************)
(* Properties                                                              *)
(***************************************************************************)

Holds(r) == writerPC \in {"insert", "add", "register"} /\ wlog = r
Ended(r) == r \in rows \cup dropped \cup failed \cup vanished

(* Every log has exactly one owner.  The log of an answered request is in  *)
(* its goroutine, in one slot of the channel, in the hands of the write    *)
(* loop, or its fate is recorded: a row, a drop, a failed INSERT, a        *)
(* process that ended.  A request that was not answered has none of these. *)
(* This is about the hand-overs of WriteRequestLog, writeLoop and writeLog *)
(* under every interleaving with shutdown, crash and restart: nothing is   *)
(* written twice, requeued, forgotten or written for a refused request.    *)
OneOwner(r) ==
  /\ (handler[r] = "answered") <=>
       (r \in logging \/ r \in Range(logChan) \/ Holds(r) \/ Ended(r))
  /\ r \in logging => r \notin Range(logChan) /\ ~Holds(r) /\ ~Ended(r)
  /\ r \in Range(logChan) => ~Holds(r) /\ ~Ended(r)
  /\ Holds(r) => (Ended(r) <=> writerPC # "insert")

EveryLogHasOneOwner == \A r \in Requests : OneOwner(r)

(* No log occupies two slots of the channel, and the channel never holds   *)
(* more than its capacity: a full channel makes WriteRequestLog drop.      *)
ChannelWithinCapacity ==
  /\ Len(logChan) <= Cap
  /\ IsInjective(logChan)

RowsWith(k) == {r \in rows : k \in MetaOf[r]}

(* The rows of key k whose AddValue call writeLog has yet to make.         *)
Unadded(k) == IF writerPC = "add" /\ k \in wtodo THEN {wlog} ELSE {}

(* request_count never claims more requests than llm_requests has rows     *)
(* carrying the key, counting what is still in memory or in the flush in   *)
(* progress.  Failed UPDATEs, missing key rows, crashes and lost answers   *)
(* can make it too small, never too large: no count is flushed twice.      *)
CountBounded(k) ==
  requestCount[k] + hlls[k].count + flushCount[k]
    <= Cardinality(RowsWith(k) \ Unadded(k))

CountsNeverExceedRows == \A k \in Keys : CountBounded(k)

(* What makes it inductive: the row writeLog is counting exists, and what  *)
(* is left to count of it are keys it carries.                             *)
WriterCountsItsRow ==
  /\ IsFiniteSet(rows)
  /\ writerPC \in {"add", "register"} => wlog \in rows
  /\ writerPC = "add" => wtodo \subseteq MetaOf[wlog]

(* What LoadFromDB restored stays in the persisted sketch: a flush of a    *)
(* key whose state was loaded never overwrites it by a sketch that misses  *)
(* values counted before the restart, whatever races with the flush.       *)
LoadedSketchNeverForgets ==
  [][\A k \in loadedKeys : hllState[k] \subseteq hllState'[k]]_vars

(* What makes it hold: the sketch in memory covers the loaded state, and   *)
(* the bytes being read lie between the two.                               *)
SketchCovers ==
  /\ \A k \in loadedKeys : hllState[k] \subseteq hlls[k].sketch
  /\ marshalling # NoKey => hllBytes \subseteq hlls[marshalling].sketch
  /\ marshalling \in loadedKeys => hllState[marshalling] \subseteq hllBytes

(* The drain loop of writeLoop receives after it saw len(logChan) > 0; the *)
(* write loop is the only receiver, so that receive never blocks.          *)
DrainNeverBlocks == writerPC = "recv" => logChan # <<>>

(* Seen from outside, requests and logs behave as RequestAccounting says:  *)
(* a log is opened with the answer, its fate is settled once and never     *)
(* changes, whatever goroutine, shutdown, crash or restart comes between,  *)
(* and no log stays open for ever.  A row whose INSERT reported an error   *)
(* counts as a row.                                                        *)
Client(r) == IF handler[r] \in {"new", "serving"} THEN "waiting" ELSE handler[r]

Outcome(r) ==
  CASE r \in rows -> "row"
    [] r \in failed \ rows -> "failed"
    [] r \in dropped \ (rows \cup failed) -> "dropped"
    [] r \in vanished \ (rows \cup failed \cup dropped) -> "vanished"
    [] ~Ended(r) -> IF handler[r] = "answered" THEN "open" ELSE "none"

Accounting == INSTANCE RequestAccounting WITH
  client <- [r \in Requests |-> Client(r)],
  outcome <- [r \in Requests |-> Outcome(r)]

ImplementsAccounting == Accounting!AccountingSpec

(* A signal leads to the end of the process: Close waits for the last      *)
(* flush, and no goroutine can keep that from finishing.                   *)
ShutdownCompletes == main = "shutdown" ~> main = "down"

(* writer.go:55 says "Close drains the write channel, flushes HLL state,   *)
(* and closes the database": a log that is in the channel when Close is    *)
(* called has left it, and has been inserted or refused by the database,   *)
(* when the database is closed.                                            *)
CloseDrains ==
  \A r \in Requests :
    [](main = "close" /\ r \in Range(logChan)
         => [](main = "dbclosed" => Ended(r)))

=============================================================================
