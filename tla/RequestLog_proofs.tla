------------------------- MODULE RequestLog_proofs -------------------------
(***************************************************************************)
(* Proofs about RequestLog, for every set of requests, keys and values and *)
(* every channel capacity.                                                 *)
(***************************************************************************)
EXTENDS RequestLog, FiniteSetTheorems, TLAPS

(* The elements of a sequence after a send and after a receive.            *)
LEMMA RangeAppend ==
  ASSUME NEW S, NEW s \in Seq(S), NEW e \in S
  PROVE  Range(Append(s, e)) = Range(s) \cup {e}
<1>1. /\ DOMAIN Append(s, e) = 1..(Len(s) + 1)
      /\ DOMAIN s = 1..Len(s)
      /\ Len(s) \in Nat
  OBVIOUS
<1>2. \A i \in 1..Len(s) : Append(s, e)[i] = s[i]
  OBVIOUS
<1>3. Append(s, e)[Len(s) + 1] = e
  OBVIOUS
<1>4. QED
  BY <1>1, <1>2, <1>3 DEF Range

LEMMA RangeTail ==
  ASSUME NEW S, NEW s \in Seq(S), s # <<>>
  PROVE  /\ Head(s) \in S
         /\ Tail(s) \in Seq(S)
         /\ Len(Tail(s)) = Len(s) - 1
         /\ Range(s) = Range(Tail(s)) \cup {Head(s)}
<1>1. /\ Head(s) \in S
      /\ Tail(s) \in Seq(S)
      /\ Len(s) \in Nat \ {0}
      /\ Len(Tail(s)) = Len(s) - 1
      /\ Head(s) = s[1]
      /\ \A i \in 1..(Len(s) - 1) : Tail(s)[i] = s[i + 1]
  OBVIOUS
<1>2. DOMAIN s = 1..Len(s) /\ DOMAIN Tail(s) = 1..(Len(s) - 1)
  BY <1>1
<1>3. ASSUME NEW x \in Range(s) PROVE x \in Range(Tail(s)) \cup {Head(s)}
  <2>1. PICK i \in 1..Len(s) : x = s[i]
    BY <1>2 DEF Range
  <2>2. CASE i = 1
    BY <2>1, <2>2, <1>1
  <2>3. CASE i # 1
    <3>1. i - 1 \in 1..(Len(s) - 1) /\ Tail(s)[i - 1] = x
      BY <2>1, <2>3, <1>1
    <3>2. QED
      BY <3>1, <1>2 DEF Range
  <2>4. QED
    BY <2>2, <2>3
<1>4. ASSUME NEW x \in Range(Tail(s)) \cup {Head(s)} PROVE x \in Range(s)
  BY <1>1, <1>2 DEF Range
<1>5. QED
  BY <1>1, <1>3, <1>4

(* A channel without duplicates stays so when a new element is sent and    *)
(* when its head is received.                                              *)
LEMMA AppendInjective ==
  ASSUME NEW S, NEW s \in Seq(S), NEW e \in S, IsInjective(s), e \notin Range(s)
  PROVE  IsInjective(Append(s, e))
<1>1. /\ DOMAIN Append(s, e) = 1..(Len(s) + 1)
      /\ DOMAIN s = 1..Len(s)
      /\ Len(s) \in Nat
  OBVIOUS
<1>2. \A i \in 1..Len(s) : Append(s, e)[i] = s[i]
  OBVIOUS
<1>3. Append(s, e)[Len(s) + 1] = e
  OBVIOUS
<1>4. \A i \in 1..Len(s) : s[i] # e
  BY <1>1 DEF Range
<1>5. ASSUME NEW i \in 1..(Len(s) + 1), NEW j \in 1..(Len(s) + 1),
             Append(s, e)[i] = Append(s, e)[j]
      PROVE  i = j
  <2>1. (i \in 1..Len(s) \/ i = Len(s) + 1) /\ (j \in 1..Len(s) \/ j = Len(s) + 1)
    BY <1>1
  <2>2. QED
    BY <1>1, <1>2, <1>3, <1>4, <1>5, <2>1 DEF IsInjective
<1>6. QED
  BY <1>1, <1>5 DEF IsInjective

LEMMA TailInjective ==
  ASSUME NEW S, NEW s \in Seq(S), s # <<>>, IsInjective(s)
  PROVE  IsInjective(Tail(s)) /\ Head(s) \notin Range(Tail(s))
<1>1. /\ Len(s) \in Nat \ {0}
      /\ Head(s) = s[1]
      /\ DOMAIN s = 1..Len(s)
      /\ DOMAIN Tail(s) = 1..(Len(s) - 1)
      /\ \A i \in 1..(Len(s) - 1) : Tail(s)[i] = s[i + 1]
  OBVIOUS
<1>2. \A i \in 1..(Len(s) - 1) : i + 1 \in 1..Len(s) /\ 1 \in 1..Len(s) /\ i + 1 # 1
  BY <1>1
<1>3. Head(s) \notin Range(Tail(s))
  BY <1>1, <1>2 DEF Range, IsInjective
<1>4. QED
  BY <1>1, <1>2, <1>3 DEF IsInjective

-----------------------------------------------------------------------------

LEMMA TypeInit == Init => TypeOK /\ WriterHoldsLog
<1> SUFFICES ASSUME Init PROVE TypeOK /\ WriterHoldsLog
  OBVIOUS
<1>1. HLLTypeOK
  BY DEF Init, HLLInit, HLLTypeOK, Entry, EmptyEntry
<1>2. handler \in [Requests -> HandlerState] /\ logChan \in Seq(Requests)
  BY DEF Init, HandlerState
<1>3. writerPC \in WriterState /\ main \in MainState
  BY DEF Init, WriterState, MainState
<1>4. WriterHoldsLog
  BY RequestLogAssumption DEF Init, WriterHoldsLog
<1>5. QED
  BY <1>1, <1>2, <1>3, <1>4 DEF Init, TypeOK

LEMMA HLLTypeStutter == HLLTypeOK /\ UNCHANGED hllVars => HLLTypeOK'
BY DEF HLLTypeOK, hllVars

LEMMA PipeTypeStutter == TypeOK /\ HLLTypeOK' /\ UNCHANGED pipeVars => TypeOK'
BY DEF TypeOK, pipeVars

LEMMA HoldsStep ==
  TypeOK /\ WriterHoldsLog /\ [Next]_vars => WriterHoldsLog'
<1> SUFFICES ASSUME TypeOK, WriterHoldsLog, [Next]_vars PROVE WriterHoldsLog'
  OBVIOUS
<1> USE RequestLogAssumption DEF WriterHoldsLog
<1>1. ASSUME UNCHANGED <<wlog, writerPC>>, main' = main \/ main' # "down"
      PROVE  WriterHoldsLog'
  BY <1>1
<1>2. ASSUME NEW L \in SUBSET Keys, Build(L) PROVE WriterHoldsLog'
  BY <1>2 DEF Build
<1>3. CASE MainNext \/ Crash
  <2>1. CASE ProcessEnds
    BY <2>1 DEF ProcessEnds
  <2>2. QED
    BY <1>1, <1>3, <2>1 DEF MainNext, Signal, ShutdownReturns, CloseDone, StopHLL,
       CloseDB, MainStep, Exit, Crash
<1>4. ASSUME NEW r \in Requests,
             Accept(r) \/ Refuse(r) \/ Answer(r) \/ WriteRequestLog(r)
      PROVE  WriterHoldsLog'
  BY <1>1, <1>4 DEF Accept, Refuse, Answer, WriteRequestLog
<1>5. CASE WriterNext
  <2>1. CASE SelectReceive \/ DrainReceive
    BY <2>1, RangeTail DEF SelectReceive, DrainReceive, Receive, TypeOK
  <2>2. CASE SelectDone \/ DrainCheck \/ InsertRow \/ ValuesAdded \/ WriteLogReturns
    BY <2>2 DEF SelectDone, DrainCheck, InsertRow, ValuesAdded, WriteLogReturns, LoopTop
  <2>3. ASSUME NEW stored \in BOOLEAN, InsertFails(stored) PROVE WriterHoldsLog'
    BY <2>3 DEF InsertFails, LoopTop
  <2>4. QED
    BY <1>1, <1>5, <2>1, <2>2, <2>3 DEF WriterNext, AddMetadataValue, RegisterMetadataKey
<1>6. CASE FlushNext
  BY <1>1, <1>6 DEF FlushNext, FlushStart, FlushRead, FlushWrite, FlushReturns, pipeVars
<1>7. CASE UNCHANGED vars
  BY <1>1, <1>7 DEF vars, pipeVars
<1>8. QED
  BY <1>2, <1>3, <1>4, <1>5, <1>6, <1>7 DEF Next

LEMMA TypeStep == TypeOK /\ WriterHoldsLog /\ [Next]_vars => TypeOK'
<1> SUFFICES ASSUME TypeOK, WriterHoldsLog, [Next]_vars PROVE TypeOK'
  OBVIOUS
<1>0. HLLTypeOK
  BY DEF TypeOK
<1>1. ASSUME NEW L \in SUBSET Keys, Build(L) PROVE TypeOK'
  <2>1. HLLTypeOK'
    BY <1>0, <1>1 DEF Build, LoadFromDB, keyTableVars, HLLTypeOK, Entry, EmptyEntry
  <2>2. QED
    BY <1>1, <2>1 DEF Build, TypeOK, MainState, WriterState
<1>2. CASE MainNext \/ Crash
  <2>1. CASE Signal
    BY <2>1, <1>0, HLLTypeStutter DEF Signal, MainStep, TypeOK, MainState
  <2>2. CASE ShutdownReturns
    BY <2>2, <1>0, HLLTypeStutter DEF ShutdownReturns, MainStep, TypeOK, MainState
  <2>3. CASE CloseDone
    BY <2>3, <1>0, HLLTypeStutter DEF CloseDone, MainStep, TypeOK, MainState
  <2>4. CASE StopHLL
    <3>1. HLLTypeOK'
      BY <2>4, <1>0 DEF StopHLL, StopSignal, keyTableVars, HLLTypeOK
    <3>2. QED
      BY <2>4, <3>1 DEF StopHLL, MainStep, TypeOK, MainState
  <2>5. CASE CloseDB
    BY <2>5, <1>0, HLLTypeStutter DEF CloseDB, MainStep, TypeOK, MainState
  <2>6. CASE ProcessEnds
    <3>1. InMemory \subseteq Requests
      <4>1. Range(logChan) \subseteq Requests
        BY DEF Range, TypeOK
      <4>2. QED
        BY <4>1 DEF InMemory, TypeOK, WriterHoldsLog
    <3>2. HLLTypeOK'
      BY <2>6, <1>0 DEF ProcessEnds, MemoryLost, keyTableVars, HLLTypeOK, Entry, EmptyEntry
    <3>3. handler' \in [Requests -> HandlerState]
      BY <2>6 DEF ProcessEnds, TypeOK, HandlerState
    <3>4. QED
      <4>1. logChan' \in Seq(Requests)
        BY <2>6 DEF ProcessEnds
      <4>2. logging' = {} /\ wtodo' = {} /\ wlog' = NoReq
        BY <2>6 DEF ProcessEnds
      <4>3. writerPC' \in WriterState /\ main' \in MainState
        BY <2>6 DEF ProcessEnds, WriterState, MainState
      <4>4. vanished' \in SUBSET Requests
        BY <2>6, <3>1 DEF ProcessEnds, TypeOK
      <4>5. done' \in BOOLEAN /\ draining' \in BOOLEAN
        BY <2>6 DEF ProcessEnds
      <4>6. rows' \in SUBSET Requests /\ dropped' \in SUBSET Requests
            /\ failed' \in SUBSET Requests
        BY <2>6 DEF ProcessEnds, TypeOK
      <4>7. QED
        BY <3>2, <3>3, <4>1, <4>2, <4>3, <4>4, <4>5, <4>6 DEF TypeOK
  <2>7. QED
    BY <1>2, <2>1, <2>2, <2>3, <2>4, <2>5, <2>6 DEF MainNext, Exit, Crash
<1>3. ASSUME NEW r \in Requests,
             Accept(r) \/ Refuse(r) \/ Answer(r) \/ WriteRequestLog(r)
      PROVE  TypeOK'
  <2>1. HLLTypeOK'
    BY <1>0, <1>3, HLLTypeStutter DEF Accept, Refuse, Answer, WriteRequestLog
  <2>2. CASE Accept(r)
    BY <2>1, <2>2 DEF Accept, TypeOK, HandlerState
  <2>3. CASE Refuse(r)
    BY <2>1, <2>3 DEF Refuse, TypeOK, HandlerState
  <2>4. CASE Answer(r)
    BY <2>1, <2>4 DEF Answer, TypeOK, HandlerState
  <2>5. CASE WriteRequestLog(r)
    BY <2>1, <2>5 DEF WriteRequestLog, TypeOK
  <2>6. QED
    BY <1>3, <2>2, <2>3, <2>4, <2>5
<1>4. CASE WriterNext
  <2>1. CASE SelectReceive \/ DrainReceive
    <3>1. HLLTypeOK'
      BY <1>0, <2>1, HLLTypeStutter DEF SelectReceive, DrainReceive, Receive
    <3>2. /\ logChan \in Seq(Requests) /\ logChan # <<>>
          /\ wlog' = Head(logChan) /\ logChan' = Tail(logChan) /\ writerPC' = "insert"
          /\ UNCHANGED <<handler, logging, done, draining, wtodo, main, rows, dropped,
                         failed, vanished>>
      BY <2>1 DEF SelectReceive, DrainReceive, Receive, TypeOK
    <3>3. wlog' \in Requests /\ logChan' \in Seq(Requests) /\ writerPC' \in WriterState
      BY <3>2, RangeTail DEF WriterState
    <3>4. QED
      BY <3>1, <3>2, <3>3 DEF TypeOK
  <2>2. CASE SelectDone \/ DrainCheck
    <3>1. HLLTypeOK'
      BY <1>0, <2>2, HLLTypeStutter DEF SelectDone, DrainCheck
    <3>2. QED
      BY <2>2, <3>1 DEF SelectDone, DrainCheck, TypeOK, WriterState
  <2>3. CASE InsertRow \/ ValuesAdded \/ WriteLogReturns
    <3>1. HLLTypeOK'
      BY <1>0, <2>3, HLLTypeStutter DEF InsertRow, ValuesAdded, WriteLogReturns
    <3>2. CASE InsertRow
      BY <3>2, <3>1, WriterHoldsLog, RequestLogAssumption DEF InsertRow, TypeOK, WriterState, WriterHoldsLog
    <3>3. CASE ValuesAdded
      BY <3>3, <3>1, WriterHoldsLog, RequestLogAssumption DEF ValuesAdded, TypeOK, WriterState, WriterHoldsLog
    <3>4. CASE WriteLogReturns
      BY <3>4, <3>1 DEF WriteLogReturns, LoopTop, TypeOK, WriterState
    <3>5. QED
      BY <2>3, <3>2, <3>3, <3>4
  <2>4. ASSUME NEW stored \in BOOLEAN, InsertFails(stored) PROVE TypeOK'
    <3>1. HLLTypeOK'
      BY <1>0, <2>4, HLLTypeStutter DEF InsertFails
    <3>2. QED
      BY <2>4, <3>1 DEF InsertFails, LoopTop, TypeOK, WriterState, WriterHoldsLog
  <2>5. ASSUME NEW k \in Keys, AddMetadataValue(k) PROVE TypeOK'
    <3>1. HLLTypeOK'
      <4>1. ValueOf[wlog] \in Values
        BY <2>5, RequestLogAssumption DEF AddMetadataValue, WriterHoldsLog
      <4>2. PICK s \in Inserted(k, ValueOf[wlog]) :
              hlls' = [hlls EXCEPT ![k] = [sketch |-> s, dirty |-> TRUE,
                                           count |-> hlls[k].count + 1]]
        BY <2>5 DEF AddMetadataValue, AddValue
      <4>3. hlls[k] \in Entry /\ s \in SUBSET Values
        BY <1>0, <4>1, <4>2 DEF Inserted, HLLTypeOK, Entry
      <4>4. hlls' \in [Keys -> Entry]
        BY <1>0, <4>2, <4>3 DEF HLLTypeOK, Entry
      <4>5. QED
        BY <1>0, <2>5, <4>4 DEF AddMetadataValue, AddValue, HLLTypeOK
    <3>2. QED
      BY <2>5, <3>1 DEF AddMetadataValue, TypeOK
  <2>6. ASSUME NEW k \in Keys, NEW ok \in BOOLEAN, RegisterMetadataKey(k, ok)
        PROVE  TypeOK'
    <3>1. HLLTypeOK'
      BY <1>0, <2>6, HLLTypeStutter
      DEF RegisterMetadataKey, RegisterKey, memVars, HLLTypeOK
    <3>2. QED
      BY <2>6, <3>1 DEF RegisterMetadataKey, TypeOK
  <2>7. QED
    BY <1>4, <2>1, <2>2, <2>3, <2>4, <2>5, <2>6 DEF WriterNext
<1>5. CASE FlushNext
  <2>1. ASSUME NEW final \in BOOLEAN, FlushStart(final) PROVE TypeOK'
    <3>1. HLLTypeOK'
      BY <1>0, <2>1 DEF FlushStart, FlushSnapshot, keyTableVars, HLLTypeOK, Entry
    <3>2. QED
      BY <2>1, <3>1, PipeTypeStutter DEF FlushStart
  <2>2. ASSUME NEW k \in Keys, FlushRead(k) PROVE TypeOK'
    <3>1. HLLTypeOK'
      BY <1>0, <2>2 DEF FlushRead, FlushMarshal, keyTableVars, HLLTypeOK, Entry
    <3>2. QED
      BY <2>2, <3>1, PipeTypeStutter DEF FlushRead
  <2>3. ASSUME NEW k \in Keys, NEW ok \in BOOLEAN, FlushWrite(k, ok) PROVE TypeOK'
    <3>1. HLLTypeOK'
      <4>1. requestCount' \in [Keys -> Nat] /\ flushCount' \in [Keys -> Nat]
        BY <1>0, <2>3 DEF FlushWrite, FlushExec, HLLTypeOK
      <4>2. hllState' \in [Keys -> SUBSET Values]
        BY <1>0, <2>3 DEF FlushWrite, FlushExec, HLLTypeOK, Entry
      <4>3. QED
        BY <1>0, <2>3, <4>1, <4>2 DEF FlushWrite, FlushExec, HLLTypeOK
    <3>2. QED
      BY <2>3, <3>1, PipeTypeStutter DEF FlushWrite
  <2>4. CASE FlushReturns
    <3>1. HLLTypeOK'
      BY <1>0, <2>4 DEF FlushReturns, FlushEnd, keyTableVars, HLLTypeOK
    <3>2. QED
      BY <2>4, <3>1, PipeTypeStutter DEF FlushReturns
  <2>5. QED
    BY <1>5, <2>1, <2>2, <2>3, <2>4 DEF FlushNext
<1>6. CASE UNCHANGED vars
  BY <1>6, <1>0, HLLTypeStutter, PipeTypeStutter DEF vars
<1>7. QED
  BY <1>1, <1>2, <1>3, <1>4, <1>5, <1>6 DEF Next

(* Every reachable state of the log pipeline is well typed.                *)
THEOREM TypeCorrect == Spec => [](TypeOK /\ WriterHoldsLog)
BY TypeInit, TypeStep, HoldsStep, PTL DEF Spec

-----------------------------------------------------------------------------
(* Ownership of the logs.                                                  *)

OwnerInv == EveryLogHasOneOwner /\ ChannelWithinCapacity

LEMMA OwnerStutter ==
  OwnerInv /\ UNCHANGED <<handler, logging, logChan, writerPC, wlog, rows,
                          dropped, failed, vanished>>
    => OwnerInv'
BY DEF OwnerInv, EveryLogHasOneOwner, OneOwner, ChannelWithinCapacity, Holds, Ended

LEMMA OwnerInit == Init => OwnerInv
<1> SUFFICES ASSUME Init PROVE OwnerInv
  OBVIOUS
<1>1. Range(logChan) = {} /\ Len(logChan) = 0 /\ IsInjective(logChan)
  BY DEF Init, Range, IsInjective
<1>2. QED
  BY <1>1, RequestLogAssumption
  DEF Init, OwnerInv, EveryLogHasOneOwner, OneOwner, ChannelWithinCapacity, Holds, Ended

LEMMA OwnerStep ==
  TypeOK /\ WriterHoldsLog /\ OwnerInv /\ [Next]_vars => OwnerInv'
<1> SUFFICES ASSUME TypeOK, WriterHoldsLog, OwnerInv, [Next]_vars PROVE OwnerInv'
  OBVIOUS
<1> USE RequestLogAssumption
<1>1. ASSUME NEW L \in SUBSET Keys, Build(L) PROVE OwnerInv'
  BY <1>1 DEF Build, OwnerInv, EveryLogHasOneOwner, OneOwner,
     ChannelWithinCapacity, Holds, Ended, WriterHoldsLog
<1>2. CASE MainNext \/ Crash
  <2>1. CASE ProcessEnds
    <3>1. Range(logChan') = {} /\ Len(logChan') = 0 /\ IsInjective(logChan')
      BY <2>1 DEF ProcessEnds, Range, IsInjective
    <3>2. ASSUME NEW q \in Requests PROVE OneOwner(q)'
      <4>1. /\ ~(q \in logging') /\ ~Holds(q)'
            /\ handler'[q] = "answered" <=> handler[q] = "answered"
        BY <2>1 DEF ProcessEnds, Holds, TypeOK
      <4>2. Ended(q)' <=> Ended(q) \/ q \in InMemory
        BY <2>1 DEF ProcessEnds, Ended
      <4>3. q \in InMemory \/ Ended(q)
              <=> (q \in logging \/ q \in Range(logChan) \/ Holds(q) \/ Ended(q))
        BY DEF OwnerInv, EveryLogHasOneOwner, OneOwner, InMemory, Holds
      <4>4. QED
        BY <3>1, <4>1, <4>2, <4>3 DEF OwnerInv, EveryLogHasOneOwner, OneOwner
    <3>3. QED
      BY <3>1, <3>2 DEF OwnerInv, EveryLogHasOneOwner, ChannelWithinCapacity
  <2>2. QED
    BY <1>2, <2>1, OwnerStutter DEF MainNext, Signal, ShutdownReturns, CloseDone,
       StopHLL, CloseDB, MainStep, Exit, Crash
<1>3. ASSUME NEW r \in Requests, Accept(r) \/ Refuse(r) PROVE OwnerInv'
  <2>1. /\ \A q \in Requests : handler'[q] = "answered" <=> handler[q] = "answered"
        /\ logging' = logging /\ logChan' = logChan /\ writerPC' = writerPC /\ wlog' = wlog
        /\ rows' = rows /\ dropped' = dropped /\ failed' = failed /\ vanished' = vanished
    BY <1>3 DEF Accept, Refuse, TypeOK
  <2>2. \A q \in Requests : (Holds(q)' <=> Holds(q)) /\ (Ended(q)' <=> Ended(q))
    BY <2>1 DEF Holds, Ended
  <2>3. QED
    BY <2>1, <2>2 DEF OwnerInv, EveryLogHasOneOwner, OneOwner, ChannelWithinCapacity
<1>4. ASSUME NEW r \in Requests, Answer(r) PROVE OwnerInv'
  BY <1>4 DEF Answer, TypeOK, OwnerInv, EveryLogHasOneOwner, OneOwner,
     ChannelWithinCapacity, Holds, Ended
<1>5. ASSUME NEW r \in Requests, WriteRequestLog(r) PROVE OwnerInv'
  <2>1. r \in logging /\ r \notin Range(logChan) /\ ~Holds(r) /\ ~Ended(r)
    BY <1>5 DEF WriteRequestLog, OwnerInv, EveryLogHasOneOwner, OneOwner
  <2>2. CASE Len(logChan) < Cap
    <3>1. Range(logChan') = Range(logChan) \cup {r}
      <4>1. r \in Requests /\ logChan \in Seq(Requests) /\ logChan' = Append(logChan, r)
        BY <1>5, <2>2 DEF WriteRequestLog, TypeOK
      <4>2. QED
        BY <4>1, RangeAppend
    <3>2. IsInjective(logChan') /\ Len(logChan') <= Cap
      <4>1. logChan' = Append(logChan, r) /\ Len(logChan) \in Nat
        BY <1>5, <2>2 DEF WriteRequestLog, TypeOK
      <4>2. Len(logChan') = Len(logChan) + 1
        BY <4>1 DEF TypeOK
      <4>3. IsInjective(logChan')
        BY <2>1, <4>1, AppendInjective DEF TypeOK, OwnerInv, ChannelWithinCapacity
      <4>4. QED
        BY <2>2, <4>1, <4>2, <4>3
    <3>3. ASSUME NEW q \in Requests PROVE OneOwner(q)'
      BY <1>5, <2>1, <2>2, <3>1 DEF WriteRequestLog, OwnerInv, EveryLogHasOneOwner,
         OneOwner, Holds, Ended
    <3>4. QED
      BY <3>2, <3>3 DEF OwnerInv, EveryLogHasOneOwner, ChannelWithinCapacity
  <2>3. CASE ~(Len(logChan) < Cap)
    BY <1>5, <2>1, <2>3 DEF WriteRequestLog, OwnerInv, EveryLogHasOneOwner,
       OneOwner, ChannelWithinCapacity, Holds, Ended
  <2>4. QED
    BY <2>2, <2>3
<1>6. CASE WriterNext
  <2>1. CASE SelectReceive \/ DrainReceive
    <3>1. /\ logChan # <<>> /\ wlog' = Head(logChan) /\ logChan' = Tail(logChan)
          /\ writerPC \in {"select", "recv"} /\ writerPC' = "insert"
          /\ UNCHANGED <<handler, logging, rows, dropped, failed, vanished>>
      BY <2>1 DEF SelectReceive, DrainReceive, Receive
    <3>2. /\ Range(logChan) = Range(logChan') \cup {wlog'}
          /\ Len(logChan') = Len(logChan) - 1
          /\ wlog' \in Requests
      BY <3>1, RangeTail DEF TypeOK
    <3>3. IsInjective(logChan') /\ wlog' \notin Range(logChan')
      BY <3>1, TailInjective DEF TypeOK, OwnerInv, ChannelWithinCapacity
    <3>4. Len(logChan') <= Cap
      BY <3>1, <3>2 DEF TypeOK, OwnerInv, ChannelWithinCapacity
    <3>5. ASSUME NEW q \in Requests PROVE OneOwner(q)'
      BY <3>1, <3>2, <3>3 DEF OwnerInv, EveryLogHasOneOwner, OneOwner, Holds, Ended
    <3>6. QED
      BY <3>3, <3>4, <3>5 DEF OwnerInv, EveryLogHasOneOwner, ChannelWithinCapacity
  <2>2. CASE SelectDone \/ DrainCheck
    BY <2>2 DEF SelectDone, DrainCheck, OwnerInv, EveryLogHasOneOwner, OneOwner,
       ChannelWithinCapacity, Holds, Ended
  <2>3. CASE InsertRow
    BY <2>3 DEF InsertRow, WriterHoldsLog, OwnerInv, EveryLogHasOneOwner, OneOwner,
       ChannelWithinCapacity, Holds, Ended
  <2>4. ASSUME NEW stored \in BOOLEAN, InsertFails(stored) PROVE OwnerInv'
    BY <2>4 DEF InsertFails, LoopTop, WriterHoldsLog, OwnerInv, EveryLogHasOneOwner,
       OneOwner, ChannelWithinCapacity, Holds, Ended
  <2>5. CASE ValuesAdded \/ WriteLogReturns
    BY <2>5 DEF ValuesAdded, WriteLogReturns, LoopTop, WriterHoldsLog, OwnerInv,
       EveryLogHasOneOwner, OneOwner, ChannelWithinCapacity, Holds, Ended
  <2>6. QED
    BY <1>6, <2>1, <2>2, <2>3, <2>4, <2>5, OwnerStutter
    DEF WriterNext, AddMetadataValue, RegisterMetadataKey
<1>7. CASE FlushNext
  BY <1>7, OwnerStutter
  DEF FlushNext, FlushStart, FlushRead, FlushWrite, FlushReturns, pipeVars
<1>8. CASE UNCHANGED vars
  BY <1>8, OwnerStutter DEF vars, pipeVars
<1>9. QED
  BY <1>1, <1>2, <1>3, <1>4, <1>5, <1>6, <1>7, <1>8 DEF Next

(* Every log has exactly one owner, in every reachable state.              *)
THEOREM LogsHaveOneOwner == Spec => [](EveryLogHasOneOwner /\ ChannelWithinCapacity)
<1>1. TypeOK /\ WriterHoldsLog /\ OwnerInv /\ [Next]_vars
        => (TypeOK /\ WriterHoldsLog /\ OwnerInv)'
  BY TypeStep, HoldsStep, OwnerStep
<1>2. OwnerInv => EveryLogHasOneOwner /\ ChannelWithinCapacity
  BY DEF OwnerInv
<1>3. QED
  BY <1>1, <1>2, TypeInit, OwnerInit, PTL DEF Spec

-----------------------------------------------------------------------------
(* The request counts.                                                     *)

CountInv == WriterCountsItsRow /\ CountsNeverExceedRows

LEMMA RowsFinite ==
  ASSUME IsFiniteSet(rows), NEW k
  PROVE  /\ IsFiniteSet(RowsWith(k))
         /\ IsFiniteSet(RowsWith(k) \ Unadded(k))
         /\ Cardinality(RowsWith(k) \ Unadded(k)) \in Nat
         /\ Cardinality(RowsWith(k)) \in Nat
         /\ Cardinality(RowsWith(k) \ Unadded(k)) <= Cardinality(RowsWith(k))
<1>1. RowsWith(k) \in SUBSET rows
  BY DEF RowsWith
<1>2. IsFiniteSet(RowsWith(k))
  BY <1>1, FS_Subset
<1>3. (RowsWith(k) \ Unadded(k)) \in SUBSET RowsWith(k)
  OBVIOUS
<1>4. QED
  BY <1>2, <1>3, FS_Subset, FS_CardinalityType

(* More rows, or fewer calls still to make, only loosen the bound.         *)
LEMMA CountLoosens ==
  ASSUME TypeOK, CountInv, TypeOK', IsFiniteSet(rows'), NEW k \in Keys,
         RowsWith(k) \ Unadded(k) \subseteq (RowsWith(k) \ Unadded(k))',
         requestCount'[k] + hlls'[k].count + flushCount'[k]
           <= requestCount[k] + hlls[k].count + flushCount[k]
  PROVE  CountBounded(k)'
<1> DEFINE A == RowsWith(k) \ Unadded(k)
           B == (RowsWith(k) \ Unadded(k))'
<1>1. B \subseteq rows'
  BY DEF RowsWith
<1>2. IsFiniteSet(B) /\ IsFiniteSet(rows)
  BY <1>1, FS_Subset DEF CountInv, WriterCountsItsRow
<1>3. A \in SUBSET B
  OBVIOUS
<1>4. Cardinality(A) <= Cardinality(B) /\ Cardinality(A) \in Nat /\ Cardinality(B) \in Nat
  BY <1>2, <1>3, FS_Subset, FS_CardinalityType
<1>5. requestCount[k] + hlls[k].count + flushCount[k] <= Cardinality(A)
  BY DEF CountInv, CountsNeverExceedRows, CountBounded
<1>6. /\ requestCount[k] \in Nat /\ hlls[k].count \in Nat /\ flushCount[k] \in Nat
      /\ requestCount'[k] \in Nat /\ hlls'[k].count \in Nat /\ flushCount'[k] \in Nat
  BY DEF TypeOK, HLLTypeOK, Entry
<1> HIDE DEF A, B
<1>7. requestCount'[k] + hlls'[k].count + flushCount'[k] <= Cardinality(B)
  BY <1>4, <1>5, <1>6
<1>8. QED
  BY <1>7 DEF B, CountBounded

LEMMA CountInit == Init => CountInv
<1> SUFFICES ASSUME Init PROVE CountInv
  OBVIOUS
<1>1. IsFiniteSet(rows)
  BY FS_EmptySet DEF Init
<1>2. WriterCountsItsRow
  BY <1>1 DEF Init, WriterCountsItsRow
<1>3. ASSUME NEW k \in Keys PROVE CountBounded(k)
  <2>1. Cardinality(RowsWith(k) \ Unadded(k)) \in Nat
    BY <1>1, RowsFinite
  <2>2. requestCount[k] = 0 /\ hlls[k].count = 0 /\ flushCount[k] = 0
    BY DEF Init, HLLInit, EmptyEntry
  <2>3. QED
    BY <2>1, <2>2 DEF CountBounded
<1>4. QED
  BY <1>2, <1>3 DEF CountInv, CountsNeverExceedRows

LEMMA CountsItsRowStep ==
  TypeOK /\ WriterHoldsLog /\ WriterCountsItsRow /\ [Next]_vars => WriterCountsItsRow'
<1> SUFFICES ASSUME TypeOK, WriterHoldsLog, WriterCountsItsRow, [Next]_vars
             PROVE  WriterCountsItsRow'
  OBVIOUS
<1> USE DEF WriterCountsItsRow
<1>1. ASSUME UNCHANGED <<rows, writerPC, wlog, wtodo>> PROVE WriterCountsItsRow'
  BY <1>1
<1>2. ASSUME NEW L \in SUBSET Keys, Build(L) PROVE WriterCountsItsRow'
  BY <1>2 DEF Build
<1>3. CASE MainNext \/ Crash
  <2>1. CASE ProcessEnds
    BY <2>1 DEF ProcessEnds
  <2>2. QED
    BY <1>1, <1>3, <2>1 DEF MainNext, Signal, ShutdownReturns, CloseDone, StopHLL,
       CloseDB, MainStep, Exit, Crash
<1>4. ASSUME NEW r \in Requests,
             Accept(r) \/ Refuse(r) \/ Answer(r) \/ WriteRequestLog(r)
      PROVE  WriterCountsItsRow'
  BY <1>1, <1>4 DEF Accept, Refuse, Answer, WriteRequestLog
<1>5. CASE WriterNext
  <2>1. CASE SelectReceive \/ DrainReceive
    BY <2>1 DEF SelectReceive, DrainReceive, Receive
  <2>2. CASE SelectDone \/ DrainCheck \/ ValuesAdded \/ WriteLogReturns
    BY <2>2 DEF SelectDone, DrainCheck, ValuesAdded, WriteLogReturns, LoopTop
  <2>3. CASE InsertRow
    BY <2>3, FS_AddElement DEF InsertRow
  <2>4. ASSUME NEW stored \in BOOLEAN, InsertFails(stored) PROVE WriterCountsItsRow'
    BY <2>4, FS_AddElement DEF InsertFails, LoopTop
  <2>5. ASSUME NEW k \in Keys, AddMetadataValue(k) PROVE WriterCountsItsRow'
    BY <2>5 DEF AddMetadataValue
  <2>6. ASSUME NEW k \in Keys, NEW ok \in BOOLEAN, RegisterMetadataKey(k, ok)
        PROVE  WriterCountsItsRow'
    BY <2>6 DEF RegisterMetadataKey
  <2>7. QED
    BY <1>5, <2>1, <2>2, <2>3, <2>4, <2>5, <2>6 DEF WriterNext
<1>6. CASE FlushNext
  BY <1>1, <1>6 DEF FlushNext, FlushStart, FlushRead, FlushWrite, FlushReturns, pipeVars
<1>7. CASE UNCHANGED vars
  BY <1>1, <1>7 DEF vars, pipeVars
<1>8. QED
  BY <1>2, <1>3, <1>4, <1>5, <1>6, <1>7 DEF Next

CountRelevant == <<rows, writerPC, wlog, wtodo, hlls, flushCount, requestCount>>

LEMMA CountStutter ==
  CountsNeverExceedRows /\ UNCHANGED CountRelevant => CountsNeverExceedRows'
BY DEF CountRelevant, CountsNeverExceedRows, CountBounded, RowsWith, Unadded

LEMMA CountStep ==
  TypeOK /\ WriterHoldsLog /\ OwnerInv /\ CountInv
    /\ TypeOK' /\ WriterCountsItsRow' /\ [Next]_vars
    => CountsNeverExceedRows'
<1> SUFFICES ASSUME TypeOK, WriterHoldsLog, OwnerInv, CountInv, TypeOK',
                    WriterCountsItsRow', [Next]_vars
             PROVE  CountsNeverExceedRows'
  OBVIOUS
<1>0. /\ IsFiniteSet(rows) /\ IsFiniteSet(rows')
      /\ CountsNeverExceedRows
      /\ \A q \in Keys : /\ requestCount[q] \in Nat
                         /\ hlls[q].count \in Nat
                         /\ flushCount[q] \in Nat
  BY DEF CountInv, WriterCountsItsRow, TypeOK, HLLTypeOK, Entry
<1>1. ASSUME NEW L \in SUBSET Keys, Build(L) PROVE CountsNeverExceedRows'
  <2>1. ASSUME NEW q \in Keys PROVE CountBounded(q)'
    <3>1. requestCount'[q] = requestCount[q] /\ hlls'[q].count = 0 /\ flushCount'[q] = 0
      BY <1>1 DEF Build, LoadFromDB, EmptyEntry, keyTableVars
    <3>2. RowsWith(q) \ Unadded(q) \subseteq (RowsWith(q) \ Unadded(q))'
      BY <1>1 DEF Build, RowsWith, Unadded
    <3>3. QED
      BY <1>0, <3>1, <3>2, CountLoosens
  <2>2. QED
    BY <2>1 DEF CountsNeverExceedRows
<1>2. CASE MainNext \/ Crash
  <2>1. CASE ProcessEnds
    <3>1. ASSUME NEW q \in Keys PROVE CountBounded(q)'
      <4>1. requestCount'[q] = requestCount[q] /\ hlls'[q].count = 0 /\ flushCount'[q] = 0
        BY <2>1 DEF ProcessEnds, MemoryLost, EmptyEntry, keyTableVars
      <4>2. RowsWith(q) \ Unadded(q) \subseteq (RowsWith(q) \ Unadded(q))'
        BY <2>1 DEF ProcessEnds, RowsWith, Unadded
      <4>3. QED
        BY <1>0, <4>1, <4>2, CountLoosens
    <3>2. QED
      BY <3>1 DEF CountsNeverExceedRows
  <2>2. QED
    BY <1>0, <1>2, <2>1, CountStutter DEF MainNext, Signal, ShutdownReturns, CloseDone,
       StopHLL, StopSignal, CloseDB, MainStep, Exit, Crash, hllVars, keyTableVars,
       CountRelevant
<1>3. ASSUME NEW r \in Requests,
             Accept(r) \/ Refuse(r) \/ Answer(r) \/ WriteRequestLog(r)
      PROVE  CountsNeverExceedRows'
  BY <1>0, <1>3, CountStutter
  DEF Accept, Refuse, Answer, WriteRequestLog, hllVars, CountRelevant
<1>4. CASE WriterNext
  <2>1. ASSUME \/ SelectReceive \/ DrainReceive \/ SelectDone \/ DrainCheck
               \/ InsertRow \/ ValuesAdded \/ WriteLogReturns
               \/ \E stored \in BOOLEAN : InsertFails(stored),
               NEW q \in Keys
        PROVE  CountBounded(q)'
    <3>1. UNCHANGED <<requestCount, hlls, flushCount>>
      BY <2>1 DEF SelectReceive, DrainReceive, Receive, SelectDone, DrainCheck, InsertRow,
         ValuesAdded, WriteLogReturns, InsertFails, hllVars
    <3>2. RowsWith(q) \ Unadded(q) \subseteq (RowsWith(q) \ Unadded(q))'
      <4>1. CASE InsertRow
        <5>1. wlog \notin rows
          BY <4>1 DEF InsertRow, WriterHoldsLog, OwnerInv, EveryLogHasOneOwner, OneOwner,
             Holds, Ended
        <5>2. QED
          BY <4>1, <5>1 DEF InsertRow, RowsWith, Unadded
      <4>2. CASE SelectReceive \/ DrainReceive \/ SelectDone \/ DrainCheck
        BY <4>2 DEF SelectReceive, DrainReceive, Receive, SelectDone, DrainCheck,
           RowsWith, Unadded
      <4>3. CASE ValuesAdded \/ WriteLogReturns
        BY <4>3 DEF ValuesAdded, WriteLogReturns, LoopTop, RowsWith, Unadded
      <4>4. CASE \E stored \in BOOLEAN : InsertFails(stored)
        BY <4>4 DEF InsertFails, LoopTop, RowsWith, Unadded
      <4>5. QED
        BY <2>1, <4>1, <4>2, <4>3, <4>4
    <3>3. QED
      BY <1>0, <3>1, <3>2, CountLoosens
  <2>2. ASSUME NEW k \in Keys, AddMetadataValue(k), NEW q \in Keys
        PROVE  CountBounded(q)'
    <3>1. /\ UNCHANGED <<requestCount, flushCount, rows, writerPC, wlog>>
          /\ writerPC = "add" /\ k \in wtodo /\ wtodo' = wtodo \ {k}
      BY <2>2 DEF AddMetadataValue, AddValue
    <3>2. hlls'[q].count = IF q = k THEN hlls[q].count + 1 ELSE hlls[q].count
      BY <2>2 DEF AddMetadataValue, AddValue, TypeOK, HLLTypeOK
    <3>3. CASE q # k
      <4>1. RowsWith(q) \ Unadded(q) \subseteq (RowsWith(q) \ Unadded(q))'
        BY <3>1, <3>3 DEF RowsWith, Unadded
      <4>2. QED
        BY <1>0, <3>1, <3>2, <3>3, <4>1, CountLoosens
    <3>4. CASE q = k
      <4>1. wlog \in RowsWith(k) /\ Unadded(k) = {wlog} /\ Unadded(k)' = {}
            /\ RowsWith(k)' = RowsWith(k)
        BY <3>1 DEF CountInv, WriterCountsItsRow, RowsWith, Unadded
      <4>2. IsFiniteSet(RowsWith(k)) /\ Cardinality(RowsWith(k)) \in Nat
        BY <1>0, RowsFinite
      <4>3. Cardinality(RowsWith(k) \ {wlog}) = Cardinality(RowsWith(k)) - 1
        BY <4>1, <4>2, FS_RemoveElement
      <4>4. requestCount[k] + hlls[k].count + flushCount[k]
              <= Cardinality(RowsWith(k) \ {wlog})
        BY <1>0, <4>1 DEF CountsNeverExceedRows, CountBounded
      <4>5. requestCount'[k] + hlls'[k].count + flushCount'[k] <= Cardinality(RowsWith(k))
        BY <1>0, <3>1, <3>2, <3>4, <4>2, <4>3, <4>4
      <4>6. (RowsWith(k) \ Unadded(k))' = RowsWith(k)
        BY <4>1
      <4>7. QED
        BY <3>4, <4>5, <4>6 DEF CountBounded
    <3>5. QED
      BY <3>3, <3>4
  <2>3. ASSUME NEW k \in Keys, NEW ok \in BOOLEAN, RegisterMetadataKey(k, ok),
               NEW q \in Keys
        PROVE  CountBounded(q)'
    <3>1. UNCHANGED <<requestCount, hlls, flushCount, rows>>
      BY <2>3 DEF RegisterMetadataKey, RegisterKey, memVars, hllVars
    <3>2. RowsWith(q) \ Unadded(q) \subseteq (RowsWith(q) \ Unadded(q))'
      BY <2>3, <3>1 DEF RegisterMetadataKey, RowsWith, Unadded
    <3>3. QED
      BY <1>0, <3>1, <3>2, CountLoosens
  <2>4. QED
    BY <1>4, <2>1, <2>2, <2>3 DEF WriterNext, CountsNeverExceedRows
<1>5. CASE FlushNext
  <2>1. ASSUME UNCHANGED pipeVars, NEW q \in Keys,
               requestCount'[q] + hlls'[q].count + flushCount'[q]
                 <= requestCount[q] + hlls[q].count + flushCount[q]
        PROVE  CountBounded(q)'
    <3>1. RowsWith(q) \ Unadded(q) \subseteq (RowsWith(q) \ Unadded(q))'
      BY <2>1 DEF pipeVars, RowsWith, Unadded
    <3>2. QED
      BY <1>0, <2>1, <3>1, CountLoosens
  <2>2. ASSUME NEW final \in BOOLEAN, FlushStart(final), NEW q \in Keys
        PROVE  CountBounded(q)'
    <3>1. /\ requestCount'[q] = requestCount[q]
          /\ \/ flushCount'[q] = hlls[q].count /\ hlls'[q].count = 0
             \/ flushCount'[q] = 0 /\ hlls'[q].count = hlls[q].count
      BY <2>2 DEF FlushStart, FlushSnapshot, keyTableVars, TypeOK, HLLTypeOK, Entry
    <3>2. QED
      BY <1>0, <2>1, <2>2, <3>1 DEF FlushStart
  <2>3. ASSUME NEW k \in Keys, NEW ok \in BOOLEAN, FlushWrite(k, ok), NEW q \in Keys
        PROVE  CountBounded(q)'
    <3>1. /\ hlls' = hlls
          /\ flushCount'[q] = IF q = k THEN 0 ELSE flushCount[q]
          /\ \/ requestCount'[q] = requestCount[q]
             \/ q = k /\ requestCount'[q] = requestCount[q] + flushCount[q]
      <4>1. \/ requestCount' = requestCount
            \/ requestCount' = [requestCount EXCEPT ![k] = requestCount[k] + flushCount[k]]
        BY <2>3 DEF FlushWrite, FlushExec
      <4>2. flushCount' = [flushCount EXCEPT ![k] = 0] /\ hlls' = hlls
        BY <2>3 DEF FlushWrite, FlushExec
      <4>3. QED
        BY <4>1, <4>2 DEF TypeOK, HLLTypeOK
    <3>2. QED
      BY <1>0, <2>1, <2>3, <3>1 DEF FlushWrite
  <2>4. QED
    BY <1>0, <1>5, <2>2, <2>3, CountStutter
    DEF FlushNext, FlushRead, FlushMarshal, FlushReturns, FlushEnd, pipeVars,
        keyTableVars, CountRelevant, CountsNeverExceedRows
<1>6. CASE UNCHANGED vars
  BY <1>0, <1>6, CountStutter DEF vars, hllVars, pipeVars, CountRelevant
<1>7. QED
  BY <1>1, <1>2, <1>3, <1>4, <1>5, <1>6 DEF Next

(* request_count, with the counts in memory and in the running flush, is   *)
(* never larger than the number of rows that carry the key.                *)
THEOREM CountsBounded == Spec => []CountsNeverExceedRows
<1> DEFINE IInv == TypeOK /\ WriterHoldsLog /\ OwnerInv /\ CountInv
<1>1. IInv /\ [Next]_vars => IInv'
  BY TypeStep, HoldsStep, OwnerStep, CountsItsRowStep, CountStep DEF CountInv
<1>2. Init => IInv
  BY TypeInit, OwnerInit, CountInit
<1>3. IInv => CountsNeverExceedRows
  BY DEF CountInv
<1>4. QED
  BY <1>1, <1>2, <1>3, PTL DEF Spec

-----------------------------------------------------------------------------
(* The persisted sketches.                                                 *)

LEMMA SketchStutter == SketchCovers /\ UNCHANGED hllVars => SketchCovers'
BY DEF SketchCovers, hllVars

LEMMA SketchStep == TypeOK /\ SketchCovers /\ [Next]_vars => SketchCovers'
<1> SUFFICES ASSUME TypeOK, SketchCovers, [Next]_vars PROVE SketchCovers'
  OBVIOUS
<1> USE NoKeyAssumption
<1>1. ASSUME NEW L \in SUBSET Keys, Build(L) PROVE SketchCovers'
  BY <1>1 DEF Build, LoadFromDB, SketchCovers, EmptyEntry, keyTableVars
<1>2. CASE MainNext \/ Crash
  <2>1. CASE ProcessEnds
    BY <2>1 DEF ProcessEnds, MemoryLost, SketchCovers
  <2>2. CASE StopHLL
    BY <2>2 DEF StopHLL, StopSignal, keyTableVars, SketchCovers
  <2>3. QED
    BY <1>2, <2>1, <2>2, SketchStutter DEF MainNext, Signal, ShutdownReturns,
       CloseDone, CloseDB, Exit, Crash
<1>3. ASSUME NEW r \in Requests,
             Accept(r) \/ Refuse(r) \/ Answer(r) \/ WriteRequestLog(r)
      PROVE  SketchCovers'
  BY <1>3, SketchStutter DEF Accept, Refuse, Answer, WriteRequestLog
<1>4. CASE WriterNext
  <2>1. ASSUME NEW k \in Keys, AddMetadataValue(k) PROVE SketchCovers'
    <3>1. /\ UNCHANGED <<marshalling, hllBytes, loadedKeys, hllState>>
          /\ DOMAIN hlls' = DOMAIN hlls
          /\ \A q \in Keys : hlls[q].sketch \subseteq hlls'[q].sketch
      BY <2>1 DEF AddMetadataValue, AddValue, Inserted, TypeOK, HLLTypeOK
    <3>2. marshalling \in Keys \cup {NoKey} /\ loadedKeys \subseteq Keys
      BY DEF TypeOK, HLLTypeOK
    <3>3. QED
      BY <3>1, <3>2 DEF SketchCovers
  <2>2. ASSUME NEW k \in Keys, NEW ok \in BOOLEAN, RegisterMetadataKey(k, ok)
        PROVE  SketchCovers'
    BY <2>2, SketchStutter DEF RegisterMetadataKey, RegisterKey, memVars, SketchCovers
  <2>3. QED
    BY <1>4, <2>1, <2>2, SketchStutter DEF WriterNext, SelectReceive, DrainReceive,
       Receive, SelectDone, DrainCheck, InsertRow, InsertFails, ValuesAdded,
       WriteLogReturns
<1>5. CASE FlushNext
  <2>1. ASSUME NEW final \in BOOLEAN, FlushStart(final) PROVE SketchCovers'
    <3>1. /\ UNCHANGED <<marshalling, hllBytes, loadedKeys, hllState>>
          /\ \A q \in Keys : hlls'[q].sketch = hlls[q].sketch
      <4>1. /\ UNCHANGED <<marshalling, hllBytes, loadedKeys, hllState>>
            /\ \A q \in Keys : \/ hlls'[q] = hlls[q]
                              \/ hlls'[q] = [hlls[q] EXCEPT !.dirty = FALSE, !.count = 0]
        BY <2>1 DEF FlushStart, FlushSnapshot, keyTableVars
      <4>2. \A q \in Keys : hlls[q] \in Entry
        BY DEF TypeOK, HLLTypeOK
      <4>3. QED
        BY <4>1, <4>2 DEF Entry
    <3>2. marshalling \in Keys \cup {NoKey} /\ loadedKeys \subseteq Keys
      BY DEF TypeOK, HLLTypeOK
    <3>3. QED
      BY <3>1, <3>2 DEF SketchCovers
  <2>2. ASSUME NEW k \in Keys, FlushRead(k) PROVE SketchCovers'
    BY <2>2 DEF FlushRead, FlushMarshal, keyTableVars, SketchCovers
  <2>3. ASSUME NEW k \in Keys, NEW ok \in BOOLEAN, FlushWrite(k, ok)
        PROVE  SketchCovers'
    <3>1. /\ marshalling = k /\ marshalling' = NoKey /\ UNCHANGED <<hlls, loadedKeys>>
          /\ \/ hllState' = hllState
             \/ \E bytes \in SUBSET hlls[k].sketch :
                  hllState' = [hllState EXCEPT ![k] = bytes]
      BY <2>3 DEF FlushWrite, FlushExec
    <3>2. loadedKeys \subseteq Keys /\ NoKey \notin loadedKeys
      BY DEF TypeOK, HLLTypeOK
    <3>3. \A q \in loadedKeys : hllState'[q] \subseteq hlls[q].sketch
      BY <3>1, <3>2 DEF SketchCovers, TypeOK, HLLTypeOK
    <3>4. QED
      BY <3>1, <3>2, <3>3 DEF SketchCovers
  <2>4. CASE FlushReturns
    BY <2>4 DEF FlushReturns, FlushEnd, keyTableVars, SketchCovers
  <2>5. QED
    BY <1>5, <2>1, <2>2, <2>3, <2>4 DEF FlushNext
<1>6. CASE UNCHANGED vars
  BY <1>6, SketchStutter DEF vars
<1>7. QED
  BY <1>1, <1>2, <1>3, <1>4, <1>5, <1>6 DEF Next

LEMMA SketchGrows ==
  TypeOK /\ SketchCovers /\ [Next]_vars
    => \A k \in loadedKeys : hllState[k] \subseteq hllState'[k]
<1> SUFFICES ASSUME TypeOK, SketchCovers, [Next]_vars, NEW k \in loadedKeys
             PROVE  hllState[k] \subseteq hllState'[k]
  OBVIOUS
<1>1. CASE \E q \in Keys, ok \in BOOLEAN : FlushWrite(q, ok)
  <2>1. PICK q \in Keys, ok \in BOOLEAN : FlushWrite(q, ok)
    BY <1>1
  <2>2. CASE hllState' = hllState
    BY <2>2
  <2>3. CASE hllState' # hllState
    <3>1. PICK bytes \in SUBSET hlls[q].sketch :
            hllBytes \subseteq bytes /\ hllState' = [hllState EXCEPT ![q] = bytes]
      BY <2>1, <2>3 DEF FlushWrite, FlushExec
    <3>2. marshalling = q /\ k \in Keys
      BY <2>1 DEF FlushWrite, FlushExec, TypeOK, HLLTypeOK
    <3>3. QED
      BY <3>1, <3>2 DEF SketchCovers, TypeOK, HLLTypeOK
  <2>4. QED
    BY <2>2, <2>3
<1>2. CASE ~\E q \in Keys, ok \in BOOLEAN : FlushWrite(q, ok)
  <2>1. hllState' = hllState
    BY <1>2 DEF Next, Build, LoadFromDB, MainNext, Signal, ShutdownReturns, CloseDone,
       StopHLL, StopSignal, CloseDB, Exit, Crash, ProcessEnds, MemoryLost, Accept,
       Refuse, Answer, WriteRequestLog, WriterNext, SelectReceive, DrainReceive, Receive,
       SelectDone, DrainCheck, InsertRow, InsertFails, AddMetadataValue, AddValue,
       ValuesAdded, RegisterMetadataKey, RegisterKey, WriteLogReturns, FlushNext,
       FlushStart, FlushSnapshot, FlushRead, FlushMarshal, FlushReturns, FlushEnd,
       keyTableVars, hllVars, vars
  <2>2. QED
    BY <2>1
<1>3. QED
  BY <1>1, <1>2

(* A flush never replaces a persisted sketch that LoadFromDB restored by   *)
(* one that has forgotten some of its values.                              *)
THEOREM LoadedSketchKept == Spec => LoadedSketchNeverForgets
<1>1. Init => SketchCovers
  BY DEF Init, HLLInit, SketchCovers
<1>2. TypeOK /\ SketchCovers /\ [Next]_vars
        => [\A k \in loadedKeys : hllState[k] \subseteq hllState'[k]]_vars
  BY SketchGrows
<1>3. QED
  BY <1>1, <1>2, TypeInit, TypeStep, HoldsStep, SketchStep, PTL
  DEF Spec, LoadedSketchNeverForgets

-----------------------------------------------------------------------------

(* The receive of the drain loop never blocks.                             *)
THEOREM DrainReceiveEnabled == Spec => []DrainNeverBlocks
<1>1. Init => DrainNeverBlocks
  BY DEF Init, DrainNeverBlocks
<1>2. TypeOK /\ DrainNeverBlocks /\ [Next]_vars => DrainNeverBlocks'
  <2> SUFFICES ASSUME TypeOK, DrainNeverBlocks, [Next]_vars PROVE DrainNeverBlocks'
    OBVIOUS
  <2> USE DEF DrainNeverBlocks
  <2>1. ASSUME UNCHANGED <<writerPC, logChan>> PROVE DrainNeverBlocks'
    BY <2>1
  <2>2. CASE MainNext \/ Crash \/ \E L \in SUBSET Keys : Build(L)
    BY <2>2, <2>1 DEF MainNext, Signal, ShutdownReturns, CloseDone, StopHLL, CloseDB,
       MainStep, Exit, Crash, ProcessEnds, Build
  <2>3. ASSUME NEW r \in Requests,
               Accept(r) \/ Refuse(r) \/ Answer(r) \/ WriteRequestLog(r)
        PROVE  DrainNeverBlocks'
    <3>1. CASE WriteRequestLog(r)
      <4>1. Append(logChan, r) # <<>>
        BY DEF TypeOK
      <4>2. QED
        BY <3>1, <4>1 DEF WriteRequestLog
    <3>2. QED
      BY <2>1, <2>3, <3>1 DEF Accept, Refuse, Answer
  <2>4. CASE WriterNext
    <3>1. CASE DrainCheck
      <4>1. Len(logChan) > 0 => logChan # <<>>
        BY DEF TypeOK
      <4>2. QED
        BY <3>1, <4>1 DEF DrainCheck
    <3>2. CASE ~DrainCheck
      BY <2>1, <2>4, <3>2 DEF WriterNext, SelectReceive, DrainReceive, Receive,
         SelectDone, InsertRow, InsertFails, AddMetadataValue, ValuesAdded,
         RegisterMetadataKey, WriteLogReturns, LoopTop
    <3>3. QED
      BY <3>1, <3>2
  <2>5. CASE FlushNext
    BY <2>1, <2>5 DEF FlushNext, FlushStart, FlushRead, FlushWrite, FlushReturns, pipeVars
  <2>6. CASE UNCHANGED vars
    BY <2>1, <2>6 DEF vars, pipeVars
  <2>7. QED
    BY <2>2, <2>3, <2>4, <2>5, <2>6 DEF Next
<1>3. QED
  BY <1>1, <1>2, TypeInit, TypeStep, HoldsStep, PTL DEF Spec

-----------------------------------------------------------------------------
(* The pipeline implements RequestAccounting.                              *)

AccountingStep == [Accounting!AccountingNext]_(Accounting!accountingVars)

(* A step that moves no request and no fate is a stutter.                  *)
LEMMA AccountingStutter ==
  UNCHANGED <<handler, rows, dropped, failed, vanished>> => AccountingStep
<1> SUFFICES ASSUME UNCHANGED <<handler, rows, dropped, failed, vanished>>
             PROVE  UNCHANGED Accounting!accountingVars
  BY DEF AccountingStep
<1>1. \A r \in Requests : Client(r)' = Client(r) /\ Outcome(r)' = Outcome(r)
  BY DEF Client, Outcome, Ended
<1>2. QED
  BY <1>1 DEF Accounting!accountingVars

(* A step that gives an open log its fate, and touches no other.           *)
LEMMA AccountingSettles ==
  ASSUME NEW r \in Requests, NEW fate \in {"row", "dropped", "failed"},
         handler[r] = "answered", ~Ended(r), handler' = handler,
         Outcome(r)' = fate,
         \A q \in Requests \ {r} : Outcome(q)' = Outcome(q)
  PROVE  AccountingStep
<1>1. Outcome(r) = "open"
  BY DEF Outcome, Ended
<1>2. \A q \in Requests : Client(q)' = Client(q)
  BY DEF Client
<1>3. Accounting!Settle(r, fate)
  BY <1>1, <1>2 DEF Accounting!Settle
<1>4. QED
  BY <1>3 DEF AccountingStep, Accounting!AccountingNext

(* The end of the process: what was open is what was in memory.            *)
LEMMA AccountingLoses ==
  TypeOK /\ WriterHoldsLog /\ OwnerInv /\ ProcessEnds => AccountingStep
<1> SUFFICES ASSUME TypeOK, WriterHoldsLog, OwnerInv, ProcessEnds
             PROVE  AccountingStep
  OBVIOUS
<1> DEFINE serving == {r \in Requests : handler[r] = "serving"}
<1>1. ASSUME NEW r \in Requests
      PROVE  Client(r)' = IF r \in serving THEN "aborted" ELSE Client(r)
  BY DEF ProcessEnds, Client, TypeOK, HandlerState
<1>2. ASSUME NEW r \in Requests
      PROVE  Outcome(r)' = IF Outcome(r) = "open" THEN "vanished" ELSE Outcome(r)
  <2>1. /\ rows' = rows /\ dropped' = dropped /\ failed' = failed
        /\ vanished' = vanished \cup InMemory
        /\ handler'[r] = "answered" <=> handler[r] = "answered"
    BY DEF ProcessEnds, TypeOK
  <2>2. r \in InMemory => handler[r] = "answered" /\ ~Ended(r)
    BY DEF InMemory, OwnerInv, EveryLogHasOneOwner, OneOwner, Holds
  <2>3. handler[r] = "answered" => r \in InMemory \/ Ended(r)
    BY DEF InMemory, OwnerInv, EveryLogHasOneOwner, OneOwner, Holds
  <2>4. CASE r \in InMemory
    BY <2>1, <2>2, <2>4 DEF Outcome, Ended
  <2>5. CASE r \notin InMemory
    BY <2>1, <2>3, <2>5 DEF Outcome, Ended
  <2>6. QED
    BY <2>4, <2>5
<1>3. \A r \in serving : Client(r) = "waiting"
  BY DEF Client
<1>4. Accounting!LoseAll(serving)
  BY <1>1, <1>2, <1>3 DEF Accounting!LoseAll
<1>5. QED
  BY <1>4 DEF AccountingStep, Accounting!AccountingNext

LEMMA AccountingStepHolds ==
  TypeOK /\ WriterHoldsLog /\ OwnerInv /\ [Next]_vars => AccountingStep
<1> SUFFICES ASSUME TypeOK, WriterHoldsLog, OwnerInv, [Next]_vars
             PROVE  AccountingStep
  OBVIOUS
<1>1. ASSUME NEW L \in SUBSET Keys, Build(L) PROVE AccountingStep
  BY <1>1, AccountingStutter DEF Build
<1>2. CASE MainNext \/ Crash
  BY <1>2, AccountingStutter, AccountingLoses DEF MainNext, Signal, ShutdownReturns,
     CloseDone, StopHLL, CloseDB, MainStep, Exit, Crash
<1>3. ASSUME NEW r \in Requests, Accept(r) PROVE AccountingStep
  <2>1. \A q \in Requests : Client(q)' = Client(q) /\ Outcome(q)' = Outcome(q)
    BY <1>3 DEF Accept, Client, Outcome, Ended, TypeOK
  <2>2. QED
    BY <2>1 DEF AccountingStep, Accounting!accountingVars
<1>4. ASSUME NEW r \in Requests, Refuse(r) PROVE AccountingStep
  <2>1. /\ Client(r) = "waiting" /\ Client(r)' = "refused"
        /\ \A q \in Requests \ {r} : Client(q)' = Client(q)
        /\ \A q \in Requests : Outcome(q)' = Outcome(q)
    BY <1>4 DEF Refuse, Client, Outcome, Ended, TypeOK
  <2>2. Accounting!RefuseRequest(r)
    BY <2>1 DEF Accounting!RefuseRequest
  <2>3. QED
    BY <2>2 DEF AccountingStep, Accounting!AccountingNext
<1>5. ASSUME NEW r \in Requests, Answer(r) PROVE AccountingStep
  <2>1. ~Ended(r)
    BY <1>5 DEF Answer, OwnerInv, EveryLogHasOneOwner, OneOwner
  <2>2. /\ Client(r) = "waiting" /\ Client(r)' = "answered" /\ Outcome(r)' = "open"
        /\ \A q \in Requests \ {r} : Client(q)' = Client(q) /\ Outcome(q)' = Outcome(q)
    BY <1>5, <2>1 DEF Answer, Client, Outcome, Ended, TypeOK
  <2>3. Accounting!AnswerRequest(r)
    BY <2>2 DEF Accounting!AnswerRequest
  <2>4. QED
    BY <2>3 DEF AccountingStep, Accounting!AccountingNext
<1>6. ASSUME NEW r \in Requests, WriteRequestLog(r) PROVE AccountingStep
  <2>1. handler[r] = "answered" /\ ~Ended(r)
    BY <1>6 DEF WriteRequestLog, OwnerInv, EveryLogHasOneOwner, OneOwner
  <2>2. CASE Len(logChan) < Cap
    BY <1>6, <2>2, AccountingStutter DEF WriteRequestLog
  <2>3. CASE ~(Len(logChan) < Cap)
    <3>1. /\ dropped' = dropped \cup {r} /\ handler' = handler
          /\ rows' = rows /\ failed' = failed /\ vanished' = vanished
      BY <1>6, <2>3 DEF WriteRequestLog
    <3>2. /\ Outcome(r)' = "dropped"
          /\ \A q \in Requests \ {r} : Outcome(q)' = Outcome(q)
      BY <2>1, <3>1 DEF Outcome, Ended
    <3>3. QED
      BY <2>1, <3>1, <3>2, AccountingSettles
  <2>4. QED
    BY <2>2, <2>3
<1>7. ASSUME writerPC = "insert"
      PROVE  wlog \in Requests /\ handler[wlog] = "answered" /\ ~Ended(wlog)
  <2>1. wlog \in Requests
    BY <1>7 DEF WriterHoldsLog
  <2>2. Holds(wlog)
    BY <1>7 DEF Holds
  <2>3. QED
    BY <1>7, <2>1, <2>2 DEF OwnerInv, EveryLogHasOneOwner, OneOwner
<1>8. CASE WriterNext
  <2>1. CASE InsertRow
    <3>1. /\ rows' = rows \cup {wlog} /\ handler' = handler /\ writerPC = "insert"
          /\ failed' = failed /\ dropped' = dropped /\ vanished' = vanished
      BY <2>1 DEF InsertRow
    <3>2. PICK r \in Requests : r = wlog
      BY <1>7, <3>1
    <3>3. /\ Outcome(r)' = "row"
          /\ \A q \in Requests \ {r} : Outcome(q)' = Outcome(q)
      BY <1>7, <3>1, <3>2 DEF Outcome, Ended
    <3>4. QED
      BY <1>7, <3>1, <3>2, <3>3, AccountingSettles
  <2>2. ASSUME NEW stored \in BOOLEAN, InsertFails(stored) PROVE AccountingStep
    <3>1. /\ rows' = IF stored THEN rows \cup {wlog} ELSE rows
          /\ failed' = failed \cup {wlog}
          /\ handler' = handler /\ writerPC = "insert"
          /\ dropped' = dropped /\ vanished' = vanished
      BY <2>2 DEF InsertFails
    <3>2. PICK r \in Requests : r = wlog
      BY <1>7, <3>1
    <3>3. \A q \in Requests \ {r} : Outcome(q)' = Outcome(q)
      BY <3>1, <3>2 DEF Outcome, Ended
    <3>4. CASE stored
      <4>1. Outcome(r)' = "row"
        BY <3>1, <3>2, <3>4 DEF Outcome, Ended
      <4>2. QED
        BY <1>7, <3>1, <3>2, <3>3, <4>1, AccountingSettles
    <3>5. CASE ~stored
      <4>1. Outcome(r)' = "failed"
        BY <1>7, <3>1, <3>2, <3>5 DEF Outcome, Ended
      <4>2. QED
        BY <1>7, <3>1, <3>2, <3>3, <4>1, AccountingSettles
    <3>6. QED
      BY <3>4, <3>5
  <2>3. QED
    BY <1>8, <2>1, <2>2, AccountingStutter
    DEF WriterNext, SelectReceive, SelectDone, DrainCheck, DrainReceive, Receive,
        AddMetadataValue, ValuesAdded, RegisterMetadataKey, WriteLogReturns
<1>9. CASE FlushNext
  BY <1>9, AccountingStutter
  DEF FlushNext, FlushStart, FlushRead, FlushWrite, FlushReturns, pipeVars
<1>10. CASE UNCHANGED vars
  BY <1>10, AccountingStutter DEF vars, pipeVars
<1>11. QED
  BY <1>1, <1>2, <1>3, <1>4, <1>5, <1>6, <1>8, <1>9, <1>10 DEF Next

(* Handler goroutines, channel, write loop, shutdown, crashes and restarts *)
(* together implement the safety of RequestAccounting: a log is opened     *)
(* with the answer and its fate is settled once.                           *)
THEOREM LogsImplementAccounting == Spec => Accounting!AccountingSafety
<1>1. Init => Accounting!AccountingInit
  BY DEF Init, Accounting!AccountingInit, Client, Outcome, Ended
<1>2. TypeOK /\ WriterHoldsLog /\ OwnerInv /\ [Next]_vars
        => (TypeOK /\ WriterHoldsLog /\ OwnerInv)'
  BY TypeStep, HoldsStep, OwnerStep
<1>3. TypeOK /\ WriterHoldsLog /\ OwnerInv /\ [Next]_vars
        => [Accounting!AccountingNext]_(Accounting!accountingVars)
  BY AccountingStepHolds DEF AccountingStep
<1>4. QED
  BY <1>1, <1>2, <1>3, TypeInit, OwnerInit, PTL DEF Spec, Accounting!AccountingSafety

=============================================================================
