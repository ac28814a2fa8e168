--------------------------- MODULE Resolver_proofs ---------------------------
(***************************************************************************)
(* For every set of keys, settings and callers, every cache size and every *)
(* TTL, the resolver implements KeyAuthority: an answer is at most         *)
(* TTL + MaxLatency old.  The inductive invariant says how old the values  *)
(* in flight and in the cache may be; which entry the LRU cache evicts     *)
(* does not matter.                                                        *)
(***************************************************************************)
EXTENDS Resolver, TLAPS

(* The current row is always in the history of the current tick.           *)
RowSeen == \A h \in Hashes : <<now, row[h]>> \in seen[h]

IInv == StateTypeOK /\ RowSeen /\ ReadIsRecent /\ EntryReflectsRecentState

LEMMA InitIInv == Init => IInv
<1> SUFFICES ASSUME Init PROVE IInv
  OBVIOUS
<1>1. StateTypeOK
  BY ResolverAssumption
     DEF Init, StateTypeOK, Row, Entry, Call, NoEntry, Idle, Authority!NoDecision
<1>2. RowSeen /\ ReadIsRecent /\ EntryReflectsRecentState
  BY DEF Init, RowSeen, ReadIsRecent, EntryReflectsRecentState, NoEntry, Idle
<1> QED
  BY <1>1, <1>2 DEF IInv

LEMMA TickIInv == IInv /\ Tick => IInv'
<1> SUFFICES ASSUME IInv, Tick PROVE IInv'
  OBVIOUS
<1> USE ResolverAssumption
<1>0. /\ now' = now + 1 /\ now < MaxTime
      /\ seen' = [h \in Hashes |-> seen[h] \cup {<<now + 1, row[h]>>}]
      /\ UNCHANGED <<row, decision, cache, recency, call>>
  BY DEF Tick, Authority!Tick
<1>1. StateTypeOK'
  <2>1. now' \in 0..MaxTime
    BY <1>0 DEF IInv, StateTypeOK
  <2>2. seen' \in [Hashes -> SUBSET ((0..MaxTime) \X Row)]
    BY <1>0, <2>1 DEF IInv, StateTypeOK
  <2> QED
    BY <1>0, <2>1, <2>2 DEF IInv, StateTypeOK
<1>2. \A h \in Hashes : seen[h] \subseteq seen'[h]
  BY <1>0
<1>3. ReadIsRecent'
  <2> SUFFICES ASSUME NEW c \in Callers, call[c].pc = "store"
               PROVE  /\ call[c].readAt <= now + 1 /\ now + 1 <= call[c].readAt + MaxLatency
                      /\ <<call[c].readAt, call[c].value>> \in seen'[call[c].hash]
    BY <1>0 DEF ReadIsRecent
  <2>1. call[c].readAt \in Nat /\ call[c].hash \in Hashes /\ now \in Nat
    BY DEF IInv, StateTypeOK, Call
  <2>2. now < call[c].readAt + MaxLatency
    BY DEF Tick
  <2> QED
    BY <1>2, <2>1, <2>2 DEF IInv, ReadIsRecent
<1>4. EntryReflectsRecentState'
  <2> SUFFICES ASSUME NEW h \in Hashes, cache[h].stored
               PROVE  \E t \in 0..(now + 1) : /\ <<t, cache[h].value>> \in seen'[h]
                                              /\ cache[h].expiresAt <= t + TTL + MaxLatency
    BY <1>0 DEF EntryReflectsRecentState
  <2>1. PICK t \in 0..now : /\ <<t, cache[h].value>> \in seen[h]
                            /\ cache[h].expiresAt <= t + TTL + MaxLatency
    BY DEF IInv, EntryReflectsRecentState
  <2>2. t \in 0..(now + 1)
    BY DEF IInv, StateTypeOK
  <2> QED
    BY <1>2, <2>1, <2>2
<1>5. RowSeen'
  BY <1>0 DEF RowSeen
<1> QED
  BY <1>1, <1>3, <1>4, <1>5 DEF IInv

LEMMA KeyTableIInv == IInv /\ KeyTable => IInv'
<1> SUFFICES ASSUME IInv, KeyTable PROVE IInv'
  OBVIOUS
<1>0. PICK k \in Hashes, v \in Row :
        /\ row' = [row EXCEPT ![k] = v]
        /\ seen' = [seen EXCEPT ![k] = @ \cup {<<now, v>>}]
        /\ UNCHANGED <<now, decision, cache, recency, call>>
  BY DEF KeyTable, Authority!CreateAPIKey, Authority!UpdateAPIKey,
         Authority!RevokeAPIKey, Authority!SetRow, Row
<1>1. StateTypeOK'
  BY <1>0 DEF IInv, StateTypeOK
<1>2. \A h \in Hashes : seen[h] \subseteq seen'[h]
  BY <1>0 DEF IInv, StateTypeOK
<1>3. ReadIsRecent'
  BY <1>0, <1>2 DEF IInv, StateTypeOK, ReadIsRecent
<1>4. EntryReflectsRecentState'
  <2> SUFFICES ASSUME NEW h \in Hashes, cache[h].stored
               PROVE  \E t \in 0..now : /\ <<t, cache[h].value>> \in seen'[h]
                                        /\ cache[h].expiresAt <= t + TTL + MaxLatency
    BY <1>0 DEF EntryReflectsRecentState
  <2> QED
    BY <1>2 DEF IInv, EntryReflectsRecentState
<1>5. RowSeen'
  BY <1>0 DEF IInv, StateTypeOK, RowSeen
<1> QED
  BY <1>1, <1>3, <1>4, <1>5 DEF IInv

(* A step of a caller never changes the clock, the table or its history.   *)
(* It leaves entries as they are, forgets them, or stores what it read.    *)
CallerStep(c) ==
  /\ UNCHANGED <<now, row, seen>>
  /\ \A d \in Callers \ {c} : call'[d] = call[d]
  /\ call'[c].pc = "store" =>
       /\ call'[c].readAt = now
       /\ call'[c].hash \in Hashes
       /\ call'[c].value = row[call'[c].hash]
  /\ \A h \in Hashes :
       \/ cache'[h] = cache[h]
       \/ cache'[h] = NoEntry
       \/ /\ call[c].pc = "store" /\ h = call[c].hash
          /\ cache'[h] = [stored |-> TRUE, value |-> call[c].value, expiresAt |-> now + TTL]

LEMMA CallerSteps == ASSUME IInv, NEW c \in Callers, Resolve(c)
                     PROVE  CallerStep(c) /\ StateTypeOK'
<1> USE ResolverAssumption DEF Authority!Decided, Return, Verdict
<1>0. call[c] \in Call /\ (call[c].pc # "idle" => call[c].hash \in Hashes)
  BY DEF IInv, StateTypeOK
<1>1. ASSUME NEW h \in Hashes, CacheHit(c, h)
      PROVE  CallerStep(c) /\ StateTypeOK'
  <2>1. cache[h].value \in Row
    BY DEF IInv, StateTypeOK, Entry
  <2>2. decision' \in [hash : Hashes \cup {NoHash}, verdict : Settings \cup {Refused, Failed}]
    BY <1>1, <2>1 DEF CacheHit
  <2> QED
    BY <1>1, <2>2 DEF CacheHit, CallerStep, IInv, StateTypeOK, Call, Idle, Row
<1>2. ASSUME NEW h \in Hashes, CacheExpired(c, h) \/ CacheMiss(c, h)
      PROVE  CallerStep(c) /\ StateTypeOK'
  <2>1. PICK p \in {"remove", "fetch"} :
          call' = [call EXCEPT ![c] = [pc |-> p, hash |-> h, value |-> Absent, readAt |-> 0]]
    BY <1>2 DEF CacheExpired, CacheMiss, Idle
  <2>2. UNCHANGED <<now, row, seen, decision, cache>>
    BY <1>2 DEF CacheExpired, CacheMiss
  <2> QED
    BY <2>1, <2>2 DEF CallerStep, IInv, StateTypeOK, Call, Row
<1>3. CASE RemoveEntry(c)
  <2>1. cache' \in [Hashes -> Entry]
    BY <1>0, <1>3 DEF RemoveEntry, IInv, StateTypeOK, Entry, NoEntry, Row
  <2> QED
    BY <1>0, <1>3, <2>1 DEF RemoveEntry, CallerStep, IInv, StateTypeOK, Call
<1>4. CASE GetAPIKeyByHash(c)
  BY <1>0, <1>4 DEF GetAPIKeyByHash, CallerStep, IInv, StateTypeOK, Call
<1>5. CASE LookupFails(c)
  BY <1>0, <1>5 DEF LookupFails, CallerStep, IInv, StateTypeOK, Call, Idle, Row
<1>6. CASE StoreAndReturn(c)
  <2> DEFINE k == call[c].hash
             new == [stored |-> TRUE, value |-> call[c].value, expiresAt |-> now + TTL]
  <2>1. k \in Hashes /\ call[c].value \in Row /\ now \in Nat /\ call[c].pc = "store"
    BY <1>0, <1>6 DEF StoreAndReturn, IInv, StateTypeOK, Call
  <2>2. new \in Entry /\ NoEntry \in Entry
    BY <2>1 DEF Entry, NoEntry, Row
  <2>3. \A h \in Hashes : cache'[h] = cache[h] \/ cache'[h] = NoEntry \/ (h = k /\ cache'[h] = new)
    BY <1>6 DEF StoreAndReturn
  <2>4. cache' \in [Hashes -> Entry]
    <3>1. cache' = [h \in Hashes |-> cache'[h]]
      BY <1>6 DEF StoreAndReturn
    <3>2. \A h \in Hashes : cache'[h] \in Entry
      BY <2>2, <2>3 DEF IInv, StateTypeOK
    <3> QED
      BY <3>1, <3>2
  <2>5. decision' \in [hash : Hashes \cup {NoHash}, verdict : Settings \cup {Refused, Failed}]
    BY <1>6, <2>1 DEF StoreAndReturn
  <2>6. UNCHANGED <<now, row, seen>> /\ call' = [call EXCEPT ![c] = Idle]
    BY <1>6 DEF StoreAndReturn
  <2>7. CallerStep(c)
    BY <2>1, <2>3, <2>6 DEF CallerStep, IInv, StateTypeOK, Idle
  <2> QED
    BY <2>4, <2>5, <2>6, <2>7 DEF IInv, StateTypeOK, Call, Idle, Row
<1> QED
  BY <1>1, <1>2, <1>3, <1>4, <1>5, <1>6 DEF Resolve

LEMMA ResolveIInv == ASSUME IInv, NEW c \in Callers, Resolve(c)
                     PROVE  IInv'
<1> USE ResolverAssumption
<1>1. CallerStep(c) /\ StateTypeOK'
  BY CallerSteps
<1>2. RowSeen'
  BY <1>1 DEF CallerStep, IInv, RowSeen
<1>3. ReadIsRecent'
  <2> SUFFICES ASSUME NEW d \in Callers, call'[d].pc = "store"
               PROVE  /\ call'[d].readAt <= now /\ now <= call'[d].readAt + MaxLatency
                      /\ <<call'[d].readAt, call'[d].value>> \in seen[call'[d].hash]
    BY <1>1 DEF ReadIsRecent, CallerStep
  <2>1. CASE d = c
    BY <1>1, <2>1 DEF CallerStep, IInv, RowSeen, StateTypeOK
  <2>2. CASE d # c
    BY <1>1, <2>2 DEF CallerStep, IInv, ReadIsRecent
  <2> QED
    BY <2>1, <2>2
<1>4. EntryReflectsRecentState'
  <2> SUFFICES ASSUME NEW h \in Hashes, cache'[h].stored
               PROVE  \E t \in 0..now : /\ <<t, cache'[h].value>> \in seen[h]
                                        /\ cache'[h].expiresAt <= t + TTL + MaxLatency
    BY <1>1 DEF EntryReflectsRecentState, CallerStep
  <2>1. CASE cache'[h] = cache[h]
    BY <2>1 DEF IInv, EntryReflectsRecentState
  <2>2. CASE cache'[h] = NoEntry
    BY <2>2 DEF NoEntry
  <2>3. CASE /\ call[c].pc = "store" /\ h = call[c].hash
             /\ cache'[h] = [stored |-> TRUE, value |-> call[c].value, expiresAt |-> now + TTL]
    <3>1. /\ call[c].readAt <= now /\ now <= call[c].readAt + MaxLatency
          /\ <<call[c].readAt, call[c].value>> \in seen[h]
      BY <2>3 DEF IInv, ReadIsRecent
    <3>2. call[c].readAt \in Nat /\ now \in Nat
      BY DEF IInv, StateTypeOK, Call
    <3> QED
      BY <2>3, <3>1, <3>2
  <2> QED
    BY <1>1, <2>1, <2>2, <2>3 DEF CallerStep
<1> QED
  BY <1>1, <1>2, <1>3, <1>4 DEF IInv

LEMMA NextIInv == IInv /\ [Next]_vars => IInv'
<1> SUFFICES ASSUME IInv, [Next]_vars PROVE IInv'
  OBVIOUS
<1>1. CASE UNCHANGED vars
  BY <1>1 DEF vars, IInv, StateTypeOK, RowSeen, ReadIsRecent, EntryReflectsRecentState
<1> QED
  BY <1>1, TickIInv, KeyTableIInv, ResolveIInv DEF Next

(* Every answer the resolver gives is one the abstract specification may   *)
(* give, and every other step of it is a stutter there.                    *)
LEMMA StepRefines == IInv /\ [Next]_vars
                       => [Authority!AuthorityNext]_(Authority!authorityVars)
<1> USE ResolverAssumption
<1> SUFFICES ASSUME IInv, [Next]_vars
             PROVE  [Authority!AuthorityNext]_(Authority!authorityVars)
  OBVIOUS
<1>1. CASE UNCHANGED vars
  BY <1>1 DEF vars, Authority!authorityVars
<1>2. CASE Tick
  BY <1>2 DEF Tick, Authority!AuthorityNext
<1>3. CASE KeyTable
  BY <1>3 DEF KeyTable, Authority!AuthorityNext, Authority!KeyTable
<1>4. ASSUME NEW c \in Callers, Resolve(c)
      PROVE  [Authority!AuthorityNext]_(Authority!authorityVars)
  <2>1. ASSUME NEW h \in Hashes, CacheHit(c, h)
        PROVE  Authority!AuthorityNext
    <3>1. PICK t \in 0..now : /\ <<t, cache[h].value>> \in seen[h]
                              /\ cache[h].expiresAt <= t + TTL + MaxLatency
      BY <2>1 DEF CacheHit, IInv, EntryReflectsRecentState
    <3>2. /\ cache[h].expiresAt \in Nat /\ cache[h].value \in Row
          /\ now \in 0..MaxTime /\ now <= cache[h].expiresAt
      BY <2>1 DEF CacheHit, Expired, IInv, StateTypeOK, Entry
    <3>3. cache[h].value \in Authority!Recent(h)
      BY <3>1, <3>2 DEF Authority!Recent, Authority!Row, Authority!Time, Row
    <3> QED
      BY <2>1, <3>3 DEF CacheHit, Return, Verdict, Authority!Verdict, Authority!Decide,
                        Authority!AuthorityNext
  <2>2. ASSUME NEW h \in Hashes, CacheExpired(c, h) \/ CacheMiss(c, h)
        PROVE  UNCHANGED Authority!authorityVars
    BY <2>2 DEF CacheExpired, CacheMiss, Authority!authorityVars
  <2>3. CASE RemoveEntry(c) \/ GetAPIKeyByHash(c)
    BY <2>3 DEF RemoveEntry, GetAPIKeyByHash, Authority!authorityVars
  <2>4. CASE LookupFails(c)
    <3>1. call[c].hash \in Hashes
      BY <2>4 DEF LookupFails, IInv, StateTypeOK
    <3> QED
      BY <2>4, <3>1 DEF LookupFails, Return, Authority!DecideFailed, Authority!AuthorityNext
  <2>5. CASE StoreAndReturn(c)
    <3> DEFINE k == call[c].hash
    <3>1. /\ k \in Hashes /\ call[c].value \in Row /\ call[c].readAt \in Nat
          /\ now \in 0..MaxTime
      BY <2>5 DEF StoreAndReturn, IInv, StateTypeOK, Call
    <3>2. /\ call[c].readAt <= now /\ now <= call[c].readAt + MaxLatency
          /\ <<call[c].readAt, call[c].value>> \in seen[k]
      BY <2>5 DEF StoreAndReturn, IInv, ReadIsRecent
    <3>3. call[c].value \in Authority!Recent(k)
      BY <3>1, <3>2 DEF Authority!Recent, Authority!Row, Authority!Time, Row
    <3> QED
      BY <2>5, <3>1, <3>3 DEF StoreAndReturn, Return, Verdict, Authority!Verdict,
         Authority!Decide, Authority!AuthorityNext
  <2> QED
    BY <1>4, <2>1, <2>2, <2>3, <2>4, <2>5 DEF Resolve
<1> QED
  BY <1>1, <1>2, <1>3, <1>4 DEF Next

(* The resolver implements its abstract specification: every answer is     *)
(* what the row of the key said at most TTL + MaxLatency ago, or a refusal *)
(* because the database failed, for every TTL and every cache size.        *)
THEOREM ResolverImplementsAuthority == Spec => AnswersAreRecent
<1>1. Init => Authority!AuthorityInit
  BY DEF Init, Authority!AuthorityInit
<1>2. Spec => []IInv
  BY InitIInv, NextIInv, PTL DEF Spec
<1> QED
  BY <1>1, <1>2, StepRefines, PTL DEF Spec, AnswersAreRecent, Authority!AuthoritySpec

(* An entry of the cache was true of its key at most MaxLatency before the *)
(* start of its TTL, whatever the order of lookups, stores and evictions.  *)
THEOREM EntriesReflectRecentState == Spec => [](ReadIsRecent /\ EntryReflectsRecentState)
<1> QED
  BY InitIInv, NextIInv, PTL DEF Spec, IInv

-----------------------------------------------------------------------------
(* A value says the truth about a key for ever if it gives access, or the  *)
(* key is revoked or was never issued: no row goes back to active.         *)
Honest(h, v) == v \in Settings \/ h \in Junk \/ row[h] = Revoked

(* Nobody looks up a key before it is issued, so that what a caller has    *)
(* read and what the cache holds is honest.                                *)
CallHonest(c) ==
  /\ call[c].pc # "idle" => Known(call[c].hash)
  /\ call[c].pc = "store" => Honest(call[c].hash, call[c].value)
DecisionHonest ==
  decision.hash # NoHash =>
    /\ decision.hash \in Hashes
    /\ decision.verdict = Refused => Honest(decision.hash, Absent)
HInv ==
  /\ \A c \in Callers : CallHonest(c)
  /\ \A h \in Hashes : cache[h].stored => Honest(h, cache[h].value)
  /\ DecisionHonest

LEMMA InitHInv == Init => HInv
  BY DEF Init, HInv, CallHonest, DecisionHonest, Idle, NoEntry, Authority!NoDecision

(* The table only issues keys and revokes or changes active ones.          *)
LEMMA RowsStayHonest ==
  ASSUME IInv, KeyTable, NEW h \in Hashes
  PROVE  /\ row[h] # Absent => row'[h] # Absent
         /\ row[h] = Revoked => row'[h] = Revoked
<1> USE ResolverAssumption DEF Authority!SetRow
<1>1. PICK k \in Hashes \ Junk :
        Authority!CreateAPIKey(k) \/ Authority!UpdateAPIKey(k) \/ Authority!RevokeAPIKey(k)
  BY DEF KeyTable
<1>2. row \in [Hashes -> Row]
  BY DEF IInv, StateTypeOK
<1>3. CASE Authority!CreateAPIKey(k)
  BY <1>2, <1>3 DEF Authority!CreateAPIKey
<1>4. CASE Authority!UpdateAPIKey(k)
  BY <1>2, <1>4 DEF Authority!UpdateAPIKey
<1>5. CASE Authority!RevokeAPIKey(k)
  BY <1>2, <1>5 DEF Authority!RevokeAPIKey
<1> QED
  BY <1>1, <1>3, <1>4, <1>5

LEMMA KeyTableHInv == IInv /\ HInv /\ KeyTable => HInv'
<1> SUFFICES ASSUME IInv, HInv, KeyTable PROVE HInv'
  OBVIOUS
<1>1. UNCHANGED <<decision, cache, recency, call>>
  BY DEF KeyTable, Authority!CreateAPIKey, Authority!UpdateAPIKey,
         Authority!RevokeAPIKey, Authority!SetRow
<1>2. \A c \in Callers : call[c].pc # "idle" => call[c].hash \in Hashes
  BY DEF IInv, StateTypeOK
<1>3. \A c \in Callers : CallHonest(c)'
  BY <1>1, <1>2, RowsStayHonest DEF HInv, CallHonest, Known, Honest
<1>4. \A h \in Hashes : cache'[h].stored => Honest(h, cache[h].value)'
  BY <1>1, RowsStayHonest DEF HInv, Honest
<1>5. DecisionHonest'
  BY <1>1, RowsStayHonest DEF HInv, DecisionHonest, Honest
<1> QED
  BY <1>3, <1>4, <1>5 DEF HInv

(* A verdict on an honest value is honest.                                 *)
LEMMA VerdictHonest ==
  ASSUME NEW h \in Hashes, NEW v, Honest(h, v), Verdict(v) = Refused
  PROVE  Honest(h, Absent)
  BY ResolverAssumption DEF Honest, Verdict

(* What a step of a caller does to its own call.                           *)
LEMMA OwnCall ==
  ASSUME IInv, NEW c \in Callers, Resolve(c)
  PROVE  \/ call'[c].pc = "idle"
         \/ \E h \in Hashes : /\ call'[c].pc \in {"remove", "fetch"}
                              /\ call'[c].hash = h /\ Known(h)
         \/ /\ call[c].pc # "idle" /\ call'[c].hash = call[c].hash
            /\ call'[c].pc = "store" => call'[c].value = row[call[c].hash]
<1> USE ResolverAssumption
<1>1. call \in [Callers -> Call]
  BY DEF IInv, StateTypeOK
<1>2. ASSUME NEW h \in Hashes, CacheHit(c, h) PROVE call'[c].pc = "idle"
  BY <1>1, <1>2 DEF CacheHit, Return, Idle
<1>3. ASSUME NEW h \in Hashes, CacheExpired(c, h) \/ CacheMiss(c, h)
      PROVE  call'[c].hash = h /\ call'[c].pc \in {"remove", "fetch"} /\ Known(h)
  <2>1. PICK p \in {"remove", "fetch"} :
          call' = [call EXCEPT ![c] = [pc |-> p, hash |-> h, value |-> Absent, readAt |-> 0]]
    BY <1>3 DEF CacheExpired, CacheMiss, Idle
  <2>2. Known(h)
    BY <1>3 DEF CacheExpired, CacheMiss
  <2> QED
    BY <1>1, <2>1, <2>2
<1>4. ASSUME RemoveEntry(c)
      PROVE  call[c].pc # "idle" /\ call'[c].pc = "fetch" /\ call'[c].hash = call[c].hash
  BY <1>1, <1>4 DEF RemoveEntry, Call
<1>5. ASSUME GetAPIKeyByHash(c)
      PROVE  /\ call[c].pc # "idle" /\ call'[c].hash = call[c].hash
             /\ call'[c].value = row[call[c].hash]
  BY <1>1, <1>5 DEF GetAPIKeyByHash
<1>6. ASSUME LookupFails(c) PROVE call'[c].pc = "idle"
  BY <1>1, <1>6 DEF LookupFails, Return, Idle
<1>7. ASSUME StoreAndReturn(c) PROVE call'[c].pc = "idle"
  <2>1. call' = [call EXCEPT ![c] = Idle]
    BY <1>7 DEF StoreAndReturn, Return
  <2> QED
    BY <1>1, <2>1 DEF Idle
<1> QED
  BY <1>2, <1>3, <1>4, <1>5, <1>6, <1>7 DEF Resolve

(* The answer a step of a caller gives.                                    *)
LEMMA OwnAnswer ==
  ASSUME IInv, HInv, NEW c \in Callers, Resolve(c)
  PROVE  \/ UNCHANGED decision
         \/ \E h \in Hashes, v \in Settings \cup {Refused, Failed} :
              /\ decision' = [hash |-> h, verdict |-> v]
              /\ v = Refused => Honest(h, Absent)
<1> USE ResolverAssumption
<1>1. ASSUME NEW h \in Hashes, CacheHit(c, h)
      PROVE  /\ decision' = [hash |-> h, verdict |-> Verdict(cache[h].value)]
             /\ Verdict(cache[h].value) = Refused => Honest(h, Absent)
  <2>1. Honest(h, cache[h].value)
    BY <1>1 DEF CacheHit, HInv
  <2> QED
    BY <1>1, <2>1, VerdictHonest DEF CacheHit, Return, Authority!Decided
<1>2. ASSUME NEW h \in Hashes, CacheExpired(c, h) \/ CacheMiss(c, h) PROVE UNCHANGED decision
  BY <1>2 DEF CacheExpired, CacheMiss
<1>3. RemoveEntry(c) \/ GetAPIKeyByHash(c) => UNCHANGED decision
  BY DEF RemoveEntry, GetAPIKeyByHash
<1>4. LookupFails(c) => /\ call[c].hash \in Hashes
                        /\ decision' = [hash |-> call[c].hash, verdict |-> Failed]
  BY DEF LookupFails, Return, Authority!Decided, IInv, StateTypeOK
<1>5. ASSUME StoreAndReturn(c)
      PROVE  /\ call[c].hash \in Hashes
             /\ decision' = [hash |-> call[c].hash, verdict |-> Verdict(call[c].value)]
             /\ Verdict(call[c].value) = Refused => Honest(call[c].hash, Absent)
  <2>1. call[c].hash \in Hashes /\ Honest(call[c].hash, call[c].value)
    BY <1>5 DEF StoreAndReturn, HInv, CallHonest, IInv, StateTypeOK
  <2> QED
    BY <1>5, <2>1, VerdictHonest DEF StoreAndReturn, Return, Authority!Decided
<1>6. \A v : Verdict(v) \in Settings \cup {Refused, Failed}
  BY DEF Verdict
<1>7. CASE \E h \in Hashes : CacheHit(c, h)
  BY <1>1, <1>6, <1>7
<1>8. CASE LookupFails(c)
  BY <1>4, <1>8
<1>9. CASE StoreAndReturn(c)
  BY <1>5, <1>6, <1>9
<1> QED
  BY <1>2, <1>3, <1>7, <1>8, <1>9 DEF Resolve

LEMMA ResolveHInv ==
  ASSUME IInv, HInv, NEW c \in Callers, Resolve(c)
  PROVE  HInv'
<1> USE ResolverAssumption
<1>0. /\ UNCHANGED row /\ CallerStep(c)
      /\ row \in [Hashes -> Row]
      /\ \A d \in Callers : call[d].pc # "idle" => call[d].hash \in Hashes
  BY CallerSteps DEF CallerStep, IInv, StateTypeOK
<1>1. ASSUME NEW h \in Hashes, cache'[h].stored PROVE Honest(h, cache'[h].value)
  <2>1. \/ cache'[h] = cache[h]
        \/ cache'[h] = NoEntry
        \/ /\ call[c].pc = "store" /\ h = call[c].hash
           /\ cache'[h] = [stored |-> TRUE, value |-> call[c].value, expiresAt |-> now + TTL]
    BY <1>0 DEF CallerStep
  <2> QED
    BY <1>1, <2>1 DEF HInv, CallHonest, NoEntry
<1>2. ASSUME NEW d \in Callers
      PROVE  /\ call'[d].pc # "idle" => Known(call'[d].hash)
             /\ call'[d].pc = "store" => Honest(call'[d].hash, call'[d].value)
  <2>1. CASE d # c
    BY <1>0, <2>1 DEF CallerStep, HInv, CallHonest
  <2>2. CASE call[c].pc # "idle" /\ call'[c].hash = call[c].hash
             /\ (call'[c].pc = "store" => call'[c].value = row[call[c].hash])
    <3>1. Known(call[c].hash) /\ row[call[c].hash] \in Row
      BY <1>0, <2>2 DEF HInv, CallHonest
    <3>2. Honest(call[c].hash, row[call[c].hash])
      BY <3>1 DEF Known, Honest, Row
    <3> QED
      BY <2>1, <2>2, <3>1, <3>2
  <2> QED
    BY <2>1, <2>2, OwnCall
<1>3. \A d \in Callers : CallHonest(d)'
  BY <1>0, <1>2 DEF CallHonest, Known, Honest
<1>4. DecisionHonest'
  <2>1. CASE UNCHANGED decision
    BY <1>0, <2>1 DEF HInv, DecisionHonest, Honest
  <2>2. CASE \E h \in Hashes, v \in Settings \cup {Refused, Failed} :
               /\ decision' = [hash |-> h, verdict |-> v]
               /\ v = Refused => Honest(h, Absent)
    BY <1>0, <2>2 DEF DecisionHonest, Honest
  <2> QED
    BY <2>1, <2>2, OwnAnswer
<1>5. \A h \in Hashes : cache'[h].stored => Honest(h, cache[h].value)'
  BY <1>0, <1>1 DEF Honest
<1> QED
  BY <1>3, <1>4, <1>5 DEF HInv

LEMMA NextHInv == IInv /\ HInv /\ [Next]_vars => HInv'
<1> SUFFICES ASSUME IInv, HInv, [Next]_vars PROVE HInv'
  OBVIOUS
<1>1. CASE Tick
  BY <1>1 DEF Tick, Authority!Tick, HInv, CallHonest, DecisionHonest, Known, Honest
<1>2. CASE UNCHANGED vars
  BY <1>2 DEF vars, HInv, CallHonest, DecisionHonest, Known, Honest
<1> QED
  BY <1>1, <1>2, KeyTableHInv, ResolveHInv DEF Next

(* No active key is turned away: see NoFalseRefusal (resolver.go:49-115).  *)
THEOREM NeverRefusedFalsely == Spec => []NoFalseRefusal
<1>1. HInv => NoFalseRefusal
  BY ResolverAssumption DEF HInv, DecisionHonest, Honest, NoFalseRefusal
<1> QED
  BY <1>1, InitIInv, NextIInv, InitHInv, NextHInv, PTL DEF Spec

-----------------------------------------------------------------------------
(* The order of use lists each entry of the cache once.                    *)
Holds(s, x) == \E i \in DOMAIN s : s[i] = x
Distinct(s) == \A i, j \in DOMAIN s : s[i] = s[j] => i = j
LruOK ==
  /\ recency \in Seq(Hashes) /\ Len(recency) <= CacheSize
  /\ \A h \in Hashes : cache[h].stored <=> Holds(recency, h)
  /\ Distinct(recency)

(* Unlinking an element leaves the others, in a list that is one shorter.  *)
LEMMA WithoutUnlinks ==
  ASSUME NEW S, NEW s \in Seq(S), Distinct(s), NEW h
  PROVE  /\ Without(s, h) \in Seq(S)
         /\ Len(Without(s, h)) = IF Holds(s, h) THEN Len(s) - 1 ELSE Len(s)
         /\ Distinct(Without(s, h))
         /\ \A x : Holds(Without(s, h), x) <=> x # h /\ Holds(s, x)
<1>1. CASE ~Holds(s, h)
  BY <1>1 DEF Without, Holds
<1>2. CASE Holds(s, h)
  <2> DEFINE k == CHOOSE i \in DOMAIN s : s[i] = h
             w == Without(s, h)
  <2>1. k \in 1..Len(s) /\ s[k] = h
    BY <1>2 DEF Holds
  <2>2. w = SubSeq(s, 1, k - 1) \o SubSeq(s, k + 1, Len(s))
    BY <1>2 DEF Without, Holds
  <2> HIDE DEF k, w
  <2> DEFINE a == SubSeq(s, 1, k - 1)
             b == SubSeq(s, k + 1, Len(s))
  <2>3. /\ a \in Seq(S) /\ Len(a) = k - 1
        /\ \A i \in 1..(k - 1) : a[i] = s[i]
    BY <2>1
  <2>4. /\ b \in Seq(S) /\ Len(b) = Len(s) - k
        /\ \A i \in 1..(Len(s) - k) : b[i] = s[k + i]
    BY <2>1
  <2>5. w = a \o b
    BY <2>2
  <2> HIDE DEF a, b
  <2>6. w \in Seq(S) /\ Len(w) = Len(s) - 1
    BY <2>1, <2>3, <2>4, <2>5
  <2>7. \A i \in 1..Len(w) : w[i] = IF i < k THEN s[i] ELSE s[i + 1]
    <3> SUFFICES ASSUME NEW i \in 1..Len(w) PROVE w[i] = IF i < k THEN s[i] ELSE s[i + 1]
      OBVIOUS
    <3>1. w[i] = IF i <= Len(a) THEN a[i] ELSE b[i - Len(a)]
      BY <2>1, <2>6, <2>3, <2>4, <2>5
    <3>2. CASE i < k
      BY <2>1, <2>3, <3>1, <3>2
    <3>3. CASE i >= k
      <4>1. i - (k - 1) \in 1..(Len(s) - k) /\ i > Len(a) /\ k + (i - (k - 1)) = i + 1
        BY <2>1, <2>6, <2>3, <3>3
      <4>2. w[i] = b[i - (k - 1)]
        BY <2>3, <3>1, <4>1
      <4>3. b[i - (k - 1)] = s[k + (i - (k - 1))]
        BY <2>4, <4>1
      <4> QED
        BY <2>1, <3>3, <4>1, <4>2, <4>3
    <3> QED
      BY <2>1, <2>6, <3>2, <3>3
  <2>8. Distinct(w)
    <3> SUFFICES ASSUME NEW i \in 1..Len(w), NEW j \in 1..Len(w), w[i] = w[j] PROVE i = j
      BY <2>6 DEF Distinct
    <3> DEFINE at(m) == IF m < k THEN m ELSE m + 1
    <3>1. at(i) \in DOMAIN s /\ at(j) \in DOMAIN s /\ s[at(i)] = s[at(j)]
      BY <2>1, <2>6, <2>7
    <3>2. at(i) = at(j)
      BY <3>1 DEF Distinct
    <3> QED
      BY <2>1, <2>6, <3>2
  <2>9. ASSUME NEW x, Holds(w, x) PROVE x # h /\ Holds(s, x)
    BY <2>1, <2>6, <2>7, <2>9 DEF Distinct, Holds
  <2>10. ASSUME NEW x, x # h, Holds(s, x) PROVE Holds(w, x)
    <3>1. PICK i \in 1..Len(s) : s[i] = x
      BY <2>10 DEF Holds
    <3>2. CASE i < k
      BY <2>1, <2>6, <2>7, <3>1, <3>2 DEF Holds
    <3>3. CASE i > k
      <4>1. i - 1 \in 1..Len(w) /\ w[i - 1] = s[i]
        BY <2>1, <2>6, <2>7, <3>1, <3>3
      <4> QED
        BY <3>1, <4>1, <2>6 DEF Holds
    <3> QED
      BY <2>1, <2>10, <3>1, <3>2, <3>3
  <2> QED
    BY <1>2, <2>6, <2>8, <2>9, <2>10 DEF w
<1> QED
  BY <1>1, <1>2

(* Putting an element in front of a list that lacks it.                    *)
LEMMA InFront ==
  ASSUME NEW S, NEW s \in Seq(S), Distinct(s), NEW h \in S, ~Holds(s, h)
  PROVE  /\ <<h>> \o s \in Seq(S) /\ Len(<<h>> \o s) = Len(s) + 1
         /\ Distinct(<<h>> \o s)
         /\ \A x : Holds(<<h>> \o s, x) <=> x = h \/ Holds(s, x)
<1> DEFINE f == <<h>> \o s
<1>1. f \in Seq(S) /\ Len(f) = Len(s) + 1
  OBVIOUS
<1>2. f[1] = h /\ \A i \in 2..Len(f) : f[i] = s[i - 1]
  OBVIOUS
<1>3. \A i \in 1..Len(s) : f[i + 1] = s[i]
  OBVIOUS
<1> HIDE DEF f
<1>4. Distinct(f)
  <2>1. ASSUME NEW i \in 2..Len(f) PROVE i - 1 \in 1..Len(s) /\ f[i] = s[i - 1] /\ f[i] # h
    <3>1. i - 1 \in 1..Len(s) /\ f[i] = s[i - 1]
      BY <1>1, <1>2
    <3> QED
      BY <3>1 DEF Holds
  <2>2. ASSUME NEW i \in 1..Len(f), NEW j \in 1..Len(f), f[i] = f[j] PROVE i = j
    <3>1. CASE i = 1 \/ j = 1
      <4>1. i \in 2..Len(f) => f[i] # h
        BY <2>1
      <4>2. j \in 2..Len(f) => f[j] # h
        BY <2>1
      <4> QED
        BY <1>1, <1>2, <2>2, <3>1, <4>1, <4>2
    <3>2. CASE i # 1 /\ j # 1
      <4>1. i \in 2..Len(f) /\ j \in 2..Len(f)
        BY <1>1, <3>2
      <4>2. i - 1 \in 1..Len(s) /\ j - 1 \in 1..Len(s) /\ s[i - 1] = s[j - 1]
        BY <2>1, <2>2, <4>1
      <4>3. i - 1 = j - 1
        BY <4>2 DEF Distinct
      <4> QED
        BY <4>1, <4>3
    <3> QED
      BY <3>1, <3>2
  <2>3. DOMAIN f = 1..Len(f)
    BY <1>1
  <2> QED
    BY <2>2, <2>3 DEF Distinct
<1>5. ASSUME NEW x, Holds(f, x) PROVE x = h \/ Holds(s, x)
  BY <1>1, <1>2, <1>5 DEF Holds
<1>6. ASSUME NEW x, x = h \/ Holds(s, x) PROVE Holds(f, x)
  BY <1>1, <1>2, <1>3, <1>6 DEF Holds
<1> QED
  BY <1>1, <1>4, <1>5, <1>6 DEF f

(* The list of a used entry: it moves to the front.                        *)
LEMMA UseKeepsLru ==
  ASSUME LruOK, NEW h \in Hashes, cache[h].stored,
         recency' = <<h>> \o Without(recency, h),
         \A k \in Hashes : cache'[k].stored <=> cache[k].stored
  PROVE  LruOK'
<1>1. Holds(recency, h)
  BY DEF LruOK
<1>2. /\ Without(recency, h) \in Seq(Hashes) /\ Len(Without(recency, h)) = Len(recency) - 1
      /\ Distinct(Without(recency, h))
      /\ \A x : Holds(Without(recency, h), x) <=> x # h /\ Holds(recency, x)
  BY <1>1, WithoutUnlinks DEF LruOK
<1>3. /\ recency' \in Seq(Hashes) /\ Len(recency') = Len(Without(recency, h)) + 1
      /\ Distinct(recency')
      /\ \A x : Holds(recency', x) <=> x = h \/ Holds(Without(recency, h), x)
  BY <1>2, InFront
<1>4. \A x : Holds(recency', x) <=> Holds(recency, x)
  BY <1>1, <1>2, <1>3
<1>5. Len(recency') = Len(recency)
  BY <1>2, <1>3 DEF LruOK
<1>6. Distinct(recency)'
  BY <1>3 DEF Distinct
<1>7. \A k \in Hashes : cache'[k].stored <=> Holds(recency', k)
  BY <1>4 DEF LruOK
<1>8. \A k \in Hashes : Holds(recency', k) <=> Holds(recency, k)'
  BY DEF Holds
<1>9. Len(recency') <= CacheSize
  BY <1>5 DEF LruOK
<1> QED
  BY <1>3, <1>6, <1>7, <1>8, <1>9 DEF LruOK

LEMMA RemoveKeepsLru ==
  ASSUME IInv, LruOK, NEW c \in Callers, RemoveEntry(c)
  PROVE  LruOK'
<1> DEFINE h == call[c].hash
<1>1. h \in Hashes /\ cache' = [cache EXCEPT ![h] = NoEntry]
      /\ recency' = Without(recency, h) /\ cache \in [Hashes -> Entry]
  BY DEF RemoveEntry, IInv, StateTypeOK
<1>2. \A k \in Hashes : cache'[k].stored <=> k # h /\ cache[k].stored
  BY <1>1 DEF NoEntry
<1> HIDE DEF h
<1>3. /\ recency' \in Seq(Hashes) /\ Len(recency') <= Len(recency)
      /\ Distinct(recency')
      /\ \A x : Holds(recency', x) <=> x # h /\ Holds(recency, x)
  BY <1>1, WithoutUnlinks DEF LruOK
<1>4. Distinct(recency)'
  BY <1>3 DEF Distinct
<1>5. \A k \in Hashes : cache'[k].stored <=> Holds(recency, k)'
  BY <1>2, <1>3 DEF LruOK, Holds
<1>6. Len(recency') <= CacheSize
  BY <1>3, ResolverAssumption DEF LruOK
<1> QED
  BY <1>3, <1>4, <1>5, <1>6 DEF LruOK

(* Storing puts the key in front; if that is one entry too many, the last  *)
(* of the others goes.                                                     *)
LEMMA StoreKeepsLru ==
  ASSUME IInv, LruOK, NEW c \in Callers, StoreAndReturn(c)
  PROVE  LruOK'
<1> USE ResolverAssumption
<1> DEFINE k == call[c].hash
           o == Others(k)
<1>1. /\ k \in Hashes /\ recency' = <<k>> \o Kept(k)
      /\ \A h \in Hashes : cache'[h].stored <=> h = k \/ (h \notin Evicted(k) /\ cache[h].stored)
  BY DEF StoreAndReturn, IInv, StateTypeOK, NoEntry
<1> HIDE DEF k
<1>2. /\ o \in Seq(Hashes) /\ Len(o) <= CacheSize
      /\ Distinct(o)
      /\ \A x : Holds(o, x) <=> x # k /\ Holds(recency, x)
  BY WithoutUnlinks DEF LruOK, Others
<1> HIDE DEF o
<1>3. /\ Kept(k) \in Seq(Hashes) /\ Len(Kept(k)) <= CacheSize - 1
      /\ Distinct(Kept(k))
      /\ \A x : Holds(Kept(k), x) <=> x \notin Evicted(k) /\ Holds(o, x)
  <2>1. CASE Full(k)
    <3>1. Len(o) = CacheSize /\ Kept(k) = SubSeq(o, 1, CacheSize - 1) /\ Evicted(k) = {o[CacheSize]}
      BY <2>1 DEF Full, Kept, Evicted, o
    <3>2. /\ Kept(k) \in Seq(Hashes) /\ Len(Kept(k)) = CacheSize - 1
          /\ \A i \in 1..(CacheSize - 1) : Kept(k)[i] = o[i]
      BY <1>2, <3>1
    <3>3. DOMAIN Kept(k) = 1..(CacheSize - 1) /\ DOMAIN o = 1..CacheSize
      BY <1>2, <3>1, <3>2
    <3>4. Distinct(Kept(k))
      BY <1>2, <3>2, <3>3 DEF Distinct
    <3>5. \A x : Holds(Kept(k), x) <=> x # o[CacheSize] /\ Holds(o, x)
      <4>1. ASSUME NEW x, Holds(Kept(k), x) PROVE x # o[CacheSize] /\ Holds(o, x)
        BY <1>2, <3>2, <3>3, <4>1 DEF Distinct, Holds
      <4>2. ASSUME NEW x, x # o[CacheSize], Holds(o, x) PROVE Holds(Kept(k), x)
        <5>1. PICK i \in 1..CacheSize : o[i] = x
          BY <3>3, <4>2 DEF Holds
        <5>2. i \in 1..(CacheSize - 1)
          BY <4>2, <5>1
        <5> QED
          BY <3>2, <3>3, <5>1, <5>2 DEF Holds
      <4> QED
        BY <4>1, <4>2
    <3> QED
      BY <3>1, <3>2, <3>4, <3>5
  <2>2. CASE ~Full(k)
    BY <1>2, <2>2 DEF Full, Kept, Evicted, o
  <2> QED
    BY <2>1, <2>2
<1>4. ~Holds(Kept(k), k)
  BY <1>2, <1>3
<1>5. /\ recency' \in Seq(Hashes) /\ Len(recency') = Len(Kept(k)) + 1
      /\ Distinct(recency')
      /\ \A x : Holds(recency', x) <=> x = k \/ Holds(Kept(k), x)
  BY <1>1, <1>3, <1>4, InFront
<1>6. \A h \in Hashes : cache'[h].stored <=> Holds(recency', h)
  BY <1>1, <1>2, <1>3, <1>5 DEF LruOK
<1>7. Len(recency') <= CacheSize
  BY <1>3, <1>5
<1> QED
  BY <1>5, <1>6, <1>7 DEF LruOK, Distinct, Holds

LEMMA ResolveLru ==
  ASSUME IInv, LruOK, NEW c \in Callers, Resolve(c)
  PROVE  LruOK'
<1>1. ASSUME NEW h \in Hashes, CacheHit(c, h) \/ CacheExpired(c, h)
      PROVE  LruOK'
  <2>1. cache[h].stored /\ recency' = <<h>> \o Without(recency, h) /\ cache' = cache
    BY <1>1 DEF CacheHit, CacheExpired
  <2> QED
    BY <2>1, UseKeepsLru
<1>2. ASSUME UNCHANGED <<cache, recency>> PROVE LruOK'
  BY <1>2 DEF LruOK, Distinct, Holds
<1>3. (\E h \in Hashes : CacheMiss(c, h)) \/ GetAPIKeyByHash(c) \/ LookupFails(c)
         => UNCHANGED <<cache, recency>>
  BY DEF CacheMiss, GetAPIKeyByHash, LookupFails
<1> QED
  BY <1>1, <1>2, <1>3, RemoveKeepsLru, StoreKeepsLru DEF Resolve

(* Every value keeps its type, and the cache is a bounded LRU cache: at    *)
(* most CacheSize entries, each once in the order of use, whatever the     *)
(* callers look up, remove and store in between (resolver.go:36-46).       *)
THEOREM CacheStaysBounded == Spec => []TypeOK
<1>1. Init => LruOK
  BY ResolverAssumption DEF Init, LruOK, Distinct, Holds, NoEntry
<1>2. IInv /\ LruOK /\ [Next]_vars => LruOK'
  <2> SUFFICES ASSUME IInv, LruOK, [Next]_vars PROVE LruOK'
    OBVIOUS
  <2>1. CASE Tick \/ KeyTable \/ UNCHANGED vars
    BY <2>1 DEF Tick, KeyTable, vars, LruOK, Distinct, Holds
  <2> QED
    BY <2>1, ResolveLru DEF Next
<1>3. IInv /\ LruOK => TypeOK
  BY DEF IInv, TypeOK, LruOK, Distinct, Holds
<1> QED
  BY <1>1, <1>2, <1>3, InitIInv, NextIInv, PTL DEF Spec

=============================================================================
