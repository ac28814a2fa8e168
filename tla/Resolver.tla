------------------------------ MODULE Resolver ------------------------------
(***************************************************************************)
(* auth.Resolver (internal/auth/resolver.go) over the api_keys table       *)
(* (internal/repositories/api_keys.go): a read-through LRU cache of valid  *)
(* and invalid keys with a TTL, used by concurrent requests while keys are *)
(* created, updated and revoked.                                           *)
(*                                                                         *)
(* The LRU cache (hashicorp/golang-lru) is a function from hashes to       *)
(* entries together with the order of use.  Nothing in the program calls   *)
(* InvalidateCache, so there is no action for it.  UpdateAPIKeyLastUsed    *)
(* writes two columns that are never read back here; it is left out.       *)
(***************************************************************************)
EXTENDS Integers, Sequences

CONSTANTS Hashes, Settings, Absent, Revoked, Refused, Failed, NoHash, Callers,
          Junk,        \* hashes that never get a row
          CacheSize,   \* resolverCacheSize
          TTL,         \* cacheTTL
          MaxLatency,  \* bound: from a database read to the use of its result
          MaxTime

VARIABLES now, row, seen, decision,
  cache,   \* Resolver.cache: the entry of every hash
  recency, \* the hashes with an entry, most recently used first
  call     \* per caller: ResolveAPIKey in progress

vars == <<now, row, seen, decision, cache, recency, call>>

Authority == INSTANCE KeyAuthority WITH Staleness <- TTL + MaxLatency

Row == Settings \cup {Absent, Revoked}
Verdict(v) == IF v \in Settings THEN v ELSE Refused

ASSUME ResolverAssumption ==
  /\ TTL \in Nat /\ MaxLatency \in Nat /\ MaxTime \in Nat
  /\ CacheSize \in Nat \ {0}
  /\ Junk \subseteq Hashes
  /\ NoHash \notin Hashes
  /\ Absent \notin Settings /\ Revoked \notin Settings /\ Absent # Revoked
  /\ Refused \notin Settings /\ Failed \notin Settings /\ Refused # Failed

NoEntry == [stored |-> FALSE, value |-> Absent, expiresAt |-> 0]
Idle == [pc |-> "idle", hash |-> NoHash, value |-> Absent, readAt |-> 0]

(* A cachedKey with isValid = FALSE is an entry whose value is no setting. *)
Entry == [stored : BOOLEAN, value : Row, expiresAt : Nat]
Call == [pc : {"idle", "remove", "fetch", "store"}, hash : Hashes \cup {NoHash},
         value : Row, readAt : Nat]

StateTypeOK ==
  /\ now \in 0..MaxTime
  /\ row \in [Hashes -> Row]
  /\ seen \in [Hashes -> SUBSET ((0..MaxTime) \X Row)]
  /\ decision \in [hash : Hashes \cup {NoHash}, verdict : Settings \cup {Refused, Failed}]
  /\ cache \in [Hashes -> Entry]
  /\ call \in [Callers -> Call]
  /\ \A c \in Callers : call[c].pc # "idle" => call[c].hash \in Hashes

\* The cache is bounded, and the order of use lists its entries, once each.
TypeOK ==
  /\ StateTypeOK
  /\ recency \in Seq(Hashes) /\ Len(recency) <= CacheSize
  /\ \A h \in Hashes : cache[h].stored <=> \E i \in DOMAIN recency : recency[i] = h
  /\ \A i, j \in DOMAIN recency : recency[i] = recency[j] => i = j

Init ==
  /\ now = 0
  /\ row = [h \in Hashes |-> Absent]
  /\ seen = [h \in Hashes |-> {<<0, Absent>>}]
  /\ decision = Authority!NoDecision
  /\ cache = [h \in Hashes |-> NoEntry]
  /\ recency = <<>>
  /\ call = [c \in Callers |-> Idle]

-----------------------------------------------------------------------------
(* Time passes, but a caller that has read the row stores what it read     *)
(* within MaxLatency.                                                      *)

Tick ==
  /\ \A c \in Callers : call[c].pc = "store" => now < call[c].readAt + MaxLatency
  /\ Authority!Tick
  /\ UNCHANGED <<cache, recency, call>>

(* A new key is random, and known to nobody before its row is stored.      *)
KeyTable ==
  /\ \E h \in Hashes \ Junk :
       Authority!CreateAPIKey(h) \/ Authority!UpdateAPIKey(h) \/ Authority!RevokeAPIKey(h)
  /\ UNCHANGED <<cache, recency, call>>

-----------------------------------------------------------------------------
Without(s, h) ==
  IF \E i \in DOMAIN s : s[i] = h
  THEN LET i == CHOOSE i \in DOMAIN s : s[i] = h
       IN SubSeq(s, 1, i - 1) \o SubSeq(s, i + 1, Len(s))
  ELSE s

Return(c, h, v) ==
  /\ Authority!Decided(h, v)
  /\ call' = [call EXCEPT ![c] = Idle]

(* ResolveAPIKey starts with lru.Get, which makes the entry the most       *)
(* recently used one whether or not it is expired.                         *)
Known(h) == h \in Junk \/ row[h] # Absent
Expired(h) == now > cache[h].expiresAt

CacheHitExtends(c, h) ==
  /\ call[c].pc = "idle" /\ Known(h)
  /\ cache[h].stored /\ ~Expired(h)
  /\ cache' = [cache EXCEPT ![h].expiresAt = now + TTL]
  /\ recency' = <<h>> \o Without(recency, h)
  /\ Return(c, h, Verdict(cache[h].value))
  /\ UNCHANGED <<now, row, seen>>

CacheHit(c, h) ==
  /\ call[c].pc = "idle" /\ Known(h)
  /\ cache[h].stored /\ ~Expired(h)
  /\ recency' = <<h>> \o Without(recency, h)
  /\ Return(c, h, Verdict(cache[h].value))
  /\ UNCHANGED <<now, row, seen, cache>>

CacheExpired(c, h) ==
  /\ call[c].pc = "idle" /\ Known(h)
  /\ cache[h].stored /\ Expired(h)
  /\ recency' = <<h>> \o Without(recency, h)
  /\ call' = [call EXCEPT ![c] = [Idle EXCEPT !.pc = "remove", !.hash = h]]
  /\ UNCHANGED <<now, row, seen, decision, cache>>

RemoveEntryForgetsHash(c) ==
  /\ call[c].pc = "remove"
  /\ cache' = [cache EXCEPT ![call[c].hash] = NoEntry]
  /\ recency' = Without(recency, call[c].hash)
  /\ call' = [call EXCEPT ![c] = [Idle EXCEPT !.pc = "fetch"]]
  /\ UNCHANGED <<now, row, seen, decision>>

(* The entry removed may be one another caller has stored in the meantime. *)
RemoveEntry(c) ==
  /\ call[c].pc = "remove"
  /\ cache' = [cache EXCEPT ![call[c].hash] = NoEntry]
  /\ recency' = Without(recency, call[c].hash)
  /\ call' = [call EXCEPT ![c].pc = "fetch"]
  /\ UNCHANGED <<now, row, seen, decision>>

CacheMiss(c, h) ==
  /\ call[c].pc = "idle" /\ Known(h)
  /\ ~cache[h].stored
  /\ call' = [call EXCEPT ![c] = [Idle EXCEPT !.pc = "fetch", !.hash = h]]
  /\ UNCHANGED <<now, row, seen, decision, cache, recency>>

GetAPIKeyByHash(c) ==
  /\ call[c].pc = "fetch"
  /\ call' = [call EXCEPT ![c] = [pc |-> "store", hash |-> call[c].hash,
                                  value |-> row[call[c].hash], readAt |-> now]]
  /\ UNCHANGED <<now, row, seen, decision, cache, recency>>

(* lru.Add: the entry of h is replaced or added, the least recently used   *)
(* one evicted if there are too many.  A failed lookup is not cached.      *)
Others(h) == Without(recency, h)
Full(h) == Len(Others(h)) = CacheSize
Evicted(h) == IF Full(h) THEN {Others(h)[CacheSize]} ELSE {}
Kept(h) == IF Full(h) THEN SubSeq(Others(h), 1, CacheSize - 1) ELSE Others(h)

LookupFailsCachesInvalid(c) ==
  /\ call[c].pc = "fetch"
  /\ call' = [call EXCEPT ![c].pc = "store", ![c].value = Absent, ![c].readAt = now]
  /\ UNCHANGED <<now, row, seen, decision, cache, recency>>

LookupFails(c) ==
  /\ call[c].pc = "fetch"
  /\ Return(c, call[c].hash, Failed)
  /\ UNCHANGED <<now, row, seen, cache, recency>>

StoreAndReturn(c) ==
  LET k == call[c].hash IN
  /\ call[c].pc = "store"
  /\ cache' = [h \in Hashes |->
                 IF h = k THEN [stored |-> TRUE, value |-> call[c].value,
                                expiresAt |-> now + TTL]
                 ELSE IF h \in Evicted(k) THEN NoEntry ELSE cache[h]]
  /\ recency' = <<k>> \o Kept(k)
  /\ Return(c, k, Verdict(call[c].value))
  /\ UNCHANGED <<now, row, seen>>

Resolve(c) ==
  \/ \E h \in Hashes : CacheHit(c, h) \/ CacheExpired(c, h) \/ CacheMiss(c, h)
  \/ RemoveEntry(c) \/ GetAPIKeyByHash(c) \/ LookupFails(c) \/ StoreAndReturn(c)

Next == Tick \/ KeyTable \/ \E c \in Callers : Resolve(c)

Spec == Init /\ [][Next]_vars

-----------------------------------------------------------------------------
(***************************************************************************)
(* Properties                                                              *)
(***************************************************************************)

(* Every answer of ResolveAPIKey is what the row of the key said at most   *)
(* TTL + MaxLatency ago, although hits, expiries, evictions and lookups of *)
(* several callers interleave with changes of the row.                     *)
AnswersAreRecent == Authority!AuthoritySpec

(* Why: what a caller is about to store was read at readAt, at most        *)
(* MaxLatency ago, and an entry was true TTL and at most MaxLatency more   *)
(* before it expires.                                                      *)
ReadIsRecent ==
  \A c \in Callers :
    call[c].pc = "store" =>
      /\ call[c].readAt <= now /\ now <= call[c].readAt + MaxLatency
      /\ <<call[c].readAt, call[c].value>> \in seen[call[c].hash]

EntryReflectsRecentState ==
  \A h \in Hashes :
    cache[h].stored =>
      \E t \in 0..now : /\ <<t, cache[h].value>> \in seen[h]
                        /\ cache[h].expiresAt <= t + TTL + MaxLatency

(* No active key is turned away: a caller is refused only a key that was   *)
(* never issued or that is revoked.  A failed lookup must not be           *)
(* remembered, nor an answer for one key given for another.                *)
NoFalseRefusal ==
  decision.hash # NoHash /\ decision.verdict = Refused
    => decision.hash \in Junk \/ row[decision.hash] = Revoked

=============================================================================
