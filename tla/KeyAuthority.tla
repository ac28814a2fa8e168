---------------------------- MODULE KeyAuthority ----------------------------
(***************************************************************************)
(* What the gateway promises about API keys, without saying how: the       *)
(* answer to a request is what the row of its key said at some moment of   *)
(* the recent past, or a refusal because the database failed.  Module      *)
(* Resolver is shown to implement this.                                    *)
(***************************************************************************)
EXTENDS Integers

CONSTANTS Hashes,    \* hashes of the keys callers present
          Settings,  \* what the row of an active key says (APIKeyInfo)
          Absent, Revoked,   \* the other states of a row
          Refused, Failed,   \* the two ways not to get an APIKeyInfo
          NoHash,
          Staleness, \* how old an answer may be
          MaxTime    \* bound: the length of a behaviour

Row == Settings \cup {Absent, Revoked}
Time == 0..MaxTime

VARIABLES
  now,       \* the clock
  row,       \* database: the row of every key
  seen,      \* history: <<t, v>> if the row was v at some moment of tick t
  decision   \* the latest answer given to a caller

authorityVars == <<now, row, seen, decision>>

Verdict(v) == IF v \in Settings THEN v ELSE Refused
NoDecision == [hash |-> NoHash, verdict |-> Refused]

AuthorityInit ==
  /\ now = 0
  /\ row = [h \in Hashes |-> Absent]
  /\ seen = [h \in Hashes |-> {<<0, Absent>>}]
  /\ decision = NoDecision

Tick ==
  /\ now < MaxTime
  /\ now' = now + 1
  /\ seen' = [h \in Hashes |-> seen[h] \cup {<<now + 1, row[h]>>}]
  /\ UNCHANGED <<row, decision>>

SetRow(h, v) ==
  /\ row' = [row EXCEPT ![h] = v]
  /\ seen' = [seen EXCEPT ![h] = @ \cup {<<now, v>>}]
  /\ UNCHANGED <<now, decision>>

(* CreateAPIKey, UpdateAPIKey and RevokeAPIKey (WHERE is_active = true).   *)
CreateAPIKey(h) == row[h] = Absent /\ \E s \in Settings : SetRow(h, s)
UpdateAPIKey(h) == row[h] \in Settings /\ \E s \in Settings : SetRow(h, s)
RevokeAPIKey(h) == row[h] \in Settings /\ SetRow(h, Revoked)

Decided(h, v) == decision' = [hash |-> h, verdict |-> v]

Recent(h) == {v \in Row : \E t \in Time : now - Staleness <= t /\ <<t, v>> \in seen[h]}

Decide(h) ==
  /\ \E v \in Recent(h) : Decided(h, Verdict(v))
  /\ UNCHANGED <<now, row, seen>>

DecideFailed(h) ==
  /\ Decided(h, Failed)
  /\ UNCHANGED <<now, row, seen>>

KeyTable == \E h \in Hashes : CreateAPIKey(h) \/ UpdateAPIKey(h) \/ RevokeAPIKey(h)

AuthorityNext ==
  \/ Tick
  \/ KeyTable
  \/ \E h \in Hashes : Decide(h) \/ DecideFailed(h)

AuthoritySpec == AuthorityInit /\ [][AuthorityNext]_authorityVars

=============================================================================
