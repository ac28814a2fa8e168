-------------------------- MODULE RequestAccounting --------------------------
(***************************************************************************)
(* What the gateway promises about the log of a request, without saying    *)
(* how: an answered request has one log, whose fate is settled once: it    *)
(* becomes a row, is dropped, is refused by the database, or vanishes with *)
(* the process.  A request that got no answer has none.  Module RequestLog *)
(* is shown to implement this.                                             *)
(***************************************************************************)

CONSTANTS Requests  \* request ids

VARIABLES
  client,   \* what became of the request
  outcome   \* what became of its log

accountingVars == <<client, outcome>>

AccountingInit ==
  /\ client = [r \in Requests |-> "waiting"]
  /\ outcome = [r \in Requests |-> "none"]

RefuseRequest(r) ==
  /\ client[r] = "waiting"
  /\ client' = [client EXCEPT ![r] = "refused"]
  /\ UNCHANGED outcome

AnswerRequest(r) ==
  /\ client[r] = "waiting"
  /\ client' = [client EXCEPT ![r] = "answered"]
  /\ outcome' = [outcome EXCEPT ![r] = "open"]

Settle(r, fate) ==
  /\ outcome[r] = "open"
  /\ outcome' = [outcome EXCEPT ![r] = fate]
  /\ UNCHANGED client

(* The process ends, and with it the requests it was serving and all logs  *)
(* that are open.                                                          *)
LoseAll(serving) ==
  /\ \A r \in serving : client[r] = "waiting"
  /\ client' = [r \in Requests |-> IF r \in serving THEN "aborted" ELSE client[r]]
  /\ outcome' = [r \in Requests |->
                   IF outcome[r] = "open" THEN "vanished" ELSE outcome[r]]

AccountingNext ==
  \/ \E r \in Requests :
       \/ RefuseRequest(r) \/ AnswerRequest(r)
       \/ \E fate \in {"row", "dropped", "failed"} : Settle(r, fate)
  \/ \E serving \in SUBSET Requests : LoseAll(serving)

AccountingSafety == AccountingInit /\ [][AccountingNext]_accountingVars

(* No log stays open for ever.                                             *)
EveryLogSettles == \A r \in Requests : outcome[r] = "open" ~> outcome[r] # "open"

AccountingSpec == AccountingSafety /\ EveryLogSettles

=============================================================================
