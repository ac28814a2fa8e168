--------------------------- MODULE ProviderRouter ---------------------------
(***************************************************************************)
(* Provider routing: ProviderRouter.Route with its health snapshot         *)
(* (internal/proxy/providerrouter.go), the credential the handler then     *)
(* injects (resolveRoutedCredential in internal/proxy/handler.go), the     *)
(* provider keys operators store, replace and delete meanwhile             *)
(* (internal/repositories/provider_keys.go), and the feedback of request   *)
(* rows into health (internal/repositories/endpoint_health.go).            *)
(*                                                                         *)
(* Workers are the concurrent routed requests; a worker that is done takes *)
(* another request.  Prices only weight a random choice in which every     *)
(* weight is positive, so any member of the pool may be chosen.  A health  *)
(* snapshot is reduced to the set of endpoints it condemns.                *)
(***************************************************************************)
EXTENDS Integers, Sequences, FiniteSets

CONSTANTS Workers,
          Endpoints,     \* the catalog's endpoints
          Slugs,         \* models callers ask for
          Catalog,       \* slug -> its endpoints; {} = not in the catalog
          Provider,      \* endpoint -> provider
          ModelID,       \* endpoint -> ProviderModelID
          Guarantees,    \* endpoint -> data-policy requirements it satisfies
          Requirements,  \* "ZDR", "no data collection"
          Floor,         \* the deployment's default requirements
          Keys,          \* values of provider keys
          NoKey,
          None,
          MinSamples,    \* healthMinSamples
          MaxRows        \* bound: rows in the health window

Providers == {Provider[ep] : ep \in Endpoints}

ASSUME RouterAssumption ==
  /\ Catalog \in [Slugs -> SUBSET Endpoints]
  /\ Guarantees \in [Endpoints -> SUBSET Requirements]
  /\ Floor \subseteq Requirements
  /\ NoKey \notin Keys
  /\ None \notin Workers /\ None \notin Endpoints
  /\ MinSamples \in Nat \ {0} /\ MaxRows \in Nat \ {0}

VARIABLES
  providerKeys, \* database: provider -> key
  window,       \* database: the rows of the last healthWindow, oldest first
  snapshot,     \* ProviderRouter.snapshot
  mu,           \* ProviderRouter.mu: who holds it
  req           \* per worker: its routed request

vars == <<providerKeys, window, snapshot, mu, req>>

Row == [endpoint : Endpoints, model : Slugs \cup {ModelID[ep] : ep \in Endpoints},
        failed : BOOLEAN]
NoSnapshot == [stored |-> FALSE, fresh |-> FALSE, unhealthy |-> {}]
Idle == [pc |-> "idle", slug |-> None, needs |-> {}, unhealthy |-> {},
         unchecked |-> {}, credentialed |-> {}, endpoint |-> None, key |-> NoKey]

RoutedRequest ==
  [pc : {"idle", "lock", "query", "credentials", "getkey", "forward"},
   slug : Slugs \cup {None}, needs : SUBSET Requirements,
   unhealthy : SUBSET Endpoints, unchecked : SUBSET Endpoints,
   credentialed : SUBSET Endpoints, endpoint : Endpoints \cup {None},
   key : Keys \cup {NoKey}]

TypeOK ==
  /\ providerKeys \in [Providers -> Keys \cup {NoKey}]
  /\ window \in Seq(Row) /\ Len(window) <= MaxRows
  /\ snapshot \in [stored : BOOLEAN, fresh : BOOLEAN, unhealthy : SUBSET Endpoints]
  /\ mu \in Workers \cup {None}
  /\ req \in [Workers -> RoutedRequest]
  /\ \A w \in Workers : mu = w <=> req[w].pc = "query"

Init ==
  /\ providerKeys = [p \in Providers |-> NoKey]
  /\ window = <<>>
  /\ snapshot = NoSnapshot
  /\ mu = None
  /\ req = [w \in Workers |-> Idle]

-----------------------------------------------------------------------------
(* Upsert and Delete.  A key that is encrypted here and decrypted by the   *)
(* handler comes back as it was (AES-GCM), unless decryption fails.        *)

SetKey(p, k) ==
  /\ providerKeys' = [providerKeys EXCEPT ![p] = k]
  /\ UNCHANGED <<window, snapshot, mu, req>>

UpsertKey(p, k) == k \in Keys /\ SetKey(p, k)
DeleteKey(p) == providerKeys[p] # NoKey /\ SetKey(p, NoKey)

-----------------------------------------------------------------------------
(* The health of an endpoint as the query of GetEndpointHealth computes    *)
(* it: the rows of its provider under the model ModelID.                   *)

RowsOf(ep) ==
  {i \in DOMAIN window : /\ Provider[window[i].endpoint] = Provider[ep]
                         /\ window[i].model = ModelID[ep]}
Condemned(rows) ==
  LET bad == {i \in rows : window[i].failed}
  IN Cardinality(rows) >= MinSamples /\ 5 * Cardinality(bad) > Cardinality(rows)
Unhealthy == {ep \in Endpoints : Condemned(RowsOf(ep))}

Work(w, changes) == req' = [req EXCEPT ![w] = changes]
Done(w) == Work(w, Idle)

(* resolveDataPolicy: headers add to the default, they never relax it.     *)
Start(w, slug, asked) ==
  /\ req[w].pc = "idle"
  /\ Work(w, IF Catalog[slug] = {} THEN Idle
             ELSE [Idle EXCEPT !.pc = "lock", !.slug = slug, !.needs = asked \cup Floor])
  /\ UNCHANGED <<providerKeys, window, snapshot, mu>>

(* getHealth holds the mutex from the look at the snapshot to the end of   *)
(* the query.                                                              *)
Candidates(w) == Catalog[req[w].slug]

UseSnapshot(w, unhealthy) ==
  Work(w, [req[w] EXCEPT !.pc = "credentials", !.unhealthy = unhealthy,
                         !.unchecked = Candidates(w)])

LockHealth(w) ==
  /\ req[w].pc = "lock"
  /\ mu = None
  /\ IF snapshot.stored /\ snapshot.fresh
       THEN UseSnapshot(w, snapshot.unhealthy) /\ UNCHANGED mu
       ELSE Work(w, [req[w] EXCEPT !.pc = "query"]) /\ mu' = w
  /\ UNCHANGED <<providerKeys, window, snapshot>>

QueryHealthKeepsCondemned(w) ==
  /\ req[w].pc = "query"
  /\ snapshot' = [stored |-> TRUE, fresh |-> TRUE,
                  unhealthy |-> Unhealthy \cup snapshot.unhealthy]
  /\ UseSnapshot(w, Unhealthy \cup snapshot.unhealthy)
  /\ mu' = None
  /\ UNCHANGED <<providerKeys, window>>

QueryHealth(w) ==
  /\ req[w].pc = "query"
  /\ snapshot' = [stored |-> TRUE, fresh |-> TRUE, unhealthy |-> Unhealthy]
  /\ UseSnapshot(w, Unhealthy)
  /\ mu' = None
  /\ UNCHANGED <<providerKeys, window>>

(* On an error the old snapshot is used, or an empty one that is not kept. *)
QueryFailsLocked(w) ==
  /\ req[w].pc = "query"
  /\ UseSnapshot(w, snapshot.unhealthy)
  /\ UNCHANGED <<providerKeys, window, snapshot, mu>>

QueryFails(w) ==
  /\ req[w].pc = "query"
  /\ UseSnapshot(w, snapshot.unhealthy)
  /\ mu' = None
  /\ UNCHANGED <<providerKeys, window, snapshot>>

(* time.Since(fetchedAt) reaches healthCacheTTL.                           *)
SnapshotExpires ==
  /\ snapshot.stored /\ snapshot.fresh
  /\ snapshot' = [snapshot EXCEPT !.fresh = FALSE]
  /\ UNCHANGED <<providerKeys, window, mu, req>>

(* hasCredential, once per candidate; an error counts as no key.           *)
HasCredential(w, ep, ok) ==
  LET found == ok /\ providerKeys[Provider[ep]] # NoKey IN
  /\ req[w].pc = "credentials"
  /\ ep \in req[w].unchecked
  /\ Work(w, [req[w] EXCEPT !.unchecked = @ \ {ep},
                            !.credentialed = IF found THEN @ \cup {ep} ELSE @])
  /\ UNCHANGED <<providerKeys, window, snapshot, mu>>

(* The policy filter, the health gate (open if it would leave nobody) and  *)
(* selectByCost.  Without an eligible endpoint the request ends with 502.  *)
Eligible(w) == {ep \in req[w].credentialed : req[w].needs \subseteq Guarantees[ep]}

PoolOpensPastPolicy(w) ==
  LET healthy == Eligible(w) \ req[w].unhealthy
  IN IF healthy = {} THEN req[w].credentialed ELSE healthy

Pool(w) ==
  LET healthy == Eligible(w) \ req[w].unhealthy
  IN IF healthy = {} THEN Eligible(w) ELSE healthy

NoUsableEndpoint(w) ==
  /\ req[w].pc = "credentials" /\ req[w].unchecked = {}
  /\ Eligible(w) = {}
  /\ Done(w)
  /\ UNCHANGED <<providerKeys, window, snapshot, mu>>

SelectByCost(w) ==
  /\ req[w].pc = "credentials" /\ req[w].unchecked = {}
  /\ \E ep \in Pool(w) : Work(w, [req[w] EXCEPT !.pc = "getkey", !.endpoint = ep])
  /\ UNCHANGED <<providerKeys, window, snapshot, mu>>

(* resolveRoutedCredential; a key deleted since hasCredential, a database  *)
(* error or a failed decryption ends the request with 502.                 *)
ResolveCredential(w) ==
  /\ req[w].pc = "getkey"
  /\ providerKeys[Provider[req[w].endpoint]] # NoKey
  /\ Work(w, [req[w] EXCEPT !.pc = "forward",
                            !.key = providerKeys[Provider[req[w].endpoint]]])
  /\ UNCHANGED <<providerKeys, window, snapshot, mu>>

CredentialFails(w) ==
  /\ req[w].pc = "getkey"
  /\ Done(w)
  /\ UNCHANGED <<providerKeys, window, snapshot, mu>>

-----------------------------------------------------------------------------
(* The upstream answers, and logRequest writes the row.  The model of the  *)
(* row is the one the response names; if it names none (an error body      *)
(* never does) it is the one in the caller's body, which is the slug.      *)
(* Rows beyond MaxRows push the oldest out.                                *)

LoggedModelsNoFallback(w, failed) ==
  IF failed THEN {None} ELSE {ModelID[req[w].endpoint]}

LoggedModels(w, failed) ==
  IF failed THEN {req[w].slug} ELSE {ModelID[req[w].endpoint], req[w].slug}

Logged(row) ==
  window' = IF Len(window) < MaxRows THEN Append(window, row)
            ELSE Append(Tail(window), row)

Answered(w, failed) ==
  /\ req[w].pc = "forward"
  /\ \E model \in LoggedModels(w, failed) :
       Logged([endpoint |-> req[w].endpoint, model |-> model, failed |-> failed])
  /\ Done(w)
  /\ UNCHANGED <<providerKeys, snapshot, mu>>

(* A request the upstream does not answer at all leaves no row.            *)
Unanswered(w) ==
  /\ req[w].pc = "forward"
  /\ Done(w)
  /\ UNCHANGED <<providerKeys, window, snapshot, mu>>

(* The oldest row leaves the health window.                                *)
RowAges ==
  /\ window # <<>>
  /\ window' = Tail(window)
  /\ UNCHANGED <<providerKeys, snapshot, mu, req>>

-----------------------------------------------------------------------------

Router(w) ==
  \/ LockHealth(w) \/ QueryHealth(w) \/ QueryFails(w)
  \/ \E ep \in Endpoints, ok \in BOOLEAN : HasCredential(w, ep, ok)
  \/ NoUsableEndpoint(w) \/ SelectByCost(w)
  \/ ResolveCredential(w) \/ CredentialFails(w)
Upstream(w) == (\E failed \in BOOLEAN : Answered(w, failed)) \/ Unanswered(w)

Next ==
  \/ \E p \in Providers : DeleteKey(p) \/ \E k \in Keys : UpsertKey(p, k)
  \/ \E w \in Workers :
       \/ \E slug \in Slugs, asked \in SUBSET Requirements : Start(w, slug, asked)
       \/ Router(w) \/ Upstream(w)
  \/ SnapshotExpires
  \/ RowAges

Spec == Init /\ [][Next]_vars

(* Goroutines run, database calls return, and sync.Mutex does not starve a *)
(* waiter (it hands itself over after 1 ms).  An upstream promises         *)
(* nothing: ForwardStream bounds the wait for the headers only, and a      *)
(* stream can run indefinitely.                                            *)
Fairness == \A w \in Workers : SF_vars(LockHealth(w)) /\ WF_vars(Router(w))

(* For recovery: time passes, a query of the health table is not for ever  *)
(* unlucky, and requests keep coming.  A gateway takes any number of them, *)
(* the model as many at a time as there are workers, so that one worker w  *)
(* must always be given its answer to take another; the others may hang.   *)
Recovery(w) ==
  /\ WF_vars(SnapshotExpires) /\ WF_vars(RowAges)
  /\ \A v \in Workers : SF_vars(QueryHealth(v))
  /\ WF_vars(Upstream(w))
  /\ \A slug \in Slugs : SF_vars(Start(w, slug, {}))

FairSpec == Spec /\ Fairness

-----------------------------------------------------------------------------
(***************************************************************************)
(* Properties                                                              *)
(***************************************************************************)

Forwarded(w) == req[w].pc = "forward"

(* A routed request is sent only to an endpoint of the slug's catalog      *)
(* entry that satisfies the deployment's policy, however healthy or cheap  *)
(* the others are and even when the health gate fails open, and never      *)
(* without a key, although one found by hasCredential may be gone by then. *)
PolicyHolds ==
  \A w \in Workers : Forwarded(w) =>
    /\ req[w].key # NoKey
    /\ req[w].endpoint \in Candidates(w)
    /\ Floor \cup req[w].needs \subseteq Guarantees[req[w].endpoint]

(* Every request is sent on or refused: nobody waits for ever for the      *)
(* mutex that is held over the health query, whatever becomes of the       *)
(* query, of the keys meanwhile and of requests that hang in an upstream.  *)
RoutingEnds ==
  \A w \in Workers :
    req[w].pc \in {"lock", "query", "credentials", "getkey"} ~> req[w].pc \in {"forward", "idle"}

(* A condemned endpoint gets another chance: once its failures have left   *)
(* the window and no new ones come in, it is not condemned for long,       *)
(* although failed queries keep the old snapshot in use.                   *)
CondemnationEnds ==
  \A ep \in Endpoints :
    <>[](\A i \in RowsOf(ep) : ~window[i].failed)
      => <>[](ep \notin snapshot.unhealthy)

(* providerrouter.go:168 says "Drop endpoints whose recent error rate      *)
(* exceeds the threshold once they have enough samples to trust": a        *)
(* snapshot condemns every endpoint that answered at least MinSamples      *)
(* requests in the window and failed more than a fifth of them.            *)
AnswersOf(ep) == {i \in DOMAIN window : window[i].endpoint = ep}
FailingIsCondemned ==
  [][\A w \in Workers, ep \in Endpoints :
       QueryHealth(w) /\ Condemned(AnswersOf(ep)) => ep \in snapshot'.unhealthy]_vars

=============================================================================
