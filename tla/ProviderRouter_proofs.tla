----------------------- MODULE ProviderRouter_proofs -----------------------
(***************************************************************************)
(* For any catalog, policy, endpoints, keys and number of concurrent       *)
(* requests: the router is well typed, the mutex of the snapshot belongs   *)
(* to the one request that queries, and what is forwarded obeys the policy *)
(* and carries a key.                                                      *)
(***************************************************************************)
EXTENDS ProviderRouter, TLAPS

(* What a request has established at each stage of Route: candidates come  *)
(* from the catalog entry of its slug, the needs include the default of    *)
(* the deployment, and the chosen endpoint satisfies them.                 *)
Governed(q) ==
  /\ q.pc # "idle" => q.slug \in Slugs /\ Floor \subseteq q.needs
  /\ q.pc \in {"lock", "query"} => q.credentialed = {}
  /\ q.pc = "credentials" => q.unchecked \cup q.credentialed \subseteq Catalog[q.slug]
  /\ q.pc \in {"getkey", "forward"} =>
       q.endpoint \in Catalog[q.slug] /\ q.needs \subseteq Guarantees[q.endpoint]
  /\ q.pc = "forward" => q.key # NoKey

IInv == TypeOK /\ \A w \in Workers : Governed(req[w])

MutexOwned == \A w \in Workers : mu = w <=> req[w].pc = "query"

-----------------------------------------------------------------------------
(* A step of one request: what it does to the function of all requests.    *)

LEMMA IdleGoverned == Idle \in RoutedRequest /\ Governed(Idle) /\ Idle.pc = "idle"
  BY DEF Idle, RoutedRequest, Governed

LEMMA WorkGoverned ==
  ASSUME IInv, NEW w \in Workers, NEW q \in RoutedRequest, Governed(q), Work(w, q)
  PROVE  /\ req' \in [Workers -> RoutedRequest]
         /\ req'[w] = q
         /\ \A v \in Workers \ {w} : req'[v] = req[v]
         /\ \A v \in Workers : Governed(req'[v])
<1>1. req \in [Workers -> RoutedRequest]
  BY DEF IInv, TypeOK
<1>2. req'[w] = q /\ \A v \in Workers \ {w} : req'[v] = req[v]
  BY <1>1 DEF Work
<1>3. req' \in [Workers -> RoutedRequest]
  BY <1>1 DEF Work
<1>4. \A v \in Workers : Governed(req'[v])
  <2> SUFFICES ASSUME NEW v \in Workers PROVE Governed(req'[v])
    OBVIOUS
  <2>1. CASE v = w
    BY <1>2, <2>1
  <2>2. CASE v # w
    <3>1. req'[v] = req[v] /\ Governed(req[v])
      BY <1>2, <2>2 DEF IInv
    <3> QED
      BY <3>1
  <2> QED
    BY <2>1, <2>2
<1> QED
  BY <1>2, <1>3, <1>4

(* A step that neither takes nor releases the mutex.                       *)
LEMMA WorkOutsideMutex ==
  ASSUME IInv, NEW w \in Workers, NEW q \in RoutedRequest, Governed(q), Work(w, q),
         req[w].pc # "query", q.pc # "query",
         UNCHANGED <<providerKeys, window, snapshot, mu>>
  PROVE  IInv'
<1>1. /\ req' \in [Workers -> RoutedRequest]
      /\ req'[w] = q
      /\ \A v \in Workers \ {w} : req'[v] = req[v]
      /\ \A v \in Workers : Governed(req'[v])
  BY WorkGoverned
<1>2. \A v \in Workers : mu' = v <=> req'[v].pc = "query"
  BY <1>1 DEF IInv, TypeOK
<1>3. TypeOK'
  BY <1>1, <1>2 DEF IInv, TypeOK
<1> QED
  BY <1>1, <1>3 DEF IInv

(* The step that ends a query.                                             *)
LEMMA WorkReleasesMutex ==
  ASSUME IInv, NEW w \in Workers, NEW q \in RoutedRequest, Governed(q), Work(w, q),
         req[w].pc = "query", q.pc # "query", mu' = None,
         UNCHANGED <<providerKeys, window>>,
         snapshot' \in [stored : BOOLEAN, fresh : BOOLEAN, unhealthy : SUBSET Endpoints]
  PROVE  IInv'
<1>1. /\ req' \in [Workers -> RoutedRequest]
      /\ req'[w] = q
      /\ \A v \in Workers \ {w} : req'[v] = req[v]
      /\ \A v \in Workers : Governed(req'[v])
  BY WorkGoverned
<1>2. mu = w
  BY DEF IInv, TypeOK
<1>3. \A v \in Workers : mu' = v <=> req'[v].pc = "query"
  BY <1>1, <1>2, RouterAssumption DEF IInv, TypeOK
<1>4. TypeOK'
  BY <1>1, <1>3 DEF IInv, TypeOK
<1> QED
  BY <1>1, <1>4 DEF IInv

-----------------------------------------------------------------------------
(* The steps of a request.                                                 *)

LEMMA RequestTyped ==
  ASSUME IInv, NEW w \in Workers
  PROVE  req[w] \in RoutedRequest /\ Governed(req[w])
  BY DEF IInv, TypeOK

LEMMA DoneIInv ==
  ASSUME IInv, NEW w \in Workers, Done(w), req[w].pc # "query",
         UNCHANGED <<providerKeys, window, snapshot, mu>>
  PROVE  IInv'
  BY WorkOutsideMutex, IdleGoverned DEF Done

LEMMA StartIInv ==
  ASSUME IInv, NEW w \in Workers, NEW slug \in Slugs, NEW asked \in SUBSET Requirements,
         Start(w, slug, asked)
  PROVE  IInv'
<1>1. CASE Catalog[slug] = {}
  <2>1. Done(w)
    BY <1>1 DEF Start, Done
  <2> QED
    BY <2>1, DoneIInv DEF Start
<1>2. CASE Catalog[slug] # {}
  <2> DEFINE q == [Idle EXCEPT !.pc = "lock", !.slug = slug, !.needs = asked \cup Floor]
  <2>1. q \in RoutedRequest /\ Governed(q) /\ q.pc # "query"
    BY RouterAssumption DEF Idle, RoutedRequest, Governed
  <2>2. Work(w, q)
    BY <1>2 DEF Start
  <2> QED
    BY <2>1, <2>2, WorkOutsideMutex DEF Start
<1> QED
  BY <1>1, <1>2

LEMMA SnapshotUsed ==
  ASSUME IInv, NEW w \in Workers, NEW unhealthy \in SUBSET Endpoints,
         req[w].pc \in {"lock", "query"}
  PROVE  LET q == [req[w] EXCEPT !.pc = "credentials", !.unhealthy = unhealthy,
                                 !.unchecked = Candidates(w)]
         IN q \in RoutedRequest /\ Governed(q) /\ q.pc = "credentials"
<1>1. req[w] \in RoutedRequest /\ Governed(req[w])
  BY RequestTyped
<1>2. req[w].slug \in Slugs /\ Candidates(w) \subseteq Endpoints
  BY <1>1, RouterAssumption DEF Governed, Candidates
<1> QED
  BY <1>1, <1>2 DEF RoutedRequest, Governed, Candidates

LEMMA LockHealthIInv ==
  ASSUME IInv, NEW w \in Workers, LockHealth(w)
  PROVE  IInv'
<1>1. CASE snapshot.stored /\ snapshot.fresh
  <2>1. snapshot.unhealthy \in SUBSET Endpoints
    BY DEF IInv, TypeOK
  <2> DEFINE q == [req[w] EXCEPT !.pc = "credentials", !.unhealthy = snapshot.unhealthy,
                                 !.unchecked = Candidates(w)]
  <2>2. q \in RoutedRequest /\ Governed(q) /\ q.pc = "credentials"
    BY <2>1, SnapshotUsed DEF LockHealth
  <2>3. Work(w, q) /\ UNCHANGED <<providerKeys, window, snapshot, mu>>
    BY <1>1 DEF LockHealth, UseSnapshot
  <2> HIDE DEF q
  <2> QED
    BY <2>2, <2>3, WorkOutsideMutex DEF LockHealth
<1>2. CASE ~(snapshot.stored /\ snapshot.fresh)
  <2> DEFINE q == [req[w] EXCEPT !.pc = "query"]
  <2>1. req[w] \in RoutedRequest /\ Governed(req[w]) /\ req[w].pc = "lock"
    BY RequestTyped DEF LockHealth
  <2>2. q \in RoutedRequest /\ Governed(q) /\ q.pc = "query"
    BY <2>1 DEF RoutedRequest, Governed
  <2>3. Work(w, q) /\ mu = None /\ mu' = w /\ UNCHANGED <<providerKeys, window, snapshot>>
    BY <1>2 DEF LockHealth
  <2> HIDE DEF q
  <2>4. /\ req' \in [Workers -> RoutedRequest]
        /\ req'[w] = q
        /\ \A v \in Workers \ {w} : req'[v] = req[v]
        /\ \A v \in Workers : Governed(req'[v])
    BY <2>2, <2>3, WorkGoverned
  <2>5. \A v \in Workers : req[v].pc # "query"
    BY <2>3, RouterAssumption DEF IInv, TypeOK
  <2>6. \A v \in Workers : mu' = v <=> req'[v].pc = "query"
    BY <2>2, <2>3, <2>4, <2>5
  <2>7. TypeOK'
    BY <2>3, <2>4, <2>6 DEF IInv, TypeOK
  <2> QED
    BY <2>4, <2>7 DEF IInv
<1> QED
  BY <1>1, <1>2

LEMMA QueryHealthIInv ==
  ASSUME IInv, NEW w \in Workers, QueryHealth(w)
  PROVE  IInv'
<1> DEFINE q == [req[w] EXCEPT !.pc = "credentials", !.unhealthy = Unhealthy,
                               !.unchecked = Candidates(w)]
<1>1. Unhealthy \in SUBSET Endpoints
  BY DEF Unhealthy
<1>2. q \in RoutedRequest /\ Governed(q) /\ q.pc = "credentials"
  BY <1>1, SnapshotUsed DEF QueryHealth
<1>3. Work(w, q)
  BY DEF QueryHealth, UseSnapshot
<1>4. snapshot' \in [stored : BOOLEAN, fresh : BOOLEAN, unhealthy : SUBSET Endpoints]
  BY <1>1 DEF QueryHealth
<1> HIDE DEF q
<1> QED
  BY <1>2, <1>3, <1>4, WorkReleasesMutex DEF QueryHealth

LEMMA QueryFailsIInv ==
  ASSUME IInv, NEW w \in Workers, QueryFails(w)
  PROVE  IInv'
<1> DEFINE q == [req[w] EXCEPT !.pc = "credentials", !.unhealthy = snapshot.unhealthy,
                               !.unchecked = Candidates(w)]
<1>1. snapshot \in [stored : BOOLEAN, fresh : BOOLEAN, unhealthy : SUBSET Endpoints]
  BY DEF IInv, TypeOK
<1>2. q \in RoutedRequest /\ Governed(q) /\ q.pc = "credentials"
  BY <1>1, SnapshotUsed DEF QueryFails
<1>3. Work(w, q)
  BY DEF QueryFails, UseSnapshot
<1> HIDE DEF q
<1> QED
  BY <1>1, <1>2, <1>3, WorkReleasesMutex DEF QueryFails

LEMMA HasCredentialIInv ==
  ASSUME IInv, NEW w \in Workers, NEW ep \in Endpoints, NEW ok \in BOOLEAN,
         HasCredential(w, ep, ok)
  PROVE  IInv'
<1> DEFINE found == ok /\ providerKeys[Provider[ep]] # NoKey
           q == [req[w] EXCEPT !.unchecked = @ \ {ep},
                               !.credentialed = IF found THEN @ \cup {ep} ELSE @]
<1>1. req[w] \in RoutedRequest /\ Governed(req[w]) /\ req[w].pc = "credentials"
      /\ ep \in req[w].unchecked
  BY RequestTyped DEF HasCredential
<1>2. q \in RoutedRequest /\ Governed(q) /\ q.pc = "credentials"
  <2>1. CASE found
    BY <1>1, <2>1 DEF RoutedRequest, Governed
  <2>2. CASE ~found
    BY <1>1, <2>2 DEF RoutedRequest, Governed
  <2> QED
    BY <2>1, <2>2
<1>3. Work(w, q)
  BY DEF HasCredential
<1> HIDE DEF q
<1> QED
  BY <1>1, <1>2, <1>3, WorkOutsideMutex DEF HasCredential

(* Whatever the health gate does, the pool obeys the policy.               *)
LEMMA PoolObeysPolicy ==
  ASSUME NEW w \in Workers, NEW ep \in Pool(w)
  PROVE  ep \in req[w].credentialed /\ req[w].needs \subseteq Guarantees[ep]
  BY DEF Pool, Eligible

LEMMA SelectByCostIInv ==
  ASSUME IInv, NEW w \in Workers, SelectByCost(w)
  PROVE  IInv'
<1>1. PICK ep \in Pool(w) : Work(w, [req[w] EXCEPT !.pc = "getkey", !.endpoint = ep])
  BY DEF SelectByCost
<1> DEFINE q == [req[w] EXCEPT !.pc = "getkey", !.endpoint = ep]
<1>2. req[w] \in RoutedRequest /\ Governed(req[w]) /\ req[w].pc = "credentials"
  BY RequestTyped DEF SelectByCost
<1>3. ep \in req[w].credentialed /\ req[w].needs \subseteq Guarantees[ep]
  BY PoolObeysPolicy
<1>4. q \in RoutedRequest /\ Governed(q) /\ q.pc = "getkey"
  BY <1>2, <1>3 DEF RoutedRequest, Governed
<1>5. Work(w, q)
  BY <1>1
<1> HIDE DEF q
<1> QED
  BY <1>2, <1>4, <1>5, WorkOutsideMutex DEF SelectByCost

LEMMA ResolveCredentialIInv ==
  ASSUME IInv, NEW w \in Workers, ResolveCredential(w)
  PROVE  IInv'
<1> DEFINE k == providerKeys[Provider[req[w].endpoint]]
           q == [req[w] EXCEPT !.pc = "forward", !.key = k]
<1>1. req[w] \in RoutedRequest /\ Governed(req[w]) /\ req[w].pc = "getkey"
  BY RequestTyped DEF ResolveCredential
<1>2. req[w].endpoint \in Endpoints
  BY <1>1, RouterAssumption DEF Governed
<1>3. k \in Keys \cup {NoKey} /\ k # NoKey
  BY <1>2 DEF IInv, TypeOK, Providers, ResolveCredential
<1> HIDE DEF k
<1>4. q \in RoutedRequest /\ Governed(q) /\ q.pc = "forward"
  BY <1>1, <1>3 DEF RoutedRequest, Governed
<1>5. Work(w, q)
  BY DEF ResolveCredential, k
<1> HIDE DEF q
<1> QED
  BY <1>1, <1>4, <1>5, WorkOutsideMutex DEF ResolveCredential

(* The row of an answer enters the window, and pushes another out when it  *)
(* is full.                                                                *)
LEMMA LoggedTyped ==
  ASSUME IInv, NEW row \in Row, Logged(row)
  PROVE  window' \in Seq(Row) /\ Len(window') <= MaxRows
<1>1. window \in Seq(Row) /\ Len(window) <= MaxRows /\ MaxRows \in Nat \ {0}
  BY RouterAssumption DEF IInv, TypeOK
<1>2. CASE Len(window) < MaxRows
  BY <1>1, <1>2 DEF Logged
<1>3. CASE ~(Len(window) < MaxRows)
  <2>1. window # <<>>
    BY <1>1, <1>3
  <2>2. Tail(window) \in Seq(Row) /\ Len(Tail(window)) = Len(window) - 1
    BY <1>1, <2>1
  <2> QED
    BY <1>1, <1>3, <2>2 DEF Logged
<1> QED
  BY <1>2, <1>3

(* The rest of the state stays typed while the window changes.             *)
LEMMA WindowChanges ==
  ASSUME IInv, window' \in Seq(Row), Len(window') <= MaxRows,
         UNCHANGED <<providerKeys, snapshot, mu, req>>
  PROVE  IInv'
  BY DEF IInv, TypeOK

LEMMA AnsweredIInv ==
  ASSUME IInv, NEW w \in Workers, NEW failed \in BOOLEAN, Answered(w, failed)
  PROVE  IInv'
<1>1. req[w] \in RoutedRequest /\ Governed(req[w]) /\ req[w].pc = "forward"
  BY RequestTyped DEF Answered
<1>2. req[w].slug \in Slugs /\ req[w].endpoint \in Endpoints
  BY <1>1, RouterAssumption DEF Governed
<1>3. PICK model \in LoggedModels(w, failed) :
        Logged([endpoint |-> req[w].endpoint, model |-> model, failed |-> failed])
  BY DEF Answered
<1>4. [endpoint |-> req[w].endpoint, model |-> model, failed |-> failed] \in Row
  BY <1>2, <1>3 DEF LoggedModels, Row
<1>5. window' \in Seq(Row) /\ Len(window') <= MaxRows
  BY <1>3, <1>4, LoggedTyped
<1>6. /\ req' \in [Workers -> RoutedRequest]
      /\ req'[w] = Idle
      /\ \A v \in Workers \ {w} : req'[v] = req[v]
      /\ \A v \in Workers : Governed(req'[v])
  BY IdleGoverned, WorkGoverned DEF Answered, Done
<1>7. \A v \in Workers : mu' = v <=> req'[v].pc = "query"
  BY <1>1, <1>6, IdleGoverned DEF IInv, TypeOK, Answered
<1>8. TypeOK'
  BY <1>5, <1>6, <1>7 DEF IInv, TypeOK, Answered
<1> QED
  BY <1>6, <1>8 DEF IInv

-----------------------------------------------------------------------------
LEMMA InitIInv == Init => IInv
<1> SUFFICES ASSUME Init PROVE IInv
  OBVIOUS
<1>1. window \in Seq(Row) /\ Len(window) <= MaxRows
  BY RouterAssumption DEF Init
<1>2. \A w \in Workers : req[w] \in RoutedRequest /\ Governed(req[w]) /\ req[w].pc = "idle"
  BY IdleGoverned DEF Init
<1>3. \A w \in Workers : mu = w <=> req[w].pc = "query"
  BY <1>2, RouterAssumption DEF Init
<1>4. TypeOK
  BY <1>1, <1>2, <1>3 DEF Init, TypeOK, NoSnapshot
<1> QED
  BY <1>2, <1>4 DEF IInv

LEMMA SetKeyIInv ==
  ASSUME IInv, NEW p \in Providers, NEW k \in Keys \cup {NoKey}, SetKey(p, k)
  PROVE  IInv'
  BY DEF IInv, TypeOK, SetKey

LEMMA RouterIInv ==
  ASSUME IInv, NEW w \in Workers, Router(w)
  PROVE  IInv'
<1>1. CASE LockHealth(w)
  BY <1>1, LockHealthIInv
<1>2. CASE QueryHealth(w)
  BY <1>2, QueryHealthIInv
<1>3. CASE QueryFails(w)
  BY <1>3, QueryFailsIInv
<1>4. ASSUME NEW ep \in Endpoints, NEW ok \in BOOLEAN, HasCredential(w, ep, ok)
      PROVE  IInv'
  BY <1>4, HasCredentialIInv
<1>5. CASE NoUsableEndpoint(w)
  BY <1>5, DoneIInv DEF NoUsableEndpoint
<1>6. CASE SelectByCost(w)
  BY <1>6, SelectByCostIInv
<1>7. CASE ResolveCredential(w)
  BY <1>7, ResolveCredentialIInv
<1>8. CASE CredentialFails(w)
  BY <1>8, DoneIInv DEF CredentialFails
<1> QED
  BY <1>1, <1>2, <1>3, <1>4, <1>5, <1>6, <1>7, <1>8 DEF Router

LEMMA NextIInv == IInv /\ [Next]_vars => IInv'
<1> SUFFICES ASSUME IInv, [Next]_vars PROVE IInv'
  OBVIOUS
<1>1. ASSUME NEW p \in Providers, DeleteKey(p) PROVE IInv'
  BY <1>1, SetKeyIInv DEF DeleteKey
<1>2. ASSUME NEW p \in Providers, NEW k \in Keys, UpsertKey(p, k) PROVE IInv'
  BY <1>2, SetKeyIInv DEF UpsertKey
<1>3. ASSUME NEW w \in Workers, NEW slug \in Slugs, NEW asked \in SUBSET Requirements,
             Start(w, slug, asked)
      PROVE  IInv'
  BY <1>3, StartIInv
<1>4. ASSUME NEW w \in Workers, Router(w) PROVE IInv'
  BY <1>4, RouterIInv
<1>5. ASSUME NEW w \in Workers, Upstream(w) PROVE IInv'
  <2>1. ASSUME NEW failed \in BOOLEAN, Answered(w, failed) PROVE IInv'
    BY <2>1, AnsweredIInv
  <2>2. CASE Unanswered(w)
    BY <2>2, DoneIInv DEF Unanswered
  <2> QED
    BY <1>5, <2>1, <2>2 DEF Upstream
<1>6. CASE SnapshotExpires
  BY <1>6 DEF IInv, TypeOK, SnapshotExpires
<1>7. CASE RowAges
  <2>1. window' \in Seq(Row) /\ Len(window') <= MaxRows
    <3>1. window \in Seq(Row) /\ window # <<>> /\ Len(window) <= MaxRows
      BY <1>7 DEF RowAges, IInv, TypeOK
    <3> QED
      BY <1>7, <3>1, RouterAssumption DEF RowAges
  <2> QED
    BY <1>7, <2>1, WindowChanges DEF RowAges
<1>8. CASE UNCHANGED vars
  BY <1>8 DEF vars, IInv, TypeOK
<1> QED
  BY <1>1, <1>2, <1>3, <1>4, <1>5, <1>6, <1>7, <1>8 DEF Next

-----------------------------------------------------------------------------
(* Every reachable state is well typed, and the mutex of the snapshot is   *)
(* held exactly by the request that queries the health table: no path      *)
(* through getHealth (providerrouter.go:283-313) keeps it or lets a second *)
(* request in.                                                             *)
THEOREM RouterTyped == Spec => [](TypeOK /\ MutexOwned)
<1>1. IInv => TypeOK /\ MutexOwned
  BY DEF IInv, TypeOK, MutexOwned
<1> QED
  BY <1>1, InitIInv, NextIInv, PTL DEF Spec

(* Whatever keys and health do meanwhile, a request is forwarded only with *)
(* a key, to an endpoint of its slug, under the policy of the deployment   *)
(* and its own (providerrouter.go:131-185, handler.go:636-653).            *)
THEOREM PolicyAlwaysHolds == Spec => []PolicyHolds
<1>1. IInv => PolicyHolds
  BY DEF IInv, PolicyHolds, Forwarded, Governed, Candidates
<1> QED
  BY <1>1, InitIInv, NextIInv, PTL DEF Spec

=============================================================================
