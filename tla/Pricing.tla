------------------------------- MODULE Pricing -------------------------------
(***************************************************************************)
(* internal/pricing/service.go: the price maps and the routing catalog,    *)
(* rebuilt by a background loop from a local file and a remote feed and    *)
(* swapped in under one lock, while requests resolve prices from them.     *)
(*                                                                         *)
(* A catalog file is a record with a section of prices per provider and a  *)
(* list of route entries per slug; a feed is the sequence of entries the   *)
(* remote source publishes.  A price is an opaque value: the arithmetic is *)
(* in CostAttribution.                                                     *)
(***************************************************************************)
EXTENDS Integers, Sequences, Functions, FiniteSetsExt

CONSTANTS
    Catalogs,      \* contents the catalog file may have while it is readable
    Feeds,         \* contents the remote feed may have while it answers
    ProviderOrder, \* the provider names, in sorted order
    Models,        \* model ids a price can be asked for
    Prices,        \* price values
    Aliases,       \* s.aliases: model id -> pricing id, loaded once
    Undated,       \* stripDateSuffix: dated id -> its base
    MaxEdits,      \* bound: changes of the two sources
    Unavailable,   \* the file cannot be parsed, the feed does not answer
    NoRemote,      \* no remoteURL is configured
    Unpriced       \* resolve's (ModelPricing{}, false)

Providers == Range(ProviderOrder)
NoMap == [x \in {} |-> x]

ASSUME SourcesAreSeparate ==
    /\ Unavailable \notin Catalogs /\ Unavailable \notin Feeds /\ NoRemote \notin Feeds
    /\ Unavailable # NoRemote
    /\ Unpriced \notin Prices
    /\ MaxEdits \in Nat

(* What parseCatalog and fetchRemote decode: a catalog's prices are those  *)
(* of known providers and models, a feed is a list of priced entries.      *)
ASSUME ContentsAreDecoded ==
    /\ ProviderOrder \in Seq(Providers) /\ "" \notin Providers
    /\ \A c \in Catalogs :
           /\ DOMAIN c.sections \subseteq Providers
           /\ \A p \in DOMAIN c.sections : \A m \in DOMAIN c.sections[p] :
                  m \in Models /\ c.sections[p][m] \in Prices
    /\ \A f \in Feeds : f \in Seq(Range(f)) /\ \A i \in DOMAIN f : f[i].price \in Prices

VARIABLES
    file,      \* what os.ReadFile finds: a catalog, or Unavailable
    feed,      \* what the remote URL answers
    edits,     \* changes of the two so far
    svc,       \* [pricing, byProvider, catalog]: the fields under s.mu
    loader,    \* the goroutine of loadPricing and refreshLoop, with its locals
    done,      \* s.done is closed
    loaded     \* history: the sources of the last publication

vars == <<file, feed, edits, svc, loader, done, loaded>>

-----------------------------------------------------------------------------
(* parseCatalog, fetchRemote, overlayCatalog                               *)

Section(c, p) == IF p \in DOMAIN c.sections THEN c.sections[p] ELSE NoMap
Listed(c, m) == { p \in Providers : m \in DOMAIN Section(c, p) }

FirstLister(c, m) ==
    ProviderOrder[CHOOSE i \in DOMAIN ProviderOrder :
        /\ ProviderOrder[i] \in Listed(c, m)
        /\ \A j \in 1..(i - 1) : ProviderOrder[j] \notin Listed(c, m)]

CatalogDefaults(c) ==
    [m \in { x \in Models : Listed(c, x) # {} } |-> Section(c, FirstLister(c, m))[m]]

RouteIsServedAnyModel(c, e) == e.provider \in DOMAIN c.sections /\ ~e.setsModel

RouteIsServed(c, e) ==
    /\ e.provider \in DOMAIN c.sections
    /\ e.model \in DOMAIN c.sections[e.provider]
    /\ ~e.setsModel

\* The routes of a slug keep their places in the file; one that is not
\* served leaves a gap, a slug without any is left out.
Served(c, slug) == { i \in DOMAIN c.routes[slug] : RouteIsServed(c, c.routes[slug][i]) }
Joined(c, slug) ==
    [i \in Served(c, slug) |-> <<c.routes[slug][i].provider, c.routes[slug][i].model>>]

CatalogRoutesKeepsEmpty(c) == [slug \in DOMAIN c.routes |-> Joined(c, slug)]

CatalogRoutes(c) ==
    [slug \in { s \in DOMAIN c.routes : Served(c, s) # {} } |-> Joined(c, slug)]

\* The entries of the feed are applied in order: a later entry replaces the
\* price of the same id (and of the same vendor and id).
LastEntry(f, at) == f[Max(at)]

FeedDefaults(f) ==
    LET Of(m) == { i \in DOMAIN f : f[i].id = m }
    IN [m \in { f[i].id : i \in DOMAIN f } |-> LastEntry(f, Of(m)).price]

FeedByVendor(f) ==
    LET Of(v) == { i \in DOMAIN f : f[i].vendor = v }
        OfModel(v, m) == { i \in Of(v) : f[i].id = m }
    IN [v \in { f[i].vendor : i \in DOMAIN f } \ {""} |->
           [m \in { f[i].id : i \in Of(v) } |-> LastEntry(f, OfModel(v, m)).price]]

\* Every entry of over replaces the entry of base with the same key.
OverOnlyMissing(over, base) ==
    [x \in DOMAIN over \cup DOMAIN base |-> IF x \in DOMAIN base THEN base[x] ELSE over[x]]

Over(over, base) ==
    [x \in DOMAIN over \cup DOMAIN base |-> IF x \in DOMAIN over THEN over[x] ELSE base[x]]

OverlayDefaults(c, base) == Over(CatalogDefaults(c), base)

OverlayByProvider(c, base) ==
    [p \in DOMAIN c.sections \cup DOMAIN base |->
        Over(Section(c, p), IF p \in DOMAIN base THEN base[p] ELSE NoMap)]

-----------------------------------------------------------------------------
(* resolve: the provider's own entries, then the model defaults, each for  *)
(* the exact id and for the undated one, the defaults also by alias.       *)

Base(m) == IF m \in DOMAIN Undated THEN <<Undated[m]>> ELSE <<>>
Alias(m) == IF m \in DOMAIN Aliases THEN <<Aliases[m]>> ELSE <<>>

OwnKeys(m) == <<m>> \o Base(m)
DefaultKeys(m) ==
    <<m>> \o Alias(m) \o Base(m) \o (IF m \in DOMAIN Undated THEN Alias(Undated[m]) ELSE <<>>)

FirstIn(map, keys) ==
    LET hits == { i \in DOMAIN keys : keys[i] \in DOMAIN map }
    IN IF hits = {} THEN Unpriced ELSE map[keys[Min(hits)]]

OwnPrice(byProvider, p, m) ==
    IF p \in DOMAIN byProvider THEN FirstIn(byProvider[p], OwnKeys(m)) ELSE Unpriced

Resolve(s, p, m) ==
    LET own == OwnPrice(s.byProvider, p, m)
    IN IF own # Unpriced THEN own ELSE FirstIn(s.pricing, DefaultKeys(m))

-----------------------------------------------------------------------------
Idle == [pc |-> "idle"]

Init ==
    /\ file \in Catalogs \cup {Unavailable}
    /\ feed \in Feeds \cup {Unavailable, NoRemote}
    /\ edits = 0
    /\ svc = [pricing |-> NoMap, byProvider |-> NoMap, catalog |-> NoMap]
    /\ loader = [pc |-> "read", initial |-> TRUE]
    /\ done = FALSE
    /\ loaded = [catalog |-> Unavailable, feed |-> Unavailable]

\* reload, first half: the catalog file is read and parsed.
ReadCatalog ==
    /\ loader.pc = "read"
    /\ loader' = [pc |-> "fetch", initial |-> loader.initial, local |-> file]
    /\ UNCHANGED <<file, feed, edits, svc, done, loaded>>

\* The remote answers: its prices are what the overlay starts from.
FetchRemote ==
    /\ loader.pc = "fetch"
    /\ feed \in Feeds
    /\ loader' = [pc |-> "swap", local |-> loader.local, remote |-> feed,
                  pricing |-> FeedDefaults(feed), byProvider |-> FeedByVendor(feed)]
    /\ UNCHANGED <<file, feed, edits, svc, done, loaded>>

\* The overlay will start from empty maps.
CatalogAlone(c) ==
    [pc |-> "swap", local |-> c, remote |-> Unavailable,
     pricing |-> NoMap, byProvider |-> NoMap]

\* It does not: only the initial load goes on, and only with a catalog.
FallsBackAlways == loader.local # Unavailable

FallsBack == loader.initial /\ loader.local # Unavailable

FetchFailsEndsLoop ==
    /\ loader.pc = "fetch"
    /\ feed = Unavailable
    /\ loader' = IF FallsBack THEN CatalogAlone(loader.local) ELSE [pc |-> "exited"]
    /\ UNCHANGED <<file, feed, edits, svc, done, loaded>>

FetchFails ==
    /\ loader.pc = "fetch"
    /\ feed = Unavailable
    /\ loader' = IF FallsBack
                 THEN CatalogAlone(loader.local)
                 ELSE Idle
    /\ UNCHANGED <<file, feed, edits, svc, done, loaded>>

\* There is none to ask.
SkipRemote ==
    /\ loader.pc = "fetch"
    /\ feed = NoRemote
    /\ loader' = IF loader.local = Unavailable THEN Idle ELSE CatalogAlone(loader.local)
    /\ UNCHANGED <<file, feed, edits, svc, done, loaded>>

\* The overlay is computed on the new maps, which the lock then publishes.
Swap ==
    /\ loader.pc = "swap"
    /\ svc' = IF loader.local = Unavailable
              THEN [svc EXCEPT !.pricing = loader.pricing, !.byProvider = loader.byProvider]
              ELSE [pricing |-> OverlayDefaults(loader.local, loader.pricing),
                    byProvider |-> OverlayByProvider(loader.local, loader.byProvider),
                    catalog |-> CatalogRoutes(loader.local)]
    /\ loaded' = [catalog |-> loader.local, feed |-> loader.remote]
    /\ loader' = Idle
    /\ UNCHANGED <<file, feed, edits, done>>

\* refreshLoop: a tick starts a reload; a closed done ends the loop.  With
\* both ready the select may take either.
Tick ==
    /\ loader.pc = "idle"
    /\ loader' = [pc |-> "read", initial |-> FALSE]
    /\ UNCHANGED <<file, feed, edits, svc, done, loaded>>

LoopExit ==
    /\ loader.pc = "idle"
    /\ done
    /\ loader' = [pc |-> "exited"]
    /\ UNCHANGED <<file, feed, edits, svc, done, loaded>>

\* Close, once the service has been built.
Close ==
    /\ ~done
    /\ loader.pc # "exited"
    /\ ~("initial" \in DOMAIN loader /\ loader.initial)
    /\ done' = TRUE
    /\ UNCHANGED <<file, feed, edits, svc, loader, loaded>>

\* The operator edits the catalog file; the feed changes or goes away.
Edit ==
    /\ edits < MaxEdits
    /\ edits' = edits + 1
    /\ \/ file' \in (Catalogs \cup {Unavailable}) \ {file} /\ UNCHANGED feed
       \/ /\ feed # NoRemote
          /\ feed' \in (Feeds \cup {Unavailable}) \ {feed}
          /\ UNCHANGED file
    /\ UNCHANGED <<svc, loader, done, loaded>>

Next ==
    \/ ReadCatalog \/ FetchRemote \/ FetchFails \/ SkipRemote \/ Swap
    \/ Tick \/ LoopExit \/ Close \/ Edit

Spec == Init /\ [][Next]_vars

(* The loader is a goroutine that runs while it can, the file read and the *)
(* fetch (30 s timeout) return, and the ticker fires while the loop waits. *)
FairSpec ==
    /\ Spec
    /\ WF_vars(ReadCatalog \/ FetchRemote \/ FetchFails \/ SkipRemote \/ Swap \/ Tick)

-----------------------------------------------------------------------------
(***************************************************************************)
(* Properties                                                              *)
(***************************************************************************)

TypeOK ==
    /\ file \in Catalogs \cup {Unavailable}
    /\ feed \in Feeds \cup {Unavailable, NoRemote}
    /\ edits \in 0..MaxEdits
    /\ loader.pc \in {"read", "fetch", "swap", "idle", "exited"}
    /\ done \in BOOLEAN
    /\ \A p \in Providers \cup {""}, m \in Models :
           Resolve(svc, p, m) \in Prices \cup {Unpriced}
    /\ \A s \in DOMAIN svc.catalog :
           DOMAIN svc.catalog[s] # {} /\ Range(svc.catalog[s]) \subseteq Providers \X Models

(* service.go:192-194: readers never observe remote prices without the     *)
(* local catalog applied on top.  While the prices in force were built     *)
(* with a catalog, whatever the feed of the time listed, every model of a  *)
(* section costs its provider's traffic what the section says, and a model *)
(* asked for without a provider what the first section that lists it says. *)
CatalogAppliedOnTop ==
    LET c == loaded.catalog IN
    c # Unavailable =>
        \A m \in Models :
            /\ \A p \in Listed(c, m) : Resolve(svc, p, m) = Section(c, p)[m]
            /\ Listed(c, m) # {} => Resolve(svc, "", m) = Section(c, FirstLister(c, m))[m]

(* service.go:336-342: routes are joined to their provider sections.  The  *)
(* router never gets an endpoint that its provider's section does not      *)
(* price, so that no routed request goes out at an unknown price; a        *)
(* publication without a catalog keeps the routes and loses that.          *)
RoutedEndpointsPriced ==
    LET c == loaded.catalog IN
    c # Unavailable =>
        \A s \in DOMAIN svc.catalog : \A e \in Range(svc.catalog[s]) :
            e[2] \in DOMAIN Section(c, e[1]) /\ Resolve(svc, e[1], e[2]) = Section(c, e[1])[e[2]]

(* service.go:201-204: a refresh that cannot reach the feed "keeps the     *)
(* current state so remote-only prices already loaded are not dropped".  A *)
(* model that every version of the feed lists never loses its price again, *)
(* whichever source fails in which order.                                  *)
AlwaysFed == { m \in Models : \A f \in Feeds : m \in DOMAIN FeedDefaults(f) }
KeepsPrice(m) ==
    loaded.feed # Unavailable /\ Resolve(svc, "", m) # Unpriced
        => (Resolve(svc, "", m) # Unpriced)'
FedModelsStayPriced == [][\A m \in AlwaysFed : KeepsPrice(m)]_vars

(* What the operator writes and the feed publishes reaches the readers:    *)
(* when both sources settle on readable contents and the service is not    *)
(* closed, the prices in force end up built from them, whatever failed     *)
(* before.                                                                 *)
SourcesReachReaders ==
    \A c \in Catalogs, f \in Feeds :
        <>[](file = c /\ feed = f /\ ~done)
            => <>[](loaded = [catalog |-> c, feed |-> f])

=============================================================================
