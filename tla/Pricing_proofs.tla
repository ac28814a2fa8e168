---------------------------- MODULE Pricing_proofs ----------------------------
(***************************************************************************)
(* For every catalog, every feed and every list of aliases: the prices in  *)
(* force are the feed's with the catalog on top, whichever source failed   *)
(* before.  The invariant says exactly what the fields under s.mu hold: a  *)
(* function of the two sources of the last publication.  Minima and maxima *)
(* of sets of positions exist because < is well founded on Nat.            *)
(***************************************************************************)
EXTENDS Pricing, WellFoundedInduction, TLAPS

LEMMA LeastNat ==
  ASSUME NEW T, T \subseteq Nat, T # {}
  PROVE  \E x \in T : \A y \in T : x <= y
<1> DEFINE R == OpToRel(<, Nat)
<1>1. IsWellFoundedOn(R, Nat)
  BY NatLessThanWellFounded
<1>2. \A x, y \in Nat : ~(<<y, x>> \in R) => x <= y
  BY DEF OpToRel
<1> HIDE DEF R
<1>3. PICK x \in T : \A y \in T : ~(<<y, x>> \in R)
  BY <1>1, WFMin
<1>4. \A y \in T : x <= y
  BY <1>2, <1>3
<1> QED
  BY <1>4

(* The first and the last of a set of positions.                           *)
LEMMA MinIsFirst ==
  ASSUME NEW T, T \subseteq Nat, T # {}
  PROVE  Min(T) \in T /\ \A y \in T : Min(T) <= y
BY LeastNat DEF Min

LEMMA MaxIsLast ==
  ASSUME NEW n \in Nat, NEW T, T \subseteq 1..n, T # {}
  PROVE  Max(T) \in T
<1> DEFINE D == { n - i : i \in T }
<1>1. PICK d \in D : \A e \in D : d <= e
  <2>1. D \subseteq Nat
    OBVIOUS
  <2>2. PICK i \in T : TRUE
    OBVIOUS
  <2>3. n - i \in D
    OBVIOUS
  <2> QED
    BY <2>1, <2>3, LeastNat
<1>2. PICK x \in T : d = n - x
  OBVIOUS
<1>3. ASSUME NEW y \in T PROVE x >= y
  <2>1. n - y \in D
    OBVIOUS
  <2>2. n - x <= n - y
    BY <1>1, <1>2, <2>1
  <2> QED
    BY <2>2
<1> QED
  BY <1>3 DEF Max

-----------------------------------------------------------------------------
(* What the operators of resolve return.                                   *)

IsPriceMap(map) == \A x \in DOMAIN map : map[x] \in Prices

LEMMA FirstInType ==
  ASSUME NEW map, IsPriceMap(map), NEW S, NEW keys \in Seq(S)
  PROVE  FirstIn(map, keys) \in Prices \cup {Unpriced}
<1> DEFINE hits == { i \in DOMAIN keys : keys[i] \in DOMAIN map }
<1>1. CASE hits = {}
  BY <1>1 DEF FirstIn
<1>2. CASE hits # {}
  <2>1. hits \subseteq Nat
    OBVIOUS
  <2>2. Min(hits) \in hits
    BY <1>2, <2>1, MinIsFirst
  <2>3. FirstIn(map, keys) = map[keys[Min(hits)]]
    BY <1>2 DEF FirstIn
  <2> QED
    BY <2>2, <2>3 DEF IsPriceMap
<1> QED
  BY <1>1, <1>2

(* The exact id comes first.                                               *)
LEMMA FirstInExact ==
  ASSUME NEW map, NEW S, NEW keys \in Seq(S), Len(keys) > 0, keys[1] \in DOMAIN map
  PROVE  FirstIn(map, keys) = map[keys[1]]
<1> DEFINE hits == { i \in DOMAIN keys : keys[i] \in DOMAIN map }
<1>1. 1 \in hits /\ hits \subseteq Nat /\ \A i \in hits : 1 <= i
  OBVIOUS
<1>2. FirstIn(map, keys) = map[keys[Min(hits)]]
  BY <1>1 DEF FirstIn
<1> HIDE DEF hits
<1>3. Min(hits) \in hits /\ Min(hits) <= 1
  BY <1>1, MinIsFirst
<1> DEFINE first == Min(hits)
<1> HIDE DEF first
<1>4. first \in Nat /\ 1 <= first /\ first <= 1
  BY <1>1, <1>3 DEF first
<1>5. first = 1
  BY <1>4
<1> QED
  BY <1>2, <1>5 DEF first

Ids(m) == {m} \cup Range(Undated) \cup Range(Aliases)

LEMMA KeyLists ==
  ASSUME NEW m
  PROVE  /\ OwnKeys(m) \in Seq(Ids(m)) /\ Len(OwnKeys(m)) > 0 /\ OwnKeys(m)[1] = m
         /\ DefaultKeys(m) \in Seq(Ids(m)) /\ Len(DefaultKeys(m)) > 0 /\ DefaultKeys(m)[1] = m
<1>1. \A x \in DOMAIN Undated : Undated[x] \in Ids(m)
  BY DEF Ids, Range
<1>2. \A x \in DOMAIN Aliases : Aliases[x] \in Ids(m)
  BY DEF Ids, Range
<1>3. m \in Ids(m)
  BY DEF Ids
<1>4. Base(m) \in Seq(Ids(m)) /\ \A x : Alias(x) \in Seq(Ids(m))
  BY <1>1, <1>2 DEF Base, Alias
<1>5. OwnKeys(m) \in Seq(Ids(m)) /\ Len(OwnKeys(m)) > 0 /\ OwnKeys(m)[1] = m
  BY <1>3, <1>4 DEF OwnKeys
<1>6. DefaultKeys(m) \in Seq(Ids(m)) /\ Len(DefaultKeys(m)) > 0 /\ DefaultKeys(m)[1] = m
  <2> DEFINE last == IF m \in DOMAIN Undated THEN Alias(Undated[m]) ELSE <<>>
             rest == Alias(m) \o Base(m) \o last
  <2>1. last \in Seq(Ids(m))
    BY <1>4
  <2> HIDE DEF last
  <2>2. DefaultKeys(m) = <<m>> \o Alias(m) \o Base(m) \o last
    BY DEF DefaultKeys, last
  <2>3. <<m>> \o Alias(m) \in Seq(Ids(m)) /\ Len(<<m>> \o Alias(m)) > 0
        /\ (<<m>> \o Alias(m))[1] = m
    BY <1>3, <1>4
  <2> DEFINE a == <<m>> \o Alias(m)
  <2> HIDE DEF a
  <2>4. a \o Base(m) \in Seq(Ids(m)) /\ Len(a \o Base(m)) > 0 /\ (a \o Base(m))[1] = m
    BY <1>4, <2>3 DEF a
  <2> DEFINE b == a \o Base(m)
  <2> HIDE DEF b
  <2>5. b \o last \in Seq(Ids(m)) /\ Len(b \o last) > 0 /\ (b \o last)[1] = m
    BY <2>1, <2>4 DEF b
  <2> QED
    BY <2>2, <2>5 DEF a, b
<1> QED
  BY <1>5, <1>6

\* A service whose maps hold prices.
IsPriced(s) ==
  /\ IsPriceMap(s.pricing)
  /\ \A p \in DOMAIN s.byProvider : IsPriceMap(s.byProvider[p])

LEMMA ResolveType ==
  ASSUME NEW s, IsPriced(s), NEW p, NEW m
  PROVE  Resolve(s, p, m) \in Prices \cup {Unpriced}
<1>1. FirstIn(s.pricing, DefaultKeys(m)) \in Prices \cup {Unpriced}
  BY KeyLists, FirstInType DEF IsPriced
<1>2. OwnPrice(s.byProvider, p, m) \in Prices \cup {Unpriced}
  BY KeyLists, FirstInType DEF IsPriced, OwnPrice
<1> QED
  BY <1>1, <1>2 DEF Resolve

(* A provider's own entry for the exact id wins.                           *)
LEMMA ResolveOwn ==
  ASSUME NEW s, NEW p \in DOMAIN s.byProvider, NEW m \in DOMAIN s.byProvider[p],
         s.byProvider[p][m] \in Prices
  PROVE  Resolve(s, p, m) = s.byProvider[p][m]
<1>1. OwnPrice(s.byProvider, p, m) = s.byProvider[p][m]
  BY KeyLists, FirstInExact DEF OwnPrice
<1> QED
  BY <1>1, SourcesAreSeparate DEF Resolve

(* Without own entries the default of the exact id does.                   *)
LEMMA ResolveDefault ==
  ASSUME NEW s, NEW p, p \notin DOMAIN s.byProvider, NEW m \in DOMAIN s.pricing
  PROVE  Resolve(s, p, m) = s.pricing[m]
<1>1. FirstIn(s.pricing, DefaultKeys(m)) = s.pricing[m]
  BY KeyLists, FirstInExact
<1> QED
  BY <1>1 DEF Resolve, OwnPrice

LEMMA ResolvePriced ==
  ASSUME NEW s, IsPriced(s), NEW p, NEW m \in DOMAIN s.pricing
  PROVE  Resolve(s, p, m) # Unpriced
<1>1. FirstIn(s.pricing, DefaultKeys(m)) = s.pricing[m]
  BY KeyLists, FirstInExact
<1>2. s.pricing[m] # Unpriced
  BY SourcesAreSeparate DEF IsPriced, IsPriceMap
<1> QED
  BY <1>1, <1>2 DEF Resolve

-----------------------------------------------------------------------------
(* What the two sources hold.                                              *)

LEMMA FirstListerLists ==
  ASSUME NEW c, NEW m, Listed(c, m) # {}
  PROVE  FirstLister(c, m) \in Listed(c, m)
<1> DEFINE at == { i \in DOMAIN ProviderOrder : ProviderOrder[i] \in Listed(c, m) }
<1>0. ProviderOrder \in Seq(Providers)
  BY ContentsAreDecoded
<1>1. DOMAIN ProviderOrder = 1..Len(ProviderOrder)
  BY <1>0
<1>2. at \subseteq Nat
  BY <1>1
<1>3. at # {}
  BY DEF Listed, Providers, Range
<1>4. PICK i \in at : \A j \in at : i <= j
  BY <1>2, <1>3, LeastNat
<1>5. \A j \in 1..(i - 1) : ProviderOrder[j] \notin Listed(c, m)
  <2> SUFFICES ASSUME NEW j \in 1..(i - 1), ProviderOrder[j] \in Listed(c, m) PROVE FALSE
    OBVIOUS
  <2>1. j \in at
    BY <1>1
  <2> QED
    BY <1>1, <1>4, <2>1
<1>6. \E k \in DOMAIN ProviderOrder :
        /\ ProviderOrder[k] \in Listed(c, m)
        /\ \A j \in 1..(k - 1) : ProviderOrder[j] \notin Listed(c, m)
  BY <1>5
<1> QED
  BY <1>6 DEF FirstLister

LEMMA SectionPriced ==
  ASSUME NEW c \in Catalogs, NEW p
  PROVE  /\ IsPriceMap(Section(c, p))
         /\ DOMAIN Section(c, p) \subseteq Models
BY ContentsAreDecoded DEF IsPriceMap, Section, NoMap

LEMMA CatalogDefaultsPriced ==
  ASSUME NEW c \in Catalogs
  PROVE  IsPriceMap(CatalogDefaults(c))
<1> SUFFICES ASSUME NEW m \in Models, Listed(c, m) # {}
             PROVE  Section(c, FirstLister(c, m))[m] \in Prices
  BY DEF CatalogDefaults, IsPriceMap
<1>1. m \in DOMAIN Section(c, FirstLister(c, m))
  BY FirstListerLists DEF Listed
<1> QED
  BY <1>1, SectionPriced DEF IsPriceMap

LEMMA LastEntryPriced ==
  ASSUME NEW f \in Feeds, NEW at, at \subseteq DOMAIN f, at # {}
  PROVE  LastEntry(f, at).price \in Prices
<1>0. f \in Seq(Range(f))
  BY ContentsAreDecoded
<1>1. DOMAIN f = 1..Len(f) /\ Len(f) \in Nat
  BY <1>0
<1>2. Max(at) \in at
  BY <1>1, MaxIsLast
<1> QED
  BY <1>2, ContentsAreDecoded DEF LastEntry

LEMMA FeedPriced ==
  ASSUME NEW f \in Feeds
  PROVE  /\ IsPriceMap(FeedDefaults(f))
         /\ \A v \in DOMAIN FeedByVendor(f) : IsPriceMap(FeedByVendor(f)[v])
         /\ "" \notin DOMAIN FeedByVendor(f)
<1>1. IsPriceMap(FeedDefaults(f))
  <2> SUFFICES ASSUME NEW k \in DOMAIN f
               PROVE  LastEntry(f, { i \in DOMAIN f : f[i].id = f[k].id }).price \in Prices
    BY DEF FeedDefaults, IsPriceMap
  <2>1. { i \in DOMAIN f : f[i].id = f[k].id } # {}
    OBVIOUS
  <2> QED
    BY <2>1, LastEntryPriced
<1>2. ASSUME NEW v \in DOMAIN FeedByVendor(f) PROVE IsPriceMap(FeedByVendor(f)[v])
  <2> DEFINE Of == { i \in DOMAIN f : f[i].vendor = v }
             OfModel(m) == { i \in Of : f[i].id = m }
  <2>1. FeedByVendor(f)[v] = [m \in { f[i].id : i \in Of } |-> LastEntry(f, OfModel(m)).price]
    BY DEF FeedByVendor
  <2>2. ASSUME NEW k \in Of PROVE LastEntry(f, OfModel(f[k].id)).price \in Prices
    <3>1. OfModel(f[k].id) # {} /\ OfModel(f[k].id) \subseteq DOMAIN f
      OBVIOUS
    <3> QED
      BY <3>1, LastEntryPriced
  <2> QED
    BY <2>1, <2>2 DEF IsPriceMap
<1>3. "" \notin DOMAIN FeedByVendor(f)
  BY DEF FeedByVendor
<1> QED
  BY <1>1, <1>2, <1>3

LEMMA OverPriced ==
  ASSUME NEW over, NEW base, IsPriceMap(over), IsPriceMap(base)
  PROVE  IsPriceMap(Over(over, base))
BY DEF Over, IsPriceMap

LEMMA EmptyPriced == IsPriceMap(NoMap) /\ DOMAIN NoMap = {}
BY DEF NoMap, IsPriceMap

-----------------------------------------------------------------------------
(* What the fields under s.mu hold, from the sources of the publication:   *)
(* nothing or a feed, and on top of it nothing or a catalog.               *)
FeedBase(f) == IF f = Unavailable THEN NoMap ELSE FeedDefaults(f)
VendorBase(f) == IF f = Unavailable THEN NoMap ELSE FeedByVendor(f)

Holds(s, c, f) ==
  IF c = Unavailable
  THEN s.pricing = FeedBase(f) /\ s.byProvider = VendorBase(f)
  ELSE /\ s.pricing = OverlayDefaults(c, FeedBase(f))
       /\ s.byProvider = OverlayByProvider(c, VendorBase(f))
       /\ s.catalog = CatalogRoutes(c)

MaybeCatalog == Catalogs \cup {Unavailable}
MaybeFeed == Feeds \cup {Unavailable}

LEMMA BasePriced ==
  ASSUME NEW f \in MaybeFeed
  PROVE  /\ IsPriceMap(FeedBase(f))
         /\ \A v \in DOMAIN VendorBase(f) : IsPriceMap(VendorBase(f)[v])
         /\ "" \notin DOMAIN VendorBase(f)
BY FeedPriced, EmptyPriced DEF MaybeFeed, FeedBase, VendorBase

LEMMA HeldIsPriced ==
  ASSUME NEW c \in MaybeCatalog, NEW f \in MaybeFeed, NEW s, Holds(s, c, f)
  PROVE  IsPriced(s)
<1>1. CASE c = Unavailable
  BY <1>1, BasePriced DEF Holds, IsPriced
<1>2. CASE c # Unavailable
  <2>1. c \in Catalogs
    BY <1>2 DEF MaybeCatalog
  <2>2. IsPriceMap(s.pricing)
    BY <1>2, <2>1, BasePriced, CatalogDefaultsPriced, OverPriced DEF Holds, OverlayDefaults
  <2>3. ASSUME NEW p \in DOMAIN s.byProvider PROVE IsPriceMap(s.byProvider[p])
    <3> DEFINE base == VendorBase(f)
               own == IF p \in DOMAIN base THEN base[p] ELSE NoMap
    <3>1. s.byProvider[p] = Over(Section(c, p), own)
      BY <1>2 DEF Holds, OverlayByProvider
    <3>2. IsPriceMap(own)
      BY BasePriced, EmptyPriced
    <3>3. IsPriceMap(Section(c, p))
      BY <2>1, SectionPriced
    <3> QED
      BY <3>1, <3>2, <3>3, OverPriced
  <2> QED
    BY <2>2, <2>3 DEF IsPriced
<1> QED
  BY <1>1, <1>2

(* With a catalog, its sections price their own traffic ...                *)
LEMMA SectionWins ==
  ASSUME NEW c \in Catalogs, NEW f \in MaybeFeed, NEW s, Holds(s, c, f),
         NEW m, NEW p \in Listed(c, m)
  PROVE  Resolve(s, p, m) = Section(c, p)[m]
<1>1. c # Unavailable
  BY SourcesAreSeparate
<1>2. m \in DOMAIN Section(c, p) /\ p \in DOMAIN c.sections
  BY DEF Listed, Section, NoMap
<1>3. /\ p \in DOMAIN s.byProvider /\ m \in DOMAIN s.byProvider[p]
      /\ s.byProvider[p][m] = Section(c, p)[m]
  <2> DEFINE base == VendorBase(f)
             own == IF p \in DOMAIN base THEN base[p] ELSE NoMap
  <2>1. p \in DOMAIN s.byProvider /\ s.byProvider[p] = Over(Section(c, p), own)
    BY <1>1, <1>2 DEF Holds, OverlayByProvider
  <2> HIDE DEF own
  <2> QED
    BY <1>2, <2>1 DEF Over
<1>4. Section(c, p)[m] \in Prices
  BY <1>2, SectionPriced DEF IsPriceMap
<1> QED
  BY <1>3, <1>4, ResolveOwn

(* ... and the first section that lists a model its traffic without a      *)
(* provider.                                                               *)
LEMMA FirstSectionWins ==
  ASSUME NEW c \in Catalogs, NEW f \in MaybeFeed, NEW s, Holds(s, c, f),
         NEW m \in Models, Listed(c, m) # {}
  PROVE  Resolve(s, "", m) = Section(c, FirstLister(c, m))[m]
<1>1. c # Unavailable
  BY SourcesAreSeparate
<1>2. "" \notin DOMAIN s.byProvider
  BY <1>1, BasePriced, ContentsAreDecoded DEF Holds, OverlayByProvider
<1>3. m \in DOMAIN CatalogDefaults(c)
      /\ CatalogDefaults(c)[m] = Section(c, FirstLister(c, m))[m]
  BY DEF CatalogDefaults
<1>4. m \in DOMAIN s.pricing /\ s.pricing[m] = CatalogDefaults(c)[m]
  BY <1>1, <1>3 DEF Holds, OverlayDefaults, Over
<1> QED
  BY <1>2, <1>3, <1>4, ResolveDefault

(* What is routed is in its section.                                       *)
RoutesOK(cat) ==
  \A slug \in DOMAIN cat : /\ DOMAIN cat[slug] # {}
                           /\ Range(cat[slug]) \subseteq Providers \X Models

LEMMA CatalogRoutesOK ==
  ASSUME NEW c \in Catalogs
  PROVE  /\ RoutesOK(CatalogRoutes(c))
         /\ \A slug \in DOMAIN CatalogRoutes(c) : \A e \in Range(CatalogRoutes(c)[slug]) :
              e[1] \in Listed(c, e[2])
<1> SUFFICES ASSUME NEW slug \in DOMAIN CatalogRoutes(c)
             PROVE  /\ DOMAIN CatalogRoutes(c)[slug] # {}
                    /\ \A e \in Range(CatalogRoutes(c)[slug]) :
                         e \in Providers \X Models /\ e[1] \in Listed(c, e[2])
  BY DEF RoutesOK
<1>1. CatalogRoutes(c)[slug] = Joined(c, slug) /\ Served(c, slug) # {}
  BY DEF CatalogRoutes
<1>2. DOMAIN CatalogRoutes(c)[slug] # {}
  BY <1>1 DEF Joined
<1>3. ASSUME NEW e \in Range(CatalogRoutes(c)[slug])
      PROVE  e \in Providers \X Models /\ e[1] \in Listed(c, e[2])
  <2>1. PICK i \in Served(c, slug) : e = <<c.routes[slug][i].provider, c.routes[slug][i].model>>
    BY <1>1 DEF Joined, Range
  <2>2. e[1] \in DOMAIN c.sections /\ e[2] \in DOMAIN c.sections[e[1]]
    BY <2>1 DEF Served, RouteIsServed
  <2>3. e[1] \in Providers /\ e[2] \in Models
    BY <2>2, ContentsAreDecoded
  <2> QED
    BY <2>1, <2>2, <2>3 DEF Listed, Section
<1> QED
  BY <1>2, <1>3

-----------------------------------------------------------------------------
(* The inductive invariant.                                                *)

LoaderOK ==
  /\ loader.pc \in {"read", "fetch", "swap", "idle", "exited"}
  /\ loader.pc = "fetch" => loader.local \in MaybeCatalog
  /\ loader.pc = "swap" =>
       /\ loader.local \in MaybeCatalog /\ loader.remote \in MaybeFeed
       /\ loader.remote = Unavailable => loader.local # Unavailable
       /\ loader.pricing = FeedBase(loader.remote)
       /\ loader.byProvider = VendorBase(loader.remote)

StateOK ==
  /\ file \in MaybeCatalog
  /\ feed \in MaybeFeed \cup {NoRemote}
  /\ edits \in 0..MaxEdits
  /\ done \in BOOLEAN
  /\ DOMAIN svc = {"pricing", "byProvider", "catalog"}
  /\ loaded.catalog \in MaybeCatalog /\ loaded.feed \in MaybeFeed

\* Once a feed is in force no publication is built without one: there is a
\* remote, and a failed fetch falls back to the catalog at the start only.
FeedKept ==
  /\ feed = NoRemote =>
       /\ loaded.feed = Unavailable
       /\ loader.pc = "swap" => loader.remote = Unavailable
  /\ loaded.feed # Unavailable =>
       /\ loader.pc \in {"read", "fetch"} => ~loader.initial
       /\ loader.pc = "swap" => loader.remote # Unavailable

IInv ==
  /\ LoaderOK
  /\ StateOK
  /\ Holds(svc, loaded.catalog, loaded.feed)
  /\ RoutesOK(svc.catalog)
  /\ FeedKept

LEMMA InitIInv == Init => IInv
<1> SUFFICES ASSUME Init PROVE IInv
  OBVIOUS
<1> USE SourcesAreSeparate
<1>1. LoaderOK /\ FeedKept
  BY DEF Init, LoaderOK, FeedKept
<1>4. StateOK
  <2>1. edits \in 0..MaxEdits /\ file \in MaybeCatalog /\ feed \in MaybeFeed \cup {NoRemote}
    BY DEF Init, MaybeCatalog, MaybeFeed
  <2>2. svc = [pricing |-> NoMap, byProvider |-> NoMap, catalog |-> NoMap] /\ done = FALSE
        /\ loaded = [catalog |-> Unavailable, feed |-> Unavailable]
    BY DEF Init
  <2>3. DOMAIN svc = {"pricing", "byProvider", "catalog"}
    BY <2>2
  <2> QED
    BY <2>1, <2>2, <2>3 DEF StateOK, MaybeCatalog, MaybeFeed
<1>2. Holds(svc, loaded.catalog, loaded.feed)
  BY DEF Init, Holds, FeedBase, VendorBase
<1>3. RoutesOK(svc.catalog)
  BY DEF Init, RoutesOK, NoMap
<1> QED
  BY <1>1, <1>2, <1>3, <1>4 DEF IInv

\* A step of the loader short of the publication, or one that leaves it.
LEMMA QuietStep ==
  ASSUME IInv, UNCHANGED <<svc, loaded>>, LoaderOK', StateOK', FeedKept'
  PROVE  IInv'
BY DEF IInv

LEMMA LoaderIInv ==
  ASSUME IInv, ReadCatalog \/ Tick \/ LoopExit
  PROVE  IInv'
<1> USE SourcesAreSeparate DEF IInv
<1>1. CASE ReadCatalog
  <2>1. loader' = [pc |-> "fetch", initial |-> loader.initial, local |-> file]
        /\ loader.pc = "read" /\ UNCHANGED <<file, feed, edits, svc, done, loaded>>
    BY <1>1 DEF ReadCatalog
  <2>2. LoaderOK' /\ StateOK' /\ FeedKept'
    BY <2>1 DEF LoaderOK, StateOK, FeedKept
  <2> QED
    BY <2>1, <2>2, QuietStep
<1>2. CASE Tick
  <2>1. LoaderOK' /\ StateOK' /\ FeedKept'
    BY <1>2 DEF Tick, LoaderOK, StateOK, FeedKept
  <2> QED
    BY <1>2, <2>1, QuietStep DEF Tick
<1>3. CASE LoopExit
  <2>1. LoaderOK' /\ StateOK' /\ FeedKept'
    BY <1>3 DEF LoopExit, LoaderOK, StateOK, FeedKept
  <2> QED
    BY <1>3, <2>1, QuietStep DEF LoopExit
<1> QED
  BY <1>1, <1>2, <1>3

LEMMA FetchIInv ==
  ASSUME IInv, FetchRemote \/ FetchFails \/ SkipRemote
  PROVE  IInv'
<1> USE SourcesAreSeparate DEF IInv
<1>1. loader.pc = "fetch" /\ loader.local \in MaybeCatalog
      /\ UNCHANGED <<file, feed, edits, svc, done, loaded>>
  BY DEF FetchRemote, FetchFails, SkipRemote, LoaderOK
<1>2. StateOK'
  BY <1>1 DEF StateOK
<1>3. CASE FetchRemote
  <2>1. feed \in Feeds /\ feed # Unavailable
        /\ loader' = [pc |-> "swap", local |-> loader.local, remote |-> feed,
                      pricing |-> FeedDefaults(feed), byProvider |-> FeedByVendor(feed)]
    BY <1>3 DEF FetchRemote
  <2>2. LoaderOK'
    BY <1>1, <2>1 DEF LoaderOK, MaybeFeed, FeedBase, VendorBase
  <2>3. FeedKept'
    BY <1>1, <2>1 DEF FeedKept
  <2> QED
    BY <1>1, <1>2, <2>2, <2>3, QuietStep
<1>4. CASE loader' = CatalogAlone(loader.local) /\ loader.local # Unavailable
           /\ loaded.feed = Unavailable
  <2>1. LoaderOK'
    BY <1>1, <1>4 DEF CatalogAlone, LoaderOK, MaybeFeed, FeedBase, VendorBase
  <2>2. FeedKept'
    BY <1>1, <1>4 DEF CatalogAlone, FeedKept
  <2> QED
    BY <1>1, <1>2, <2>1, <2>2, QuietStep
<1>5. CASE loader' = Idle
  <2>1. LoaderOK' /\ FeedKept'
    BY <1>1, <1>5 DEF Idle, LoaderOK, FeedKept
  <2> QED
    BY <1>1, <1>2, <2>1, QuietStep
<1>6. CASE FetchFails
  BY <1>1, <1>4, <1>5, <1>6 DEF FetchFails, FallsBack, FeedKept
<1>7. CASE SkipRemote
  BY <1>1, <1>4, <1>5, <1>7 DEF SkipRemote, FeedKept
<1> QED
  BY <1>3, <1>6, <1>7

LEMMA SwapIInv ==
  ASSUME IInv, Swap
  PROVE  IInv'
<1> USE SourcesAreSeparate DEF IInv
<1> DEFINE c == loader.local
           f == loader.remote
<1>1. /\ loader.pc = "swap" /\ c \in MaybeCatalog /\ f \in MaybeFeed
      /\ loader.pricing = FeedBase(f) /\ loader.byProvider = VendorBase(f)
      /\ loaded' = [catalog |-> c, feed |-> f] /\ loader' = Idle
      /\ UNCHANGED <<file, feed, edits, done>>
  BY DEF Swap, LoaderOK
<1>2. svc' = IF c = Unavailable
             THEN [svc EXCEPT !.pricing = FeedBase(f), !.byProvider = VendorBase(f)]
             ELSE [pricing |-> OverlayDefaults(c, FeedBase(f)),
                   byProvider |-> OverlayByProvider(c, VendorBase(f)),
                   catalog |-> CatalogRoutes(c)]
  BY <1>1 DEF Swap
<1> HIDE DEF c, f
<1>3. /\ DOMAIN svc' = {"pricing", "byProvider", "catalog"}
      /\ Holds(svc', c, f)
      /\ RoutesOK(svc'.catalog)
  <2>1. CASE c = Unavailable
    <3>1. svc' = [field \in {"pricing", "byProvider", "catalog"} |->
                    IF field = "pricing" THEN FeedBase(f)
                    ELSE IF field = "byProvider" THEN VendorBase(f) ELSE svc[field]]
      BY <1>2, <2>1 DEF StateOK
    <3>2. /\ svc'.pricing = FeedBase(f) /\ svc'.byProvider = VendorBase(f)
          /\ svc'.catalog = svc.catalog
      BY <3>1
    <3> QED
      BY <2>1, <3>1, <3>2 DEF Holds
  <2>2. CASE c # Unavailable
    BY <1>1, <1>2, <2>2, CatalogRoutesOK DEF Holds, MaybeCatalog
  <2> QED
    BY <2>1, <2>2
<1>4. LoaderOK' /\ FeedKept'
  BY <1>1 DEF Idle, LoaderOK, FeedKept, c, f
<1>5. StateOK'
  BY <1>1, <1>3 DEF StateOK
<1>6. Holds(svc, loaded.catalog, loaded.feed)'
  BY <1>1, <1>3
<1>7. RoutesOK(svc.catalog)'
  BY <1>3
<1> QED
  BY <1>4, <1>5, <1>6, <1>7

LEMMA EditIInv ==
  ASSUME IInv, Close \/ Edit
  PROVE  IInv'
<1> USE SourcesAreSeparate DEF IInv
<1>1. UNCHANGED <<svc, loader, loaded>> /\ (feed = NoRemote <=> feed' = NoRemote)
  BY DEF Close, Edit
<1>2. StateOK'
  <2>1. CASE Close
    BY <2>1 DEF Close, StateOK
  <2>2. CASE Edit
    <3>1. edits' \in 0..MaxEdits
      BY <2>2 DEF Edit, StateOK
    <3>2. file' \in MaybeCatalog /\ feed' \in MaybeFeed \cup {NoRemote}
      BY <2>2 DEF Edit, StateOK, MaybeCatalog, MaybeFeed
    <3> QED
      BY <2>2, <3>1, <3>2 DEF Edit, StateOK
  <2> QED
    BY <2>1, <2>2
<1>3. LoaderOK' /\ FeedKept'
  BY <1>1 DEF LoaderOK, FeedKept
<1> QED
  BY <1>1, <1>2, <1>3, QuietStep

LEMMA NextIInv == IInv /\ [Next]_vars => IInv'
<1> SUFFICES ASSUME IInv, [Next]_vars PROVE IInv'
  OBVIOUS
<1>1. CASE UNCHANGED vars
  BY <1>1 DEF vars, IInv, LoaderOK, StateOK, FeedKept
<1> QED
  BY <1>1, LoaderIInv, FetchIInv, SwapIInv, EditIInv DEF Next

(* The fields under s.mu are always exactly what the sources of the last   *)
(* publication make of them (service.go:190-242): no reader sees a mixture *)
(* of two reloads, or a feed without the catalog that came with it.        *)
THEOREM ReadersSeeOnePublication == Spec => []Holds(svc, loaded.catalog, loaded.feed)
<1> QED
  BY InitIInv, NextIInv, PTL DEF Spec, IInv

(* Every price resolved is a price of a source or none, and every routing  *)
(* entry is a non-empty list of known endpoints.                           *)
THEOREM PricesTyped == Spec => []TypeOK
<1>1. IInv => TypeOK
  <2> SUFFICES ASSUME IInv PROVE TypeOK
    OBVIOUS
  <2>1. \A p \in Providers \cup {""}, m \in Models : Resolve(svc, p, m) \in Prices \cup {Unpriced}
    BY HeldIsPriced, ResolveType DEF IInv, StateOK
  <2> QED
    BY <2>1 DEF IInv, LoaderOK, StateOK, RoutesOK, TypeOK, MaybeCatalog, MaybeFeed
<1> QED
  BY <1>1, InitIInv, NextIInv, PTL DEF Spec

(* The catalog is applied on top of whatever feed is in force: see         *)
(* CatalogAppliedOnTop (service.go:192-194).                               *)
THEOREM CatalogAlwaysOnTop == Spec => []CatalogAppliedOnTop
<1>1. IInv => CatalogAppliedOnTop
  <2> SUFFICES ASSUME IInv, loaded.catalog # Unavailable, NEW m \in Models
               PROVE  LET c == loaded.catalog
                      IN  /\ \A p \in Listed(c, m) : Resolve(svc, p, m) = Section(c, p)[m]
                          /\ Listed(c, m) # {} =>
                               Resolve(svc, "", m) = Section(c, FirstLister(c, m))[m]
    BY DEF CatalogAppliedOnTop
  <2>1. loaded.catalog \in Catalogs /\ loaded.feed \in MaybeFeed
        /\ Holds(svc, loaded.catalog, loaded.feed)
    BY DEF IInv, StateOK, MaybeCatalog
  <2>2. \A p \in Listed(loaded.catalog, m) : Resolve(svc, p, m) = Section(loaded.catalog, p)[m]
    BY <2>1, SectionWins
  <2>3. Listed(loaded.catalog, m) # {} =>
          Resolve(svc, "", m) = Section(loaded.catalog, FirstLister(loaded.catalog, m))[m]
    BY <2>1, FirstSectionWins
  <2> QED
    BY <2>2, <2>3
<1> QED
  BY <1>1, InitIInv, NextIInv, PTL DEF Spec

(* No request is routed to an endpoint whose price its section does not    *)
(* give: see RoutedEndpointsPriced (service.go:336-342).                   *)
THEOREM RoutedEndpointsAlwaysPriced == Spec => []RoutedEndpointsPriced
<1>1. IInv => RoutedEndpointsPriced
  <2> SUFFICES ASSUME IInv, loaded.catalog # Unavailable,
                      NEW slug \in DOMAIN svc.catalog, NEW e \in Range(svc.catalog[slug])
               PROVE  LET c == loaded.catalog
                      IN  /\ e[2] \in DOMAIN Section(c, e[1])
                          /\ Resolve(svc, e[1], e[2]) = Section(c, e[1])[e[2]]
    BY DEF RoutedEndpointsPriced
  <2>1. loaded.catalog \in Catalogs /\ loaded.feed \in MaybeFeed
    BY DEF IInv, StateOK, MaybeCatalog
  <2>2. svc.catalog = CatalogRoutes(loaded.catalog)
    BY DEF IInv, Holds
  <2>3. e[1] \in Listed(loaded.catalog, e[2])
    BY <2>1, <2>2, CatalogRoutesOK
  <2> QED
    BY <2>1, <2>3, SectionWins DEF IInv, Listed
<1> QED
  BY <1>1, InitIInv, NextIInv, PTL DEF Spec

(* A model that every version of the feed lists keeps a price for good,    *)
(* whichever source fails when: see FedModelsStayPriced                    *)
(* (service.go:201-204).                                                   *)
THEOREM FedModelsAlwaysPriced == Spec => FedModelsStayPriced
<1>1. IInv /\ IInv' /\ [Next]_vars => [\A m \in AlwaysFed : KeepsPrice(m)]_vars
  <2> SUFFICES ASSUME IInv, IInv', [Next]_vars, NEW m \in AlwaysFed,
                      loaded.feed # Unavailable, Resolve(svc, "", m) # Unpriced
               PROVE  (Resolve(svc, "", m) # Unpriced)'
    BY DEF KeepsPrice
  <2>1. CASE UNCHANGED svc
    BY <2>1
  <2>2. CASE Swap
    <3> DEFINE f == loader.remote
               c == loader.local
    <3>1. f \in Feeds /\ c \in MaybeCatalog /\ loaded' = [catalog |-> c, feed |-> f]
      BY <2>2 DEF Swap, IInv, FeedKept, LoaderOK, MaybeFeed
    <3> HIDE DEF f, c
    <3>2. Holds(svc', c, f) /\ IsPriced(svc')
      BY <3>1, HeldIsPriced DEF IInv, MaybeFeed
    <3>3. m \in DOMAIN FeedBase(f)
      BY <3>1, SourcesAreSeparate DEF AlwaysFed, FeedBase
    <3>4. m \in DOMAIN svc'.pricing
      BY <3>2, <3>3 DEF Holds, OverlayDefaults, Over
    <3> QED
      BY <3>2, <3>4, ResolvePriced
  <2> QED
    BY <2>1, <2>2 DEF Next, vars, ReadCatalog, FetchRemote, FetchFails, SkipRemote, Tick,
                      LoopExit, Close, Edit
<1>2. Spec => []IInv
  BY InitIInv, NextIInv, PTL DEF Spec
<1> QED
  BY <1>1, <1>2, PTL DEF Spec, FedModelsStayPriced

=============================================================================
