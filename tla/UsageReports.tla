---------------------------- MODULE UsageReports ----------------------------
(***************************************************************************)
(* What the usage API tells about llm_requests while the gateway goes on   *)
(* writing to it: the queries of internal/repositories/usage.go under the  *)
(* filters of internal/services/usage_service.go, reports that take two    *)
(* statements, lists that a client reads page by page, and the waterfall   *)
(* of an agent run (RunTree).                                              *)
(*                                                                         *)
(* A row is inserted when its request is over, or later, but it is filed   *)
(* under requested_at; backfills and cleanups add and remove its metadata  *)
(* value (MetadataIndex).  Every other column is written once.             *)
(***************************************************************************)
EXTENDS RunTree, Integers

CONSTANTS
    Calls,         \* [key, provider, model, ok, trace, path, meta, cost, took]
    Queries,       \* [asks, start, end, days, key, provider, model, status, meta, noRuns,
                   \*  limit]; asks is the endpoint
    None,          \* an absent filter, a request outside of any run
    DayLength,
    DefaultLimit,  \* 50
    MaxLimit,      \* 200
    DefaultErrors, \* 20
    MaxErrors,     \* 100
    MaxRows,       \* bound: rows
    MaxTime        \* bound: the clock

\* A row names the key of its request (handler.go:477), and keys are not deleted.
ASSUME UsageReportsAssumption ==
    /\ DayLength \in Nat \ {0}
    /\ DefaultLimit \in Nat \ {0} /\ MaxLimit \in Nat /\ MaxLimit >= DefaultLimit
    /\ \A c \in Calls : /\ c.cost \in Nat /\ c.took \in Nat /\ c.path \in Seq(STRING)
                        /\ c.key # None
    /\ None \notin Int /\ None # "error"
    /\ \A q \in Queries : /\ q.start \in Int \cup {None} /\ q.end \in Int \cup {None}
                           /\ q.days \in Nat /\ q.limit \in Int
                           /\ q.asks \in {"errors", "latency", "requests", "runs"}
    /\ MaxTime \in Nat

VARIABLES
    now,
    rows,     \* llm_requests, in the order of the inserts
    caller    \* a client of the API: what it asked and has got so far

vars == <<now, rows, caller>>

Idle == [does |-> "nothing"]
Ids == DOMAIN rows
Traces == {c.trace : c \in Calls} \ {None}

-----------------------------------------------------------------------------
(* resolveFilter: a query has explicit bounds or a preset; every call      *)
(* resolves it anew, and the end that is not given is the next midnight.   *)
NextMidnight == (now \div DayLength + 1) * DayLength

Window(q) ==
    IF q.start # None
    THEN <<q.start, IF q.end # None THEN q.end ELSE NextMidnight>>
    ELSE <<NextMidnight - q.days * DayLength, NextMidnight>>

ResolveFilter(q) ==
    [from |-> Window(q)[1], to |-> Window(q)[2], key |-> q.key, provider |-> q.provider,
     model |-> q.model, status |-> q.status, meta |-> q.meta, noRuns |-> q.noRuns]

ClampLimit(v, default, limit) ==
    IF v <= 0 THEN default ELSE IF v > limit THEN limit ELSE v

-----------------------------------------------------------------------------
(* The WHERE clauses, which every query has anew.                          *)
InWindow(i, f) == f.from <= rows[i].at /\ rows[i].at < f.to
Fits(value, wanted) == wanted = None \/ value = wanted
Indexed(i, f) == f.meta = None \/ (rows[i].indexed /\ rows[i].meta = f.meta)

OfStatus(i, status) == status = None \/ (status = "success" <=> rows[i].ok)

SummaryRows(f) ==
    { i \in Ids : /\ InWindow(i, f) /\ Indexed(i, f) /\ Fits(rows[i].key, f.key)
                  /\ Fits(rows[i].provider, f.provider) /\ Fits(rows[i].model, f.model) }

DailyRows(f) ==
    { i \in Ids : /\ InWindow(i, f) /\ Indexed(i, f) /\ Fits(rows[i].key, f.key)
                  /\ Fits(rows[i].provider, f.provider) /\ Fits(rows[i].model, f.model) }

ModelRows(f) ==
    { i \in Ids : /\ InWindow(i, f) /\ Indexed(i, f) /\ Fits(rows[i].key, f.key)
                  /\ Fits(rows[i].provider, f.provider) /\ Fits(rows[i].model, f.model) }

\* Without the call of appendMetadataFilters.
ProviderRowsOfAll(f) ==
    { i \in Ids : /\ InWindow(i, f) /\ Fits(rows[i].key, f.key)
                  /\ Fits(rows[i].provider, f.provider) /\ Fits(rows[i].model, f.model) }

ProviderRows(f) ==
    { i \in Ids : /\ InWindow(i, f) /\ Indexed(i, f) /\ Fits(rows[i].key, f.key)
                  /\ Fits(rows[i].provider, f.provider) /\ Fits(rows[i].model, f.model) }

\* Of the breakdown by key, which does not look at the key of the filter.
AnyKey(f) ==
    { i \in Ids : /\ InWindow(i, f) /\ Indexed(i, f)
                  /\ Fits(rows[i].provider, f.provider) /\ Fits(rows[i].model, f.model) }

\* Of the error rate and of the latencies: the totals, and the series.
ErrorTotals(f) ==
    { i \in Ids : /\ InWindow(i, f) /\ Indexed(i, f) /\ Fits(rows[i].key, f.key)
                  /\ Fits(rows[i].provider, f.provider) /\ Fits(rows[i].model, f.model) }

ErrorDays(f) ==
    { i \in Ids : /\ InWindow(i, f) /\ Indexed(i, f) /\ Fits(rows[i].key, f.key)
                  /\ Fits(rows[i].provider, f.provider) /\ Fits(rows[i].model, f.model) }

LatencyTotals(f) ==
    { i \in Ids : /\ InWindow(i, f) /\ Indexed(i, f) /\ Fits(rows[i].key, f.key)
                  /\ Fits(rows[i].provider, f.provider) /\ Fits(rows[i].model, f.model) }

LatencyDays(f) ==
    { i \in Ids : /\ InWindow(i, f) /\ Indexed(i, f) /\ Fits(rows[i].key, f.key)
                  /\ Fits(rows[i].provider, f.provider) /\ Fits(rows[i].model, f.model) }

ErrorRows(f) ==
    { i \in Ids : /\ InWindow(i, f) /\ Indexed(i, f) /\ Fits(rows[i].key, f.key)
                  /\ Fits(rows[i].provider, f.provider) /\ Fits(rows[i].model, f.model)
                  /\ ~rows[i].ok }

MetadataRows(f) ==
    { i \in Ids : /\ InWindow(i, f) /\ Indexed(i, f) /\ Fits(rows[i].key, f.key)
                  /\ Fits(rows[i].provider, f.provider) /\ Fits(rows[i].model, f.model)
                  /\ rows[i].indexed }

\* Of the list of requests: its count, and its pages.
CountedRequests(f) ==
    { i \in Ids : /\ InWindow(i, f) /\ Indexed(i, f) /\ Fits(rows[i].key, f.key)
                  /\ Fits(rows[i].provider, f.provider) /\ Fits(rows[i].model, f.model)
                  /\ OfStatus(i, f.status) /\ (f.noRuns => rows[i].trace = None) }

Listed(f) ==
    { i \in Ids : /\ InWindow(i, f) /\ Indexed(i, f) /\ Fits(rows[i].key, f.key)
                  /\ Fits(rows[i].provider, f.provider) /\ Fits(rows[i].model, f.model)
                  /\ OfStatus(i, f.status) /\ (f.noRuns => rows[i].trace = None) }

\* Of the list of runs: only the window and the key.
CountedRuns(f) ==
    { i \in Ids : InWindow(i, f) /\ rows[i].trace # None /\ Fits(rows[i].key, f.key) }

OfRuns(f) ==
    { i \in Ids : InWindow(i, f) /\ rows[i].trace # None /\ Fits(rows[i].key, f.key) }

Total(S) ==
    [count |-> Cardinality(S), cost |-> MapThenSumSet(LAMBDA i : rows[i].cost, S),
     errors |-> Cardinality({i \in S : ~rows[i].ok})]

\* GROUP BY
Grouped(S, Column(_)) ==
    [v \in {Column(i) : i \in S} |-> Total({i \in S : Column(i) = v})]

Day(i) == rows[i].at \div DayLength

UsageSummary(f) == Total(SummaryRows(f))
DailyUsage(f) == Grouped(DailyRows(f), Day)
ModelBreakdown(f) == Grouped(ModelRows(f), LAMBDA i : <<rows[i].provider, rows[i].model>>)
ProviderBreakdown(f) == Grouped(ProviderRows(f), LAMBDA i : rows[i].provider)
APIKeyBreakdown(f) == Grouped(AnyKey(f), LAMBDA i : rows[i].key)
MetadataBreakdown(f) == Grouped(MetadataRows(f), LAMBDA i : rows[i].meta)

-----------------------------------------------------------------------------
(* Runs.                                                                   *)
RunsOf(S) == {rows[i].trace : i \in S}
CallsOf(S, t) == {i \in S : rows[i].trace = t}
EndedAt(S, t) == Max({rows[i].done : i \in CallsOf(S, t)})

\* GetRunTree: every call of the run, whenever it was made; calls of one instant
\* come in some order.
RunCalls(t) ==
    LET calls == {i \in Ids : rows[i].trace = t}
        before(i) == {j \in calls : \/ rows[j].at < rows[i].at
                                    \/ rows[j].at = rows[i].at /\ j < i}
    IN [n \in 1..Cardinality(calls) |->
           rows[CHOOSE i \in calls : Cardinality(before(i)) = n - 1]]

(* ORDER BY: requested_at or ended_at, the latest first.  Rows that tie    *)
(* come in either order, and not always in the same.                       *)
RequestsAheadAscending(f, i, flip) ==
    { j \in Listed(f) : \/ rows[j].at < rows[i].at
                        \/ rows[j].at = rows[i].at /\ (IF flip THEN i < j ELSE j < i) }

RequestsAhead(f, i, flip) ==
    { j \in Listed(f) : \/ rows[j].at > rows[i].at
                        \/ rows[j].at = rows[i].at /\ (IF flip THEN i < j ELSE j < i) }

ErrorsAhead(f, i, flip) ==
    { j \in ErrorRows(f) : \/ rows[j].at > rows[i].at
                           \/ rows[j].at = rows[i].at /\ (IF flip THEN i < j ELSE j < i) }

\* The latest errors.
RecentErrors(f, limit, flip) ==
    { i \in ErrorRows(f) : Cardinality(ErrorsAhead(f, i, flip)) < limit }

\* Some order of the runs that end at the same time.
FirstCall(t) == Min({i \in Ids : rows[i].trace = t})
Precedes(t, u, flip) ==
    IF flip THEN FirstCall(u) < FirstCall(t) ELSE FirstCall(t) < FirstCall(u)

RunsAheadAscending(f, t, flip) ==
    LET calls == OfRuns(f)
    IN { u \in RunsOf(calls) :
           \/ EndedAt(calls, u) < EndedAt(calls, t)
           \/ EndedAt(calls, u) = EndedAt(calls, t) /\ Precedes(u, t, flip) }

RunsAhead(f, t, flip) ==
    LET calls == OfRuns(f)
    IN { u \in RunsOf(calls) :
           \/ EndedAt(calls, u) > EndedAt(calls, t)
           \/ EndedAt(calls, u) = EndedAt(calls, t) /\ Precedes(u, t, flip) }

-----------------------------------------------------------------------------
Init == now = 0 /\ rows = <<>> /\ caller = Idle

Tick ==
    /\ now < MaxTime
    /\ now' = now + 1
    /\ UNCHANGED <<rows, caller>>

\* A row for a request that is not answered yet.
InsertRowAtOnce ==
    /\ Len(rows) < MaxRows
    /\ \E call \in Calls :
           rows' = Append(rows,
               [key |-> call.key, provider |-> call.provider, model |-> call.model,
                ok |-> call.ok, trace |-> call.trace, meta |-> call.meta, cost |-> call.cost,
                at |-> now, done |-> now + call.took, indexed |-> call.meta # None,
                path |-> CanonicalPath(call.path), parent |-> ParentSpan(call.path)])
    /\ UNCHANGED <<now, caller>>

\* A request that was made at some time and is answered by now is logged,
\* with its metadata indexed if there is any.
InsertRow ==
    /\ Len(rows) < MaxRows
    /\ \E call \in Calls : \E at \in 0..(now - call.took) :
           rows' = Append(rows,
               [key |-> call.key, provider |-> call.provider, model |-> call.model,
                ok |-> call.ok, trace |-> call.trace, meta |-> call.meta, cost |-> call.cost,
                at |-> at, done |-> at + call.took, indexed |-> call.meta # None,
                path |-> CanonicalPath(call.path), parent |-> ParentSpan(call.path)])
    /\ UNCHANGED <<now, caller>>

\* A backfill or a cleanup reaches a row: a walk that filters by metadata is
\* disturbed.
Reindex ==
    /\ \E i \in Ids :
           /\ rows[i].meta # None
           /\ rows' = [rows EXCEPT ![i].indexed = ~@]
    /\ caller' = IF caller.does = "walk" /\ caller.query.asks = "requests"
                     /\ caller.query.meta # None
                  THEN [caller EXCEPT !.disturbed = TRUE] ELSE caller
    /\ UNCHANGED now

-----------------------------------------------------------------------------
(* Reports that take two statements: the totals and the series of the      *)
(* error rate and of the latencies, the count and the page of a list.      *)
ReadFirst(asks, f) ==
    CASE asks = "errors" -> ErrorTotals(f)
      [] asks = "latency" -> LatencyTotals(f)
      [] asks = "requests" -> CountedRequests(f)
      [] asks = "runs" -> CountedRuns(f)

ReadSecond(asks, f) ==
    CASE asks = "errors" -> ErrorDays(f)
      [] asks = "latency" -> LatencyDays(f)
      [] asks = "requests" -> Listed(f)
      [] asks = "runs" -> OfRuns(f)

FirstStatement ==
    /\ caller.does = "nothing"
    /\ \E q \in Queries :
           caller' = [does |-> "report", query |-> q, filter |-> ResolveFilter(q),
                      inserted |-> Len(rows), totals |-> ReadFirst(q.asks, ResolveFilter(q))]
    /\ UNCHANGED <<now, rows>>

SecondStatementResolvesAnew ==
    /\ caller.does = "report"
    /\ caller' = [does |-> "compare", query |-> caller.query, inserted |-> caller.inserted,
                  totals |-> caller.totals,
                  series |-> ReadSecond(caller.query.asks, ResolveFilter(caller.query))]
    /\ UNCHANGED <<now, rows>>

SecondStatement ==
    /\ caller.does = "report"
    /\ caller' = [does |-> "compare", query |-> caller.query, inserted |-> caller.inserted,
                  totals |-> caller.totals,
                  series |-> ReadSecond(caller.query.asks, caller.filter)]
    /\ UNCHANGED <<now, rows>>

-----------------------------------------------------------------------------
(* A walk through a list: the client goes on behind what it has received,  *)
(* until it receives an empty page.                                        *)
Listing(asks, f) == IF asks = "requests" THEN Listed(f) ELSE RunsOf(OfRuns(f))

Ahead(asks, f, x, flip) ==
    IF asks = "requests" THEN RequestsAhead(f, x, flip) ELSE RunsAhead(f, x, flip)

\* LIMIT and OFFSET.
Page(q, offset, flip) ==
    { x \in Listing(q.asks, ResolveFilter(q)) :
        Cardinality(Ahead(q.asks, ResolveFilter(q), x, flip))
            \in offset..(offset + ClampLimit(q.limit, DefaultLimit, MaxLimit) - 1) }

StartWalk ==
    /\ caller.does = "nothing"
    /\ \E q \in {p \in Queries : p.asks \in {"requests", "runs"}} :
           caller' = [does |-> "walk", query |-> q, window |-> Window(q), offset |-> 0,
                      seen |-> {}, inserted |-> Len(rows), disturbed |-> FALSE]
    /\ UNCHANGED <<now, rows>>

NextPage ==
    /\ caller.does = "walk"
    /\ \E flip \in BOOLEAN :
           LET page == Page(caller.query, caller.offset, flip)
           IN caller' = IF page = {} THEN Idle
                        ELSE [caller EXCEPT !.offset = @ + Cardinality(page),
                                            !.seen = @ \cup page]
    /\ UNCHANGED <<now, rows>>

ReportReturned ==
    /\ caller.does = "compare"
    /\ caller' = Idle
    /\ UNCHANGED <<now, rows>>

Next ==
    \/ Tick \/ InsertRow \/ Reindex
    \/ FirstStatement \/ SecondStatement
    \/ StartWalk \/ NextPage
    \/ ReportReturned

Spec == Init /\ [][Next]_vars

-----------------------------------------------------------------------------
(***************************************************************************)
(* Properties                                                              *)
(***************************************************************************)

TypeOK ==
    /\ now \in 0..MaxTime
    /\ \A i \in Ids :
           /\ 0 <= rows[i].at /\ rows[i].at <= rows[i].done /\ rows[i].done <= now
           /\ rows[i].indexed => rows[i].meta # None
    /\ caller.does \in {"nothing", "report", "compare", "walk"}
    /\ caller.does = "walk" =>
           caller.seen \subseteq IF caller.query.asks = "runs" THEN Traces ELSE Ids

Combined(groups) ==
    [count |-> MapThenSumSet(LAMBDA v : groups[v].count, DOMAIN groups),
     cost |-> MapThenSumSet(LAMBDA v : groups[v].cost, DOMAIN groups),
     errors |-> MapThenSumSet(LAMBDA v : groups[v].errors, DOMAIN groups)]

(* Reports of one moment agree, although each has a statement of its own   *)
(* with a WHERE clause of its own (usage.go:108-682): series and           *)
(* breakdowns add up to the summary, the breakdown by key to the summary   *)
(* without the filter of the key; two statements of a report read the      *)
(* same rows, the error rate and the latencies those of the summary; the   *)
(* recent errors are the top of the list of requests that failed, and all  *)
(* of them the errors counted; requests in runs and requests outside of    *)
(* runs are together the requests; and the cost of a run in the list is    *)
(* that of its tree when the window has all of its calls.                  *)
ReportsAddUp ==
    caller = Idle =>
    \A q \in Queries :
        LET f == ResolveFilter(q)
            failed == [f EXCEPT !.status = "error", !.noRuns = FALSE]
            plain == [f EXCEPT !.provider = None, !.model = None, !.meta = None,
                               !.status = None]
            limit == ClampLimit(q.limit, DefaultErrors, MaxErrors)
        IN /\ Combined(DailyUsage(f)) = UsageSummary(f)
           /\ Combined(ModelBreakdown(f)) = UsageSummary(f)
           /\ Combined(ProviderBreakdown(f)) = UsageSummary(f)
           /\ Combined(APIKeyBreakdown(f)) = UsageSummary([f EXCEPT !.key = None])
           /\ f.key \in DOMAIN APIKeyBreakdown(f) => APIKeyBreakdown(f)[f.key] = UsageSummary(f)
           /\ f.meta # None => Combined(MetadataBreakdown(f)) = UsageSummary(f)
           /\ \A asks \in {"errors", "latency", "requests", "runs"} :
                  ReadFirst(asks, f) = ReadSecond(asks, f)
           /\ Total(ErrorTotals(f)) = UsageSummary(f) /\ LatencyTotals(f) = ErrorTotals(f)
           /\ \A flip \in BOOLEAN :
                  RecentErrors(f, limit, flip)
                      = {i \in Listed(failed) :
                            Cardinality(RequestsAhead(failed, i, flip)) < limit}
           /\ Cardinality(ErrorRows(f)) = UsageSummary(f).errors
           /\ OfRuns(plain) \cup Listed([plain EXCEPT !.noRuns = TRUE])
                  = Listed([plain EXCEPT !.noRuns = FALSE])
           /\ \A t \in RunsOf(OfRuns(f)) :
                  CallsOf(OfRuns(f), t) = CallsOf(Ids, t) /\ Len(RunCalls(t)) <= FetchCap =>
                      RollUp(AssembleRunTree(RunCalls(t)))[Root].cost
                          = Total(CallsOf(OfRuns(f), t)).cost

(* Totals and series come from two statements, and rows arrive between     *)
(* them (usage.go:394-465, 516-590, 593-635, 744-793): the series has all  *)
(* the totals have, and what it has beyond them was inserted in between.   *)
(* Only a metadata filter can take rows away.                              *)
SeriesFollowTotals ==
    caller.does = "compare" /\ caller.query.meta = None =>
        /\ caller.totals \subseteq caller.series
        /\ \A i \in caller.series \ caller.totals : i > caller.inserted

WalkEnds(asks) == caller.does = "walk" /\ caller' = Idle /\ caller.query.asks = asks

(* Who reads the list of requests page by page sees every request that     *)
(* was there at the start and still is, although new rows push the others  *)
(* back, late ones are filed in the middle, and a preset window moves at   *)
(* midnight (usage.go:593-635).  Requests of the same instant can hide     *)
(* each other, and so can rows that lose the metadata of the filter.       *)
PagesMissNoRow ==
    [][WalkEnds("requests") /\ ~caller.disturbed =>
         LET listed == Listed(ResolveFilter(caller.query))
         IN \A i \in listed \ caller.seen :
                \/ i > caller.inserted
                \/ \E j \in listed \ {i} : rows[j].at = rows[i].at]_vars

(* The list of runs is ordered by ended_at, which moves: a run that gets   *)
(* another call while the list is read can jump ahead of the page and is   *)
(* then never seen, but no other run is (usage.go:744-793), unless two     *)
(* end at the same instant or the window moves.                            *)
MissedRunsGrew ==
    [][WalkEnds("runs") /\ caller.window = Window(caller.query) =>
         LET calls == OfRuns(ResolveFilter(caller.query))
         IN \A t \in RunsOf(calls) \ caller.seen :
                \/ \E i \in CallsOf(calls, t) : i > caller.inserted
                \/ \E j \in calls : rows[j].trace # t /\ rows[j].done = EndedAt(calls, t)]_vars

IsBelow(row, node) == IsPrefix(node, row.path)

(* The waterfall adds up: the cost and the calls of every node are those   *)
(* of the rows below it, each counted once, however paths overlap, repeat, *)
(* exceed the depth or arrive in whatever order; the root has them all     *)
(* (usage.go:840-943).                                                     *)
TreeConserves ==
    caller = Idle =>
    \A t \in Traces :
        LET calls == RunCalls(t)
            tree == AssembleRunTree(calls)
            up == RollUp(tree)
            below(n) == {i \in DOMAIN Fetched(calls) : IsBelow(calls[i], n)}
        IN \A n \in DOMAIN tree.parent :
               /\ up[n].cost = MapThenSumSet(LAMBDA i : calls[i].cost, below(n))
               /\ up[n].calls = Cardinality(below(n))
               /\ n # Root => tree.parent[n] = Front(n)

(* spanid.go:8-10: capture and assembly derive the same identity. The node *)
(* a row hangs under is the one whose id the row was logged with as        *)
(* parent_span_id, unless its path is deeper than the tree; the path that  *)
(* was logged is canonical.                                                *)
RowsHangWhereLogged ==
    caller = Idle =>
    \A t \in Traces :
        LET calls == RunCalls(t)
            tree == AssembleRunTree(calls)
        IN \A i \in DOMAIN tree.leaves :
               /\ "" \notin ToSet(calls[i].path)
               /\ tree.leaves[i].at \in DOMAIN tree.parent
               /\ Len(calls[i].path) <= MaxSpanDepth => tree.leaves[i].at = calls[i].parent

=============================================================================
