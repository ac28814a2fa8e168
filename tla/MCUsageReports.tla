--------------------------- MODULE MCUsageReports ---------------------------
(* Instances of UsageReports for TLC: two runs and a request outside of    *)
(* them; paths that overlap, are deeper than the tree or have empty names; *)
(* queries with a fixed window, an open one and one that moves at          *)
(* midnight.                                                               *)
EXTENDS UsageReports

Call(key, model, ok, trace, path, meta, cost, took) ==
    [key |-> key, provider |-> IF key = "k1" THEN "p" ELSE "q", model |-> model, ok |-> ok,
     trace |-> trace, path |-> path, meta |-> meta, cost |-> cost, took |-> took]

MCCalls == { Call("k1", "m", TRUE, "t1", <<"", "a", "b">>, None, 1, 0),
             Call("k1", "n", FALSE, "t1", <<"a", "b", "c">>, "v", 2, 1),
             Call("k2", "m", TRUE, "t2", <<"b", "", "a">>, None, 4, 0),
             Call("k2", "m", FALSE, None, <<>>, "v", 8, 0) }

Query(asks, start, end, days) ==
    [asks |-> asks, start |-> start, end |-> end, days |-> days, key |-> None,
     provider |-> None, model |-> None, status |-> None, meta |-> None, noRuns |-> FALSE,
     limit |-> 0]

MCQueries == { Query("runs", 0, 2, 0),
               [Query("requests", None, None, 2) EXCEPT !.noRuns = TRUE, !.limit = 9],
               [Query("requests", 0, None, 0) EXCEPT !.meta = "v"],
               [Query("errors", None, None, 2) EXCEPT !.key = "k1"],
               [Query("latency", 0, None, 0) EXCEPT !.provider = "q", !.model = "m",
                                                    !.status = "error"] }

=============================================================================
