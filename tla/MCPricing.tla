------------------------------ MODULE MCPricing ------------------------------
(* Instances of Pricing for TLC.  Two providers; "m" is listed by the      *)
(* second in one catalog and by both in the other, where their prices      *)
(* differ; "x" is only in the feeds; "m-d" is a dated release of "m".      *)
(* Routes refer to unknown models and providers and set the model field.   *)
EXTENDS Pricing

Route(p, m, sets) == [provider |-> p, model |-> m, setsModel |-> sets]
One(m, price) == [x \in {m} |-> price]

MCOrder == <<"anthropic", "together">>
MCUndated == One("m-d", "m")
MCAliases == One("alias", "m")

Narrow ==
    [sections |-> [p \in {"together"} |-> One("m", 1)],
     routes |-> [s \in {"slug"} |-> <<Route("together", "m", FALSE),
                                      Route("together", "x", FALSE),
                                      Route("anthropic", "m", FALSE)>>]]
Wide ==
    [sections |-> [p \in {"anthropic", "together"} |->
                     One("m", IF p = "anthropic" THEN 2 ELSE 3)],
     routes |-> [s \in {"slug", "bad"} |->
                     IF s = "bad" THEN <<Route("together", "m", TRUE)>>
                     ELSE <<Route("anthropic", "m", FALSE), Route("together", "m", FALSE)>>]]

Price(v, id, price) == [vendor |-> v, id |-> id, price |-> price]
Feed1 == <<Price("anthropic", "m", 4), Price("", "x", 5)>>
Feed2 == <<Price("together", "x", 6), Price("anthropic", "m-d", 4),
           Price("together", "m", 7), Price("anthropic", "x", 5)>>

MCCatalogs == {Narrow, Wide}
MCFeeds == {Feed1, Feed2}

=============================================================================
