--------------------------- MODULE MCRequestLog ---------------------------
(* Instances of RequestLog for TLC: two requests with one metadata key and *)
(* two different values of it.                                             *)
EXTENDS RequestLog

CONSTANTS r1, r2, k1, v1, v2

MCMetaOf == [r \in Requests |-> Keys]
MCValueOf == [r \in Requests |-> IF r = r2 THEN v2 ELSE v1]

=============================================================================
