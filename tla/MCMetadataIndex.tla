-------------------------- MODULE MCMetadataIndex --------------------------
(* Instances of MetadataIndex for TLC: both requests carry every key.      *)
EXTENDS MetadataIndex

CONSTANTS r1, r2, k1, p1, p2

MCMetaOf == [r \in Requests |-> Keys]

=============================================================================
