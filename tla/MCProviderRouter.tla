-------------------------- MODULE MCProviderRouter --------------------------
(* Instances of ProviderRouter for TLC.  Two providers serve the slug m;   *)
(* e1 calls it a1 and e2 calls it m, only e1 guarantees both requirements. *)
(* "nope" is a model that is not in the catalog.                           *)
EXTENDS ProviderRouter, TLC

CONSTANTS w1, w2

MCCatalog == [s \in Slugs |-> IF s = "m" THEN Endpoints ELSE {}]
MCProvider == [ep \in Endpoints |-> IF ep = "e1" THEN "p1" ELSE "p2"]
MCModelID == [ep \in Endpoints |-> IF ep = "e1" THEN "a1" ELSE "m"]
MCGuarantees == [ep \in Endpoints |->
                   IF ep = "e1" THEN Requirements ELSE Requirements \ {"zdr"}]
RecoverySpec == FairSpec /\ Recovery(w1)
Symmetry == Permutations(Workers) \cup Permutations(Keys)

=============================================================================
