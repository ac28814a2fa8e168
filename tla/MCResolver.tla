----------------------------- MODULE MCResolver -----------------------------
(* Instances of Resolver for TLC: callers are interchangeable.             *)
EXTENDS Resolver, TLC

Symmetry == Permutations(Callers) \cup Permutations(Settings)

=============================================================================
