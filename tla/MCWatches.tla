----------------------------- MODULE MCWatches -----------------------------
(* Instances of Watches for TLC.                                           *)
EXTENDS Watches, TLC

Symmetric == Permutations(Sections) \cup Permutations(Destinations) \cup Permutations(Requests)

=============================================================================
