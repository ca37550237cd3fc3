----------------------------- MODULE MCPolling -----------------------------
(* Instances of Polling for TLC.                                           *)
EXTENDS Polling, TLC

Symmetric == Permutations(Watchers) \cup Permutations(Workers)

=============================================================================
