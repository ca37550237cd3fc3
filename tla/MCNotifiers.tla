---------------------------- MODULE MCNotifiers -----------------------------
(* Instances of Notifiers for TLC.                                         *)
EXTENDS Notifiers

=============================================================================
