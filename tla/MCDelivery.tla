----------------------------- MODULE MCDelivery -----------------------------
(* Instances of Delivery for TLC.                                          *)
EXTENDS Delivery, TLC

Symmetric == Permutations(Notifs) \cup Permutations(Workers)

=============================================================================
