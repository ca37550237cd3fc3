--------------------------- MODULE MCSeatAlerts ---------------------------
(* Instances of SeatAlerts for TLC.                                        *)
EXTENDS SeatAlerts
=============================================================================
