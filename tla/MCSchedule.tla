---------------------------- MODULE MCSchedule -----------------------------
(* Instances of Schedule for TLC: today's columns, the columns moved, two  *)
(* columns inserted, and one removed.                                      *)
EXTENDS Schedule, TLC

MCLayouts ==
    {<<"id", "sect", "instructor", "size", "enrl", "status">>,
     <<"instructor", "enrl", "status", "sect", "id", "size">>,
     <<"id", "sect", "room", "instructor", "size", "enrl", "info", "status">>,
     <<"id", "sect", "instructor", "size", "enrl", "info">>}

MCLabels == {{"open"}, {"closed"}, {"wait", "full"}, {}}

MCSeats == 1..2

Symmetric == Permutations(Ids)

=============================================================================
