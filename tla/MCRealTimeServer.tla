--------------------------- MODULE MCRealTimeServer ---------------------------
(* Short recordings, with and without a backup.                            *)
EXTENDS RealTimeServer

ShortRecordings ==
    {[blocks |-> 1, backup |-> TRUE], [blocks |-> 4, backup |-> TRUE],
     [blocks |-> 3, backup |-> FALSE]}
===============================================================================
