---------------------------- MODULE MCSplaydJobs ----------------------------
(***************************************************************************)
(* A job with two ports and a timeline of two sessions, a job with one     *)
(* port, and a job without ports.                                          *)
(***************************************************************************)
EXTENDS SplaydJobs

CONSTANTS j1, j2, j3

JobNbPorts == [j \in Job |-> IF j = j1 THEN 2 ELSE IF j = j2 THEN 1 ELSE 0]
JobTimeline == [j \in Job |-> IF j = j1 THEN <<0, 1, 2, 3>> ELSE <<>>]
=============================================================================
