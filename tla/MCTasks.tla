------------------------------ MODULE MCTasks ------------------------------
(* Instance of Tasks for TLC: one task that is requested three times, and a *)
(* sibling that is requested once.                                          *)
EXTENDS Tasks, TLC

CONSTANTS load, sibling

MCMaxRuns == load :> 3 @@ sibling :> 1
=============================================================================
