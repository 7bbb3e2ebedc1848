--------------------------- MODULE MCOptimisticPage ---------------------------
(* Instance of OptimisticPage for TLC.                                       *)
EXTENDS OptimisticPage
=============================================================================
