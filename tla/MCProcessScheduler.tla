------------------------- MODULE MCProcessScheduler -------------------------
(* An instance of ProcessScheduler for TLC: nice values below the range, -1  *)
(* (which getpriority also returns for an error) and a positive one.        *)
EXTENDS ProcessScheduler

MCNiceArgs == {-25, -1, 5}
=============================================================================
