-------------------------------- MODULE Sums --------------------------------
(* The sum of a function over a finite part of its domain. *)
EXTENDS FiniteSetsExt

SumOf(f, S) == MapThenSumSet(LAMBDA x : f[x], S)
=============================================================================
