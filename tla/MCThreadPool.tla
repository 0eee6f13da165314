--------------------------- MODULE MCThreadPool ---------------------------
(* The computations the main tape distributes in the instances that TLC    *)
(* checks: the CHECK job, and sizes with and without a base (the daBits    *)
(* of earlier rounds) and a granularity (whole words of bits).             *)
EXTENDS ThreadPool

Call(n, b, g) == [items |-> n, base |-> b, grain |-> g]

MCCalls ==
  {Call(0, 0, 1), Call(1, 0, 1), Call(2, 0, 2), Call(5, 0, 2), Call(5, 2, 1)}
===========================================================================
