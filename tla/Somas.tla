------------------------------- MODULE Somas -------------------------------
(***************************************************************************)
(* Sums over the rows of an aggregate, in the order of the rows: the        *)
(* `reduce' calls of the domain.  A recursive function, so that module      *)
(* SomasProofs can show what it computes for lists of every length.        *)
(***************************************************************************)
EXTENDS Integers, Sequences

\* f[1] + ... + f[n]
SumTo(f, n) ==
  LET s[i \in 0..n] == IF i = 0 THEN 0 ELSE s[i-1] + f[i]
  IN s[n]
=============================================================================
