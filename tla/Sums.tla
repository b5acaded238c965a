-------------------------------- MODULE Sums --------------------------------
(***************************************************************************)
(* Sums of integer functions on 1..n, written as a recursive function so   *)
(* that the theorems of SumsProofs can be proved about them.  The ledger   *)
(* modules use them to add up the amounts held, mined or owed per row.     *)
(***************************************************************************)
EXTENDS Integers

(***************************************************************************)
(* RunningTotal(f, n)[i] is f[1] + ... + f[i].                             *)
(***************************************************************************)
RunningTotal(f, n) ==
  LET s[i \in 0 .. n] == IF i = 0 THEN 0 ELSE s[i - 1] + f[i] IN s

Total(f, n) == RunningTotal(f, n)[n]
=============================================================================
