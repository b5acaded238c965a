---------------------------- MODULE MCTokenSweep ----------------------------
(* Two deposits: the second may join the sweep of the first at any time. *)
EXTENDS TokenSweep

TwoDeposits == <<1, 1>>
=============================================================================
