-------------------------- MODULE MCEthWithdrawal --------------------------
(***************************************************************************)
(* The instance of EthWithdrawal in which HTTP requests race: which of     *)
(* them is which does not matter.                                          *)
(***************************************************************************)
EXTENDS EthWithdrawal, TLC

HandlerSymmetry == Permutations(Handler)
=============================================================================
