---------------------------- MODULE MCEthDeposit ----------------------------
(* Two deposits of different amounts and a top-up. *)
EXTENDS EthDeposit

Amounts == <<1, 2, 4>>
=============================================================================
