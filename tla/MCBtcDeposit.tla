---------------------------- MODULE MCBtcDeposit ----------------------------
(* Two deposits of different amounts. *)
EXTENDS BtcDeposit

Amounts == <<1, 2>>
Amount1 == <<1>>
=============================================================================
