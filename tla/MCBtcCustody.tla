---------------------------- MODULE MCBtcCustody ----------------------------
(* The deposits of the runs of BtcCustody: the first pays any withdrawal,  *)
(* also after its sweep; the second is selected for its small excess, and  *)
(* is then too small for the transaction.                                  *)
EXTENDS BtcCustody

TwoDeposits == <<1000, 620>>
=============================================================================
