--------------------------- MODULE MCTokenDeposit ---------------------------
(* One deposit, in ranges long enough to be halved twice. *)
EXTENDS TokenDeposit

Amounts == <<2>>
=============================================================================
