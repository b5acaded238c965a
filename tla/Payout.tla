------------------------------- MODULE Payout -------------------------------
(***************************************************************************)
(* What a withdrawal promises its user, whatever happens in between: the   *)
(* money is kept apart when the request is accepted, the chain takes it,   *)
(* and when the withdrawal is closed the account gets back exactly what    *)
(* the chain did not take.  What the chain takes may still be undone       *)
(* before that, but never changes afterwards: a closed withdrawal is paid  *)
(* neither again nor after all.                                            *)
(*                                                                         *)
(* EthWithdrawal and TokenWithdrawal implement it.                         *)
(***************************************************************************)
EXTENDS Integers

CONSTANTS Key       \* the withdrawals

VARIABLES
  account,          \* what the user may spend
  hold,             \* what is kept apart for a withdrawal
  taken,            \* what the chain took for it
  phase             \* "new", "open" or "closed"

vars == <<account, hold, taken, phase>>

Init ==
  /\ account \in Nat
  /\ hold = [k \in Key |-> 0] /\ taken = [k \in Key |-> 0]
  /\ phase = [k \in Key |-> "new"]

Open(k) ==
  /\ phase[k] = "new"
  /\ phase' = [phase EXCEPT ![k] = "open"]
  /\ \E wei \in 0 .. account :
       /\ hold' = [hold EXCEPT ![k] = wei]
       /\ account' = account - wei
  /\ UNCHANGED taken

(* Network fees may rise until the withdrawal is sent. *)
Raise(k) ==
  /\ phase[k] = "open" /\ taken[k] = 0
  /\ \E wei \in 0 .. account :
       /\ hold' = [hold EXCEPT ![k] = @ + wei]
       /\ account' = account - wei
  /\ UNCHANGED <<taken, phase>>

Take(k) ==
  /\ phase[k] = "open" /\ taken[k] = 0
  /\ \E wei \in 0 .. hold[k] : taken' = [taken EXCEPT ![k] = wei]
  /\ UNCHANGED <<account, hold, phase>>

(* The block is replaced. *)
Undo(k) ==
  /\ phase[k] = "open"
  /\ taken' = [taken EXCEPT ![k] = 0]
  /\ UNCHANGED <<account, hold, phase>>

Close(k) ==
  /\ phase[k] = "open"
  /\ phase' = [phase EXCEPT ![k] = "closed"]
  /\ account' = account + (hold[k] - taken[k])
  /\ hold' = [hold EXCEPT ![k] = 0]
  /\ UNCHANGED taken

Next == \E k \in Key : Open(k) \/ Raise(k) \/ Take(k) \/ Undo(k) \/ Close(k)

Spec == Init /\ [][Next]_vars
=============================================================================
