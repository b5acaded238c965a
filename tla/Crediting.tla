----------------------------- MODULE Crediting ------------------------------
(***************************************************************************)
(* What every deposit scanner promises: money that arrives is shown as     *)
(* pending while its block may still be replaced, and becomes available    *)
(* once, whole, and only when the chain cannot take it back.  A pending    *)
(* deposit may disappear again, an available one never does.               *)
(*                                                                         *)
(* EthDeposit, BtcDeposit and TokenDeposit implement it.                   *)
(***************************************************************************)
EXTENDS Integers, Sums

CONSTANTS
  NumDeposits,
  Amount            \* the amount of each deposit

Deposit == 1 .. NumDeposits

VARIABLES
  pending, available,   \* the user's two balances
  phase,                \* each deposit: "absent", "pending" or "available"
  irreversible          \* the deposits the chain will not take back

vars == <<pending, available, phase, irreversible>>

Sum(S) == Total([d \in Deposit |-> IF d \in S THEN Amount[d] ELSE 0], NumDeposits)
In(p)  == {d \in Deposit : phase[d] = p}
Move(S, p) == phase' = [d \in Deposit |-> IF d \in S THEN p ELSE phase[d]]

Init ==
  /\ pending = 0 /\ available = 0
  /\ phase = [d \in Deposit |-> "absent"]
  /\ irreversible = {}

(* A block is recorded. *)
Observe(S) ==
  /\ Move(S, "pending")
  /\ pending' = pending + Sum(S)
  /\ UNCHANGED <<available, irreversible>>

(* Blocks were replaced, and what was read of them is undone. *)
Forget(S) ==
  /\ Move(S, "absent")
  /\ pending' = pending - Sum(S)
  /\ UNCHANGED <<available, irreversible>>

Credit(d) ==
  /\ d \in irreversible
  /\ Move({d}, "available")
  /\ pending' = pending - Amount[d]
  /\ available' = available + Amount[d]
  /\ UNCHANGED irreversible

Settle(S) ==
  /\ irreversible' = irreversible \union S
  /\ UNCHANGED <<pending, available, phase>>

Next ==
  \/ \E S \in SUBSET In("absent") : Observe(S)
  \/ \E S \in SUBSET In("pending") : Forget(S)
  \/ \E d \in In("pending") : Credit(d)
  \/ \E S \in SUBSET Deposit : Settle(S)

Spec == Init /\ [][Next]_vars
=============================================================================
