----------------------------- MODULE EthDeposit -----------------------------
(***************************************************************************)
(* The scanner of ETH deposits (deposit/scanner.go) with its database      *)
(* transactions (store/postgres/balance_transaction.go), for one user's    *)
(* address.  It reads the chain block by block behind a checkpoint,        *)
(* records the transfers to the address, and credits each once its block   *)
(* is confirmed and still has the hash it was recorded with.  Transfers by *)
(* which the gas station tops the address up are not deposits.             *)
(*                                                                         *)
(* Each RPC call and each database transaction of the scanner is one step; *)
(* between two of them the chain may grow or replace its newest blocks,    *)
(* calls may fail and the process may restart.                             *)
(***************************************************************************)
EXTENDS Integers, Sequences, FiniteSets, Sums

CONSTANTS
  NumDeposits,      \* transfers users send to the address
  NumTopups,        \* transfers of the gas station to the address
  Amount,           \* the amount of each transfer
  Confirmations,    \* config.Confirmations
  BatchSize,        \* config.BatchSize
  MaxHeight,        \* bound: blocks on the chain
  MaxBlocks         \* bound: blocks ever made; above MaxHeight, some are replaced

ASSUME DepositConstantsAssumption ==
  /\ NumDeposits \in Nat /\ NumTopups \in Nat
  /\ Amount \in [1 .. NumDeposits + NumTopups -> Nat \ {0}]
  /\ Confirmations \in Nat \ {0} /\ BatchSize \in Nat \ {0}
  /\ MaxHeight \in Nat /\ MaxBlocks \in Nat

Deposit  == 1 .. NumDeposits
Topup    == NumDeposits + 1 .. NumDeposits + NumTopups
Transfer == Deposit \union Topup

Block == [hash : Nat \ {0}, txs : SUBSET Transfer]

VARIABLES
  chain,                    \* the blocks 1 .. Len(chain), the first the scan's start block
  nextHash, final,          \* the next new hash; the blocks that will not be replaced
  internal,                 \* top-ups whose hash is in internal_transfers
  status, seenAt, seenHash, \* the rows of deposits: status, block_number, block_hash
  available, pendingDeposit,\* asset_balances, as far as deposits move it
  scanned,                  \* chain_checkpoints: length and last element; the rest is history
  scanner                   \* the scanner: its step and what it has read

rows  == <<status, seenAt, seenHash, available, pendingDeposit, scanned>>
node  == <<chain, nextHash, final>>
vars  == <<node, internal, rows, scanner>>

Resting == [at |-> "idle", latest |-> 0, last |-> 0, block |-> {}, todo |-> {}, deposit |-> 0]

Larger(m, n)  == IF m > n THEN m ELSE n
Smaller(m, n) == IF m < n THEN m ELSE n
AmountOf(S)   == Total([t \in Transfer |-> IF t \in S THEN Amount[t] ELSE 0], NumDeposits + NumTopups)

TypeOK ==
  /\ chain \in Seq(Block) /\ nextHash \in Nat /\ final \in 0 .. Len(chain)
  /\ internal \subseteq Topup
  /\ status \in [Transfer -> {"none", "CONFIRMING", "CREDITED"}]
  /\ seenAt \in [Transfer -> 0 .. Len(scanned)] /\ seenHash \in [Transfer -> Nat]
  /\ available \in 0 .. AmountOf(Transfer) /\ pendingDeposit \in 0 .. AmountOf(Transfer)
  /\ scanned \in Seq(Nat \ {0})
  /\ scanner \in [at : {"idle", "scan", "record", "list", "check", "credit", "stopped"},
                  latest : Nat, last : Nat, block : SUBSET Block,
                  todo : SUBSET Transfer, deposit : Nat]

Init ==
  /\ chain = <<>> /\ nextHash = 1 /\ final = 0
  /\ internal = {}
  /\ status = [t \in Transfer |-> "none"]
  /\ seenAt = [t \in Transfer |-> 0] /\ seenHash = [t \in Transfer |-> 0]
  /\ available = 0 /\ pendingDeposit = 0
  /\ scanned = <<>>
  /\ scanner = Resting

-----------------------------------------------------------------------------
(***************************************************************************)
(* The chain (outside src/) and the gas station.  Definitions named with a *)
(* Bug suffix are mutants: no specification uses them, and the runs are    *)
(* repeated with each in the place of the definition it follows.           *)
(***************************************************************************)
Mined == UNION {chain[n].txs : n \in 1 .. Len(chain)}

(* SaveSignedInternalTransfer stores the hash before the first send.       *)
SentTopupsBug == Topup
SentTopups == internal

SaveTopup(t) ==
  /\ t \in Topup \ internal
  /\ internal' = internal \union {t}
  /\ UNCHANGED <<node, rows, scanner>>

Extend(S) ==
  /\ Len(chain) < MaxHeight /\ nextHash <= MaxBlocks
  /\ S \subseteq (Deposit \union SentTopups) \ Mined
  /\ chain' = Append(chain, [hash |-> nextHash, txs |-> S])
  /\ nextHash' = nextHash + 1
  /\ final' = Larger(final, Len(chain) + 2 - Confirmations)
  /\ UNCHANGED <<internal, rows, scanner>>

(* The newest block is replaced, as others are, one after the other, until *)
(* it has Confirmations blocks.                                            *)
Reorg ==
  /\ Len(chain) > final /\ nextHash <= MaxBlocks
  /\ chain' = SubSeq(chain, 1, Len(chain) - 1)
  /\ UNCHANGED <<nextHash, final, internal, rows, scanner>>

-----------------------------------------------------------------------------
(***************************************************************************)
(* The scanner.                                                            *)
(***************************************************************************)
NextHeightBug == Len(scanned) + 2
NextHeight == Len(scanned) + 1   \* nextBlock

(* RunOnce reads the newest height, which an endpoint that lags may put    *)
(* lower, and the checkpoint, and scans a batch.                           *)
Begin(latest) ==
  /\ scanner.at = "idle"
  /\ scanner' = [Resting EXCEPT !.latest = latest,
                                !.last = Smaller(latest, NextHeight + BatchSize - 1),
                                !.at = IF NextHeight <= latest THEN "scan" ELSE "list"]
  /\ UNCHANGED <<node, internal, rows>>

(* scanBlock: BlockByNumber. *)
Read ==
  /\ scanner.at = "scan"
  /\ NextHeight <= Len(chain)
  /\ scanner' = [scanner EXCEPT !.at = "record", !.block = {chain[NextHeight]}]
  /\ UNCHANGED <<node, internal, rows>>

(* The transfers of a block that IsInternalTransferTx does not know.       *)
Observed(b) == b.txs \ internal

(* A transfer that was recorded in another block: ErrIdempotencyConflict.  *)
ConflictBug(b) == FALSE
Conflict(b) == \E t \in Observed(b) : status[t] # "none" /\ seenHash[t] # b.hash

(* RecordDepositsAndCheckpoint: the new deposits, their pending amounts    *)
(* and the checkpoint in one transaction.                                  *)
Record(b) ==
  LET new == {t \in Observed(b) : status[t] = "none"}
  IN /\ scanner.at = "record" /\ b \in scanner.block
     /\ ~ Conflict(b)
     /\ status' = [t \in Transfer |-> IF t \in new THEN "CONFIRMING" ELSE status[t]]
     /\ seenAt' = [t \in Transfer |-> IF t \in new THEN NextHeight ELSE seenAt[t]]
     /\ seenHash' = [t \in Transfer |-> IF t \in new THEN b.hash ELSE seenHash[t]]
     /\ pendingDeposit' = pendingDeposit + AmountOf(new)
     /\ scanned' = Append(scanned, b.hash)
     /\ scanner' = [scanner EXCEPT !.block = {}, !.at = IF NextHeight < scanner.last THEN "scan" ELSE "list"]
     /\ UNCHANGED <<node, internal, available>>

(* The deposits that are listed, and may be credited.                      *)
Confirming == {t \in Transfer : status[t] = "CONFIRMING"}

(* confirmPending lists them after the scan, against the height read       *)
(* before it; `todo' holds those not yet looked at, in order of height.    *)
List ==
  /\ scanner.at = "list"
  /\ scanner' = IF Confirming = {} THEN Resting
                ELSE [scanner EXCEPT !.at = "check", !.todo = Confirming]
  /\ UNCHANGED <<node, internal, rows>>

EnoughConfirmationsBug(t, latest) == latest - seenAt[t] + 1 > Confirmations
EnoughConfirmations(t, latest) == latest - seenAt[t] + 1 >= Confirmations

(* verifyBlockHash: HeaderByNumber still has the hash of the first scan.   *)
SameHashBug(t) == TRUE
SameHash(t) == chain[seenAt[t]].hash = seenHash[t]

Lowest(t) == t \in scanner.todo /\ \A u \in scanner.todo : seenAt[t] <= seenAt[u]
After(t)  == IF scanner.todo = {t} THEN Resting
             ELSE [scanner EXCEPT !.at = "check", !.deposit = 0, !.todo = @ \ {t}]

(* Too few confirmations: their number is updated and the next one follows. *)
Wait(t) ==
  /\ scanner.at = "check" /\ Lowest(t)
  /\ ~ EnoughConfirmations(t, scanner.latest)
  /\ scanner' = After(t)
  /\ UNCHANGED <<node, internal, rows>>

(* A changed hash ends Run, and with it the application. *)
Verify(t) ==
  /\ scanner.at = "check" /\ Lowest(t)
  /\ EnoughConfirmations(t, scanner.latest)
  /\ seenAt[t] <= Len(chain)
  /\ scanner' = IF SameHash(t) THEN [scanner EXCEPT !.at = "credit", !.deposit = t]
                ELSE [Resting EXCEPT !.at = "stopped"]
  /\ UNCHANGED <<node, internal, rows>>

(* CreditDeposit, once per row. *)
Credit(t) ==
  /\ scanner.at = "credit" /\ scanner.deposit = t
  /\ t \in Confirming
  /\ pendingDeposit >= Amount[t]
  /\ status' = [status EXCEPT ![t] = "CREDITED"]
  /\ pendingDeposit' = pendingDeposit - Amount[t]
  /\ available' = available + Amount[t]
  /\ scanner' = After(t)
  /\ UNCHANGED <<node, internal, seenAt, seenHash, scanned>>

(* A call fails and the next tick starts anew, or the process restarts,    *)
(* by hand where it had stopped.                                           *)
Interrupt ==
  /\ scanner.at # "idle"
  /\ scanner' = Resting
  /\ UNCHANGED <<node, internal, rows>>

Scan ==
  \/ Read \/ List
  \/ \E b \in scanner.block : Record(b)
  \/ \E t \in Transfer : Wait(t) \/ Verify(t) \/ Credit(t)

Next ==
  \/ Scan \/ Interrupt
  \/ \E latest \in 0 .. Len(chain) : Begin(latest)
  \/ \E t \in Topup : SaveTopup(t)
  \/ \E S \in SUBSET Transfer : Extend(S)
  \/ Reorg

Spec == Init /\ [][Next]_vars

(* Each tick scans; calls fail, endpoints lag and the process restarts a   *)
(* finite number of times.  Nothing is assumed of the chain.               *)
Healthy  == Scan \/ Begin(Len(chain))
FairSpec == Spec /\ WF_vars(Healthy) /\ <>[][scanner' # scanner => Healthy]_vars

-----------------------------------------------------------------------------
(***************************************************************************)
(* Properties.                                                             *)
(***************************************************************************)

(* The scanner implements Crediting: each deposit is pending once until it *)
(* is credited, and available once afterwards, over all retries and        *)
(* restarts; and it is credited from a block that will not be replaced,    *)
(* though the height was read before the batch was scanned.                *)
Settled == UNION {chain[n].txs : n \in 1 .. final}
Phase(t) == CASE status[t] = "none" -> "absent"
              [] status[t] = "CONFIRMING" -> "pending"
              [] OTHER -> "available"
C == INSTANCE Crediting WITH
       NumDeposits <- NumDeposits + NumTopups, pending <- pendingDeposit,
       phase <- [t \in Transfer |-> Phase(t)], irreversible <- Settled
CreditingSpec == C!Spec

(* The checkpoint passes a block only with all of its deposits recorded:   *)
(* no failure between two calls skips one.                                 *)
NoneSkipped ==
  \A n \in 1 .. Len(scanned) : n <= Len(chain) /\ chain[n].hash = scanned[n]
    => \A t \in chain[n].txs \intersect Deposit : status[t] # "none" /\ seenHash[t] = scanned[n]

(* The platform's own top-ups are never taken for a user's deposit.        *)
TopupsNotCredited == \A t \in Topup : status[t] = "none"

(* As long as no block was ever replaced, every confirmed deposit is       *)
(* credited in the end.                                                    *)
NeverReplaced == nextHash = Len(chain) + 1
EveryDepositCredited ==
  \A t \in Deposit : t \in Settled ~> (status[t] = "CREDITED" \/ ~ NeverReplaced)

-----------------------------------------------------------------------------
(***************************************************************************)
(* The inductive invariant the proofs rest on.                             *)
(***************************************************************************)
Known(txs) == txs \intersect Topup \subseteq internal

(* Hashes are used once, and a top-up is known before a block has it.      *)
ChainShape ==
  /\ nextHash > 0
  /\ \A n \in 1 .. Len(chain) : chain[n].hash < nextHash /\ Known(chain[n].txs)
  /\ \A m, n \in 1 .. Len(chain) : chain[m].hash = chain[n].hash => m = n
  /\ \A n \in 1 .. Len(scanned) : scanned[n] < nextHash

(* What is deep enough for the height the scanner read stays.              *)
HeightsShape ==
  /\ Len(chain) + 1 - Confirmations <= final
  /\ scanner.latest + 1 - Confirmations <= final

(* The hash of a row is that of a block with its transfer.                 *)
RowShape ==
  \A t \in Transfer : status[t] # "none" =>
    /\ seenAt[t] > 0 /\ seenHash[t] < nextHash
    /\ \A n \in 1 .. Len(chain) : chain[n].hash = seenHash[t] => t \in chain[n].txs

(* What the scanner has read is a block there was, deposits there are, and *)
(* a deposit that stays.                                                   *)
ScannerShape ==
  /\ \A b \in scanner.block :
       /\ b.hash < nextHash /\ Known(b.txs)
       /\ \A n \in 1 .. Len(chain) : chain[n].hash = b.hash => chain[n] = b
  /\ \A t \in scanner.todo : status[t] # "none"
  /\ scanner.at = "credit" => scanner.deposit \in Settled

(* The balances are the sums of the rows. *)
BooksShape ==
  /\ pendingDeposit = AmountOf({t \in Transfer : status[t] = "CONFIRMING"})
  /\ available = AmountOf({t \in Transfer : status[t] = "CREDITED"})

IndInv ==
  /\ ChainShape /\ HeightsShape /\ RowShape /\ ScannerShape /\ BooksShape
  /\ NoneSkipped /\ TopupsNotCredited
=============================================================================
