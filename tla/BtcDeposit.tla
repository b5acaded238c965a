----------------------------- MODULE BtcDeposit -----------------------------
(***************************************************************************)
(* The scanner of Bitcoin deposits (btc/scanner_worker.go, btc/scanner.go) *)
(* with its database transactions (store/postgres/bitcoin.go), for one     *)
(* user's address.  Each pass compares the hash kept with the checkpoint   *)
(* with the node's, goes back a window of Confirmations blocks when they   *)
(* differ, scans a batch, and credits the deposits that have enough        *)
(* confirmations in a block with an unchanged hash.                        *)
(*                                                                         *)
(* Each RPC call the outcome of which can change is a step, together with  *)
(* the database transaction that follows: nothing but the scanner writes   *)
(* what that transaction reads.  Between two steps the node may extend its *)
(* chain or replace the newest blocks by more new ones, calls may fail and *)
(* the process may restart.  A deposit's row of btc_utxos is written and   *)
(* deleted with the deposit; BtcCustody models what becomes of it.         *)
(***************************************************************************)
EXTENDS Integers, Sequences, FiniteSets, Sums

CONSTANTS
  NumDeposits,      \* outputs that pay the user's address
  Amount,           \* the amount of each, in satoshi
  Confirmations,    \* config confirmations
  BatchSize,        \* blocks scanned in a pass
  MaxHeight,        \* bound: blocks of the chain
  MaxForks          \* bound: times the newest blocks are replaced

ASSUME BtcDepositConstantsAssumption ==
  /\ NumDeposits \in Nat
  /\ Amount \in [1 .. NumDeposits -> Nat \ {0}]
  /\ Confirmations \in Nat \ {0} /\ BatchSize \in Nat \ {0}
  /\ MaxHeight \in Nat /\ MaxForks \in Nat

Deposit == 1 .. NumDeposits

(* A block's hash is its height with the number of replacements before it. *)
Block  == [fork : Nat, outputs : SUBSET Deposit]
NoRow  == [status |-> "none", height |-> 0, fork |-> 0, confirmations |-> 0]
NoCheckpoint == [height |-> -1, fork |-> 0]
Status == {"none", "CONFIRMING", "CREDITED"}

VARIABLES
  chain, forks,          \* the node's blocks, the first the scan's start; replacements so far
  rows,                  \* btc_deposits
  pending, available,    \* asset_balances, as far as deposits move it
  checkpoint,            \* chain_checkpoints: last_scanned_block and its hash
  scanner,               \* the scanner: its step and what it has read
  torn                   \* history: a block was recorded that is not the checkpoint's child

node == <<chain, forks>>
db   == <<rows, pending, available, checkpoint>>
vars == <<node, db, scanner, torn>>

Resting == [at |-> "idle", tip |-> 0, left |-> 0, todo |-> {}]

AmountOf(S) == Total([d \in Deposit |-> IF d \in S THEN Amount[d] ELSE 0], NumDeposits)
Larger(m, n) == IF m > n THEN m ELSE n

TypeOK ==
  /\ chain \in Seq(Block) /\ forks \in 0 .. MaxForks
  /\ rows \in [Deposit -> [status : Status, height : 0 .. Len(chain), fork : 0 .. forks,
                           confirmations : 0 .. Len(chain)]]
  /\ pending \in 0 .. AmountOf(Deposit) /\ available \in 0 .. AmountOf(Deposit)
  /\ checkpoint \in [height : -1 .. Len(chain), fork : 0 .. forks]
  /\ scanner \in [at : {"idle", "compare", "rewind", "scan", "confirm"},
                  tip : 0 .. Len(chain), left : 0 .. BatchSize, todo : SUBSET Deposit]
  /\ torn \in BOOLEAN

Init ==
  /\ chain = <<>> /\ forks = 0
  /\ rows = [d \in Deposit |-> NoRow]
  /\ pending = 0 /\ available = 0
  /\ checkpoint = NoCheckpoint
  /\ scanner = Resting
  /\ torn = FALSE

-----------------------------------------------------------------------------
(***************************************************************************)
(* The node and its chain (outside src/).  A definition named with a Bug   *)
(* suffix is a mutant of the one that follows it; no specification uses it. *)
(***************************************************************************)
Tip == Len(chain)
OutputsOf(c) == UNION {c[h].outputs : h \in 1 .. Len(c)}

(* Below the start block the chain never changes. *)
Hash(h) == IF h <= 0 THEN 0 ELSE chain[h].fork

(* Blocks that stay: Confirmations deep. *)
FinalHeight == Tip - Confirmations + 1
Settled == UNION {chain[h].outputs : h \in 1 .. FinalHeight}

(* The chain c with n new blocks, which pay any outputs not paid in c.     *)
Extensions(c, n, fork) ==
  {c \o [k \in 1 .. n |-> [fork |-> fork, outputs |-> f[k]]] :
     f \in {g \in [1 .. n -> SUBSET (Deposit \ OutputsOf(c))] :
              \A k, l \in 1 .. n : k # l => g[k] \intersect g[l] = {}}}

Extend ==
  /\ Tip < MaxHeight
  /\ chain' \in Extensions(chain, 1, forks)
  /\ UNCHANGED <<forks, db, scanner, torn>>

(* The newest k blocks, none of them final, give way to a longer branch;   *)
(* their transactions may be in it, elsewhere, or not.                     *)
Replace(k) ==
  /\ k \in 1 .. Tip - Larger(FinalHeight, 0)
  /\ Tip < MaxHeight /\ forks < MaxForks
  /\ forks' = forks + 1
  /\ chain' \in Extensions(SubSeq(chain, 1, Tip - k), k + 1, forks + 1)
  /\ UNCHANGED <<db, scanner, torn>>

-----------------------------------------------------------------------------
(***************************************************************************)
(* A pass of the scanner: RunOnce.                                         *)
(***************************************************************************)
Goto(l) == scanner' = [scanner EXCEPT !.at = l]

(* BlockCount, then BTCCheckpoint: the first pass starts at the start block. *)
Begin ==
  /\ scanner.at = "idle"
  /\ scanner' = [Resting EXCEPT !.tip = Tip, !.left = BatchSize,
                                !.at = IF checkpoint.height < 0 THEN "scan" ELSE "compare"]
  /\ UNCHANGED <<node, db, torn>>

(* The node's hash at the checkpoint is the one that was scanned. *)
OnCheckpoint == checkpoint.height < 0 \/ Hash(checkpoint.height) = checkpoint.fork

Compare ==
  /\ scanner.at = "compare"
  /\ Goto(IF OnCheckpoint THEN "scan" ELSE "rewind")
  /\ UNCHANGED <<node, db, torn>>

RewindHeightBug == checkpoint.height - Confirmations
RewindHeight == Larger(checkpoint.height - Confirmations, 0)
Above(h) == {d \in Deposit : rows[d].status # "none" /\ rows[d].height > h}

(* What a rewind takes back: deposits that are not credited. *)
Undone(h) == {d \in Above(h) : rows[d].status # "CREDITED"}

(* RewindBTCCheckpoint: deposits above the window's start, their entries   *)
(* and outputs are deleted, their pending amounts taken back.              *)
Rewinds == \A d \in Above(RewindHeight) : rows[d].status # "CREDITED"

Rewind ==
  /\ scanner.at = "rewind"
  /\ Rewinds
  /\ pending >= AmountOf(Undone(RewindHeight))
  /\ pending' = pending - AmountOf(Undone(RewindHeight))
  /\ rows' = [d \in Deposit |-> IF d \in Undone(RewindHeight) THEN NoRow ELSE rows[d]]
  /\ checkpoint' = [height |-> RewindHeight, fork |-> Hash(RewindHeight)]
  /\ Goto("scan")
  /\ UNCHANGED <<node, available, torn>>

(* A credited deposit above the window's start: the pass ends in an error. *)
RewindRefused ==
  /\ scanner.at = "rewind"
  /\ ~ Rewinds
  /\ scanner' = Resting
  /\ UNCHANGED <<node, db, torn>>

(* The height scanned next: startBlock is 1. *)
NextHeightBug == Larger(checkpoint.height, 0) + 2
NextHeight == Larger(checkpoint.height, 0) + 1
InBatch == scanner.left > 0 /\ NextHeight <= scanner.tip

(* ScanBlock: the outputs of a block to controlled addresses. *)
Observed(h) == chain[h].outputs

(* BlockHash, Block and RecordBTCDepositsAndCheckpoint: outputs that have  *)
(* no row yet become pending; a row that exists stays as it is.            *)
Scan ==
  LET new == {d \in Observed(NextHeight) : rows[d].status = "none"}
  IN /\ scanner.at = "scan" /\ InBatch
     /\ rows' = [d \in Deposit |->
                   IF d \in new THEN [status |-> "CONFIRMING", height |-> NextHeight,
                                      fork |-> Hash(NextHeight), confirmations |-> 0]
                   ELSE rows[d]]
     /\ pending' = pending + AmountOf(new)
     /\ checkpoint' = [height |-> NextHeight, fork |-> Hash(NextHeight)]
     /\ scanner' = [scanner EXCEPT !.left = @ - 1]
     /\ torn' = (torn \/ ~ OnCheckpoint)
     /\ UNCHANGED <<node, available>>

(* The batch ends, and confirm lists the deposits to look at. *)
List ==
  /\ scanner.at = "scan" /\ ~ InBatch
  /\ scanner' = [scanner EXCEPT !.at = "confirm",
                                !.todo = {d \in Deposit : rows[d].status = "CONFIRMING"}]
  /\ UNCHANGED <<node, db, torn>>

(* Confirmations, counted from the tip read first. *)
CountBug(d) == Larger(scanner.tip - rows[d].height, 0)
Count(d) == IF scanner.tip < rows[d].height THEN 0 ELSE scanner.tip - rows[d].height + 1

Lowest(d) == d \in scanner.todo /\ \A e \in scanner.todo : rows[d].height <= rows[e].height
Confirmed(d) == [rows[d] EXCEPT !.confirmations = Larger(@, Count(d))]
Proceed(d) == scanner' = [scanner EXCEPT !.todo = @ \ {d}]

(* UpdateBTCDepositConfirmations. *)
Wait(d) ==
  /\ scanner.at = "confirm" /\ Lowest(d)
  /\ Count(d) < Confirmations
  /\ rows' = [rows EXCEPT ![d] = Confirmed(d)]
  /\ Proceed(d)
  /\ UNCHANGED <<node, pending, available, checkpoint, torn>>

(* The node's hash at the deposit's height is the one it was found in. *)
SameHashBug(d) == TRUE
SameHash(d) == Hash(rows[d].height) = rows[d].fork

(* CreditBTCDeposit, and its sweep is opened. *)
Credit(d) ==
  /\ scanner.at = "confirm" /\ Lowest(d)
  /\ Count(d) >= Confirmations
  /\ SameHash(d)
  /\ rows' = [rows EXCEPT ![d] = [Confirmed(d) EXCEPT !.status = "CREDITED"]]
  /\ pending' = pending - Amount[d]
  /\ available' = available + Amount[d]
  /\ Proceed(d)
  /\ UNCHANGED <<node, checkpoint, torn>>

(* Another hash: the pass ends in an error, and what follows has to wait. *)
Mismatch(d) ==
  /\ scanner.at = "confirm" /\ Lowest(d)
  /\ Count(d) >= Confirmations
  /\ ~ SameHash(d)
  /\ scanner' = Resting
  /\ UNCHANGED <<node, db, torn>>

Done ==
  /\ scanner.at = "confirm" /\ scanner.todo = {}
  /\ scanner' = Resting
  /\ UNCHANGED <<node, db, torn>>

(* A call fails, and Run starts anew at the next tick; or the process dies. *)
Interrupt ==
  /\ scanner.at # "idle"
  /\ scanner' = Resting
  /\ UNCHANGED <<node, db, torn>>

Pass ==
  \/ Begin \/ Compare \/ Rewind \/ RewindRefused \/ Scan \/ List \/ Done
  \/ \E d \in Deposit : Wait(d) \/ Credit(d) \/ Mismatch(d)

Next ==
  \/ Pass \/ Interrupt
  \/ Extend \/ \E k \in 1 .. Confirmations - 1 : Replace(k)

Spec == Init /\ [][Next]_vars

(* Passes repeat at every tick, and fail for outside reasons only finitely *)
(* often.  Nothing is assumed of the chain.                                *)
FairSpec == Spec /\ WF_vars(Pass) /\ <>[][scanner' # scanner => Pass]_vars

-----------------------------------------------------------------------------
(***************************************************************************)
(* Properties.                                                             *)
(***************************************************************************)

(* The scanner implements Crediting: over rewinds, retries and restarts a  *)
(* deposit is pending once and available once, and only in a block that    *)
(* stays.                                                                  *)
Phase(d) == CASE rows[d].status = "none" -> "absent"
              [] rows[d].status = "CONFIRMING" -> "pending"
              [] OTHER -> "available"
C == INSTANCE Crediting WITH
       phase <- [d \in Deposit |-> Phase(d)], irreversible <- Settled
CreditingSpec == C!Spec

(* As long as the checkpoint's block is on the chain, the rows are exactly *)
(* what the chain up to there pays, in the blocks it has now, whatever was *)
(* replaced before, unless a batch ever went on across a replacement.      *)
RowsFollowChain ==
  OnCheckpoint /\ ~ torn =>
    \A d \in Deposit :
      LET heights == {h \in 1 .. checkpoint.height : d \in chain[h].outputs} IN
      /\ rows[d].status = "none" <=> heights = {}
      /\ \A h \in heights : rows[d].height = h /\ rows[d].fork = Hash(h)

(* A deposit in a block that stays is credited in the end, unless a batch  *)
(* went on across a replacement, or the checkpoint's block was replaced    *)
(* within the window of a credited deposit: nothing else stops the scanner. *)
Halted == ~ OnCheckpoint /\ ~ Rewinds
CreditedUnlessHalted ==
  \A d \in Deposit : d \in Settled ~> (rows[d].status = "CREDITED" \/ Halted \/ torn)

(* docs/specs/003-bitcoin/003-bitcoin-signet-design.md:185: when a block's *)
(* hash changed, the scanner goes back a confirmation window and scans     *)
(* again.  So replaced blocks do not stop it.                              *)
RescansReplaced == ~ OnCheckpoint ~> (OnCheckpoint \/ torn)

-----------------------------------------------------------------------------
(***************************************************************************)
(* The inductive invariant the proofs rest on.                             *)
(***************************************************************************)
Exists(d) == rows[d].status # "none"

(* A replacement marks its blocks, and a chain pays an output once.        *)
ChainShape ==
  /\ \A n \in 1 .. Len(chain) : chain[n].fork <= forks
  /\ \A m, n \in 1 .. Len(chain) : m # n => chain[m].outputs \intersect chain[n].outputs = {}

(* A row is of a block up to the checkpoint: if that is still on the       *)
(* chain, it has the output.                                               *)
RowShape ==
  \A d \in Deposit : Exists(d) =>
    /\ rows[d].height > 0 /\ rows[d].height <= checkpoint.height
    /\ chain[rows[d].height].fork = rows[d].fork => d \in chain[rows[d].height].outputs

(* Up to height n the rows are what the chain pays.                        *)
FollowsTo(n) ==
  \A d \in Deposit :
    /\ Exists(d) /\ rows[d].height <= n =>
         \E h \in 1 .. Len(chain) : h <= n /\ d \in chain[h].outputs
    /\ \A h \in 1 .. Len(chain) : h <= n /\ d \in chain[h].outputs =>
         Exists(d) /\ rows[d].height = h /\ rows[d].fork = Hash(h)

(* They are up to the checkpoint as long as its block is there; after that *)
(* they still are below the window, where no block is replaced.            *)
FollowShape ==
  ~ torn => /\ FollowsTo(checkpoint.height - Confirmations + 1)
            /\ OnCheckpoint => FollowsTo(checkpoint.height)

(* Only confirm has deposits to look at, and no one else credits them.     *)
ScannerShape ==
  /\ scanner.at # "confirm" => scanner.todo = {}
  /\ \A d \in scanner.todo : rows[d].status = "CONFIRMING"

(* The balances are the sums of the rows. *)
BooksShape ==
  /\ pending = AmountOf({d \in Deposit : rows[d].status = "CONFIRMING"})
  /\ available = AmountOf({d \in Deposit : rows[d].status = "CREDITED"})

IndInv == ChainShape /\ RowShape /\ FollowShape /\ ScannerShape /\ BooksShape
=============================================================================
