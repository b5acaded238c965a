---------------------------- MODULE TokenDeposit ----------------------------
(***************************************************************************)
(* The scanner of ERC20 deposits (token/deposit/scanner.go) with its       *)
(* database transactions (store/postgres/token_deposit_transaction.go) and *)
(* the RPC client it shares with the other workers, for one user's address *)
(* and one token.  It asks for the Transfer logs of a range of blocks,     *)
(* halves the range when it is too large, records what it found with the   *)
(* new checkpoint, and credits each deposit once it is confirmed and its   *)
(* block still has the hash it was found in.                               *)
(*                                                                         *)
(* Every attempt of every RPC call is a step, together with the database   *)
(* transaction that follows an answer: nothing but the scanner writes what *)
(* that reads.  The endpoints may be one block apart.  The sweep which a   *)
(* credit opens is in TokenSweep.                                          *)
(***************************************************************************)
EXTENDS RpcClient, Sums

CONSTANTS
  NumDeposits,      \* Transfer logs to the user's address, known by (tx_hash, log_index)
  Amount,           \* the amount of each
  Confirmations, BatchSize,
  MaxHeight,        \* bound: blocks of the chain
  MaxForks          \* bound: times the newest block is replaced

ASSUME TokenDepositConstantsAssumption ==
  /\ NumDeposits \in Nat /\ Amount \in [1 .. NumDeposits -> Nat \ {0}]
  /\ Confirmations \in Nat \ {0} /\ BatchSize \in Nat \ {0}
  /\ MaxHeight \in Nat /\ MaxForks \in Nat

Deposit == 1 .. NumDeposits

(* A block's hash is its height with the number of replacements before it. *)
Block  == [fork : Nat, logs : SUBSET Deposit]
BlockRange == [from : Nat \ {0}, to : Nat]
Unread == -1

VARIABLES
  chain, forks,             \* the blocks; the replacements so far
  behind,                   \* the endpoints that do not know the newest block yet
  status, seenAt, seenFork, \* token_deposits: status, block_number, block_hash
  available, pending,       \* asset_balances, as far as deposits move it
  scanned,                  \* chain_checkpoints: its length; the rest is history: the
                            \* hashes of the blocks whose logs were read, or Unread
  scanner                   \* the scanner: its step, and what it has read

client == <<foreign, active, call>>
node   == <<chain, forks, behind>>
db     == <<status, seenAt, seenFork, available, pending, scanned>>
vars   == <<client, node, db, scanner>>

Resting == [at |-> "idle", latest |-> 0, ranges |-> <<>>, blocks |-> <<>>, todo |-> {}]

Larger(m, n)  == IF m > n THEN m ELSE n
Smaller(m, n) == IF m < n THEN m ELSE n
AmountOf(S)   == Total([d \in Deposit |-> IF d \in S THEN Amount[d] ELSE 0], NumDeposits)

TypeOK ==
  /\ ClientTypeOK
  /\ chain \in Seq(Block) /\ forks \in 0 .. MaxForks /\ behind \subseteq Endpoint
  /\ status \in [Deposit -> {"none", "CONFIRMING", "CREDITED"}]
  /\ seenAt \in [Deposit -> 0 .. Len(scanned)] /\ seenFork \in [Deposit -> 0 .. forks]
  /\ available \in 0 .. AmountOf(Deposit) /\ pending \in 0 .. AmountOf(Deposit)
  /\ scanned \in Seq(Nat \union {Unread}) /\ Len(scanned) <= Len(chain)
  /\ scanner \in [at : {"idle", "tip", "logs", "header", "list", "check", "verify", "stopped"},
                  latest : 0 .. Len(chain), ranges : Seq(BlockRange), blocks : Seq(Block),
                  todo : SUBSET Deposit]

Init ==
  /\ ClientInit
  /\ chain = <<>> /\ forks = 0 /\ behind = {}
  /\ status = [d \in Deposit |-> "none"]
  /\ seenAt = [d \in Deposit |-> 0] /\ seenFork = [d \in Deposit |-> 0]
  /\ available = 0 /\ pending = 0 /\ scanned = <<>>
  /\ scanner = Resting

-----------------------------------------------------------------------------
(***************************************************************************)
(* The chain and what its endpoints know (outside src/).                   *)
(***************************************************************************)
LogsOf(blocks) == UNION {blocks[n].logs : n \in 1 .. Len(blocks)}

(* The newest blocks may be replaced, those with Confirmations not.        *)
FinalHeight == Len(chain) - Confirmations + 1
Settled == UNION {chain[n].logs : n \in 1 .. FinalHeight}
Height(e) == Len(chain) - (IF e \in behind THEN 1 ELSE 0)

NewBlock(old, fork, S) ==
  /\ S \subseteq Deposit \ LogsOf(old)
  /\ chain' = Append(old, [fork |-> fork, logs |-> S])
  /\ behind' \in {{}} \union {{e} : e \in Endpoint}
  /\ UNCHANGED <<client, db, scanner>>

Extend(S) ==
  /\ Len(chain) < MaxHeight
  /\ NewBlock(chain, forks, S)
  /\ UNCHANGED forks

Replace(S) ==
  /\ forks < MaxForks /\ Len(chain) > Larger(FinalHeight, 0)
  /\ NewBlock(SubSeq(chain, 1, Len(chain) - 1), forks + 1, S)
  /\ forks' = forks + 1

CatchUp(e) ==
  /\ e \in behind
  /\ behind' = behind \ {e}
  /\ UNCHANGED <<client, chain, forks, db, scanner>>

-----------------------------------------------------------------------------
(***************************************************************************)
(* A pass of the scanner.  A definition named with a Bug suffix is a       *)
(* mutant of the one that follows it; no specification uses it.            *)
(***************************************************************************)
At(l) == scanner.at = l
Local == UNCHANGED <<foreign, active, node>>
Answered(l) == At(l) /\ MarkSuccess /\ UNCHANGED node

(* The scanner goes on, with a new question or without.  The last answer   *)
(* is marked before the next call looks for the active endpoint.           *)
Ask(s)  == scanner' = s /\ call' = Called'
Turn(s) == scanner' = s /\ call' = NoCall

First == Head(scanner.ranges)

(* What the asked endpoint says: the newest height; the logs it has of a   *)
(* range (the blocks they are in, that is), also when it does not know all *)
(* of it; whether it has a header.                                         *)
BlockNumber  == Height(Asked)
FilterLogs(r) == SubSeq(chain, r.from, Smaller(r.to, BlockNumber))
HasHeader(n) == n <= BlockNumber

(* runOnce asks for the newest height. *)
Begin ==
  /\ At("idle")
  /\ Local /\ UNCHANGED db
  /\ Ask([Resting EXCEPT !.at = "tip"])

(* nextBlock: the checkpoint is the length of `scanned'. *)
NextBlock == Len(scanned) + 1

(* The range of a batch, if there are new blocks. *)
Batch(latest) == [from |-> NextBlock, to |-> Smaller(latest, NextBlock + BatchSize - 1)]

StartRange ==
  /\ Answered("tip")
  /\ LET read == [scanner EXCEPT !.latest = BlockNumber]
     IN IF NextBlock <= BlockNumber
        THEN Ask([read EXCEPT !.at = "logs", !.ranges = <<Batch(BlockNumber)>>])
        ELSE Turn([read EXCEPT !.at = "list"])
  /\ UNCHANGED db

(* FilterTransferLogs. *)
LogsRead ==
  /\ Answered("logs")
  /\ Ask([scanner EXCEPT !.at = "header", !.blocks = FilterLogs(First)])
  /\ UNCHANGED db

(* scanRange calls itself for each half of a range that is too large.      *)
Halves(r) == LET middle == r.from + (r.to - r.from) \div 2
             IN <<[r EXCEPT !.to = middle], [r EXCEPT !.from = middle + 1]>>

SplitRange ==
  /\ At("logs") /\ First.from < First.to
  /\ call.passed
  /\ Local /\ UNCHANGED db
  /\ Ask([scanner EXCEPT !.ranges = Halves(First) \o Tail(@)])

(* The logs that pay the user, with their blocks. *)
Observed == LogsOf(scanner.blocks)
BlockOf(d) == CHOOSE k \in 1 .. Len(scanner.blocks) : d \in scanner.blocks[k].logs
FoundAt(d) == First.from + BlockOf(d) - 1
FoundFork(d) == scanner.blocks[BlockOf(d)].fork

(* A log that was recorded in another block: ErrIdempotencyConflict. *)
ConflictBug == FALSE
Conflict ==
  \E d \in Observed : status[d] # "none" /\ <<seenAt[d], seenFork[d]>> # <<FoundAt(d), FoundFork(d)>>

(* The header of the range's last block, and                               *)
(* RecordTokenDepositsAndCheckpoint: the new deposits, their pending       *)
(* amounts and the end of the range in one transaction.                    *)
Record ==
  LET new == {d \in Observed : status[d] = "none"}
      rest == [scanner EXCEPT !.ranges = Tail(@), !.blocks = <<>>]
  IN /\ Answered("header")
     /\ HasHeader(First.to) /\ ~ Conflict
     /\ status' = [d \in Deposit |-> IF d \in new THEN "CONFIRMING" ELSE status[d]]
     /\ seenAt' = [d \in Deposit |-> IF d \in new THEN FoundAt(d) ELSE seenAt[d]]
     /\ seenFork' = [d \in Deposit |-> IF d \in new THEN FoundFork(d) ELSE seenFork[d]]
     /\ pending' = pending + AmountOf(new)
     /\ scanned' = [n \in 1 .. First.to |->
                      IF n < First.from THEN scanned[n]
                      ELSE IF n - First.from < Len(scanner.blocks)
                           THEN scanner.blocks[n - First.from + 1].fork ELSE Unread]
     /\ IF Tail(scanner.ranges) = <<>> THEN Turn([rest EXCEPT !.at = "list"])
        ELSE Ask([rest EXCEPT !.at = "logs"])
     /\ UNCHANGED available

(* ListConfirmingTokenDeposits. *)
Confirming == {d \in Deposit : status[d] = "CONFIRMING"}
List ==
  /\ At("list")
  /\ Turn([scanner EXCEPT !.at = "check", !.todo = Confirming])
  /\ Local /\ UNCHANGED db

(* In order of height. *)
Lowest(d) == d \in scanner.todo /\ \A e \in scanner.todo : seenAt[d] <= seenAt[e]

EnoughConfirmations(d) == scanner.latest - seenAt[d] + 1 >= Confirmations

(* UpdateTokenDepositConfirmations, or nothing for a block above latest.   *)
Wait(d) ==
  /\ At("check") /\ Lowest(d)
  /\ ~ EnoughConfirmations(d)
  /\ Turn([scanner EXCEPT !.todo = @ \ {d}])
  /\ Local /\ UNCHANGED db

(* verifyBlockHash asks for the header of the deposit's block. *)
Verify(d) ==
  /\ At("check") /\ Lowest(d)
  /\ EnoughConfirmations(d)
  /\ Local /\ UNCHANGED db
  /\ Ask([scanner EXCEPT !.at = "verify"])

SameHashBug(d) == TRUE
SameHash(d) == chain[seenAt[d]].fork = seenFork[d]

(* CreditTokenDeposit. *)
Credit(d) ==
  /\ Answered("verify") /\ Lowest(d)
  /\ HasHeader(seenAt[d]) /\ SameHash(d)
  /\ status' = [status EXCEPT ![d] = "CREDITED"]
  /\ pending' = pending - Amount[d]
  /\ available' = available + Amount[d]
  /\ Turn([scanner EXCEPT !.at = "check", !.todo = @ \ {d}])
  /\ UNCHANGED <<seenAt, seenFork, scanned>>

(* ErrBlockHashMismatch ends Run. *)
Stop(d) ==
  /\ Answered("verify") /\ Lowest(d)
  /\ HasHeader(seenAt[d]) /\ ~ SameHash(d)
  /\ Turn([Resting EXCEPT !.at = "stopped"])
  /\ UNCHANGED db

(* The pass ends, with its work done or in a recorded conflict, until the  *)
(* next tick.                                                              *)
EndPass ==
  /\ \/ /\ At("check") /\ scanner.todo = {}
        /\ Local
     \/ /\ Answered("header")
        /\ HasHeader(First.to) /\ Conflict
  /\ Turn(Resting)
  /\ UNCHANGED db

(* A header that the endpoint does not have is NotFound. *)
NotFound ==
  \/ At("header") /\ ~ HasHeader(First.to)
  \/ At("verify") /\ \E d \in Deposit : Lowest(d) /\ ~ HasHeader(seenAt[d])

(* A probe or an attempt; when it leaves no endpoint to try, the pass ends. *)
EndsWithCall ==
  /\ scanner' = IF Calling' THEN scanner ELSE Resting
  /\ UNCHANGED <<node, db>>

NoReply(f) ==
  /\ Fail(f)
  /\ IsLogRangeTooLarge(f) => At("logs") /\ First.from = First.to
  /\ EndsWithCall

Pass ==
  \/ Begin \/ StartRange \/ LogsRead \/ SplitRange \/ Record \/ List \/ EndPass
  \/ \E d \in Deposit : Wait(d) \/ Verify(d) \/ Credit(d) \/ Stop(d)
  \/ Validated /\ EndsWithCall
  \/ NotFound /\ NoReply("refused")

(* The process dies or is started again. *)
Restart ==
  /\ ClientRestart
  /\ scanner' = Resting
  /\ UNCHANGED <<node, db>>

Next ==
  \/ Pass
  \/ Rejected /\ EndsWithCall
  \/ \E f \in Failure : NoReply(f)
  \/ Restart
  \/ \E e \in Endpoint : OtherCall(e) /\ UNCHANGED <<node, db, scanner>>
  \/ \E S \in SUBSET Deposit : Extend(S) \/ Replace(S)
  \/ \E e \in Endpoint : CatchUp(e)

Spec == Init /\ [][Next]_vars

(***************************************************************************)
(* Fairness.  Passes repeat at every tick, and endpoints hear of all       *)
(* blocks.  From some point on one endpoint of the right chain answers at  *)
(* every attempt; the other one may time out for ever, but does not refuse *)
(* connections; a single block's logs are not too many, and the process    *)
(* stays up.                                                               *)
(***************************************************************************)
Unanswered == (Rejected \/ Fail("timeout")) /\ EndsWithCall

Steady(e) ==
  /\ <>[](e \notin foreign)
  /\ <>[][scanner' # scanner \/ call' # call
            => Pass \/ (Unanswered /\ Asked # e)]_vars

FairSpec ==
  /\ Spec
  /\ WF_vars(Pass \/ Unanswered) /\ \A e \in Endpoint : WF_vars(CatchUp(e))
  /\ \E e \in Endpoint : Steady(e)

-----------------------------------------------------------------------------
(***************************************************************************)
(* Properties.                                                             *)
(***************************************************************************)

(* The scanner implements Crediting: over split ranges, failed passes and  *)
(* restarts a log is pending once and available once, from a block that    *)
(* stays, though its logs, the range's header and the header it is         *)
(* verified with may come from different endpoints.  A transfer that is    *)
(* mined again at another log index is another deposit, here and to the    *)
(* code.                                                                   *)
Phase(d) == CASE status[d] = "none" -> "absent"
              [] status[d] = "CONFIRMING" -> "pending"
              [] OTHER -> "available"
C == INSTANCE Crediting WITH
       phase <- [d \in Deposit |-> Phase(d)], irreversible <- Settled
CreditingSpec == C!Spec

(* The checkpoint passes a block whose logs were read only with all of its *)
(* deposits recorded, however the range was split and wherever a call      *)
(* failed.                                                                 *)
NoneSkipped ==
  \A n \in 1 .. Len(scanned) : chain[n].fork = scanned[n] =>
     \A d \in chain[n].logs : status[d] # "none" /\ seenFork[d] = scanned[n]

(* As long as no block was replaced and none passed unread, every deposit  *)
(* that stays is credited, also when one endpoint fails for ever.          *)
AllRead == \A n \in 1 .. Len(scanned) : scanned[n] # Unread
EveryDepositCredited ==
  \A d \in Deposit : d \in Settled ~> (status[d] = "CREDITED" \/ forks > 0 \/ ~ AllRead)

(* docs/specs/001-evm-wallet/requirements.md:150: when RPC providers       *)
(* report heights that differ, the system must not skip blocks that were   *)
(* not reliably processed.                                                 *)
NoBlockSkipped ==
  \A n \in 1 .. Len(scanned) : n <= FinalHeight => \A d \in chain[n].logs : status[d] # "none"

-----------------------------------------------------------------------------
(***************************************************************************)
(* The inductive invariant the proofs rest on.                             *)
(***************************************************************************)

(* A replacement marks its block, and a chain pays a deposit once.         *)
ChainShape ==
  /\ \A n \in 1 .. Len(chain) : chain[n].fork <= forks
  /\ \A m, n \in 1 .. Len(chain) : m # n => chain[m].logs \intersect chain[n].logs = {}
  /\ behind # {} => Len(chain) > 0

(* A row is of a block that was read: if that is still on the chain, it    *)
(* has the deposit.                                                        *)
RowShape ==
  /\ \A n \in 1 .. Len(scanned) : scanned[n] <= forks
  /\ \A d \in Deposit : status[d] # "none" =>
       /\ seenAt[d] > 0
       /\ chain[seenAt[d]].fork = seenFork[d] => d \in chain[seenAt[d]].logs

(* The ranges left follow each other, from the checkpoint on.              *)
RangeShape ==
  At("logs") \/ At("header") =>
    /\ scanner.ranges # <<>> /\ First.from = NextBlock
    /\ \A i \in 1 .. Len(scanner.ranges) : scanner.ranges[i].from <= scanner.ranges[i].to
    /\ \A i, j \in 1 .. Len(scanner.ranges) :
         j = i + 1 => scanner.ranges[j].from = scanner.ranges[i].to + 1

(* The blocks read are blocks of the range: one that is still on the chain *)
(* is there as it was read.                                                *)
BlocksShape ==
  At("header") =>
    /\ First.from + Len(scanner.blocks) <= First.to + 1
    /\ \A k \in 1 .. Len(scanner.blocks) :
         LET n == First.from + k - 1 IN
         /\ n <= Len(chain) /\ scanner.blocks[k].fork <= forks
         /\ chain[n].fork = scanner.blocks[k].fork => chain[n] = scanner.blocks[k]
    /\ \A k, l \in 1 .. Len(scanner.blocks) :
         k # l => scanner.blocks[k].logs \intersect scanner.blocks[l].logs = {}

(* Nothing else credits what the scanner looks at, and the deposit whose   *)
(* header it asks for has its confirmations.                               *)
CheckShape ==
  /\ \A d \in scanner.todo : status[d] = "CONFIRMING"
  /\ At("verify") => \A d \in Deposit : Lowest(d) => EnoughConfirmations(d)

(* The balances are the sums of the rows. *)
BooksShape ==
  /\ pending = AmountOf({d \in Deposit : status[d] = "CONFIRMING"})
  /\ available = AmountOf({d \in Deposit : status[d] = "CREDITED"})

IndInv ==
  /\ ChainShape /\ RowShape /\ RangeShape /\ BlocksShape /\ CheckShape /\ BooksShape
  /\ NoneSkipped
=============================================================================
