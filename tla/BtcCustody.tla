----------------------------- MODULE BtcCustody -----------------------------
(***************************************************************************)
(* The Bitcoin side of the custody: deposits become unspent outputs of the *)
(* platform, each credited deposit opens a sweep of its output to the      *)
(* treasury (btc/sweep_worker.go), and withdrawals are paid from any       *)
(* recorded output (btc/withdrawal_worker.go).  The two workers are        *)
(* goroutines that meet in the rows of btc_utxos and in the mempool; the   *)
(* database transactions are those of store/postgres/bitcoin.go and        *)
(* store/postgres/bitcoin_withdrawal_worker.go.                            *)
(*                                                                         *)
(* Each database transaction and each RPC call is one step.  The balances  *)
(* of different users never meet, while the outputs are one pool: one user *)
(* stands for all.  Amounts are satoshi; the fees are the code's virtual   *)
(* sizes at the fee rate Rate.                                             *)
(***************************************************************************)
EXTENDS Integers, FiniteSets, FiniteSetsExt, Sums

CONSTANTS
  NumDeposits,      \* deposits that reached a user's address
  NumWithdrawals,   \* idempotency keys of withdrawals
  Value,            \* the value of each deposit
  Amount,           \* amounts a client may ask for
  Rate,             \* sat/vB, one configured rate for sweeps and withdrawals
  Faults            \* faults of the chain: some of "reorg", "evict"

ASSUME BtcConstantsAssumption ==
  /\ NumDeposits \in Nat /\ NumWithdrawals \in Nat
  /\ Value \in [1 .. NumDeposits -> Nat \ {0}]
  /\ Amount \subseteq Nat \ {0}
  /\ Rate \in Nat \ {0}
  /\ Faults \subseteq {"reorg", "evict"}

Deposit    == 1 .. NumDeposits
Withdrawal == 1 .. NumWithdrawals

(* The outputs btc_utxos may hold: of deposit d, and of its sweep.         *)
Outpoint    == 1 .. 2 * NumDeposits
Treasury(d) == NumDeposits + d
Source(o)   == o - NumDeposits

(* A transaction: the sweep of a deposit, or a withdrawal with its inputs. *)
Tx == [kind : {"sweep", "withdrawal"}, id : Nat, ins : SUBSET Outpoint, pays : Nat]

Active   == {"CREATED", "SIGNED", "BROADCAST_UNKNOWN", "BROADCASTED"}
Status   == {"none", "COMPLETED", "FAILED"} \union Active
Resumed  == {"SIGNED", "BROADCAST_UNKNOWN"}

VARIABLES
  available, pendingDeposit, pendingWithdrawal,  \* the user's BTC row of asset_balances
  entries,                  \* balance_entries: <<entry type, deposit or withdrawal>>
  deposit,                  \* status of each row of btc_deposits
  utxo, lockedBy,           \* btc_utxos: status and locked_by (0 is NULL)
  sweepStatus,              \* btc_sweeps
  status, amount, inputs,   \* btc_withdrawals; inputs are those of raw_tx, {} while NULL
  mempool, mined, buried,   \* the node: pending, mined, and finally confirmed transactions
  worker,                   \* the withdrawal worker: its step, row and inputs locked
  sweeper                   \* the sweep worker: its step and row

ledger == <<available, pendingDeposit, pendingWithdrawal, entries>>
outputs == <<utxo, lockedBy>>
rows   == <<status, amount, inputs>>
chain  == <<mempool, mined, buried>>
vars   == <<ledger, deposit, outputs, sweepStatus, rows, chain, worker, sweeper>>

Resting == [at |-> "idle", row |-> 0, ins |-> {}]
Asleep  == [at |-> "idle", row |-> 0]

TypeOK ==
  /\ available \in Nat /\ pendingDeposit \in Nat /\ pendingWithdrawal \in Nat
  /\ entries \subseteq {"DEPOSIT_PENDING", "DEPOSIT_CREDIT", "WITHDRAW_RESERVE"} \X Nat
  /\ deposit \in [Deposit -> {"CONFIRMING", "CREDITED"}]
  /\ utxo \in [Outpoint -> {"none", "UNCONFIRMED", "UNSPENT", "LOCKED", "SPENT"}]
  /\ lockedBy \in [Outpoint -> 0 .. NumWithdrawals]
  /\ sweepStatus \in [Deposit -> Status] /\ status \in [Withdrawal -> Status]
  /\ amount \in [Withdrawal -> Nat] /\ inputs \in [Withdrawal -> SUBSET Outpoint]
  /\ mempool \subseteq Tx /\ mined \subseteq Tx /\ buried \subseteq mined
  /\ worker.at \in {"idle", "build", "fail", "send", "unknown", "broadcasted"}
  /\ worker.at # "idle" => worker.row \in Withdrawal
  /\ worker.ins \subseteq Outpoint
  /\ sweeper.at \in {"idle", "fail", "send", "unknown", "broadcasted"}
  /\ sweeper.at # "idle" => sweeper.row \in Deposit

(* The scanner has recorded the deposits, which are mined, and not yet     *)
(* credited them.                                                          *)
Init ==
  /\ available = 0 /\ pendingDeposit = Total(Value, NumDeposits) /\ pendingWithdrawal = 0
  /\ entries = {<<"DEPOSIT_PENDING", d>> : d \in Deposit}
  /\ deposit = [d \in Deposit |-> "CONFIRMING"]
  /\ utxo = [o \in Outpoint |-> IF o \in Deposit THEN "UNCONFIRMED" ELSE "none"]
  /\ lockedBy = [o \in Outpoint |-> 0]
  /\ sweepStatus = [d \in Deposit |-> "none"]
  /\ status = [w \in Withdrawal |-> "none"]
  /\ amount = [w \in Withdrawal |-> 0]
  /\ inputs = [w \in Withdrawal |-> {}]
  /\ mempool = {} /\ mined = {} /\ buried = {}
  /\ worker = Resting /\ sweeper = Asleep

-----------------------------------------------------------------------------
(***************************************************************************)
(* Fees and selection.  Definitions named with a Bug suffix are mutants:   *)
(* no specification uses them, and the runs are repeated with each in the  *)
(* place of the definition it follows to see a property fail.              *)
(***************************************************************************)
SweepFee     == Rate * 110
SelectFee(n) == Rate * (10 + 68 * n + 31)
BuildFee(n)  == Rate * (10 + 68 * n + 31 + 31)
Dust         == 294

SatsOf(o) == IF o \in Deposit THEN Value[o] ELSE Value[Source(o)] - SweepFee
Sats(S)   == MapThenSumSet(SatsOf, S)

Sweepable(d) == Value[d] - SweepFee >= Dust

(* SelectUTXOs: of the sets that cover amount and fee, none of whose       *)
(* largest outputs already do, one with the smallest excess.               *)
Unspent         == {o \in Outpoint : utxo[o] = "UNSPENT"}
Excess(S, a)    == Sats(S) - a - SelectFee(Cardinality(S))
Enough(S, a)    == S # {} /\ Excess(S, a) >= 0
Prefixes(S)     == {P \in SUBSET S : P # S /\ \A o \in P, q \in S \ P : SatsOf(o) >= SatsOf(q)}
Candidates(a)   == {S \in SUBSET Unspent : /\ Cardinality(S) <= 12 /\ Enough(S, a)
                                           /\ \A P \in Prefixes(S) : ~ Enough(P, a)}
SelectUTXOs(a)  == {S \in Candidates(a) : \A T \in Candidates(a) : Excess(S, a) <= Excess(T, a)}

(* The signed transactions, which are functions of their rows. *)
SweepTx(d) == [kind |-> "sweep", id |-> d, ins |-> {d}, pays |-> SatsOf(Treasury(d))]
PayTx(w)   == [kind |-> "withdrawal", id |-> w, ins |-> inputs[w], pays |-> amount[w]]

-----------------------------------------------------------------------------
(***************************************************************************)
(* The node (outside src/).                                                *)
(***************************************************************************)
Known       == mempool \union mined
Exists(o)   == o \in Deposit \/ SweepTx(Source(o)) \in Known
SpentBy(o)  == {t \in Known : o \in t.ins}

(* testmempoolaccept refuses what the node already has, and what spends an *)
(* output that is missing or spent; sendrawtransaction accepts again what  *)
(* is pending.                                                             *)
Acceptable(t) == t \notin Known /\ \A o \in t.ins : Exists(o) /\ SpentBy(o) = {}
Sendable(t)   == Acceptable(t) \/ t \in mempool

Parents(t) == {u \in Known : u.kind = "sweep" /\ Treasury(u.id) \in t.ins}

Mine(t) ==
  /\ t \in mempool /\ Parents(t) \subseteq mined
  /\ mempool' = mempool \ {t} /\ mined' = mined \union {t}
  /\ UNCHANGED <<ledger, deposit, outputs, sweepStatus, rows, buried, worker, sweeper>>

(* The block of t reaches the configured number of confirmations. *)
Bury(t) ==
  /\ t \in mined \ buried /\ Parents(t) \subseteq buried
  /\ buried' = buried \union {t}
  /\ UNCHANGED <<ledger, deposit, outputs, sweepStatus, rows, mempool, mined, worker, sweeper>>

(* The block of t is replaced; t is pending again. *)
Reorg(t) ==
  /\ "reorg" \in Faults
  /\ t \in mined \ buried /\ \A u \in mined : t \notin Parents(u)
  /\ mempool' = mempool \union {t} /\ mined' = mined \ {t}
  /\ UNCHANGED <<ledger, deposit, outputs, sweepStatus, rows, buried, worker, sweeper>>

(* A pending transaction expires from the mempools, with what spends it. *)
Evict(t) ==
  /\ "evict" \in Faults
  /\ t \in mempool /\ \A u \in mempool : t \notin Parents(u)
  /\ mempool' = mempool \ {t}
  /\ UNCHANGED <<ledger, deposit, outputs, sweepStatus, rows, mined, buried, worker, sweeper>>

ChainStep ==
  \/ \E t \in mempool : Mine(t) \/ Evict(t)
  \/ \E t \in mined : Bury(t) \/ Reorg(t)

-----------------------------------------------------------------------------
(* CreditBTCDeposit: the deposit becomes available, its output unspent,    *)
(* and its sweep is opened; the output is not locked for the sweep.        *)
Credit(d) ==
  /\ deposit[d] = "CONFIRMING"
  /\ deposit' = [deposit EXCEPT ![d] = "CREDITED"]
  /\ pendingDeposit' = pendingDeposit - Value[d]
  /\ available' = available + Value[d]
  /\ entries' = entries \union {<<"DEPOSIT_CREDIT", d>>}
  /\ utxo' = [utxo EXCEPT ![d] = IF @ = "UNCONFIRMED" THEN "UNSPENT" ELSE @]
  /\ sweepStatus' = [sweepStatus EXCEPT ![d] = IF @ = "none" THEN "CREATED" ELSE @]
  /\ UNCHANGED <<pendingWithdrawal, lockedBy, rows, chain, worker, sweeper>>

(* CreateBTCWithdrawal reserves the amount alone: the platform bears the   *)
(* fee.  A key that is known changes nothing.                              *)
CoversBug(a) == TRUE
Covers(a) == available >= a

Create(w, a) ==
  /\ status[w] = "none"
  /\ Covers(a)
  /\ available' = available - a
  /\ pendingWithdrawal' = pendingWithdrawal + a
  /\ status' = [status EXCEPT ![w] = "CREATED"]
  /\ amount' = [amount EXCEPT ![w] = a]
  /\ entries' = entries \union {<<"WITHDRAW_RESERVE", w>>}
  /\ UNCHANGED <<pendingDeposit, deposit, outputs, sweepStatus, inputs, chain, worker, sweeper>>

-----------------------------------------------------------------------------
(***************************************************************************)
(* The withdrawal worker.  It alone writes the statuses of withdrawals, so *)
(* a step that follows from a status is taken from the status: whether it  *)
(* went on from the step before, or read the row again after a restart, is *)
(* the same.  What it read of the outputs and of the node may be stale.    *)
(***************************************************************************)

(* Where Process takes up a row; only a row without raw_tx is built.       *)
UnsignedBug == {"CREATED", "BROADCAST_UNKNOWN"}
Unsigned    == {"CREATED"}

FirstStep(st) == CASE st \in Unsigned -> "start"
                   [] st = "SIGNED" -> "test"
                   [] st = "BROADCAST_UNKNOWN" -> "send"
                   [] OTHER -> "confirm"

WorkerAt(w, l) ==
  \/ worker.at = l /\ worker.row = w
  \/ worker.at = "idle" /\ status[w] \in Active /\ FirstStep(status[w]) = l
WorkerGoto(w, l, S) == worker' = [at |-> l, row |-> w, ins |-> S]

(* LockWithdrawalInputs commits before anything is signed, and takes no    *)
(* notice of what the row locked before a crash.  Its SKIP LOCKED passes   *)
(* over nothing: no other transaction of one service holds a row that is   *)
(* committed as UNSPENT.                                                   *)
LockInputs(w) ==
  /\ WorkerAt(w, "start")
  /\ status[w] \in Unsigned
  /\ \E S \in SelectUTXOs(amount[w]) :
       /\ utxo' = [o \in Outpoint |-> IF o \in S THEN "LOCKED" ELSE utxo[o]]
       /\ lockedBy' = [o \in Outpoint |-> IF o \in S THEN w ELSE lockedBy[o]]
       /\ WorkerGoto(w, "build", S)
  /\ UNCHANGED <<ledger, deposit, sweepStatus, rows, chain, sweeper>>

(* BuildWithdrawal counts one output more than the selection did. *)
Buildable(w) == Sats(worker.ins) >= amount[w] + BuildFee(Cardinality(worker.ins))

SaveSigned(w) ==
  /\ WorkerAt(w, "build")
  /\ Buildable(w) /\ status[w] \in Unsigned
  /\ inputs' = [inputs EXCEPT ![w] = worker.ins]
  /\ status' = [status EXCEPT ![w] = "SIGNED"]
  /\ worker' = Resting
  /\ UNCHANGED <<ledger, deposit, outputs, sweepStatus, amount, chain, sweeper>>

(* TestMempoolAccept, asked before the send of a SIGNED row only. *)
TestMempool(w) ==
  /\ WorkerAt(w, "test")
  /\ WorkerGoto(w, IF Acceptable(PayTx(w)) THEN "send" ELSE "fail", {})
  /\ UNCHANGED <<ledger, deposit, outputs, sweepStatus, rows, chain, sweeper>>

(* FailBTCWithdrawal, after BUILD_FAILED or MEMPOOL_REJECTED, gives back   *)
(* the amount and every lock of the row.                                   *)
HeldBySettledBug(w) == {o \in inputs[w] : utxo[o] = "LOCKED" /\ lockedBy[o] = w}
HeldBySettled(w) == {o \in Outpoint : utxo[o] = "LOCKED" /\ lockedBy[o] = w}

Turn(S, to) ==
  /\ utxo' = [o \in Outpoint |-> IF o \in S THEN to ELSE utxo[o]]
  /\ lockedBy' = [o \in Outpoint |-> IF o \in S THEN 0 ELSE lockedBy[o]]

FailWithdrawal(w) ==
  /\ WorkerAt(w, "fail") \/ (WorkerAt(w, "build") /\ ~ Buildable(w))
  /\ status[w] \in {"CREATED", "SIGNED"}
  /\ status' = [status EXCEPT ![w] = "FAILED"]
  /\ available' = available + amount[w]
  /\ pendingWithdrawal' = pendingWithdrawal - amount[w]
  /\ Turn(HeldBySettled(w), "UNSPENT")
  /\ worker' = Resting
  /\ UNCHANGED <<pendingDeposit, entries, deposit, sweepStatus, amount, inputs, chain, sweeper>>

(* SendRawTransaction; the reply may be lost. *)
Send(w, replied) ==
  /\ WorkerAt(w, "send")
  /\ Sendable(PayTx(w))
  /\ mempool' = mempool \union {PayTx(w)}
  /\ WorkerGoto(w, IF replied THEN "broadcasted" ELSE "unknown", {})
  /\ UNCHANGED <<ledger, deposit, outputs, sweepStatus, rows, mined, buried, sweeper>>

(* The node refuses, or is not reached. *)
SendRefused(w) ==
  /\ WorkerAt(w, "send")
  /\ WorkerGoto(w, "unknown", {})
  /\ UNCHANGED <<ledger, deposit, outputs, sweepStatus, rows, chain, sweeper>>

(* MarkBTCWithdrawalBroadcastUnknown, MarkBTCWithdrawalBroadcasted. *)
MarkSent(w) ==
  /\ worker.row = w /\ worker.at \in {"unknown", "broadcasted"}
  /\ status[w] \in Resumed
  /\ status' = [status EXCEPT ![w] = IF worker.at = "unknown" THEN "BROADCAST_UNKNOWN"
                                     ELSE "BROADCASTED"]
  /\ worker' = Resting
  /\ UNCHANGED <<ledger, deposit, outputs, sweepStatus, amount, inputs, chain, sweeper>>

(* RawTransaction reports enough confirmations, which is final. *)
ConfirmedBug(t) == t \in mined
Confirmed(t) == t \in buried

(* What CompleteBTCWithdrawal takes out of the holds. *)
SettledBug(w) == amount[w] + BuildFee(Cardinality(inputs[w]))
Settled(w) == amount[w]

(* CompleteBTCWithdrawal looks at no status, and spends every lock the row *)
(* holds, the change being recorded nowhere.                               *)
CompleteWithdrawal(w) ==
  /\ WorkerAt(w, "confirm") /\ Confirmed(PayTx(w))
  /\ pendingWithdrawal >= Settled(w)
  /\ status' = [status EXCEPT ![w] = "COMPLETED"]
  /\ pendingWithdrawal' = pendingWithdrawal - Settled(w)
  /\ Turn(HeldBySettled(w), "SPENT")
  /\ worker' = Resting
  /\ UNCHANGED <<available, pendingDeposit, entries, deposit, sweepStatus, amount, inputs, chain, sweeper>>

(* Nothing to do, a call fails, or the process dies and restarts: only the *)
(* database survives.                                                      *)
WorkerReturns ==
  /\ worker.at # "idle"
  /\ worker' = Resting
  /\ UNCHANGED <<ledger, deposit, outputs, sweepStatus, rows, chain, sweeper>>

WorkerStep(w) ==
  \/ LockInputs(w) \/ SaveSigned(w) \/ TestMempool(w) \/ FailWithdrawal(w)
  \/ SendRefused(w) \/ MarkSent(w) \/ CompleteWithdrawal(w)
  \/ \E replied \in BOOLEAN : Send(w, replied)

-----------------------------------------------------------------------------
(***************************************************************************)
(* The sweep worker, with the same Process.                                *)
(***************************************************************************)
SweeperAt(d, l) ==
  \/ sweeper.at = l /\ sweeper.row = d
  \/ sweeper.at = "idle" /\ sweepStatus[d] \in Active /\ FirstStep(sweepStatus[d]) = l
SweeperGoto(d, l) == sweeper' = [at |-> l, row |-> d]

(* BuildSweep and SaveBTCSweepSigned, whatever the state of the output.  A *)
(* sweep that would leave dust returns an error and stays CREATED.         *)
SweepSave(d) ==
  /\ SweeperAt(d, "start")
  /\ Sweepable(d) /\ sweepStatus[d] \in Unsigned
  /\ sweepStatus' = [sweepStatus EXCEPT ![d] = "SIGNED"]
  /\ sweeper' = Asleep
  /\ UNCHANGED <<ledger, deposit, outputs, rows, chain, worker>>

SweepTest(d) ==
  /\ SweeperAt(d, "test")
  /\ SweeperGoto(d, IF Acceptable(SweepTx(d)) THEN "send" ELSE "fail")
  /\ UNCHANGED <<ledger, deposit, outputs, sweepStatus, rows, chain, worker>>

(* FailBTCSweep unlocks the output, whoever locked it, and keeps locked_by. *)
SweepFail(d) ==
  /\ SweeperAt(d, "fail")
  /\ sweepStatus[d] \in {"CREATED", "SIGNED"}
  /\ sweepStatus' = [sweepStatus EXCEPT ![d] = "FAILED"]
  /\ utxo' = [utxo EXCEPT ![d] = IF @ = "LOCKED" THEN "UNSPENT" ELSE @]
  /\ sweeper' = Asleep
  /\ UNCHANGED <<ledger, deposit, lockedBy, rows, chain, worker>>

SweepSend(d, replied) ==
  /\ SweeperAt(d, "send")
  /\ Sendable(SweepTx(d))
  /\ mempool' = mempool \union {SweepTx(d)}
  /\ SweeperGoto(d, IF replied THEN "broadcasted" ELSE "unknown")
  /\ UNCHANGED <<ledger, deposit, outputs, sweepStatus, rows, mined, buried, worker>>

SweepRefused(d) ==
  /\ SweeperAt(d, "send")
  /\ SweeperGoto(d, "unknown")
  /\ UNCHANGED <<ledger, deposit, outputs, sweepStatus, rows, chain, worker>>

SweepMarkSent(d) ==
  /\ sweeper.row = d /\ sweeper.at \in {"unknown", "broadcasted"}
  /\ sweepStatus[d] \in Resumed
  /\ sweepStatus' = [sweepStatus EXCEPT ![d] = IF sweeper.at = "unknown" THEN "BROADCAST_UNKNOWN"
                                               ELSE "BROADCASTED"]
  /\ sweeper' = Asleep
  /\ UNCHANGED <<ledger, deposit, outputs, rows, chain, worker>>

(* CompleteBTCSweep: the treasury's output is new; the input is marked     *)
(* spent only where it is locked.                                          *)
SweepComplete(d) ==
  /\ SweeperAt(d, "confirm") /\ Confirmed(SweepTx(d))
  /\ sweepStatus' = [sweepStatus EXCEPT ![d] = IF @ = "BROADCASTED" THEN "COMPLETED" ELSE @]
  /\ utxo' = [utxo EXCEPT ![d] = IF @ = "LOCKED" THEN "SPENT" ELSE @,
                          ![Treasury(d)] = IF @ = "none" THEN "UNSPENT" ELSE @]
  /\ sweeper' = Asleep
  /\ UNCHANGED <<ledger, deposit, lockedBy, rows, chain, worker>>

SweeperReturns ==
  /\ sweeper.at # "idle"
  /\ sweeper' = Asleep
  /\ UNCHANGED <<ledger, deposit, outputs, sweepStatus, rows, chain, worker>>

SweepStep(d) ==
  \/ SweepSave(d) \/ SweepTest(d) \/ SweepFail(d) \/ SweepRefused(d)
  \/ SweepMarkSent(d) \/ SweepComplete(d)
  \/ \E replied \in BOOLEAN : SweepSend(d, replied)

Next ==
  \/ \E d \in Deposit : Credit(d) \/ SweepStep(d)
  \/ \E w \in Withdrawal : WorkerStep(w) \/ \E a \in Amount : Create(w, a)
  \/ WorkerReturns \/ SweeperReturns
  \/ ChainStep

Spec == Init /\ [][Next]_vars

-----------------------------------------------------------------------------
(***************************************************************************)
(* Properties.                                                             *)
(***************************************************************************)
Hold(w) == IF status[w] \in Active THEN amount[w] ELSE 0
Paid(w) == IF status[w] = "COMPLETED" THEN amount[w] ELSE 0

(* Satoshi are neither made nor lost in the books, and pending_withdrawal  *)
(* is the sum of the live withdrawals: no crash, retry or unguarded        *)
(* completion takes a hold twice or leaves it behind, and what users have  *)
(* and are about to have, plus what was settled, is what was deposited.    *)
BooksAgree ==
  /\ pendingWithdrawal = Total([w \in Withdrawal |-> Hold(w)], NumWithdrawals)
  /\ pendingDeposit + available + pendingWithdrawal + Total([w \in Withdrawal |-> Paid(w)], NumWithdrawals)
       = Total(Value, NumDeposits)

(* A withdrawal is completed only if its transaction is buried, and an     *)
(* output of the treasury is offered to withdrawals only when the sweep    *)
(* that made it is.                                                        *)
CompletedIsBuried ==
  /\ \A w \in Withdrawal : status[w] = "COMPLETED" => PayTx(w) \in buried
  /\ \A d \in Deposit : utxo[Treasury(d)] # "none" => SweepTx(d) \in buried

(* What the node has of a row is the transaction its columns hold: every   *)
(* retry after a crash or lost reply sends the same bytes, so no two       *)
(* transactions pay one withdrawal.                                        *)
SentIsRecorded ==
  /\ \A t \in Known : t.kind = "withdrawal" => t = PayTx(t.id)
  /\ \A t \in Known : t.kind = "sweep" => t = SweepTx(t.id) /\ sweepStatus[t.id] \notin {"none", "CREATED"}

(* A lock never outlives its withdrawal, although a crash between locking  *)
(* and signing makes one withdrawal lock twice.                            *)
LocksAreLive == \A o \in Outpoint : utxo[o] = "LOCKED" => status[lockedBy[o]] \in Active

(* A withdrawal that was failed, and its amount given back, is never paid. *)
ReleasedUnpaid == \A w \in Withdrawal : status[w] = "FAILED" => PayTx(w) \notin Known

-----------------------------------------------------------------------------
(***************************************************************************)
(* The inductive invariant the proofs rest on.                             *)
(***************************************************************************)
Unsent == {"none", "CREATED"}

(* What is left to credit is the sum of the deposits still confirming.     *)
PendingShape ==
  pendingDeposit = Total([d \in Deposit |-> IF deposit[d] = "CONFIRMING" THEN Value[d] ELSE 0], NumDeposits)

(* The node's transactions belong to rows that keep their inputs.          *)
SentShape ==
  \A t \in Known :
    /\ t.kind = "sweep" => t.id \in Deposit
    /\ t.kind = "withdrawal" => t.id \in Withdrawal /\ status[t.id] \notin Unsent

(* A signed sweep leaves more than dust. *)
SweepShape == \A d \in Deposit : sweepStatus[d] \notin Unsent => Sweepable(d)

(* Where a worker is tells the status of its row. *)
StatusAt(l) == CASE l = "build" -> {"CREATED"}
                 [] l \in {"fail", "send"} -> {"SIGNED"}
                 [] OTHER -> Resumed
WorkersShape ==
  /\ worker.at # "idle" => status[worker.row] \in StatusAt(worker.at)
  /\ sweeper.at # "idle" => sweepStatus[sweeper.row] \in StatusAt(sweeper.at)

LockShape == \A o \in Outpoint : utxo[o] = "LOCKED" => lockedBy[o] \in Withdrawal

IndInv ==
  /\ PendingShape /\ SentShape /\ SweepShape /\ WorkersShape /\ LockShape
  /\ BooksAgree /\ CompletedIsBuried /\ SentIsRecorded /\ LocksAreLive
=============================================================================
