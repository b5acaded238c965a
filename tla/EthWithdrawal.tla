--------------------------- MODULE EthWithdrawal ---------------------------
(***************************************************************************)
(* The ETH withdrawals of one user: the HTTP handlers that create them     *)
(* (withdrawal/service.go), the worker goroutine that carries each one to  *)
(* the chain and settles it (withdrawal/worker.go), the PostgreSQL         *)
(* transactions both call (store/postgres/balance_transaction.go), and the *)
(* chain as the worker sees it through its RPC endpoints.                  *)
(*                                                                         *)
(* A user has one custody address and one ETH balance row, and every       *)
(* transaction locks rows of that user only, so one user is the whole      *)
(* interaction.  Each database transaction and each RPC call is one step;  *)
(* between two steps of the worker every other process may move, the call  *)
(* may fail, and the process may die.  A row of `withdrawals' is known by  *)
(* its idempotency key, 1 .. NumKeys.  Token sweeps of the same address    *)
(* appear as far as they share its nonces and its ETH.                     *)
(***************************************************************************)
EXTENDS Integers, FiniteSets, Sums

CONSTANTS
  NumKeys,      \* idempotency keys the clients use
  NumSweeps,    \* token sweeps sent from the same address
  Amount,       \* amounts a client may ask for, in wei
  Fee,          \* maximum network fees estimateFee may quote, in wei
  SweepFee,     \* maximum network fee of a token sweep
  Balance0,     \* the user's credited deposits
  Handler,      \* HTTP requests in flight at once
  Faults        \* faults of the chain: some of "reorg", "evict", "deepReorg"

ASSUME ConstantsAssumption ==
  /\ NumKeys \in Nat /\ NumSweeps \in Nat
  /\ Amount \subseteq Nat \ {0}
  /\ Fee \subseteq Nat
  /\ SweepFee \in Nat /\ Balance0 \in Nat
  /\ Faults \subseteq {"reorg", "evict", "deepReorg"}

Row    == 1 .. NumKeys
Sweep  == NumKeys + 1 .. NumKeys + NumSweeps
Sender == 1 .. NumKeys + NumSweeps
None   == -1                    \* SQL NULL of a nonce or of actual_fee_wei

(* A signed transaction, and the receipt of a mined one. *)
Tx      == [from : Sender, nonce : Nat, amount : Nat, maxFee : Nat]
Receipt == [tx : Tx, ok : BOOLEAN, fee : Nat]

Active   == {"CREATED", "SIGNING", "SIGNED", "BROADCASTING",
             "BROADCAST_UNKNOWN", "BROADCASTED", "CONFIRMING"}
Sent     == {"BROADCASTING", "BROADCAST_UNKNOWN", "BROADCASTED", "CONFIRMING"}
Terminal == {"COMPLETED", "FAILED"}
Status   == {"none"} \union Active \union Terminal
Entry    == {"RESERVE", "FEE_ADJUST", "RELEASE", "FINALIZE"}

VARIABLES
  available, pendingWithdrawal,   \* the user's row of asset_balances
  journal,                        \* balance_entries: amount per row and type, 0 if absent
  status, amount, reservedFee,    \* the rows of withdrawals
  nonce, rawTx, actualFee,        \* rawTx[i] is {} while raw_tx is NULL
  nextNonce, sweepNonce,          \* wallet_addresses.next_nonce, token_sweeps.nonce
  mempool, receipts,              \* transactions pending and mined
  accountNonce, buried,           \* nonces mined; nonces with enough confirmations
  onChain,                        \* ETH of the address in the latest block
  worker,                         \* the worker: its next step, row, quote, receipt read
  handlers,                       \* each HTTP handler: its next step and request
  acked                           \* history: <<key, amount>> of every success reply

ledger  == <<available, pendingWithdrawal, journal>>
rows    == <<status, amount, reservedFee, nonce, rawTx, actualFee>>
nonces  == <<nextNonce, sweepNonce>>
chain   == <<mempool, receipts, accountNonce, buried, onChain>>
clients == <<handlers, acked>>
vars    == <<ledger, rows, nonces, chain, worker, clients>>

Step   == {"idle", "prepare", "fundCreated", "allocate", "sign", "fundSigning", "save",
           "release", "broadcast", "send", "unknown", "acknowledge", "confirm", "settle"}
Resting == [at |-> "idle", row |-> 1, quote |-> 0, receipt |-> {}]
NoRequest == [at |-> "idle", row |-> 1, amount |-> 0, quote |-> 0]

LedgerType ==
  /\ available \in Nat /\ pendingWithdrawal \in Nat
  /\ journal \in [Row -> [Entry -> Int]]
RowsType ==
  /\ status \in [Row -> Status]
  /\ amount \in [Row -> Nat] /\ reservedFee \in [Row -> Nat]
  /\ nonce \in [Row -> Nat \union {None}] /\ actualFee \in [Row -> Nat \union {None}]
  /\ rawTx \in [Row -> SUBSET Tx]
NonceType == nextNonce \in Nat /\ sweepNonce \in [Sweep -> Nat \union {None}]
ChainType ==
  /\ mempool \subseteq Tx /\ receipts \subseteq Receipt
  /\ accountNonce \in Nat /\ buried \in 0 .. accountNonce /\ onChain \in Int
WorkerType ==
  /\ worker \in [at : Step, row : Nat, quote : Nat, receipt : SUBSET Receipt]
  /\ worker.at # "idle" => worker.row \in Row
ClientsType ==
  /\ handlers \in [Handler -> [at : {"idle", "reserve"}, row : Nat, amount : Nat, quote : Nat]]
  /\ \A h \in Handler : handlers[h].at # "idle" => handlers[h].row \in Row
  /\ acked \subseteq Row \X Nat
TypeOK == LedgerType /\ RowsType /\ NonceType /\ ChainType /\ WorkerType /\ ClientsType

Init ==
  /\ available = Balance0 /\ pendingWithdrawal = 0
  /\ journal = [i \in Row |-> [e \in Entry |-> 0]]
  /\ status = [i \in Row |-> "none"]
  /\ amount = [i \in Row |-> 0] /\ reservedFee = [i \in Row |-> 0]
  /\ nonce = [i \in Row |-> None] /\ actualFee = [i \in Row |-> None]
  /\ rawTx = [i \in Row |-> {}]
  /\ nextNonce = 0 /\ sweepNonce = [s \in Sweep |-> None]
  /\ mempool = {} /\ receipts = {} /\ accountNonce = 0 /\ buried = 0
  /\ onChain = Balance0
  /\ worker = Resting
  /\ handlers = [h \in Handler |-> NoRequest]
  /\ acked = {}

-----------------------------------------------------------------------------
(***************************************************************************)
(* What several transactions share.  Definitions named with a Bug suffix   *)
(* are mutants: no specification uses them, and the runs are repeated with *)
(* each in the place of the definition it follows to see a property fail.  *)
(***************************************************************************)

(* The balance row is locked and the available balance covers a new hold. *)
CoversBug(wei) == TRUE
Covers(wei) == available >= wei

(* Retries of a key must repeat the request: ErrIdempotencyConflict. *)
SameRequestBug(i, a) == TRUE
SameRequest(i, a) == amount[i] = a

(* What the release or the settlement of a row takes out of the holds. *)
HeldBug(i) == amount[i]
Held(i) == amount[i] + reservedFee[i]

(* What a settlement takes out of the ledger. *)
SpentBug(i, r) == r.fee + amount[i]
Spent(i, r) == r.fee + IF r.ok THEN amount[i] ELSE 0

Larger(m, n) == IF m > n THEN m ELSE n

(* The nonce allocated: the database's next one, or the chain's if larger. *)
ChosenNonce(seen) == Larger(nextNonce, seen)

-----------------------------------------------------------------------------
(***************************************************************************)
(* The HTTP handlers: Service.Create.  An amount stands for the request's  *)
(* amount and target address, which are compared together.                 *)
(***************************************************************************)

(* The request finds its key: the stored withdrawal is the reply, unless   *)
(* the request differs from it (ErrIdempotencyConflict, nothing changes).  *)
SubmitExisting(h, i, a) ==
  /\ handlers[h].at = "idle"
  /\ status[i] # "none" /\ SameRequest(i, a)
  /\ acked' = acked \union {<<i, a>>}
  /\ UNCHANGED <<ledger, rows, nonces, chain, worker, handlers>>

(* The key is new: the handler quotes the fee and goes on to reserve.      *)
SubmitNew(h, i, a, quote) ==
  /\ handlers[h].at = "idle"
  /\ status[i] = "none"
  /\ handlers' = [handlers EXCEPT ![h] = [at |-> "reserve", row |-> i, amount |-> a, quote |-> quote]]
  /\ UNCHANGED <<ledger, rows, nonces, chain, worker, acked>>

(* ReserveWithdrawal inserts the row and takes amount and fee out of the   *)
(* available balance, in one transaction.                                  *)
Reserve(h) ==
  LET i     == handlers[h].row
      total == handlers[h].amount + handlers[h].quote
  IN /\ handlers[h].at = "reserve"
     /\ status[i] = "none"
     /\ Covers(total)
     /\ status' = [status EXCEPT ![i] = "CREATED"]
     /\ amount' = [amount EXCEPT ![i] = handlers[h].amount]
     /\ reservedFee' = [reservedFee EXCEPT ![i] = handlers[h].quote]
     /\ available' = available - total
     /\ pendingWithdrawal' = pendingWithdrawal + total
     /\ journal' = [journal EXCEPT ![i]["RESERVE"] = - total]
     /\ acked' = acked \union {<<i, handlers[h].amount>>}
     /\ handlers' = [handlers EXCEPT ![h] = NoRequest]
     /\ UNCHANGED <<nonce, rawTx, actualFee, nonces, chain, worker>>

(* The INSERT of ReserveWithdrawal meets a row another request with the    *)
(* same key committed since the lookup.                                    *)
ReserveExisting(h) ==
  /\ handlers[h].at = "reserve"
  /\ status[handlers[h].row] # "none"
  /\ SameRequest(handlers[h].row, handlers[h].amount)
  /\ acked' = acked \union {<<handlers[h].row, handlers[h].amount>>}
  /\ handlers' = [handlers EXCEPT ![h] = NoRequest]
  /\ UNCHANGED <<ledger, rows, nonces, chain, worker>>

(* The request ends without a success reply: insufficient balance, a       *)
(* conflict, a failed call, or the death of the process.                   *)
Reject(h) ==
  /\ handlers[h].at = "reserve"
  /\ handlers' = [handlers EXCEPT ![h] = NoRequest]
  /\ UNCHANGED <<ledger, rows, nonces, chain, worker, acked>>

-----------------------------------------------------------------------------
(***************************************************************************)
(* The worker.  It alone writes existing rows, so what it read of a row    *)
(* when it picked it is what the row still holds.                          *)
(***************************************************************************)
At(i, l) == worker.at = l /\ worker.row = i
Goto(l)  == worker' = [worker EXCEPT !.at = l]
Rest     == worker' = Resting

(* Process reads a row and dispatches on its status. *)
FirstStep(st) == CASE st = "CREATED" -> "prepare"
                   [] st = "SIGNING" -> "sign"
                   [] st \in {"SIGNED", "BROADCASTING", "BROADCAST_UNKNOWN"} -> "broadcast"
                   [] OTHER -> "confirm"

Pick(i) ==
  /\ worker.at = "idle"
  /\ status[i] \in Active
  /\ worker' = [Resting EXCEPT !.row = i, !.at = FirstStep(status[i])]
  /\ UNCHANGED <<ledger, rows, nonces, chain, clients>>

(* quoteFor, then IncreaseWithdrawalFee: the fee held is only ever raised. *)
ShortfallBug(i, quote) == 0
Shortfall(i, quote) == Larger(quote, reservedFee[i]) - reservedFee[i]

(* FEE_ADJUST accumulates in one entry (ON CONFLICT DO UPDATE). *)
AdjustedBug(i, more) == IF more = 0 THEN journal[i]["FEE_ADJUST"] ELSE - more
Adjusted(i, more) == journal[i]["FEE_ADJUST"] - more

AfterFee(l) == IF l = "prepare" THEN "fundCreated" ELSE "fundSigning"

RaiseFee(i, quote) ==
  LET more == Shortfall(i, quote)
  IN /\ worker.row = i /\ worker.at \in {"prepare", "sign"}
     /\ status[i] \in {"CREATED", "SIGNING"}
     /\ Covers(more)
     /\ reservedFee' = [reservedFee EXCEPT ![i] = @ + more]
     /\ available' = available - more
     /\ pendingWithdrawal' = pendingWithdrawal + more
     /\ journal' = [journal EXCEPT ![i]["FEE_ADJUST"] = Adjusted(i, more)]
     /\ worker' = [worker EXCEPT !.at = AfterFee(worker.at), !.quote = quote]
     /\ UNCHANGED <<status, amount, nonce, rawTx, actualFee, nonces, chain, clients>>

(* ErrInsufficientBalance: the transaction rolls back, a release follows. *)
CannotRaiseFee(i, quote) ==
  /\ worker.row = i /\ worker.at \in {"prepare", "sign"}
  /\ ~ Covers(Shortfall(i, quote))
  /\ Goto("release")
  /\ UNCHANGED <<ledger, rows, nonces, chain, clients>>

(* BalanceAt covers amount and fee before the nonce is allocated, and      *)
(* again before the transaction is signed; otherwise a release follows.    *)
Funded(i) == onChain >= Held(i)

CheckFunds(i) ==
  /\ worker.row = i /\ worker.at \in {"fundCreated", "fundSigning"}
  /\ Goto(IF ~ Funded(i) THEN "release"
          ELSE IF worker.at = "fundCreated" THEN "allocate" ELSE "save")
  /\ UNCHANGED <<ledger, rows, nonces, chain, clients>>

(* PendingNonceAt: mined nonces and those pending behind them without a    *)
(* gap; an endpoint that lags may answer less.                             *)
PendingNonces ==
  {n \in 0 .. nextNonce : \A k \in accountNonce .. n - 1 : \E t \in mempool : t.nonce = k}

(* AllocateWithdrawalNonce, under the lock of the wallet_addresses row. *)
Allocate(i, seen) ==
  /\ At(i, "allocate")
  /\ status[i] = "CREATED"
  /\ nonce' = [nonce EXCEPT ![i] = ChosenNonce(seen)]
  /\ nextNonce' = ChosenNonce(seen) + 1
  /\ status' = [status EXCEPT ![i] = "SIGNING"]
  /\ Goto("sign")
  /\ UNCHANGED <<ledger, amount, reservedFee, rawTx, actualFee, sweepNonce, chain, clients>>

(* Sign with the last quote, and SaveSignedWithdrawal before any broadcast. *)
Save(i) ==
  /\ At(i, "save")
  /\ status[i] = "SIGNING" /\ nonce[i] # None
  /\ rawTx' = [rawTx EXCEPT ![i] = {[from |-> i, nonce |-> nonce[i],
                                     amount |-> amount[i], maxFee |-> worker.quote]}]
  /\ status' = [status EXCEPT ![i] = "SIGNED"]
  /\ Goto("broadcast")
  /\ UNCHANGED <<ledger, amount, reservedFee, nonce, actualFee, nonces, chain, clients>>

(* ReleaseWithdrawal: only before a signed transaction exists. *)
Release(i) ==
  /\ At(i, "release")
  /\ status[i] \in {"CREATED", "SIGNING"}
  /\ pendingWithdrawal >= Held(i)
  /\ available' = available + Held(i)
  /\ pendingWithdrawal' = pendingWithdrawal - Held(i)
  /\ journal' = [journal EXCEPT ![i]["RELEASE"] = Held(i)]
  /\ status' = [status EXCEPT ![i] = "FAILED"]
  /\ Rest
  /\ UNCHANGED <<amount, reservedFee, nonce, rawTx, actualFee, nonces, chain, clients>>

(* broadcast asks for the receipt first: found, nothing is sent. *)
FoundBeforeSend(i, r) ==
  /\ At(i, "broadcast")
  /\ r \in receipts /\ r.tx \in rawTx[i]
  /\ worker' = [worker EXCEPT !.at = "acknowledge", !.receipt = {r}]
  /\ UNCHANGED <<ledger, rows, nonces, chain, clients>>

(* NotFound, which an endpoint that lags may answer of a mined transaction: *)
(* the row turns BROADCASTING before the first send.                        *)
BeginSend(i) ==
  /\ At(i, "broadcast")
  /\ rawTx[i] # {}
  /\ status' = [status EXCEPT ![i] = IF @ = "SIGNED" THEN "BROADCASTING" ELSE @]
  /\ Goto("send")
  /\ UNCHANGED <<ledger, amount, reservedFee, nonce, rawTx, actualFee, nonces, chain, clients>>

(* What a node takes into its pool: not below the account nonce, covered.  *)
Acceptable(t) == t.nonce >= accountNonce /\ onChain >= t.amount + t.maxFee

(* SendTransaction reaches a node, and the reply says so ("already known"  *)
(* included) or is lost.                                                   *)
Send(i, t, replied) ==
  /\ At(i, "send")
  /\ t \in rawTx[i] /\ (t \in mempool \/ Acceptable(t))
  /\ mempool' = mempool \union {t}
  /\ Goto(IF replied THEN "acknowledge" ELSE "unknown")
  /\ UNCHANGED <<ledger, rows, nonces, receipts, accountNonce, buried, onChain, clients>>

(* No node took it: nonce too low, insufficient funds, no connection. *)
SendRefused(i) ==
  /\ At(i, "send")
  /\ Goto("unknown")
  /\ UNCHANGED <<ledger, rows, nonces, chain, clients>>

(* After a send error the row turns BROADCAST_UNKNOWN, and is sent again. *)
AfterSendErrorBug(st) == "CREATED"
AfterSendError(st) == IF st = "BROADCASTING" THEN "BROADCAST_UNKNOWN" ELSE st

MarkUnknown(i) ==
  /\ At(i, "unknown")
  /\ status' = [status EXCEPT ![i] = AfterSendError(@)]
  /\ Rest
  /\ UNCHANGED <<ledger, amount, reservedFee, nonce, rawTx, actualFee, nonces, chain, clients>>

(* ensureBroadcasted, one transition at a time; with a receipt in hand the *)
(* worker goes on to confirm it.                                           *)
Acknowledge(i) ==
  /\ At(i, "acknowledge")
  /\ status' = [status EXCEPT ![i] = IF @ = "SIGNED" THEN "BROADCASTING" ELSE "BROADCASTED"]
  /\ IF status[i] = "SIGNED" THEN UNCHANGED worker
     ELSE IF worker.receipt = {} THEN Rest
     ELSE Goto("settle")
  /\ UNCHANGED <<ledger, amount, reservedFee, nonce, rawTx, actualFee, nonces, chain, clients>>

(* confirm reads the receipt.  NotFound ends the pass, and nothing is sent *)
(* again.                                                                  *)
Confirm(i, r) ==
  /\ At(i, "confirm")
  /\ r \in receipts /\ r.tx \in rawTx[i]
  /\ worker' = [worker EXCEPT !.at = "settle", !.receipt = {r}]
  /\ UNCHANGED <<ledger, rows, nonces, chain, clients>>

NotMined(i) ==
  /\ At(i, "confirm")
  /\ Rest
  /\ UNCHANGED <<ledger, rows, nonces, chain, clients>>

(* confirmReceipt sees too few confirmations, or an endpoint that lags. *)
UpdateConfirmations(i) ==
  /\ At(i, "settle")
  /\ status[i] \in {"BROADCASTED", "CONFIRMING"}
  /\ status' = [status EXCEPT ![i] = "CONFIRMING"]
  /\ Rest
  /\ UNCHANGED <<ledger, amount, reservedFee, nonce, rawTx, actualFee, nonces, chain, clients>>

(* Enough confirmations, counted from the block of the receipt read: that  *)
(* block is buried, or (deepReorg) it was replaced since it was read.      *)
EnoughConfirmationsBug(r) == r \in receipts
EnoughConfirmations(r) ==
  \/ r \in receipts /\ r.tx.nonce < buried
  \/ r \notin receipts /\ "deepReorg" \in Faults

(* FinalizeWithdrawal: the fee actually paid, and the amount if the        *)
(* transaction succeeded, leave the ledger; the rest is available again.   *)
Finalize(i, r) ==
  /\ At(i, "settle")
  /\ r \in worker.receipt /\ EnoughConfirmations(r)
  /\ status[i] \in {"BROADCASTED", "CONFIRMING"}
  /\ r.fee <= reservedFee[i]
  /\ pendingWithdrawal >= Held(i)
  /\ available' = available + (Held(i) - Spent(i, r))
  /\ pendingWithdrawal' = pendingWithdrawal - Held(i)
  /\ journal' = [journal EXCEPT ![i]["FINALIZE"] = - Spent(i, r)]
  /\ actualFee' = [actualFee EXCEPT ![i] = r.fee]
  /\ status' = [status EXCEPT ![i] = IF r.ok THEN "COMPLETED" ELSE "FAILED"]
  /\ Rest
  /\ UNCHANGED <<amount, reservedFee, nonce, rawTx, nonces, chain, clients>>

(* A call fails, or the process dies and restarts:                         *)
(* nothing but the database survives.  A death that also ends requests in  *)
(* flight is this step next to Reject steps.                               *)
Interrupt ==
  /\ worker.at # "idle"
  /\ Rest
  /\ UNCHANGED <<ledger, rows, nonces, chain, clients>>

WorkerStep(i) ==
  \/ Pick(i)
  \/ \E quote \in Fee : RaiseFee(i, quote) \/ CannotRaiseFee(i, quote)
  \/ CheckFunds(i)
  \/ \E seen \in PendingNonces : Allocate(i, seen)
  \/ Save(i) \/ Release(i)
  \/ \E r \in receipts : FoundBeforeSend(i, r) \/ Confirm(i, r)
  \/ BeginSend(i)
  \/ \E t \in rawTx[i], replied \in BOOLEAN : Send(i, t, replied)
  \/ SendRefused(i) \/ MarkUnknown(i) \/ Acknowledge(i) \/ NotMined(i)
  \/ UpdateConfirmations(i)
  \/ \E r \in worker.receipt : Finalize(i, r)

-----------------------------------------------------------------------------
(***************************************************************************)
(* The chain (outside src/).                                               *)
(***************************************************************************)

(* The next transaction of the account enters a block; it may revert. *)
Mine(t, ok, fee) ==
  /\ t \in mempool /\ t.nonce = accountNonce
  /\ onChain >= t.amount + t.maxFee
  /\ fee <= t.maxFee
  /\ receipts' = receipts \union {[tx |-> t, ok |-> ok, fee |-> fee]}
  /\ mempool' = {u \in mempool : u.nonce # t.nonce}
  /\ accountNonce' = accountNonce + 1
  /\ onChain' = onChain - fee - IF ok THEN t.amount ELSE 0
  /\ UNCHANGED <<ledger, rows, nonces, buried, worker, clients>>

(* The oldest unburied block gets its last confirmation. *)
Bury ==
  /\ buried < accountNonce
  /\ buried' = buried + 1
  /\ UNCHANGED <<ledger, rows, nonces, mempool, receipts, accountNonce, onChain, worker, clients>>

(* The newest block is replaced; its transaction returns to the pool. *)
Reorg(r) ==
  /\ "reorg" \in Faults
  /\ r \in receipts /\ r.tx.nonce = accountNonce - 1 /\ buried < accountNonce
  /\ receipts' = receipts \ {r}
  /\ mempool' = mempool \union {r.tx}
  /\ accountNonce' = accountNonce - 1
  /\ onChain' = onChain + r.fee + IF r.ok THEN r.tx.amount ELSE 0
  /\ UNCHANGED <<ledger, rows, nonces, buried, worker, clients>>

(* Every node drops a pending transaction from its pool. *)
Evict(t) ==
  /\ "evict" \in Faults
  /\ t \in mempool
  /\ mempool' = mempool \ {t}
  /\ UNCHANGED <<ledger, rows, nonces, receipts, accountNonce, buried, onChain, worker, clients>>

ChainStep ==
  \/ \E t \in mempool, ok \in BOOLEAN : \E fee \in 0 .. t.maxFee : Mine(t, ok, fee)
  \/ Bury
  \/ \E r \in receipts : Reorg(r)
  \/ \E t \in mempool : Evict(t)

-----------------------------------------------------------------------------
(***************************************************************************)
(* A token sweep of the same address: AllocateTokenSweepNonce takes from   *)
(* the same next_nonce, after the gas station has topped the address up to *)
(* the sweep's fee, counting the user's ETH found there.                   *)
(***************************************************************************)
SweepAllocateBug(s, seen) ==
  /\ sweepNonce[s] = None
  /\ onChain' = Larger(onChain, SweepFee)
  /\ sweepNonce' = [sweepNonce EXCEPT ![s] = ChosenNonce(seen)]
  /\ UNCHANGED <<ledger, rows, nextNonce, mempool, receipts, accountNonce, buried, worker, clients>>
SweepAllocate(s, seen) ==
  /\ sweepNonce[s] = None
  /\ onChain' = Larger(onChain, SweepFee)
  /\ sweepNonce' = [sweepNonce EXCEPT ![s] = ChosenNonce(seen)]
  /\ nextNonce' = ChosenNonce(seen) + 1
  /\ UNCHANGED <<ledger, rows, mempool, receipts, accountNonce, buried, worker, clients>>

SweepTx(s) == [from |-> s, nonce |-> sweepNonce[s], amount |-> 0, maxFee |-> SweepFee]

SweepBroadcast(s) ==
  /\ sweepNonce[s] # None
  /\ Acceptable(SweepTx(s))
  /\ mempool' = mempool \union {SweepTx(s)}
  /\ UNCHANGED <<ledger, rows, nonces, receipts, accountNonce, buried, onChain, worker, clients>>

SweepStep(s) ==
  \/ \E seen \in PendingNonces : SweepAllocate(s, seen)
  \/ SweepBroadcast(s)

HandlerStep(h) ==
  \/ \E i \in Row, a \in Amount : SubmitExisting(h, i, a) \/ \E quote \in Fee : SubmitNew(h, i, a, quote)
  \/ Reserve(h) \/ ReserveExisting(h) \/ Reject(h)

Next ==
  \/ \E h \in Handler : HandlerStep(h)
  \/ \E i \in Row : WorkerStep(i)
  \/ Interrupt
  \/ ChainStep
  \/ \E s \in Sweep : SweepStep(s)

Spec == Init /\ [][Next]_vars

(***************************************************************************)
(* Fairness.  Run takes up every live row each tick (strong fairness of    *)
(* Pick per row) and carries on with it; nodes keep mining what can be     *)
(* mined.  Calls may fail, replies get lost, endpoints lag and the process *)
(* may restart any finite number of times: from some point on the worker's *)
(* steps are Healthy ones.                                                 *)
(***************************************************************************)
Mined(i) == \E r \in receipts : r.tx \in rawTx[i]

Healthy(i) ==
  \/ Pick(i)
  \/ \E quote \in Fee : RaiseFee(i, quote) \/ CannotRaiseFee(i, quote)
  \/ CheckFunds(i)
  \/ \E seen \in PendingNonces : Allocate(i, seen)
  \/ Save(i) \/ Release(i)
  \/ \E r \in receipts : FoundBeforeSend(i, r) \/ Confirm(i, r)
  \/ ~ Mined(i) /\ BeginSend(i)
  \/ \E t \in rawTx[i] : Send(i, t, TRUE)
  \/ SendRefused(i) /\ \A t \in rawTx[i] : t \notin mempool /\ ~ Acceptable(t)
  \/ MarkUnknown(i) \/ Acknowledge(i)
  \/ ~ Mined(i) /\ NotMined(i)
  \/ UpdateConfirmations(i) /\ \A r \in worker.receipt : ~ EnoughConfirmations(r)
  \/ \E r \in worker.receipt : Finalize(i, r)

AnyHealthy == \E i \in Row : Healthy(i)
MineAny == \E t \in mempool, ok \in BOOLEAN : \E fee \in 0 .. t.maxFee : Mine(t, ok, fee)

FairSpec ==
  /\ Spec
  /\ WF_vars(AnyHealthy) /\ \A i \in Row : SF_vars(Pick(i))
  /\ WF_vars(Bury) /\ WF_vars(MineAny)
  /\ <>[][worker' # worker => AnyHealthy]_vars

-----------------------------------------------------------------------------
(***************************************************************************)
(* Properties.                                                             *)
(***************************************************************************)

Hold(i) == IF status[i] \in Active THEN amount[i] + reservedFee[i] ELSE 0

(* pending_withdrawal_wei is the sum of what the live withdrawals hold:    *)
(* no interleaving of handlers and worker, no crash and no retry reserves, *)
(* releases or settles a row twice or not at all.                          *)
HoldsMatch == pendingWithdrawal = Total([i \in Row |-> Hold(i)], NumKeys)

(* What the chain took for a withdrawal, and what of it the ledger has not *)
(* settled yet.                                                            *)
Taken(i) ==
  IF \E r \in receipts : r.tx.from = i
  THEN LET r == CHOOSE r \in receipts : r.tx.from = i
       IN r.fee + IF r.ok THEN r.tx.amount ELSE 0
  ELSE 0
Unsettled(i) == IF status[i] \in Active THEN Taken(i) ELSE 0

(* What the ledger owes the user is on the user's address, up to spending  *)
(* that is mined and not yet settled.  The isolated sub-wallet scheme      *)
(* rests on it: withdrawals are paid from that address alone.              *)
LedgerBacked ==
  onChain = available + pendingWithdrawal - Total([i \in Row |-> Unsettled(i)], NumKeys)

(* No two transactions of the address are given the same nonce, though     *)
(* withdrawals and sweeps allocate from separate tables and endpoints lag. *)
NonceExclusive ==
  /\ \A i, j \in Row : i # j /\ nonce[i] # None => nonce[i] # nonce[j]
  /\ \A i \in Row, s \in Sweep : nonce[i] # None => nonce[i] # sweepNonce[s]
  /\ \A s, t \in Sweep : s # t /\ sweepNonce[s] # None => sweepNonce[s] # sweepNonce[t]

(* The transactions of withdrawal i that any node has. *)
OnChain(i) == {t \in mempool \union {r.tx : r \in receipts} : t.from = i}

(* A transaction a node has is the one stored in raw_tx, of a row that was *)
(* marked BROADCASTING first: a crash at any point leaves enough in the    *)
(* database to find what was sent, and no released withdrawal is paid out. *)
SentIsRecorded ==
  \A i \in Row : OnChain(i) # {} =>
    /\ OnChain(i) \subseteq rawTx[i]
    /\ status[i] \in Sent \union Terminal
    /\ status[i] \in Terminal => actualFee[i] # None

(* However often a withdrawal is resubmitted, resumed and resent, the      *)
(* chain pays it at most once, and pays the amount that was reserved.      *)
PaidOnce ==
  \A r \in receipts : r.tx.from \in Row =>
    /\ r.tx.amount = amount[r.tx.from]
    /\ \A q \in receipts : q.tx.from = r.tx.from => q = r

(* The withdrawals implement Payout: whatever is retried, replaced or      *)
(* interrupted, a settlement gives back what the chain did not take, and   *)
(* the chain neither takes more nor gives back afterwards.                 *)
Phase(i) == CASE status[i] = "none" -> "new"
              [] status[i] \in Active -> "open"
              [] OTHER -> "closed"
P == INSTANCE Payout WITH
       Key <- Row, account <- available,
       hold <- [i \in Row |-> Hold(i)],
       taken <- [i \in Row |-> Taken(i)],
       phase <- [i \in Row |-> Phase(i)]
PayoutSpec == P!Spec

(* The fee held always covers the fee the signed transaction can cost, so  *)
(* FinalizeWithdrawal never meets ErrActualFeeExceedsHold and never leaves *)
(* a mined withdrawal unsettled.                                           *)
FeeWithinHold == \A i \in Row : \A t \in rawTx[i] : t.maxFee <= reservedFee[i]

(* A client that got a success reply has its withdrawal, as it asked for,  *)
(* whichever of two racing requests with its key was first.                *)
AckedHonoured == \A p \in acked : status[p[1]] # "none" /\ amount[p[1]] = p[2]

(* The entries of a row explain its holds: what was reserved and adjusted  *)
(* is what it holds, a release gives all of it back, a settlement takes    *)
(* what the chain took.                                                    *)
JournalExplains ==
  \A i \in Row :
    LET e == journal[i] IN
    /\ e["RESERVE"] + e["FEE_ADJUST"] = - (amount[i] + reservedFee[i])
    /\ e["RELEASE"] # 0 => e["RELEASE"] = amount[i] + reservedFee[i] /\ e["FINALIZE"] = 0
    /\ status[i] = "COMPLETED" => e["FINALIZE"] = - (amount[i] + actualFee[i])
    /\ status[i] = "FAILED" => e["RELEASE"] # 0 \/ e["FINALIZE"] = - actualFee[i]

(* Once signed, a withdrawal's transaction is never replaced: every retry  *)
(* sends the same bytes.                                                   *)
RawTxImmutable == [][\A i \in Row : rawTx[i] # {} => rawTx'[i] = rawTx[i]]_vars

(* Every withdrawal that was accepted is completed or failed in the end,   *)
(* unless one was released that had its nonce: no transaction ever uses    *)
(* that nonce, and all that come later wait behind the gap.                *)
Gap == \E i \in Row : status[i] = "FAILED" /\ actualFee[i] = None /\ nonce[i] # None
SettlesUnlessGap == \A i \in Row : status[i] = "CREATED" ~> status[i] \in Terminal \/ Gap

-----------------------------------------------------------------------------
(***************************************************************************)
(* The inductive invariant the proofs rest on.                             *)
(***************************************************************************)

(* Rows with a signed transaction. *)
Signed(i) == status[i] \in {"SIGNED", "COMPLETED"} \union Sent \/ actualFee[i] # None

(* What each status says of the rest of the row: the nonce comes with      *)
(* SIGNING, the transaction with SIGNED, and it is the row's own.          *)
RowShape ==
  \A i \in Row :
    /\ status[i] \in {"none", "CREATED"} <=> nonce[i] = None /\ status[i] # "FAILED"
    /\ rawTx[i] # {} <=> Signed(i)
    /\ actualFee[i] # None => status[i] \in Terminal
    /\ status[i] = "COMPLETED" => actualFee[i] # None
    /\ \A t \in rawTx[i] : /\ t.from = i /\ t.nonce = nonce[i] /\ t.amount = amount[i]
                           /\ t.maxFee <= reservedFee[i]
                           /\ rawTx[i] = {t}

(* The statuses of its row in which the worker takes a step, and what it   *)
(* has in hand: a quote that is held, a receipt of the row's transaction.  *)
Statuses(l) ==
  CASE l \in {"prepare", "fundCreated", "allocate"} -> {"CREATED"}
    [] l \in {"sign", "fundSigning", "save"} -> {"SIGNING"}
    [] l = "release" -> {"CREATED", "SIGNING"}
    [] l \in {"broadcast", "acknowledge"} -> {"SIGNED", "BROADCASTING", "BROADCAST_UNKNOWN"}
    [] l \in {"send", "unknown"} -> {"BROADCASTING", "BROADCAST_UNKNOWN"}
    [] l \in {"confirm", "settle"} -> {"BROADCASTED", "CONFIRMING"}

WorkerShape ==
  worker.at # "idle" =>
    /\ status[worker.row] \in Statuses(worker.at)
    /\ worker.at \in {"fundSigning", "save"} => worker.quote <= reservedFee[worker.row]
    /\ \A r \in worker.receipt : r.tx \in rawTx[worker.row] /\ r.fee <= r.tx.maxFee

(* Allocated nonces are below next_nonce. *)
NoncesBelow ==
  /\ \A i \in Row : nonce[i] # None => nonce[i] < nextNonce
  /\ \A s \in Sweep : sweepNonce[s] # None => sweepNonce[s] < nextNonce

(* What nodes have was sent from a row or a sweep. *)
SentBy(t) ==
  IF t.from \in Row
  THEN /\ t \in rawTx[t.from]
       /\ status[t.from] \in Sent \union Terminal
  ELSE t.from \in Sweep /\ sweepNonce[t.from] # None /\ t = SweepTx(t.from)

ChainShape ==
  /\ \A t \in mempool : SentBy(t) /\ t.nonce >= accountNonce
  /\ \A r \in receipts : SentBy(r.tx) /\ r.tx.nonce < accountNonce /\ r.fee <= r.tx.maxFee
  /\ \A r, q \in receipts : r.tx.nonce = q.tx.nonce => r = q

IndInv == RowShape /\ WorkerShape /\ NonceExclusive /\ NoncesBelow /\ ChainShape
=============================================================================
