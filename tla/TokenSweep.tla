----------------------------- MODULE TokenSweep -----------------------------
(***************************************************************************)
(* How the tokens of one user's address reach the hot wallet.  A credited  *)
(* token deposit opens a sweep or joins the live one                       *)
(* (store/postgres/token_deposit_transaction.go); the gas station sends    *)
(* the address the ETH a sweep needs (token/gasstation/worker.go); the     *)
(* sweep worker then transfers the tokens (token/sweep/worker.go).  Both   *)
(* workers are goroutines that meet in the rows of token_sweeps, and the   *)
(* ETH of the address is also the user's to withdraw.                      *)
(*                                                                         *)
(* Each database transaction and each RPC call is one step, joined to the  *)
(* next where what it read cannot be stale by then.  A worker's step that  *)
(* follows from a status is taken from the status: the same whether the    *)
(* worker went on or read the row after a restart.  The nonces are left    *)
(* out: EthWithdrawal has those of the address, and the platform's never   *)
(* decide what a sweep does.                                               *)
(***************************************************************************)
EXTENDS Integers, FiniteSets, Sums

CONSTANTS
  NumDeposits,   \* token deposits to the address, all of them confirmed
  Value,         \* the amount of each
  Fee,           \* network fees an estimate may reserve for a transfer
  SafetyBPS,     \* config.GasSafetyBPS
  TopupMax,      \* config.GasTopupMaxWei
  UserEth,       \* the user's own ETH on the address
  Faults         \* some of "reorg" and of "lag", endpoints far behind the chain

ASSUME SweepConstantsAssumption ==
  /\ NumDeposits \in Nat \ {0}
  /\ Value \in [1 .. NumDeposits -> Nat \ {0}]
  /\ Fee \subseteq Nat \ {0}
  /\ SafetyBPS \in Nat /\ TopupMax \in Nat /\ UserEth \in Nat
  /\ Faults \subseteq {"reorg", "lag"}

Deposit  == 1 .. NumDeposits
Received == Total(Value, NumDeposits)

(* The rows of token_sweeps in the order of their id, each with a unit at  *)
(* least, and of internal_transfers, of which a sweep has one at most.     *)
Row  == 1 .. Received
Kind == {"topup", "sweep"}

(* A transaction and its receipt; maxFee and fee are 0 for a top-up, whose *)
(* fee the platform pays.                                                  *)
Tx      == [kind : Kind, row : Row, amount : Nat, maxFee : Nat]
Receipt == [tx : Tx, ok : BOOLEAN, fee : Nat]

Live   == {"CREATED", "WAITING_GAS", "SIGNING", "SIGNED", "BROADCASTED", "CONFIRMING"}
Status == {"none", "COMPLETED", "FAILED"} \union Live

VARIABLES
  credited,              \* the CREDITED rows of token_deposits
  pendingDeposit, available,  \* the user's token row of asset_balances
  status,                \* of token_sweeps and of internal_transfers, by kind
  recognized, swept,     \* recognized_amount_units; sweep_amount_units, 0 while NULL
  topup,                 \* amount_wei of internal_transfers
  rawTx,                 \* raw_tx by kind, {} while NULL
  mempool, receipts, buried,  \* pending; mined; with enough confirmations
  gas, tokens, userEth,  \* ETH and tokens of the address; the user's part of the ETH
  worker                 \* the gas station ("topup") and the sweep worker ("sweep")

deposits == <<credited, pendingDeposit, available>>
rows     == <<status, recognized, swept, topup, rawTx>>
chain    == <<mempool, receipts, buried, gas, tokens, userEth>>
vars     == <<deposits, rows, chain, worker>>

Resting == [at |-> "idle", row |-> 1, amount |-> 0, receipt |-> {}]

TypeOK ==
  /\ credited \subseteq Deposit
  /\ pendingDeposit \in Nat /\ available \in Nat
  /\ status \in [Kind -> [Row -> Status]]
  /\ recognized \in [Row -> 0 .. Received] /\ swept \in [Row -> 0 .. Received]
  /\ topup \in [Row -> 0 .. TopupMax]
  /\ rawTx \in [Kind -> [Row -> SUBSET Tx]]
  /\ mempool \subseteq Tx /\ receipts \subseteq Receipt /\ buried \subseteq receipts
  /\ gas \in Nat /\ tokens \in Nat /\ userEth \in 0 .. UserEth
  /\ worker \in [Kind -> [at : {"idle", "ready", "create", "allocate", "sent", "settle"},
                          row : Row, amount : Nat, receipt : SUBSET Receipt]]

Init ==
  /\ credited = {} /\ pendingDeposit = Received /\ available = 0
  /\ status = [k \in Kind |-> [r \in Row |-> "none"]]
  /\ recognized = [r \in Row |-> 0] /\ swept = [r \in Row |-> 0]
  /\ topup = [r \in Row |-> 0]
  /\ rawTx = [k \in Kind |-> [r \in Row |-> {}]]
  /\ mempool = {} /\ receipts = {} /\ buried = {}
  /\ gas = UserEth /\ tokens = Received /\ userEth = UserEth
  /\ worker = [k \in Kind |-> Resting]

-----------------------------------------------------------------------------
(***************************************************************************)
(* Rows.  Definitions named with a Bug suffix are mutants: no              *)
(* specification uses them, and the runs are repeated with each in the     *)
(* place of the definition it follows to see a property fail.              *)
(***************************************************************************)
LiveRows == {r \in Row : status["sweep"][r] \in Live}
NextRow  == Cardinality({r \in Row : status["sweep"][r] # "none"}) + 1

(* CreditTokenDeposit, once per deposit: the balance moves and the amount  *)
(* is recognised by the live sweep, whatever its status, or by a new one.  *)
Merged == LiveRows

Credit(d) ==
  LET target == IF Merged = {} THEN {NextRow} ELSE Merged
  IN /\ d \notin credited
     /\ pendingDeposit >= Value[d]
     /\ credited' = credited \union {d}
     /\ pendingDeposit' = pendingDeposit - Value[d]
     /\ available' = available + Value[d]
     /\ recognized' = [r \in Row |-> recognized[r] + IF r \in target THEN Value[d] ELSE 0]
     /\ status' = [status EXCEPT !["sweep"] =
                     [r \in Row |-> IF r \in target /\ @[r] = "none" THEN "CREATED" ELSE @[r]]]
     /\ UNCHANGED <<swept, topup, rawTx, chain, worker>>

Smaller(m, n) == IF m < n THEN m ELSE n

(* quoteWithGasLimit: twice the base fee and the suggested tip, times the  *)
(* estimated gas; what an endpoint answers is any of the fees.             *)
Quotes == Fee

Idle(k)  == worker[k].at = "idle"
At(k, r, l) == worker[k].at = l /\ worker[k].row = r
Rest(k)  == worker' = [worker EXCEPT ![k] = Resting]
Turn(k, r, s) == status' = [status EXCEPT ![k][r] = s]

-----------------------------------------------------------------------------
(***************************************************************************)
(* The gas station.                                                        *)
(***************************************************************************)

(* addSafetyMargin rounds the margin up. *)
Target(quote) == quote + (quote * SafetyBPS + 9999) \div 10000

(* Worker.prepare gives up above config.GasTopupMaxWei. *)
WithinLimitBug(short) == TRUE
WithinLimit(short) == short <= TopupMax

(* prepare reads the estimate and the ETH found on the address, the user's *)
(* included.  Above the limit it returns an error, and tries again.        *)
Prepare(r, quote) ==
  LET short == Target(quote) - gas
  IN /\ Idle("topup")
     /\ status["sweep"][r] = "CREATED"
     /\ WithinLimit(short)
     /\ worker' = [worker EXCEPT !["topup"] =
                     [at |-> IF short > 0 THEN "create" ELSE "ready", row |-> r,
                      amount |-> IF short > 0 THEN short ELSE 0, receipt |-> {}]]
     /\ UNCHANGED <<deposits, rows, chain>>

MarkGasReady(r) ==
  /\ At("topup", r, "ready")
  /\ status["sweep"][r] = "CREATED"
  /\ Turn("sweep", r, "WAITING_GAS")
  /\ Rest("topup")
  /\ UNCHANGED <<deposits, recognized, swept, topup, rawTx, chain>>

(* CreateOrGetGasTopup: transfer, platform nonce and sweep in one step.    *)
CreateTopup(r) ==
  /\ At("topup", r, "create")
  /\ status["sweep"][r] = "CREATED"
  /\ status' = [status EXCEPT !["sweep"][r] = "WAITING_GAS", !["topup"][r] = "SIGNING"]
  /\ topup' = [topup EXCEPT ![r] = worker["topup"].amount]
  /\ Rest("topup")
  /\ UNCHANGED <<deposits, recognized, swept, rawTx, chain>>

UnsignedBug(k, r) == status[k][r] \in {"SIGNING", "SIGNED"}
Unsigned(k, r) == status[k][r] = "SIGNING"

(* sign and SaveSignedInternalTransfer; the platform wallet, which pays    *)
(* the fee, is funded.                                                     *)
SignTopup(r) ==
  /\ Idle("topup")
  /\ Unsigned("topup", r)
  /\ rawTx' = [rawTx EXCEPT !["topup"][r] =
                 {[kind |-> "topup", row |-> r, amount |-> topup[r], maxFee |-> 0]}]
  /\ Turn("topup", r, "SIGNED")
  /\ UNCHANGED <<deposits, recognized, swept, topup, chain, worker>>

-----------------------------------------------------------------------------
(***************************************************************************)
(* The sweep worker, up to the signature.                                  *)
(***************************************************************************)

(* A sweep is taken up when it needed no top-up or has it confirmed.       *)
GasDoneBug(r) == status["topup"][r] = "COMPLETED"
GasSentBug(r) == status["topup"][r] \in {"none", "BROADCASTED", "CONFIRMING", "COMPLETED"}
GasDone(r) == status["topup"][r] \in {"none", "COMPLETED"}

(* The tokens an endpoint sees: one that lags misses the last deposits.    *)
SeenTokens == IF "lag" \in Faults THEN 0 .. tokens ELSE {tokens}

(* prepare: the smaller of the balance and what is recognised. *)
PrepareSweep(r, quote, seen) ==
  /\ Idle("sweep")
  /\ status["sweep"][r] = "WAITING_GAS" /\ GasDone(r)
  /\ seen > 0 /\ gas >= quote
  /\ worker' = [worker EXCEPT !["sweep"] = [at |-> "allocate", row |-> r, receipt |-> {},
                                            amount |-> Smaller(seen, recognized[r])]]
  /\ UNCHANGED <<deposits, rows, chain>>

(* TOKEN_BALANCE_EMPTY. *)
FailWaiting(r, seen) ==
  /\ Idle("sweep")
  /\ status["sweep"][r] = "WAITING_GAS" /\ GasDone(r)
  /\ seen = 0
  /\ Turn("sweep", r, "FAILED")
  /\ UNCHANGED <<deposits, recognized, swept, topup, rawTx, chain, worker>>

(* AllocateTokenSweepNonce fixes the amount. *)
Allocate(r) ==
  /\ At("sweep", r, "allocate")
  /\ status["sweep"][r] = "WAITING_GAS" /\ GasDone(r)
  /\ swept[r] = 0 /\ worker["sweep"].amount <= recognized[r]
  /\ swept' = [swept EXCEPT ![r] = worker["sweep"].amount]
  /\ Turn("sweep", r, "SIGNING")
  /\ Rest("sweep")
  /\ UNCHANGED <<deposits, recognized, topup, rawTx, chain>>

(* sign and SaveSignedTokenSweep. *)
SignSweep(r, quote) ==
  /\ Idle("sweep")
  /\ Unsigned("sweep", r)
  /\ tokens >= swept[r] /\ gas >= quote
  /\ rawTx' = [rawTx EXCEPT !["sweep"][r] =
                 {[kind |-> "sweep", row |-> r, amount |-> swept[r], maxFee |-> quote]}]
  /\ Turn("sweep", r, "SIGNED")
  /\ UNCHANGED <<deposits, recognized, swept, topup, chain, worker>>

-----------------------------------------------------------------------------
(***************************************************************************)
(* broadcast and confirm, which both workers have alike.                   *)
(***************************************************************************)
IsMined(t) == \E c \in receipts : c.tx = t

(* broadcast finds the receipt: BROADCASTED, and on to confirmReceipt.     *)
Found(k, r, c) ==
  /\ Idle(k)
  /\ status[k][r] = "SIGNED" /\ c.tx \in rawTx[k][r]
  /\ Turn(k, r, "BROADCASTED")
  /\ worker' = [worker EXCEPT ![k] = [Resting EXCEPT !.at = "settle", !.row = r, !.receipt = {c}]]
  /\ UNCHANGED <<deposits, recognized, swept, topup, rawTx, chain>>

(* A node takes what is not mined and can be paid for by the sender.       *)
Acceptable(t) == ~ IsMined(t) /\ (t.kind = "sweep" => gas >= t.maxFee)

(* SendTransaction of the stored bytes, from SIGNED and before the status  *)
(* changes; when the reply is lost the row stays SIGNED, to be sent again. *)
Send(k, r, t, replied) ==
  /\ Idle(k)
  /\ status[k][r] = "SIGNED"
  /\ t \in mempool \/ Acceptable(t)
  /\ mempool' = mempool \union {t}
  /\ worker' = IF replied THEN [worker EXCEPT ![k] = [Resting EXCEPT !.at = "sent", !.row = r]]
               ELSE worker
  /\ UNCHANGED <<deposits, rows, receipts, buried, gas, tokens, userEth>>

MarkSent(k, r) ==
  /\ At(k, r, "sent")
  /\ status[k][r] = "SIGNED"
  /\ Turn(k, r, "BROADCASTED")
  /\ Rest(k)
  /\ UNCHANGED <<deposits, recognized, swept, topup, rawTx, chain>>

(* confirm reads the receipt. *)
Confirm(k, r, c) ==
  /\ Idle(k)
  /\ status[k][r] \in {"BROADCASTED", "CONFIRMING"} /\ c.tx \in rawTx[k][r]
  /\ worker' = [worker EXCEPT ![k] = [Resting EXCEPT !.at = "settle", !.row = r, !.receipt = {c}]]
  /\ UNCHANGED <<deposits, rows, chain>>

UpdateConfirmations(k, r) ==
  /\ At(k, r, "settle")
  /\ Turn(k, r, "CONFIRMING")
  /\ Rest(k)
  /\ UNCHANGED <<deposits, recognized, swept, topup, rawTx, chain>>

(* The receipt and the newest height are two calls.  A block replaced      *)
(* between them is left to EthWithdrawal, whose worker reads alike.        *)
EnoughConfirmationsBug(c) == c \in receipts
EnoughConfirmations(c) == c \in buried

(* FinalizeInternalTransfer: a reverted top-up fails its sweep with it.    *)
FinalizeTopup(r, c) ==
  /\ At("topup", r, "settle") /\ EnoughConfirmations(c)
  /\ status["topup"][r] \in {"BROADCASTED", "CONFIRMING"}
  /\ status' = IF c.ok THEN [status EXCEPT !["topup"][r] = "COMPLETED"]
               ELSE [status EXCEPT !["topup"][r] = "FAILED", !["sweep"][r] = "FAILED"]
  /\ Rest("topup")
  /\ UNCHANGED <<deposits, recognized, swept, topup, rawTx, chain>>

(* FinalizeTokenSweep: a completed sweep leaves what was recognised after  *)
(* its amount was fixed to a successor.  Looking for the transfer's event  *)
(* may fail with the database, which counts as a failed sweep.             *)
RemainingBug(r) == 0
Remaining(r) == recognized[r] - swept[r]

FinalizeSweep(r, c, found) ==
  /\ At("sweep", r, "settle") /\ EnoughConfirmations(c)
  /\ status["sweep"][r] \in {"BROADCASTED", "CONFIRMING"}
  /\ IF c.ok /\ found
     THEN /\ status' = [status EXCEPT !["sweep"] =
                [q \in Row |-> IF q = r THEN "COMPLETED"
                               ELSE IF q = NextRow /\ Remaining(r) > 0 THEN "CREATED" ELSE @[q]]]
          /\ recognized' = [q \in Row |-> IF q = NextRow /\ Remaining(r) > 0
                                          THEN Remaining(r) ELSE recognized[q]]
     ELSE Turn("sweep", r, "FAILED") /\ UNCHANGED recognized
  /\ Rest("sweep")
  /\ UNCHANGED <<deposits, swept, topup, rawTx, chain>>

(* hasExpectedTransfer: a successful transfer has its event; an error of   *)
(* the lookup counts as if it had none.                                    *)
EventFound == BOOLEAN

(* Nothing to do, a call fails, or the process dies and restarts. *)
Interrupt(k) ==
  /\ ~ Idle(k)
  /\ Rest(k)
  /\ UNCHANGED <<deposits, rows, chain>>

Broadcast(k, r) ==
  \/ \E c \in receipts : Found(k, r, c)
  \/ \E t \in rawTx[k][r], replied \in BOOLEAN : Send(k, r, t, replied)
  \/ MarkSent(k, r)

(* confirm and confirmReceipt of the gas station. *)
ConfirmTopup(r) == \E c \in receipts : Confirm("topup", r, c)
SettleTopup(r) ==
  \/ UpdateConfirmations("topup", r)
  \/ \E c \in worker["topup"].receipt : FinalizeTopup(r, c)

(* confirmReceipt of the sweep worker. *)
SettleSweep(r) ==
  \/ UpdateConfirmations("sweep", r)
  \/ \E c \in worker["sweep"].receipt, found \in EventFound : FinalizeSweep(r, c, found)

GasStationStep(r) ==
  \/ \E quote \in Quotes : Prepare(r, quote)
  \/ MarkGasReady(r) \/ CreateTopup(r)
  \/ SignTopup(r) \/ Broadcast("topup", r) \/ ConfirmTopup(r) \/ SettleTopup(r)

SweeperStep(r) ==
  \/ \E quote \in Quotes, seen \in SeenTokens : PrepareSweep(r, quote, seen)
  \/ \E seen \in SeenTokens : FailWaiting(r, seen)
  \/ Allocate(r)
  \/ \E quote \in Quotes : SignSweep(r, quote)
  \/ Broadcast("sweep", r)
  \/ \E c \in receipts : Confirm("sweep", r, c)
  \/ SettleSweep(r)

(* RunOnce: each worker takes up every row of its list, and an error on    *)
(* one row keeps it from no other.                                         *)
GasStation == \E r \in Row : GasStationStep(r)
Sweeper    == \E r \in Row : SweeperStep(r)

-----------------------------------------------------------------------------
(***************************************************************************)
(* The chain (outside src/), and the user's ETH withdrawals as far as they *)
(* take ETH from the address.                                              *)
(***************************************************************************)
PaidFee(t) == IF t.kind = "topup" THEN {0} ELSE {fee \in Fee : fee <= t.maxFee}

Mine(t, ok, fee) ==
  /\ t \in mempool
  /\ t.kind = "sweep" => gas >= t.maxFee /\ (ok => tokens >= t.amount)
  /\ mempool' = mempool \ {t}
  /\ receipts' = receipts \union {[tx |-> t, ok |-> ok, fee |-> fee]}
  /\ gas' = IF t.kind = "sweep" THEN gas - fee ELSE IF ok THEN gas + t.amount ELSE gas
  /\ tokens' = IF t.kind = "sweep" /\ ok THEN tokens - t.amount ELSE tokens
  /\ UNCHANGED <<deposits, rows, buried, userEth, worker>>

Bury(c) ==
  /\ c \in receipts \ buried
  /\ buried' = buried \union {c}
  /\ UNCHANGED <<deposits, rows, mempool, receipts, gas, tokens, userEth, worker>>

(* The block of c is replaced.  A top-up whose ETH was spent is buried.    *)
Reorg(c) ==
  /\ "reorg" \in Faults
  /\ c \in receipts \ buried
  /\ c.tx.kind = "topup" /\ c.ok => gas >= c.tx.amount
  /\ mempool' = mempool \union {c.tx}
  /\ receipts' = receipts \ {c}
  /\ gas' = IF c.tx.kind = "sweep" THEN gas + c.fee ELSE IF c.ok THEN gas - c.tx.amount ELSE gas
  /\ tokens' = IF c.tx.kind = "sweep" /\ c.ok THEN tokens + c.tx.amount ELSE tokens
  /\ UNCHANGED <<deposits, rows, buried, userEth, worker>>

Withdraw ==
  /\ userEth > 0 /\ gas > 0
  /\ userEth' = userEth - 1 /\ gas' = gas - 1
  /\ UNCHANGED <<deposits, rows, mempool, receipts, buried, tokens, worker>>

MineAny == \E t \in mempool, ok \in BOOLEAN : \E fee \in PaidFee(t) : Mine(t, ok, fee)
BuryAny == \E c \in receipts : Bury(c)

Next ==
  \/ \E d \in Deposit : Credit(d)
  \/ GasStation \/ Sweeper
  \/ \E k \in Kind : Interrupt(k)
  \/ MineAny \/ BuryAny \/ Withdraw
  \/ \E c \in receipts : Reorg(c)

Spec == Init /\ [][Next]_vars

(***************************************************************************)
(* Fairness.  Both workers take up every row of their list each tick, and  *)
(* nodes mine.  Calls fail, replies get lost, endpoints lag and processes  *)
(* restart a finite number of times: from some point on a worker that has  *)
(* read something acts on it, and counts confirmations as they are.  An    *)
(* estimate within the limit of a top-up is met now and then, that is, the *)
(* limit covers the lowest fee.                                            *)
(***************************************************************************)
Hasty(k, r) == UpdateConfirmations(k, r) /\ \E c \in worker[k].receipt : EnoughConfirmations(c)
Unhealthy ==
  \/ \E k \in Kind : Interrupt(k) \/ \E r \in Row : Hasty(k, r)
  \/ \E c \in receipts : Reorg(c)

FairSpec ==
  /\ Spec /\ <>[][~ Unhealthy]_vars
  /\ WF_vars(GasStation) /\ WF_vars(Sweeper) /\ WF_vars(MineAny) /\ WF_vars(BuryAny)

-----------------------------------------------------------------------------
(***************************************************************************)
(* Properties.                                                             *)
(***************************************************************************)
Share(r) == CASE status["sweep"][r] = "COMPLETED" -> swept[r]
              [] status["sweep"][r] = "none" -> 0
              [] OTHER -> recognized[r]

(* Every unit credited to the user is delivered by one completed sweep, or *)
(* recognised by one live or failed one: deposits that join a sweep after  *)
(* its amount was fixed are neither lost nor swept twice.                  *)
RecognizedOnce == available = Total([r \in Row |-> Share(r)], Received)

(* A completed sweep brought its amount to the hot wallet in a block that  *)
(* stays, over all replaced blocks, retries and restarts.                  *)
CompletedIsDelivered ==
  \A r \in Row : status["sweep"][r] = "COMPLETED" =>
    \E c \in buried : c.ok /\ c.tx.kind = "sweep" /\ c.tx.row = r /\ c.tx.amount = swept[r]

(* What a node has of a row is its one stored transaction, and no gas or   *)
(* token is sent twice for a row over all crashes and lost replies: a row  *)
(* that failed before its transfer has sent nothing.                       *)
Sent(k, r) == {t \in mempool \union {c.tx : c \in receipts} : t.kind = k /\ t.row = r}
SentIsRecorded ==
  \A k \in Kind, r \in Row : Sent(k, r) # {} =>
    /\ Sent(k, r) = rawTx[k][r]
    /\ status[k][r] \notin {"none", "CREATED", "WAITING_GAS", "SIGNING"}

(* A sweep is sent only when its gas arrived for good.                     *)
GasBeforeSweep ==
  \A r \in Row : Sent("sweep", r) # {} /\ status["topup"][r] # "none" =>
    \E c \in buried : c.ok /\ c.tx.kind = "topup" /\ c.tx.row = r

(* Each sweep ends, unless the ETH of the address falls below a fee after  *)
(* the gas station was done with it.                                       *)
Ended(r)   == status["sweep"][r] \in {"COMPLETED", "FAILED"}
Starved(r) == status["sweep"][r] \in Live \ {"CREATED"} /\ GasDone(r) /\ \E fee \in Fee : gas < fee
SweepsEnd  == \A r \in Row : status["sweep"][r] = "CREATED" ~> Ended(r) \/ Starved(r)

-----------------------------------------------------------------------------
(***************************************************************************)
(* The inductive invariant the proofs rest on.                             *)
(***************************************************************************)
Early    == {"none", "CREATED", "WAITING_GAS", "SIGNING"}
Settling == {"BROADCASTED", "CONFIRMING"}

(* Rows are used in order, at most one is live, and each has units.        *)
RowShape ==
  /\ \A r \in Row : status["sweep"][r] # "none" <=> r < NextRow
  /\ \A r, q \in LiveRows : r = q
  /\ \A r \in Row :
       /\ status["sweep"][r] = "none" <=> recognized[r] = 0
       /\ swept[r] <= recognized[r]
       /\ status["sweep"][r] \in {"none", "CREATED", "WAITING_GAS"} => swept[r] = 0
       /\ status["sweep"][r] \notin {"none", "CREATED", "WAITING_GAS", "FAILED"} => swept[r] > 0

(* What is not available yet is pending. *)
CreditShape == available + pendingDeposit = Received

(* A sweep waits for the top-up it has, and fails with it.                 *)
GasShape ==
  \A r \in Row :
    /\ status["topup"][r] \notin {"CREATED", "WAITING_GAS"}
    /\ status["topup"][r] \in Live => status["sweep"][r] = "WAITING_GAS"
    /\ status["topup"][r] = "COMPLETED" => status["sweep"][r] \notin {"none", "CREATED"}
    /\ status["topup"][r] = "FAILED" => status["sweep"][r] = "FAILED" /\ rawTx["sweep"][r] = {}

(* A row has one transaction once it is signed, and the node no other. *)
TxShape ==
  /\ \A k \in Kind, r \in Row :
       /\ status[k][r] \in Early => rawTx[k][r] = {}
       /\ \A t \in rawTx[k][r] : t.kind = k /\ t.row = r /\ rawTx[k][r] = {t}
  /\ \A r \in Row : \A t \in rawTx["sweep"][r] : t.amount = swept[r]
  /\ \A t \in mempool : t \in rawTx[t.kind][t.row]
  /\ \A c \in receipts : c.tx \in rawTx[c.tx.kind][c.tx.row]

(* What a worker has read is of its row and still holds. *)
WorkerShape ==
  /\ \A k \in Kind : worker[k].at = "settle" =>
       /\ status[k][worker[k].row] \in Settling
       /\ \A c \in worker[k].receipt : c.tx \in rawTx[k][worker[k].row]
  /\ worker["sweep"].at = "allocate" => worker["sweep"].amount > 0
  /\ worker["topup"].at = "create" => worker["topup"].amount <= TopupMax

(* The gas of a sweep that needed a top-up has arrived for good. *)
TopupShape ==
  \A r \in Row : status["topup"][r] = "COMPLETED" =>
    \E c \in buried : c.ok /\ c.tx.kind = "topup" /\ c.tx.row = r

IndInv ==
  /\ RowShape /\ CreditShape /\ GasShape /\ TxShape /\ WorkerShape /\ TopupShape
  /\ RecognizedOnce /\ CompletedIsDelivered /\ SentIsRecorded /\ GasBeforeSweep
=============================================================================
