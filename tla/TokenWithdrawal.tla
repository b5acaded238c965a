-------------------------- MODULE TokenWithdrawal --------------------------
(***************************************************************************)
(* The token withdrawals of one user, paid from the platform's hot wallet: *)
(* the transaction that reserves them (token/withdrawal/service.go), the   *)
(* worker goroutine that carries them to the chain and settles them        *)
(* (token/withdrawal/worker.go), their database transactions               *)
(* (store/postgres/token_withdrawal_transaction.go).  The hot wallet also  *)
(* sends the gas station's top-ups, with nonces of the same sequence, and  *)
(* the sweeps those make possible bring the tokens the wallet pays from.   *)
(*                                                                         *)
(* Each database transaction and each RPC call is one step, joined to the  *)
(* next where what it read cannot be stale by then.  The worker's steps    *)
(* are taken from the status of a row: the same whether it went on or read *)
(* the row after a restart.  A row of token_withdrawals is known by its    *)
(* idempotency key.  The hot wallet's ETH is left out: a wallet too short  *)
(* of it stops a step as any failed call does.                             *)
(***************************************************************************)
EXTENDS Integers, FiniteSets, Sums

CONSTANTS
  NumWithdrawals,  \* idempotency keys the user's requests have
  Amount,          \* amounts a request may ask for
  Balance,         \* the user's credited tokens
  Stock,           \* the tokens of the hot wallet at first
  NumTopups,       \* sweeps that need a top-up of gas
  Swept,           \* the tokens each of them brings to the hot wallet
  Faults           \* some of "reorg", and of "lag": endpoints behind the chain

ASSUME TokenWithdrawalConstants ==
  /\ NumWithdrawals \in Nat \ {0} /\ NumTopups \in Nat
  /\ Amount \subseteq Nat \ {0}
  /\ Balance \in Nat /\ Stock \in Nat /\ Swept \in Nat
  /\ Faults \subseteq {"reorg", "lag"}

(* The rows of token_withdrawals, and of internal_transfers. *)
Withdrawal == 1 .. NumWithdrawals
Topup      == NumWithdrawals + 1 .. NumWithdrawals + NumTopups
Row        == Withdrawal \union Topup
None       == -1                     \* SQL NULL of a nonce

Tx      == [from : Row, nonce : Nat, amount : Nat]
Receipt == [tx : Tx, ok : BOOLEAN]

Processable == {"CREATED", "SIGNING", "SIGNED", "BROADCASTED", "CONFIRMING"}
Terminal    == {"COMPLETED", "FAILED"}
Status      == {"none"} \union Processable \union Terminal

VARIABLES
  available, pendingWithdrawal,  \* the user's token row of asset_balances
  journal,                       \* balance_entries: amount per row and type
  status, amount, nonce, rawTx,  \* of the rows; rawTx is {} while NULL
  nextNonce,                     \* platform_wallets.next_nonce
  mempool, receipts,             \* transactions pending and mined
  accountNonce, buried,          \* nonces mined; nonces with enough confirmations
  tokens,                        \* the tokens of the hot wallet in the latest block
  arrived,                       \* sweeps whose tokens reached the hot wallet
  worker                         \* the withdrawal worker: its step, row and receipt

ledger == <<available, pendingWithdrawal, journal>>
rows   == <<status, amount, nonce, rawTx, nextNonce>>
chain  == <<mempool, receipts, accountNonce, buried, tokens, arrived>>
vars   == <<ledger, rows, chain, worker>>

Resting == [at |-> "idle", row |-> 1, receipt |-> {}]
Entry   == {"WITHDRAW_RESERVE", "WITHDRAW_FINALIZE", "WITHDRAW_RELEASE"}

TypeOK ==
  /\ available \in Nat /\ pendingWithdrawal \in Nat
  /\ journal \in [Withdrawal -> [Entry -> Int]]
  /\ status \in [Row -> Status] /\ amount \in [Row -> Nat]
  /\ nonce \in [Row -> Nat \union {None}] /\ nextNonce \in Nat
  /\ rawTx \in [Row -> SUBSET Tx]
  /\ mempool \subseteq Tx /\ receipts \subseteq Receipt
  /\ accountNonce \in Nat /\ buried \in 0 .. accountNonce
  /\ tokens \in Nat /\ arrived \subseteq Topup
  /\ worker \in [at : {"idle", "allocate", "sent", "settle"}, row : Row, receipt : SUBSET Receipt]

Init ==
  /\ available = Balance /\ pendingWithdrawal = 0
  /\ journal = [w \in Withdrawal |-> [e \in Entry |-> 0]]
  /\ status = [r \in Row |-> "none"] /\ amount = [r \in Row |-> 0]
  /\ nonce = [r \in Row |-> None] /\ rawTx = [r \in Row |-> {}] /\ nextNonce = 0
  /\ mempool = {} /\ receipts = {} /\ accountNonce = 0 /\ buried = 0
  /\ tokens = Stock /\ arrived = {}
  /\ worker = Resting

Idle     == worker.at = "idle"
At(w, l) == worker.at = l /\ worker.row = w
Turn(r, s) == status' = [status EXCEPT ![r] = s]

-----------------------------------------------------------------------------
(***************************************************************************)
(* The service.  Definitions named with a Bug suffix are mutants: no       *)
(* specification uses them, and the runs are repeated with each in the     *)
(* place of the definition it follows to see a property fail.              *)
(***************************************************************************)
CoversBug(units) == TRUE
Covers(units) == available >= units

(* ReserveTokenWithdrawal, one transaction under the lock of the balance.  *)
(* Its INSERT meets the row that another request with the key may have     *)
(* committed since Create looked.                                          *)
ReserveTokenWithdrawal(w, units) ==
  /\ status[w] = "none"
  /\ Covers(units)
  /\ amount' = [amount EXCEPT ![w] = units]
  /\ available' = available - units
  /\ pendingWithdrawal' = pendingWithdrawal + units
  /\ journal' = [journal EXCEPT ![w]["WITHDRAW_RESERVE"] = - units]
  /\ Turn(w, "CREATED")

(* Service.Create.  A request whose key has a row is answered from it, or  *)
(* refused when it differs, and changes nothing.                           *)
Create(w, units) ==
  /\ ReserveTokenWithdrawal(w, units)
  /\ UNCHANGED <<nonce, rawTx, nextNonce, chain, worker>>

-----------------------------------------------------------------------------
(***************************************************************************)
(* Nonces of the hot wallet.                                               *)
(***************************************************************************)
Larger(m, n) == IF m > n THEN m ELSE n

(* PendingNonceAt: mined nonces and those pending behind them without a    *)
(* gap; an endpoint that lags may answer less.                             *)
PendingNonces ==
  {n \in 0 .. nextNonce :
     /\ \A k \in accountNonce .. n - 1 : \E t \in mempool : t.nonce = k
     /\ "lag" \notin Faults => n >= accountNonce /\ ~ \E t \in mempool : t.nonce = n}

ChosenNonceBug(seen) == seen
ChosenNonce(seen) == Larger(nextNonce, seen)

GiveNonce(r, seen) ==
  /\ nonce' = [nonce EXCEPT ![r] = ChosenNonce(seen)]
  /\ nextNonce' = ChosenNonce(seen) + 1
  /\ Turn(r, "SIGNING")

-----------------------------------------------------------------------------
(***************************************************************************)
(* The worker, up to the signature.                                        *)
(***************************************************************************)

(* checkBalancesAndQuote: the hot wallet has the tokens now.  Withdrawals  *)
(* sent before and not mined yet are not counted.                          *)
InStock(w) == tokens >= amount[w]

(* A row that has its nonce keeps it. *)
UnallocatedBug(w) == status[w] \in {"CREATED", "SIGNING", "SIGNED"}
Unallocated(w) == status[w] = "CREATED"

(* prepare; the other half of it, PendingNonceAt, is of the next step. *)
Prepare(w) ==
  /\ Idle
  /\ Unallocated(w) /\ InStock(w)
  /\ worker' = [Resting EXCEPT !.at = "allocate", !.row = w]
  /\ UNCHANGED <<ledger, rows, chain>>

(* AllocateTokenWithdrawalNonce.  The worker goes on to sign; a call that  *)
(* fails there leaves the row to a later tick, with others before it.      *)
Allocate(w, seen) ==
  /\ At(w, "allocate")
  /\ Unallocated(w)
  /\ GiveNonce(w, seen)
  /\ worker' = Resting
  /\ UNCHANGED <<ledger, amount, rawTx, chain>>

(* The one transaction validateTransaction accepts for a row. *)
Signed(r) == {[from |-> r, nonce |-> nonce[r], amount |-> amount[r]]}

SaveSigned(r) ==
  /\ status[r] = "SIGNING" /\ nonce[r] # None
  /\ rawTx' = [rawTx EXCEPT ![r] = Signed(r)]
  /\ Turn(r, "SIGNED")

(* sign checks the balances again.  A wallet that fell short meanwhile     *)
(* leaves the row SIGNING, with its nonce, for a later tick.               *)
Sign(w) ==
  /\ Idle
  /\ InStock(w)
  /\ SaveSigned(w)
  /\ UNCHANGED <<ledger, amount, nonce, nextNonce, chain, worker>>

-----------------------------------------------------------------------------
(***************************************************************************)
(* broadcast and confirm.                                                  *)
(***************************************************************************)

(* TransitionTokenWithdrawal. *)
MarkBroadcasted(w) == status[w] = "SIGNED" /\ Turn(w, "BROADCASTED")

(* The receipt is there already: BROADCASTED, and on to confirmReceipt. *)
Found(w, c) ==
  /\ Idle
  /\ c.tx \in rawTx[w]
  /\ MarkBroadcasted(w)
  /\ worker' = [at |-> "settle", row |-> w, receipt |-> {c}]
  /\ UNCHANGED <<ledger, amount, nonce, rawTx, nextNonce, chain>>

(* A node takes what is not below the account's nonce. *)
Acceptable(t) == t.nonce >= accountNonce

(* SendTransaction; "already known" is an answer like any other.  When the *)
(* reply is lost the row stays SIGNED, and is sent again.                  *)
Send(w, t, replied) ==
  /\ Idle
  /\ status[w] = "SIGNED"
  /\ t \in mempool \/ Acceptable(t)
  /\ mempool' = mempool \union {t}
  /\ worker' = IF replied THEN [Resting EXCEPT !.at = "sent", !.row = w] ELSE worker
  /\ UNCHANGED <<ledger, rows, receipts, accountNonce, buried, tokens, arrived>>

MarkSent(w) ==
  /\ At(w, "sent")
  /\ MarkBroadcasted(w)
  /\ worker' = Resting
  /\ UNCHANGED <<ledger, amount, nonce, rawTx, nextNonce, chain>>

(* What Process hands to confirm. *)
AwaitedBug(w) == status[w] = "CONFIRMING"
Awaited(w) == status[w] \in {"BROADCASTED", "CONFIRMING"}

(* confirm reads the receipt; NotFound ends the pass. *)
Confirm(w, c) ==
  /\ Idle
  /\ Awaited(w) /\ c.tx \in rawTx[w]
  /\ worker' = [at |-> "settle", row |-> w, receipt |-> {c}]
  /\ UNCHANGED <<ledger, rows, chain>>

UpdateConfirmations(w) ==
  /\ At(w, "settle")
  /\ Awaited(w)
  /\ Turn(w, "CONFIRMING")
  /\ worker' = Resting
  /\ UNCHANGED <<ledger, amount, nonce, rawTx, nextNonce, chain>>

(* The receipt and the newest height are two calls.  A block replaced      *)
(* between them is left to EthWithdrawal, whose worker reads alike.        *)
EnoughConfirmationsBug(c) == c \in receipts
EnoughConfirmations(c) == c \in receipts /\ c.tx.nonce < buried

(* What a settlement gives back. *)
ReturnedBug(w, ok) == 0
Returned(w, ok) == IF ok THEN 0 ELSE amount[w]

FinalizeTokenWithdrawal(w, ok) ==
  /\ Awaited(w)
  /\ pendingWithdrawal >= amount[w]
  /\ available' = available + Returned(w, ok)
  /\ pendingWithdrawal' = pendingWithdrawal - amount[w]
  /\ journal' = IF ok THEN [journal EXCEPT ![w]["WITHDRAW_FINALIZE"] = - amount[w]]
                ELSE [journal EXCEPT ![w]["WITHDRAW_RELEASE"] = amount[w]]
  /\ Turn(w, IF ok THEN "COMPLETED" ELSE "FAILED")

(* confirmReceipt settles.  The event of a transfer that succeeded is in   *)
(* its receipt, as the token is a standard one.                            *)
Settle(w, c) ==
  /\ At(w, "settle")
  /\ EnoughConfirmations(c)
  /\ FinalizeTokenWithdrawal(w, c.ok)
  /\ worker' = Resting
  /\ UNCHANGED <<amount, nonce, rawTx, nextNonce, chain>>

(* A call fails, or the process dies and restarts. *)
Interrupt ==
  /\ ~ Idle
  /\ worker' = Resting
  /\ UNCHANGED <<ledger, rows, chain>>

WorkerStep(w) ==
  \/ Prepare(w)
  \/ \E seen \in PendingNonces : Allocate(w, seen)
  \/ Sign(w)
  \/ \E c \in receipts : Found(w, c) \/ Confirm(w, c)
  \/ \E t \in rawTx[w], replied \in BOOLEAN : Send(w, t, replied)
  \/ MarkSent(w) \/ UpdateConfirmations(w)
  \/ \E c \in worker.receipt : Settle(w, c)

-----------------------------------------------------------------------------
(***************************************************************************)
(* The gas station as far as it uses the hot wallet: TokenSweep has the    *)
(* rest of it.  CreateOrGetGasTopup is one transaction, SaveSignedInternal-*)
(* Transfer another, and a top-up is sent from SIGNED.                     *)
(***************************************************************************)
CreateTopup(s, seen) ==
  /\ status[s] = "none"
  /\ GiveNonce(s, seen)
  /\ UNCHANGED <<ledger, amount, rawTx, chain, worker>>

SignTopup(s) ==
  /\ SaveSigned(s)
  /\ UNCHANGED <<ledger, amount, nonce, nextNonce, chain, worker>>

SendTopup(s, t) ==
  /\ status[s] = "SIGNED" /\ Acceptable(t)
  /\ mempool' = mempool \union {t}
  /\ UNCHANGED <<ledger, rows, receipts, accountNonce, buried, tokens, arrived, worker>>

TopupStep(s) ==
  \/ \E seen \in PendingNonces : CreateTopup(s, seen)
  \/ SignTopup(s)
  \/ \E t \in rawTx[s] : SendTopup(s, t)

-----------------------------------------------------------------------------
(***************************************************************************)
(* The chain (outside src/).                                               *)
(***************************************************************************)

(* A token transfer above the balance reverts; any transaction may.        *)
Mine(t, ok) ==
  /\ t \in mempool /\ t.nonce = accountNonce
  /\ ok => tokens >= t.amount
  /\ mempool' = mempool \ {t}
  /\ receipts' = receipts \union {[tx |-> t, ok |-> ok]}
  /\ accountNonce' = accountNonce + 1
  /\ tokens' = IF ok THEN tokens - t.amount ELSE tokens
  /\ UNCHANGED <<ledger, rows, buried, arrived, worker>>

Bury ==
  /\ buried < accountNonce
  /\ buried' = buried + 1
  /\ UNCHANGED <<ledger, rows, mempool, receipts, accountNonce, tokens, arrived, worker>>

(* The newest block is replaced; its transaction returns to the pool. *)
Reorg(c) ==
  /\ "reorg" \in Faults
  /\ c \in receipts /\ c.tx.nonce = accountNonce - 1 /\ buried < accountNonce
  /\ receipts' = receipts \ {c}
  /\ mempool' = mempool \union {c.tx}
  /\ accountNonce' = accountNonce - 1
  /\ tokens' = IF c.ok THEN tokens + c.tx.amount ELSE tokens
  /\ UNCHANGED <<ledger, rows, buried, arrived, worker>>

(* The sweep a top-up paid the gas of brings its tokens. *)
Arrive(s) ==
  /\ s \notin arrived
  /\ \E c \in receipts : c.ok /\ c.tx.from = s /\ c.tx.nonce < buried
  /\ arrived' = arrived \union {s}
  /\ tokens' = tokens + Swept
  /\ UNCHANGED <<ledger, rows, mempool, receipts, accountNonce, buried, worker>>

MineAny == \E t \in mempool, ok \in BOOLEAN : Mine(t, ok)

Next ==
  \/ \E w \in Withdrawal : WorkerStep(w) \/ \E units \in Amount : Create(w, units)
  \/ Interrupt
  \/ \E s \in Topup : TopupStep(s) \/ Arrive(s)
  \/ MineAny \/ Bury
  \/ \E c \in receipts : Reorg(c)

Spec == Init /\ [][Next]_vars

(***************************************************************************)
(* Fairness.  The worker takes up every processable row each tick, the gas *)
(* station every top-up, and nodes mine.  Calls fail, replies get lost,    *)
(* blocks are replaced and the process restarts a finite number of times:  *)
(* from some point on a worker that has read something acts on it, and     *)
(* counts confirmations as they are.                                       *)
(***************************************************************************)
LostReply(w) == \E t \in rawTx[w] : Send(w, t, FALSE)
Hasty(w) == UpdateConfirmations(w) /\ \E c \in worker.receipt : EnoughConfirmations(c)
Unhealthy ==
  \/ Interrupt
  \/ \E w \in Withdrawal : LostReply(w) \/ Hasty(w)
  \/ \E c \in receipts : Reorg(c)

FairSpec ==
  /\ Spec /\ <>[][~ Unhealthy]_vars
  /\ \A w \in Withdrawal : SF_vars(WorkerStep(w))
  /\ \A s \in Topup : WF_vars(TopupStep(s))
  /\ WF_vars(MineAny) /\ WF_vars(Bury)

-----------------------------------------------------------------------------
(***************************************************************************)
(* Properties.                                                             *)
(***************************************************************************)
Hold(w) == IF status[w] \in Processable THEN amount[w] ELSE 0
Booked(w) ==
  journal[w]["WITHDRAW_RESERVE"] + journal[w]["WITHDRAW_RELEASE"]

(* The pending balance is what the live withdrawals hold, and the journal  *)
(* explains the available one: over all crashes and retries a withdrawal   *)
(* is reserved, released or finalised once, whole, and never two of them.  *)
BooksAgree ==
  /\ pendingWithdrawal = Total([w \in Withdrawal |-> Hold(w)], NumWithdrawals)
  /\ available = Balance + Total([w \in Withdrawal |-> Booked(w)], NumWithdrawals)
  /\ \A w \in Withdrawal : status[w] \in Terminal =>
       journal[w]["WITHDRAW_FINALIZE"] = IF status[w] = "COMPLETED" THEN - amount[w] ELSE 0

(* Withdrawals and top-ups of the hot wallet are never given one nonce,    *)
(* though they allocate from separate tables in two goroutines, with what  *)
(* endpoints of different age answer (002-erc20/design.md, section on      *)
(* platform nonces).                                                       *)
NonceExclusive ==
  \A r, q \in Row : r # q /\ nonce[r] # None => nonce[r] # nonce[q]

(* What a node has of a row is its one stored transaction, so what is sent *)
(* again after a crash or a lost reply is the same transfer, and a row     *)
(* that has sent one is never taken for unsent.                            *)
SentOf(r) == {t \in mempool \union {c.tx : c \in receipts} : t.from = r}
SentIsRecorded ==
  \A r \in Row : SentOf(r) # {} =>
    /\ SentOf(r) = rawTx[r]
    /\ status[r] \notin {"none", "CREATED", "SIGNING"}

(* The withdrawals implement Payout: a user gets the reserved tokens back  *)
(* only if the chain keeps its hands off them for good, and loses them     *)
(* only to a transfer that stays.                                          *)
Taken(w) == IF \E c \in receipts : c.ok /\ c.tx.from = w THEN amount[w] ELSE 0
Phase(w) == CASE status[w] = "none" -> "new"
              [] status[w] \in Processable -> "open"
              [] OTHER -> "closed"
P == INSTANCE Payout WITH
       Key <- Withdrawal, account <- available,
       hold <- [w \in Withdrawal |-> Hold(w)],
       taken <- [w \in Withdrawal |-> Taken(w)],
       phase <- [w \in Withdrawal |-> Phase(w)]
PayoutSpec == P!Spec

(* Every withdrawal ends, unless the hot wallet stays short: of its own    *)
(* tokens, or of those of a row that has its nonce and is not signed.      *)
Stuck(w) == status[w] = "SIGNING" /\ ~ InStock(w)
Waits(w) == \/ status[w] = "CREATED" /\ ~ InStock(w)
            \/ \E v \in Withdrawal : Stuck(v)
WithdrawalsEnd ==
  \A w \in Withdrawal :
    []<>(~ Waits(w)) => (status[w] = "CREATED" ~> status[w] \in Terminal)

-----------------------------------------------------------------------------
(***************************************************************************)
(* The inductive invariant the proofs rest on.                             *)
(***************************************************************************)
HasTx == {"SIGNED", "BROADCASTED", "CONFIRMING"} \union Terminal

(* What each status says of the rest of the row: the nonce comes with      *)
(* SIGNING, the transaction with SIGNED, and it is the row's own.          *)
RowShape ==
  \A r \in Row :
    /\ status[r] \in {"none", "CREATED"} <=> nonce[r] = None
    /\ status[r] = "none" => amount[r] = 0
    /\ rawTx[r] = IF status[r] \in HasTx THEN Signed(r) ELSE {}
    /\ r \in Topup => status[r] \in {"none", "SIGNING", "SIGNED"}

(* The worker has in hand a row of its own, and a receipt of its row.      *)
WorkerShape ==
  worker.at # "idle" =>
    /\ worker.at = "allocate" => status[worker.row] = "CREATED"
    /\ \A c \in worker.receipt : c.tx \in rawTx[worker.row]

(* Allocated nonces are below next_nonce. *)
NoncesBelow == \A r \in Row : nonce[r] # None => nonce[r] < nextNonce

(* What nodes have was sent from a row, and the account uses a nonce once. *)
ChainShape ==
  /\ \A t \in mempool : t \in rawTx[t.from] /\ t.nonce >= accountNonce
  /\ \A c \in receipts : c.tx \in rawTx[c.tx.from] /\ c.tx.nonce < accountNonce
  /\ \A c, d \in receipts : c.tx.nonce = d.tx.nonce => c = d

(* A settled row was settled by a receipt that stays, and by what it says. *)
Settled(w) ==
  \E c \in receipts :
    /\ c.tx.from = w /\ c.tx.nonce < buried
    /\ c.ok <=> status[w] = "COMPLETED"
SettledShape == \A w \in Withdrawal : status[w] \in Terminal => Settled(w)

(* The entries of a row, by its status. *)
JournalShape ==
  \A w \in Withdrawal :
    /\ journal[w]["WITHDRAW_RESERVE"] = - amount[w]
    /\ journal[w]["WITHDRAW_RELEASE"] = IF status[w] = "FAILED" THEN amount[w] ELSE 0
    /\ journal[w]["WITHDRAW_FINALIZE"] = IF status[w] = "COMPLETED" THEN - amount[w] ELSE 0

IndInv ==
  /\ RowShape /\ WorkerShape /\ NonceExclusive /\ NoncesBelow
  /\ ChainShape /\ SettledShape /\ JournalShape
=============================================================================
