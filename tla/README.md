# mini_custody: a verification development

This directory models the custody backend under `src/backend` in TLA+, model-checks
the models with TLC, and proves the most important results for every value of the
constants with TLAPS.

The program is a Go service over PostgreSQL. It gives each user a custody address on
Sepolia (ETH and ERC20 tokens) and on Bitcoin Signet, watches the chains for deposits,
keeps the users' balances, sweeps tokens and bitcoin to a treasury, and pays
withdrawals. Its only shared state is the database and the chains. Every component is
one goroutine that polls, and does its work in a series of database transactions and
RPC calls, any of which may fail, and between any two of which the process may die.
That, and what the goroutines do to each other's rows, nonces and coins in between, is
what the models are about.

## 1. The system

### Components

| Component | State it owns | Operations | Talks to |
|---|---|---|---|
| ETH withdrawals (`withdrawal/service.go`, `withdrawal/worker.go`, `balance_transaction.go`) | `withdrawals`, `asset_balances`, `balance_entries`, `wallet_addresses.next_nonce` | create (quote, reserve); per row: raise fee, check funds, allocate nonce, sign and save, broadcast, resolve an unknown broadcast, confirm, finalize; release | HTTP handlers, EVM RPC; shares nonces and ETH of the address with token sweeps |
| ETH deposits (`deposit/scanner.go`) | `deposits`, `chain_checkpoints`, balances | scan a batch of blocks, record with checkpoint, list, wait, verify hash, credit | EVM RPC; reads `internal_transfers` of the gas station |
| ERC20 deposits (`token/deposit/scanner.go`) | `token_deposits`, checkpoint | scan `Transfer` logs over ranges that split when too large, verify, credit and open a sweep | EVM RPC; creates `token_sweeps` |
| Gas station (`token/gasstation/worker.go`) | `internal_transfers`, platform nonces | top up an address with the ETH a sweep needs | reads the address's ETH, moves sweeps to `WAITING_GAS` |
| Token sweeps (`token/sweep/worker.go`) | `token_sweeps` | allocate nonce, sign, broadcast, confirm, recognise the amount as available | shares `wallet_addresses.next_nonce` and ETH with ETH withdrawals |
| Token withdrawals (`token/withdrawal/*.go`) | `token_withdrawals`, balances, platform nonces | reserve, allocate, sign, broadcast, confirm, settle | shares platform nonces with the gas station, and tokens with what sweeps bring |
| Bitcoin deposits (`btc/scanner*.go`) | `btc_deposits`, `btc_utxos`, checkpoint | compare block hashes, rewind, scan, credit and open a sweep | Bitcoin RPC |
| Bitcoin sweeps (`btc/sweep*.go`) | `btc_sweeps`, `btc_utxos` | sign, test, send, confirm, fail | shares outputs with Bitcoin withdrawals |
| Bitcoin withdrawals (`btc/withdrawal_*.go`, `btc/select.go`) | `btc_withdrawals`, `btc_utxos`, balances | reserve, select and lock inputs, build, test, send, confirm, complete, fail and release | shares outputs with sweeps |
| EVM RPC client (`chain/evm/client.go`) | the endpoint in use | probe, retry, fail over, classify errors | used by every goroutine that reads or sends on the EVM chain |
| The rest: assembly (`app/app.go`), HTTP handlers, the Bitcoin RPC client, keys, amounts, configuration, migrations, frontend | none of the custody state | | |

`app.go` starts one goroutine per worker and stops all of them when one of them
returns. A worker that meets an error records it and comes back at its next tick.

### What is hard

- *Crashes and lost replies around a send.* The row is written before the send and after
  it; what happened in between must be found again, and the payment must not be made twice.
- *Shared nonces.* ETH withdrawals and token sweeps take nonces of one address from two
  tables, and so do token withdrawals and top-ups of the hot wallet's, while endpoints answer
  with counts of different ages.
- *Shared coins.* Token sweeps burn ETH the ETH ledger owes the user; Bitcoin sweeps and
  withdrawals take the same outputs; token withdrawals are paid from what sweeps bring.
- *Shared balances.* HTTP requests, fee increases, releases and settlements of several rows
  move amounts between the columns of one balance row.
- *A chain that moves.* A height read in one call is used with a receipt or a hash read in
  another; blocks may be replaced in between; two endpoints lag behind each other, and any
  call may be answered by either.
- *Being stuck.* A row that nobody takes up again holds a user's money for ever, or blocks
  every later row of the address; a checkpoint that cannot move stops a scanner.

`PROJECT.json` lists the places where each of these bites as `hazards`, with the properties about it.

### What makes each component correct

- **Withdrawals, of ETH and of tokens**: an account gets back exactly what the chain did not take, once, and nothing is
  taken afterwards (`Payout`); the holds are the live rows' amounts and fees; nonces are exclusive; what a node has was
  recorded first; the journal explains the balance; replies are honoured; rows end.
- **Deposits, of ETH, of tokens and of bitcoin**: an amount is pending once and available once, and only when the chain cannot
  take it back (`Crediting`); no block is skipped; the platform's own transfers are not deposits; a rewind forgets
  exactly what the replaced blocks brought; confirmed deposits are credited in the end.
- **Bitcoin sweeps and withdrawals**: the books agree with the chain; locks do not outlive their
  withdrawal; completion means burial; retries send the same bytes; a released withdrawal is not paid (which one crash breaks,
  section 4).
- **Token sweeps and gas station**: every credited unit is in exactly one sweep; a completed sweep was
  delivered for good; a top-up and a sweep are sent once, the sweep after its gas; sweeps end.
- **EVM RPC client**: only endpoints of the right chain are believed; one endpoint that fails does not stop its callers.

## 2. Modules

| Module | Models |
|---|---|
| `Payout` | what a withdrawal promises, whatever the asset; `EthWithdrawal` and `TokenWithdrawal` implement it |
| `Crediting` | what a deposit scanner promises, whatever the chain; `EthDeposit`, `BtcDeposit` and `TokenDeposit` implement it |
| `EthWithdrawal` | ETH withdrawals: handlers, worker, transactions, chain, and the token sweeps of the address as far as they share its nonce and ETH |
| `MCEthWithdrawal` | its instance with racing requests (symmetry) |
| `EthWithdrawalProofs`, `TokenWithdrawalProofs`, `TokenSweepProofs`, `EthDepositProofs`, `TokenDepositProofs`, `BtcDepositProofs`, `BtcCustodyProofs` | the theorems about the module each is named after |
| `Sums`, `SumsProofs` | the sum of a function over `1 .. n`, by a recursive function, and the lemmas the proofs need of it |
| `TokenWithdrawal` | token withdrawals: handler, worker, transactions, the hot wallet's chain, and the top-ups that share its nonces |
| `TokenSweep`, `MCTokenSweep` | the credit of token deposits, the gas station and the sweep worker over one address, and its deposits for TLC |
| `EthDeposit`, `MCEthDeposit` | the scanner of ETH deposits, and its amounts for TLC |
| `RpcClient` | the EVM RPC client: the steps of one call, and what other goroutines' calls do to it |
| `TokenDeposit`, `MCTokenDeposit` | the scanner of ERC20 deposits, composed with `RpcClient`, and its amounts for TLC |
| `BtcDeposit`, `MCBtcDeposit` | the scanner of Bitcoin deposits with its rewind, and its amounts for TLC |
| `BtcCustody`, `MCBtcCustody` | Bitcoin sweeps and withdrawals over one pool of outputs, and its two deposits for TLC |

### Conventions

- **A step is one database transaction or one RPC call**, with what the code computes from it before
  the next call. A function of the code with several calls is several actions, linked by
  the step (`at`) of its worker; what a worker read before and uses afterwards is kept in
  the worker's record and nowhere else. Two calls are joined only where what the first
  read cannot change before the second, and then the comment of the action says so.
- **A failed call or a dead process** is one action that puts the worker back to rest and keeps the
  database: that is what both do, since a worker starts from the rows at its next tick. An RPC
  call that had its effect though its reply was lost is a disjunct of its own (`replied`).
- **Definitions ending in `Bug`** are mutants: each stands before the definition it changes as a plausible
  bug would; no specification uses them. Every property of a passing run is violated when the mutant
  `PROJECT.json` names takes the place of its definition.
- **One user.** A transaction of the EVM side locks rows of one user, and the users' addresses
  and nonces are their own. On the Bitcoin side balances of users never meet, and the outputs, which do, are
  one pool: one user may stand for all. The hot wallet pays all users, and a second key stands for a second user there.
- Amounts are small integers; the database's `NUMERIC(78,0)` and Go's `big.Int` do not overflow.
  An amount in a request also stands for the target address: the code compares both together.
- One instance of the service runs (the code takes no lease on rows), so only a worker's goroutine
  writes the rows it processes.

### Payout and Crediting

`Payout` has, per withdrawal, a hold, what the chain took and a phase. `Close` is the point of it: the account
gets back `hold - taken`, and no action changes `taken` of a closed withdrawal, so a
withdrawal that is released cannot have been paid, and one that is settled cannot be paid again or be
undone. `EthWithdrawal` maps `hold` to what `HoldsMatch` sums, `taken` to the fee and amount of the
receipt on the chain, `phase` to the status; `TokenWithdrawal` does the same with token units, gas
being the platform's. The chain's actions map to `Take` and `Undo`, a reservation to `Open`, a
fee increase to `Raise`, a release or settlement to `Close`, everything else to stuttering.

`Crediting` has the two balances and a phase per deposit. Its `irreversible` set is the chain's, and only grows; a deposit
is credited from it, once. The scanners map `phase` to the status of the row (no row: `absent`) and
`irreversible` to the deposits in blocks with enough confirmations. A batch maps to `Observe`, a rewind to
`Forget`, the growth of the chain to `Settle`.

### EthWithdrawal

| Variables | Code |
|---|---|
| `available`, `pendingWithdrawal`, `journal` | the user's ETH row of `asset_balances`, and `balance_entries` |
| `status`, `amount`, `reservedFee`, `nonce`, `rawTx`, `actualFee` | `withdrawals`, a row per idempotency key |
| `nextNonce`, `sweepNonce` | `wallet_addresses.next_nonce`, `token_sweeps.nonce` |
| `mempool`, `receipts`, `accountNonce`, `buried`, `onChain` | the chain; `buried` nonces have enough confirmations |
| `worker`, `handlers`, `acked` | what the goroutines have in memory; the success replies (history) |

`SubmitExisting`/`SubmitNew`/`Reserve`/`ReserveExisting`/`Reject` are `Service.Create` and
`ReserveWithdrawal`. `Pick` is the dispatch of `Process`. `RaiseFee`, `CannotRaiseFee`, `CheckFunds`, `Allocate`,
`Save`, `Release` are `prepare` and `sign`. `FoundBeforeSend`, `BeginSend`, `Send`, `SendRefused`, `MarkUnknown`,
`Acknowledge` are `broadcast` and `ensureBroadcasted`. `Confirm`, `NotMined`, `UpdateConfirmations`, `Finalize` are
`confirm` and `confirmReceipt`. `Mine`, `Bury`, `Reorg`, `Evict` are the chain. `SweepAllocate` and
`SweepBroadcast` stand for the gas station and the sweep worker.

`PendingNonces` is the set of answers an endpoint may give: the nonces mined and pending without a gap, or fewer.
The constant `Faults` names the faults of the chain: `reorg` replaces blocks that do not yet have
enough confirmations, `evict` drops pending transactions, `deepReorg` lets confirmations be counted for a
receipt that is gone, because the receipt and the newest height are two calls. `PayoutSpec` and `LedgerBacked` assume
that the last does not happen; the other safety properties do not.

### TokenWithdrawal

`available`, `pendingWithdrawal`, `journal` are the user's token balance and its entries; `status`, `amount`, `nonce`,
`rawTx` the columns of `token_withdrawals` for the first rows and of `internal_transfers` for the top-ups;
`nextNonce` is `platform_wallets.next_nonce`, which both draw from. `tokens` is the hot wallet's balance on the chain.
`Create` is `Service.Create` with `ReserveTokenWithdrawal`. `Prepare` and `Allocate` are `prepare`,
between whose calls the gas station may allocate; `Sign` is `sign`, which checks the wallet again; `Found`, `Send`, `MarkSent` are
`broadcast`; `Confirm`, `UpdateConfirmations`, `Settle` are `confirm` and `confirmReceipt`. `CreateTopup`, `SignTopup`,
`SendTopup` are the gas station, whose other half is in `TokenSweep`, and `Arrive` is the sweep that the top-up paid
for. The worker acts from the status of a row alone, so there is no step that picks it.

### TokenSweep

`status` holds the column of `token_sweeps` (`"sweep"`) and of `internal_transfers` (`"topup"`), a top-up being known by
the sweep it is for; `recognized`, `swept`, `topup`, `rawTx` are their other columns; `credited`, `pendingDeposit` and
`available` are the deposits' side of it. `gas`, `tokens` and `userEth` are the chain: the ETH and the tokens of the
address, and how much of that ETH is the user's. `Credit` is `CreditTokenDeposit`. `Prepare`, `MarkGasReady`, `CreateTopup`, `SignTopup`
are the gas station, `PrepareSweep`, `FailWaiting`, `Allocate`, `SignSweep` the sweep worker; `Broadcast` (`Found`, `Send`, `MarkSent`) is
written alike in both and is one operator with the kind of the row as parameter, and so are `Confirm` and `UpdateConfirmations`.
`EventFound` is the lookup of the `Transfer` event in a sweep's receipt, which may fail (see below).
`Withdraw` takes the user's ETH from the address.
Of the chain only replaced blocks and lagging token balances are faults here; nonces, dropped
transactions and a block replaced between the reads of a receipt and of the height are those of `EthWithdrawal`.

### EthDeposit

`chain` is the sequence of blocks from the scan's start block, with fresh hashes; `final` counts the blocks with `Confirmations`, which are
not replaced; `status`, `seenAt`, `seenHash` are `deposits`; `scanned` is `chain_checkpoints`: its length the height, its last element the hash (the elements before are
history). `Begin` reads the newest height, from an endpoint that may lag, and the checkpoint;
`Read` and `Record` are `scanBlock`; `List`, `Wait`, `Verify`, `Credit` are `confirmPending`. `SaveTopup` is the gas
station's `SaveSignedInternalTransfer`: only then may the top-up appear on the chain. The users and their addresses
are created before the scanner starts (`BootstrapDemoUsers`), so the address index is a constant.

### RpcClient and TokenDeposit

`RpcClient` is `invoke`: `call` is the list of endpoints a call still has to try, the attempt at the first of them, and whether
`validateEndpoint` let it pass. `Validated` and `Rejected` are the probe, `MarkSuccess` an answer, `Fail` an
attempt that failed; the classification of errors (`Retryable`, `IsLogRangeTooLarge`) is that of `retryable` and of the log-range errors.
`OtherCall` is what the calls of other goroutines do meanwhile: they move `active`. `foreign` are the endpoints of another chain.

`TokenDeposit` extends it: every attempt of every call of the scanner is a step, and an answer comes from the endpoint
that was asked, which may not know the newest block (`behind`). `StartRange`, `LogsRead`, `SplitRange`, `Record` are `runOnce`
and `scanRange`, with the ranges left to scan as the recursion's stack; `List`, `Wait`, `Verify`, `Credit`, `Stop` are
`confirmPending`. `scanned` has the checkpoint as its length and, as history, the hash of each block
whose logs were read, or `Unread`. A deposit is a log, known by transaction hash and log index: a transfer that is mined
again at another log index is another deposit to the code, and here. That `eth_getLogs`, asked past an endpoint's newest block, answers with what
it has is an assumption about the endpoints, and the one the run `token_deposit_skips` rests on.

### BtcDeposit

A block's hash is its height with the number of replacements before it. `Begin`, `Compare`, `Rewind` or `RewindRefused`, `Scan`
for each block, `List`, and `Wait`, `Credit` or `Mismatch` for each deposit are `RunOnce`; `Rewind` is
`RewindBTCCheckpoint`. `Replace(k)` gives the newest `k` blocks, none of them final, for `k + 1` new ones with any of their
transactions. `torn` is history: a block was recorded whose parent is not the checkpoint's block, which the scanner does not compare
within a batch. What becomes of `btc_utxos` after the credit is in `BtcCustody`.

### BtcCustody

The deposits are recorded and mined in `Init`; `Credit` is `CreditBTCDeposit`, which opens a sweep.
`utxo` and `lockedBy` are the columns of `btc_utxos`; the outputs are those of the deposits and of
their sweeps (the change of a withdrawal is never recorded by the code). `status`, `amount`, `inputs` are
`btc_withdrawals`, `inputs` being what `raw_tx` spends; `mempool`, `mined`, `buried` are the node.
The fees are the code's three formulas, which differ from each other: `SweepFee`, `SelectFee` (one output), `BuildFee`
(two outputs), so a selection can succeed and the build fail, as in the code.
`SelectUTXOs` is stated as what the greedy search of `select.go` returns: of the sets it accepts, one with the
smallest excess. `Acceptable` is `testmempoolaccept`, `Sendable` is `sendrawtransaction`; they differ on what the node has already,
which is what the run `btc_double_pay` turns on.
Only a worker writes the statuses of its rows, so its steps are taken from the status directly, without a
step that picks the row.

## 3. The runs

| Run | Configuration | What it asks |
|---|---|---|
| `eth_withdrawal` | `EthWithdrawal.cfg`: 2 keys, 1 request at a time, amount 2, fees 1 to 3, balance 6, blocks replaced, transactions dropped | ledger, journal, chain agree; the withdrawals implement `Payout` |
| `eth_withdrawal_shared` | `MCEthWithdrawal.cfg`: 2 keys, 2 racing requests of different amounts, a sweep, lagging endpoints, blocks replaced, also deep | replies are honoured; withdrawals and sweep never share a nonce |
| `eth_withdrawal_live` | `EthWithdrawalLive.cfg`: 2 keys, fees 1 and 2, no sweep, no faults of the chain; fairness | every accepted withdrawal ends, unless a released one left a nonce gap |
| `token_withdrawal` | `MCTokenWithdrawal.cfg`: 2 withdrawals of 1 or 2 units, balance 3, hot wallet 2, one top-up whose sweep brings 1, blocks replaced, lagging endpoints; fairness | books, nonces, retries; `Payout`; withdrawals end |
| `token_sweep` | `MCTokenSweep.cfg`: 2 deposits of 1 unit, fees 1 and 2, margin 50 %, top-ups up to 2, 1 ETH of the user, blocks replaced, balances that lag; fairness | every unit is in one sweep, sent once, after its gas; sweeps end |
| `eth_deposit` | `MCEthDeposit.cfg`: 2 deposits, 1 top-up, 2 confirmations, batches of 2, up to 4 blocks, 5 ever made; fairness | `Crediting`; no block skipped; deposits are credited |
| `token_deposit` | `MCTokenDeposit.cfg`: 2 endpoints, 2 attempts, 1 deposit, 2 confirmations, ranges of 3, up to 3 blocks, 1 replacement; fairness | `Crediting` through the RPC client; no read block skipped; credited though one endpoint fails for ever |
| `token_deposit_skips` (violation) | `TokenDepositSkips.cfg`: as above, 1 attempt, no replacement | a block is passed unread |
| `btc_deposit` | `MCBtcDeposit.cfg`: 2 deposits, 3 confirmations, batches of 2, up to 5 blocks, 1 replacement; fairness | `Crediting` over rewinds; rows follow the chain; credited unless halted |
| `btc_deposit_halts` (violation) | `BtcDepositHalts.cfg`: 1 deposit, 2 confirmations, up to 4 blocks; fairness | a rewind that is refused for ever |
| `btc_custody` | `MCBtcCustody.cfg`: 2 deposits (1000 and 620 sat), 2 withdrawals of 500 sat at 1 sat/vB, blocks replaced, transactions dropped | books, locks, completions, retries |
| `btc_double_pay` (violation) | `BtcDoublePay.cfg`: as above, a chain without faults | a released withdrawal is paid |

**Why the bounds are enough for the interesting cases.** *ETH withdrawals*: two withdrawals are what it takes for one
to fail and leave a nonce unused in front of the other, to share a balance that does not cover both, and to
reorder in the pool; balances are chosen so that two reservations fit and a raised fee may not; three fees let a fee rise twice, which one
journal entry must add up. In the run with a sweep two handlers race for each of two keys, and both withdrawals can be live while the
sweep takes a nonce from its own table, so each kind draws before, between and after the other. Fees of withdrawals are 0 units
there, as neither replies nor nonces depend on them; a second sweep draws as the first does, and `NoncesExclusive` is proved for any number. The number of retries is unbounded: every failure can be repeated, as states
recur. *Token withdrawals*: the user's balance covers both, the hot wallet one and, once the sweep arrived, both; the
top-up draws from the same nonces at any moment in between, and whoever is later waits for the other on the chain.
*Token sweeps*: the second deposit joins the sweep of the first at every
moment of its life, opens one of its own after it, or is left to a successor; each sweep has a unit at least, so there are never more than two;
the address has enough ETH, too little, or has it withdrawn after the top-up, and the dearer estimate
is above the limit of a top-up. *ETH deposits*: a block can be replaced by one with other
deposits before, during and after its scan, the same deposit can move to another block, the batch is smaller than the chain, and a deposit below and
one above the confirmation threshold are listed together. *ERC20 deposits*: a range of three blocks is halved, and one
half of it again; a call is tried twice at each endpoint; at most one endpoint is behind, by one block, which is what it takes
for two calls of a range to disagree. *Bitcoin deposits*: a branch of up to two blocks below the final height gives way to a longer one, with
the deposits in other blocks or in none, before, within and after a batch, and the rewind goes back further than the replacement; the
window of a rewind holds a pending and a credited deposit. *Bitcoin custody*: the first deposit pays any withdrawal, also after its sweep; the second is
selected for its small excess and then is too small for the transaction, so that `BUILD_FAILED` occurs; two withdrawals
compete for each output and for the outputs of the treasury. `MaxHeight`, `MaxBlocks` and `MaxForks` are the only guards that exist for
the sake of boundedness.

**Deadlock** is checked in the runs of `EthWithdrawal`, in which a client may always repeat a request. It is not in the
other modules: `BtcCustody` stops when every withdrawal is completed and every transaction buried, `TokenSweep` and `TokenWithdrawal` when every row
has ended, and the deposit scanners have an idle loop that would make the check say nothing.

**Fairness.** All fair specifications follow one pattern: the workers take up their rows at every tick (`Run` is a loop over a
ticker), the chain mines what it can where that is needed, and from some point on a worker's steps are healthy ones. Calls
fail, replies get lost, endpoints lag and processes restart finitely often. Without that no progress can be
promised, as every call could fail for ever; it is stated in the formulas (`<>[][...]_vars`). Each progress property then excludes by
name the states of its module from which the code does not go on; what a module leaves out, such as the nonce gaps and the dropped transactions of
`EthWithdrawal` in `TokenSweep`, can stop a row too and is no part of its claim.

- `EthWithdrawal!FairSpec`: `Pick` is strongly fair for each row, oldest first in the code, and the worker goes on with its steps; nodes
  mine. `SettlesUnlessGap` excludes `Gap`, a released withdrawal that had its nonce. It is claimed without sweeps and evictions, and for
  fewer than the 100 live rows one tick takes up.
- `TokenWithdrawal!FairSpec`: strongly fair for each row. `WithdrawalsEnd` excludes `Waits`: the hot wallet stays too short for the row, or for another
  that has its nonce already and holds back all that come later.
- `TokenSweep!FairSpec` is fair to each worker as a whole, one live sweep
  per address being all it has to do here; an estimate within the limit of a top-up is met now and then. `SweepsEnd` excludes `Starved`: the
  gas station is done with a sweep, and then a fee that rose or the user's withdrawal
  leaves too little ETH for it. Nothing in the code tops up again, and the sweep waits until ETH arrives from elsewhere.
- `EthDeposit!FairSpec`: the scanner only; nothing is assumed of the chain. `EveryDepositCredited` is claimed as long as no block was
  replaced (the requirements leave replaced blocks to a later
  phase: `001-evm-wallet/requirements.md:153`; the scanner then stops, or conflicts at each retry).
- `TokenDeposit!FairSpec`: one endpoint of the right chain is `Steady`, that is, it answers at every attempt; the other may time out, be of another chain
  or fail its probe for ever, but does not refuse connections, for a refusal is returned and not retried (see below). Endpoints catch up.
  `EveryDepositCredited` also excludes a block passed unread.
- `BtcDeposit!FairSpec`: the scanner only. `CreditedUnlessHalted` excludes a batch `torn` by a replacement, and `Halted`, the refused rewind.

## 4. What the violations show

1. **A released Bitcoin withdrawal is paid** (`btc_double_pay`, `btc/withdrawal_worker.go:138`). A restart after the send and before the
   write of its outcome leaves the row `SIGNED`; `testmempoolaccept` then refuses what the node already has, and
   the row is failed, its amount and inputs given back.
2. **A replaced block stops the Bitcoin scanner for ever** (`btc_deposit_halts`, `store/postgres/bitcoin.go:171`). The rewind goes back `confirmations` blocks, and
   is refused when a credited deposit is above the height it goes back to. A deposit is credited as soon as it has
   `confirmations`, and then is within that window, also when only the newest block was replaced and the deposit's own
   stays. Every later pass meets the same checkpoint.
3. **A block is passed unread** (`token_deposit_skips`, `token/deposit/scanner.go:226`). The newest height and the header of a range come from one endpoint, its logs
   from the other, which does not know the last block yet. The checkpoint moves past it, and its deposits are never recorded.

### Further differences

Differences between documents and code, or between what one part of the code does and another relies on, met while
modelling, to which no run is devoted. Where a property is about one of them, it excludes it by name.

- *ETH withdrawals.* A row that is released while it is `SIGNING` leaves its nonce unused, and every later withdrawal of the
  user waits behind the gap (`withdrawal/worker.go:176`). A fee increase updates its
  journal entry in place though `001-evm-wallet/design.md:275` says entries are only appended. A transaction dropped by
  every node is never sent again: `confirm` only asks for its receipt.
- *Gas station and token sweeps.* The gas station tops an address up by the difference between the gas needed and the ETH found
  there, which is the user's (`token/gasstation/worker.go:194`), so sweeps spend it. A deposit that joins a live sweep after that
  is signed is left to a successor only when the sweep succeeds (`token_sweep_transaction.go:281`): if it reverts, those tokens have no
  sweep, until another deposit opens one, which does not recognise them either. A failed lookup, of the database for
  example, while the receipt's event is compared fails the sweep as `HOT_WALLET_CREDIT_MISSING`
  (`token/sweep/worker.go:391`), though the tokens arrived.
- *Token withdrawals.* A row that has its nonce when the hot wallet falls short waits with it, and holds back every later
  transaction of the wallet (`token/withdrawal/worker.go:166`).
- *Bitcoin.* A sweep never locks its output; when it fails, it unlocks the output for whoever holds it (`bitcoin.go:86`), and
  an output may be signed twice. The output of a completed sweep stays `UNSPENT` (`bitcoin.go:109`, whose comment
  says it is marked spent). Completing a withdrawal marks every output it ever locked as spent, also those a crash made it lock and not
  use (`bitcoin_withdrawal_worker.go:142`). The change of a withdrawal goes to an address the scanner does not watch, and is not recorded. The selection
  counts one output for the fee and the builder two. An unfunded withdrawal stays `CREATED`, and so does a
  sweep that would leave dust. A transaction mined while its row is `BROADCAST_UNKNOWN` is
  sent, and refused, for ever. Completing or failing a withdrawal writes no journal entry.
- *RPC client.* A refused connection is not retried (`chain/evm/client.go:428`, `:612`), so a call whose active endpoint is down is
  not moved to the other one, nor is any later call, until the process restarts.
- *Application.* A changed block hash stops the whole application, not only the scanner (`app.go:388`). When the HTTP server does
  not shut down in time, or a component reports an error during the shutdown, `Run` returns without waiting for the others (`app.go:393`, `:409`, `:414`), and
  closes the database pool under them: an interruption like any other to the rows.

## 5. What is proved

Every safety invariant the passing runs check, and both refinements in every module that has one, hold for all values of the
constants: any number of rows, requests, deposits, blocks, endpoints and attempts, any amounts and fees, any batch size and number of
confirmations. The bounds of the runs (`MaxHeight`, `MaxForks`, ...) are constants like the others, so the theorems hold for each of them. What is
assumed is the `ASSUME` of each module, which says that its constants have their types and, where the code or its
configuration demands it, are positive: `ConstantsAssumption` (`EthWithdrawal`), `TokenWithdrawalConstants`, `SweepConstantsAssumption`,
`DepositConstantsAssumption` (`EthDeposit`), `RpcClientConstantsAssumption`, `TokenDepositConstantsAssumption`, `BtcDepositConstantsAssumption` and
`BtcConstantsAssumption` (`BtcCustody`). Further hypotheses are in the table.

| Theorem | |
|---|---|
| `Inductive`, in all seven modules | `Spec => [](TypeOK /\ IndInv)`, the inductive invariant |
| `TypeCorrect`, in all seven modules | `Spec => []TypeOK`: in particular no balance becomes negative |
| *`EthWithdrawalProofs`* | |
| `NoncesExclusive` | no two withdrawals or sweeps of the address share a nonce |
| `RecordedBeforeSent` | what a node has is in `raw_tx`; a row that ended without a receipt has sent nothing |
| `PaidAtMostOnce` | a key is paid at most once, with the reserved amount |
| `FeesHeld` | the signed fee never exceeds the hold |
| `SameBytes` | `raw_tx`, once written, never changes |
| `HoldsAlwaysMatch` | the pending balance is the sum of the holds |
| `SettledStays` | `BlocksStay`: the receipt a row was settled by stays on the chain |
| `ImplementsPayout` | `BlocksStay`: `Spec => PayoutSpec`, the refinement |
| `AlwaysBacked` | `BlocksStay`, `NoSweeps`: what the ledger owes is on the address |
| `RepliesHonoured` | a success reply is of a row with the amount asked for |
| `JournalAlwaysExplains` | the journal explains every row |
| `NoneReopened` | a settled or released row keeps its status, amount, fees and nonce |
| *`TokenWithdrawalProofs`* | |
| `NoncesExclusive`, `SameBytes` | as above, for withdrawals and top-ups of the hot wallet |
| `RecordedBeforeSent` | what a node has of a row is the one transaction in its `raw_tx` |
| `NoneReopened` | a row that ended keeps its status, amount, nonce and bytes |
| `BooksAlwaysAgree` | pending is what the live rows hold, and the journal explains the available balance |
| `ImplementsPayout` | `Spec => PayoutSpec` |
| *`TokenSweepProofs`* | |
| `UnitsRecognizedOnce` | every credited unit is delivered by one completed sweep or recognised by one other |
| `CompletedAreDelivered` | a completed sweep has its transfer, of its amount, in a block that stays |
| `RecordedBeforeSent`, `GasArrivesFirst` | the network has what was stored; a sweep follows its buried top-up |
| `SameBytes` | `raw_tx` of a sweep or a top-up, once written, never changes |
| `NoneReopened` | a sweep or a top-up that ended stays so, with what it recognised and swept |
| *`EthDepositProofs`* | |
| `NoDepositSkipped` | the checkpoint passes a block only with all of its deposits |
| `NoTopupCredited` | a top-up is never credited |
| `ImplementsCrediting` | `Spec => CreditingSpec`, the refinement |
| *`TokenDepositProofs`* | |
| `NoDepositSkipped` | a block whose logs were read is passed only with all of its deposits |
| `AloneSkipsNothing` | one endpoint: until a block is replaced, the checkpoint passes no block with an unrecorded deposit |
| `ImplementsCrediting` | `Spec => CreditingSpec` |
| *`BtcDepositProofs`* | |
| `RowsAlwaysFollow` | the rows are what the chain pays up to the checkpoint |
| `ImplementsCrediting` | `Spec => CreditingSpec` |
| *`BtcCustodyProofs`* | |
| `BooksAlwaysAgree` | no satoshi is made or lost in the books |
| `CompletedWhenBuried` | completions, and the outputs offered from the treasury, rest on buried transactions |
| `RecordedBeforeSent`, `LocksAlwaysLive` | the node has what the row's columns give; a lock does not outlive its withdrawal |
| `NoneReopened` | a withdrawal or a sweep that ended is not reopened, nor ended the other way |
| `ReleasedIsUnpaid` | `[][~ MarkLost]_vars`: a released withdrawal is never paid |

`BlocksStay` says that `deepReorg` is not among the faults, `NoSweeps` that no token sweep sends from the address. Both
are needed: a block that is replaced after its confirmations were counted undoes what was settled, and a sweep spends ETH the ledger does not know of. `MarkLost` is one step, below under
*Bitcoin custody*.

### How the proofs go

No property of the table is inductive alone. Each module states its `IndInv` as a conjunction of named parts, which TLC checked together
with `TypeOK` before they were proved; a lemma `Next...` proves that every step keeps one part. `StepCases` splits `Next` once for all of
them, and an effect lemma per action (`Recorded`, `Rewound`, `Selected`, ...) says in one place what the action does.

Sums over rows are a recursive function, of which only what its defining equation gives is used. `SumsProofs` derives that it exists (`RunningExists`), what
a change of one summand does (`TotalUpdate`), that it is additive, over disjoint sets too (`TotalPlus`, `SumOverUnion`), and that `k` positive summands
add up to `k` at least (`TotalCount`). The inductions are over the least counterexample (`LeastNat`).

*ETH withdrawals.* That a node's transaction is recorded depends on what the worker has in
hand, which depends on the status it read; that a withdrawal is paid once depends on its only transaction having one nonce, and
a nonce being mined once. The parts of `IndInv` say exactly that:

- `RowShape`: what each status says of the row (the nonce comes with `SIGNING`, `raw_tx` with `SIGNED`, it is the row's own and within the fee held);
- `WorkerShape`: the statuses of its row in which the worker is at each of its steps, that its quote is held and its receipt is of the row's transaction;
- `NonceExclusive` and `NoncesBelow`: nonces are distinct and below `next_nonce`, whatever the endpoints answer;
- `ChainShape`: every transaction a node has was stored in a row that had turned `BROADCASTING`, or is a sweep's; receipts have different nonces.

`HoldsMatch` is a sum over all rows: `OneHold` shows that a step changes the hold of at most one
row by what it moves in the balance, and `TotalUpdate` carries that to the sum. For the refinement, `IndInv` gives a row at most one
receipt (`RowReceipts`), so `Taken` is what that receipt says. A closed row with a
receipt was settled by it, and its nonce is buried then (`SettledIsBuried`, which `SettledNext` shows to stay when `BlocksStay`); a
released row has no transaction at all (`TakenUnsigned`). Hence a transaction that is mined belongs to an open
row from which nothing was taken (`MinedOnce`), and a receipt that is undone to an open row
(`UndoneInTime`). `RowStepKinds` sorts the steps of requests and of the worker into those that open, raise or close one row and those that
change none, and `PayoutOpen` to `PayoutReorg` map each kind, and the chain's steps, to an action of `Payout` or to
stuttering. `AlwaysBacked` follows the same split (`OneUnsettled`). `JournalShape` adds to `JournalExplains` what makes it inductive: amounts are
positive, which tells a release from none, and closing entries come only with a final status.

*Token withdrawals.* The same parts, and the same refinement. The receipt of a settled row being buried is part of `IndInv` here
(`SettledShape`), as the chain of this module does not replace buried blocks. The user's books do not see
top-ups, which share the nonces and the chain with the withdrawals and so are rows of the invariant like them.

*Token sweeps.* `RowShape` orders the rows, one live at most, each with a unit at least; by `TotalCount` there are then no more rows
than units, and there is always one left for a successor (`RoomToCredit`, `RoomToSucceed`). `RecognizedOnce` is a sum over the rows too, to which a credit and a
success add a unit in one row or move it to the next. `UpdateConfirmations` does not look at the status it overwrites:
`WorkerShape` shows why it need not, as a worker about to settle is the only one to move its row. `GasShape` and `TopupShape` say that a sweep
which needed a top-up leaves `WAITING_GAS` only after that is buried, and fails with it.

*ETH deposits.* A deposit is tied to its block by the hash in its row (`RowShape`), and the block in the scanner's hand is the one of that hash on
the chain, if there is one (`ScannerShape`). `HeightsShape` bounds the height the scanner counts from, which may be older than the chain
it then asks: what had enough confirmations then is still in the prefix that stays. A batch is an `Observe` of `Crediting`, a
longer chain a `Settle`, a replacement stutters.

*ERC20 deposits.* Two parts more. `RangeShape`: the ranges left follow each other from the checkpoint on, through every split
(`Halved`, `Split`), which is why the end of a range may become the checkpoint. `BlocksShape`: the blocks whose logs are in hand are those of the range, and one that is still on
the chain is there as it was read. `CheckShape` carries the count of
confirmations over the call that asks for the header. The client's part is `Sound`: a call holds endpoints to try and has passed only
with one of the right chain in front, through attempts, probes and failover, so the endpoint that `MarkSuccess` makes the active one is of that chain.

`AloneSkipsNothing` is the positive side of the run `token_deposit_skips`, which needs a second endpoint that lags. With `NumEndpoints = 1`,
that is with no `SEPOLIA_RPC_FALLBACK_URL` (which is optional), the height a range ends at is one the only endpoint answered,
and that height does not fall while no block is replaced: the endpoint has every block of the range when it is asked for the logs (`AloneShape`). With a
fallback, or after a replacement, only `NoneSkipped` is left, which speaks of the blocks whose logs were read.

*Bitcoin deposits.* `FollowShape` is the strengthening: below the confirmation window the rows follow the chain whatever happens, for nothing is replaced there;
up to the checkpoint they do while its block is on the chain (`~ torn` leaves out that a block was recorded that is not the child of the checkpoint, which the code does not notice). A rewind cuts back to where they
follow (`RewindFollows`), a scan extends it by a block (`ScanFollows`). In the refinement a rewind is a `Forget`, of pending rows only, since it is refused when one
is credited.

*Bitcoin custody.* `WorkersShape` says in which statuses of its row each worker is at each of its steps, `SentShape` that the node's transactions are of rows that are
signed and keep their inputs. `LocksAreLive` then needs that completing a withdrawal deals with every output it ever locked, also after a crash
between two selections (`Held`); `CompletedIsBuried` needs that a buried transaction stays (`BuriedGrows`). `CompleteBTCWithdrawal` overwrites the status of
a row without looking at it, as `UpdateConfirmations` does elsewhere: the workers' part of the invariant is why `NoneReopened` holds all the same.

`ReleasedIsUnpaid` is the positive side of the run `btc_double_pay`. `MarkLost` is the step that run needs: the worker stops, or fails to write
`BROADCASTED` or `BROADCAST_UNKNOWN`, after the node took the transaction. Without it, what the node has of a row that is still `SIGNED` is about to be
marked by the worker at hand (`MarkPending`, the strengthening), so a row that `FailBTCWithdrawal` gives back was never sent, over all
other crashes, refused sends, evictions and replaced blocks.

### Only model-checked

Progress (`SettlesUnlessGap`, `WithdrawalsEnd`, `SweepsEnd`, `EveryDepositCredited`, `CreditedUnlessHalted`), since the prover has no rules for
fairness here. The three violations are counterexamples, which only TLC gives.

## 6. Not modelled

- *PostgreSQL reads and bootstrap*: the lists the workers iterate over are guards of their actions; the pages for the API and the
  inserts of the first start are left out. Migrations apply schema files once; their tables are the modules' variables.
- *HTTP API*: decoding and rendering, without state; the services it calls are actions (`Submit...`, `Create`).
- *Application assembly*: it starts the goroutines and stops all of them when one returns; to a row that is an interruption, which every module has.
- *Bitcoin RPC client*: one request, one reply, no state; its calls are the external steps of the Bitcoin modules.
- *ERC20 contract calls*: encoding and decoding; the log filter and its answers are in `TokenDeposit`.
- *Keys, signatures, decimal conversion, configuration, logging, preflight checks, health reports, frontend*: no custody state. A
  signature is a fact of the signed transaction, and integers have no fixed width in this code.
- Within the modelled parts: the hot wallet's ETH, several tokens, several instances of the service, the text of errors, the length of delays.

## 7. Plan

Every component that keeps custody state is modelled, and every safety property of the runs is proved, as are the conditions under which the claims behind
`token_deposit_skips` and `btc_double_pay` are true. What remains:

1. `SelectUTXOs` as the search of the code, against its definition by sets in `BtcCustody`.
2. The positive side of `btc_deposit_halts`: which replaced blocks a rewind passes.
3. `AlwaysBacked` for the hot wallet's tokens: what `TokenWithdrawal` owes is what deposits and sweeps delivered, which needs the two modules composed.
