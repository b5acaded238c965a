----------------------- MODULE TokenWithdrawalProofs -----------------------
(***************************************************************************)
(* Theorems about TokenWithdrawal for every number of withdrawals and      *)
(* top-ups, every set of amounts, and endpoints and blocks as bad as       *)
(* Faults allows: the nonces of the hot wallet, what was sent, the books   *)
(* of the user, and that the withdrawals implement Payout.                 *)
(***************************************************************************)
EXTENDS TokenWithdrawal, SumsProofs

USE DEF At, Idle, Resting, Turn, Covers, Unallocated, Awaited, EnoughConfirmations

(* Withdrawals and top-ups are rows, and None is no nonce. *)
LEMMA Rows ==
  /\ Withdrawal \subseteq Row /\ Topup \subseteq Row /\ Withdrawal \intersect Topup = {}
  /\ Withdrawal = 1 .. NumWithdrawals /\ NumWithdrawals \in Nat /\ 1 \in Row
  /\ None \notin Nat
BY TokenWithdrawalConstants DEF Row, Withdrawal, Topup, None

LEMMA Chosen ==
  ASSUME TypeOK, NEW seen \in PendingNonces
  PROVE  ChosenNonce(seen) \in Nat /\ ChosenNonce(seen) >= nextNonce
BY DEF TypeOK, ChosenNonce, Larger, PendingNonces

(* The steps of Next by name: a step proof has one case for each. *)
LEMMA StepCases ==
  ASSUME [Next]_vars, NEW ACTION Case,
    \A w \in Withdrawal, units \in Amount : Create(w, units) => Case,
    \A w \in Withdrawal : Prepare(w) => Case,
    \A w \in Withdrawal, seen \in PendingNonces : Allocate(w, seen) => Case,
    \A w \in Withdrawal : Sign(w) => Case,
    \A w \in Withdrawal, c \in receipts : Found(w, c) => Case,
    \A w \in Withdrawal, c \in receipts : Confirm(w, c) => Case,
    \A w \in Withdrawal : \A t \in rawTx[w], b \in BOOLEAN : Send(w, t, b) => Case,
    \A w \in Withdrawal : MarkSent(w) => Case,
    \A w \in Withdrawal : UpdateConfirmations(w) => Case,
    \A w \in Withdrawal, c \in worker.receipt : Settle(w, c) => Case,
    Interrupt => Case,
    \A s \in Topup, seen \in PendingNonces : CreateTopup(s, seen) => Case,
    \A s \in Topup : SignTopup(s) => Case,
    \A s \in Topup : \A t \in rawTx[s] : SendTopup(s, t) => Case,
    \A s \in Topup : Arrive(s) => Case,
    \A t \in mempool, ok \in BOOLEAN : Mine(t, ok) => Case,
    Bury => Case,
    \A c \in receipts : Reorg(c) => Case,
    UNCHANGED vars => Case
  PROVE Case
<1>1. CASE \E w \in Withdrawal : WorkerStep(w)
  BY <1>1 DEF WorkerStep
<1>2. CASE \E s \in Topup : TopupStep(s)
  BY <1>2 DEF TopupStep
<1> QED BY <1>1, <1>2 DEF Next, MineAny

-----------------------------------------------------------------------------
(***************************************************************************)
(* Type correctness.                                                       *)
(***************************************************************************)
LEMMA InitType == Init => TypeOK
BY Rows, TokenWithdrawalConstants DEF Init, TypeOK, Status

LEMMA NextType == TypeOK /\ [Next]_vars => TypeOK'
<1> SUFFICES ASSUME TypeOK, [Next]_vars PROVE TypeOK'
  OBVIOUS
<1> USE Rows, TokenWithdrawalConstants DEF TypeOK, ledger, rows, chain
<1>1. ASSUME NEW w \in Withdrawal, NEW units \in Amount, Create(w, units) PROVE TypeOK'
  <2>1. /\ units \in Nat /\ available >= units
        /\ available' = available - units /\ pendingWithdrawal' = pendingWithdrawal + units
    BY <1>1 DEF Create, ReserveTokenWithdrawal
  <2>2. amount' \in [Row -> Nat] /\ status' \in [Row -> Status]
    BY <1>1, <2>1 DEF Create, ReserveTokenWithdrawal, Status, Processable
  <2>3. journal' \in [Withdrawal -> [Entry -> Int]]
    BY <1>1, <2>1, SMTT(40) DEF Create, ReserveTokenWithdrawal, Entry
  <2> QED BY <1>1, <2>1, <2>2, <2>3, SMTT(40) DEF Create
<1>2. ASSUME NEW w \in Withdrawal, Prepare(w) PROVE TypeOK'
  BY <1>2 DEF Prepare
<1>3. ASSUME NEW w \in Withdrawal, NEW seen \in PendingNonces, Allocate(w, seen) PROVE TypeOK'
  <2>1. ChosenNonce(seen) \in Nat
    BY Chosen
  <2>2. nonce' \in [Row -> Nat \union {None}] /\ nextNonce' \in Nat
    BY <1>3, <2>1 DEF Allocate, GiveNonce
  <2>3. status' \in [Row -> Status]
    BY <1>3 DEF Allocate, GiveNonce, Status, Processable
  <2> QED BY <1>3, <2>2, <2>3 DEF Allocate
<1>4. ASSUME NEW w \in Withdrawal, Sign(w) PROVE TypeOK'
  BY <1>4 DEF Sign, SaveSigned, Signed, Tx, Status, Processable
<1>5. ASSUME NEW w \in Withdrawal, NEW c \in receipts, Found(w, c) PROVE TypeOK'
  BY <1>5 DEF Found, MarkBroadcasted, Status, Processable
<1>6. ASSUME NEW w \in Withdrawal, NEW c \in receipts, Confirm(w, c) PROVE TypeOK'
  BY <1>6 DEF Confirm
<1>7. ASSUME NEW w \in Withdrawal, NEW t \in rawTx[w], NEW b \in BOOLEAN, Send(w, t, b) PROVE TypeOK'
  BY <1>7 DEF Send
<1>8. ASSUME NEW w \in Withdrawal, MarkSent(w) PROVE TypeOK'
  BY <1>8 DEF MarkSent, MarkBroadcasted, Status, Processable
<1>9. ASSUME NEW w \in Withdrawal, UpdateConfirmations(w) PROVE TypeOK'
  BY <1>9 DEF UpdateConfirmations, Status, Processable
<1>10. ASSUME NEW w \in Withdrawal, NEW c \in worker.receipt, Settle(w, c) PROVE TypeOK'
  <2>1. c.ok \in BOOLEAN /\ amount[w] \in Nat /\ Returned(w, c.ok) \in Nat
    BY DEF Receipt, Returned
  <2>2. available' \in Nat /\ pendingWithdrawal' \in Nat
    BY <1>10, <2>1, SMTT(40) DEF Settle, FinalizeTokenWithdrawal
  <2>3. journal' \in [Withdrawal -> [Entry -> Int]]
    <3>1. - amount[w] \in Int /\ amount[w] \in Int
      BY <2>1
    <3>2. CASE c.ok
      <4>1. journal' = [journal EXCEPT ![w]["WITHDRAW_FINALIZE"] = - amount[w]]
        BY <1>10, <3>2 DEF Settle, FinalizeTokenWithdrawal
      <4> QED BY <3>1, <4>1 DEF Entry
    <3>3. CASE ~ c.ok
      <4>1. journal' = [journal EXCEPT ![w]["WITHDRAW_RELEASE"] = amount[w]]
        BY <1>10, <3>3 DEF Settle, FinalizeTokenWithdrawal
      <4> QED BY <3>1, <4>1 DEF Entry
    <3> QED BY <3>2, <3>3
  <2>4. status' \in [Row -> Status]
    BY <1>10 DEF Settle, FinalizeTokenWithdrawal, Status, Terminal
  <2> QED BY <1>10, <2>2, <2>3, <2>4 DEF Settle
<1>11. ASSUME Interrupt PROVE TypeOK'
  BY <1>11 DEF Interrupt
<1>12. ASSUME NEW s \in Topup, NEW seen \in PendingNonces, CreateTopup(s, seen) PROVE TypeOK'
  <2>1. ChosenNonce(seen) \in Nat
    BY Chosen
  <2>2. nonce' \in [Row -> Nat \union {None}] /\ nextNonce' \in Nat
    BY <1>12, <2>1 DEF CreateTopup, GiveNonce
  <2>3. status' \in [Row -> Status]
    BY <1>12 DEF CreateTopup, GiveNonce, Status, Processable
  <2> QED BY <1>12, <2>2, <2>3 DEF CreateTopup
<1>13. ASSUME NEW s \in Topup, SignTopup(s) PROVE TypeOK'
  BY <1>13 DEF SignTopup, SaveSigned, Signed, Tx, Status, Processable
<1>14. ASSUME NEW s \in Topup, NEW t \in rawTx[s], SendTopup(s, t) PROVE TypeOK'
  BY <1>14 DEF SendTopup
<1>15. ASSUME NEW s \in Topup, Arrive(s) PROVE TypeOK'
  BY <1>15 DEF Arrive
<1>16. ASSUME NEW t \in mempool, NEW ok \in BOOLEAN, Mine(t, ok) PROVE TypeOK'
  <2>1. t \in Tx /\ t.amount \in Nat /\ tokens \in Nat /\ accountNonce \in Nat
    BY DEF Tx
  <2>2. tokens' \in Nat /\ accountNonce' \in Nat
    BY <1>16, <2>1 DEF Mine
  <2>3. receipts' \subseteq Receipt /\ mempool' \subseteq Tx
    BY <1>16, <2>1 DEF Mine, Receipt
  <2> QED BY <1>16, <2>2, <2>3, SMTT(40) DEF Mine
<1>17. ASSUME Bury PROVE TypeOK'
  BY <1>17 DEF Bury
<1>18. ASSUME NEW c \in receipts, Reorg(c) PROVE TypeOK'
  BY <1>18, SMTT(40) DEF Reorg, Tx, Receipt
<1>19. ASSUME UNCHANGED vars PROVE TypeOK'
  BY <1>19 DEF vars
<1> HIDE DEF TypeOK
<1> QED
  BY <1>1, <1>2, <1>3, <1>4, <1>5, <1>6, <1>7, <1>8, <1>9, <1>10, <1>11, <1>12, <1>13, <1>14,
     <1>15, <1>16, <1>17, <1>18, <1>19, StepCases

(* Type correctness: no step takes the available or the pending balance of *)
(* the user, or the tokens of the hot wallet, below zero.                  *)
THEOREM TypeCorrect == Spec => []TypeOK
BY InitType, NextType, PTL DEF Spec

-----------------------------------------------------------------------------
(***************************************************************************)
(* The inductive invariant.                                                *)
(***************************************************************************)

(* The steps that write a row. *)
RowWrite(r) ==
  \/ r \in Withdrawal /\ \/ \E units \in Amount : Create(r, units)
                         \/ \E seen \in PendingNonces : Allocate(r, seen)
                         \/ \E c \in receipts : Found(r, c)
                         \/ Sign(r) \/ MarkSent(r) \/ UpdateConfirmations(r)
                         \/ \E c \in worker.receipt : Settle(r, c)
  \/ r \in Topup /\ \/ \E seen \in PendingNonces : CreateTopup(r, seen)
                    \/ SignTopup(r)

LEMMA RowSteps ==
  ASSUME [Next]_vars
  PROVE  UNCHANGED <<ledger, rows>> \/ \E r \in Row : RowWrite(r)
<1> USE DEF ledger, rows
<1>1. CASE \E w \in Withdrawal : WorkerStep(w)
  <2>1. PICK w \in Withdrawal : WorkerStep(w)
    BY <1>1
  <2>2. UNCHANGED <<ledger, rows>> \/ RowWrite(w)
    BY <2>1 DEF WorkerStep, RowWrite, Prepare, Confirm, Send
  <2> QED BY <2>2, Rows
<1>2. CASE \E w \in Withdrawal, units \in Amount : Create(w, units)
  BY <1>2, Rows DEF RowWrite
<1>3. CASE \E s \in Topup : TopupStep(s) \/ Arrive(s)
  <2>1. PICK s \in Topup : TopupStep(s) \/ Arrive(s)
    BY <1>3
  <2>2. UNCHANGED <<ledger, rows>> \/ RowWrite(s)
    BY <2>1 DEF TopupStep, RowWrite, SendTopup, Arrive
  <2> QED BY <2>2, Rows
<1>4. CASE \/ Interrupt \/ MineAny \/ Bury \/ UNCHANGED vars
           \/ \E c \in receipts : Reorg(c)
  BY <1>4 DEF Interrupt, MineAny, Mine, Bury, Reorg, vars
<1> QED BY <1>1, <1>2, <1>3, <1>4 DEF Next

(* What a step that writes a row does to it, and to no other row. *)
OthersStay(r) ==
  \A q \in Row \ {r} : /\ status'[q] = status[q] /\ amount'[q] = amount[q]
                       /\ nonce'[q] = nonce[q] /\ rawTx'[q] = rawTx[q]
Created(r) ==
  /\ r \in Withdrawal /\ status[r] = "none" /\ status'[r] = "CREATED"
  /\ nonce'[r] = nonce[r] /\ rawTx'[r] = rawTx[r]
Allocated(r) ==
  /\ IF r \in Withdrawal THEN status[r] = "CREATED" ELSE status[r] = "none"
  /\ status'[r] = "SIGNING"
  /\ nonce'[r] \in Nat /\ rawTx'[r] = rawTx[r] /\ amount'[r] = amount[r]
Prepared(r) ==
  /\ status[r] = "SIGNING" /\ status'[r] = "SIGNED"
  /\ nonce'[r] = nonce[r] /\ rawTx'[r] = Signed(r) /\ amount'[r] = amount[r]
Advanced(r) ==
  /\ r \in Withdrawal
  /\ \/ status[r] = "SIGNED" /\ status'[r] = "BROADCASTED"
     \/ Awaited(r) /\ status'[r] \in {"CONFIRMING", "COMPLETED", "FAILED"}
  /\ nonce'[r] = nonce[r] /\ rawTx'[r] = rawTx[r] /\ amount'[r] = amount[r]

LEMMA RowEffects ==
  ASSUME TypeOK, [Next]_vars
  PROVE  \/ UNCHANGED <<ledger, rows>>
         \/ \E r \in Row : OthersStay(r) /\ (Created(r) \/ Allocated(r) \/ Prepared(r) \/ Advanced(r))
<1> SUFFICES ASSUME NEW r \in Row, RowWrite(r)
             PROVE  OthersStay(r) /\ (Created(r) \/ Allocated(r) \/ Prepared(r) \/ Advanced(r))
  BY RowSteps
<1> USE Rows DEF OthersStay
<1>0. /\ status \in [Row -> Status] /\ amount \in [Row -> Nat]
      /\ nonce \in [Row -> Nat \union {None}] /\ rawTx \in [Row -> SUBSET Tx]
  BY DEF TypeOK
<1>1. ASSUME NEW units \in Amount, Create(r, units), r \in Withdrawal
      PROVE  OthersStay(r) /\ Created(r)
  BY <1>0, <1>1 DEF Create, ReserveTokenWithdrawal, Created
<1>2. ASSUME NEW seen \in PendingNonces,
             \/ r \in Withdrawal /\ Allocate(r, seen)
             \/ r \in Topup /\ CreateTopup(r, seen)
      PROVE  OthersStay(r) /\ Allocated(r)
  <2>1. ChosenNonce(seen) \in Nat
    BY Chosen
  <2> QED BY <1>0, <1>2, <2>1 DEF Allocate, CreateTopup, GiveNonce, Allocated
<1>3. ASSUME Sign(r) \/ SignTopup(r) PROVE OthersStay(r) /\ Prepared(r)
  BY <1>0, <1>3 DEF Sign, SignTopup, SaveSigned, Prepared
<1>4. ASSUME (\E c \in receipts : Found(r, c)) \/ MarkSent(r) \/ UpdateConfirmations(r), r \in Withdrawal
      PROVE  OthersStay(r) /\ Advanced(r)
  BY <1>0, <1>4 DEF Found, MarkSent, MarkBroadcasted, UpdateConfirmations, Advanced
<1>5. ASSUME NEW c \in worker.receipt, Settle(r, c), r \in Withdrawal
      PROVE  OthersStay(r) /\ Advanced(r)
  <2>1. \E s \in {"COMPLETED", "FAILED"} : status' = [status EXCEPT ![r] = s]
    BY <1>5 DEF Settle, FinalizeTokenWithdrawal
  <2>2. Awaited(r) /\ UNCHANGED <<amount, nonce, rawTx>>
    BY <1>5 DEF Settle, FinalizeTokenWithdrawal
  <2>3. PICK s \in {"COMPLETED", "FAILED"} : status' = [status EXCEPT ![r] = s]
    BY <2>1
  <2>4. status'[r] = s /\ \A q \in Row \ {r} : status'[q] = status[q]
    BY <1>0, <2>3
  <2>5. OthersStay(r)
    BY <2>2, <2>4
  <2>6. status'[r] \in {"CONFIRMING", "COMPLETED", "FAILED"}
    BY <2>4
  <2> QED BY <1>5, <2>2, <2>5, <2>6 DEF Advanced
<1> HIDE DEF OthersStay
<1> QED BY <1>1, <1>2, <1>3, <1>4, <1>5 DEF RowWrite

LEMMA RowShapeNext ==
  ASSUME TypeOK, RowShape, [Next]_vars
  PROVE  RowShape'
<1> USE Rows DEF RowShape, Signed
<1>0. /\ status \in [Row -> Status] /\ rawTx \in [Row -> SUBSET Tx]
      /\ status' \in [Row -> Status] /\ rawTx' \in [Row -> SUBSET Tx]
  BY NextType DEF TypeOK
<1>1. CASE UNCHANGED <<ledger, rows>>
  BY <1>1 DEF rows
<1>2. ASSUME NEW r \in Row, OthersStay(r), Created(r) PROVE RowShape'
  BY <1>0, <1>2 DEF OthersStay, Created, HasTx, Terminal
<1>3. ASSUME NEW r \in Row, OthersStay(r), Allocated(r) PROVE RowShape'
  BY <1>0, <1>3 DEF OthersStay, Allocated, HasTx, Terminal
<1>4. ASSUME NEW r \in Row, OthersStay(r), Prepared(r) PROVE RowShape'
  BY <1>0, <1>4 DEF OthersStay, Prepared, HasTx, Terminal
<1>5. ASSUME NEW r \in Row, OthersStay(r), Advanced(r) PROVE RowShape'
  BY <1>0, <1>5 DEF OthersStay, Advanced, HasTx, Terminal
<1> QED BY <1>1, <1>2, <1>3, <1>4, <1>5, RowEffects

(* A row that has its transaction keeps it, and its amount. *)
LEMMA SignedStays ==
  ASSUME TypeOK, RowShape, [Next]_vars, NEW r \in Row, NEW t \in rawTx[r]
  PROVE  /\ rawTx'[r] = rawTx[r] /\ amount'[r] = amount[r]
         /\ t.from = r /\ t.nonce = nonce[r] /\ t.amount = amount[r]
<1>1. status[r] \in HasTx /\ rawTx[r] = Signed(r)
  BY DEF RowShape
<1>2. t.from = r /\ t.nonce = nonce[r] /\ t.amount = amount[r]
  BY <1>1 DEF Signed
<1>3. CASE UNCHANGED <<ledger, rows>>
  BY <1>2, <1>3 DEF rows
<1>4. ASSUME NEW q \in Row, OthersStay(q), Created(q) \/ Allocated(q) \/ Prepared(q) \/ Advanced(q)
      PROVE  rawTx'[r] = rawTx[r] /\ amount'[r] = amount[r]
  BY <1>1, <1>4 DEF OthersStay, Created, Allocated, Prepared, Advanced, HasTx, Terminal
<1> QED BY <1>2, <1>3, <1>4, RowEffects

LEMMA WorkerShapeNext ==
  ASSUME TypeOK, RowShape, WorkerShape, [Next]_vars
  PROVE  WorkerShape'
<1> USE Rows DEF WorkerShape
<1>0. worker.row \in Row /\ \A r \in Row : \A t \in rawTx[r] : rawTx'[r] = rawTx[r]
  BY SignedStays DEF TypeOK
<1>1. CASE worker' = Resting
  BY <1>1
<1>2. CASE UNCHANGED worker /\ (worker.at = "allocate" => UNCHANGED status)
  BY <1>0, <1>2
<1>3. ASSUME NEW w \in Withdrawal, NEW units \in Amount, Create(w, units) PROVE WorkerShape'
  BY <1>0, <1>3 DEF Create, ReserveTokenWithdrawal, TypeOK
<1>4. ASSUME NEW w \in Withdrawal, Prepare(w) PROVE WorkerShape'
  BY <1>4 DEF Prepare, rows
<1>5. ASSUME NEW w \in Withdrawal, NEW c \in receipts, Found(w, c) \/ Confirm(w, c)
      PROVE  WorkerShape'
  BY <1>5 DEF Found, Confirm, rows
<1>6. ASSUME NEW w \in Withdrawal, NEW t \in rawTx[w], NEW b \in BOOLEAN, Send(w, t, b)
      PROVE  WorkerShape'
  BY <1>1, <1>2, <1>6 DEF Send, rows
<1>7. ASSUME NEW s \in Topup, NEW seen \in PendingNonces, CreateTopup(s, seen) PROVE WorkerShape'
  BY <1>0, <1>7 DEF CreateTopup, GiveNonce, TypeOK
<1>8. ASSUME NEW s \in Topup, SignTopup(s) PROVE WorkerShape'
  BY <1>0, <1>8 DEF SignTopup, SaveSigned, TypeOK
<1>9. ASSUME NEW w \in Withdrawal, Sign(w) PROVE WorkerShape'
  BY <1>9 DEF Sign
<1>10. (\E w \in Withdrawal : MarkSent(w) \/ UpdateConfirmations(w)) \/ Interrupt => worker' = Resting
  BY DEF MarkSent, UpdateConfirmations, Interrupt
<1>11. \A w \in Withdrawal :
         (\E seen \in PendingNonces : Allocate(w, seen)) \/ (\E c \in worker.receipt : Settle(w, c))
           => worker' = Resting
  BY DEF Allocate, Settle
<1>12. \A s \in Topup : Arrive(s) \/ (\E t \in rawTx[s] : SendTopup(s, t)) => UNCHANGED <<worker, status>>
  BY DEF Arrive, SendTopup, rows
<1>13. /\ \A t \in mempool, ok \in BOOLEAN : Mine(t, ok) => UNCHANGED <<worker, status>>
       /\ \A c \in receipts : Reorg(c) => UNCHANGED <<worker, status>>
       /\ Bury \/ UNCHANGED vars => UNCHANGED <<worker, status>>
  BY DEF Mine, Reorg, Bury, vars, rows
<1> HIDE DEF WorkerShape
<1> QED
  BY <1>1, <1>2, <1>3, <1>4, <1>5, <1>6, <1>7, <1>8, <1>9, <1>10, <1>11, <1>12, <1>13, StepCases

LEMMA NoncesNext ==
  ASSUME TypeOK, NonceExclusive, NoncesBelow, [Next]_vars
  PROVE  NonceExclusive' /\ NoncesBelow'
<1> USE Rows DEF NonceExclusive, NoncesBelow
<1>0. nonce \in [Row -> Nat \union {None}] /\ nextNonce \in Nat
  BY DEF TypeOK
<1>1. CASE UNCHANGED <<nonce, nextNonce>>
  BY <1>1
<1>2. ASSUME NEW r \in Row, NEW seen \in PendingNonces, GiveNonce(r, seen)
      PROVE  NonceExclusive' /\ NoncesBelow'
  <2>1. ChosenNonce(seen) \in Nat /\ ChosenNonce(seen) >= nextNonce
    BY Chosen
  <2> QED BY <1>0, <1>2, <2>1 DEF GiveNonce
<1>3. ASSUME NEW r \in Row, RowWrite(r)
      PROVE  UNCHANGED <<nonce, nextNonce>> \/ \E seen \in PendingNonces : GiveNonce(r, seen)
  BY <1>3 DEF RowWrite, Create, ReserveTokenWithdrawal, Allocate, Found, Sign, SaveSigned, MarkSent,
     UpdateConfirmations, Settle, CreateTopup, SignTopup
<1> QED BY <1>1, <1>2, <1>3, RowSteps DEF rows

(* The steps that change what nodes have. *)
SendAny   == \E r \in Row : \E t \in rawTx[r] : mempool' = mempool \union {t}
                                               /\ (t \in mempool \/ Acceptable(t))
                                               /\ UNCHANGED <<receipts, accountNonce, buried, tokens>>
ReorgAny  == \E c \in receipts : Reorg(c)

LEMMA ChainSteps ==
  ASSUME [Next]_vars
  PROVE  \/ UNCHANGED <<mempool, receipts, accountNonce, buried>>
         \/ SendAny \/ MineAny \/ Bury \/ ReorgAny
<1> USE Rows DEF chain
<1>1. CASE \E w \in Withdrawal : WorkerStep(w)
  <2>1. PICK w \in Withdrawal : WorkerStep(w)
    BY <1>1
  <2>2. CASE \E t \in rawTx[w], replied \in BOOLEAN : Send(w, t, replied)
    BY <2>2 DEF Send, SendAny
  <2> QED
    BY <2>1, <2>2 DEF WorkerStep, Prepare, Allocate, Sign, Found, Confirm, MarkSent,
       UpdateConfirmations, Settle
<1>2. CASE \E s \in Topup : TopupStep(s) \/ Arrive(s)
  <2>1. PICK s \in Topup : TopupStep(s) \/ Arrive(s)
    BY <1>2
  <2>2. CASE \E t \in rawTx[s] : SendTopup(s, t)
    BY <2>2 DEF SendTopup, SendAny
  <2> QED BY <2>1, <2>2 DEF TopupStep, CreateTopup, SignTopup, Arrive
<1>3. CASE \/ Interrupt \/ UNCHANGED vars
           \/ \E w \in Withdrawal, units \in Amount : Create(w, units)
  BY <1>3 DEF Interrupt, vars, Create
<1> QED BY <1>1, <1>2, <1>3 DEF Next, ReorgAny

LEMMA ChainShapeNext ==
  ASSUME TypeOK, TypeOK', RowShape, NonceExclusive, ChainShape, [Next]_vars
  PROVE  ChainShape'
<1> USE DEF ChainShape
<1>0. /\ accountNonce \in Nat /\ buried \in Nat
      /\ \A t \in mempool : t.from \in Row /\ t.nonce \in Nat
      /\ \A c \in receipts : c.tx.from \in Row /\ c.tx.nonce \in Nat
      /\ \A r \in Row : \A t \in rawTx[r] : t.from = r /\ rawTx'[r] = rawTx[r] /\ t.nonce \in Nat
  BY SignedStays DEF TypeOK, Tx, Receipt
<1>1. CASE UNCHANGED <<mempool, receipts, accountNonce>>
  BY <1>0, <1>1
<1>2. CASE SendAny
  BY <1>0, <1>2 DEF SendAny, Acceptable
<1>3. ASSUME NEW t \in mempool, NEW ok \in BOOLEAN, Mine(t, ok) PROVE ChainShape'
  <2>1. \A u \in mempool' : u \in rawTx'[u.from] /\ u.nonce >= accountNonce'
    <3>1. ASSUME NEW u \in mempool, u.nonce = t.nonce PROVE u = t
      <4>0. u \in rawTx[u.from] /\ t \in rawTx[t.from] /\ u.from \in Row /\ t.from \in Row
        BY <1>0
      <4>1. u.nonce = nonce[u.from] /\ t.nonce = nonce[t.from] /\ u.nonce \in Nat /\ None \notin Nat
        BY <1>0, <4>0, SignedStays, Rows
      <4>2. u.from = t.from
        BY <3>1, <4>0, <4>1 DEF NonceExclusive
      <4>3. rawTx[t.from] = Signed(t.from)
        BY <1>0 DEF RowShape
      <4> QED BY <4>2, <4>3 DEF Signed
    <3> QED BY <1>0, <1>3, <3>1 DEF Mine
  <2>2. \A c \in receipts' : c.tx \in rawTx'[c.tx.from] /\ c.tx.nonce < accountNonce'
    BY <1>0, <1>3 DEF Mine
  <2>3. \A c, d \in receipts' : c.tx.nonce = d.tx.nonce => c = d
    BY <1>0, <1>3 DEF Mine
  <2> QED BY <2>1, <2>2, <2>3
<1>4. ASSUME NEW c \in receipts, Reorg(c) PROVE ChainShape'
  <2>1. \A u \in mempool' : u \in rawTx'[u.from] /\ u.nonce >= accountNonce'
    BY <1>0, <1>4 DEF Reorg
  <2>2. \A d \in receipts' : d.tx \in rawTx'[d.tx.from] /\ d.tx.nonce < accountNonce'
    BY <1>0, <1>4 DEF Reorg
  <2>3. \A d, e \in receipts' : d.tx.nonce = e.tx.nonce => d = e
    BY <1>4 DEF Reorg
  <2> QED BY <2>1, <2>2, <2>3
<1> HIDE DEF ChainShape
<1> QED BY <1>1, <1>2, <1>3, <1>4, ChainSteps DEF MineAny, ReorgAny, Bury

(* What the chain knows of a row is its one transaction, mined once. *)
LEMMA RowReceipts ==
  ASSUME TypeOK, IndInv, NEW r \in Row, NEW c \in receipts, c.tx.from = r
  PROVE  /\ rawTx[r] = {c.tx} /\ status[r] \in HasTx /\ c.tx.amount = amount[r]
         /\ c.tx.nonce \in Nat /\ c.tx.nonce < accountNonce /\ c.ok \in BOOLEAN
         /\ \A d \in receipts : d.tx.from = r => d = c
<1>1. \A d \in receipts : d.tx.from = r => d.tx \in rawTx[r]
  BY DEF IndInv, ChainShape
<1>2. status[r] \in HasTx /\ rawTx[r] = Signed(r)
  BY <1>1 DEF IndInv, RowShape
<1>3. rawTx[r] = {c.tx} /\ c.tx.amount = amount[r]
  BY <1>1, <1>2 DEF Signed
<1>4. \A d \in receipts : d.tx.from = r => d = c
  BY <1>1, <1>3 DEF IndInv, ChainShape
<1> QED BY <1>2, <1>3, <1>4 DEF IndInv, ChainShape, TypeOK, Tx, Receipt

(* A step closes a row only as Settle does. *)
LEMMA ClosingSteps ==
  ASSUME TypeOK, [Next]_vars, NEW w \in Withdrawal
  PROVE  \/ status'[w] = status[w]
         \/ status'[w] \notin Terminal /\ status[w] \notin Terminal
         \/ \E c \in worker.receipt : Settle(w, c)
<1> USE Rows
<1>1. CASE UNCHANGED <<ledger, rows>>
  BY <1>1 DEF rows
<1>2. ASSUME NEW r \in Row, RowWrite(r), r # w PROVE status'[w] = status[w]
  BY <1>2 DEF RowWrite, Create, ReserveTokenWithdrawal, Allocate, GiveNonce, Found, MarkBroadcasted,
     Sign, SaveSigned, MarkSent, UpdateConfirmations, Settle, FinalizeTokenWithdrawal, CreateTopup,
     SignTopup, TypeOK
<1>3. CASE RowWrite(w) /\ ~ \E c \in worker.receipt : Settle(w, c)
  <2>1. status'[w] \in {"CREATED", "SIGNING", "SIGNED", "BROADCASTED", "CONFIRMING"}
    BY <1>3 DEF RowWrite, Create, ReserveTokenWithdrawal, Allocate, GiveNonce, Found, MarkBroadcasted,
       Sign, SaveSigned, MarkSent, UpdateConfirmations, TypeOK
  <2>2. status[w] \in {"none", "CREATED", "SIGNING", "SIGNED", "BROADCASTED", "CONFIRMING"}
    BY <1>3 DEF RowWrite, Create, ReserveTokenWithdrawal, Allocate, GiveNonce, Found, MarkBroadcasted,
       Sign, SaveSigned, MarkSent, UpdateConfirmations
  <2> QED BY <2>1, <2>2 DEF Terminal
<1> QED BY <1>1, <1>2, <1>3, RowSteps

LEMMA SettledShapeNext ==
  ASSUME TypeOK, TypeOK', IndInv, [Next]_vars
  PROVE  SettledShape'
<1> SUFFICES ASSUME NEW w \in Withdrawal, status'[w] \in Terminal PROVE Settled(w)'
  BY DEF SettledShape
<1>0. /\ accountNonce \in Nat /\ buried \in 0 .. accountNonce /\ w \in Row
      /\ \A c \in receipts : c.tx.nonce \in Nat
  BY Rows DEF TypeOK, Tx, Receipt
<1>1. CASE status'[w] = status[w]
  <2>1. PICK c \in receipts : /\ c.tx.from = w /\ c.tx.nonce < buried
                              /\ c.ok <=> status[w] = "COMPLETED"
    BY <1>1 DEF IndInv, SettledShape, Settled
  <2>2. c \in receipts' /\ c.tx.nonce < buried'
    <3>1. CASE UNCHANGED <<receipts, buried>> \/ SendAny \/ MineAny
      BY <2>1, <3>1 DEF SendAny, MineAny, Mine
    <3>2. CASE Bury
      BY <1>0, <2>1, <3>2 DEF Bury
    <3>3. CASE ReorgAny
      BY <1>0, <2>1, <3>3 DEF ReorgAny, Reorg
    <3> QED BY <3>1, <3>2, <3>3, ChainSteps
  <2> QED BY <1>1, <2>1, <2>2 DEF Settled
<1>2. ASSUME NEW c \in worker.receipt, Settle(w, c) PROVE Settled(w)'
  <2>1. worker.row = w /\ worker.at = "settle" /\ c \in receipts /\ c.tx.nonce < buried
    BY <1>2 DEF Settle
  <2>2. c.tx \in rawTx[w] /\ c.tx.from \in Row
    BY <2>1 DEF IndInv, WorkerShape, TypeOK, Tx, Receipt
  <2>3. c.tx.from = w /\ c.ok \in BOOLEAN
    BY <1>0, <2>1, <2>2, SignedStays DEF IndInv, TypeOK, Receipt
  <2>4. status'[w] = IF c.ok THEN "COMPLETED" ELSE "FAILED"
    BY <1>0, <1>2 DEF Settle, FinalizeTokenWithdrawal, TypeOK
  <2>5. UNCHANGED <<receipts, buried>>
    BY <1>2 DEF Settle, chain
  <2> QED BY <2>1, <2>3, <2>4, <2>5 DEF Settled
<1> QED BY <1>1, <1>2, ClosingSteps

LEMMA InitInv == Init => IndInv
<1> SUFFICES ASSUME Init PROVE IndInv
  OBVIOUS
<1>1. RowShape /\ WorkerShape /\ NonceExclusive /\ NoncesBelow
  BY Rows DEF Init, RowShape, HasTx, Terminal, WorkerShape, NonceExclusive, NoncesBelow
<1>2. ChainShape
  BY DEF Init, ChainShape
<1>3. SettledShape
  BY Rows DEF Init, SettledShape, Terminal
<1>4. JournalShape
  <2>1. \A w \in Withdrawal : status[w] = "none" /\ amount[w] = 0 /\ \A e \in Entry : journal[w][e] = 0
    BY Rows DEF Init
  <2> QED BY <2>1 DEF JournalShape, Entry
<1> QED BY <1>1, <1>2, <1>3, <1>4 DEF IndInv

LEMMA JournalNext ==
  ASSUME TypeOK, TypeOK', IndInv, [Next]_vars
  PROVE  JournalShape'
<1> USE Rows DEF JournalShape
<1>0. /\ journal \in [Withdrawal -> [Entry -> Int]] /\ status \in [Row -> Status]
      /\ amount \in [Row -> Nat] /\ JournalShape
  BY DEF TypeOK, IndInv
<1>1. ASSUME NEW w \in Withdrawal, NEW units \in Amount, Create(w, units) PROVE JournalShape'
  <2>1. /\ units \in Nat /\ status[w] = "none" /\ amount[w] = 0
        /\ journal' = [journal EXCEPT ![w]["WITHDRAW_RESERVE"] = - units]
        /\ amount' = [amount EXCEPT ![w] = units] /\ status' = [status EXCEPT ![w] = "CREATED"]
    BY <1>1, TokenWithdrawalConstants DEF Create, ReserveTokenWithdrawal, IndInv, RowShape
  <2>2. - units \in Int
    BY <2>1
  <2> QED BY <1>0, <2>1, <2>2, SMTT(40) DEF Entry
<1>2. ASSUME NEW w \in Withdrawal, NEW c \in worker.receipt, Settle(w, c) PROVE JournalShape'
  <2>1. c.ok \in BOOLEAN /\ amount' = amount /\ Awaited(w)
    BY <1>2 DEF Settle, FinalizeTokenWithdrawal, TypeOK, Receipt
  <2>2. CASE c.ok
    <3>1. /\ journal' = [journal EXCEPT ![w]["WITHDRAW_FINALIZE"] = - amount[w]]
          /\ status' = [status EXCEPT ![w] = "COMPLETED"]
      BY <1>2, <2>2 DEF Settle, FinalizeTokenWithdrawal
    <3> QED BY <1>0, <2>1, <3>1, SMTT(40) DEF Entry
  <2>3. CASE ~ c.ok
    <3>1. /\ journal' = [journal EXCEPT ![w]["WITHDRAW_RELEASE"] = amount[w]]
          /\ status' = [status EXCEPT ![w] = "FAILED"]
      BY <1>2, <2>3 DEF Settle, FinalizeTokenWithdrawal
    <3> QED BY <1>0, <2>1, <3>1, SMTT(40) DEF Entry
  <2> QED BY <2>2, <2>3
<1>3. CASE UNCHANGED <<ledger, rows>>
  BY <1>0, <1>3 DEF ledger, rows
<1>4. ASSUME NEW r \in Row, RowWrite(r),
             ~ \E w \in Withdrawal, units \in Amount : Create(w, units),
             ~ \E w \in Withdrawal, c \in worker.receipt : Settle(w, c)
      PROVE  JournalShape'
  <2>1. UNCHANGED <<journal, amount>>
    BY <1>4 DEF RowWrite, Allocate, Found, Sign, MarkSent, UpdateConfirmations, CreateTopup, SignTopup, ledger
  <2>2. \A w \in Withdrawal :
          \/ status'[w] = status[w]
          \/ status'[w] \notin Terminal /\ status[w] \notin Terminal
    BY <1>4, ClosingSteps
  <2> QED BY <1>0, <2>1, <2>2 DEF Terminal
<1> QED BY <1>1, <1>2, <1>3, <1>4, RowSteps

LEMMA NextInv == TypeOK /\ IndInv /\ [Next]_vars => TypeOK' /\ IndInv'
<1> SUFFICES ASSUME TypeOK, IndInv, [Next]_vars PROVE TypeOK' /\ IndInv'
  OBVIOUS
<1>1. TypeOK'
  BY NextType
<1>2. RowShape' /\ WorkerShape' /\ NonceExclusive' /\ NoncesBelow'
  BY RowShapeNext, WorkerShapeNext, NoncesNext DEF IndInv
<1>3. ChainShape'
  BY <1>1, ChainShapeNext DEF IndInv
<1>4. SettledShape' /\ JournalShape'
  BY <1>1, SettledShapeNext, JournalNext
<1> QED BY <1>1, <1>2, <1>3, <1>4 DEF IndInv

(* The invariant is inductive. *)
THEOREM Inductive == Spec => [](TypeOK /\ IndInv)
<1>1. Init => TypeOK /\ IndInv
  BY InitType, InitInv
<1>2. TypeOK /\ IndInv /\ [Next]_vars => (TypeOK /\ IndInv)'
  BY NextInv
<1> QED BY <1>1, <1>2, PTL DEF Spec

(* Two withdrawals, two top-ups, or one of each never share a nonce of the *)
(* hot wallet, whatever the endpoints answer and whenever the process      *)
(* restarts.                                                               *)
THEOREM NoncesExclusive == Spec => []NonceExclusive
BY Inductive, PTL DEF IndInv

(* Once signed, the transaction of a withdrawal or a top-up is never       *)
(* replaced: SaveSignedTokenWithdrawal writes raw_tx once, and retries     *)
(* send those bytes.                                                       *)
THEOREM SameBytes ==
  Spec => [][\A r \in Row : rawTx[r] # {} => rawTx'[r] = rawTx[r]]_vars
<1>1. TypeOK /\ IndInv /\ [Next]_vars
        => [\A r \in Row : rawTx[r] # {} => rawTx'[r] = rawTx[r]]_vars
  <2> SUFFICES ASSUME TypeOK, IndInv, [Next]_vars, NEW r \in Row, rawTx[r] # {}
               PROVE  rawTx'[r] = rawTx[r]
    OBVIOUS
  <2> QED BY SignedStays DEF IndInv
<1> QED BY <1>1, Inductive, PTL DEF Spec

(* A withdrawal that ended stays as it ended, with its amount and nonce:   *)
(* neither a receipt the worker still holds nor a request with its key     *)
(* reopens it.                                                             *)
RowFinal(r) == status[r] \in Terminal => UNCHANGED <<status[r], amount[r], nonce[r], rawTx[r]>>

THEOREM NoneReopened == Spec => [][\A r \in Row : RowFinal(r)]_vars
<1>1. TypeOK /\ IndInv /\ [Next]_vars => [\A r \in Row : RowFinal(r)]_vars
  <2> SUFFICES ASSUME TypeOK, IndInv, [Next]_vars, NEW r \in Row, status[r] \in Terminal
               PROVE  UNCHANGED <<status[r], amount[r], nonce[r], rawTx[r]>>
    BY DEF RowFinal
  <2>1. CASE UNCHANGED <<ledger, rows>>
    BY <2>1 DEF rows
  <2>2. ASSUME NEW q \in Row, OthersStay(q), Created(q) \/ Allocated(q) \/ Prepared(q) \/ Advanced(q)
        PROVE  UNCHANGED <<status[r], amount[r], nonce[r], rawTx[r]>>
    BY <2>2 DEF OthersStay, Created, Allocated, Prepared, Advanced, Awaited, Terminal
  <2> QED BY <2>1, <2>2, RowEffects
<1> QED BY <1>1, Inductive, PTL DEF Spec

(* What nodes hold of a row is the one transaction saved in it before the  *)
(* first send.                                                             *)
THEOREM RecordedBeforeSent == Spec => []SentIsRecorded
<1>1. TypeOK /\ IndInv => SentIsRecorded
  <2> SUFFICES ASSUME TypeOK, IndInv, NEW r \in Row, SentOf(r) # {}
               PROVE  SentOf(r) = rawTx[r] /\ status[r] \notin {"none", "CREATED", "SIGNING"}
    BY DEF SentIsRecorded
  <2>1. SentOf(r) \subseteq rawTx[r]
    BY DEF SentOf, IndInv, ChainShape
  <2>2. status[r] \in HasTx /\ rawTx[r] = Signed(r)
    BY <2>1 DEF IndInv, RowShape
  <2> QED BY <2>1, <2>2 DEF Signed, HasTx, Terminal
<1> QED BY <1>1, Inductive, PTL

-----------------------------------------------------------------------------
(***************************************************************************)
(* What a step does to the hold, the phase and the bookings of a           *)
(* withdrawal: it opens one, closes one, or changes nothing of any.        *)
(***************************************************************************)
LEMMA TakenByReceipt ==
  ASSUME TypeOK, IndInv, NEW w \in Withdrawal, NEW c \in receipts, c.tx.from = w
  PROVE  Taken(w) = IF c.ok THEN amount[w] ELSE 0
<1>1. \A d \in receipts : d.tx.from = w => d = c
  BY RowReceipts, Rows
<1> QED BY <1>1 DEF Taken

LEMMA TakenUnsigned ==
  ASSUME TypeOK, IndInv, NEW w \in Withdrawal, status[w] \notin HasTx
  PROVE  Taken(w) = 0
BY RowReceipts, Rows DEF Taken

OtherRows(w) ==
  \A v \in Withdrawal \ {w} : Hold(v)' = Hold(v) /\ Phase(v)' = Phase(v) /\ Booked(v)' = Booked(v)
Moves(w) ==
  /\ pendingWithdrawal' = pendingWithdrawal - Hold(w) + Hold(w)'
  /\ available' = available - Booked(w) + Booked(w)'
Opens(w) ==
  /\ Phase(w) = "new" /\ Phase(w)' = "open" /\ Taken(w) = 0
  /\ Hold(w) = 0 /\ Hold(w)' \in 0 .. available /\ available' = available - Hold(w)'
Closes(w) ==
  /\ Phase(w) = "open" /\ Phase(w)' = "closed"
  /\ Hold(w)' = 0 /\ available' = available + (Hold(w) - Taken(w))
Stays ==
  /\ \A v \in Withdrawal : Hold(v)' = Hold(v) /\ Phase(v)' = Phase(v) /\ Booked(v)' = Booked(v)
  /\ UNCHANGED <<available, pendingWithdrawal>>

(* By the shape of the journal, what is booked follows from the row. *)
BookedIs(w) == Booked(w) = IF status[w] = "FAILED" THEN 0 ELSE - amount[w]

LEMMA BookedByStatus == TypeOK /\ IndInv => \A w \in Withdrawal : BookedIs(w)
<1> SUFFICES ASSUME TypeOK, IndInv, NEW w \in Withdrawal PROVE BookedIs(w)
  OBVIOUS
<1>1. amount[w] \in Nat
  BY Rows DEF TypeOK
<1> QED BY <1>1 DEF Booked, BookedIs, IndInv, JournalShape

LEMMA RowStepKinds ==
  ASSUME TypeOK, IndInv, TypeOK', IndInv', [Next]_vars
  PROVE  Stays \/ \E w \in Withdrawal : OtherRows(w) /\ Moves(w) /\ (Opens(w) \/ Closes(w))
<1> USE Rows
<1>0. /\ status \in [Row -> Status] /\ amount \in [Row -> Nat] /\ journal \in [Withdrawal -> [Entry -> Int]]
      /\ available \in Nat /\ pendingWithdrawal \in Nat
  BY DEF TypeOK
<1>b. \A w \in Withdrawal : BookedIs(w) /\ BookedIs(w)'
  <2>1. (TypeOK /\ IndInv => \A w \in Withdrawal : BookedIs(w))'
    BY BookedByStatus, PTL
  <2> QED BY <2>1, BookedByStatus
<1> USE DEF BookedIs
<1>1. CASE UNCHANGED <<ledger, rows>>
  BY <1>1 DEF Stays, Hold, Phase, Booked, ledger, rows
<1>2. ASSUME NEW w \in Withdrawal, NEW units \in Amount, Create(w, units)
      PROVE  OtherRows(w) /\ Moves(w) /\ Opens(w)
  <2>1. /\ units \in Nat /\ status[w] = "none" /\ available >= units /\ amount[w] = 0
        /\ available' = available - units /\ pendingWithdrawal' = pendingWithdrawal + units
        /\ status' = [status EXCEPT ![w] = "CREATED"] /\ amount' = [amount EXCEPT ![w] = units]
    BY <1>2, TokenWithdrawalConstants DEF Create, ReserveTokenWithdrawal, IndInv, RowShape
  <2>2. Hold(w) = 0 /\ Hold(w)' = units /\ Booked(w) = 0 /\ Booked(w)' = - units
    BY <1>0, <1>b, <2>1 DEF Hold, Processable
  <2>3. Phase(w) = "new" /\ Phase(w)' = "open" /\ Taken(w) = 0
    BY <1>0, <2>1, TakenUnsigned DEF Phase, Processable, HasTx, Terminal
  <2>4. OtherRows(w)
    BY <1>0, <1>b, <2>1 DEF OtherRows, Hold, Phase
  <2>5. Moves(w) /\ Opens(w)
    BY <1>0, <2>1, <2>2, <2>3 DEF Moves, Opens
  <2> QED BY <2>4, <2>5
<1>3. ASSUME NEW w \in Withdrawal, NEW c \in worker.receipt, Settle(w, c)
      PROVE  OtherRows(w) /\ Moves(w) /\ Closes(w)
  <2>1. c \in receipts /\ c.tx \in rawTx[w]
    BY <1>3 DEF Settle, IndInv, WorkerShape
  <2>2. c.tx.from = w /\ c.ok \in BOOLEAN
    BY <2>1, SignedStays DEF IndInv, TypeOK, Receipt
  <2>3. Taken(w) = IF c.ok THEN amount[w] ELSE 0
    BY <2>1, <2>2, TakenByReceipt
  <2>4. /\ Awaited(w) /\ UNCHANGED amount
        /\ available' = available + Returned(w, c.ok) /\ pendingWithdrawal' = pendingWithdrawal - amount[w]
        /\ status' = [status EXCEPT ![w] = IF c.ok THEN "COMPLETED" ELSE "FAILED"]
    BY <1>3 DEF Settle, FinalizeTokenWithdrawal
  <2>5. Hold(w) = amount[w] /\ Hold(w)' = 0
    BY <1>0, <2>4 DEF Hold, Processable
  <2>6. Phase(w) = "open" /\ Phase(w)' = "closed"
    BY <1>0, <2>4 DEF Phase, Processable
  <2>7. OtherRows(w)
    BY <1>0, <1>b, <2>4 DEF OtherRows, Hold, Phase
  <2>8. amount[w] \in Nat /\ Returned(w, c.ok) = amount[w] - Taken(w)
    BY <1>0, <2>3 DEF Returned
  <2>9. Booked(w) = - amount[w] /\ Booked(w)' = - Taken(w)
    <3>1. Booked(w) = - amount[w]
      BY <1>b, <2>4
    <3>2. CASE c.ok
      <4>1. status'[w] = "COMPLETED" /\ Taken(w) = amount[w] /\ amount'[w] = amount[w]
        BY <1>0, <2>3, <2>4, <3>2
      <4> QED BY <1>b, <3>1, <4>1
    <3>3. CASE ~ c.ok
      <4>1. status'[w] = "FAILED" /\ Taken(w) = 0
        BY <1>0, <2>3, <2>4, <3>3
      <4> QED BY <1>b, <3>1, <4>1
    <3> QED BY <3>2, <3>3
  <2>10. Taken(w) \in Nat
    BY <1>0, <2>3
  <2> QED BY <1>0, <2>4, <2>5, <2>6, <2>7, <2>8, <2>9, <2>10 DEF Moves, Closes
<1>4. ASSUME NEW r \in Row, RowWrite(r),
             ~ \E w \in Withdrawal, units \in Amount : Create(w, units),
             ~ \E w \in Withdrawal, c \in worker.receipt : Settle(w, c)
      PROVE  Stays
  <2>1. UNCHANGED <<ledger, amount>>
    BY <1>4 DEF RowWrite, Allocate, Found, Sign, MarkSent, UpdateConfirmations, CreateTopup, SignTopup
  <2>2. \A w \in Withdrawal :
          \/ status'[w] = status[w]
          \/ status'[w] \in Processable /\ status[w] \in Processable
    BY <1>0, <1>4 DEF RowWrite, Allocate, GiveNonce, Found, Sign, SaveSigned, MarkSent, MarkBroadcasted,
       UpdateConfirmations, CreateTopup, SignTopup, Processable
  <2>3. \A w \in Withdrawal : Hold(w)' = Hold(w) /\ Phase(w)' = Phase(w)
    BY <2>1, <2>2 DEF Hold, Phase, Processable
  <2>4. \A w \in Withdrawal : Booked(w)' = Booked(w)
    BY <2>1 DEF Booked, ledger
  <2> QED BY <2>1, <2>3, <2>4 DEF Stays, ledger
<1> QED BY <1>1, <1>2, <1>3, <1>4, RowSteps

-----------------------------------------------------------------------------
(***************************************************************************)
(* The books.  Both balances are sums over the withdrawals, so each step   *)
(* is shown to change one summand and the balance by as much.              *)
(***************************************************************************)
LEMMA InitBooks == Init => BooksAgree
<1> SUFFICES ASSUME Init PROVE BooksAgree
  OBVIOUS
<1>1. \A w \in Withdrawal : status[w] = "none" /\ Hold(w) = 0 /\ Booked(w) = 0
  BY Rows DEF Init, Hold, Booked, Processable, Entry
<1>2. /\ [w \in Withdrawal |-> Hold(w)] = [i \in 1 .. NumWithdrawals |-> 0]
      /\ [w \in Withdrawal |-> Booked(w)] = [i \in 1 .. NumWithdrawals |-> 0]
  BY <1>1, Rows
<1>3. Total([i \in 1 .. NumWithdrawals |-> 0], NumWithdrawals) = 0
  BY TotalZero, Rows
<1>4. available = Balance + 0 /\ pendingWithdrawal = 0
  BY TokenWithdrawalConstants DEF Init
<1> QED BY <1>1, <1>2, <1>3, <1>4 DEF BooksAgree, Terminal

LEMMA BooksNext ==
  ASSUME TypeOK, IndInv, TypeOK', IndInv', BooksAgree, [Next]_vars
  PROVE  BooksAgree'
<1> DEFINE f == [w \in Withdrawal |-> Hold(w)]
           g == [w \in Withdrawal |-> Hold(w)']
           b == [w \in Withdrawal |-> Booked(w)]
           d == [w \in Withdrawal |-> Booked(w)']
           n == NumWithdrawals
<1>1. \A w \in Withdrawal : status'[w] \in Terminal =>
        journal'[w]["WITHDRAW_FINALIZE"] = IF status'[w] = "COMPLETED" THEN - amount'[w] ELSE 0
  BY DEF IndInv, JournalShape
<1>2. /\ f \in [1 .. n -> Int] /\ g \in [1 .. n -> Int]
      /\ b \in [1 .. n -> Int] /\ d \in [1 .. n -> Int]
  <2>1. \A w \in Withdrawal : Hold(w) \in Int /\ Hold(w)' \in Int
    BY Rows DEF TypeOK, Hold
  <2>2. \A w \in Withdrawal : Booked(w) \in Int /\ Booked(w)' \in Int
    BY DEF TypeOK, Booked, Entry
  <2> QED BY <2>1, <2>2, Rows
<1>3. /\ pendingWithdrawal = Total(f, n) /\ available = Balance + Total(b, n)
      /\ pendingWithdrawal' = Total(g, n) /\ available' = Balance + Total(d, n) => BooksAgree'
  BY <1>1 DEF BooksAgree
<1>4. CASE Stays
  <2>1. f = g /\ b = d /\ UNCHANGED <<available, pendingWithdrawal>>
    BY <1>4 DEF Stays
  <2> HIDE DEF f, g, b, d
  <2> QED BY <1>3, <2>1
<1>5. ASSUME NEW k \in Withdrawal, OtherRows(k), Moves(k) PROVE BooksAgree'
  <2>1. /\ k \in 1 .. n /\ \A i \in (1 .. n) \ {k} : g[i] = f[i] /\ d[i] = b[i]
        /\ f[k] = Hold(k) /\ g[k] = Hold(k)' /\ b[k] = Booked(k) /\ d[k] = Booked(k)'
    BY <1>5, Rows DEF OtherRows
  <2>2. /\ pendingWithdrawal' = pendingWithdrawal - f[k] + g[k]
        /\ available' = available - b[k] + d[k]
    BY <1>5, <2>1 DEF Moves
  <2> HIDE DEF f, g, b, d, n
  <2>3. n \in Nat
    BY Rows DEF n
  <2>4. Total(g, n) = Total(f, n) - f[k] + g[k] /\ Total(d, n) = Total(b, n) - b[k] + d[k]
    <3>1. Total(g, n) = Total(f, n) - f[k] + g[k]
      BY <1>2, <2>1, <2>3, TotalUpdate, ZenonT(40)
    <3>2. Total(d, n) = Total(b, n) - b[k] + d[k]
      BY <1>2, <2>1, <2>3, TotalUpdate, ZenonT(40)
    <3> QED BY <3>1, <3>2
  <2>5. Total(b, n) \in Int /\ Balance \in Int /\ b[k] \in Int /\ d[k] \in Int
    BY <1>2, <2>1, <2>3, TotalType, TokenWithdrawalConstants
  <2>6. available' = Balance + Total(d, n)
    BY <1>3, <2>2, <2>4, <2>5
  <2> QED BY <1>3, <2>2, <2>4, <2>6
<1> QED BY <1>4, <1>5, RowStepKinds

(* The pending balance is what the live withdrawals hold, and the journal  *)
(* explains the available one, over all crashes and retries and for any    *)
(* number of withdrawals.                                                  *)
THEOREM BooksAlwaysAgree == Spec => []BooksAgree
<1>1. Init => BooksAgree
  BY InitBooks
<1>2. TypeOK /\ IndInv /\ BooksAgree /\ [Next]_vars => BooksAgree'
  BY NextInv, BooksNext
<1> QED BY <1>1, <1>2, Inductive, PTL DEF Spec

-----------------------------------------------------------------------------
(***************************************************************************)
(* The refinement.                                                         *)
(***************************************************************************)
HoldOf  == [w \in Withdrawal |-> Hold(w)]
TakenOf == [w \in Withdrawal |-> Taken(w)]
PhaseOf == [w \in Withdrawal |-> Phase(w)]

LEMMA PayoutStutter ==
  ASSUME Stays, \A w \in Withdrawal : Taken(w)' = Taken(w)
  PROVE  UNCHANGED P!vars
<1>1. PhaseOf' = PhaseOf /\ HoldOf' = HoldOf /\ TakenOf' = TakenOf /\ available' = available
  BY DEF Stays, HoldOf, TakenOf, PhaseOf
<1> QED BY <1>1 DEF P!vars, HoldOf, TakenOf, PhaseOf

LEMMA PayoutOpen ==
  ASSUME NEW k \in Withdrawal, OtherRows(k), Opens(k), \A w \in Withdrawal : Taken(w)' = Taken(w)
  PROVE  P!Open(k)
<1>1. /\ PhaseOf[k] = "new" /\ PhaseOf' = [PhaseOf EXCEPT ![k] = "open"]
      /\ HoldOf' = [HoldOf EXCEPT ![k] = Hold(k)'] /\ TakenOf' = TakenOf
  BY DEF OtherRows, Opens, HoldOf, TakenOf, PhaseOf
<1>2. Hold(k)' \in 0 .. available /\ available' = available - Hold(k)'
  BY DEF Opens
<1> QED BY <1>1, <1>2 DEF P!Open, HoldOf, TakenOf, PhaseOf

LEMMA PayoutClose ==
  ASSUME NEW k \in Withdrawal, OtherRows(k), Closes(k), \A w \in Withdrawal : Taken(w)' = Taken(w)
  PROVE  P!Close(k)
<1>1. /\ PhaseOf[k] = "open" /\ PhaseOf' = [PhaseOf EXCEPT ![k] = "closed"]
      /\ HoldOf' = [HoldOf EXCEPT ![k] = 0] /\ TakenOf' = TakenOf
  BY DEF OtherRows, Closes, HoldOf, TakenOf, PhaseOf
<1>2. available' = available + (HoldOf[k] - TakenOf[k])
  BY DEF Closes, HoldOf, TakenOf
<1> QED BY <1>1, <1>2 DEF P!Close, HoldOf, TakenOf, PhaseOf

(* The rows and the ledger stand still while the chain moves. *)
LEMMA ChainLeavesRows ==
  ASSUME MineAny \/ ReorgAny
  PROVE  Stays
BY DEF MineAny, ReorgAny, Mine, Reorg, Stays, Hold, Phase, Booked, ledger, rows

(* A transaction of a withdrawal is mined: the first, of an open row.      *)
LEMMA MinedOnce ==
  ASSUME TypeOK, IndInv, NEW t \in mempool, t.nonce = accountNonce, t.from \in Withdrawal
  PROVE  /\ status[t.from] \in Processable /\ status[t.from] # "none"
         /\ \A c \in receipts : c.tx.from # t.from
         /\ t.amount = amount[t.from]
<1>1. t \in rawTx[t.from] /\ t.from \in Row
  BY Rows DEF IndInv, ChainShape
<1>2. status[t.from] \in HasTx /\ rawTx[t.from] = Signed(t.from)
  BY <1>1 DEF IndInv, RowShape
<1>3. rawTx[t.from] = {t} /\ t.amount = amount[t.from]
  BY <1>1, <1>2 DEF Signed
<1>4. ASSUME NEW c \in receipts, c.tx.from = t.from PROVE FALSE
  <2>1. c.tx = t /\ c.tx.nonce < accountNonce /\ accountNonce \in Nat
    BY <1>1, <1>3, <1>4, RowReceipts DEF TypeOK
  <2> QED BY <2>1
<1>5. status[t.from] \notin Terminal
  BY <1>4 DEF IndInv, SettledShape, Settled
<1> QED BY <1>2, <1>3, <1>4, <1>5 DEF HasTx, Processable

LEMMA PayoutMine ==
  ASSUME TypeOK, IndInv, MineAny
  PROVE  [P!Next]_(P!vars)
<1>1. PICK t \in mempool, ok \in BOOLEAN : Mine(t, ok)
  BY DEF MineAny
<1> DEFINE c == [tx |-> t, ok |-> ok]
           k == t.from
<1>2. /\ t.nonce = accountNonce /\ receipts' = receipts \union {c}
      /\ c.tx = t /\ c.ok = ok /\ UNCHANGED amount
  BY <1>1 DEF Mine, rows
<1>3. Stays
  BY ChainLeavesRows
<1> HIDE DEF c
<1>4. \A w \in Withdrawal : w # k => Taken(w)' = Taken(w)
  BY <1>2 DEF Taken
<1>5. CASE k \in Withdrawal
  <2>1. /\ status[k] \in Processable /\ status[k] # "none"
        /\ (\A d \in receipts : d.tx.from # k) /\ amount[k] \in Nat
    BY <1>2, <1>5, MinedOnce, Rows DEF TypeOK
  <2>2. Taken(k) = 0 /\ Taken(k)' = IF ok THEN amount[k] ELSE 0
    BY <1>2, <2>1 DEF Taken
  <2> DEFINE units == IF ok THEN amount[k] ELSE 0
  <2>3. Phase(k) = "open" /\ Hold(k) = amount[k] /\ units \in 0 .. Hold(k)
    BY <2>1 DEF Phase, Hold
  <2> HIDE DEF units
  <2>4. /\ PhaseOf[k] = "open" /\ PhaseOf' = PhaseOf /\ HoldOf' = HoldOf
        /\ TakenOf[k] = 0 /\ TakenOf' = [TakenOf EXCEPT ![k] = units] /\ units \in 0 .. HoldOf[k]
        /\ available' = available
    BY <1>3, <1>4, <1>5, <2>2, <2>3 DEF Stays, HoldOf, TakenOf, PhaseOf, units
  <2>5. P!Take(k)
    BY <2>4 DEF P!Take, HoldOf, TakenOf, PhaseOf
  <2> QED BY <1>5, <2>5 DEF P!Next
<1>6. CASE k \notin Withdrawal
  BY <1>3, <1>4, <1>6, PayoutStutter
<1> QED BY <1>5, <1>6

LEMMA PayoutReorg ==
  ASSUME TypeOK, IndInv, ReorgAny
  PROVE  [P!Next]_(P!vars)
<1>1. PICK c \in receipts : Reorg(c)
  BY DEF ReorgAny
<1> DEFINE k == c.tx.from
<1>2. receipts' = receipts \ {c} /\ c.tx.nonce >= buried /\ UNCHANGED amount
  BY <1>1 DEF Reorg, rows, TypeOK, Receipt, Tx
<1>3. Stays
  BY ChainLeavesRows
<1>4. \A w \in Withdrawal : w # k => Taken(w)' = Taken(w)
  BY <1>2 DEF Taken
<1>5. CASE k \in Withdrawal
  <2>1. /\ status[k] \in HasTx /\ \A d \in receipts : d.tx.from = k => d = c
        /\ c.tx.nonce \in Nat /\ buried \in Nat
    BY <1>5, RowReceipts, Rows, SMTT(40) DEF TypeOK
  <2>2. status[k] \notin Terminal
    BY <1>2, <1>5, <2>1 DEF IndInv, SettledShape, Settled
  <2>3. Phase(k) = "open"
    BY <2>1, <2>2 DEF Phase, HasTx, Processable
  <2>4. Taken(k)' = 0
    BY <1>2, <2>1 DEF Taken
  <2>5. /\ PhaseOf[k] = "open" /\ PhaseOf' = PhaseOf /\ HoldOf' = HoldOf
        /\ TakenOf' = [TakenOf EXCEPT ![k] = 0] /\ available' = available
    BY <1>3, <1>4, <1>5, <2>3, <2>4 DEF Stays, HoldOf, TakenOf, PhaseOf
  <2>6. P!Undo(k)
    BY <2>5 DEF P!Undo, HoldOf, TakenOf, PhaseOf
  <2> QED BY <1>5, <2>6 DEF P!Next
<1>6. CASE k \notin Withdrawal
  BY <1>3, <1>4, <1>6, PayoutStutter
<1> QED BY <1>5, <1>6


LEMMA SameTaken ==
  ASSUME TypeOK, IndInv, [Next]_vars, UNCHANGED receipts, NEW w \in Withdrawal
  PROVE  Taken(w)' = Taken(w)
<1>1. CASE \E c \in receipts : c.tx.from = w
  <2>1. PICK c \in receipts : c.tx.from = w
    BY <1>1
  <2>2. c.tx \in rawTx[w]
    BY <2>1 DEF IndInv, ChainShape
  <2>3. amount'[w] = amount[w]
    BY <2>2, SignedStays, Rows DEF IndInv
  <2> QED BY <2>3 DEF Taken
<1>2. CASE ~ \E c \in receipts : c.tx.from = w
  BY <1>2 DEF Taken
<1> QED BY <1>1, <1>2

LEMMA PayoutStep ==
  ASSUME TypeOK, IndInv, TypeOK', IndInv', [Next]_vars
  PROVE  [P!Next]_(P!vars)
<1>1. CASE UNCHANGED receipts
  <2>1. \A w \in Withdrawal : Taken(w)' = Taken(w)
    BY <1>1, SameTaken
  <2>2. CASE Stays
    BY <2>1, <2>2, PayoutStutter
  <2>3. ASSUME NEW k \in Withdrawal, OtherRows(k), Opens(k) \/ Closes(k)
        PROVE  [P!Next]_(P!vars)
    <3>1. P!Open(k) \/ P!Close(k)
      BY <2>1, <2>3, PayoutOpen, PayoutClose
    <3> QED BY <3>1 DEF P!Next
  <2> QED BY <2>2, <2>3, RowStepKinds
<1>2. CASE MineAny
  BY <1>2, PayoutMine
<1>3. CASE ReorgAny
  BY <1>3, PayoutReorg
<1> QED BY <1>1, <1>2, <1>3, ChainSteps DEF Bury, SendAny

LEMMA PayoutInit == Init => P!Init
<1> SUFFICES ASSUME Init PROVE P!Init
  OBVIOUS
<1>1. \A w \in Withdrawal : Hold(w) = 0 /\ Taken(w) = 0 /\ Phase(w) = "new"
  BY Rows DEF Init, Hold, Taken, Phase, Processable
<1>2. available \in Nat
  BY TokenWithdrawalConstants DEF Init
<1> QED BY <1>1, <1>2 DEF P!Init

(* Token withdrawals implement Payout: a user gets the reserved tokens     *)
(* back only if the chain keeps its hands off them for good, and loses     *)
(* them only to a transfer that stays.                                     *)
THEOREM ImplementsPayout == Spec => PayoutSpec
<1>1. Init => P!Init
  BY PayoutInit
<1>2. TypeOK /\ IndInv /\ TypeOK' /\ IndInv' /\ [Next]_vars => [P!Next]_(P!vars)
  BY PayoutStep
<1> QED BY <1>1, <1>2, Inductive, PTL DEF Spec, PayoutSpec, P!Spec
=============================================================================
