-------------------------- MODULE BtcCustodyProofs --------------------------
(***************************************************************************)
(* Theorems about BtcCustody for every number of deposits and withdrawals, *)
(* every set of amounts, every fee rate, and a chain as bad as Faults      *)
(* allows: the books of the user, what the two workers send, what they     *)
(* lock, and that nothing is completed before it is buried.                *)
(***************************************************************************)
EXTENDS BtcCustody, SumsProofs

USE DEF Active, Status, Resumed, Unsigned, Unsent, Resting, Asleep

LEMMA Constants ==
  /\ NumDeposits \in Nat /\ NumWithdrawals \in Nat
  /\ Deposit = 1 .. NumDeposits /\ Withdrawal = 1 .. NumWithdrawals
  /\ Value \in [Deposit -> Nat] /\ Amount \subseteq Nat
  /\ Deposit \subseteq Outpoint /\ Deposit \subseteq Nat /\ Withdrawal \subseteq Nat
  /\ Rate \in Nat
BY BtcConstantsAssumption DEF Deposit, Withdrawal, Outpoint

LEMMA Treasuries ==
  /\ \A d \in Deposit : Treasury(d) \in Outpoint \ Deposit /\ Source(Treasury(d)) = d
  /\ \A d, e \in Deposit : Treasury(d) = Treasury(e) => d = e
BY Constants DEF Deposit, Outpoint, Treasury, Source

(* The transactions of rows are transactions. *)
LEMMA RowTxs ==
  ASSUME TypeOK
  PROVE  /\ \A w \in Withdrawal : PayTx(w) \in Tx /\ PayTx(w).kind = "withdrawal" /\ PayTx(w).id = w
         /\ \A d \in Deposit : SweepTx(d).kind = "sweep" /\ SweepTx(d).id = d
         /\ \A d \in Deposit : Sweepable(d) => SweepTx(d) \in Tx
<1>1. ASSUME NEW w \in Withdrawal PROVE PayTx(w) \in Tx /\ PayTx(w).kind = "withdrawal" /\ PayTx(w).id = w
  BY Constants DEF PayTx, Tx, TypeOK
<1>2. ASSUME NEW d \in Deposit PROVE SweepTx(d).kind = "sweep" /\ SweepTx(d).id = d
  BY DEF SweepTx
<1>3. ASSUME NEW d \in Deposit, Sweepable(d) PROVE SweepTx(d) \in Tx
  <2>1. SatsOf(Treasury(d)) = Value[d] - SweepFee
    BY Treasuries DEF SatsOf
  <2>2. Value[d] \in Nat /\ SweepFee \in Nat /\ Value[d] - SweepFee >= 294
    BY <1>3, Constants DEF SweepFee, Sweepable, Dust
  <2>3. SatsOf(Treasury(d)) \in Nat
    BY <2>1, <2>2
  <2> QED BY <2>3, Constants DEF SweepTx, Tx
<1> QED BY <1>1, <1>2, <1>3

(* The steps of Next by name: a step proof has one case for each. *)
LEMMA StepCases ==
  ASSUME [Next]_vars, NEW ACTION Case,
    \A d \in Deposit : Credit(d) => Case,
    \A w \in Withdrawal, a \in Amount : Create(w, a) => Case,
    \A w \in Withdrawal : LockInputs(w) => Case,
    \A w \in Withdrawal : SaveSigned(w) => Case,
    \A w \in Withdrawal : TestMempool(w) => Case,
    \A w \in Withdrawal : FailWithdrawal(w) => Case,
    \A w \in Withdrawal, b \in BOOLEAN : Send(w, b) => Case,
    \A w \in Withdrawal : SendRefused(w) => Case,
    \A w \in Withdrawal : MarkSent(w) => Case,
    \A w \in Withdrawal : CompleteWithdrawal(w) => Case,
    WorkerReturns => Case,
    \A d \in Deposit : SweepSave(d) => Case,
    \A d \in Deposit : SweepTest(d) => Case,
    \A d \in Deposit : SweepFail(d) => Case,
    \A d \in Deposit, b \in BOOLEAN : SweepSend(d, b) => Case,
    \A d \in Deposit : SweepRefused(d) => Case,
    \A d \in Deposit : SweepMarkSent(d) => Case,
    \A d \in Deposit : SweepComplete(d) => Case,
    SweeperReturns => Case,
    \A t \in mempool : Mine(t) => Case,
    \A t \in mempool : Evict(t) => Case,
    \A t \in mined : Bury(t) => Case,
    \A t \in mined : Reorg(t) => Case,
    UNCHANGED vars => Case
  PROVE Case
BY DEF Next, WorkerStep, SweepStep, ChainStep

(* The status a worker's step finds in its row. *)
LEMMA WorkerStatus ==
  ASSUME TypeOK, WorkersShape
  PROVE  /\ \A w \in Withdrawal :
              /\ WorkerAt(w, "start") => status[w] = "CREATED"
              /\ WorkerAt(w, "build") => status[w] = "CREATED" /\ worker.at = "build" /\ worker.row = w
              /\ WorkerAt(w, "test") \/ WorkerAt(w, "fail") => status[w] = "SIGNED"
              /\ WorkerAt(w, "send") => status[w] \in Resumed
              /\ WorkerAt(w, "confirm") => status[w] = "BROADCASTED"
         /\ \A d \in Deposit :
              /\ SweeperAt(d, "start") => sweepStatus[d] = "CREATED"
              /\ SweeperAt(d, "test") \/ SweeperAt(d, "fail") => sweepStatus[d] = "SIGNED"
              /\ SweeperAt(d, "send") => sweepStatus[d] \in Resumed
              /\ SweeperAt(d, "confirm") => sweepStatus[d] = "BROADCASTED"
<1>1. \A st \in Active : /\ FirstStep(st) = "start" <=> st = "CREATED"
                         /\ FirstStep(st) = "test" <=> st = "SIGNED"
                         /\ FirstStep(st) = "send" <=> st = "BROADCAST_UNKNOWN"
                         /\ FirstStep(st) = "confirm" <=> st = "BROADCASTED"
                         /\ FirstStep(st) \notin {"build", "fail"}
  BY DEF FirstStep
<1>2. /\ StatusAt("build") = {"CREATED"} /\ StatusAt("fail") = {"SIGNED"} /\ StatusAt("send") = {"SIGNED"}
  BY DEF StatusAt
<1>3. /\ worker.at \notin {"start", "test", "confirm"} /\ sweeper.at \notin {"start", "test", "confirm"}
  BY DEF TypeOK
<1>4. ASSUME NEW w \in Withdrawal
      PROVE  /\ WorkerAt(w, "start") => status[w] = "CREATED"
             /\ WorkerAt(w, "build") => status[w] = "CREATED" /\ worker.at = "build" /\ worker.row = w
             /\ WorkerAt(w, "test") \/ WorkerAt(w, "fail") => status[w] = "SIGNED"
             /\ WorkerAt(w, "send") => status[w] \in Resumed
             /\ WorkerAt(w, "confirm") => status[w] = "BROADCASTED"
  BY <1>1, <1>2, <1>3 DEF WorkerAt, WorkersShape
<1>5. ASSUME NEW d \in Deposit
      PROVE  /\ SweeperAt(d, "start") => sweepStatus[d] = "CREATED"
             /\ SweeperAt(d, "test") \/ SweeperAt(d, "fail") => sweepStatus[d] = "SIGNED"
             /\ SweeperAt(d, "send") => sweepStatus[d] \in Resumed
             /\ SweeperAt(d, "confirm") => sweepStatus[d] = "BROADCASTED"
  BY <1>1, <1>2, <1>3 DEF SweeperAt, WorkersShape
<1> QED BY <1>4, <1>5

(* Only unspent outputs are selected. *)
LEMMA Selected == \A a, S : S \in SelectUTXOs(a) => S \subseteq Unspent
BY DEF SelectUTXOs, Candidates

-----------------------------------------------------------------------------
(***************************************************************************)
(* Type correctness.                                                       *)
(***************************************************************************)
Confirming == [d \in Deposit |-> IF deposit[d] = "CONFIRMING" THEN Value[d] ELSE 0]
Holds      == [w \in Withdrawal |-> Hold(w)]
Payments   == [w \in Withdrawal |-> Paid(w)]

LEMMA SumTypes ==
  ASSUME TypeOK
  PROVE  /\ Confirming \in [1 .. NumDeposits -> Nat] /\ Confirming \in [1 .. NumDeposits -> Int]
         /\ Holds \in [1 .. NumWithdrawals -> Nat] /\ Holds \in [1 .. NumWithdrawals -> Int]
         /\ Payments \in [1 .. NumWithdrawals -> Nat] /\ Payments \in [1 .. NumWithdrawals -> Int]
         /\ Value \in [1 .. NumDeposits -> Int]
<1>1. Confirming \in [1 .. NumDeposits -> Nat] /\ Value \in [1 .. NumDeposits -> Int]
  BY Constants DEF Confirming
<1>2. Holds \in [1 .. NumWithdrawals -> Nat]
  BY Constants DEF Holds, Hold, TypeOK
<1>3. Payments \in [1 .. NumWithdrawals -> Nat]
  BY Constants DEF Payments, Paid, TypeOK
<1> QED BY <1>1, <1>2, <1>3

(* What a deposit or a live withdrawal has is in the balance it is held in. *)
LEMMA Held ==
  ASSUME TypeOK, PendingShape, BooksAgree
  PROVE  /\ \A d \in Deposit : deposit[d] = "CONFIRMING" => Value[d] <= pendingDeposit
         /\ \A w \in Withdrawal : status[w] \in Active => amount[w] <= pendingWithdrawal
<1>1. ASSUME NEW d \in Deposit, deposit[d] = "CONFIRMING" PROVE Value[d] <= pendingDeposit
  <2>1. Confirming[d] = Value[d]
    BY <1>1 DEF Confirming
  <2>2. Confirming[d] <= Total(Confirming, NumDeposits)
    BY SumTypes, TotalBounds, Constants
  <2> QED BY <2>1, <2>2 DEF PendingShape, Confirming
<1>2. ASSUME NEW w \in Withdrawal, status[w] \in Active PROVE amount[w] <= pendingWithdrawal
  <2>1. Holds[w] = amount[w]
    BY <1>2 DEF Holds, Hold
  <2>2. Holds[w] <= Total(Holds, NumWithdrawals)
    BY SumTypes, TotalBounds, Constants
  <2> QED BY <2>1, <2>2 DEF BooksAgree, Holds
<1> QED BY <1>1, <1>2

LEMMA InitType == Init => TypeOK
<1> SUFFICES ASSUME Init PROVE TypeOK
  OBVIOUS
<1>1. Total(Value, NumDeposits) \in Nat
  <2>1. Value = [i \in 1 .. NumDeposits |-> IF i \in 1 .. NumDeposits THEN Value[i] ELSE 0]
    BY Constants
  <2>2. SumOver(1 .. NumDeposits, Value, NumDeposits) \in Nat
    BY SumOverType, Constants
  <2> QED BY <2>1, <2>2 DEF SumOver
<1>2. entries \subseteq {"DEPOSIT_PENDING", "DEPOSIT_CREDIT", "WITHDRAW_RESERVE"} \X Nat
  BY Constants DEF Init
<1> QED BY <1>1, <1>2, Constants DEF Init, TypeOK

LEMMA NextType ==
  TypeOK /\ IndInv /\ [Next]_vars => TypeOK'
<1> SUFFICES ASSUME TypeOK, IndInv, [Next]_vars PROVE TypeOK'
  OBVIOUS
<1> USE Constants DEF TypeOK, ledger, outputs, rows, chain
<1>0. TypeOK /\ PendingShape /\ BooksAgree /\ SweepShape /\ WorkersShape
  BY DEF IndInv
<1>1. ASSUME NEW d \in Deposit, Credit(d) PROVE TypeOK'
  <2>1. Value[d] \in Nat /\ Value[d] <= pendingDeposit
    BY <1>0, <1>1, Held DEF Credit
  <2>2. pendingDeposit' \in Nat /\ available' \in Nat
    BY <1>1, <2>1, SMTT(40) DEF Credit
  <2>3. utxo' \in [Outpoint -> {"none", "UNCONFIRMED", "UNSPENT", "LOCKED", "SPENT"}]
    BY <1>1 DEF Credit
  <2>4. entries' \subseteq {"DEPOSIT_PENDING", "DEPOSIT_CREDIT", "WITHDRAW_RESERVE"} \X Nat
    BY <1>1 DEF Credit
  <2> QED BY <1>1, <2>2, <2>3, <2>4 DEF Credit
<1>2. ASSUME NEW w \in Withdrawal, NEW a \in Amount, Create(w, a) PROVE TypeOK'
  <2>1. a \in Nat /\ available >= a
    BY <1>2 DEF Create, Covers
  <2>2. pendingWithdrawal' \in Nat /\ available' \in Nat
    BY <1>2, <2>1 DEF Create
  <2>3. entries' \subseteq {"DEPOSIT_PENDING", "DEPOSIT_CREDIT", "WITHDRAW_RESERVE"} \X Nat
    BY <1>2 DEF Create
  <2> QED BY <1>2, <2>1, <2>2, <2>3 DEF Create
<1>3. ASSUME NEW w \in Withdrawal, LockInputs(w) PROVE TypeOK'
  <2>1. PICK S \in SelectUTXOs(amount[w]) :
          /\ utxo' = [o \in Outpoint |-> IF o \in S THEN "LOCKED" ELSE utxo[o]]
          /\ lockedBy' = [o \in Outpoint |-> IF o \in S THEN w ELSE lockedBy[o]]
          /\ WorkerGoto(w, "build", S)
    BY <1>3 DEF LockInputs
  <2>2. S \subseteq Outpoint
    BY Selected DEF Unspent
  <2> QED BY <1>3, <2>1, <2>2 DEF LockInputs, WorkerGoto
<1>4. ASSUME NEW w \in Withdrawal, SaveSigned(w) PROVE TypeOK'
  BY <1>4 DEF SaveSigned
<1>5. ASSUME NEW w \in Withdrawal, TestMempool(w) PROVE TypeOK'
  BY <1>5 DEF TestMempool, WorkerGoto
<1>6. ASSUME NEW w \in Withdrawal, FailWithdrawal(w) PROVE TypeOK'
  <2>1. amount[w] \in Nat /\ amount[w] <= pendingWithdrawal
    BY <1>0, <1>6, Held DEF FailWithdrawal
  <2>2. pendingWithdrawal' \in Nat /\ available' \in Nat
    BY <1>6, <2>1 DEF FailWithdrawal
  <2>3. /\ utxo' \in [Outpoint -> {"none", "UNCONFIRMED", "UNSPENT", "LOCKED", "SPENT"}]
        /\ lockedBy' \in [Outpoint -> 0 .. NumWithdrawals]
    BY <1>6 DEF FailWithdrawal, Turn
  <2> QED BY <1>6, <2>2, <2>3 DEF FailWithdrawal
<1>7. ASSUME NEW w \in Withdrawal, NEW b \in BOOLEAN, Send(w, b) PROVE TypeOK'
  <2>1. PayTx(w) \in Tx
    BY <1>0, RowTxs
  <2> QED BY <1>7, <2>1 DEF Send, WorkerGoto
<1>8. ASSUME NEW w \in Withdrawal, SendRefused(w) PROVE TypeOK'
  BY <1>8 DEF SendRefused, WorkerGoto
<1>9. ASSUME NEW w \in Withdrawal, MarkSent(w) PROVE TypeOK'
  BY <1>9 DEF MarkSent
<1>10. ASSUME NEW w \in Withdrawal, CompleteWithdrawal(w) PROVE TypeOK'
  <2>1. pendingWithdrawal' \in Nat
    BY <1>10 DEF CompleteWithdrawal, Settled
  <2>2. /\ utxo' \in [Outpoint -> {"none", "UNCONFIRMED", "UNSPENT", "LOCKED", "SPENT"}]
        /\ lockedBy' \in [Outpoint -> 0 .. NumWithdrawals]
    BY <1>10 DEF CompleteWithdrawal, Turn
  <2> QED BY <1>10, <2>1, <2>2 DEF CompleteWithdrawal
<1>11. ASSUME WorkerReturns PROVE TypeOK'
  BY <1>11 DEF WorkerReturns
<1>12. ASSUME SweeperReturns PROVE TypeOK'
  BY <1>12 DEF SweeperReturns
<1>13. ASSUME NEW d \in Deposit, SweepSave(d) PROVE TypeOK'
  BY <1>13 DEF SweepSave
<1>14. ASSUME NEW d \in Deposit, SweepMarkSent(d) PROVE TypeOK'
  BY <1>14 DEF SweepMarkSent
<1>15. ASSUME NEW d \in Deposit, SweepTest(d) \/ SweepRefused(d) PROVE TypeOK'
  BY <1>15, SMTT(40) DEF SweepTest, SweepRefused, SweeperGoto
<1>16. ASSUME NEW d \in Deposit, SweepFail(d) PROVE TypeOK'
  BY <1>16 DEF SweepFail
<1>17. ASSUME NEW d \in Deposit, NEW b \in BOOLEAN, SweepSend(d, b) PROVE TypeOK'
  <2>1. sweepStatus[d] \in Resumed
    BY <1>0, <1>17, WorkerStatus DEF SweepSend
  <2>2. SweepTx(d) \in Tx
    BY <1>0, <2>1, RowTxs DEF SweepShape
  <2> QED BY <1>17, <2>2 DEF SweepSend, SweeperGoto
<1>18. ASSUME NEW d \in Deposit, SweepComplete(d) PROVE TypeOK'
  <2>1. utxo' \in [Outpoint -> {"none", "UNCONFIRMED", "UNSPENT", "LOCKED", "SPENT"}]
    BY <1>18, Treasuries DEF SweepComplete
  <2> QED BY <1>18, <2>1 DEF SweepComplete
<1>19. ASSUME NEW t \in mempool, Mine(t) PROVE TypeOK'
  BY <1>19 DEF Mine
<1>20. ASSUME NEW t \in mempool, Evict(t) PROVE TypeOK'
  BY <1>20 DEF Evict
<1>21. ASSUME NEW t \in mined, Bury(t) \/ Reorg(t) PROVE TypeOK'
  BY <1>21 DEF Bury, Reorg
<1>22. ASSUME UNCHANGED vars PROVE TypeOK'
  BY <1>22 DEF vars
<1> HIDE DEF TypeOK, ledger, outputs, rows, chain
<1> QED
  BY <1>1, <1>2, <1>3, <1>4, <1>5, <1>6, <1>7, <1>8, <1>9, <1>10, <1>11, <1>12, <1>13, <1>14,
     <1>15, <1>16, <1>17, <1>18, <1>19, <1>20, <1>21, <1>22, StepCases

-----------------------------------------------------------------------------
(***************************************************************************)
(* What a step does to rows and to the chain.                              *)
(***************************************************************************)

(* A signed row keeps its transaction, a completed one stays completed.    *)
LEMMA RowsKeep ==
  ASSUME TypeOK, IndInv, [Next]_vars
  PROVE  /\ \A w \in Withdrawal :
              status[w] \notin Unsent => status'[w] \notin Unsent /\ PayTx(w)' = PayTx(w)
         /\ \A d \in Deposit : sweepStatus[d] \notin Unsent => sweepStatus'[d] \notin Unsent
<1> DEFINE Goal == /\ \A w \in Withdrawal :
                        status[w] \notin Unsent => status'[w] \notin Unsent /\ PayTx(w)' = PayTx(w)
                   /\ \A d \in Deposit : sweepStatus[d] \notin Unsent => sweepStatus'[d] \notin Unsent
<1> USE DEF TypeOK, PayTx, rows
<1>1. ASSUME UNCHANGED <<rows, sweepStatus>> PROVE Goal
  BY <1>1
<1>2. ASSUME NEW d \in Deposit, Credit(d) PROVE Goal
  BY <1>2 DEF Credit
<1>3. ASSUME NEW w \in Withdrawal, NEW a \in Amount, Create(w, a) PROVE Goal
  BY <1>3 DEF Create
<1>4. ASSUME NEW w \in Withdrawal, SaveSigned(w) PROVE Goal
  BY <1>4 DEF SaveSigned
<1>5. ASSUME NEW w \in Withdrawal, FailWithdrawal(w) PROVE Goal
  BY <1>5 DEF FailWithdrawal
<1>6. ASSUME NEW w \in Withdrawal, MarkSent(w) PROVE Goal
  BY <1>6 DEF MarkSent
<1>7. ASSUME NEW w \in Withdrawal, CompleteWithdrawal(w) PROVE Goal
  BY <1>7 DEF CompleteWithdrawal
<1>8. ASSUME NEW d \in Deposit, SweepSave(d) PROVE Goal
  BY <1>8 DEF SweepSave
<1>9. ASSUME NEW d \in Deposit, SweepFail(d) PROVE Goal
  BY <1>9 DEF SweepFail
<1>10. ASSUME NEW d \in Deposit, SweepMarkSent(d) PROVE Goal
  BY <1>10 DEF SweepMarkSent
<1>11. ASSUME NEW d \in Deposit, SweepComplete(d) PROVE Goal
  BY <1>11 DEF SweepComplete
<1> HIDE DEF Goal, TypeOK, PayTx, rows
<1>12. Goal
  BY <1>1, <1>2, <1>3, <1>4, <1>5, <1>6, <1>7, <1>8, <1>9, <1>10, <1>11, StepCases
     DEF LockInputs, TestMempool, Send, SendRefused, WorkerReturns, SweepTest, SweepSend, SweepRefused,
         SweeperReturns, Mine, Evict, Bury, Reorg, vars
<1> QED BY <1>12 DEF Goal

(* The node learns of a transaction by a send, of a row that is resumed.   *)
LEMMA KnownSteps ==
  ASSUME TypeOK, IndInv, [Next]_vars
  PROVE  \A t \in Known' :
           \/ t \in Known
           \/ \E w \in Withdrawal : t = PayTx(w) /\ status[w] \in Resumed
           \/ \E d \in Deposit : t = SweepTx(d) /\ sweepStatus[d] \in Resumed
<1> DEFINE Goal == \A t \in Known' :
                     \/ t \in Known
                     \/ \E w \in Withdrawal : t = PayTx(w) /\ status[w] \in Resumed
                     \/ \E d \in Deposit : t = SweepTx(d) /\ sweepStatus[d] \in Resumed
<1>0. WorkersShape
  BY DEF IndInv
<1>1. ASSUME UNCHANGED chain PROVE Goal
  BY <1>1 DEF Known, chain
<1>2. ASSUME NEW w \in Withdrawal, NEW b \in BOOLEAN, Send(w, b) PROVE Goal
  BY <1>0, <1>2, WorkerStatus DEF Send, Known
<1>3. ASSUME NEW d \in Deposit, NEW b \in BOOLEAN, SweepSend(d, b) PROVE Goal
  BY <1>0, <1>3, WorkerStatus DEF SweepSend, Known
<1>4. ASSUME NEW t \in mempool, Mine(t) PROVE Goal
  BY <1>4 DEF Mine, Known
<1>5. ASSUME NEW t \in mempool, Evict(t) PROVE Goal
  BY <1>5 DEF Evict, Known
<1>6. ASSUME NEW t \in mined, Bury(t) PROVE Goal
  BY <1>6 DEF Bury, Known
<1>7. ASSUME NEW t \in mined, Reorg(t) PROVE Goal
  BY <1>7 DEF Reorg, Known
<1> HIDE DEF Goal
<1>8. Goal
  BY <1>1, <1>2, <1>3, <1>4, <1>5, <1>6, <1>7, StepCases
     DEF Credit, Create, LockInputs, SaveSigned, TestMempool, FailWithdrawal, SendRefused, MarkSent,
         CompleteWithdrawal, WorkerReturns, SweepSave, SweepTest, SweepFail, SweepRefused, SweepMarkSent,
         SweepComplete, SweeperReturns, vars
<1> QED BY <1>8 DEF Goal

LEMMA BuriedGrows == ASSUME [Next]_vars PROVE buried \subseteq buried'
<1>1. ASSUME UNCHANGED buried PROVE buried \subseteq buried'
  BY <1>1
<1>2. ASSUME NEW t \in mined, Bury(t) PROVE buried \subseteq buried'
  BY <1>2 DEF Bury
<1> QED BY <1>1, <1>2, StepCases
  DEF Credit, Create, LockInputs, SaveSigned, TestMempool, FailWithdrawal, Send, SendRefused, MarkSent,
      CompleteWithdrawal, WorkerReturns, SweepSave, SweepTest, SweepFail, SweepSend, SweepRefused,
      SweepMarkSent, SweepComplete, SweeperReturns, Mine, Evict, Reorg, vars, chain

-----------------------------------------------------------------------------
(***************************************************************************)
(* The parts of the inductive invariant, one lemma each.                   *)
(***************************************************************************)
LEMMA InitIndInv == Init => IndInv
<1> SUFFICES ASSUME Init PROVE IndInv
  OBVIOUS
<1> USE Constants DEF Init
<1>1. PendingShape
  <2>1. [d \in Deposit |-> IF deposit[d] = "CONFIRMING" THEN Value[d] ELSE 0] = Value
    OBVIOUS
  <2> QED BY <2>1 DEF PendingShape
<1>2. SentShape /\ SentIsRecorded /\ SweepShape /\ WorkersShape /\ LockShape
  BY DEF SentShape, SentIsRecorded, SweepShape, WorkersShape, LockShape, Known
<1>3. CompletedIsBuried /\ LocksAreLive
  BY Treasuries DEF CompletedIsBuried, LocksAreLive
<1>4. BooksAgree
  <2>1. [w \in Withdrawal |-> Hold(w)] = [i \in 1 .. NumWithdrawals |-> 0]
    BY DEF Hold
  <2>2. [w \in Withdrawal |-> Paid(w)] = [i \in 1 .. NumWithdrawals |-> 0]
    BY DEF Paid
  <2>3. Total([i \in 1 .. NumWithdrawals |-> 0], NumWithdrawals) = 0
    BY TotalZero
  <2>4. Value \in [1 .. NumDeposits -> Int]
    OBVIOUS
  <2>5. Total(Value, NumDeposits) \in Int
    BY <2>4, TotalType
  <2>6. pendingWithdrawal = 0 /\ available = 0 /\ pendingDeposit = Total(Value, NumDeposits)
    OBVIOUS
  <2> HIDE DEF Init
  <2> QED BY <2>1, <2>2, <2>3, <2>5, <2>6 DEF BooksAgree
<1> QED BY <1>1, <1>2, <1>3, <1>4 DEF IndInv

LEMMA NextSent ==
  ASSUME TypeOK, IndInv, [Next]_vars
  PROVE  SentShape' /\ SentIsRecorded'
<1>1. \A t \in Known :
        /\ t.kind = "sweep" => t.id \in Deposit /\ t = SweepTx(t.id) /\ sweepStatus[t.id] \notin Unsent
        /\ t.kind = "withdrawal" => t.id \in Withdrawal /\ t = PayTx(t.id) /\ status[t.id] \notin Unsent
  BY DEF IndInv, SentShape, SentIsRecorded
<1>2. ASSUME NEW t \in Known'
      PROVE  /\ t.kind = "sweep" => t.id \in Deposit /\ t = SweepTx(t.id) /\ sweepStatus'[t.id] \notin Unsent
             /\ t.kind = "withdrawal" => t.id \in Withdrawal /\ t = PayTx(t.id)' /\ status'[t.id] \notin Unsent
  <2>1. CASE t \in Known
    <3>1. ASSUME t.kind = "withdrawal"
          PROVE  t.id \in Withdrawal /\ t = PayTx(t.id)' /\ status'[t.id] \notin Unsent
      <4>1. PICK w \in Withdrawal : w = t.id /\ t = PayTx(w) /\ status[w] \notin Unsent
        BY <1>1, <2>1, <3>1
      <4>2. PayTx(w)' = PayTx(w) /\ status'[w] \notin Unsent
        BY <4>1, RowsKeep
      <4> QED BY <4>1, <4>2
    <3>2. ASSUME t.kind = "sweep"
          PROVE  t.id \in Deposit /\ t = SweepTx(t.id) /\ sweepStatus'[t.id] \notin Unsent
      <4>1. PICK d \in Deposit : d = t.id /\ t = SweepTx(d) /\ sweepStatus[d] \notin Unsent
        BY <1>1, <2>1, <3>2
      <4>2. sweepStatus'[d] \notin Unsent
        BY <4>1, RowsKeep
      <4> QED BY <4>1, <4>2
    <3> QED BY <3>1, <3>2
  <2>2. ASSUME NEW w \in Withdrawal, t = PayTx(w), status[w] \in Resumed
        PROVE  t.kind = "withdrawal" /\ t.id = w /\ t = PayTx(w)' /\ status'[w] \notin Unsent
    BY <2>2, RowsKeep, RowTxs
  <2>3. ASSUME NEW d \in Deposit, t = SweepTx(d), sweepStatus[d] \in Resumed
        PROVE  t.kind = "sweep" /\ t.id = d /\ sweepStatus'[d] \notin Unsent
    BY <2>3, RowsKeep, RowTxs
  <2> QED BY <2>1, <2>2, <2>3, KnownSteps
<1>3. SentShape'
  BY <1>2 DEF SentShape
<1>4. (\A t \in Known : t.kind = "sweep" => t = SweepTx(t.id) /\ sweepStatus[t.id] \notin {"none", "CREATED"})'
  BY <1>2
<1>5. (\A t \in Known : t.kind = "withdrawal" => t = PayTx(t.id))'
  BY <1>2
<1> QED BY <1>3, <1>4, <1>5 DEF SentIsRecorded

LEMMA NextSweepShape ==
  ASSUME TypeOK, IndInv, [Next]_vars
  PROVE  SweepShape'
<1> USE DEF TypeOK
<1>0. SweepShape /\ WorkersShape
  BY DEF IndInv
<1>1. ASSUME UNCHANGED sweepStatus PROVE SweepShape'
  BY <1>0, <1>1 DEF SweepShape
<1>2. ASSUME NEW d \in Deposit, SweepSave(d) PROVE SweepShape'
  BY <1>0, <1>2 DEF SweepShape, SweepSave
<1>3. ASSUME NEW d \in Deposit, SweepFail(d) \/ SweepMarkSent(d) \/ SweepComplete(d) PROVE SweepShape'
  <2>1. sweepStatus[d] \notin Unsent /\ \A e \in Deposit : e # d => sweepStatus'[e] = sweepStatus[e]
    BY <1>0, <1>3, WorkerStatus DEF SweepFail, SweepMarkSent, SweepComplete
  <2> QED BY <1>0, <2>1 DEF SweepShape
<1>4. ASSUME NEW d \in Deposit, Credit(d) PROVE SweepShape'
  BY <1>0, <1>4 DEF SweepShape, Credit
<1> HIDE DEF TypeOK
<1> QED BY <1>1, <1>2, <1>3, <1>4, StepCases
  DEF Create, LockInputs, SaveSigned, TestMempool, FailWithdrawal, Send, SendRefused, MarkSent,
      CompleteWithdrawal, WorkerReturns, SweepTest, SweepSend, SweepRefused, SweeperReturns,
      Mine, Evict, Bury, Reorg, vars

LEMMA NextLocks ==
  ASSUME TypeOK, IndInv, [Next]_vars
  PROVE  LockShape' /\ LocksAreLive'
<1> DEFINE Goal == \A o \in Outpoint : utxo'[o] = "LOCKED" => lockedBy'[o] \in Withdrawal /\ status'[lockedBy'[o]] \in Active
<1> USE DEF TypeOK
<1>0. /\ WorkersShape
      /\ \A o \in Outpoint : utxo[o] = "LOCKED" => lockedBy[o] \in Withdrawal /\ status[lockedBy[o]] \in Active
  BY DEF IndInv, LockShape, LocksAreLive
<1>1. ASSUME UNCHANGED lockedBy,
             \A o \in Outpoint : utxo'[o] = "LOCKED" => utxo[o] = "LOCKED",
             \A w \in Withdrawal : status[w] \in Active => status'[w] \in Active
      PROVE  Goal
  BY <1>0, <1>1
<1>2. ASSUME NEW w \in Withdrawal, LockInputs(w) PROVE Goal
  <2>1. PICK S : /\ utxo' = [o \in Outpoint |-> IF o \in S THEN "LOCKED" ELSE utxo[o]]
                 /\ lockedBy' = [o \in Outpoint |-> IF o \in S THEN w ELSE lockedBy[o]]
    BY <1>2 DEF LockInputs
  <2>2. status[w] \in Active /\ status' = status
    BY <1>2 DEF LockInputs, rows
  <2> QED BY <1>0, <2>1, <2>2
<1>3. ASSUME NEW w \in Withdrawal, NEW to, to # "LOCKED", Turn(HeldBySettled(w), to),
             \A v \in Withdrawal : v # w => status'[v] = status[v]
      PROVE  Goal
  <2>1. ASSUME NEW o \in Outpoint, utxo'[o] = "LOCKED"
        PROVE  utxo[o] = "LOCKED" /\ lockedBy'[o] = lockedBy[o] /\ lockedBy[o] # w
    BY <1>3, <2>1 DEF Turn, HeldBySettled
  <2> QED BY <1>0, <1>3, <2>1
<1>4. ASSUME NEW w \in Withdrawal, FailWithdrawal(w) PROVE Goal
  BY <1>3, <1>4 DEF FailWithdrawal
<1>5. ASSUME NEW w \in Withdrawal, CompleteWithdrawal(w) PROVE Goal
  BY <1>3, <1>5 DEF CompleteWithdrawal
<1>6. ASSUME NEW d \in Deposit, Credit(d) PROVE Goal
  BY <1>1, <1>6 DEF Credit, rows
<1>7. ASSUME NEW w \in Withdrawal, NEW a \in Amount, Create(w, a) PROVE Goal
  BY <1>1, <1>7 DEF Create, outputs
<1>8. ASSUME NEW w \in Withdrawal, SaveSigned(w) PROVE Goal
  BY <1>1, <1>8 DEF SaveSigned, outputs
<1>9. ASSUME NEW w \in Withdrawal, MarkSent(w) PROVE Goal
  BY <1>1, <1>9 DEF MarkSent, outputs
<1>10. ASSUME NEW d \in Deposit, SweepFail(d) PROVE Goal
  BY <1>1, <1>10 DEF SweepFail, rows
<1>11. ASSUME NEW d \in Deposit, SweepComplete(d) PROVE Goal
  <2>1. \A o \in Outpoint : utxo'[o] = "LOCKED" => utxo[o] = "LOCKED"
    BY <1>11, Treasuries DEF SweepComplete
  <2> QED BY <1>1, <1>11, <2>1 DEF SweepComplete, rows
<1>12. ASSUME UNCHANGED <<outputs, rows>> PROVE Goal
  BY <1>1, <1>12 DEF outputs, rows
<1> HIDE DEF Goal, TypeOK
<1>13. Goal
  BY <1>2, <1>4, <1>5, <1>6, <1>7, <1>8, <1>9, <1>10, <1>11, <1>12, StepCases
     DEF TestMempool, Send, SendRefused, WorkerReturns, SweepSave, SweepTest, SweepSend, SweepRefused,
         SweepMarkSent, SweeperReturns, Mine, Evict, Bury, Reorg, vars
<1> QED BY <1>13 DEF Goal, LockShape, LocksAreLive

LEMMA NextWorkersShape ==
  ASSUME TypeOK, IndInv, [Next]_vars
  PROVE  WorkersShape'
<1> USE DEF TypeOK
<1>0. /\ WorkersShape
      /\ StatusAt("build") = {"CREATED"} /\ StatusAt("fail") = {"SIGNED"} /\ StatusAt("send") = {"SIGNED"}
      /\ StatusAt("unknown") = Resumed /\ StatusAt("broadcasted") = Resumed
  BY DEF IndInv, StatusAt
<1>1. ASSUME worker'.at = "idle" \/ (UNCHANGED worker /\ status'[worker.row] = status[worker.row]),
             sweeper'.at = "idle" \/ (UNCHANGED sweeper /\ sweepStatus'[sweeper.row] = sweepStatus[sweeper.row])
      PROVE  WorkersShape'
  BY <1>0, <1>1 DEF WorkersShape
<1>2. ASSUME NEW w \in Withdrawal, NEW l, NEW S, WorkerGoto(w, l, S), status'[w] \in StatusAt(l),
             UNCHANGED <<sweeper, sweepStatus>>
      PROVE  WorkersShape'
  BY <1>0, <1>2 DEF WorkersShape, WorkerGoto
<1>3. ASSUME NEW d \in Deposit, NEW l, SweeperGoto(d, l), sweepStatus'[d] \in StatusAt(l),
             UNCHANGED <<worker, status>>
      PROVE  WorkersShape'
  BY <1>0, <1>3 DEF WorkersShape, SweeperGoto
<1>4. ASSUME NEW d \in Deposit, Credit(d) PROVE WorkersShape'
  <2>1. sweepStatus[d] # "none" => sweepStatus'[d] = sweepStatus[d]
    BY <1>4 DEF Credit
  <2>2. sweeper.at # "idle" => sweepStatus[sweeper.row] # "none"
    BY <1>0 DEF WorkersShape, StatusAt
  <2>3. sweeper.at # "idle" => sweepStatus'[sweeper.row] = sweepStatus[sweeper.row]
    BY <1>4, <2>1, <2>2 DEF Credit
  <2> QED BY <1>1, <1>4, <2>3 DEF Credit, rows
<1>5. ASSUME NEW w \in Withdrawal, NEW a \in Amount, Create(w, a) PROVE WorkersShape'
  <2>1. worker.at # "idle" => status[worker.row] # "none"
    BY <1>0 DEF WorkersShape, StatusAt
  <2>2. worker.at # "idle" => status'[worker.row] = status[worker.row]
    BY <1>5, <2>1 DEF Create
  <2> QED BY <1>1, <1>5, <2>2 DEF Create
<1>6. ASSUME NEW w \in Withdrawal, LockInputs(w) PROVE WorkersShape'
  <2>1. PICK S : WorkerGoto(w, "build", S)
    BY <1>6 DEF LockInputs
  <2>2. status'[w] = "CREATED" /\ UNCHANGED <<sweeper, sweepStatus>>
    BY <1>6 DEF LockInputs, rows
  <2> QED BY <1>0, <1>2, <2>1, <2>2
<1>7. ASSUME NEW w \in Withdrawal, TestMempool(w) PROVE WorkersShape'
  <2>1. status'[w] = "SIGNED" /\ UNCHANGED <<sweeper, sweepStatus>>
    BY <1>0, <1>7, WorkerStatus DEF TestMempool, rows
  <2>2. CASE Acceptable(PayTx(w))
    BY <1>0, <1>2, <1>7, <2>1, <2>2 DEF TestMempool
  <2>3. CASE ~ Acceptable(PayTx(w))
    BY <1>0, <1>2, <1>7, <2>1, <2>3 DEF TestMempool
  <2> QED BY <2>2, <2>3
<1>8. ASSUME NEW w \in Withdrawal, NEW b \in BOOLEAN, Send(w, b) PROVE WorkersShape'
  <2>1. status'[w] \in Resumed /\ UNCHANGED <<sweeper, sweepStatus>>
    BY <1>0, <1>8, WorkerStatus DEF Send, rows
  <2>2. WorkerGoto(w, "broadcasted", {}) \/ WorkerGoto(w, "unknown", {})
    BY <1>8 DEF Send
  <2> QED BY <1>0, <1>2, <2>1, <2>2
<1>9. ASSUME NEW w \in Withdrawal, SendRefused(w) PROVE WorkersShape'
  <2>1. status'[w] \in Resumed /\ UNCHANGED <<sweeper, sweepStatus>>
    BY <1>0, <1>9, WorkerStatus DEF SendRefused, rows
  <2> QED BY <1>0, <1>2, <1>9, <2>1 DEF SendRefused
<1>10. ASSUME NEW w \in Withdrawal, SaveSigned(w) \/ FailWithdrawal(w) \/ MarkSent(w) \/ CompleteWithdrawal(w)
       PROVE  WorkersShape'
  <2>1. worker'.at = "idle" /\ UNCHANGED <<sweeper, sweepStatus>>
    BY <1>10 DEF SaveSigned, FailWithdrawal, MarkSent, CompleteWithdrawal
  <2> QED BY <1>1, <2>1
<1>11. ASSUME NEW d \in Deposit, SweepTest(d) PROVE WorkersShape'
  <2>1. sweepStatus'[d] = "SIGNED" /\ UNCHANGED <<worker, status>>
    BY <1>0, <1>11, WorkerStatus DEF SweepTest, rows
  <2>2. SweeperGoto(d, "send") \/ SweeperGoto(d, "fail")
    BY <1>11 DEF SweepTest
  <2> QED BY <1>0, <1>3, <2>1, <2>2
<1>12. ASSUME NEW d \in Deposit, NEW b \in BOOLEAN, SweepSend(d, b) PROVE WorkersShape'
  <2>1. sweepStatus'[d] \in Resumed /\ UNCHANGED <<worker, status>>
    BY <1>0, <1>12, WorkerStatus DEF SweepSend, rows
  <2>2. SweeperGoto(d, "broadcasted") \/ SweeperGoto(d, "unknown")
    BY <1>12 DEF SweepSend
  <2> QED BY <1>0, <1>3, <2>1, <2>2
<1>13. ASSUME NEW d \in Deposit, SweepRefused(d) PROVE WorkersShape'
  <2>1. sweepStatus'[d] \in Resumed /\ UNCHANGED <<worker, status>>
    BY <1>0, <1>13, WorkerStatus DEF SweepRefused, rows
  <2> QED BY <1>0, <1>3, <1>13, <2>1 DEF SweepRefused
<1>14. ASSUME NEW d \in Deposit, SweepSave(d) \/ SweepFail(d) \/ SweepMarkSent(d) \/ SweepComplete(d)
       PROVE  WorkersShape'
  <2>1. sweeper'.at = "idle" /\ UNCHANGED <<worker, status>>
    BY <1>14 DEF SweepSave, SweepFail, SweepMarkSent, SweepComplete, rows
  <2> QED BY <1>1, <2>1
<1>15. ASSUME WorkerReturns \/ SweeperReturns PROVE WorkersShape'
  <2>1. /\ worker'.at = "idle" \/ (UNCHANGED worker /\ UNCHANGED status)
        /\ sweeper'.at = "idle" \/ (UNCHANGED sweeper /\ UNCHANGED sweepStatus)
    BY <1>15 DEF WorkerReturns, SweeperReturns, rows
  <2> QED BY <1>1, <2>1
<1>16. ASSUME UNCHANGED <<worker, status, sweeper, sweepStatus>> PROVE WorkersShape'
  BY <1>1, <1>16
<1> HIDE DEF TypeOK
<1> QED BY <1>4, <1>5, <1>6, <1>7, <1>8, <1>9, <1>10, <1>11, <1>12, <1>13, <1>14, <1>15, <1>16, StepCases
  DEF Mine, Evict, Bury, Reorg, vars, rows

LEMMA NextCompletedIsBuried ==
  ASSUME TypeOK, IndInv, [Next]_vars
  PROVE  CompletedIsBuried'
<1> DEFINE Goal == /\ \A w \in Withdrawal : status'[w] = "COMPLETED" => status[w] = "COMPLETED" \/ PayTx(w)' \in buried
                   /\ \A d \in Deposit : utxo'[Treasury(d)] # "none" =>
                                         utxo[Treasury(d)] # "none" \/ SweepTx(d) \in buried
<1> USE DEF TypeOK
<1>0. WorkersShape
  BY DEF IndInv
<1>1. ASSUME \A w \in Withdrawal : status'[w] = "COMPLETED" => status[w] = "COMPLETED",
             \A o \in Outpoint \ Deposit : utxo'[o] # "none" => utxo[o] # "none"
      PROVE  Goal
  BY <1>1, Treasuries
<1>2. ASSUME NEW d \in Deposit, Credit(d) PROVE Goal
  BY <1>1, <1>2 DEF Credit, rows
<1>3. ASSUME NEW w \in Withdrawal, NEW a \in Amount, Create(w, a) PROVE Goal
  BY <1>1, <1>3 DEF Create, outputs
<1>4. ASSUME NEW w \in Withdrawal, LockInputs(w) PROVE Goal
  <2>1. PICK S \in SelectUTXOs(amount[w]) : utxo' = [o \in Outpoint |-> IF o \in S THEN "LOCKED" ELSE utxo[o]]
    BY <1>4 DEF LockInputs
  <2>2. \A o \in S : utxo[o] = "UNSPENT"
    BY Selected DEF Unspent
  <2> QED BY <1>1, <1>4, <2>1, <2>2 DEF LockInputs, rows
<1>5. ASSUME NEW w \in Withdrawal, SaveSigned(w) PROVE Goal
  BY <1>1, <1>5 DEF SaveSigned, outputs
<1>6. ASSUME NEW w \in Withdrawal, FailWithdrawal(w) PROVE Goal
  BY <1>1, <1>6 DEF FailWithdrawal, Turn, HeldBySettled
<1>7. ASSUME NEW w \in Withdrawal, MarkSent(w) PROVE Goal
  BY <1>1, <1>7 DEF MarkSent, outputs
<1>8. ASSUME NEW w \in Withdrawal, CompleteWithdrawal(w) PROVE Goal
  <2>1. PayTx(w) \in buried /\ status[w] \notin Unsent
    BY <1>0, <1>8, WorkerStatus DEF CompleteWithdrawal, Confirmed
  <2>2. PayTx(w)' \in buried
    BY <2>1, RowsKeep
  <2>3. \A v \in Withdrawal : v # w => status'[v] = status[v]
    BY <1>8 DEF CompleteWithdrawal
  <2>4. \A o \in Outpoint \ Deposit : utxo'[o] # "none" => utxo[o] # "none"
    BY <1>8 DEF CompleteWithdrawal, Turn, HeldBySettled
  <2> QED BY <2>2, <2>3, <2>4, Treasuries
<1>9. ASSUME NEW d \in Deposit, SweepFail(d) PROVE Goal
  BY <1>1, <1>9 DEF SweepFail, rows
<1>10. ASSUME NEW d \in Deposit, SweepComplete(d) PROVE Goal
  <2>1. SweepTx(d) \in buried /\ status' = status
    BY <1>10 DEF SweepComplete, Confirmed, rows
  <2>2. \A o \in Outpoint : o # Treasury(d) /\ utxo'[o] # "none" => utxo[o] # "none"
    BY <1>10 DEF SweepComplete
  <2> QED BY <2>1, <2>2, Treasuries
<1>11. ASSUME UNCHANGED <<outputs, rows>> PROVE Goal
  BY <1>1, <1>11 DEF outputs, rows
<1> HIDE DEF Goal, TypeOK
<1>12. Goal
  BY <1>2, <1>3, <1>4, <1>5, <1>6, <1>7, <1>8, <1>9, <1>10, <1>11, StepCases
     DEF TestMempool, Send, SendRefused, WorkerReturns, SweepSave, SweepTest, SweepSend, SweepRefused,
         SweepMarkSent, SweeperReturns, Mine, Evict, Bury, Reorg, vars
<1>13. ASSUME NEW w \in Withdrawal, status'[w] = "COMPLETED" PROVE PayTx(w)' \in buried'
  <2>1. CASE status[w] = "COMPLETED"
    <3>1. PayTx(w) \in buried
      BY <2>1 DEF IndInv, CompletedIsBuried
    <3>2. PayTx(w)' = PayTx(w)
      BY <2>1, RowsKeep
    <3> QED BY <3>1, <3>2, BuriedGrows
  <2>2. CASE status[w] # "COMPLETED"
    BY <1>12, <1>13, <2>2, BuriedGrows DEF Goal
  <2> QED BY <2>1, <2>2
<1>14. ASSUME NEW d \in Deposit, utxo'[Treasury(d)] # "none" PROVE SweepTx(d) \in buried'
  BY <1>12, <1>14, BuriedGrows DEF Goal, IndInv, CompletedIsBuried
<1> QED BY <1>13, <1>14 DEF CompletedIsBuried

LEMMA HoldTypes ==
  TypeOK => Holds \in [1 .. NumWithdrawals -> Int] /\ Payments \in [1 .. NumWithdrawals -> Int]
BY SumTypes

(* One row's change of status or amount changes the sums by its own. *)
LEMMA OneRow ==
  ASSUME TypeOK, TypeOK', NEW w \in Withdrawal,
         \A v \in Withdrawal : v # w => status'[v] = status[v] /\ amount'[v] = amount[v]
  PROVE  /\ Total(Holds', NumWithdrawals) = Total(Holds, NumWithdrawals) - Hold(w) + Hold(w)'
         /\ Total(Payments', NumWithdrawals) = Total(Payments, NumWithdrawals) - Paid(w) + Paid(w)'
<1>1. /\ Holds \in [1 .. NumWithdrawals -> Int] /\ Payments \in [1 .. NumWithdrawals -> Int]
      /\ Holds' \in [1 .. NumWithdrawals -> Int] /\ Payments' \in [1 .. NumWithdrawals -> Int]
  <2>1. (TypeOK => Holds \in [1 .. NumWithdrawals -> Int] /\ Payments \in [1 .. NumWithdrawals -> Int])'
    BY HoldTypes, PTL
  <2> QED BY HoldTypes, <2>1
<1>2. \A v \in (1 .. NumWithdrawals) \ {w} : Holds'[v] = Holds[v] /\ Payments'[v] = Payments[v]
  BY Constants DEF Holds, Payments, Hold, Paid
<1>3. w \in 1 .. NumWithdrawals /\ NumWithdrawals \in Nat
  BY Constants
<1>4. Total(Holds', NumWithdrawals) = Total(Holds, NumWithdrawals) - Holds[w] + Holds'[w]
  BY <1>1, <1>2, <1>3, TotalUpdate
<1>5. Total(Payments', NumWithdrawals) = Total(Payments, NumWithdrawals) - Payments[w] + Payments'[w]
  BY <1>1, <1>2, <1>3, TotalUpdate
<1>6. /\ Holds[w] = Hold(w) /\ Holds'[w] = Hold(w)'
      /\ Payments[w] = Paid(w) /\ Payments'[w] = Paid(w)'
  BY DEF Holds, Payments
<1> QED BY <1>4, <1>5, <1>6

LEMMA NextPendingShape ==
  ASSUME TypeOK, IndInv, [Next]_vars
  PROVE  PendingShape'
<1>0. PendingShape
  BY DEF IndInv
<1>1. ASSUME NEW d \in Deposit, Credit(d) PROVE PendingShape'
  <2>1. /\ deposit[d] = "CONFIRMING" /\ deposit' = [deposit EXCEPT ![d] = "CREDITED"]
        /\ pendingDeposit' = pendingDeposit - Value[d]
    BY <1>1 DEF Credit
  <2>2. /\ Confirming[d] = Value[d] /\ Confirming'[d] = 0
        /\ \A e \in (1 .. NumDeposits) \ {d} : Confirming'[e] = Confirming[e]
    BY <2>1, Constants DEF Confirming, TypeOK
  <2>3. /\ Confirming \in [1 .. NumDeposits -> Int] /\ Confirming' \in [1 .. NumDeposits -> Int]
        /\ d \in 1 .. NumDeposits /\ NumDeposits \in Nat /\ Value[d] \in Int
    BY Constants DEF Confirming
  <2>4. Total(Confirming', NumDeposits) = Total(Confirming, NumDeposits) - Value[d] + 0
    BY <2>2, <2>3, TotalUpdate, SMTT(40)
  <2>5. Total(Confirming, NumDeposits) \in Int
    BY <2>3, TotalType
  <2>6. pendingDeposit = Total(Confirming, NumDeposits)
    BY <1>0 DEF PendingShape, Confirming
  <2>7. pendingDeposit' = Total(Confirming', NumDeposits)
    BY <2>1, <2>3, <2>4, <2>5, <2>6
  <2> QED BY <2>7 DEF PendingShape, Confirming
<1>2. ASSUME UNCHANGED <<deposit, pendingDeposit>> PROVE PendingShape'
  BY <1>0, <1>2 DEF PendingShape
<1> QED BY <1>1, <1>2, StepCases
  DEF Create, LockInputs, SaveSigned, TestMempool, FailWithdrawal, Send, SendRefused, MarkSent,
      CompleteWithdrawal, WorkerReturns, SweepSave, SweepTest, SweepFail, SweepSend, SweepRefused,
      SweepMarkSent, SweepComplete, SweeperReturns, Mine, Evict, Bury, Reorg, vars, ledger

LEMMA NextBooksAgree ==
  ASSUME TypeOK, TypeOK', IndInv, [Next]_vars
  PROVE  BooksAgree'
<1> DEFINE All == Total(Value, NumDeposits)
           held == Total(Holds, NumWithdrawals)
           paid == Total(Payments, NumWithdrawals)
<1>0. /\ WorkersShape /\ pendingWithdrawal = held /\ pendingDeposit + available + pendingWithdrawal + paid = All
      /\ held \in Int /\ paid \in Int /\ available \in Int /\ pendingDeposit \in Int
  <2>1. held \in Int /\ paid \in Int
    BY SumTypes, TotalType, Constants
  <2> QED BY <2>1 DEF IndInv, BooksAgree, TypeOK, Holds, Payments
<1> DEFINE Goal == pendingWithdrawal' = held' /\ pendingDeposit' + available' + pendingWithdrawal' + paid' = All
<1>1. ASSUME UNCHANGED <<available, pendingDeposit, pendingWithdrawal, amount>>,
             \A w \in Withdrawal : /\ status'[w] \in Active <=> status[w] \in Active
                                   /\ status'[w] = "COMPLETED" <=> status[w] = "COMPLETED"
      PROVE  Goal
  <2>0. \A w \in Withdrawal : Hold(w)' = Hold(w) /\ Paid(w)' = Paid(w)
    BY <1>1 DEF Hold, Paid
  <2>1. Holds' = Holds /\ Payments' = Payments
    BY <2>0 DEF Holds, Payments
  <2> QED BY <1>0, <1>1, <2>1
<1>2. ASSUME NEW d \in Deposit, Credit(d) PROVE Goal
  <2>1. Holds' = Holds /\ Payments' = Payments /\ pendingWithdrawal' = pendingWithdrawal
    BY <1>2 DEF Credit, rows, Holds, Payments, Hold, Paid
  <2>2. pendingDeposit' = pendingDeposit - Value[d] /\ available' = available + Value[d] /\ Value[d] \in Int
    BY <1>2, Constants DEF Credit
  <2>3. held' = held /\ paid' = paid
    BY <2>1
  <2> HIDE DEF held, paid, All
  <2> QED BY <1>0, <2>1, <2>2, <2>3
<1>3. ASSUME NEW w \in Withdrawal, NEW a \in Amount, Create(w, a) PROVE Goal
  <2>1. /\ available' = available - a /\ pendingWithdrawal' = pendingWithdrawal + a
        /\ pendingDeposit' = pendingDeposit /\ a \in Int
    BY <1>3, Constants DEF Create
  <2>2. /\ Hold(w) = 0 /\ Hold(w)' = a /\ Paid(w) = 0 /\ Paid(w)' = 0
        /\ \A v \in Withdrawal : v # w => status'[v] = status[v] /\ amount'[v] = amount[v]
    BY <1>3 DEF Create, Hold, Paid, TypeOK
  <2>3. held' = held - 0 + a /\ paid' = paid - 0 + 0
    BY <2>2, OneRow
  <2> HIDE DEF held, paid, All
  <2> QED BY <1>0, <2>1, <2>3
<1>4. ASSUME NEW w \in Withdrawal, FailWithdrawal(w) PROVE Goal
  <2>1. /\ available' = available + amount[w] /\ pendingWithdrawal' = pendingWithdrawal - amount[w]
        /\ pendingDeposit' = pendingDeposit /\ amount[w] \in Int
    BY <1>4 DEF FailWithdrawal, TypeOK
  <2>2. /\ Hold(w) = amount[w] /\ Hold(w)' = 0 /\ Paid(w) = 0 /\ Paid(w)' = 0
        /\ \A v \in Withdrawal : v # w => status'[v] = status[v] /\ amount'[v] = amount[v]
    BY <1>4 DEF FailWithdrawal, Hold, Paid, TypeOK
  <2>3. held' = held - amount[w] + 0 /\ paid' = paid - 0 + 0
    BY <2>2, OneRow
  <2> HIDE DEF held, paid, All
  <2> QED BY <1>0, <2>1, <2>3
<1>5. ASSUME NEW w \in Withdrawal, CompleteWithdrawal(w) PROVE Goal
  <2>1. /\ available' = available /\ pendingWithdrawal' = pendingWithdrawal - amount[w]
        /\ pendingDeposit' = pendingDeposit /\ amount[w] \in Int
    BY <1>5 DEF CompleteWithdrawal, Settled, TypeOK
  <2>2. status[w] = "BROADCASTED"
    BY <1>0, <1>5, WorkerStatus DEF CompleteWithdrawal
  <2>3. /\ Hold(w) = amount[w] /\ Hold(w)' = 0 /\ Paid(w) = 0 /\ Paid(w)' = amount[w]
        /\ \A v \in Withdrawal : v # w => status'[v] = status[v] /\ amount'[v] = amount[v]
    BY <1>5, <2>2 DEF CompleteWithdrawal, Hold, Paid, TypeOK
  <2>4. held' = held - amount[w] + 0 /\ paid' = paid - 0 + amount[w]
    BY <2>3, OneRow
  <2> HIDE DEF held, paid, All
  <2> QED BY <1>0, <2>1, <2>4
<1>6. ASSUME NEW w \in Withdrawal, SaveSigned(w) PROVE Goal
  <2>1. /\ UNCHANGED <<available, pendingDeposit, pendingWithdrawal, amount>>
        /\ \A v \in Withdrawal : /\ status'[v] \in Active <=> status[v] \in Active
                                 /\ status'[v] = "COMPLETED" <=> status[v] = "COMPLETED"
    BY <1>6 DEF SaveSigned, ledger, TypeOK
  <2> QED BY <1>1, <2>1
<1>7. ASSUME NEW w \in Withdrawal, MarkSent(w) PROVE Goal
  <2>1. /\ UNCHANGED <<available, pendingDeposit, pendingWithdrawal, amount>>
        /\ \A v \in Withdrawal : /\ status'[v] \in Active <=> status[v] \in Active
                                 /\ status'[v] = "COMPLETED" <=> status[v] = "COMPLETED"
    BY <1>7 DEF MarkSent, ledger, TypeOK
  <2> QED BY <1>1, <2>1
<1>8. ASSUME UNCHANGED <<ledger, rows>> PROVE Goal
  BY <1>1, <1>8 DEF ledger, rows
<1> HIDE DEF Goal
<1>9. Goal
  BY <1>2, <1>3, <1>4, <1>5, <1>6, <1>7, <1>8, StepCases
     DEF LockInputs, TestMempool, Send, SendRefused, WorkerReturns, SweepSave, SweepTest, SweepFail, SweepSend,
         SweepRefused, SweepMarkSent, SweepComplete, SweeperReturns, Mine, Evict, Bury, Reorg, vars
<1> QED BY <1>9 DEF Goal, BooksAgree, Holds, Payments

-----------------------------------------------------------------------------
(***************************************************************************)
(* The theorems.                                                           *)
(***************************************************************************)
LEMMA NextIndInv == TypeOK /\ IndInv /\ [Next]_vars => IndInv'
BY NextType, NextPendingShape, NextSent, NextSweepShape, NextWorkersShape, NextLocks,
   NextBooksAgree, NextCompletedIsBuried DEF IndInv

(* Through every interleaving of the workers, crash and reorganisation, a worker's row is in the status its step
   left it in, the books are the sum of the rows, and locks belong to live withdrawals (IndInv, with the types). *)
THEOREM Inductive == Spec => [](TypeOK /\ IndInv)
<1>1. Init => TypeOK /\ IndInv
  BY InitType, InitIndInv
<1>2. TypeOK /\ IndInv /\ [Next]_vars => (TypeOK /\ IndInv)'
  BY NextType, NextIndInv
<1> QED BY <1>1, <1>2, PTL DEF Spec

(* Type correctness: neither a credit, a withdrawal that fails nor one     *)
(* that completes takes a balance below zero.                              *)
THEOREM TypeCorrect == Spec => []TypeOK
BY Inductive, PTL

(* CreateBTCWithdrawal, FailBTCWithdrawal and CompleteBTCWithdrawal keep   *)
(* pending_withdrawal the sum of the live withdrawals, and with            *)
(* CreditBTCDeposit they neither make nor lose a satoshi.                  *)
THEOREM BooksAlwaysAgree == Spec => []BooksAgree
<1>1. IndInv => BooksAgree
  BY DEF IndInv
<1> QED BY <1>1, Inductive, PTL

(* CompleteBTCWithdrawal and the treasury's outputs of CompleteBTCSweep    *)
(* rest on buried transactions, whatever the chain replaces or forgets.    *)
THEOREM CompletedWhenBuried == Spec => []CompletedIsBuried
<1>1. IndInv => CompletedIsBuried
  BY DEF IndInv
<1> QED BY <1>1, Inductive, PTL

(* The node only ever gets the one transaction of a row that is signed.    *)
THEOREM RecordedBeforeSent == Spec => []SentIsRecorded
<1>1. IndInv => SentIsRecorded
  BY DEF IndInv
<1> QED BY <1>1, Inductive, PTL

(* No lock of LockWithdrawalInputs outlives its withdrawal.                *)
THEOREM LocksAlwaysLive == Spec => []LocksAreLive
<1>1. IndInv => LocksAreLive
  BY DEF IndInv
<1> QED BY <1>1, Inductive, PTL
-----------------------------------------------------------------------------
(***************************************************************************)
(* Rows that ended, and the withdrawals that were released.                *)
(***************************************************************************)
Ended == {"COMPLETED", "FAILED"}

LEMMA EndedStay ==
  ASSUME TypeOK, IndInv, [Next]_vars
  PROVE  /\ \A w \in Withdrawal : status[w] \in Ended => status'[w] = status[w]
         /\ \A d \in Deposit : sweepStatus[d] \in Ended => sweepStatus'[d] = sweepStatus[d]
<1> DEFINE Rows  == \A w \in Withdrawal : status[w] \in Ended => status'[w] = status[w]
           Sweeps == \A d \in Deposit : sweepStatus[d] \in Ended => sweepStatus'[d] = sweepStatus[d]
           Goal  == Rows /\ Sweeps
<1>0. /\ WorkersShape /\ status \in [Withdrawal -> {"none", "FAILED", "COMPLETED"} \union Active]
      /\ sweepStatus \in [Deposit -> {"none", "FAILED", "COMPLETED"} \union Active]
  BY DEF IndInv, TypeOK
<1>1. ASSUME UNCHANGED <<rows, sweepStatus>> PROVE Goal
  BY <1>1 DEF rows
<1>2. ASSUME NEW d \in Deposit, Credit(d) PROVE Goal
  BY <1>0, <1>2 DEF Credit, Ended, rows
<1>3. ASSUME NEW w \in Withdrawal, NEW a \in Amount, Create(w, a) PROVE Goal
  BY <1>0, <1>3 DEF Create, Ended
<1>4. ASSUME NEW w \in Withdrawal, SaveSigned(w) \/ FailWithdrawal(w) \/ MarkSent(w) PROVE Goal
  BY <1>0, <1>4 DEF SaveSigned, FailWithdrawal, MarkSent, Ended
<1>5. ASSUME NEW w \in Withdrawal, CompleteWithdrawal(w) PROVE Goal
  <2>1. status[w] = "BROADCASTED"
    BY <1>0, <1>5, WorkerStatus DEF CompleteWithdrawal
  <2> QED BY <1>0, <1>5, <2>1 DEF CompleteWithdrawal, Ended
<1>6. ASSUME NEW d \in Deposit, SweepSave(d) \/ SweepFail(d) \/ SweepMarkSent(d) \/ SweepComplete(d) PROVE Goal
  BY <1>0, <1>6 DEF SweepSave, SweepFail, SweepMarkSent, SweepComplete, Ended, rows
<1> HIDE DEF Goal
<1>7. Goal
  BY <1>1, <1>2, <1>3, <1>4, <1>5, <1>6, StepCases
     DEF LockInputs, TestMempool, Send, SendRefused, WorkerReturns, SweepTest, SweepSend, SweepRefused,
         SweeperReturns, Mine, Evict, Bury, Reorg, vars, rows
<1> QED BY <1>7 DEF Goal

(* CompleteBTCWithdrawal overwrites the status without looking at it, and  *)
(* so do others theirs: still no worker reopens a withdrawal or a sweep    *)
(* that ended, or ends it the other way.                                   *)
THEOREM NoneReopened ==
  Spec => [][/\ \A w \in Withdrawal : status[w] \in Ended => status'[w] = status[w]
             /\ \A d \in Deposit : sweepStatus[d] \in Ended => sweepStatus'[d] = sweepStatus[d]]_vars
<1>1. TypeOK /\ IndInv /\ [Next]_vars
        => [/\ \A w \in Withdrawal : status[w] \in Ended => status'[w] = status[w]
            /\ \A d \in Deposit : sweepStatus[d] \in Ended => sweepStatus'[d] = sweepStatus[d]]_vars
  BY EndedStay
<1> QED BY <1>1, Inductive, PTL DEF Spec

(* A worker that stops, or whose mark fails, after the node took the       *)
(* transaction of its row and before the database knows.                   *)
MarkLost ==
  /\ worker.at \in {"unknown", "broadcasted"} /\ PayTx(worker.row) \in Known
  /\ WorkerReturns

(* What is at the node though its row is SIGNED is about to be marked. *)
MarkPending ==
  \A w \in Withdrawal : status[w] = "SIGNED" /\ PayTx(w) \in Known =>
    worker.row = w /\ worker.at \in {"unknown", "broadcasted"}

LEMMA ReleasedStep ==
  ASSUME TypeOK, IndInv, IndInv', ReleasedUnpaid, MarkPending, [Next]_vars, ~ MarkLost
  PROVE  ReleasedUnpaid' /\ MarkPending'
<1> DEFINE Safe(w) == /\ status[w] = "FAILED" => PayTx(w) \notin Known
                      /\ status[w] = "SIGNED" /\ PayTx(w) \in Known =>
                           worker.row = w /\ worker.at \in {"unknown", "broadcasted"}
           Goal == \A w \in Withdrawal : Safe(w)'
<1>0. /\ \A w \in Withdrawal : Safe(w)
      /\ WorkersShape
      /\ status \in [Withdrawal -> {"none", "FAILED", "COMPLETED"} \union Active]
  BY DEF IndInv, TypeOK, ReleasedUnpaid, MarkPending
<1>1. ASSUME NEW w \in Withdrawal, status[w] \in Unsent PROVE PayTx(w) \notin Known
  BY <1>1, RowTxs DEF IndInv, SentShape
<1>2. ASSUME NEW w \in Withdrawal, status[w] \notin Unsent PROVE PayTx(w)' = PayTx(w)
  BY <1>2, RowsKeep
(* A step that neither gives a transaction to the node nor moves the rows. *)
<1>3. ASSUME UNCHANGED <<rows, worker>>, Known' \subseteq Known \union {t : t \in {SweepTx(d) : d \in Deposit}}
      PROVE  Goal
  <2>1. ASSUME NEW w \in Withdrawal PROVE PayTx(w)' = PayTx(w) /\ (PayTx(w)' \in Known' => PayTx(w) \in Known)
    BY <1>3, RowTxs DEF PayTx, rows
  <2> QED BY <1>0, <1>3, <2>1 DEF rows
(* A step of the withdrawal worker, or a request, that moves one row. *)
<1>4. ASSUME NEW w \in Withdrawal, Known' \subseteq Known \union {PayTx(w)},
             \A v \in Withdrawal \ {w} : status'[v] = status[v] /\ PayTx(v)' = PayTx(v),
             \A v \in Withdrawal \ {w} : status[v] = "SIGNED" =>
               PayTx(v) \notin Known \/ UNCHANGED worker,
             Safe(w)'
      PROVE  Goal
  <2>1. ASSUME NEW v \in Withdrawal \ {w} PROVE PayTx(v)' \in Known' => PayTx(v) \in Known
    BY <1>4, RowTxs
  <2>2. ASSUME NEW v \in Withdrawal \ {w} PROVE Safe(v)'
    BY <1>0, <1>4, <2>1
  <2> QED BY <1>4, <2>2
(* The steps of a worker that is not about to mark. *)
<1>5. ASSUME worker.at \notin {"unknown", "broadcasted"}, NEW v \in Withdrawal
      PROVE  status[v] = "SIGNED" => PayTx(v) \notin Known
  BY <1>0, <1>5
<1>6. ASSUME NEW w \in Withdrawal, NEW l \in {"start", "build", "test", "fail", "send", "confirm"}, WorkerAt(w, l)
      PROVE  worker.at \notin {"unknown", "broadcasted"}
  BY <1>6 DEF WorkerAt
<1>7. ASSUME NEW w \in Withdrawal, LockInputs(w) \/ TestMempool(w) \/ SendRefused(w) PROVE Goal
  <2>1. worker.at \notin {"unknown", "broadcasted"} /\ UNCHANGED <<rows, chain>>
    BY <1>6, <1>7 DEF LockInputs, TestMempool, SendRefused
  <2> QED BY <1>0, <1>5, <2>1 DEF rows, chain, PayTx, Known
<1>8. ASSUME WorkerReturns PROVE Goal
  <2>1. UNCHANGED <<rows, chain>>
    BY <1>8 DEF WorkerReturns
  <2>2. \A v \in Withdrawal : status[v] = "SIGNED" => PayTx(v) \notin Known
    BY <1>0, <1>8 DEF MarkLost
  <2> QED BY <1>0, <2>1, <2>2 DEF rows, chain, PayTx, Known
<1>9. ASSUME NEW w \in Withdrawal, NEW a \in Amount, Create(w, a) PROVE Goal
  <2>1. Known' = Known /\ UNCHANGED worker /\ status'[w] = "CREATED"
    BY <1>0, <1>9 DEF Create, chain, Known
  <2>2. \A v \in Withdrawal \ {w} : status'[v] = status[v] /\ PayTx(v)' = PayTx(v)
    BY <1>0, <1>9 DEF Create, PayTx, TypeOK
  <2> QED BY <1>4, <2>1, <2>2
<1>10. ASSUME NEW w \in Withdrawal, SaveSigned(w) PROVE Goal
  <2>1. Known' = Known /\ worker.at \notin {"unknown", "broadcasted"} /\ status[w] = "CREATED" /\ status'[w] = "SIGNED"
    BY <1>0, <1>6, <1>10 DEF SaveSigned, chain, Known, Unsigned
  <2>2. \A v \in Withdrawal \ {w} : status'[v] = status[v] /\ PayTx(v)' = PayTx(v)
    BY <1>0, <1>10 DEF SaveSigned, PayTx, TypeOK
  <2>3. PayTx(w)' \notin Known
    <3>1. PayTx(w)'.kind = "withdrawal" /\ PayTx(w)'.id = w
      BY DEF PayTx
    <3> QED BY <2>1, <3>1 DEF IndInv, SentShape, Unsent
  <2> QED BY <1>4, <1>5, <2>1, <2>2, <2>3
<1>11. ASSUME NEW w \in Withdrawal, FailWithdrawal(w) PROVE Goal
  <2>1. Known' = Known /\ worker.at \notin {"unknown", "broadcasted"} /\ status'[w] = "FAILED"
    BY <1>0, <1>6, <1>11 DEF FailWithdrawal, chain, Known
  <2>2. \A v \in Withdrawal : PayTx(v)' = PayTx(v)
    BY <1>11 DEF FailWithdrawal, PayTx
  <2>3. \A v \in Withdrawal \ {w} : status'[v] = status[v]
    BY <1>0, <1>11 DEF FailWithdrawal
  <2>4. PayTx(w) \notin Known
    BY <1>1, <1>5, <1>11, <2>1 DEF FailWithdrawal, Unsent
  <2> QED BY <1>4, <1>5, <2>1, <2>2, <2>3, <2>4
<1>12. ASSUME NEW w \in Withdrawal, NEW b \in BOOLEAN, Send(w, b) PROVE Goal
  <2>1. /\ Known' = Known \union {PayTx(w)} /\ worker.at \notin {"unknown", "broadcasted"}
        /\ worker'.row = w /\ worker'.at \in {"unknown", "broadcasted"}
    BY <1>6, <1>12 DEF Send, Known, WorkerGoto
  <2>2. \A v \in Withdrawal : status'[v] = status[v] /\ PayTx(v)' = PayTx(v)
    BY <1>12 DEF Send, PayTx, rows
  <2>3. status[w] \in Resumed
    BY <1>0, <1>12, WorkerStatus DEF Send
  <2> QED BY <1>4, <1>5, <2>1, <2>2, <2>3
<1>13. ASSUME NEW w \in Withdrawal, MarkSent(w) PROVE Goal
  <2>1. Known' = Known /\ worker.row = w /\ status'[w] \notin {"SIGNED", "FAILED"}
    BY <1>0, <1>13 DEF MarkSent, chain, Known
  <2>2. \A v \in Withdrawal \ {w} : status'[v] = status[v] /\ PayTx(v)' = PayTx(v)
    BY <1>0, <1>13 DEF MarkSent, PayTx
  <2> QED BY <1>0, <1>4, <2>1, <2>2
<1>14. ASSUME NEW w \in Withdrawal, CompleteWithdrawal(w) PROVE Goal
  <2>1. Known' = Known /\ worker.at \notin {"unknown", "broadcasted"} /\ status'[w] = "COMPLETED"
    BY <1>0, <1>6, <1>14 DEF CompleteWithdrawal, chain, Known
  <2>2. \A v \in Withdrawal \ {w} : status'[v] = status[v] /\ PayTx(v)' = PayTx(v)
    BY <1>0, <1>14 DEF CompleteWithdrawal, PayTx
  <2> QED BY <1>4, <1>5, <2>1, <2>2
(* The steps that leave the withdrawals alone. *)
<1>15. ASSUME NEW d \in Deposit,
              \/ Credit(d) \/ SweepSave(d) \/ SweepTest(d) \/ SweepFail(d) \/ SweepRefused(d)
              \/ SweepMarkSent(d) \/ SweepComplete(d)
       PROVE  Goal
  <2>1. UNCHANGED <<rows, worker, chain>>
    BY <1>15 DEF Credit, SweepSave, SweepTest, SweepFail, SweepRefused, SweepMarkSent, SweepComplete
  <2> QED BY <1>3, <2>1 DEF chain, Known
<1>16. ASSUME NEW d \in Deposit, NEW b \in BOOLEAN, SweepSend(d, b) PROVE Goal
  BY <1>3, <1>16 DEF SweepSend, Known
<1>17. ASSUME NEW t \in mempool, Mine(t) \/ Evict(t) PROVE Goal
  BY <1>3, <1>17 DEF Mine, Evict, Known
<1>18. ASSUME NEW t \in mined, Bury(t) \/ Reorg(t) PROVE Goal
  BY <1>3, <1>18 DEF Bury, Reorg, Known
<1>19. ASSUME SweeperReturns \/ UNCHANGED vars PROVE Goal
  BY <1>3, <1>19 DEF SweeperReturns, vars, chain, Known
<1> HIDE DEF Goal
<1>20. Goal
  BY <1>7, <1>8, <1>9, <1>10, <1>11, <1>12, <1>13, <1>14, <1>15, <1>16, <1>17, <1>18, <1>19, StepCases
<1> QED BY <1>20 DEF Goal, ReleasedUnpaid, MarkPending

(* The run btc_double_pay needs the step MarkLost: unless a worker stops,  *)
(* or fails to write, between a send the node took and the mark of it, a   *)
(* withdrawal that FailBTCWithdrawal gave back is never paid, over every   *)
(* other crash, refusal, eviction and replaced block.                      *)
THEOREM ReleasedIsUnpaid == Spec /\ [][~ MarkLost]_vars => []ReleasedUnpaid
<1>1. Init => ReleasedUnpaid /\ MarkPending
  BY DEF Init, ReleasedUnpaid, MarkPending
<1>2. TypeOK /\ IndInv /\ (TypeOK /\ IndInv)' /\ ReleasedUnpaid /\ MarkPending /\ [Next]_vars /\ [~ MarkLost]_vars
        => (ReleasedUnpaid /\ MarkPending)'
  <2> SUFFICES ASSUME TypeOK, IndInv, IndInv', ReleasedUnpaid, MarkPending, [Next]_vars, [~ MarkLost]_vars
               PROVE  ReleasedUnpaid' /\ MarkPending'
    OBVIOUS
  <2>1. CASE ~ MarkLost
    BY <2>1, ReleasedStep
  <2>2. CASE UNCHANGED vars
    BY <2>2 DEF vars, rows, chain, ReleasedUnpaid, MarkPending, PayTx, Known
  <2> QED BY <2>1, <2>2
<1> QED BY <1>1, <1>2, Inductive, PTL DEF Spec
=============================================================================
