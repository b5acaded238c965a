------------------------ MODULE EthWithdrawalProofs ------------------------
(***************************************************************************)
(* Theorems about EthWithdrawal for every number of withdrawals, sweeps    *)
(* and handlers, every set of amounts and fees, and every set of faults.   *)
(***************************************************************************)
EXTENDS EthWithdrawal, SumsProofs

(* Rows and sweeps are senders, and None is no nonce. *)
LEMMA Senders ==
  /\ Row \subseteq Sender /\ Sweep \subseteq Sender /\ Row \intersect Sweep = {}
  /\ None \notin Nat
BY ConstantsAssumption DEF Row, Sweep, Sender, None

(* The steps of Next by name: a step proof has one case for each. *)
LEMMA StepCases ==
  ASSUME [Next]_vars, NEW ACTION Case,
    \A h \in Handler, i \in Row, a \in Amount : SubmitExisting(h, i, a) => Case,
    \A h \in Handler, i \in Row, a \in Amount, q \in Fee : SubmitNew(h, i, a, q) => Case,
    \A h \in Handler : Reserve(h) => Case,
    \A h \in Handler : ReserveExisting(h) \/ Reject(h) => Case,
    \A i \in Row : Pick(i) => Case,
    \A i \in Row, q \in Fee : RaiseFee(i, q) => Case,
    \A i \in Row, q \in Fee : CannotRaiseFee(i, q) => Case,
    \A i \in Row : CheckFunds(i) => Case,
    \A i \in Row, n \in PendingNonces : Allocate(i, n) => Case,
    \A i \in Row : Save(i) => Case,
    \A i \in Row : Release(i) => Case,
    \A i \in Row, r \in receipts : FoundBeforeSend(i, r) \/ Confirm(i, r) => Case,
    \A i \in Row : BeginSend(i) => Case,
    \A i \in Row : \A t \in rawTx[i], b \in BOOLEAN : Send(i, t, b) => Case,
    \A i \in Row : SendRefused(i) \/ NotMined(i) => Case,
    \A i \in Row : MarkUnknown(i) => Case,
    \A i \in Row : Acknowledge(i) => Case,
    \A i \in Row : UpdateConfirmations(i) => Case,
    \A i \in Row, r \in worker.receipt : Finalize(i, r) => Case,
    Interrupt => Case,
    \A t \in mempool, ok \in BOOLEAN : \A fee \in 0 .. t.maxFee : Mine(t, ok, fee) => Case,
    Bury => Case,
    \A r \in receipts : Reorg(r) => Case,
    \A t \in mempool : Evict(t) => Case,
    \A s \in Sweep, n \in PendingNonces : SweepAllocate(s, n) => Case,
    \A s \in Sweep : SweepBroadcast(s) => Case,
    UNCHANGED vars => Case
  PROVE Case
<1>1. CASE \E h \in Handler : HandlerStep(h)
  BY <1>1 DEF HandlerStep
<1>2. CASE \E i \in Row : WorkerStep(i)
  BY <1>2 DEF WorkerStep
<1>3. CASE ChainStep
  BY <1>3 DEF ChainStep
<1>4. CASE \E s \in Sweep : SweepStep(s)
  BY <1>4 DEF SweepStep
<1> QED BY <1>1, <1>2, <1>3, <1>4 DEF Next

-----------------------------------------------------------------------------
(***************************************************************************)
(* Type correctness.                                                       *)
(***************************************************************************)
USE DEF At, Goto, Rest, Resting, NoRequest, Held, Spent, Covers, Shortfall, Larger

LEMMA InitType == Init => TypeOK
BY ConstantsAssumption DEF Init, TypeOK, LedgerType, RowsType, NonceType, ChainType,
   WorkerType, ClientsType, Status, Entry, Step

LEMMA NextType == TypeOK /\ [Next]_vars => TypeOK'
<1> SUFFICES ASSUME TypeOK, [Next]_vars PROVE TypeOK'
  OBVIOUS
<1> USE Senders, ConstantsAssumption DEF TypeOK, LedgerType, RowsType, NonceType, ChainType,
        WorkerType, ClientsType
<1>1. ASSUME NEW h \in Handler, NEW i \in Row, NEW a \in Amount, SubmitExisting(h, i, a)
      PROVE  TypeOK'
  BY <1>1 DEF SubmitExisting, SameRequest, ledger, rows, nonces, chain, clients
<1>2. ASSUME NEW h \in Handler, NEW i \in Row, NEW a \in Amount, NEW q \in Fee, SubmitNew(h, i, a, q)
      PROVE  TypeOK'
  <2>1. q \in Nat /\ a \in Nat /\ i \in Nat
    BY DEF Row
  <2>2. ClientsType'
    BY <1>2, <2>1 DEF SubmitNew
  <2> QED BY <2>2, <1>2 DEF SubmitNew, ledger, rows, nonces, chain, clients
<1>3. ASSUME NEW h \in Handler, Reserve(h)
      PROVE  TypeOK'
  <2>1. LedgerType'
    BY <1>3 DEF Reserve, Entry, ledger, rows, nonces, chain, clients
  <2>2. RowsType'
    BY <1>3 DEF Reserve, Status, Active, Terminal, Tx, ledger, rows, nonces, chain, clients
  <2>3. ClientsType'
    BY <1>3 DEF Reserve, ledger, rows, nonces, chain, clients
  <2> QED BY <2>1, <2>2, <2>3, <1>3 DEF Reserve, ledger, rows, nonces, chain, clients
<1>4. ASSUME NEW h \in Handler, ReserveExisting(h) \/ Reject(h)
      PROVE  TypeOK'
  <2>1. ClientsType'
    <3>1. CASE ReserveExisting(h)
      BY <3>1 DEF ReserveExisting
    <3>2. CASE Reject(h)
      BY <3>2 DEF Reject
    <3> QED BY <1>4, <3>1, <3>2
  <2> QED BY <2>1, <1>4 DEF ReserveExisting, Reject, ledger, rows, nonces, chain, clients
<1>5. ASSUME NEW i \in Row, Pick(i)
      PROVE  TypeOK'
  <2>1. i \in Nat /\ FirstStep(status[i]) \in Step
    BY DEF Row, FirstStep, Step
  <2>2. WorkerType'
    BY <1>5, <2>1 DEF Pick
  <2> QED BY <2>2, <1>5 DEF Pick, ledger, rows, nonces, chain, clients
<1>6. ASSUME NEW i \in Row, NEW q \in Fee, RaiseFee(i, q)
      PROVE  TypeOK'
  <2>1. LedgerType'
    BY <1>6 DEF RaiseFee, AfterFee, Adjusted, Entry, ledger, rows, nonces, chain, clients
  <2>2. RowsType'
    BY <1>6 DEF RaiseFee, AfterFee, Adjusted, Status, Active, Terminal, Tx, ledger, rows, nonces, chain, clients
  <2>3. WorkerType'
    BY <1>6 DEF RaiseFee, AfterFee, Adjusted, Step, ledger, rows, nonces, chain, clients
  <2> QED BY <2>1, <2>2, <2>3, <1>6 DEF RaiseFee, AfterFee, Adjusted, ledger, rows, nonces, chain, clients
<1>7. ASSUME NEW i \in Row, NEW q \in Fee, CannotRaiseFee(i, q)
      PROVE  TypeOK'
  BY <1>7 DEF CannotRaiseFee, Step, ledger, rows, nonces, chain, clients
<1>8. ASSUME NEW i \in Row, CheckFunds(i)
      PROVE  TypeOK'
  BY <1>8 DEF CheckFunds, Step, ledger, rows, nonces, chain, clients
<1>9. ASSUME NEW i \in Row, NEW n \in PendingNonces, Allocate(i, n)
      PROVE  TypeOK'
  <2>1. RowsType'
    BY <1>9 DEF Allocate, PendingNonces, ChosenNonce, Status, Active, Terminal, Tx, ledger, rows, nonces, chain, clients
  <2>2. NonceType'
    BY <1>9 DEF Allocate, PendingNonces, ChosenNonce, ledger, rows, nonces, chain, clients
  <2>3. WorkerType'
    BY <1>9 DEF Allocate, PendingNonces, ChosenNonce, Step, ledger, rows, nonces, chain, clients
  <2> QED BY <2>1, <2>2, <2>3, <1>9 DEF Allocate, PendingNonces, ChosenNonce, ledger, rows, nonces, chain, clients
<1>10. ASSUME NEW i \in Row, Save(i)
      PROVE  TypeOK'
  <2>1. RowsType'
    BY <1>10 DEF Save, Status, Active, Terminal, Tx, ledger, rows, nonces, chain, clients
  <2>2. WorkerType'
    BY <1>10 DEF Save, Step, ledger, rows, nonces, chain, clients
  <2> QED BY <2>1, <2>2, <1>10 DEF Save, ledger, rows, nonces, chain, clients
<1>11. ASSUME NEW i \in Row, Release(i)
      PROVE  TypeOK'
  <2>1. LedgerType'
    BY <1>11 DEF Release, Entry, ledger, rows, nonces, chain, clients
  <2>2. RowsType'
    BY <1>11 DEF Release, Status, Active, Terminal, Tx, ledger, rows, nonces, chain, clients
  <2>3. WorkerType'
    BY <1>11 DEF Release, Step, ledger, rows, nonces, chain, clients
  <2> QED BY <2>1, <2>2, <2>3, <1>11 DEF Release, ledger, rows, nonces, chain, clients
<1>12. ASSUME NEW i \in Row, NEW r \in receipts, FoundBeforeSend(i, r) \/ Confirm(i, r)
      PROVE  TypeOK'
  <2>1. WorkerType'
    <3>1. CASE FoundBeforeSend(i, r)
      BY <3>1, ZenonT(40) DEF FoundBeforeSend, Step
    <3>2. CASE Confirm(i, r)
      BY <3>2, ZenonT(40) DEF Confirm, Step
    <3> QED BY <1>12, <3>1, <3>2
  <2> QED BY <2>1, <1>12 DEF FoundBeforeSend, Confirm, ledger, rows, nonces, chain, clients
<1>13. ASSUME NEW i \in Row, BeginSend(i)
      PROVE  TypeOK'
  <2>1. RowsType'
    BY <1>13 DEF BeginSend, Status, Active, Terminal, Tx, ledger, rows, nonces, chain, clients
  <2>2. WorkerType'
    BY <1>13 DEF BeginSend, Step, ledger, rows, nonces, chain, clients
  <2> QED BY <2>1, <2>2, <1>13 DEF BeginSend, ledger, rows, nonces, chain, clients
<1>14. ASSUME NEW i \in Row, NEW t \in rawTx[i], NEW b \in BOOLEAN, Send(i, t, b)
      PROVE  TypeOK'
  <2>1. ChainType'
    BY <1>14 DEF Send, Tx, Receipt, ledger, rows, nonces, chain, clients
  <2>2. WorkerType'
    BY <1>14 DEF Send, Step, ledger, rows, nonces, chain, clients
  <2> QED BY <2>1, <2>2, <1>14 DEF Send, ledger, rows, nonces, chain, clients
<1>15. ASSUME NEW i \in Row, SendRefused(i) \/ NotMined(i)
      PROVE  TypeOK'
  <2>1. WorkerType'
    <3>1. CASE SendRefused(i)
      BY <3>1 DEF SendRefused, Step
    <3>2. CASE NotMined(i)
      BY <3>2 DEF NotMined, Step
    <3> QED BY <1>15, <3>1, <3>2
  <2> QED BY <2>1, <1>15 DEF SendRefused, NotMined, ledger, rows, nonces, chain, clients
<1>16. ASSUME NEW i \in Row, MarkUnknown(i)
      PROVE  TypeOK'
  <2>1. RowsType'
    BY <1>16 DEF MarkUnknown, AfterSendError, Status, Active, Terminal, Tx, ledger, rows, nonces, chain, clients
  <2>2. WorkerType'
    BY <1>16 DEF MarkUnknown, AfterSendError, Step, ledger, rows, nonces, chain, clients
  <2> QED BY <2>1, <2>2, <1>16 DEF MarkUnknown, AfterSendError, ledger, rows, nonces, chain, clients
<1>17. ASSUME NEW i \in Row, Acknowledge(i)
      PROVE  TypeOK'
  <2>1. RowsType'
    BY <1>17 DEF Acknowledge, Status, Active, Terminal, Tx, ledger, rows, nonces, chain, clients
  <2>2. WorkerType'
    BY <1>17, SMTT(40) DEF Acknowledge, Step, ledger, rows, nonces, chain, clients
  <2> QED BY <2>1, <2>2, <1>17 DEF Acknowledge, ledger, rows, nonces, chain, clients
<1>18. ASSUME NEW i \in Row, UpdateConfirmations(i)
      PROVE  TypeOK'
  <2>1. RowsType'
    BY <1>18 DEF UpdateConfirmations, Status, Active, Terminal, Tx, ledger, rows, nonces, chain, clients
  <2>2. WorkerType'
    BY <1>18 DEF UpdateConfirmations, Step, ledger, rows, nonces, chain, clients
  <2> QED BY <2>1, <2>2, <1>18 DEF UpdateConfirmations, ledger, rows, nonces, chain, clients
<1>19. ASSUME NEW i \in Row, NEW r \in worker.receipt, Finalize(i, r)
      PROVE  TypeOK'
  <2>0. /\ r.fee \in Nat /\ amount[i] \in Nat /\ reservedFee[i] \in Nat
        /\ Spent(i, r) \in Nat /\ Spent(i, r) <= Held(i)
    BY <1>19 DEF Finalize, Receipt
  <2> HIDE DEF Spent
  <2>1. LedgerType'
    BY <1>19, <2>0 DEF Finalize, Entry
  <2>2. RowsType'
    <3>1. status' \in [Row -> Status]
      BY <1>19 DEF Finalize, Status, Terminal
    <3> QED BY <3>1, <2>0, <1>19 DEF Finalize
  <2>3. WorkerType'
    BY <1>19 DEF Finalize, Step
  <2> QED BY <2>1, <2>2, <2>3, <1>19 DEF Finalize, ledger, rows, nonces, chain, clients
<1>20. ASSUME Interrupt
      PROVE  TypeOK'
  BY <1>20 DEF Interrupt, Step, ledger, rows, nonces, chain, clients
<1>21. ASSUME NEW t \in mempool, NEW ok \in BOOLEAN, NEW fee \in 0 .. t.maxFee, Mine(t, ok, fee)
      PROVE  TypeOK'
  BY <1>21 DEF Mine, Tx, Receipt, ledger, rows, nonces, chain, clients
<1>22. ASSUME Bury
      PROVE  TypeOK'
  BY <1>22 DEF Bury, Tx, Receipt, ledger, rows, nonces, chain, clients
<1>23. ASSUME NEW r \in receipts, Reorg(r)
      PROVE  TypeOK'
  BY <1>23 DEF Reorg, Tx, Receipt, ledger, rows, nonces, chain, clients
<1>24. ASSUME NEW t \in mempool, Evict(t)
      PROVE  TypeOK'
  BY <1>24 DEF Evict, Tx, Receipt, ledger, rows, nonces, chain, clients
<1>25. ASSUME NEW s \in Sweep, NEW n \in PendingNonces, SweepAllocate(s, n)
      PROVE  TypeOK'
  <2>1. NonceType'
    BY <1>25 DEF SweepAllocate, PendingNonces, ChosenNonce, ledger, rows, nonces, chain, clients
  <2>2. ChainType'
    BY <1>25 DEF SweepAllocate, PendingNonces, ChosenNonce, Tx, Receipt, ledger, rows, nonces, chain, clients
  <2> QED BY <2>1, <2>2, <1>25 DEF SweepAllocate, PendingNonces, ChosenNonce, ledger, rows, nonces, chain, clients
<1>26. ASSUME NEW s \in Sweep, SweepBroadcast(s)
      PROVE  TypeOK'
  BY <1>26 DEF SweepBroadcast, SweepTx, Tx, Receipt, ledger, rows, nonces, chain, clients
<1>27. ASSUME UNCHANGED vars
      PROVE  TypeOK'
  BY <1>27 DEF vars, ledger, rows, nonces, chain, clients
<1> HIDE DEF TypeOK
<1> QED
  BY <1>1, <1>2, <1>3, <1>4, <1>5, <1>6, <1>7, <1>8, <1>9, <1>10, <1>11, <1>12, <1>13, <1>14, <1>15, <1>16, <1>17, <1>18, <1>19, <1>20, <1>21, <1>22, <1>23, <1>24, <1>25, <1>26, <1>27, StepCases

(* Type correctness: no step drives a balance below zero, which the CHECK  *)
(* constraints of asset_balances would turn into a failed transaction.     *)
THEOREM TypeCorrect == Spec => []TypeOK
BY InitType, NextType, PTL DEF Spec

-----------------------------------------------------------------------------
(***************************************************************************)
(* The inductive invariant.                                                *)
(***************************************************************************)

(* The steps of the worker that write its row, and the lemma that no other *)
(* step but Reserve writes one.                                            *)
RowWrite(i) ==
  \/ \E q \in Fee : RaiseFee(i, q)
  \/ \E n \in PendingNonces : Allocate(i, n)
  \/ Save(i) \/ Release(i) \/ BeginSend(i) \/ MarkUnknown(i)
  \/ Acknowledge(i) \/ UpdateConfirmations(i)
  \/ \E r \in worker.receipt : Finalize(i, r)

LEMMA RowSteps ==
  ASSUME [Next]_vars
  PROVE  UNCHANGED <<ledger, rows>> \/ (\E h \in Handler : Reserve(h)) \/ (\E i \in Row : RowWrite(i))
<1> USE DEF clients, ledger, rows
<1>1. CASE \E h \in Handler : HandlerStep(h)
  <2>1. PICK h \in Handler : HandlerStep(h)
    BY <1>1
  <2>2. \A i \in Row, a \in Amount : SubmitExisting(h, i, a) => UNCHANGED <<ledger, rows>>
    BY DEF SubmitExisting
  <2>3. \A i \in Row, a \in Amount, q \in Fee : SubmitNew(h, i, a, q) => UNCHANGED <<ledger, rows>>
    BY DEF SubmitNew
  <2>4. ReserveExisting(h) \/ Reject(h) => UNCHANGED <<ledger, rows>>
    BY DEF ReserveExisting, Reject
  <2> QED BY <2>1, <2>2, <2>3, <2>4 DEF HandlerStep
<1>2. CASE \E i \in Row : WorkerStep(i)
  <2>1. PICK i \in Row : WorkerStep(i)
    BY <1>2
  <2>2. Pick(i) \/ CheckFunds(i) \/ SendRefused(i) \/ NotMined(i) => UNCHANGED <<ledger, rows>>
    BY DEF Pick, CheckFunds, SendRefused, NotMined
  <2>3. \A q \in Fee : CannotRaiseFee(i, q) => UNCHANGED <<ledger, rows>>
    BY DEF CannotRaiseFee
  <2>4. \A r \in receipts : FoundBeforeSend(i, r) \/ Confirm(i, r) => UNCHANGED <<ledger, rows>>
    BY DEF FoundBeforeSend, Confirm
  <2>5. \A t \in rawTx[i], b \in BOOLEAN : Send(i, t, b) => UNCHANGED <<ledger, rows>>
    BY DEF Send
  <2>6. UNCHANGED <<ledger, rows>> \/ RowWrite(i)
    BY <2>1, <2>2, <2>3, <2>4, <2>5 DEF WorkerStep, RowWrite
  <2> QED BY <2>6
<1>3. CASE ChainStep
  BY <1>3 DEF ChainStep, Mine, Bury, Reorg, Evict
<1>4. CASE \E s \in Sweep : SweepStep(s)
  BY <1>4 DEF SweepStep, SweepAllocate, SweepBroadcast
<1>5. CASE Interrupt
  BY <1>5 DEF Interrupt
<1>6. CASE UNCHANGED vars
  BY <1>6 DEF vars
<1> QED BY <1>1, <1>2, <1>3, <1>4, <1>5, <1>6 DEF Next

(* A row in hand of the worker has the status its step is taken in. *)
LEMMA AtStatus ==
  ASSUME TypeOK, WorkerShape, NEW i \in Row, NEW l \in Step \ {"idle"}, At(i, l)
  PROVE  status[i] \in Statuses(l)
BY DEF WorkerShape

LEMMA RowShapeNext ==
  ASSUME TypeOK, TypeOK', RowShape, WorkerShape, [Next]_vars
  PROVE  RowShape'
<1> USE Senders DEF TypeOK, RowsType, RowShape, Signed
<1>1. CASE UNCHANGED <<ledger, rows>>
  BY <1>1 DEF rows
<1>2. ASSUME NEW h \in Handler, Reserve(h) PROVE RowShape'
  BY <1>2 DEF Reserve, ClientsType, Sent, Terminal
<1>3. ASSUME NEW i \in Row, NEW q \in Fee, RaiseFee(i, q) PROVE RowShape'
  BY <1>3, ConstantsAssumption DEF RaiseFee, Tx
<1>4. ASSUME NEW i \in Row, NEW n \in PendingNonces, Allocate(i, n) PROVE RowShape'
  <2>1. ChosenNonce(n) # None
    BY DEF ChosenNonce, PendingNonces, NonceType, None
  <2> QED BY <1>4, <2>1 DEF Allocate, Sent, Terminal
<1>5. ASSUME NEW i \in Row, Save(i) PROVE RowShape'
  BY <1>5 DEF Save, WorkerShape, Sent, Terminal
<1>6. ASSUME NEW i \in Row, Release(i) PROVE RowShape'
  BY <1>6 DEF Release, Sent, Terminal
<1>7. ASSUME NEW i \in Row, BeginSend(i) \/ MarkUnknown(i) \/ Acknowledge(i) \/ UpdateConfirmations(i)
      PROVE  RowShape'
  <2>1. status[i] \in {"SIGNED", "BROADCASTING", "BROADCAST_UNKNOWN", "BROADCASTED", "CONFIRMING"}
    BY <1>7, AtStatus DEF BeginSend, MarkUnknown, Acknowledge, UpdateConfirmations, Statuses, Step
  <2>2. /\ status'[i] \in Sent
        /\ \A j \in Row \ {i} : status'[j] = status[j]
        /\ UNCHANGED <<amount, reservedFee, nonce, rawTx, actualFee>>
    <3>1. CASE BeginSend(i)  BY <2>1, <3>1 DEF BeginSend, Sent
    <3>2. CASE MarkUnknown(i)
      <4>1. status[i] # "SIGNED"
        BY <3>2, AtStatus DEF MarkUnknown, Statuses, Step
      <4> QED BY <2>1, <3>2, <4>1 DEF MarkUnknown, AfterSendError, Sent
    <3>3. CASE Acknowledge(i)  BY <2>1, <3>3 DEF Acknowledge, Sent
    <3>4. CASE UpdateConfirmations(i)  BY <2>1, <3>4 DEF UpdateConfirmations, Sent
    <3> QED BY <1>7, <3>1, <3>2, <3>3, <3>4
  <2> QED BY <2>1, <2>2 DEF Sent, Terminal
<1>8. ASSUME NEW i \in Row, NEW r \in worker.receipt, Finalize(i, r) PROVE RowShape'
  <2>1. actualFee'[i] # None /\ status'[i] \in Terminal
    BY <1>8 DEF Finalize, WorkerType, Receipt, Terminal
  <2> QED BY <1>8, <2>1 DEF Finalize, Sent, Terminal
<1> QED BY <1>1, <1>2, <1>3, <1>4, <1>5, <1>6, <1>7, <1>8, RowSteps DEF RowWrite

(* A signed transaction stays what it is; a row that was sent stays so;    *)
(* an allocated nonce of a sweep stays its nonce.                          *)
LEMMA SignedStays ==
  ASSUME TypeOK, RowShape, WorkerShape, [Next]_vars
  PROVE  \A i \in Row : /\ rawTx[i] # {} => rawTx'[i] = rawTx[i]
                        /\ status[i] \in Sent \union Terminal
                             => status'[i] \in Sent \union Terminal
<1> DEFINE Stays == \A i \in Row : /\ rawTx[i] # {} => rawTx'[i] = rawTx[i]
                                   /\ status[i] \in Sent \union Terminal
                                        => status'[i] \in Sent \union Terminal
<1> SUFFICES Stays
  OBVIOUS
<1> USE DEF TypeOK, RowsType, Sent, Terminal
<1>1. CASE UNCHANGED <<ledger, rows>>
  BY <1>1 DEF rows
<1>2. ASSUME NEW h \in Handler, Reserve(h) PROVE Stays
  BY <1>2 DEF Reserve
<1>3. ASSUME NEW i \in Row, NEW q \in Fee, RaiseFee(i, q) PROVE Stays
  BY <1>3 DEF RaiseFee
<1>4. ASSUME NEW i \in Row, NEW n \in PendingNonces, Allocate(i, n) PROVE Stays
  BY <1>4 DEF Allocate
<1>5. ASSUME NEW i \in Row, Save(i) PROVE Stays
  BY <1>5 DEF Save, RowShape, Signed
<1>6. ASSUME NEW i \in Row, Release(i) PROVE Stays
  BY <1>6 DEF Release
<1>7. ASSUME NEW i \in Row, BeginSend(i) PROVE Stays
  BY <1>7 DEF BeginSend
<1>8. ASSUME NEW i \in Row, MarkUnknown(i) PROVE Stays
  BY <1>8 DEF MarkUnknown, AfterSendError
<1>9. ASSUME NEW i \in Row, Acknowledge(i) PROVE Stays
  BY <1>9 DEF Acknowledge
<1>10. ASSUME NEW i \in Row, UpdateConfirmations(i) PROVE Stays
  BY <1>10 DEF UpdateConfirmations
<1>11. ASSUME NEW i \in Row, NEW r \in worker.receipt, Finalize(i, r) PROVE Stays
  BY <1>11 DEF Finalize
<1> HIDE DEF Stays
<1> QED BY <1>1, <1>2, <1>3, <1>4, <1>5, <1>6, <1>7, <1>8, <1>9, <1>10, <1>11, RowSteps DEF RowWrite

LEMMA WorkerShapeNext ==
  ASSUME TypeOK, RowShape, WorkerShape, ChainShape, [Next]_vars
  PROVE  WorkerShape'
<1> USE DEF WorkerShape
<1>1. UNCHANGED <<worker, rows>> => WorkerShape'
  BY DEF rows, Statuses
<1>2. ASSUME NEW h \in Handler, NEW i \in Row, NEW a \in Amount, SubmitExisting(h, i, a)
      PROVE  WorkerShape'
  BY <1>2, <1>1 DEF SubmitExisting
<1>3. ASSUME NEW h \in Handler, NEW i \in Row, NEW a \in Amount, NEW q \in Fee, SubmitNew(h, i, a, q)
      PROVE  WorkerShape'
  BY <1>3, <1>1 DEF SubmitNew
<1>4. ASSUME NEW h \in Handler, Reserve(h)
      PROVE  WorkerShape'
  BY <1>4 DEF Reserve, TypeOK, RowsType, WorkerType, Statuses, Step, RowShape, Signed
<1>5. ASSUME NEW h \in Handler, ReserveExisting(h) \/ Reject(h)
      PROVE  WorkerShape'
  BY <1>5, <1>1 DEF ReserveExisting, Reject
<1>6. ASSUME NEW i \in Row, Pick(i)
      PROVE  WorkerShape'
  BY <1>6 DEF Pick, FirstStep, Active, Statuses, rows
<1>7. ASSUME NEW i \in Row, NEW q \in Fee, RaiseFee(i, q)
      PROVE  WorkerShape'
  <2>1. q \in Nat /\ q <= reservedFee'[i]
    BY <1>7, ConstantsAssumption DEF RaiseFee, TypeOK, RowsType
  <2>2. worker'.at \in {"fundCreated", "fundSigning"} /\ worker'.row = i /\ worker'.quote = q
        /\ worker'.receipt = worker.receipt
        /\ (worker.at = "prepare" => worker'.at = "fundCreated")
        /\ (worker.at = "sign" => worker'.at = "fundSigning")
    BY <1>7 DEF RaiseFee, AfterFee, TypeOK, WorkerType
  <2>3. status' = status /\ rawTx' = rawTx
    BY <1>7 DEF RaiseFee
  <2> QED BY <1>7, <2>1, <2>2, <2>3 DEF RaiseFee, Statuses
<1>8. ASSUME NEW i \in Row, NEW q \in Fee, CannotRaiseFee(i, q)
      PROVE  WorkerShape'
  BY <1>8 DEF CannotRaiseFee, Statuses, TypeOK, WorkerType, rows
<1>9. ASSUME NEW i \in Row, CheckFunds(i)
      PROVE  WorkerShape'
  BY <1>9 DEF CheckFunds, Statuses, TypeOK, WorkerType, rows
<1>10. ASSUME NEW i \in Row, NEW n \in PendingNonces, Allocate(i, n)
      PROVE  WorkerShape'
  BY <1>10 DEF Allocate, Statuses, TypeOK, RowsType, WorkerType
<1>11. ASSUME NEW i \in Row, Save(i)
      PROVE  WorkerShape'
  <2>1. worker.receipt = {}
    BY <1>11 DEF Save, RowShape, Signed, Sent, Terminal
  <2> QED BY <1>11, <2>1 DEF Save, Statuses, TypeOK, RowsType, WorkerType
<1>12. ASSUME NEW i \in Row, Release(i)
      PROVE  WorkerShape'
  BY <1>12 DEF Release
<1>13. ASSUME NEW i \in Row, NEW r \in receipts, FoundBeforeSend(i, r) \/ Confirm(i, r)
      PROVE  WorkerShape'
  <2>1. r.tx \in rawTx[i] /\ r.fee <= r.tx.maxFee
    BY <1>13 DEF FoundBeforeSend, Confirm, ChainShape
  <2>2. CASE FoundBeforeSend(i, r)
    BY <2>1, <2>2 DEF FoundBeforeSend, Statuses, TypeOK, WorkerType, rows
  <2>3. CASE Confirm(i, r)
    BY <2>1, <2>3 DEF Confirm, Statuses, TypeOK, WorkerType, rows
  <2> QED BY <1>13, <2>2, <2>3
<1>14. ASSUME NEW i \in Row, BeginSend(i)
      PROVE  WorkerShape'
  BY <1>14 DEF BeginSend, Statuses, TypeOK, RowsType, WorkerType
<1>15. ASSUME NEW i \in Row, NEW t \in rawTx[i], NEW b \in BOOLEAN, Send(i, t, b)
      PROVE  WorkerShape'
  BY <1>15 DEF Send, Statuses, TypeOK, WorkerType, rows
<1>16. ASSUME NEW i \in Row, SendRefused(i) \/ NotMined(i)
      PROVE  WorkerShape'
  BY <1>16 DEF SendRefused, NotMined, Statuses, TypeOK, WorkerType, rows
<1>17. ASSUME NEW i \in Row, MarkUnknown(i)
      PROVE  WorkerShape'
  BY <1>17 DEF MarkUnknown
<1>18. ASSUME NEW i \in Row, Acknowledge(i)
      PROVE  WorkerShape'
  BY <1>18 DEF Acknowledge, Statuses, TypeOK, RowsType, WorkerType
<1>19. ASSUME NEW i \in Row, UpdateConfirmations(i)
      PROVE  WorkerShape'
  BY <1>19 DEF UpdateConfirmations
<1>20. ASSUME NEW i \in Row, NEW r \in worker.receipt, Finalize(i, r)
      PROVE  WorkerShape'
  BY <1>20 DEF Finalize
<1>21. ASSUME Interrupt
      PROVE  WorkerShape'
  BY <1>21 DEF Interrupt
<1>22. ASSUME NEW t \in mempool, NEW ok \in BOOLEAN, NEW fee \in 0 .. t.maxFee, Mine(t, ok, fee)
      PROVE  WorkerShape'
  BY <1>22, <1>1 DEF Mine
<1>23. ASSUME Bury
      PROVE  WorkerShape'
  BY <1>23, <1>1 DEF Bury
<1>24. ASSUME NEW r \in receipts, Reorg(r)
      PROVE  WorkerShape'
  BY <1>24, <1>1 DEF Reorg
<1>25. ASSUME NEW t \in mempool, Evict(t)
      PROVE  WorkerShape'
  BY <1>25, <1>1 DEF Evict
<1>26. ASSUME NEW s \in Sweep, NEW n \in PendingNonces, SweepAllocate(s, n)
      PROVE  WorkerShape'
  BY <1>26, <1>1 DEF SweepAllocate
<1>27. ASSUME NEW s \in Sweep, SweepBroadcast(s)
      PROVE  WorkerShape'
  BY <1>27, <1>1 DEF SweepBroadcast
<1>28. ASSUME UNCHANGED vars
      PROVE  WorkerShape'
  BY <1>28, <1>1 DEF vars
<1> HIDE DEF WorkerShape
<1> QED BY <1>2, <1>3, <1>4, <1>5, <1>6, <1>7, <1>8, <1>9, <1>10, <1>11, <1>12, <1>13, <1>14, <1>15, <1>16, <1>17, <1>18, <1>19, <1>20, <1>21, <1>22, <1>23, <1>24, <1>25, <1>26, <1>27, <1>28, StepCases

(* The steps that allocate nonces. *)
LEMMA NonceSteps ==
  ASSUME [Next]_vars
  PROVE  \/ UNCHANGED <<nonce, nextNonce, sweepNonce>>
         \/ \E i \in Row, n \in PendingNonces : Allocate(i, n)
         \/ \E s \in Sweep, n \in PendingNonces : SweepAllocate(s, n)
<1>1. CASE UNCHANGED <<nonce, nextNonce, sweepNonce>>
  BY <1>1
<1>2. CASE ~ UNCHANGED <<nonce, nextNonce, sweepNonce>>
  <2>1. CASE \E h \in Handler : HandlerStep(h)
    BY <1>2, <2>1 DEF HandlerStep, SubmitExisting, SubmitNew, Reserve, ReserveExisting, Reject,
       rows, nonces
  <2>2. CASE \E i \in Row : WorkerStep(i)
    <3>1. PICK i \in Row : WorkerStep(i)
      BY <2>2
    <3> QED
      BY <1>2, <3>1 DEF WorkerStep, Pick, RaiseFee, CannotRaiseFee, CheckFunds, Save, Release,
         FoundBeforeSend, Confirm, BeginSend, Send, SendRefused, NotMined, MarkUnknown,
         Acknowledge, UpdateConfirmations, Finalize, rows, nonces
  <2>3. CASE ChainStep
    BY <1>2, <2>3 DEF ChainStep, Mine, Bury, Reorg, Evict, rows, nonces
  <2>4. CASE \E s \in Sweep : SweepStep(s)
    BY <1>2, <2>4 DEF SweepStep, SweepBroadcast, rows, nonces
  <2>5. CASE Interrupt
    BY <1>2, <2>5 DEF Interrupt, rows, nonces
  <2>6. CASE UNCHANGED vars
    BY <1>2, <2>6 DEF vars, rows, nonces
  <2> QED BY <2>1, <2>2, <2>3, <2>4, <2>5, <2>6 DEF Next
<1> QED BY <1>1, <1>2

LEMMA NoncesNext ==
  ASSUME TypeOK, NonceExclusive, NoncesBelow, [Next]_vars
  PROVE  NonceExclusive' /\ NoncesBelow'
<1> USE Senders DEF TypeOK, RowsType, NonceType, NonceExclusive, NoncesBelow
<1>1. CASE UNCHANGED <<nonce, nextNonce, sweepNonce>>
  BY <1>1
<1>2. ASSUME NEW n \in PendingNonces
      PROVE  ChosenNonce(n) \in Nat /\ ChosenNonce(n) >= nextNonce
  BY DEF ChosenNonce, PendingNonces
<1>3. ASSUME NEW i \in Row, NEW n \in PendingNonces, Allocate(i, n)
      PROVE  NonceExclusive' /\ NoncesBelow'
  BY <1>2, <1>3 DEF Allocate, None
<1>4. ASSUME NEW s \in Sweep, NEW n \in PendingNonces, SweepAllocate(s, n)
      PROVE  NonceExclusive' /\ NoncesBelow'
  BY <1>2, <1>4 DEF SweepAllocate, rows, None
<1> QED BY <1>1, <1>3, <1>4, NonceSteps

(* What was sent by a row or a sweep still counts as sent by it. *)
LEMMA SentByStays ==
  ASSUME TypeOK, RowShape, WorkerShape, [Next]_vars, NEW t, SentBy(t)
  PROVE  SentBy(t)'
<1>1. CASE t.from \in Row
  <2> DEFINE i == t.from
  <2>1. t \in rawTx[i] /\ status[i] \in Sent \union Terminal
    BY <1>1 DEF SentBy
  <2>2. \A j \in Row : /\ rawTx[j] # {} => rawTx'[j] = rawTx[j]
                       /\ status[j] \in Sent \union Terminal => status'[j] \in Sent \union Terminal
    BY SignedStays
  <2>3. rawTx'[i] = rawTx[i] /\ status'[i] \in Sent \union Terminal
    BY <1>1, <2>1, <2>2
  <2> QED BY <1>1, <2>1, <2>3 DEF SentBy
<1>2. CASE t.from \notin Row
  <2>1. t.from \in Sweep /\ sweepNonce[t.from] # None /\ t = SweepTx(t.from)
    BY <1>2 DEF SentBy
  <2>2. sweepNonce'[t.from] = sweepNonce[t.from]
    BY <2>1, NonceSteps DEF Allocate, SweepAllocate, TypeOK, NonceType
  <2> QED BY <1>2, <2>1, <2>2 DEF SentBy, SweepTx
<1> QED BY <1>1, <1>2

LEMMA ChainShapeNext ==
  ASSUME TypeOK, TypeOK', RowShape, WorkerShape, ChainShape, [Next]_vars
  PROVE  ChainShape'
<1>0. \A t : SentBy(t) => SentBy(t)'
  BY SentByStays
<1> USE DEF TypeOK, ChainType, Tx, Receipt
<1> HIDE DEF TypeOK
<1>1. CASE UNCHANGED <<mempool, receipts, accountNonce>>
  BY <1>0, <1>1 DEF ChainShape
<1>2. ASSUME NEW i \in Row, NEW t \in rawTx[i], NEW b \in BOOLEAN, Send(i, t, b)
      PROVE  ChainShape'
  <2>1. SentBy(t)
    BY <1>2, AtStatus DEF Send, SentBy, RowShape, Statuses, Step, Sent
  <2>2. t.nonce >= accountNonce
    BY <1>2 DEF Send, Acceptable, ChainShape
  <2> QED BY <1>0, <1>2, <2>1, <2>2 DEF Send, ChainShape
<1>3. ASSUME NEW s \in Sweep, SweepBroadcast(s)
      PROVE  ChainShape'
  <2>1. SentBy(SweepTx(s)) /\ SweepTx(s).nonce >= accountNonce
    BY <1>3, Senders DEF SweepBroadcast, SentBy, SweepTx, Acceptable
  <2> QED BY <1>0, <1>3, <2>1 DEF SweepBroadcast, ChainShape
<1>4. ASSUME NEW t \in mempool, NEW ok \in BOOLEAN, NEW fee \in 0 .. t.maxFee, Mine(t, ok, fee)
      PROVE  ChainShape'
  <2>1. /\ accountNonce \in Nat /\ \A u \in mempool : u.nonce \in Nat
        /\ \A r \in receipts : r.tx.nonce \in Nat
    BY DEF TypeOK
  <2>2. \A u \in mempool' : SentBy(u)' /\ u.nonce >= accountNonce'
    BY <1>0, <1>4, <2>1 DEF Mine, ChainShape
  <2>3. \A r \in receipts' : SentBy(r.tx)' /\ r.tx.nonce < accountNonce' /\ r.fee <= r.tx.maxFee
    BY <1>0, <1>4, <2>1 DEF Mine, ChainShape
  <2>4. \A r, q \in receipts' : r.tx.nonce = q.tx.nonce => r = q
    BY <1>4, <2>1 DEF Mine, ChainShape
  <2> QED BY <2>2, <2>3, <2>4 DEF ChainShape
<1>5. ASSUME NEW r \in receipts, Reorg(r)
      PROVE  ChainShape'
  <2>1. /\ accountNonce \in Nat /\ \A u \in mempool : u.nonce \in Nat
        /\ \A q \in receipts : q.tx.nonce \in Nat
    BY DEF TypeOK
  <2>2. \A u \in mempool' : SentBy(u)' /\ u.nonce >= accountNonce'
    BY <1>0, <1>5, <2>1 DEF Reorg, ChainShape
  <2>3. \A q \in receipts' : SentBy(q.tx)' /\ q.tx.nonce < accountNonce' /\ q.fee <= q.tx.maxFee
    BY <1>0, <1>5, <2>1 DEF Reorg, ChainShape
  <2>4. \A p, q \in receipts' : p.tx.nonce = q.tx.nonce => p = q
    BY <1>5 DEF Reorg, ChainShape
  <2> QED BY <2>2, <2>3, <2>4 DEF ChainShape
<1>6. ASSUME NEW t \in mempool, Evict(t)
      PROVE  ChainShape'
  BY <1>0, <1>6 DEF Evict, ChainShape
<1>7. CASE \E h \in Handler : HandlerStep(h)
  BY <1>1, <1>7 DEF HandlerStep, SubmitExisting, SubmitNew, Reserve, ReserveExisting, Reject, chain
<1>8. CASE \E i \in Row : WorkerStep(i)
  <2>1. PICK i \in Row : WorkerStep(i)
    BY <1>8
  <2> QED
    BY <1>1, <1>2, <2>1 DEF WorkerStep, Pick, RaiseFee, CannotRaiseFee, CheckFunds, Allocate,
       Save, Release, FoundBeforeSend, Confirm, BeginSend, SendRefused, NotMined, MarkUnknown,
       Acknowledge, UpdateConfirmations, Finalize, chain
<1>9. CASE ChainStep
  BY <1>1, <1>4, <1>5, <1>6, <1>9 DEF ChainStep, Bury
<1>10. CASE \E s \in Sweep : SweepStep(s)
  BY <1>1, <1>3, <1>10 DEF SweepStep, SweepAllocate
<1>11. CASE Interrupt \/ UNCHANGED vars
  BY <1>1, <1>11 DEF Interrupt, vars, chain
<1> QED BY <1>7, <1>8, <1>9, <1>10, <1>11 DEF Next

-----------------------------------------------------------------------------
(***************************************************************************)
(* Theorems of the specification.                                          *)
(***************************************************************************)

LEMMA InitInv == Init => IndInv
BY Senders DEF Init, IndInv, RowShape, Signed, Sent, Terminal, WorkerShape, NonceExclusive,
   NoncesBelow, ChainShape

LEMMA NextInv == TypeOK /\ IndInv /\ [Next]_vars => TypeOK' /\ IndInv'
BY NextType, RowShapeNext, WorkerShapeNext, NoncesNext, ChainShapeNext DEF IndInv

(* The invariant is inductive. *)
THEOREM Inductive == Spec => [](TypeOK /\ IndInv)
<1>1. Init => TypeOK /\ IndInv
  BY InitType, InitInv
<1>2. TypeOK /\ IndInv /\ [Next]_vars => (TypeOK /\ IndInv)'
  BY NextInv
<1> QED BY <1>1, <1>2, PTL DEF Spec

(* Withdrawals and sweeps of an address never share a nonce, whatever the  *)
(* endpoints answer and whenever the process restarts.                     *)
THEOREM NoncesExclusive == Spec => []NonceExclusive
BY Inductive, PTL DEF IndInv

(* Every transaction a node ever holds for a withdrawal is the one saved   *)
(* in its row before the first send, and a withdrawal whose hold was       *)
(* released has none.                                                      *)
THEOREM RecordedBeforeSent == Spec => []SentIsRecorded
<1>1. TypeOK /\ IndInv => SentIsRecorded
  <2> SUFFICES ASSUME TypeOK, IndInv, NEW i \in Row, NEW t \in OnChain(i)
               PROVE  /\ OnChain(i) \subseteq rawTx[i]
                      /\ status[i] \in Sent \union Terminal
                      /\ status[i] \in Terminal => actualFee[i] # None
    BY DEF SentIsRecorded
  <2>1. \A u \in OnChain(i) : SentBy(u) /\ u.from = i
    BY DEF OnChain, IndInv, ChainShape
  <2>2. t \in rawTx[i] /\ status[i] \in Sent \union Terminal
    BY <2>1 DEF SentBy
  <2>3. Signed(i)
    BY <2>2 DEF IndInv, RowShape
  <2> QED BY <2>1, <2>2, <2>3 DEF SentBy, Signed, Sent, Terminal, IndInv, RowShape
<1> QED BY <1>1, Inductive, PTL

(* A withdrawal is paid at most once, and the amount it reserved.          *)
THEOREM PaidAtMostOnce == Spec => []PaidOnce
<1>1. TypeOK /\ IndInv => PaidOnce
  <2> SUFFICES ASSUME TypeOK, IndInv, NEW r \in receipts, r.tx.from \in Row
               PROVE  /\ r.tx.amount = amount[r.tx.from]
                      /\ \A q \in receipts : q.tx.from = r.tx.from => q = r
    BY DEF PaidOnce
  <2>1. \A q \in receipts : q.tx.from \in Row => q.tx \in rawTx[q.tx.from]
    BY DEF IndInv, ChainShape, SentBy
  <2>2. r.tx.amount = amount[r.tx.from] /\ rawTx[r.tx.from] = {r.tx}
    BY <2>1 DEF IndInv, RowShape
  <2>3. ASSUME NEW q \in receipts, q.tx.from = r.tx.from PROVE q = r
    <3>1. q.tx = r.tx
      BY <2>1, <2>2, <2>3
    <3> QED BY <3>1 DEF IndInv, ChainShape
  <2> QED BY <2>2, <2>3
<1> QED BY <1>1, Inductive, PTL

(* The fee a signed transaction can cost is covered by the fee held.       *)
THEOREM FeesHeld == Spec => []FeeWithinHold
<1>1. IndInv => FeeWithinHold
  BY DEF IndInv, RowShape, FeeWithinHold
<1> QED BY <1>1, Inductive, PTL

(* Once signed, a withdrawal's transaction is never replaced.              *)
THEOREM SameBytes == Spec => RawTxImmutable
<1>1. TypeOK /\ IndInv /\ [Next]_vars
        => [\A i \in Row : rawTx[i] # {} => rawTx'[i] = rawTx[i]]_vars
  <2> SUFFICES ASSUME TypeOK, IndInv, [Next]_vars, NEW i \in Row, rawTx[i] # {}
               PROVE  rawTx'[i] = rawTx[i]
    OBVIOUS
  <2>1. \A j \in Row : /\ rawTx[j] # {} => rawTx'[j] = rawTx[j]
                       /\ status[j] \in Sent \union Terminal => status'[j] \in Sent \union Terminal
    BY SignedStays DEF IndInv
  <2> QED BY <2>1
<1> QED BY <1>1, Inductive, PTL DEF Spec, RawTxImmutable

(* A withdrawal that was settled or released is never taken up again, and  *)
(* what it was settled for stays: not a late acknowledgement, nor a count  *)
(* of confirmations, nor a request with its key reopens it.                *)
RowFinal(i) ==
  status[i] \in Terminal => UNCHANGED <<status[i], amount[i], reservedFee[i], nonce[i], actualFee[i]>>

THEOREM NoneReopened == Spec => [][\A i \in Row : RowFinal(i)]_vars
<1>1. TypeOK /\ IndInv /\ [Next]_vars => [\A i \in Row : RowFinal(i)]_vars
  <2> SUFFICES ASSUME TypeOK, IndInv, [Next]_vars, NEW i \in Row, status[i] \in Terminal
               PROVE  UNCHANGED <<status[i], amount[i], reservedFee[i], nonce[i], actualFee[i]>>
    BY DEF RowFinal
  <2> DEFINE Same == UNCHANGED <<status[i], amount[i], reservedFee[i], nonce[i], actualFee[i]>>
  <2> USE DEF TypeOK, RowsType
  <2>1. CASE UNCHANGED <<ledger, rows>>
    BY <2>1 DEF rows
  <2>2. ASSUME NEW h \in Handler, Reserve(h) PROVE Same
    BY <2>2 DEF Reserve, ClientsType, Terminal
  <2>3. ASSUME NEW j \in Row, RowWrite(j) PROVE Same
    <3>1. status[j] \notin Terminal
      BY <2>3, AtStatus DEF RowWrite, RaiseFee, Allocate, Save, Release, BeginSend, MarkUnknown, Acknowledge,
                            UpdateConfirmations, Finalize, IndInv, Statuses, Step, Terminal
    <3> QED BY <2>3, <3>1 DEF RowWrite, RaiseFee, Allocate, Save, Release, BeginSend, MarkUnknown, Acknowledge,
                              UpdateConfirmations, Finalize
  <2> QED BY <2>1, <2>2, <2>3, RowSteps
<1> QED BY <1>1, Inductive, PTL DEF Spec

-----------------------------------------------------------------------------
(***************************************************************************)
(* The holds: pendingWithdrawal is a sum over rows, so each step is shown  *)
(* to change one summand and the sum by the same amount.                   *)
(***************************************************************************)
(* A step that changes the hold of one row only. *)
LEMMA OneHold ==
  ASSUME TypeOK, TypeOK', HoldsMatch, NEW k \in Row,
         \A j \in Row \ {k} : Hold(j)' = Hold(j),
         pendingWithdrawal' = pendingWithdrawal - Hold(k) + Hold(k)'
  PROVE  HoldsMatch'
<1> DEFINE f == [i \in Row |-> Hold(i)]
           g == [i \in Row |-> Hold(i)']
<1>1. f \in [1 .. NumKeys -> Int] /\ g \in [1 .. NumKeys -> Int] /\ k \in 1 .. NumKeys
  BY DEF TypeOK, RowsType, Hold, Row
<1>2. f[k] = Hold(k) /\ g[k] = Hold(k)' /\ \A i \in (1 .. NumKeys) \ {k} : g[i] = f[i]
  BY DEF Row
<1> HIDE DEF f, g
<1>3. Total(g, NumKeys) = Total(f, NumKeys) - f[k] + g[k]
  BY <1>1, <1>2, TotalUpdate, ConstantsAssumption
<1>4. pendingWithdrawal = Total(f, NumKeys)
  BY DEF HoldsMatch, f
<1>5. HoldsMatch' <=> pendingWithdrawal' = Total(g, NumKeys)
  BY DEF HoldsMatch, g, Row
<1> QED BY <1>2, <1>3, <1>4, <1>5

(* A step that changes no hold and leaves the balance row alone. *)
LEMMA SameHolds ==
  ASSUME HoldsMatch, \A j \in Row : Hold(j)' = Hold(j), UNCHANGED pendingWithdrawal
  PROVE  HoldsMatch'
<1>1. [i \in Row |-> Hold(i)]' = [i \in Row |-> Hold(i)]
  BY DEF Row
<1> QED BY <1>1 DEF HoldsMatch

LEMMA HoldsNext ==
  ASSUME TypeOK, TypeOK', IndInv, HoldsMatch, [Next]_vars
  PROVE  HoldsMatch'
<1> USE Senders DEF TypeOK, LedgerType, RowsType
<1>1. CASE UNCHANGED <<ledger, rows>>
  BY <1>1, SameHolds DEF Hold, rows, ledger
<1>2. ASSUME NEW h \in Handler, Reserve(h) PROVE HoldsMatch'
  <2>0. PICK k \in Row : k = handlers[h].row
    BY <1>2 DEF Reserve, ClientsType
  <2>1. handlers[h].amount \in Nat /\ handlers[h].quote \in Nat
    BY DEF ClientsType
  <2>2. Hold(k) = 0 /\ Hold(k)' = handlers[h].amount + handlers[h].quote
    BY <1>2, <2>0, <2>1 DEF Reserve, Hold, Active
  <2>3. \A j \in Row \ {k} : Hold(j)' = Hold(j)
    BY <1>2, <2>0 DEF Reserve, Hold
  <2>4. pendingWithdrawal' = pendingWithdrawal - Hold(k) + Hold(k)'
    BY <1>2, <2>0, <2>1, <2>2 DEF Reserve
  <2> HIDE DEF TypeOK
  <2> QED BY <2>3, <2>4, OneHold
<1>3. ASSUME NEW i \in Row, NEW q \in Fee, RaiseFee(i, q) PROVE HoldsMatch'
  <2>1. Shortfall(i, q) \in Nat
    BY ConstantsAssumption DEF Shortfall, Larger
  <2>2. Hold(i)' = Hold(i) + Shortfall(i, q)
    BY <1>3, <2>1 DEF RaiseFee, Hold, Active
  <2>3. \A j \in Row \ {i} : Hold(j)' = Hold(j)
    BY <1>3 DEF RaiseFee, Hold
  <2>4. Hold(i) \in Nat
    BY DEF Hold
  <2>5. pendingWithdrawal' = pendingWithdrawal - Hold(i) + Hold(i)'
    BY <1>3, <2>1, <2>2, <2>4 DEF RaiseFee
  <2> HIDE DEF TypeOK
  <2> QED BY <2>3, <2>5, OneHold
<1>4. ASSUME NEW i \in Row, Release(i) \/ \E r \in worker.receipt : Finalize(i, r)
      PROVE  HoldsMatch'
  <2>1. Hold(i) = Held(i) /\ Held(i) \in Nat
    BY <1>4 DEF Release, Finalize, Hold, Held, Active
  <2>2. Hold(i)' = 0
    BY <1>4 DEF Release, Finalize, Hold, Active
  <2>3. \A j \in Row \ {i} : Hold(j)' = Hold(j)
    BY <1>4 DEF Release, Finalize, Hold
  <2>4. pendingWithdrawal' = pendingWithdrawal - Hold(i) + Hold(i)'
    BY <1>4, <2>1, <2>2 DEF Release, Finalize
  <2> HIDE DEF TypeOK
  <2> QED BY <2>3, <2>4, OneHold
<1>5. ASSUME NEW i \in Row,
             \/ \E n \in PendingNonces : Allocate(i, n)
             \/ Save(i) \/ BeginSend(i) \/ MarkUnknown(i) \/ Acknowledge(i) \/ UpdateConfirmations(i)
      PROVE  HoldsMatch'
  <2>1. status[i] \in Active
    BY <1>5, AtStatus DEF IndInv, Allocate, Save, BeginSend, MarkUnknown, Acknowledge,
       UpdateConfirmations, Statuses, Step, Active
  <2>2. status'[i] \in Active
    BY <1>5, <2>1 DEF Allocate, Save, BeginSend, MarkUnknown, AfterSendError, Acknowledge,
       UpdateConfirmations, Active
  <2>3. /\ \A j \in Row \ {i} : status'[j] = status[j]
        /\ UNCHANGED <<amount, reservedFee, pendingWithdrawal>>
    BY <1>5 DEF Allocate, Save, BeginSend, MarkUnknown, Acknowledge, UpdateConfirmations, ledger
  <2>4. \A j \in Row : Hold(j)' = Hold(j)
    BY <2>1, <2>2, <2>3 DEF Hold
  <2> QED BY <2>3, <2>4, SameHolds
<1> QED BY <1>1, <1>2, <1>3, <1>4, <1>5, RowSteps DEF RowWrite

LEMMA InitHolds == Init => HoldsMatch
<1> SUFFICES ASSUME Init PROVE HoldsMatch
  OBVIOUS
<1>1. [i \in Row |-> Hold(i)] = [i \in 1 .. NumKeys |-> 0]
  BY DEF Init, Hold, Active, Row
<1> QED BY <1>1, TotalZero, ConstantsAssumption DEF HoldsMatch, Init

(* What is pending is what live withdrawals hold, after any interleaving,  *)
(* crash and retry.                                                        *)
THEOREM HoldsAlwaysMatch == Spec => []HoldsMatch
<1>1. Init => HoldsMatch
  BY InitHolds
<1>2. TypeOK /\ IndInv /\ HoldsMatch /\ [Next]_vars => HoldsMatch'
  BY NextInv, HoldsNext
<1> QED BY <1>1, <1>2, Inductive, PTL DEF Spec

-----------------------------------------------------------------------------
(***************************************************************************)
(* What the books are worth.  The withdrawals implement Payout, and the    *)
(* ledger is backed by what is on the address: both need the chain to keep *)
(* a block once it has enough confirmations (no "deepReorg"), and the      *)
(* backing needs the address to send nothing but withdrawals (no sweeps),  *)
(* which the runs show.  A success reply is honoured, and the journal      *)
(* explains every row.                                                     *)
(***************************************************************************)
(* A settled withdrawal's receipt stays: it is below enough confirmations. *)
SettledIsBuried ==
  \A i \in Row : actualFee[i] # None => \E r \in receipts : r.tx.from = i /\ r.tx.nonce < buried

BlocksStay == "deepReorg" \notin Faults

-----------------------------------------------------------------------------
(***************************************************************************)
(* The receipt of a row is unique, and Taken is what it says.              *)
(***************************************************************************)

(* What the chain knows of a row: its one transaction. *)
LEMMA RowReceipts ==
  TypeOK /\ IndInv =>
    \A i \in Row : \A r \in receipts : r.tx.from = i =>
      /\ rawTx[i] = {r.tx} /\ r.tx.amount = amount[i] /\ r.tx.nonce < accountNonce
      /\ r.fee \in Nat /\ r.tx.nonce \in Nat /\ r.ok \in BOOLEAN
      /\ r.fee <= reservedFee[i]
      /\ status[i] \in Sent \union Terminal
      /\ status[i] \in Terminal => actualFee[i] # None
      /\ \A q \in receipts : q.tx.from = i => q = r
<1> SUFFICES ASSUME TypeOK, IndInv, NEW i \in Row, NEW r \in receipts, r.tx.from = i
             PROVE  /\ rawTx[i] = {r.tx} /\ r.tx.amount = amount[i] /\ r.tx.nonce < accountNonce
                    /\ r.fee \in Nat /\ r.tx.nonce \in Nat /\ r.ok \in BOOLEAN
                    /\ r.fee <= reservedFee[i]
                    /\ status[i] \in Sent \union Terminal
                    /\ status[i] \in Terminal => actualFee[i] # None
                    /\ \A q \in receipts : q.tx.from = i => q = r
  OBVIOUS
<1>1. \A q \in receipts : q.tx.from = i => q.tx \in rawTx[i]
  BY DEF IndInv, ChainShape, SentBy
<1>2. /\ r.tx.nonce < accountNonce /\ r.fee <= r.tx.maxFee
      /\ status[i] \in Sent \union Terminal
  BY DEF IndInv, ChainShape, SentBy
<1>3. rawTx[i] = {r.tx} /\ r.tx.amount = amount[i] /\ r.tx.maxFee <= reservedFee[i] /\ Signed(i)
  BY <1>1 DEF IndInv, RowShape
<1>4. /\ r.fee \in Nat /\ r.tx.nonce \in Nat /\ r.tx.maxFee \in Nat /\ r.ok \in BOOLEAN
      /\ reservedFee[i] \in Nat
  BY DEF TypeOK, ChainType, RowsType, Receipt, Tx
<1>5. status[i] \in Terminal => actualFee[i] # None
  BY <1>3 DEF Signed, IndInv, RowShape, Sent, Terminal
<1>6. ASSUME NEW q \in receipts, q.tx.from = i PROVE q = r
  <2>1. q.tx = r.tx
    BY <1>1, <1>3, <1>6
  <2> QED BY <2>1 DEF IndInv, ChainShape
<1> QED BY <1>2, <1>3, <1>4, <1>5, <1>6

LEMMA ChosenReceipt ==
  ASSUME NEW R, NEW i, NEW r \in R, r.tx.from = i, \A q \in R : q.tx.from = i => q = r
  PROVE  (CHOOSE q \in R : q.tx.from = i) = r
OBVIOUS

LEMMA TakenByReceipt ==
  TypeOK /\ IndInv =>
    \A i \in Row : \A r \in receipts : r.tx.from = i =>
      Taken(i) = r.fee + IF r.ok THEN amount[i] ELSE 0
<1> SUFFICES ASSUME TypeOK, IndInv, NEW i \in Row, NEW r \in receipts, r.tx.from = i
             PROVE  Taken(i) = r.fee + IF r.ok THEN amount[i] ELSE 0
  OBVIOUS
<1>1. r.tx.amount = amount[i] /\ \A q \in receipts : q.tx.from = i => q = r
  BY RowReceipts
<1>2. (CHOOSE q \in receipts : q.tx.from = i) = r
  BY <1>1, ChosenReceipt
<1> QED BY <1>1, <1>2 DEF Taken

LEMMA TakenByNone == \A i : (\A r \in receipts : r.tx.from # i) => Taken(i) = 0
BY DEF Taken

LEMMA TakenBound == TypeOK /\ IndInv => \A i \in Row : Taken(i) \in 0 .. Held(i)
<1> SUFFICES ASSUME TypeOK, IndInv, NEW i \in Row PROVE Taken(i) \in 0 .. Held(i)
  OBVIOUS
<1>1. amount[i] \in Nat /\ reservedFee[i] \in Nat
  BY DEF TypeOK, RowsType
<1>2. CASE \E r \in receipts : r.tx.from = i
  <2>1. PICK r \in receipts : r.tx.from = i
    BY <1>2
  <2>2. /\ Taken(i) = r.fee + IF r.ok THEN amount[i] ELSE 0
        /\ r.fee \in Nat /\ r.fee <= reservedFee[i]
    BY <2>1, TakenByReceipt, RowReceipts
  <2> QED BY <1>1, <2>2
<1>3. CASE \A r \in receipts : r.tx.from # i
  BY <1>1, <1>3, TakenByNone
<1> QED BY <1>2, <1>3

(* A withdrawal that has no signed transaction has none on the chain. *)
LEMMA TakenUnsigned ==
  TypeOK /\ IndInv => \A i \in Row : status[i] \in {"none", "CREATED", "SIGNING"} => Taken(i) = 0
BY RowReceipts, TakenByNone DEF Sent, Terminal

-----------------------------------------------------------------------------
(***************************************************************************)
(* The steps of the chain, and that no other step mines or replaces.       *)
(***************************************************************************)
MineStep  == \E t \in mempool, ok \in BOOLEAN : \E fee \in 0 .. t.maxFee : Mine(t, ok, fee)
ReorgStep == \E r \in receipts : Reorg(r)

LEMMA ReceiptSteps ==
  ASSUME [Next]_vars
  PROVE  \/ UNCHANGED <<receipts, accountNonce, buried>>
         \/ MineStep \/ Bury \/ ReorgStep
<1> USE DEF chain
<1>1. CASE \E h \in Handler : HandlerStep(h)
  BY <1>1 DEF HandlerStep, SubmitExisting, SubmitNew, Reserve, ReserveExisting, Reject
<1>2. CASE \E i \in Row : WorkerStep(i)
  <2>1. PICK i \in Row : WorkerStep(i)
    BY <1>2
  <2> QED
    BY <2>1 DEF WorkerStep, Pick, RaiseFee, CannotRaiseFee, CheckFunds, Allocate, Save, Release,
       FoundBeforeSend, Confirm, BeginSend, Send, SendRefused, NotMined, MarkUnknown,
       Acknowledge, UpdateConfirmations, Finalize
<1>3. CASE ChainStep
  BY <1>3 DEF ChainStep, MineStep, ReorgStep, Evict
<1>4. CASE \E s \in Sweep : SweepStep(s)
  BY <1>4 DEF SweepStep, SweepAllocate, SweepBroadcast
<1>5. CASE Interrupt \/ UNCHANGED vars
  BY <1>5 DEF Interrupt, vars
<1> QED BY <1>1, <1>2, <1>3, <1>4, <1>5 DEF Next

(* Rows and ledger stand still while the chain moves. *)
LEMMA ChainLeavesRows ==
  ASSUME MineStep \/ Bury \/ ReorgStep
  PROVE  UNCHANGED <<ledger, rows>>
BY DEF MineStep, ReorgStep, Mine, Bury, Reorg

(* A step that settles a row leaves the chain alone; every other step      *)
(* leaves the fees that were settled alone.                                *)
LEMMA FeeSteps ==
  ASSUME [Next]_vars
  PROVE  UNCHANGED actualFee \/ \E i \in Row, r \in worker.receipt : Finalize(i, r)
BY RowSteps, ZenonT(40) DEF RowWrite, Reserve, RaiseFee, Allocate, Save, Release, BeginSend, MarkUnknown,
   Acknowledge, UpdateConfirmations, rows

LEMMA WorkerReceipts ==
  ASSUME TypeOK, IndInv, NEW i \in Row, NEW r \in worker.receipt, Finalize(i, r)
  PROVE  /\ r.tx \in rawTx[i] /\ r.tx.from = i /\ r.tx.amount = amount[i]
         /\ r.tx.nonce \in Nat
BY DEF Finalize, IndInv, WorkerShape, RowShape, TypeOK, WorkerType, Receipt, Tx

LEMMA SettledNext ==
  ASSUME BlocksStay, TypeOK, IndInv, SettledIsBuried, [Next]_vars
  PROVE  SettledIsBuried'
<1> USE DEF SettledIsBuried
<1>0. /\ accountNonce \in Nat /\ buried \in 0 .. accountNonce
      /\ \A q \in receipts : q.tx.nonce \in Nat
  BY DEF TypeOK, ChainType, Receipt, Tx
<1>1. ASSUME NEW i \in Row, NEW r \in worker.receipt, Finalize(i, r) PROVE SettledIsBuried'
  <2>1. r \in receipts /\ r.tx.nonce < buried /\ r.tx.from = i
    BY <1>1, WorkerReceipts DEF Finalize, EnoughConfirmations, BlocksStay
  <2>2. UNCHANGED <<receipts, buried>> /\ \A j \in Row \ {i} : actualFee'[j] = actualFee[j]
    BY <1>1 DEF Finalize, chain, TypeOK, RowsType
  <2> QED BY <2>1, <2>2
<1>2. CASE UNCHANGED actualFee
  <2>1. CASE UNCHANGED <<receipts, accountNonce, buried>>
    BY <1>2, <2>1
  <2>2. CASE MineStep
    BY <1>2, <2>2 DEF MineStep, Mine
  <2>3. CASE Bury
    BY <1>0, <1>2, <2>3 DEF Bury
  <2>4. CASE ReorgStep
    BY <1>0, <1>2, <2>4 DEF ReorgStep, Reorg
  <2> QED BY <2>1, <2>2, <2>3, <2>4, ReceiptSteps
<1> QED BY <1>1, <1>2, FeeSteps

LEMMA InitSettled == Init => SettledIsBuried
BY DEF Init, SettledIsBuried

-----------------------------------------------------------------------------
(***************************************************************************)
(* What a step of the chain does to what it took for a row.                *)
(***************************************************************************)

(* A transaction of a row is mined: the row is live, and the first of its  *)
(* transactions to be mined.                                               *)
LEMMA MinedOnce ==
  ASSUME TypeOK, IndInv, SettledIsBuried, NEW i \in Row, NEW t \in mempool, t.from = i,
         t.nonce = accountNonce
  PROVE  /\ status[i] \in Active
         /\ \A r \in receipts : r.tx.from # i
         /\ t.amount = amount[i] /\ t.maxFee <= reservedFee[i]
<1>1. t \in rawTx[i] /\ status[i] \in Sent \union Terminal
  BY DEF IndInv, ChainShape, SentBy
<1>2. rawTx[i] = {t} /\ t.amount = amount[i] /\ t.maxFee <= reservedFee[i] /\ Signed(i)
  BY <1>1 DEF IndInv, RowShape
<1>3. \A r \in receipts : r.tx.from # i
  <2>1. ASSUME NEW r \in receipts, r.tx.from = i PROVE FALSE
    <3>1. r.tx = t /\ r.tx.nonce < accountNonce /\ accountNonce \in Nat
      BY <1>2, <2>1, RowReceipts DEF TypeOK, ChainType
    <3> QED BY <3>1
  <2> QED BY <2>1
<1>4. actualFee[i] = None
  BY <1>3 DEF SettledIsBuried
<1>5. status[i] \in Active
  BY <1>1, <1>2, <1>4 DEF Signed, IndInv, RowShape, Active, Sent, Terminal
<1> QED BY <1>2, <1>3, <1>5

(* A block is replaced: the row whose transaction it held is not settled.  *)
LEMMA UndoneInTime ==
  ASSUME TypeOK, IndInv, SettledIsBuried, NEW r \in receipts, Reorg(r), r.tx.from \in Row
  PROVE  status[r.tx.from] \in Active
<1> DEFINE i == r.tx.from
<1>1. /\ status[i] \in Sent \union Terminal /\ r.tx.nonce \in Nat
      /\ status[i] \in Terminal => actualFee[i] # None
      /\ \A q \in receipts : q.tx.from = i => q = r
  BY RowReceipts
<1>2. accountNonce \in Nat /\ buried \in Nat /\ r.tx.nonce >= buried
  BY DEF TypeOK, ChainType, Reorg
<1>3. actualFee[i] = None
  BY <1>1, <1>2 DEF SettledIsBuried
<1> QED BY <1>1, <1>3 DEF Active, Sent

(* Mining takes from one row what it held or less, and from no other.      *)
LEMMA MineTakes ==
  ASSUME TypeOK, IndInv, TypeOK', IndInv', SettledIsBuried,
         NEW t \in mempool, NEW ok \in BOOLEAN, NEW fee \in 0 .. t.maxFee, Mine(t, ok, fee)
  PROVE  /\ \A j \in Row \ {t.from} : Taken(j)' = Taken(j)
         /\ t.from \in Row => /\ Taken(t.from) = 0
                              /\ Taken(t.from)' = fee + IF ok THEN t.amount ELSE 0
<1> DEFINE m == [tx |-> t, ok |-> ok, fee |-> fee]
<1>1. receipts' = receipts \union {m} /\ m.tx.from = t.from /\ amount' = amount
  BY DEF Mine, rows
<1>2. ASSUME NEW j \in Row \ {t.from} PROVE Taken(j)' = Taken(j)
  <2>1. CASE \A r \in receipts : r.tx.from # j
    <3>1. \A r \in receipts' : r.tx.from # j
      BY <1>1, <2>1
    <3> QED BY <2>1, <3>1 DEF Taken
  <2>2. CASE \E r \in receipts : r.tx.from = j
    <3>1. PICK r \in receipts : r.tx.from = j
      BY <2>2
    <3>2. \A q \in receipts : q.tx.from = j => q = r
      BY <3>1, RowReceipts
    <3>3. r \in receipts' /\ \A q \in receipts' : q.tx.from = j => q = r
      BY <1>1, <3>2
    <3>4. /\ (CHOOSE q \in receipts : q.tx.from = j) = r
          /\ (CHOOSE q \in receipts' : q.tx.from = j) = r
      BY <3>1, <3>2, <3>3, ChosenReceipt
    <3> QED BY <3>1, <3>3, <3>4 DEF Taken
  <2> QED BY <2>1, <2>2
<1>3. ASSUME t.from \in Row
      PROVE  Taken(t.from) = 0 /\ Taken(t.from)' = fee + IF ok THEN t.amount ELSE 0
  <2>1. \A r \in receipts : r.tx.from # t.from
    BY <1>3, MinedOnce DEF Mine
  <2>2. m \in receipts' /\ \A q \in receipts' : q.tx.from = t.from => q = m
    BY <1>1, <2>1
  <2>3. (CHOOSE q \in receipts' : q.tx.from = t.from) = m
    BY <1>1, <2>2, ChosenReceipt
  <2> QED BY <1>1, <2>1, <2>2, <2>3 DEF Taken
<1> QED BY <1>2, <1>3

(* Replacing a block gives one row back what it took, and no other. *)
LEMMA ReorgUndoes ==
  ASSUME TypeOK, IndInv, NEW r \in receipts, Reorg(r)
  PROVE  /\ \A j \in Row \ {r.tx.from} : Taken(j)' = Taken(j)
         /\ r.tx.from \in Row => /\ Taken(r.tx.from)' = 0
                                 /\ Taken(r.tx.from) = r.fee + IF r.ok THEN r.tx.amount ELSE 0
<1>1. receipts' = receipts \ {r}
  BY DEF Reorg
<1>2. ASSUME NEW j \in Row \ {r.tx.from} PROVE Taken(j)' = Taken(j)
  <2>1. CASE \A q \in receipts : q.tx.from # j
    <3>1. \A q \in receipts' : q.tx.from # j
      BY <1>1, <2>1
    <3> QED BY <2>1, <3>1 DEF Taken
  <2>2. CASE \E q \in receipts : q.tx.from = j
    <3>1. PICK q \in receipts : q.tx.from = j
      BY <2>2
    <3>2. \A p \in receipts : p.tx.from = j => p = q
      BY <3>1, RowReceipts
    <3>3. q \in receipts' /\ \A p \in receipts' : p.tx.from = j => p = q
      BY <1>1, <3>1, <3>2
    <3>4. /\ (CHOOSE p \in receipts : p.tx.from = j) = q
          /\ (CHOOSE p \in receipts' : p.tx.from = j) = q
      BY <3>1, <3>2, <3>3, ChosenReceipt
    <3> QED BY <3>1, <3>3, <3>4 DEF Taken
  <2> QED BY <2>1, <2>2
<1>3. ASSUME r.tx.from \in Row
      PROVE  Taken(r.tx.from)' = 0 /\ Taken(r.tx.from) = r.fee + IF r.ok THEN r.tx.amount ELSE 0
  <2>1. r.tx.amount = amount[r.tx.from] /\ \A q \in receipts : q.tx.from = r.tx.from => q = r
    BY <1>3, RowReceipts
  <2>2. \A q \in receipts' : q.tx.from # r.tx.from
    BY <1>1, <2>1
  <2> QED BY <1>3, <2>1, <2>2, TakenByReceipt DEF Taken
<1> QED BY <1>2, <1>3

-----------------------------------------------------------------------------
(***************************************************************************)
(* What a step that writes a row does to its hold, its phase and the       *)
(* available balance: it opens a withdrawal, raises its fee, closes it, or *)
(* changes nothing of them.                                                *)
(***************************************************************************)
OtherRows(i) == \A j \in Row \ {i} : Hold(j)' = Hold(j) /\ Phase(j)' = Phase(j)
Moves(i) == pendingWithdrawal' = pendingWithdrawal - Hold(i) + Hold(i)'

Opens(i) ==
  /\ Phase(i) = "new" /\ Phase(i)' = "open" /\ Taken(i) = 0
  /\ Hold(i) = 0 /\ Hold(i)' \in 0 .. available /\ available' = available - Hold(i)'
Raises(i) ==
  /\ Phase(i) = "open" /\ Phase(i)' = "open" /\ Taken(i) = 0
  /\ Hold(i)' - Hold(i) \in 0 .. available /\ available' = available - (Hold(i)' - Hold(i))
Closes(i) ==
  /\ Phase(i) = "open" /\ Phase(i)' = "closed"
  /\ Hold(i)' = 0 /\ available' = available + (Hold(i) - Taken(i))
Stays ==
  /\ \A j \in Row : Hold(j)' = Hold(j) /\ Phase(j)' = Phase(j)
  /\ UNCHANGED <<available, pendingWithdrawal>>

LEMMA RowStepKinds ==
  ASSUME BlocksStay, TypeOK, IndInv, [Next]_vars
  PROVE  Stays \/ \E i \in Row : OtherRows(i) /\ Moves(i) /\ (Opens(i) \/ Raises(i) \/ Closes(i))
<1> DEFINE G == Stays \/ \E i \in Row : OtherRows(i) /\ Moves(i) /\ (Opens(i) \/ Raises(i) \/ Closes(i))
<1> USE DEF TypeOK, LedgerType, RowsType
<1> HIDE DEF TypeOK
<1>1. CASE UNCHANGED <<ledger, rows>>
  BY <1>1 DEF Stays, Hold, Phase, ledger, rows
<1>2. ASSUME NEW h \in Handler, Reserve(h) PROVE G
  <2>0. PICK i \in Row : i = handlers[h].row
    BY <1>2 DEF Reserve, TypeOK, ClientsType
  <2>1. handlers[h].amount \in Nat /\ handlers[h].quote \in Nat
    BY DEF TypeOK, ClientsType
  <2>2. OtherRows(i)
    BY <1>2, <2>0 DEF Reserve, OtherRows, Hold, Phase, TypeOK
  <2>3. /\ status[i] = "none" /\ status'[i] = "CREATED"
        /\ Hold(i) = 0 /\ Hold(i)' = handlers[h].amount + handlers[h].quote
    BY <1>2, <2>0, <2>1 DEF Reserve, Hold, TypeOK, Active
  <2>4. Phase(i) = "new" /\ Phase(i)' = "open"
    BY <2>3 DEF Phase, Active
  <2>5. Taken(i) = 0
    BY <2>3, TakenUnsigned
  <2>6. Opens(i)
    BY <1>2, <2>0, <2>1, <2>3, <2>4, <2>5 DEF Reserve, Opens, TypeOK
  <2>7. Moves(i)
    BY <1>2, <2>0, <2>1, <2>3 DEF Reserve, Moves, TypeOK
  <2> QED BY <2>2, <2>6, <2>7
<1>3. ASSUME NEW i \in Row, NEW q \in Fee, RaiseFee(i, q) PROVE G
  <2>1. Shortfall(i, q) \in Nat
    BY ConstantsAssumption DEF TypeOK
  <2>2. status[i] \in {"CREATED", "SIGNING"} /\ status' = status
    BY <1>3 DEF RaiseFee
  <2>3. Hold(i) \in Nat /\ Hold(i)' = Hold(i) + Shortfall(i, q)
    BY <1>3, <2>1, <2>2 DEF RaiseFee, Hold, Active, TypeOK
  <2>4. OtherRows(i)
    BY <1>3 DEF RaiseFee, OtherRows, Hold, Phase, TypeOK
  <2>5. Phase(i) = "open" /\ Phase(i)' = "open" /\ Taken(i) = 0
    BY <2>2, TakenUnsigned DEF Phase, Active
  <2>6. available >= Shortfall(i, q) /\ available' = available - Shortfall(i, q)
        /\ available \in Nat
    BY <1>3 DEF RaiseFee, TypeOK
  <2>7. pendingWithdrawal \in Int /\ pendingWithdrawal' = pendingWithdrawal + Shortfall(i, q)
    BY <1>3 DEF RaiseFee, TypeOK
  <2> HIDE DEF Shortfall
  <2>8. Raises(i) /\ Moves(i)
    BY <2>1, <2>3, <2>5, <2>6, <2>7 DEF Raises, Moves
  <2> QED BY <2>4, <2>8
<1>4. ASSUME NEW i \in Row, Release(i) PROVE G
  <2>1. status[i] \in {"CREATED", "SIGNING"} /\ status'[i] = "FAILED"
    BY <1>4 DEF Release, TypeOK
  <2>2. Hold(i) = Held(i) /\ Hold(i)' = 0 /\ Held(i) \in Nat
    BY <2>1 DEF Hold, Active, TypeOK
  <2>3. Phase(i) = "open" /\ Phase(i)' = "closed" /\ Taken(i) = 0
    BY <2>1, TakenUnsigned DEF Phase, Active, Terminal
  <2>4. OtherRows(i)
    BY <1>4 DEF Release, OtherRows, Hold, Phase, TypeOK
  <2>5. /\ available' = available + Held(i) /\ pendingWithdrawal' = pendingWithdrawal - Held(i)
        /\ pendingWithdrawal \in Int
    BY <1>4 DEF Release, TypeOK
  <2> HIDE DEF Held
  <2>6. Closes(i) /\ Moves(i)
    BY <2>2, <2>3, <2>5 DEF Closes, Moves
  <2> QED BY <2>4, <2>6
<1>5. ASSUME NEW i \in Row, NEW r \in worker.receipt, Finalize(i, r) PROVE G
  <2>1. status[i] \in {"BROADCASTED", "CONFIRMING"} /\ status'[i] \in Terminal
    BY <1>5 DEF Finalize, TypeOK, Terminal
  <2>2. Hold(i) = Held(i) /\ Hold(i)' = 0 /\ Held(i) \in Nat
    BY <2>1 DEF Hold, Active, Terminal, TypeOK
  <2>3. Phase(i) = "open" /\ Phase(i)' = "closed"
    BY <2>1 DEF Phase, Active, Terminal
  <2>4. OtherRows(i)
    BY <1>5 DEF Finalize, OtherRows, Hold, Phase, TypeOK
  <2>5. r \in receipts /\ r.tx.from = i
    BY <1>5, WorkerReceipts DEF Finalize, EnoughConfirmations, BlocksStay
  <2>6. Taken(i) = Spent(i, r)
    BY <2>5, TakenByReceipt
  <2>7. /\ available' = available + (Held(i) - Spent(i, r))
        /\ pendingWithdrawal' = pendingWithdrawal - Held(i) /\ pendingWithdrawal \in Int
    BY <1>5 DEF Finalize, TypeOK
  <2> HIDE DEF Held, Spent
  <2>8. Closes(i) /\ Moves(i)
    BY <2>2, <2>3, <2>6, <2>7 DEF Closes, Moves
  <2> QED BY <2>4, <2>8
<1>6. ASSUME NEW i \in Row,
             \/ \E n \in PendingNonces : Allocate(i, n)
             \/ Save(i) \/ BeginSend(i) \/ MarkUnknown(i) \/ Acknowledge(i) \/ UpdateConfirmations(i)
      PROVE  G
  <2>1. status[i] \in Active
    BY <1>6, AtStatus DEF IndInv, Allocate, Save, BeginSend, MarkUnknown, Acknowledge,
       UpdateConfirmations, Statuses, Step, Active
  <2>2. status'[i] \in Active
    BY <1>6, <2>1 DEF Allocate, Save, BeginSend, MarkUnknown, AfterSendError, Acknowledge,
       UpdateConfirmations, Active, TypeOK
  <2>3. /\ \A j \in Row \ {i} : status'[j] = status[j]
        /\ UNCHANGED <<amount, reservedFee, available, pendingWithdrawal>>
    BY <1>6 DEF Allocate, Save, BeginSend, MarkUnknown, Acknowledge, UpdateConfirmations, ledger,
       TypeOK
  <2>4. Phase(i) = "open" /\ Phase(i)' = "open"
    BY <2>1, <2>2 DEF Phase, Active
  <2>5. \A j \in Row \ {i} : Phase(j)' = Phase(j)
    BY <2>3 DEF Phase
  <2>6. \A j \in Row : Hold(j)' = Hold(j)
    BY <2>1, <2>2, <2>3 DEF Hold
  <2> QED BY <2>3, <2>4, <2>5, <2>6 DEF Stays
<1> QED BY <1>1, <1>2, <1>3, <1>4, <1>5, <1>6, RowSteps DEF RowWrite

-----------------------------------------------------------------------------
(***************************************************************************)
(* The refinement.                                                         *)
(***************************************************************************)
HoldOf  == [i \in Row |-> Hold(i)]
TakenOf == [i \in Row |-> Taken(i)]
PhaseOf == [i \in Row |-> Phase(i)]

LEMMA PayoutOpen ==
  ASSUME NEW k \in Row, OtherRows(k), Opens(k), \A j \in Row : Taken(j)' = Taken(j)
  PROVE  P!Open(k)
<1>1. /\ PhaseOf[k] = "new" /\ PhaseOf' = [PhaseOf EXCEPT ![k] = "open"]
      /\ HoldOf' = [HoldOf EXCEPT ![k] = Hold(k)'] /\ TakenOf' = TakenOf
  BY DEF OtherRows, Opens, HoldOf, TakenOf, PhaseOf
<1>2. Hold(k)' \in 0 .. available /\ available' = available - Hold(k)'
  BY DEF Opens
<1> QED BY <1>1, <1>2 DEF P!Open, HoldOf, TakenOf, PhaseOf

LEMMA PayoutRaise ==
  ASSUME TypeOK, TypeOK', NEW k \in Row, OtherRows(k), Raises(k),
         \A j \in Row : Taken(j)' = Taken(j)
  PROVE  P!Raise(k)
<1> DEFINE wei == Hold(k)' - Hold(k)
<1>1. Hold(k) \in Int /\ Hold(k)' \in Int
  BY DEF TypeOK, RowsType, Hold
<1>2. /\ wei \in 0 .. available /\ available' = available - wei
      /\ Hold(k)' = Hold(k) + wei
  BY <1>1 DEF Raises
<1> HIDE DEF wei
<1>3. /\ PhaseOf[k] = "open" /\ PhaseOf' = PhaseOf
      /\ HoldOf' = [HoldOf EXCEPT ![k] = @ + wei] /\ TakenOf' = TakenOf /\ TakenOf[k] = 0
  BY <1>2 DEF OtherRows, Raises, HoldOf, TakenOf, PhaseOf
<1> QED BY <1>2, <1>3 DEF P!Raise, HoldOf, TakenOf, PhaseOf

LEMMA PayoutClose ==
  ASSUME NEW k \in Row, OtherRows(k), Closes(k), \A j \in Row : Taken(j)' = Taken(j)
  PROVE  P!Close(k)
<1>1. /\ PhaseOf[k] = "open" /\ PhaseOf' = [PhaseOf EXCEPT ![k] = "closed"]
      /\ HoldOf' = [HoldOf EXCEPT ![k] = 0] /\ TakenOf' = TakenOf
  BY DEF OtherRows, Closes, HoldOf, TakenOf, PhaseOf
<1>2. available' = available + (HoldOf[k] - TakenOf[k])
  BY DEF Closes, HoldOf, TakenOf
<1> QED BY <1>1, <1>2 DEF P!Close, HoldOf, TakenOf, PhaseOf

LEMMA PayoutStutter ==
  ASSUME Stays, \A j \in Row : Taken(j)' = Taken(j)
  PROVE  UNCHANGED P!vars
<1>1. PhaseOf' = PhaseOf /\ HoldOf' = HoldOf /\ TakenOf' = TakenOf /\ available' = available
  BY DEF Stays, HoldOf, TakenOf, PhaseOf
<1> QED BY <1>1 DEF P!vars, HoldOf, TakenOf, PhaseOf

LEMMA PayoutMine ==
  ASSUME TypeOK, IndInv, TypeOK', IndInv', SettledIsBuried, MineStep
  PROVE  [P!Next]_(P!vars)
<1>1. PICK t \in mempool, ok \in BOOLEAN : \E fee \in 0 .. t.maxFee : Mine(t, ok, fee)
  BY DEF MineStep
<1>2. PICK fee \in 0 .. t.maxFee : Mine(t, ok, fee)
  BY <1>1
<1>3. Stays
  BY ChainLeavesRows DEF Stays, Hold, Phase, ledger, rows
<1>4. CASE t.from \in Row
  <2> DEFINE k == t.from
             wei == fee + IF ok THEN t.amount ELSE 0
  <2>1. /\ status[k] \in Active /\ t.amount = amount[k] /\ t.maxFee <= reservedFee[k]
    BY <1>2, <1>4, MinedOnce DEF Mine
  <2>2. /\ \A j \in Row \ {k} : Taken(j)' = Taken(j)
        /\ Taken(k) = 0 /\ Taken(k)' = wei
    BY <1>2, <1>4, MineTakes
  <2>3. Phase(k) = "open" /\ wei \in 0 .. Hold(k)
    <3>1. /\ amount[k] \in Nat /\ reservedFee[k] \in Nat /\ t.maxFee \in Nat
          /\ status[k] # "none" /\ fee \in Nat /\ fee <= reservedFee[k]
      BY <1>4, <2>1 DEF TypeOK, RowsType, ChainType, Tx, Active
    <3> QED BY <2>1, <3>1 DEF Phase, Hold
  <2> HIDE DEF wei
  <2>4. /\ PhaseOf[k] = "open" /\ PhaseOf' = PhaseOf /\ HoldOf' = HoldOf
        /\ TakenOf[k] = 0 /\ TakenOf' = [TakenOf EXCEPT ![k] = wei] /\ wei \in 0 .. HoldOf[k]
        /\ available' = available
    BY <1>3, <1>4, <2>2, <2>3 DEF Stays, HoldOf, TakenOf, PhaseOf
  <2>5. P!Take(k)
    BY <2>4 DEF P!Take, HoldOf, TakenOf, PhaseOf
  <2> QED BY <1>4, <2>5 DEF P!Next
<1>5. CASE t.from \notin Row
  BY <1>2, <1>3, <1>5, MineTakes, PayoutStutter
<1> QED BY <1>4, <1>5

LEMMA PayoutReorg ==
  ASSUME TypeOK, IndInv, SettledIsBuried, ReorgStep
  PROVE  [P!Next]_(P!vars)
<1>1. PICK r \in receipts : Reorg(r)
  BY DEF ReorgStep
<1>2. Stays
  BY ChainLeavesRows DEF Stays, Hold, Phase, ledger, rows
<1>3. CASE r.tx.from \in Row
  <2> DEFINE k == r.tx.from
  <2>1. status[k] \in Active
    BY <1>1, <1>3, UndoneInTime
  <2>2. Phase(k) = "open"
    BY <2>1 DEF Phase, Active
  <2>3. (\A j \in Row \ {k} : Taken(j)' = Taken(j)) /\ Taken(k)' = 0
    BY <1>1, <1>3, ReorgUndoes
  <2>4. /\ PhaseOf[k] = "open" /\ PhaseOf' = PhaseOf /\ HoldOf' = HoldOf
        /\ TakenOf' = [TakenOf EXCEPT ![k] = 0] /\ available' = available
    BY <1>2, <1>3, <2>2, <2>3 DEF Stays, HoldOf, TakenOf, PhaseOf
  <2>5. P!Undo(k)
    BY <2>4 DEF P!Undo, HoldOf, TakenOf, PhaseOf
  <2> QED BY <1>3, <2>5 DEF P!Next
<1>4. CASE r.tx.from \notin Row
  BY <1>1, <1>2, <1>4, ReorgUndoes, PayoutStutter
<1> QED BY <1>3, <1>4

(* A step that leaves the blocks alone leaves what they took alone. *)
LEMMA SameTaken == UNCHANGED receipts => \A i \in Row : Taken(i)' = Taken(i)
BY DEF Taken

LEMMA PayoutStep ==
  ASSUME BlocksStay, TypeOK, IndInv, TypeOK', IndInv', SettledIsBuried, [Next]_vars
  PROVE  [P!Next]_(P!vars)
<1>1. CASE UNCHANGED receipts
  <2>1. \A j \in Row : Taken(j)' = Taken(j)
    BY <1>1, SameTaken
  <2>2. CASE Stays
    BY <2>1, <2>2, PayoutStutter
  <2>3. ASSUME NEW k \in Row, OtherRows(k), Opens(k) \/ Raises(k) \/ Closes(k)
        PROVE  [P!Next]_(P!vars)
    <3>1. P!Open(k) \/ P!Raise(k) \/ P!Close(k)
      BY <2>1, <2>3, PayoutOpen, PayoutRaise, PayoutClose
    <3> QED BY <3>1 DEF P!Next
  <2> QED BY <2>2, <2>3, RowStepKinds
<1>2. CASE MineStep
  BY <1>2, PayoutMine
<1>3. CASE ReorgStep
  BY <1>3, PayoutReorg
<1> QED BY <1>1, <1>2, <1>3, ReceiptSteps DEF Bury

LEMMA PayoutInit == Init => P!Init
<1> SUFFICES ASSUME Init PROVE P!Init
  OBVIOUS
<1>1. \A i \in Row : Hold(i) = 0 /\ Taken(i) = 0 /\ Phase(i) = "new"
  BY DEF Init, Hold, Taken, Phase, Active
<1>2. available \in Nat
  BY ConstantsAssumption DEF Init
<1> QED BY <1>1, <1>2 DEF P!Init

(* The invariant of the refinement: a settled row's receipt is buried.     *)
THEOREM SettledStays == BlocksStay => (Spec => []SettledIsBuried)
<1> SUFFICES ASSUME BlocksStay PROVE Spec => []SettledIsBuried
  OBVIOUS
<1>1. Init => SettledIsBuried
  BY InitSettled
<1>2. TypeOK /\ IndInv /\ SettledIsBuried /\ [Next]_vars => SettledIsBuried'
  BY SettledNext
<1> QED BY <1>1, <1>2, Inductive, PTL DEF Spec

(* Withdrawals implement Payout: whatever is retried, interrupted or       *)
(* replaced by the chain, FinalizeWithdrawal and ReleaseWithdrawal give    *)
(* back exactly what the chain did not take, and the chain takes nothing   *)
(* for a withdrawal that is closed.                                        *)
THEOREM ImplementsPayout == BlocksStay => (Spec => PayoutSpec)
<1> SUFFICES ASSUME BlocksStay PROVE Spec => PayoutSpec
  OBVIOUS
<1>1. Init => P!Init
  BY PayoutInit
<1>2. /\ TypeOK /\ IndInv /\ TypeOK' /\ IndInv' /\ SettledIsBuried /\ [Next]_vars
      => [P!Next]_(P!vars)
  BY PayoutStep
<1> QED BY <1>1, <1>2, Inductive, SettledStays, PTL DEF Spec, PayoutSpec, P!Spec

-----------------------------------------------------------------------------
(***************************************************************************)
(* The backing of the ledger, for an address that sends withdrawals only.  *)
(***************************************************************************)
NoSweeps == NumSweeps = 0

(* The steps that move ETH of the address. *)
LEMMA EtherSteps ==
  ASSUME NoSweeps, [Next]_vars
  PROVE  UNCHANGED onChain \/ MineStep \/ ReorgStep
<1> USE DEF chain
<1>0. Sweep = {}
  BY ConstantsAssumption DEF NoSweeps, Sweep
<1>1. CASE \E h \in Handler : HandlerStep(h)
  BY <1>1 DEF HandlerStep, SubmitExisting, SubmitNew, Reserve, ReserveExisting, Reject
<1>2. CASE \E i \in Row : WorkerStep(i)
  <2>1. PICK i \in Row : WorkerStep(i)
    BY <1>2
  <2> QED
    BY <2>1 DEF WorkerStep, Pick, RaiseFee, CannotRaiseFee, CheckFunds, Allocate, Save, Release,
       FoundBeforeSend, Confirm, BeginSend, Send, SendRefused, NotMined, MarkUnknown,
       Acknowledge, UpdateConfirmations, Finalize
<1>3. CASE ChainStep
  BY <1>3 DEF ChainStep, MineStep, ReorgStep, Bury, Evict
<1>4. CASE Interrupt \/ UNCHANGED vars
  BY <1>4 DEF Interrupt, vars
<1> QED BY <1>0, <1>1, <1>2, <1>3, <1>4 DEF Next

LEMMA UnsettledType == TypeOK /\ IndInv => \A i \in Row : Unsettled(i) \in Int
BY TakenBound DEF Unsettled

(* A step that changes what is unsettled of one row only. *)
LEMMA OneUnsettled ==
  ASSUME TypeOK, IndInv, TypeOK', IndInv', LedgerBacked, NEW k \in Row,
         \A j \in Row \ {k} : Unsettled(j)' = Unsettled(j),
         NEW d \in Int, onChain' = onChain + d,
         available' + pendingWithdrawal'
           = available + pendingWithdrawal + d - Unsettled(k) + Unsettled(k)'
  PROVE  LedgerBacked'
<1> DEFINE f == [i \in Row |-> Unsettled(i)]
           g == [i \in Row |-> Unsettled(i)']
<1>1. (TypeOK /\ IndInv => \A i \in Row : Unsettled(i) \in Int)'
  BY UnsettledType, PTL
<1>2. f \in [1 .. NumKeys -> Int] /\ g \in [1 .. NumKeys -> Int] /\ k \in 1 .. NumKeys
  BY <1>1, UnsettledType DEF Row
<1>3. f[k] = Unsettled(k) /\ g[k] = Unsettled(k)' /\ \A i \in (1 .. NumKeys) \ {k} : g[i] = f[i]
  BY DEF Row
<1>4. /\ LedgerBacked <=> onChain = available + pendingWithdrawal - Total(f, NumKeys)
      /\ LedgerBacked' <=> onChain' = available' + pendingWithdrawal' - Total(g, NumKeys)
  BY DEF LedgerBacked
<1> HIDE DEF f, g
<1>5. Total(g, NumKeys) = Total(f, NumKeys) - f[k] + g[k]
  BY <1>2, <1>3, TotalUpdate, ConstantsAssumption
<1>6. Total(f, NumKeys) \in Int /\ Total(g, NumKeys) \in Int
  BY <1>2, TotalType, ConstantsAssumption
<1>7. /\ onChain \in Int /\ available \in Int /\ pendingWithdrawal \in Int
      /\ onChain' \in Int /\ available' \in Int /\ pendingWithdrawal' \in Int
      /\ f[k] \in Int /\ g[k] \in Int
  BY <1>2 DEF TypeOK, LedgerType, ChainType
<1> QED BY <1>3, <1>4, <1>5, <1>6, <1>7

LEMMA SameUnsettled ==
  ASSUME LedgerBacked, \A j \in Row : Unsettled(j)' = Unsettled(j),
         UNCHANGED <<onChain, available, pendingWithdrawal>>
  PROVE  LedgerBacked'
<1>1. [i \in Row |-> Unsettled(i)]' = [i \in Row |-> Unsettled(i)]
  OBVIOUS
<1> QED BY <1>1 DEF LedgerBacked

LEMMA BackedNext ==
  ASSUME BlocksStay, NoSweeps, TypeOK, IndInv, TypeOK', IndInv', SettledIsBuried,
         LedgerBacked, [Next]_vars
  PROVE  LedgerBacked'
<1>0. /\ available \in Int /\ pendingWithdrawal \in Int /\ onChain \in Int
      /\ available' \in Int /\ pendingWithdrawal' \in Int /\ onChain' \in Int
  BY DEF TypeOK, LedgerType, ChainType
<1>1. CASE MineStep
  <2>1. PICK t \in mempool, ok \in BOOLEAN : \E fee \in 0 .. t.maxFee : Mine(t, ok, fee)
    BY <1>1 DEF MineStep
  <2>2. PICK fee \in 0 .. t.maxFee : Mine(t, ok, fee)
    BY <2>1
  <2> DEFINE k == t.from
             wei == fee + IF ok THEN t.amount ELSE 0
  <2>3. k \in Row
    BY ConstantsAssumption DEF NoSweeps, IndInv, ChainShape, SentBy, Sweep
  <2>4. status[k] \in Active /\ UNCHANGED <<status, available, pendingWithdrawal>>
    BY <2>2, <2>3, MinedOnce DEF Mine, rows, ledger
  <2>5. /\ \A j \in Row \ {k} : Taken(j)' = Taken(j)
        /\ Taken(k) = 0 /\ Taken(k)' = wei
    BY <2>2, <2>3, MineTakes
  <2>6. wei \in Int /\ onChain' = onChain - wei
    BY <1>0, <2>2 DEF Mine, TypeOK, ChainType, Tx
  <2> HIDE DEF wei, k
  <2>7. /\ \A j \in Row \ {k} : Unsettled(j)' = Unsettled(j)
        /\ Unsettled(k) = 0 /\ Unsettled(k)' = wei
    BY <2>3, <2>4, <2>5 DEF Unsettled
  <2>8. /\ - wei \in Int /\ onChain' = onChain + (- wei)
        /\ available' + pendingWithdrawal'
             = available + pendingWithdrawal + (- wei) - Unsettled(k) + Unsettled(k)'
    BY <1>0, <2>4, <2>6, <2>7
  <2> QED BY <2>3, <2>7, <2>8, OneUnsettled
<1>2. CASE ReorgStep
  <2>1. PICK r \in receipts : Reorg(r)
    BY <1>2 DEF ReorgStep
  <2> DEFINE k == r.tx.from
             wei == r.fee + IF r.ok THEN r.tx.amount ELSE 0
  <2>2. k \in Row
    BY ConstantsAssumption DEF NoSweeps, IndInv, ChainShape, SentBy, Sweep
  <2>3. status[k] \in Active /\ UNCHANGED <<status, available, pendingWithdrawal>>
    BY <2>1, <2>2, UndoneInTime DEF Reorg, rows, ledger
  <2>4. /\ \A j \in Row \ {k} : Taken(j)' = Taken(j)
        /\ Taken(k) = wei /\ Taken(k)' = 0
    BY <2>1, <2>2, ReorgUndoes
  <2>5. wei \in Int /\ onChain' = onChain + wei
    BY <1>0, <2>1 DEF Reorg, TypeOK, ChainType, Receipt, Tx
  <2> HIDE DEF wei, k
  <2>6. /\ \A j \in Row \ {k} : Unsettled(j)' = Unsettled(j)
        /\ Unsettled(k) = wei /\ Unsettled(k)' = 0
    BY <2>2, <2>3, <2>4 DEF Unsettled
  <2>7. available' + pendingWithdrawal'
          = available + pendingWithdrawal + wei - Unsettled(k) + Unsettled(k)'
    BY <1>0, <2>3, <2>5, <2>6
  <2> QED BY <2>2, <2>5, <2>6, <2>7, OneUnsettled
<1>3. CASE UNCHANGED receipts /\ onChain' = onChain
  <2>1. \A j \in Row : Taken(j)' = Taken(j)
    BY <1>3, SameTaken
  <2>2. \A j \in Row : (status[j] \in Active <=> Phase(j) = "open")
    BY DEF Phase, Active
  <2>3. (\A j \in Row : (status[j] \in Active <=> Phase(j) = "open"))'
    BY DEF Phase, Active
  <2>4. \A j \in Row : Hold(j) \in Int /\ Hold(j)' \in Int
    BY DEF TypeOK, RowsType, Hold
  <2>5. CASE Stays
    <3>1. \A j \in Row : Unsettled(j)' = Unsettled(j)
      BY <2>1, <2>2, <2>3, <2>5 DEF Unsettled, Stays
    <3> QED BY <1>3, <2>5, <3>1, SameUnsettled DEF Stays
  <2>6. ASSUME NEW k \in Row, OtherRows(k), Moves(k), Opens(k) \/ Raises(k) \/ Closes(k)
        PROVE  LedgerBacked'
    <3>1. \A j \in Row \ {k} : Unsettled(j)' = Unsettled(j)
      BY <2>1, <2>2, <2>3, <2>6 DEF Unsettled, OtherRows
    <3>2. Unsettled(k) \in Int /\ Unsettled(k)' \in Int
      BY <2>1, UnsettledType, TakenBound DEF Unsettled
    <3>3. available' + pendingWithdrawal'
            = available + pendingWithdrawal + 0 - Unsettled(k) + Unsettled(k)'
      <4>1. CASE Opens(k)
        <5>1. Unsettled(k) = 0 /\ Unsettled(k)' = 0
          BY <2>1, <4>1 DEF Unsettled, Opens
        <5> QED BY <1>0, <2>4, <2>6, <4>1, <5>1 DEF Opens, Moves
      <4>2. CASE Raises(k)
        <5>1. Unsettled(k) = 0 /\ Unsettled(k)' = 0
          BY <2>1, <4>2 DEF Unsettled, Raises
        <5> QED BY <1>0, <2>4, <2>6, <4>2, <5>1 DEF Raises, Moves
      <4>3. CASE Closes(k)
        <5>1. Unsettled(k) = Taken(k) /\ Unsettled(k)' = 0
          BY <2>2, <2>3, <4>3 DEF Unsettled, Closes
        <5> QED BY <1>0, <2>4, <2>6, <3>2, <4>3, <5>1 DEF Closes, Moves
      <4> QED BY <2>6, <4>1, <4>2, <4>3
    <3>4. onChain' = onChain + 0
      BY <1>0, <1>3
    <3> QED BY <3>1, <3>3, <3>4, OneUnsettled
  <2> QED BY <2>5, <2>6, RowStepKinds
<1> QED BY <1>1, <1>2, <1>3, ReceiptSteps, EtherSteps DEF Bury

LEMMA InitBacked == Init => LedgerBacked
<1> SUFFICES ASSUME Init PROVE LedgerBacked
  OBVIOUS
<1>1. [i \in Row |-> Unsettled(i)] = [i \in 1 .. NumKeys |-> 0]
  BY DEF Init, Unsettled, Active, Row
<1>2. Total([i \in Row |-> Unsettled(i)], NumKeys) = 0
  BY <1>1, TotalZero, ConstantsAssumption
<1>3. onChain = Balance0 /\ available = Balance0 /\ pendingWithdrawal = 0 /\ Balance0 \in Nat
  BY ConstantsAssumption DEF Init
<1> QED BY <1>2, <1>3 DEF LedgerBacked

(* What the ledger owes the user is on the user's address, up to spending  *)
(* that is mined and not yet settled: no crash, retry, replaced block or   *)
(* lagging endpoint makes the settlements miss or repeat what the chain    *)
(* took.                                                                   *)
THEOREM AlwaysBacked == BlocksStay /\ NoSweeps => (Spec => []LedgerBacked)
<1> SUFFICES ASSUME BlocksStay, NoSweeps PROVE Spec => []LedgerBacked
  OBVIOUS
<1>1. Init => LedgerBacked
  BY InitBacked
<1>2. /\ TypeOK /\ IndInv /\ TypeOK' /\ IndInv' /\ SettledIsBuried /\ LedgerBacked /\ [Next]_vars
      => LedgerBacked'
  BY BackedNext
<1> QED BY <1>1, <1>2, Inductive, SettledStays, PTL DEF Spec

-----------------------------------------------------------------------------
(***************************************************************************)
(* Replies.                                                                *)
(***************************************************************************)

(* A row that exists keeps the amount it was created with. *)
LEMMA RowsStay ==
  ASSUME TypeOK, IndInv, [Next]_vars
  PROVE  \A i \in Row : status[i] # "none" => status'[i] # "none" /\ amount'[i] = amount[i]
<1> DEFINE G == \A i \in Row : status[i] # "none" => status'[i] # "none" /\ amount'[i] = amount[i]
<1> SUFFICES G
  OBVIOUS
<1> USE DEF TypeOK, RowsType
<1>1. CASE UNCHANGED <<ledger, rows>>
  BY <1>1 DEF rows
<1>2. ASSUME NEW h \in Handler, Reserve(h) PROVE G
  BY <1>2 DEF Reserve, ClientsType
<1>3. ASSUME NEW i \in Row, NEW q \in Fee, RaiseFee(i, q) PROVE G
  BY <1>3 DEF RaiseFee
<1>4. ASSUME NEW i \in Row, NEW n \in PendingNonces, Allocate(i, n) PROVE G
  BY <1>4 DEF Allocate
<1>5. ASSUME NEW i \in Row, Save(i) PROVE G
  BY <1>5 DEF Save
<1>6. ASSUME NEW i \in Row, Release(i) PROVE G
  BY <1>6 DEF Release
<1>7. ASSUME NEW i \in Row, BeginSend(i) PROVE G
  BY <1>7 DEF BeginSend
<1>8. ASSUME NEW i \in Row, MarkUnknown(i) PROVE G
  BY <1>8 DEF MarkUnknown, AfterSendError
<1>9. ASSUME NEW i \in Row, Acknowledge(i) PROVE G
  BY <1>9 DEF Acknowledge
<1>10. ASSUME NEW i \in Row, UpdateConfirmations(i) PROVE G
  BY <1>10 DEF UpdateConfirmations
<1>11. ASSUME NEW i \in Row, NEW r \in worker.receipt, Finalize(i, r) PROVE G
  BY <1>11 DEF Finalize
<1> HIDE DEF G
<1> QED
  BY <1>1, <1>2, <1>3, <1>4, <1>5, <1>6, <1>7, <1>8, <1>9, <1>10, <1>11, RowSteps DEF RowWrite

(* Only handlers reply, and each of their replies tells of a row. *)
LEMMA ReplySteps ==
  ASSUME TypeOK, [Next]_vars
  PROVE  \/ UNCHANGED acked
         \/ \E i \in Row : /\ status'[i] # "none"
                           /\ acked' = acked \union {<<i, amount'[i]>>}
<1> USE DEF clients, rows
<1>1. ASSUME NEW h \in Handler, HandlerStep(h)
      PROVE  \/ UNCHANGED acked
             \/ \E i \in Row : /\ status'[i] # "none"
                               /\ acked' = acked \union {<<i, amount'[i]>>}
  <2>1. ASSUME NEW i \in Row, NEW a \in Amount, SubmitExisting(h, i, a)
        PROVE  status'[i] # "none" /\ acked' = acked \union {<<i, amount'[i]>>}
    BY <2>1 DEF SubmitExisting, SameRequest
  <2>2. ASSUME NEW i \in Row, NEW a \in Amount, NEW q \in Fee, SubmitNew(h, i, a, q)
        PROVE  UNCHANGED acked
    BY <2>2 DEF SubmitNew
  <2>3. ASSUME Reserve(h)
        PROVE  LET i == handlers[h].row
               IN i \in Row /\ status'[i] # "none" /\ acked' = acked \union {<<i, amount'[i]>>}
    BY <2>3 DEF Reserve, TypeOK, ClientsType, RowsType
  <2>4. ASSUME ReserveExisting(h)
        PROVE  LET i == handlers[h].row
               IN i \in Row /\ status'[i] # "none" /\ acked' = acked \union {<<i, amount'[i]>>}
    BY <2>4 DEF ReserveExisting, SameRequest, TypeOK, ClientsType
  <2>5. ASSUME Reject(h) PROVE UNCHANGED acked
    BY <2>5 DEF Reject
  <2> QED BY <1>1, <2>1, <2>2, <2>3, <2>4, <2>5 DEF HandlerStep
<1>2. CASE \E i \in Row : WorkerStep(i)
  <2>1. PICK i \in Row : WorkerStep(i)
    BY <1>2
  <2> QED
    BY <2>1 DEF WorkerStep, Pick, RaiseFee, CannotRaiseFee, CheckFunds, Allocate, Save, Release,
       FoundBeforeSend, Confirm, BeginSend, Send, SendRefused, NotMined, MarkUnknown,
       Acknowledge, UpdateConfirmations, Finalize
<1>3. CASE ChainStep
  BY <1>3 DEF ChainStep, Mine, Bury, Reorg, Evict
<1>4. CASE \E s \in Sweep : SweepStep(s)
  BY <1>4 DEF SweepStep, SweepAllocate, SweepBroadcast
<1>5. CASE Interrupt \/ UNCHANGED vars
  BY <1>5 DEF Interrupt, vars
<1> QED BY <1>1, <1>2, <1>3, <1>4, <1>5 DEF Next

(* A client that got a success reply has its withdrawal, as it asked for,  *)
(* whichever of two racing requests with its key inserted the row.         *)
THEOREM RepliesHonoured == Spec => []AckedHonoured
<1>1. Init => AckedHonoured
  BY DEF Init, AckedHonoured
<1>2. TypeOK /\ IndInv /\ AckedHonoured /\ [Next]_vars => AckedHonoured'
  <2> SUFFICES ASSUME TypeOK, IndInv, AckedHonoured, [Next]_vars PROVE AckedHonoured'
    OBVIOUS
  <2>1. \A p \in acked : p[1] \in Row
    BY DEF TypeOK, ClientsType
  <2>2. \A p \in acked : status'[p[1]] # "none" /\ amount'[p[1]] = p[2]
    BY <2>1, RowsStay DEF AckedHonoured
  <2> QED BY <2>2, ReplySteps DEF AckedHonoured
<1> QED BY <1>1, <1>2, Inductive, PTL DEF Spec

-----------------------------------------------------------------------------
(***************************************************************************)
(* The journal.                                                            *)
(***************************************************************************)

(* JournalExplains made inductive: amounts are positive, which tells a     *)
(* release from none, and the closing entries come with a final status.    *)
JournalShape ==
  /\ \A h \in Handler : handlers[h].at = "reserve" => handlers[h].amount > 0
  /\ \A i \in Row :
       /\ status[i] = "none" => /\ amount[i] = 0 /\ reservedFee[i] = 0
                                /\ journal[i]["RESERVE"] = 0 /\ journal[i]["FEE_ADJUST"] = 0
       /\ status[i] # "none" => amount[i] > 0
       /\ status[i] \notin Terminal => journal[i]["RELEASE"] = 0 /\ journal[i]["FINALIZE"] = 0

(* Only the handlers change their requests, and they ask for amounts.      *)
LEMMA RequestSteps ==
  ASSUME TypeOK, [Next]_vars,
         \A h \in Handler : handlers[h].at = "reserve" => handlers[h].amount > 0
  PROVE  \A h \in Handler : handlers'[h].at = "reserve" => handlers'[h].amount > 0
<1> DEFINE G == \A h \in Handler : handlers'[h].at = "reserve" => handlers'[h].amount > 0
<1> SUFFICES G
  OBVIOUS
<1> USE DEF clients, TypeOK, ClientsType
<1>1. ASSUME NEW h \in Handler, HandlerStep(h) PROVE G
  <2>1. ASSUME NEW i \in Row, NEW a \in Amount, SubmitExisting(h, i, a) PROVE G
    BY <2>1 DEF SubmitExisting
  <2>2. ASSUME NEW i \in Row, NEW a \in Amount, NEW q \in Fee, SubmitNew(h, i, a, q) PROVE G
    <3>1. a > 0
      BY ConstantsAssumption
    <3> QED BY <2>2, <3>1 DEF SubmitNew
  <2>3. ASSUME Reserve(h) \/ ReserveExisting(h) \/ Reject(h) PROVE G
    <3>1. handlers' = [handlers EXCEPT ![h] = NoRequest]
      BY <2>3 DEF Reserve, ReserveExisting, Reject
    <3> QED BY <3>1
  <2> HIDE DEF G
  <2> QED BY <1>1, <2>1, <2>2, <2>3 DEF HandlerStep
<1>2. CASE UNCHANGED handlers
  BY <1>2
<1>3. CASE \E i \in Row : WorkerStep(i)
  <2>1. PICK i \in Row : WorkerStep(i)
    BY <1>3
  <2>2. UNCHANGED handlers
    BY <2>1 DEF WorkerStep, Pick, RaiseFee, CannotRaiseFee, CheckFunds, Allocate, Save, Release,
       FoundBeforeSend, Confirm, BeginSend, Send, SendRefused, NotMined, MarkUnknown,
       Acknowledge, UpdateConfirmations, Finalize
  <2> QED BY <1>2, <2>2
<1>4. CASE ChainStep
  BY <1>2, <1>4 DEF ChainStep, Mine, Bury, Reorg, Evict
<1>5. CASE \E s \in Sweep : SweepStep(s)
  BY <1>2, <1>5 DEF SweepStep, SweepAllocate, SweepBroadcast
<1>6. CASE Interrupt \/ UNCHANGED vars
  BY <1>2, <1>6 DEF Interrupt, vars
<1> HIDE DEF G, TypeOK
<1> QED BY <1>1, <1>3, <1>4, <1>5, <1>6 DEF Next

(* A fee raised by m raises the hold and lowers the entry by m. *)
LEMMA AdjustBoth ==
  ASSUME NEW a \in Int, NEW b \in Int, NEW c \in Int, NEW d \in Int, NEW m \in Nat,
         a + b = - (c + d)
  PROVE  a + (b - m) = - (c + (d + m))
OBVIOUS

(* A step changes one entry of the journal at most. *)
LEMMA JournalNext ==
  ASSUME TypeOK, TypeOK', IndInv, JournalShape, JournalExplains, [Next]_vars
  PROVE  JournalShape' /\ JournalExplains'
<1>0. \A h \in Handler : handlers'[h].at = "reserve" => handlers'[h].amount > 0
  BY RequestSteps DEF JournalShape
<1> DEFINE J(i) ==
      /\ status[i] = "none" => /\ amount[i] = 0 /\ reservedFee[i] = 0
                               /\ journal[i]["RESERVE"] = 0 /\ journal[i]["FEE_ADJUST"] = 0
      /\ status[i] # "none" => amount[i] > 0
      /\ status[i] \notin Terminal => journal[i]["RELEASE"] = 0 /\ journal[i]["FINALIZE"] = 0
      /\ journal[i]["RESERVE"] + journal[i]["FEE_ADJUST"] = - (amount[i] + reservedFee[i])
      /\ journal[i]["RELEASE"] # 0 => /\ journal[i]["RELEASE"] = amount[i] + reservedFee[i]
                                      /\ journal[i]["FINALIZE"] = 0
      /\ status[i] = "COMPLETED" => journal[i]["FINALIZE"] = - (amount[i] + actualFee[i])
      /\ status[i] = "FAILED" => \/ journal[i]["RELEASE"] # 0
                                 \/ journal[i]["FINALIZE"] = - actualFee[i]
<1>1. \A i \in Row : J(i)
  BY DEF JournalShape, JournalExplains
<1>2. SUFFICES \A i \in Row : J(i)'
  BY <1>0 DEF JournalShape, JournalExplains
<1>3. \A i \in Row : /\ amount[i] \in Nat /\ reservedFee[i] \in Nat
                     /\ \A e \in Entry : journal[i][e] \in Int
  BY DEF TypeOK, LedgerType, RowsType
<1>4. CASE UNCHANGED <<ledger, rows>>
  BY <1>1, <1>4 DEF ledger, rows
<1>5. ASSUME NEW i \in Row,
             \A j \in Row \ {i} : /\ status'[j] = status[j] /\ amount'[j] = amount[j]
                                  /\ reservedFee'[j] = reservedFee[j]
                                  /\ actualFee'[j] = actualFee[j] /\ journal'[j] = journal[j],
             J(i)'
      PROVE  \A j \in Row : J(j)'
  BY <1>1, <1>5
<1> USE DEF TypeOK, LedgerType, RowsType, Entry
<1>6. ASSUME NEW h \in Handler, Reserve(h) PROVE \A j \in Row : J(j)'
  <2>0. PICK i \in Row : i = handlers[h].row
    BY <1>6 DEF Reserve, ClientsType
  <2>1. /\ handlers[h].amount \in Nat /\ handlers[h].quote \in Nat /\ handlers[h].amount > 0
    BY <1>6 DEF Reserve, ClientsType, JournalShape
  <2>2. /\ status[i] = "none" /\ status'[i] = "CREATED"
        /\ amount'[i] = handlers[h].amount /\ reservedFee'[i] = handlers[h].quote
        /\ journal'[i] = [journal[i] EXCEPT !["RESERVE"] = - (handlers[h].amount + handlers[h].quote)]
    BY <1>6, <2>0 DEF Reserve
  <2>3. J(i)
    BY <1>1
  <2>4. J(i)'
    BY <1>3, <2>1, <2>2, <2>3 DEF Terminal
  <2>5. \A j \in Row \ {i} : /\ status'[j] = status[j] /\ amount'[j] = amount[j]
                             /\ reservedFee'[j] = reservedFee[j]
                             /\ actualFee'[j] = actualFee[j] /\ journal'[j] = journal[j]
    BY <1>6, <2>0 DEF Reserve
  <2> QED BY <1>5, <2>4, <2>5
<1>7. ASSUME NEW i \in Row, NEW q \in Fee, RaiseFee(i, q) PROVE \A j \in Row : J(j)'
  <2>1. Shortfall(i, q) \in Nat
    BY ConstantsAssumption
  <2>2. /\ status' = status /\ amount' = amount /\ status[i] \in {"CREATED", "SIGNING"}
        /\ reservedFee'[i] = reservedFee[i] + Shortfall(i, q)
        /\ journal'[i] = [journal[i] EXCEPT !["FEE_ADJUST"]
                             = journal[i]["FEE_ADJUST"] - Shortfall(i, q)]
    BY <1>7 DEF RaiseFee, Adjusted
  <2>3. J(i)
    BY <1>1
  <2>4. J(i)'
    <3>1. PICK more \in Nat : more = Shortfall(i, q)
      BY <2>1
    <3> HIDE DEF Shortfall
    <3>2. /\ status'[i] = status[i] /\ amount'[i] = amount[i]
          /\ reservedFee'[i] = reservedFee[i] + more
          /\ journal'[i]["FEE_ADJUST"] = journal[i]["FEE_ADJUST"] - more
          /\ \A e \in Entry \ {"FEE_ADJUST"} : journal'[i][e] = journal[i][e]
      BY <2>2, <3>1
    <3> HIDE DEF TypeOK, LedgerType, RowsType
    <3>3. /\ journal[i]["RESERVE"] \in Int /\ journal[i]["FEE_ADJUST"] \in Int
          /\ amount[i] \in Int /\ reservedFee[i] \in Int
          /\ journal[i]["RESERVE"] + journal[i]["FEE_ADJUST"] = - (amount[i] + reservedFee[i])
      BY <1>3, <2>3
    <3>4. journal[i]["RESERVE"] + (journal[i]["FEE_ADJUST"] - more)
            = - (amount[i] + (reservedFee[i] + more))
      BY <3>3, AdjustBoth
    <3>5. journal'[i]["RESERVE"] + journal'[i]["FEE_ADJUST"] = - (amount'[i] + reservedFee'[i])
      BY <3>2, <3>4
    <3>6. status[i] \notin {"none"} \union Terminal
      BY <2>2 DEF Terminal
    <3> QED BY <2>3, <3>2, <3>5, <3>6 DEF Terminal
  <2>5. \A j \in Row \ {i} : /\ status'[j] = status[j] /\ amount'[j] = amount[j]
                             /\ reservedFee'[j] = reservedFee[j]
                             /\ actualFee'[j] = actualFee[j] /\ journal'[j] = journal[j]
    BY <1>7 DEF RaiseFee
  <2> QED BY <1>5, <2>4, <2>5
<1>8. ASSUME NEW i \in Row, Release(i) PROVE \A j \in Row : J(j)'
  <2>1. /\ status[i] \in {"CREATED", "SIGNING"} /\ status'[i] = "FAILED"
        /\ amount' = amount /\ reservedFee' = reservedFee
        /\ journal'[i] = [journal[i] EXCEPT !["RELEASE"] = amount[i] + reservedFee[i]]
    BY <1>8 DEF Release
  <2>2. J(i)
    BY <1>1
  <2>3. J(i)'
    BY <1>3, <2>1, <2>2 DEF Terminal
  <2>4. \A j \in Row \ {i} : /\ status'[j] = status[j] /\ amount'[j] = amount[j]
                             /\ reservedFee'[j] = reservedFee[j]
                             /\ actualFee'[j] = actualFee[j] /\ journal'[j] = journal[j]
    BY <1>8 DEF Release
  <2> QED BY <1>5, <2>3, <2>4
<1>9. ASSUME NEW i \in Row, NEW r \in worker.receipt, Finalize(i, r) PROVE \A j \in Row : J(j)'
  <2>1. r.fee \in Nat /\ r.ok \in BOOLEAN
    BY DEF WorkerType, Receipt
  <2>2. /\ status[i] \in {"BROADCASTED", "CONFIRMING"}
        /\ status'[i] = IF r.ok THEN "COMPLETED" ELSE "FAILED"
        /\ amount' = amount /\ reservedFee' = reservedFee /\ actualFee'[i] = r.fee
        /\ journal'[i] = [journal[i] EXCEPT !["FINALIZE"]
                             = - (r.fee + IF r.ok THEN amount[i] ELSE 0)]
    BY <1>9 DEF Finalize
  <2>3. J(i)
    BY <1>1
  <2>4. J(i)'
    BY <1>3, <2>1, <2>2, <2>3 DEF Terminal
  <2>5. \A j \in Row \ {i} : /\ status'[j] = status[j] /\ amount'[j] = amount[j]
                             /\ reservedFee'[j] = reservedFee[j]
                             /\ actualFee'[j] = actualFee[j] /\ journal'[j] = journal[j]
    BY <1>9 DEF Finalize
  <2> QED BY <1>5, <2>4, <2>5
<1>10. ASSUME NEW i \in Row,
              \/ \E n \in PendingNonces : Allocate(i, n)
              \/ Save(i) \/ BeginSend(i) \/ MarkUnknown(i) \/ Acknowledge(i)
              \/ UpdateConfirmations(i)
       PROVE  \A j \in Row : J(j)'
  <2>1. status[i] \in Active
    BY <1>10, AtStatus DEF IndInv, Allocate, Save, BeginSend, MarkUnknown, Acknowledge,
       UpdateConfirmations, Statuses, Step, Active
  <2>2. status'[i] \in Active
    BY <1>10, <2>1 DEF Allocate, Save, BeginSend, MarkUnknown, AfterSendError, Acknowledge,
       UpdateConfirmations, Active
  <2>3. /\ \A j \in Row \ {i} : status'[j] = status[j]
        /\ UNCHANGED <<amount, reservedFee, actualFee, journal>>
    BY <1>10 DEF Allocate, Save, BeginSend, MarkUnknown, Acknowledge, UpdateConfirmations, ledger
  <2>4. J(i)
    BY <1>1
  <2>5. J(i)'
    BY <2>1, <2>2, <2>3, <2>4 DEF Active, Terminal
  <2> QED BY <1>5, <2>3, <2>5
<1> HIDE DEF TypeOK, J
<1> QED BY <1>4, <1>6, <1>7, <1>8, <1>9, <1>10, RowSteps DEF RowWrite

LEMMA InitJournal == Init => JournalShape /\ JournalExplains
<1> SUFFICES ASSUME Init PROVE JournalShape /\ JournalExplains
  OBVIOUS
<1>1. \A i \in Row : /\ status[i] = "none" /\ amount[i] = 0 /\ reservedFee[i] = 0
                     /\ \A e \in Entry : journal[i][e] = 0
  BY DEF Init
<1>2. JournalShape
  BY <1>1 DEF Init, JournalShape, Entry
<1>3. JournalExplains
  BY <1>1 DEF JournalExplains, Entry
<1> QED BY <1>2, <1>3

(* The entries of balance_entries explain every row: what was reserved and *)
(* adjusted is what it held, a release gives all of it back, a settlement  *)
(* takes what the receipt says.                                            *)
THEOREM JournalAlwaysExplains == Spec => []JournalExplains
<1>1. Init => JournalShape /\ JournalExplains
  BY InitJournal
<1>2. /\ TypeOK /\ IndInv /\ TypeOK' /\ JournalShape /\ JournalExplains /\ [Next]_vars
      => (JournalShape /\ JournalExplains)'
  BY JournalNext
<1> QED BY <1>1, <1>2, Inductive, PTL DEF Spec
=============================================================================
