-------------------------- MODULE TokenSweepProofs --------------------------
(***************************************************************************)
(* Theorems about TokenSweep for every number of deposits and every value  *)
(* of each, every set of fees, and replaced blocks and lagging endpoints   *)
(* or none: the rows never run out, every unit credited is recognised by   *)
(* one sweep, a completed sweep delivered its amount, and nothing is sent  *)
(* but what is recorded, a sweep only after its gas.                       *)
(***************************************************************************)
EXTENDS TokenSweep, SumsProofs, FiniteSetTheorems

USE DEF Idle, At, Rest, Turn, Kind, Resting

(* There is a deposit, of a unit at least, so there is a row. *)
LEMMA Units ==
  /\ Deposit = 1 .. NumDeposits /\ NumDeposits \in Nat
  /\ Value \in [1 .. NumDeposits -> Nat] /\ \A d \in Deposit : Value[d] \in Nat /\ Value[d] > 0
  /\ Received \in Nat /\ Row = 1 .. Received /\ 1 \in Row
<1>1. /\ NumDeposits \in Nat /\ 1 \in 1 .. NumDeposits
      /\ Value \in [1 .. NumDeposits -> Nat] /\ \A d \in 1 .. NumDeposits : Value[d] > 0
  BY SweepConstantsAssumption
<1>2. Value \in [1 .. NumDeposits -> Int]
  BY <1>1
<1>3. Value[1] <= Total(Value, NumDeposits) /\ Total(Value, NumDeposits) \in Int
  BY <1>1, <1>2, TotalBounds, TotalType
<1>4. Received \in Nat /\ Received >= 1
  BY <1>1, <1>3 DEF Received
<1> QED BY <1>1, <1>4 DEF Deposit, Row

(* What a row holds. *)
LEMMA Fields ==
  ASSUME TypeOK
  PROVE  /\ \A k \in Kind, r \in Row : status[k][r] \in Status /\ rawTx[k][r] \subseteq Tx
         /\ \A r \in Row :
              /\ recognized[r] \in Nat /\ recognized[r] <= Received
              /\ swept[r] \in Nat /\ swept[r] <= Received
              /\ topup[r] \in Nat /\ topup[r] <= TopupMax
<1>1. Received \in Nat /\ TopupMax \in Nat
  BY Units, SweepConstantsAssumption
<1>2. /\ recognized \in [Row -> 0 .. Received] /\ swept \in [Row -> 0 .. Received]
      /\ topup \in [Row -> 0 .. TopupMax]
      /\ status \in [Kind -> [Row -> Status]] /\ rawTx \in [Kind -> [Row -> SUBSET Tx]]
  BY DEF TypeOK
<1>3. \A n \in Nat : \A i \in 0 .. n : i \in Nat /\ i <= n
  OBVIOUS
<1> QED BY <1>1, <1>2, <1>3

-----------------------------------------------------------------------------
(***************************************************************************)
(* Rows are used in order.                                                 *)
(***************************************************************************)
Used == {r \in Row : status["sweep"][r] # "none"}

LEMMA UsedFinite == IsFiniteSet(Used) /\ NextRow = Cardinality(Used) + 1 /\ Cardinality(Used) \in Nat
<1>1. IsFiniteSet(Row)
  BY Units, FS_Interval
<1>2. IsFiniteSet(Used)
  BY <1>1, FS_Subset, Used \in SUBSET Row DEF Used
<1> QED BY <1>2, FS_CardinalityType DEF NextRow, Used

(* The row to use next follows the number of rows used. *)
LEMMA NextRowKept ==
  ASSUME \A r \in Row : status'["sweep"][r] # "none" <=> status["sweep"][r] # "none"
  PROVE  NextRow' = NextRow
<1>1. Used' = Used
  BY DEF Used, Row, Received
<1>2. NextRow = Cardinality(Used) + 1
  BY DEF NextRow, Used
<1>3. NextRow' = Cardinality(Used') + 1
  BY DEF NextRow, Used, Row, Received
<1> QED BY <1>1, <1>2, <1>3

LEMMA NextRowTaken ==
  ASSUME NextRow \in Row, status["sweep"][NextRow] = "none",
         \A r \in Row : status'["sweep"][r] # "none" <=> status["sweep"][r] # "none" \/ r = NextRow
  PROVE  NextRow' = NextRow + 1
<1>1. Used' = Used \union {NextRow}
  BY DEF Used, Row, Received
<1>2. NextRow \notin Used
  BY DEF Used
<1>3. Cardinality(Used') = Cardinality(Used) + 1
  BY <1>1, <1>2, UsedFinite, FS_AddElement
<1>4. NextRow' = Cardinality(Used') + 1
  BY DEF NextRow, Used, Row, Received
<1> QED BY <1>3, <1>4, UsedFinite

-----------------------------------------------------------------------------
(***************************************************************************)
(* Shares.                                                                 *)
(***************************************************************************)
Shares == [r \in Row |-> Share(r)]

LEMMA SharesType ==
  ASSUME TypeOK
  PROVE  /\ Shares \in [1 .. Received -> Nat] /\ Shares \in [1 .. Received -> Int]
         /\ \A r \in Row : Shares[r] = Share(r)
<1> USE Units
<1>1. ASSUME NEW r \in Row PROVE Share(r) \in Nat
  <2>1. swept[r] \in Nat /\ recognized[r] \in Nat
    BY Fields
  <2> QED BY <2>1 DEF Share
<1> QED BY <1>1 DEF Shares

(* Every used row has a share, so there are no more of them than units. *)
LEMMA UsedHaveShares ==
  ASSUME TypeOK, RowShape
  PROVE  /\ NextRow \in Nat
         /\ \A i \in 1 .. NextRow - 1 : i \in Row /\ Share(i) > 0
         /\ \A r \in Row : Share(r) <= recognized[r]
<1> USE Units
<1>1. NextRow \in Nat /\ NextRow >= 1
  BY UsedFinite
<1>2. NextRow - 1 <= Received
  <2>1. IsFiniteSet(Row) /\ Cardinality(Row) = Received
    BY FS_Interval
  <2>2. Cardinality(Used) <= Cardinality(Row)
    BY <2>1, FS_Subset, Used \in SUBSET Row DEF Used
  <2> QED BY <2>1, <2>2, UsedFinite
<1>3. ASSUME NEW i \in 1 .. NextRow - 1 PROVE i \in Row /\ Share(i) > 0
  <2>1. i \in Row /\ i < NextRow
    BY <1>1, <1>2, <1>3
  <2>2. swept[i] \in Nat /\ recognized[i] \in Nat /\ status["sweep"][i] # "none"
    BY <2>1, Fields DEF RowShape
  <2> QED BY <2>1, <2>2 DEF RowShape, Share
<1>4. ASSUME NEW r \in Row PROVE Share(r) <= recognized[r]
  <2>1. swept[r] \in Nat /\ recognized[r] \in Nat /\ swept[r] <= recognized[r]
    BY Fields DEF RowShape
  <2> QED BY <2>1 DEF Share
<1> QED BY <1>1, <1>3, <1>4

LEMMA SharesBound ==
  ASSUME TypeOK, RowShape, RecognizedOnce
  PROVE  NextRow - 1 <= available /\ \A r \in Row : Share(r) <= available
<1> USE Units
<1>1. available = Total(Shares, Received)
  BY DEF RecognizedOnce, Shares
<1>2. \A i \in 1 .. NextRow - 1 : Shares[i] > 0
  BY SharesType, UsedHaveShares
<1>3. NextRow \in Nat /\ NextRow >= 1 /\ NextRow - 1 <= Received
  BY UsedHaveShares, UsedFinite
<1>4. NextRow - 1 \in 0 .. Received
  BY <1>3
<1>5. NextRow - 1 <= Total(Shares, Received)
  BY <1>2, <1>4, SharesType, TotalCount
<1>6. ASSUME NEW r \in Row PROVE Share(r) <= Total(Shares, Received)
  BY SharesType, TotalBounds
<1> QED BY <1>1, <1>5, <1>6

(* There is a row for a deposit to come. *)
LEMMA RoomToCredit ==
  ASSUME TypeOK, RowShape, CreditShape, RecognizedOnce, NEW d \in Deposit, pendingDeposit >= Value[d]
  PROVE  NextRow \in Row
<1> USE Units
<1>1. NextRow - 1 <= available /\ NextRow \in Nat /\ NextRow >= 1
  BY SharesBound, UsedFinite
<1>2. available + pendingDeposit = Received /\ Value[d] > 0 /\ Value[d] \in Nat
  BY DEF CreditShape
<1> QED BY <1>1, <1>2 DEF TypeOK

(* There is a row for what a sweep leaves behind. *)
LEMMA RoomToSucceed ==
  ASSUME TypeOK, RowShape, CreditShape, RecognizedOnce, NEW r \in Row,
         status["sweep"][r] \in Settling, Remaining(r) > 0
  PROVE  NextRow \in Row /\ NextRow # r
<1> USE Units
<1> DEFINE rest == [Shares EXCEPT ![r] = Shares[r] - 1]
<1>0. swept[r] \in Nat /\ recognized[r] \in Nat /\ swept[r] > 0
  BY Fields DEF RowShape, Settling
<1>1. /\ swept[r] \in Nat /\ recognized[r] \in Nat /\ swept[r] > 0
      /\ recognized[r] > swept[r] /\ Shares[r] = recognized[r]
  BY <1>0, SharesType DEF Remaining, Settling, Share
<1>2. rest \in [1 .. Received -> Nat] /\ rest \in [1 .. Received -> Int]
  BY <1>1, SharesType
<1>3. ASSUME NEW i \in 1 .. NextRow - 1 PROVE rest[i] > 0
  <2>1. i \in Row /\ Shares[i] > 0
    BY SharesType, UsedHaveShares
  <2>2. CASE i = r
    BY <1>1, <2>1, <2>2, SharesType
  <2>3. CASE i # r
    BY <2>1, <2>3, SharesType
  <2> QED BY <2>2, <2>3
<1>4. NextRow \in Nat /\ NextRow >= 1 /\ NextRow - 1 <= Received
  BY UsedHaveShares, UsedFinite
<1>5. NextRow - 1 \in 0 .. Received
  BY <1>4
<1>6. NextRow - 1 <= Total(rest, Received)
  BY <1>2, <1>3, <1>5, TotalCount
<1>7. Total(rest, Received) = Total(Shares, Received) - Shares[r] + rest[r]
  BY <1>2, SharesType, TotalUpdate, ZenonT(40)
<1>8. Total(Shares, Received) = available /\ rest[r] = Shares[r] - 1
  BY SharesType DEF RecognizedOnce, Shares
<1>9. available \in Nat /\ pendingDeposit \in Nat /\ available + pendingDeposit = Received
  BY DEF CreditShape, TypeOK
<1>10. status["sweep"][r] # "none"
  BY DEF Settling
<1>11. r < NextRow
  BY <1>10 DEF RowShape
<1>12. rest[r] + 1 = Shares[r] /\ rest[r] \in Nat /\ Shares[r] \in Nat
  BY <1>1, <1>2, <1>8
<1>13. NextRow <= available
  BY <1>4, <1>6, <1>7, <1>8, <1>9, <1>12
<1> QED BY <1>4, <1>9, <1>11, <1>13

-----------------------------------------------------------------------------
(***************************************************************************)
(* Type correctness.                                                       *)
(***************************************************************************)

(* The steps of Next by name: a step proof has one case for each. *)
LEMMA StepCases ==
  ASSUME [Next]_vars, NEW ACTION Case,
    \A d \in Deposit : Credit(d) => Case,
    \A r \in Row, quote \in Quotes : Prepare(r, quote) => Case,
    \A r \in Row : MarkGasReady(r) => Case,
    \A r \in Row : CreateTopup(r) => Case,
    \A r \in Row : SignTopup(r) => Case,
    \A r \in Row, quote \in Quotes, seen \in SeenTokens : PrepareSweep(r, quote, seen) => Case,
    \A r \in Row, seen \in SeenTokens : FailWaiting(r, seen) => Case,
    \A r \in Row : Allocate(r) => Case,
    \A r \in Row, quote \in Quotes : SignSweep(r, quote) => Case,
    \A k \in Kind, r \in Row, c \in receipts : Found(k, r, c) => Case,
    \A k \in Kind, r \in Row : \A t \in rawTx[k][r], b \in BOOLEAN : Send(k, r, t, b) => Case,
    \A k \in Kind, r \in Row : MarkSent(k, r) => Case,
    \A k \in Kind, r \in Row, c \in receipts : Confirm(k, r, c) => Case,
    \A k \in Kind, r \in Row : UpdateConfirmations(k, r) => Case,
    \A r \in Row, c \in worker["topup"].receipt : FinalizeTopup(r, c) => Case,
    \A r \in Row, c \in worker["sweep"].receipt, b \in BOOLEAN : FinalizeSweep(r, c, b) => Case,
    \A k \in Kind : Interrupt(k) => Case,
    \A t \in mempool, ok \in BOOLEAN : \A fee \in PaidFee(t) : Mine(t, ok, fee) => Case,
    \A c \in receipts : Bury(c) => Case,
    \A c \in receipts : Reorg(c) => Case,
    Withdraw => Case,
    UNCHANGED vars => Case
  PROVE Case
<1>1. ASSUME NEW k \in Kind, NEW r \in Row, Broadcast(k, r) PROVE Case
  BY <1>1 DEF Broadcast
<1>2. CASE GasStation
  <2>1. PICK r \in Row : GasStationStep(r)
    BY <1>2 DEF GasStation
  <2> QED BY <1>1, <2>1 DEF GasStationStep, ConfirmTopup, SettleTopup
<1>3. CASE Sweeper
  <2>1. PICK r \in Row : SweeperStep(r)
    BY <1>3 DEF Sweeper
  <2> QED BY <1>1, <2>1 DEF SweeperStep, SettleSweep, EventFound
<1> QED BY <1>2, <1>3 DEF Next, MineAny, BuryAny

(* Turning a row gives a status. *)
LEMMA TurnType ==
  ASSUME TypeOK, NEW k \in Kind, NEW r \in Row, NEW s \in Status, Turn(k, r, s)
  PROVE  status' \in [Kind -> [Row -> Status]]
BY DEF TypeOK

LEMMA InitType == Init => TypeOK
<1> SUFFICES ASSUME Init PROVE TypeOK
  OBVIOUS
<1> USE Units, SweepConstantsAssumption
<1>1. status \in [Kind -> [Row -> Status]]
  BY DEF Init, Status
<1>2. 0 \in 0 .. Received /\ 0 \in 0 .. TopupMax /\ UserEth \in 0 .. UserEth
  OBVIOUS
<1>3. recognized \in [Row -> 0 .. Received] /\ swept \in [Row -> 0 .. Received]
  BY <1>2 DEF Init
<1> QED BY <1>1, <1>2, <1>3 DEF Init, TypeOK

(* The conjuncts that bound what is recognised and what a top-up brings    *)
(* make no step leave the types.                                           *)
LEMMA NextType == TypeOK /\ IndInv /\ [Next]_vars => TypeOK'
<1> SUFFICES ASSUME TypeOK, IndInv, [Next]_vars PROVE TypeOK'
  OBVIOUS
<1> USE DEF deposits, rows, chain
<1>0. /\ credited \subseteq Deposit
      /\ pendingDeposit \in Nat /\ available \in Nat
      /\ status \in [Kind -> [Row -> Status]]
      /\ recognized \in [Row -> 0 .. Received] /\ swept \in [Row -> 0 .. Received]
      /\ topup \in [Row -> 0 .. TopupMax]
      /\ rawTx \in [Kind -> [Row -> SUBSET Tx]]
      /\ mempool \subseteq Tx /\ receipts \subseteq Receipt /\ buried \subseteq receipts
      /\ gas \in Nat /\ tokens \in Nat /\ userEth \in 0 .. UserEth
      /\ worker \in [Kind -> [at : {"idle", "ready", "create", "allocate", "sent", "settle"},
                              row : Row, amount : Nat, receipt : SUBSET Receipt]]
  BY DEF TypeOK
<1>a. ASSUME NEW k \in Kind, Rest(k)
      PROVE  worker' \in [Kind -> [at : {"idle", "ready", "create", "allocate", "sent", "settle"},
                                   row : Row, amount : Nat, receipt : SUBSET Receipt]]
  BY <1>0, <1>a, Units
<1>1. ASSUME NEW d \in Deposit, Credit(d) PROVE TypeOK'
  <2>0. /\ Value[d] \in Nat /\ pendingDeposit \in Nat /\ available \in Nat /\ Received \in Nat
        /\ pendingDeposit >= Value[d] /\ available + pendingDeposit = Received
    BY <1>0, <1>1, Units DEF Credit, IndInv, CreditShape
  <2>1. pendingDeposit' \in Nat /\ available' \in Nat /\ credited' \subseteq Deposit
    BY <1>0, <1>1, <2>0 DEF Credit
  <2>2. status' \in [Kind -> [Row -> Status]]
    BY <1>0, <1>1 DEF Credit, Status, Live
  <2>3. ASSUME NEW r \in Row, status["sweep"][r] # "COMPLETED"
        PROVE  recognized[r] + Value[d] \in 0 .. Received
    <3>1. recognized[r] \in Nat /\ (status["sweep"][r] = "none" => recognized[r] = 0)
      BY Fields DEF IndInv, RowShape
    <3>2. status["sweep"][r] # "none" => recognized[r] = Share(r)
      BY <2>3 DEF Share
    <3>3. Share(r) <= available
      BY SharesBound DEF IndInv
    <3>4. recognized[r] <= available
      BY <2>0, <3>1, <3>2, <3>3
    <3> QED BY <2>0, <3>1, <3>4
  <2>4. \A r \in LiveRows \union ({NextRow} \intersect Row) : status["sweep"][r] # "COMPLETED"
    <3>1. NextRow \in Row => status["sweep"][NextRow] = "none"
      BY UsedFinite DEF IndInv, RowShape
    <3> QED BY <3>1 DEF LiveRows, Live
  <2>5. recognized' \in [Row -> 0 .. Received]
    <3>1. PICK target : /\ target = LiveRows \/ target = {NextRow}
                        /\ recognized' = [r \in Row |-> recognized[r] + IF r \in target THEN Value[d] ELSE 0]
      BY <1>1 DEF Credit, Merged
    <3>2. ASSUME NEW r \in Row
          PROVE  recognized[r] + (IF r \in target THEN Value[d] ELSE 0) \in 0 .. Received
      <4>1. CASE r \in target
        BY <2>3, <2>4, <3>1, <4>1
      <4>2. CASE r \notin target
        <5>1. recognized[r] \in Nat /\ recognized[r] <= Received
          BY Fields
        <5> QED BY <2>0, <4>2, <5>1
      <4> QED BY <4>1, <4>2
    <3> QED BY <3>1, <3>2
  <2> QED BY <1>0, <1>1, <2>1, <2>2, <2>5 DEF Credit, TypeOK
<1>2. ASSUME NEW r \in Row, NEW quote \in Quotes, Prepare(r, quote) PROVE TypeOK'
  <2>1. quote \in Nat /\ Target(quote) \in Int
    <3>1. quote \in Nat /\ SafetyBPS \in Nat
      BY SweepConstantsAssumption DEF Quotes
    <3>2. quote * SafetyBPS \in Nat
      BY <3>1
    <3> QED BY <3>1, <3>2 DEF Target
  <2> DEFINE short == Target(quote) - gas
             made == IF short > 0 THEN short ELSE 0
  <2>2. made \in Nat
    <3>1. short \in Int
      BY <1>0, <2>1
    <3> HIDE DEF short
    <3> QED BY <3>1
  <2>3. worker' = [worker EXCEPT !["topup"] = [at |-> IF short > 0 THEN "create" ELSE "ready",
                                               row |-> r, amount |-> made, receipt |-> {}]]
    BY <1>2 DEF Prepare
  <2> HIDE DEF made
  <2>4. worker' \in [Kind -> [at : {"idle", "ready", "create", "allocate", "sent", "settle"},
                              row : Row, amount : Nat, receipt : SUBSET Receipt]]
    BY <1>0, <2>2, <2>3
  <2> QED BY <1>0, <1>2, <2>4 DEF Prepare, TypeOK
<1>3. ASSUME NEW r \in Row, MarkGasReady(r) PROVE TypeOK'
  <2>1. status' \in [Kind -> [Row -> Status]]
    BY <1>0, <1>3 DEF MarkGasReady, Status, Live
  <2> QED BY <1>0, <1>3, <1>a, <2>1 DEF MarkGasReady, TypeOK
<1>4. ASSUME NEW r \in Row, CreateTopup(r) PROVE TypeOK'
  <2>1. status' \in [Kind -> [Row -> Status]]
    BY <1>0, <1>4 DEF CreateTopup, Status, Live
  <2>2. worker["topup"].amount \in 0 .. TopupMax
    BY <1>0, <1>4, SweepConstantsAssumption DEF CreateTopup, IndInv, WorkerShape
  <2>3. topup' \in [Row -> 0 .. TopupMax]
    BY <1>0, <1>4, <2>2 DEF CreateTopup
  <2> QED BY <1>0, <1>4, <1>a, <2>1, <2>3 DEF CreateTopup, TypeOK
<1>5. ASSUME NEW r \in Row, SignTopup(r) PROVE TypeOK'
  <2>1. status' \in [Kind -> [Row -> Status]]
    BY <1>0, <1>5 DEF SignTopup, Status, Live
  <2>2. [kind |-> "topup", row |-> r, amount |-> topup[r], maxFee |-> 0] \in Tx
    BY Fields DEF Tx
  <2>3. rawTx' \in [Kind -> [Row -> SUBSET Tx]]
    BY <1>0, <1>5, <2>2 DEF SignTopup
  <2> QED BY <1>0, <1>5, <2>1, <2>3 DEF SignTopup, TypeOK
<1>6. ASSUME NEW r \in Row, NEW quote \in Quotes, NEW seen \in SeenTokens, PrepareSweep(r, quote, seen)
      PROVE  TypeOK'
  <2>1. seen \in Nat
    BY <1>0 DEF SeenTokens
  <2>2. Smaller(seen, recognized[r]) \in Nat
    BY <2>1, Fields DEF Smaller
  <2>3. worker' \in [Kind -> [at : {"idle", "ready", "create", "allocate", "sent", "settle"},
                              row : Row, amount : Nat, receipt : SUBSET Receipt]]
    BY <1>0, <1>6, <2>2 DEF PrepareSweep
  <2> QED BY <1>0, <1>6, <2>3 DEF PrepareSweep, TypeOK
<1>7. ASSUME NEW r \in Row, NEW seen \in SeenTokens, FailWaiting(r, seen) PROVE TypeOK'
  <2>1. status' \in [Kind -> [Row -> Status]]
    BY <1>0, <1>7 DEF FailWaiting, Status, Live
  <2> QED BY <1>0, <1>7, <2>1 DEF FailWaiting, TypeOK
<1>8. ASSUME NEW r \in Row, Allocate(r) PROVE TypeOK'
  <2>1. status' \in [Kind -> [Row -> Status]]
    BY <1>0, <1>8 DEF Allocate, Status, Live
  <2>2. worker["sweep"].amount \in 0 .. Received
    <3>1. worker["sweep"].amount \in Nat /\ worker["sweep"].amount <= recognized[r]
      BY <1>0, <1>8 DEF Allocate
    <3>2. recognized[r] \in Nat /\ recognized[r] <= Received
      BY Fields
    <3> QED BY <3>1, <3>2, Units
  <2>3. swept' \in [Row -> 0 .. Received]
    BY <1>0, <1>8, <2>2 DEF Allocate
  <2> QED BY <1>0, <1>8, <1>a, <2>1, <2>3 DEF Allocate, TypeOK
<1>9. ASSUME NEW r \in Row, NEW quote \in Quotes, SignSweep(r, quote) PROVE TypeOK'
  <2>1. status' \in [Kind -> [Row -> Status]]
    BY <1>0, <1>9 DEF SignSweep, Status, Live
  <2>2. [kind |-> "sweep", row |-> r, amount |-> swept[r], maxFee |-> quote] \in Tx
    BY Fields, SweepConstantsAssumption DEF Tx, Quotes
  <2>3. rawTx' \in [Kind -> [Row -> SUBSET Tx]]
    BY <1>0, <1>9, <2>2 DEF SignSweep
  <2> QED BY <1>0, <1>9, <2>1, <2>3 DEF SignSweep, TypeOK
<1>10. ASSUME NEW k \in Kind, NEW r \in Row, NEW c \in receipts, Found(k, r, c) PROVE TypeOK'
  <2>1. status' \in [Kind -> [Row -> Status]]
    BY <1>0, <1>10 DEF Found, Status, Live
  <2>2. worker' \in [Kind -> [at : {"idle", "ready", "create", "allocate", "sent", "settle"},
                              row : Row, amount : Nat, receipt : SUBSET Receipt]]
    BY <1>0, <1>10 DEF Found
  <2> QED BY <1>0, <1>10, <2>1, <2>2 DEF Found, TypeOK
<1>11. ASSUME NEW k \in Kind, NEW r \in Row, NEW t \in rawTx[k][r], NEW b \in BOOLEAN, Send(k, r, t, b)
       PROVE  TypeOK'
  <2>1. worker' \in [Kind -> [at : {"idle", "ready", "create", "allocate", "sent", "settle"},
                              row : Row, amount : Nat, receipt : SUBSET Receipt]]
    BY <1>0, <1>11 DEF Send
  <2>2. mempool' \subseteq Tx
    BY <1>0, <1>11 DEF Send
  <2> QED BY <1>0, <1>11, <2>1, <2>2 DEF Send, TypeOK
<1>12. ASSUME NEW k \in Kind, NEW r \in Row, MarkSent(k, r) PROVE TypeOK'
  <2>1. status' \in [Kind -> [Row -> Status]]
    BY <1>0, <1>12 DEF MarkSent, Status, Live
  <2> QED BY <1>0, <1>12, <1>a, <2>1 DEF MarkSent, TypeOK
<1>13. ASSUME NEW k \in Kind, NEW r \in Row, NEW c \in receipts, Confirm(k, r, c) PROVE TypeOK'
  <2>1. worker' \in [Kind -> [at : {"idle", "ready", "create", "allocate", "sent", "settle"},
                              row : Row, amount : Nat, receipt : SUBSET Receipt]]
    BY <1>0, <1>13 DEF Confirm
  <2> QED BY <1>0, <1>13, <2>1 DEF Confirm, TypeOK
<1>14. ASSUME NEW k \in Kind, NEW r \in Row, UpdateConfirmations(k, r) PROVE TypeOK'
  <2>1. status' \in [Kind -> [Row -> Status]]
    BY <1>0, <1>14 DEF UpdateConfirmations, Status, Live
  <2> QED BY <1>0, <1>14, <1>a, <2>1 DEF UpdateConfirmations, TypeOK
<1>15. ASSUME NEW r \in Row, NEW c \in worker["topup"].receipt, FinalizeTopup(r, c) PROVE TypeOK'
  <2>1. "COMPLETED" \in Status /\ "FAILED" \in Status
    BY DEF Status
  <2>2. status' \in [Kind -> [Row -> Status]]
    <3>1. CASE c.ok
      BY <1>0, <1>15, <2>1, <3>1 DEF FinalizeTopup
    <3>2. CASE ~ c.ok
      BY <1>0, <1>15, <2>1, <3>2 DEF FinalizeTopup
    <3> QED BY <3>1, <3>2
  <2> QED BY <1>0, <1>15, <1>a, <2>2 DEF FinalizeTopup, TypeOK
<1>16. ASSUME NEW r \in Row, NEW c \in worker["sweep"].receipt, NEW b \in BOOLEAN, FinalizeSweep(r, c, b)
       PROVE  TypeOK'
  <2>1. "COMPLETED" \in Status /\ "FAILED" \in Status /\ "CREATED" \in Status
    BY DEF Status, Live
  <2>2. Remaining(r) \in 0 .. Received
    <3>1. swept[r] <= recognized[r]
      BY DEF IndInv, RowShape
    <3> QED BY <3>1, Units, Fields DEF Remaining
  <2>3. CASE c.ok /\ b
    <3>0. status' = [status EXCEPT !["sweep"] =
              [q \in Row |-> IF q = r THEN "COMPLETED"
                             ELSE IF q = NextRow /\ Remaining(r) > 0 THEN "CREATED" ELSE @[q]]]
      BY <1>16, <2>3 DEF FinalizeSweep
    <3>1. status' \in [Kind -> [Row -> Status]]
      BY <1>0, <2>1, <3>0
    <3>2. recognized' \in [Row -> 0 .. Received]
      BY <1>0, <1>16, <2>2, <2>3 DEF FinalizeSweep
    <3> QED BY <1>0, <1>16, <1>a, <3>1, <3>2 DEF FinalizeSweep, TypeOK
  <2>4. CASE ~ (c.ok /\ b)
    <3>0. status' = [status EXCEPT !["sweep"][r] = "FAILED"]
      BY <1>16, <2>4 DEF FinalizeSweep
    <3>1. status' \in [Kind -> [Row -> Status]]
      BY <1>0, <2>1, <3>0
    <3> QED BY <1>0, <1>16, <1>a, <2>4, <3>1 DEF FinalizeSweep, TypeOK
  <2> QED BY <2>3, <2>4
<1>17. ASSUME NEW k \in Kind, Interrupt(k) PROVE TypeOK'
  BY <1>0, <1>17, <1>a DEF Interrupt, TypeOK
<1>18. ASSUME NEW t \in mempool, NEW ok \in BOOLEAN, NEW fee \in PaidFee(t), Mine(t, ok, fee)
       PROVE  TypeOK'
  <2>1. t \in Tx /\ t.amount \in Nat /\ t.maxFee \in Nat /\ t.kind \in Kind
    BY <1>0 DEF Tx
  <2>2. ASSUME t.kind = "topup" PROVE fee \in Nat /\ gas' \in Nat /\ tokens' \in Nat
    <3>1. fee = 0
      BY <2>2 DEF PaidFee
    <3>2. gas' = (IF ok THEN gas + t.amount ELSE gas) /\ tokens' = tokens
      BY <1>18, <2>2 DEF Mine
    <3> QED BY <1>0, <2>1, <3>1, <3>2
  <2>3. ASSUME t.kind = "sweep" PROVE fee \in Nat /\ gas' \in Nat /\ tokens' \in Nat
    <3>1. fee \in Nat /\ fee <= t.maxFee
      BY <2>3, SweepConstantsAssumption DEF PaidFee
    <3>2. gas >= t.maxFee /\ gas' = gas - fee
      BY <1>18, <2>3 DEF Mine
    <3>3. tokens' = tokens \/ (tokens >= t.amount /\ tokens' = tokens - t.amount)
      BY <1>18, <2>3 DEF Mine
    <3>4. gas' \in Nat
      BY <1>0, <2>1, <3>1, <3>2
    <3> QED BY <1>0, <2>1, <3>1, <3>3, <3>4
  <2>4. fee \in Nat /\ gas' \in Nat /\ tokens' \in Nat
    BY <2>1, <2>2, <2>3
  <2>5. [tx |-> t, ok |-> ok, fee |-> fee] \in Receipt
    BY <2>1, <2>4 DEF Receipt
  <2>6. receipts' \subseteq Receipt /\ buried \subseteq receipts' /\ mempool' \subseteq Tx
    BY <1>0, <1>18, <2>5 DEF Mine
  <2>7. UNCHANGED <<deposits, rows, buried, userEth, worker>>
    BY <1>18 DEF Mine
  <2> QED BY <1>0, <2>4, <2>6, <2>7 DEF TypeOK
<1>19. ASSUME NEW c \in receipts, Bury(c) PROVE TypeOK'
  BY <1>0, <1>19 DEF Bury, TypeOK
<1>20. ASSUME NEW c \in receipts, Reorg(c) PROVE TypeOK'
  <2>1. c.tx \in Tx /\ c.tx.amount \in Nat /\ c.fee \in Nat
    BY <1>0 DEF Tx, Receipt
  <2>2. c.tx.kind = "topup" \/ c.tx.kind = "sweep"
    BY <2>1 DEF Tx
  <2>3. gas' \in Nat /\ tokens' \in Nat
    <3>1. CASE c.tx.kind = "topup"
      <4>1. gas' = (IF c.ok THEN gas - c.tx.amount ELSE gas) /\ tokens' = tokens
        BY <1>20, <3>1 DEF Reorg
      <4>2. c.ok => gas >= c.tx.amount
        BY <1>20, <3>1 DEF Reorg
      <4> QED BY <1>0, <2>1, <4>1, <4>2
    <3>2. CASE c.tx.kind = "sweep"
      <4>1. gas' = gas + c.fee /\ tokens' = (IF c.ok THEN tokens + c.tx.amount ELSE tokens)
        BY <1>20, <3>2 DEF Reorg
      <4> QED BY <1>0, <2>1, <4>1
    <3> QED BY <2>2, <3>1, <3>2
  <2>4. receipts' \subseteq Receipt /\ buried \subseteq receipts' /\ mempool' \subseteq Tx
    BY <1>0, <1>20, <2>1 DEF Reorg
  <2>5. UNCHANGED <<deposits, rows, buried, userEth, worker>>
    BY <1>20 DEF Reorg
  <2> QED BY <1>0, <2>3, <2>4, <2>5 DEF TypeOK
<1>21. ASSUME Withdraw PROVE TypeOK'
  <2>1. userEth \in Nat /\ userEth <= UserEth /\ UserEth \in Nat
    BY <1>0, SweepConstantsAssumption
  <2>2. userEth' \in 0 .. UserEth /\ gas' \in Nat
    BY <1>0, <1>21, <2>1 DEF Withdraw
  <2>3. UNCHANGED <<deposits, rows, mempool, receipts, buried, tokens, worker>>
    BY <1>21 DEF Withdraw
  <2> QED BY <1>0, <2>2, <2>3 DEF TypeOK
<1>22. ASSUME UNCHANGED vars PROVE TypeOK'
  BY <1>22 DEF vars, TypeOK
<1> QED
  BY <1>1, <1>2, <1>3, <1>4, <1>5, <1>6, <1>7, <1>8, <1>9, <1>10, <1>11, <1>12, <1>13, <1>14,
     <1>15, <1>16, <1>17, <1>18, <1>19, <1>20, <1>21, <1>22, StepCases

-----------------------------------------------------------------------------
(***************************************************************************)
(* Rows and the amounts they hold.                                         *)
(***************************************************************************)

(* A row of token_sweeps keeps what it has, or moves on while it is live,  *)
(* its amount being fixed once.                                            *)
Fixed(r) ==
  /\ status["sweep"][r] = "WAITING_GAS" /\ status'["sweep"][r] = "SIGNING"
  /\ swept'[r] > 0 /\ swept'[r] <= recognized[r]
Moved(r) ==
  /\ swept'[r] = swept[r]
  /\ \/ status["sweep"][r] = "CREATED" /\ status'["sweep"][r] = "WAITING_GAS"
     \/ status["sweep"][r] \in {"SIGNING", "SIGNED"} \union Settling
        /\ status'["sweep"][r] \in {"SIGNED", "FAILED"} \union Settling
     \/ status["sweep"][r] = "WAITING_GAS" /\ status'["sweep"][r] = "FAILED"
Kept(r) == status'["sweep"][r] = status["sweep"][r] /\ swept'[r] = swept[r]

Calm ==
  /\ UNCHANGED <<deposits, recognized>>
  /\ \A r \in Row : Kept(r) \/ Moved(r) \/ Fixed(r)

(* FinalizeTokenSweep of a transfer that arrived. *)
Succeeded(r) ==
  /\ status["sweep"][r] \in Settling
  /\ status' = [status EXCEPT !["sweep"] =
       [q \in Row |-> IF q = r THEN "COMPLETED"
                      ELSE IF q = NextRow /\ Remaining(r) > 0 THEN "CREATED" ELSE @[q]]]
  /\ recognized' = [q \in Row |-> IF q = NextRow /\ Remaining(r) > 0
                                  THEN Remaining(r) ELSE recognized[q]]
  /\ \E c \in buried : c.ok /\ c.tx.kind = "sweep" /\ c.tx.row = r /\ c.tx.amount = swept[r]
  /\ UNCHANGED <<deposits, swept, topup, rawTx>>

(* What turning one row does to the others. *)
LEMMA Turned ==
  ASSUME TypeOK, NEW k \in Kind, NEW r \in Row, NEW s, Turn(k, r, s)
  PROVE  /\ status'[k][r] = s
         /\ \A l \in Kind, q \in Row : <<l, q>> # <<k, r>> => status'[l][q] = status[l][q]
<1>1. status \in [Kind -> [Row -> Status]]
  BY DEF TypeOK
<1>2. status' = [status EXCEPT ![k][r] = s]
  BY DEF Turn
<1> QED BY <1>1, <1>2

LEMMA SweepSteps ==
  ASSUME TypeOK, IndInv, [Next]_vars
  PROVE  Calm \/ (\E d \in Deposit : Credit(d)) \/ (\E r \in Row : Succeeded(r))
<1> USE DEF deposits, rows, chain, Calm, Kept, Moved, Fixed, Settling
<1> DEFINE Goal == Calm \/ (\E d \in Deposit : Credit(d)) \/ (\E r \in Row : Succeeded(r))
<1>0. /\ status \in [Kind -> [Row -> Status]] /\ swept \in [Row -> 0 .. Received]
      /\ worker["sweep"].amount \in Nat
  BY DEF TypeOK
<1>1. ASSUME NEW d \in Deposit, Credit(d) PROVE Goal
  BY <1>1
<1>2. ASSUME UNCHANGED rows, UNCHANGED deposits PROVE Calm
  BY <1>2
<1>3. ASSUME NEW r \in Row, MarkGasReady(r) PROVE Calm
  <2>1. \A q \in Row \ {r} : status'["sweep"][q] = status["sweep"][q]
    BY <1>3, Turned DEF MarkGasReady
  <2>2. status'["sweep"][r] = "WAITING_GAS"
    BY <1>3, Turned DEF MarkGasReady
  <2> QED BY <1>3, <2>1, <2>2 DEF MarkGasReady
<1>4. ASSUME NEW r \in Row, CreateTopup(r) PROVE Calm
  <2>1. /\ \A q \in Row \ {r} : status'["sweep"][q] = status["sweep"][q]
        /\ status'["sweep"][r] = "WAITING_GAS"
    BY <1>0, <1>4 DEF CreateTopup
  <2> QED BY <1>4, <2>1 DEF CreateTopup
<1>5. ASSUME NEW r \in Row, SignTopup(r) PROVE Calm
  <2>1. \A q \in Row : status'["sweep"][q] = status["sweep"][q]
    BY <1>5, Turned DEF SignTopup
  <2> QED BY <1>5, <2>1 DEF SignTopup
<1>6. ASSUME NEW r \in Row, NEW seen \in SeenTokens, FailWaiting(r, seen) PROVE Calm
  <2>1. /\ \A q \in Row \ {r} : status'["sweep"][q] = status["sweep"][q]
        /\ status'["sweep"][r] = "FAILED"
    BY <1>6, Turned DEF FailWaiting
  <2> QED BY <1>6, <2>1 DEF FailWaiting
<1>7. ASSUME NEW r \in Row, Allocate(r) PROVE Calm
  <2>1. /\ \A q \in Row \ {r} : status'["sweep"][q] = status["sweep"][q]
        /\ status'["sweep"][r] = "SIGNING"
    <3>1. status' = [status EXCEPT !["sweep"][r] = "SIGNING"]
      BY <1>7 DEF Allocate
    <3> QED BY <1>0, <3>1
  <2>2. /\ \A q \in Row \ {r} : swept'[q] = swept[q]
        /\ swept'[r] = worker["sweep"].amount
    BY <1>0, <1>7 DEF Allocate
  <2>3. worker["sweep"].amount > 0
    BY <1>7 DEF Allocate, IndInv, WorkerShape
  <2> QED BY <1>7, <2>1, <2>2, <2>3 DEF Allocate
<1>8. ASSUME NEW r \in Row, NEW quote \in Quotes, SignSweep(r, quote) PROVE Calm
  <2>1. /\ \A q \in Row \ {r} : status'["sweep"][q] = status["sweep"][q]
        /\ status'["sweep"][r] = "SIGNED"
    BY <1>8, Turned DEF SignSweep
  <2> QED BY <1>8, <2>1 DEF SignSweep, Unsigned
<1>9. ASSUME NEW k \in Kind, NEW r \in Row, Turn(k, r, "BROADCASTED"), status[k][r] = "SIGNED",
             UNCHANGED <<deposits, recognized, swept>>
      PROVE  Calm
  <2>1. /\ \A q \in Row : <<"sweep", q>> # <<k, r>> => status'["sweep"][q] = status["sweep"][q]
        /\ k = "sweep" => status'["sweep"][r] = "BROADCASTED"
    BY <1>9, Turned
  <2> QED BY <1>9, <2>1
<1>10. ASSUME NEW k \in Kind, NEW r \in Row, UpdateConfirmations(k, r) PROVE Calm
  <2>1. /\ \A q \in Row : <<"sweep", q>> # <<k, r>> => status'["sweep"][q] = status["sweep"][q]
        /\ k = "sweep" => status'["sweep"][r] = "CONFIRMING"
    <3>1. status' = [status EXCEPT ![k][r] = "CONFIRMING"]
      BY <1>10 DEF UpdateConfirmations
    <3> QED BY <1>0, <3>1
  <2>2. status[k][r] \in Settling
    BY <1>10 DEF UpdateConfirmations, IndInv, WorkerShape
  <2> QED BY <1>10, <2>1, <2>2 DEF UpdateConfirmations
<1>11. ASSUME NEW r \in Row, NEW c \in worker["topup"].receipt, FinalizeTopup(r, c) PROVE Calm
  <2>1. /\ \A q \in Row \ {r} : status'["sweep"][q] = status["sweep"][q]
        /\ status'["sweep"][r] \in {status["sweep"][r], "FAILED"}
    <3>1. CASE c.ok
      <4>1. status' = [status EXCEPT !["topup"][r] = "COMPLETED"]
        BY <1>11, <3>1 DEF FinalizeTopup
      <4> QED BY <1>0, <4>1
    <3>2. CASE ~ c.ok
      <4>1. status' = [status EXCEPT !["topup"][r] = "FAILED", !["sweep"][r] = "FAILED"]
        BY <1>11, <3>2 DEF FinalizeTopup
      <4> QED BY <1>0, <4>1
    <3> QED BY <3>1, <3>2
  <2>2. status["sweep"][r] = "WAITING_GAS"
    BY <1>11 DEF FinalizeTopup, IndInv, GasShape, Live
  <2> QED BY <1>11, <2>1, <2>2 DEF FinalizeTopup
<1>12. ASSUME NEW r \in Row, NEW c \in worker["sweep"].receipt, NEW b \in BOOLEAN, FinalizeSweep(r, c, b)
       PROVE  Goal
  <2>1. CASE c.ok /\ b
    <3>1. c \in buried /\ c.tx \in rawTx["sweep"][r]
      BY <1>12 DEF FinalizeSweep, EnoughConfirmations, IndInv, WorkerShape
    <3>2. c.tx.kind = "sweep" /\ c.tx.row = r /\ c.tx.amount = swept[r]
      BY <3>1 DEF IndInv, TxShape
    <3> QED BY <1>12, <2>1, <3>1, <3>2 DEF FinalizeSweep, Succeeded
  <2>2. CASE ~ (c.ok /\ b)
    <3>1. /\ \A q \in Row \ {r} : status'["sweep"][q] = status["sweep"][q]
          /\ status'["sweep"][r] = "FAILED"
      <4>1. status' = [status EXCEPT !["sweep"][r] = "FAILED"]
        BY <1>12, <2>2 DEF FinalizeSweep
      <4> QED BY <1>0, <4>1
    <3> QED BY <1>12, <2>2, <3>1 DEF FinalizeSweep
  <2> QED BY <2>1, <2>2
<1>13. ASSUME NEW k \in Kind, NEW r \in Row, NEW c \in receipts, Found(k, r, c) PROVE Goal
  BY <1>9, <1>13 DEF Found
<1>14. ASSUME NEW k \in Kind, NEW r \in Row, MarkSent(k, r) PROVE Goal
  BY <1>9, <1>14 DEF MarkSent
<1> HIDE DEF Goal, Calm
<1>15. ASSUME NEW r \in Row, NEW quote \in Quotes, Prepare(r, quote) PROVE Calm
  BY <1>2, <1>15 DEF Prepare
<1>16. ASSUME NEW r \in Row, NEW quote \in Quotes, NEW seen \in SeenTokens, PrepareSweep(r, quote, seen)
       PROVE  Calm
  BY <1>2, <1>16 DEF PrepareSweep
<1>17. ASSUME NEW k \in Kind, NEW r \in Row, NEW t \in rawTx[k][r], NEW b \in BOOLEAN, Send(k, r, t, b)
       PROVE  Calm
  BY <1>2, <1>17 DEF Send
<1>18. ASSUME NEW k \in Kind, NEW r \in Row, NEW c \in receipts, Confirm(k, r, c) PROVE Calm
  BY <1>2, <1>18 DEF Confirm
<1>19. ASSUME NEW k \in Kind, Interrupt(k) PROVE Calm
  BY <1>2, <1>19 DEF Interrupt
<1>20. ASSUME NEW t \in mempool, NEW ok \in BOOLEAN, NEW fee \in PaidFee(t), Mine(t, ok, fee) PROVE Calm
  BY <1>2, <1>20 DEF Mine
<1>21. ASSUME NEW c \in receipts, Bury(c) \/ Reorg(c) PROVE Calm
  BY <1>2, <1>21 DEF Bury, Reorg
<1>22. ASSUME Withdraw \/ UNCHANGED vars PROVE Calm
  BY <1>2, <1>22 DEF Withdraw, vars
<1>23. Calm => Goal
  BY DEF Goal
<1>24. Goal
  BY <1>1, <1>3, <1>4, <1>5, <1>6, <1>7, <1>8, <1>10, <1>11, <1>12, <1>13, <1>14, <1>15, <1>16,
     <1>17, <1>18, <1>19, <1>20, <1>21, <1>22, <1>23, StepCases
<1> QED BY <1>24 DEF Goal

(* A deposit is credited to one row: the live one, or the next if there is *)
(* none.                                                                   *)
Joined(r, d) ==
  /\ \/ status["sweep"][r] \in Live /\ status'["sweep"][r] = status["sweep"][r]
     \/ /\ r = NextRow /\ LiveRows = {}
        /\ status["sweep"][r] = "none" /\ status'["sweep"][r] = "CREATED"
  /\ recognized'[r] = recognized[r] + Value[d]
  /\ \A q \in Row \ {r} : /\ status'["sweep"][q] = status["sweep"][q]
                          /\ recognized'[q] = recognized[q]
  /\ \A q \in Row : status'["topup"][q] = status["topup"][q]
  /\ available' = available + Value[d] /\ pendingDeposit' = pendingDeposit - Value[d]
  /\ UNCHANGED <<swept, topup, rawTx>>

LEMMA CreditEffect ==
  ASSUME TypeOK, IndInv, NEW d \in Deposit, Credit(d)
  PROVE  \E r \in Row : Joined(r, d)
<1>0. status \in [Kind -> [Row -> Status]] /\ \A r \in Row : recognized[r] \in Nat
  BY Fields DEF TypeOK
<1>1. PICK target : /\ target = IF LiveRows = {} THEN {NextRow} ELSE LiveRows
                    /\ recognized' = [r \in Row |-> recognized[r] + IF r \in target THEN Value[d] ELSE 0]
                    /\ status' = [status EXCEPT !["sweep"] =
                         [r \in Row |-> IF r \in target /\ @[r] = "none" THEN "CREATED" ELSE @[r]]]
  BY DEF Credit, Merged
<1>2. /\ \A q \in Row : status'["sweep"][q] = IF q \in target /\ status["sweep"][q] = "none"
                                             THEN "CREATED" ELSE status["sweep"][q]
      /\ \A q \in Row : status'["topup"][q] = status["topup"][q]
  BY <1>0, <1>1
<1>3. /\ \A q \in Row : q \in target => recognized'[q] = recognized[q] + Value[d]
      /\ \A q \in Row : q \notin target => recognized'[q] = recognized[q]
  BY <1>0, <1>1
<1>4. /\ available' = available + Value[d] /\ pendingDeposit' = pendingDeposit - Value[d]
      /\ UNCHANGED <<swept, topup, rawTx>>
  BY DEF Credit
<1>5. CASE LiveRows = {}
  <2>1. NextRow \in Row
    BY RoomToCredit DEF IndInv, Credit
  <2>2. status["sweep"][NextRow] = "none"
    BY <2>1, UsedFinite DEF IndInv, RowShape
  <2>3. target = {NextRow}
    BY <1>1, <1>5
  <2>4. Joined(NextRow, d)
    BY <1>2, <1>3, <1>4, <1>5, <2>1, <2>2, <2>3 DEF Joined
  <2> QED BY <2>1, <2>4
<1>6. CASE LiveRows # {}
  <2>1. PICK r \in LiveRows : TRUE
    BY <1>6
  <2>2. LiveRows = {r}
    BY <2>1 DEF IndInv, RowShape
  <2>3. target = {r}
    BY <1>1, <1>6, <2>2
  <2>4. r \in Row /\ status["sweep"][r] \in Live /\ status["sweep"][r] # "none"
    BY <2>1 DEF LiveRows, Live
  <2>5. status'["sweep"][r] = status["sweep"][r]
    BY <1>2, <2>4
  <2>6. \A q \in Row \ {r} : status'["sweep"][q] = status["sweep"][q] /\ recognized'[q] = recognized[q]
    BY <1>2, <1>3, <2>3
  <2>7. recognized'[r] = recognized[r] + Value[d]
    BY <1>3, <2>3, <2>4
  <2> QED BY <1>2, <1>4, <2>4, <2>5, <2>6, <2>7 DEF Joined
<1> QED BY <1>5, <1>6

(* A sweep that succeeds leaves what it did not deliver, if anything, to   *)
(* the next row.                                                           *)
Delivered(r) ==
  /\ status["sweep"][r] \in Settling /\ status'["sweep"][r] = "COMPLETED"
  /\ recognized'[r] = recognized[r]
  /\ \A q \in Row : status'["topup"][q] = status["topup"][q]
  /\ UNCHANGED <<deposits, swept, topup, rawTx>>
Succession(r) ==
  /\ NextRow \in Row /\ NextRow # r
  /\ status["sweep"][NextRow] = "none" /\ status'["sweep"][NextRow] = "CREATED"
  /\ Remaining(r) > 0 /\ recognized'[NextRow] = Remaining(r)
  /\ \A q \in Row \ {r, NextRow} : /\ status'["sweep"][q] = status["sweep"][q]
                                   /\ recognized'[q] = recognized[q]
Nothing(r) ==
  /\ swept[r] = recognized[r]
  /\ \A q \in Row \ {r} : /\ status'["sweep"][q] = status["sweep"][q]
                          /\ recognized'[q] = recognized[q]

LEMMA SuccessEffect ==
  ASSUME TypeOK, IndInv, NEW r \in Row, Succeeded(r)
  PROVE  Delivered(r) /\ (Succession(r) \/ Nothing(r))
<1>0. /\ status \in [Kind -> [Row -> Status]]
      /\ recognized[r] \in Nat /\ swept[r] \in Nat /\ swept[r] <= recognized[r]
  BY Fields DEF TypeOK, IndInv, RowShape
<1>1. /\ \A q \in Row : status'["sweep"][q] =
           IF q = r THEN "COMPLETED"
           ELSE IF q = NextRow /\ Remaining(r) > 0 THEN "CREATED" ELSE status["sweep"][q]
      /\ \A q \in Row : status'["topup"][q] = status["topup"][q]
  BY <1>0 DEF Succeeded
<1>2. \A q \in Row : recognized'[q] = IF q = NextRow /\ Remaining(r) > 0
                                      THEN Remaining(r) ELSE recognized[q]
  BY DEF Succeeded
<1>3. /\ status["sweep"][r] \in Settling
      /\ UNCHANGED <<deposits, swept, topup, rawTx>>
  BY DEF Succeeded
<1>4. CASE Remaining(r) > 0
  <2>1. NextRow \in Row /\ NextRow # r
    BY <1>3, <1>4, RoomToSucceed DEF IndInv
  <2>2. status["sweep"][NextRow] = "none"
    BY <2>1, UsedFinite DEF IndInv, RowShape
  <2>3. Delivered(r)
    BY <1>1, <1>2, <1>3, <2>1 DEF Delivered
  <2>4. Succession(r)
    BY <1>1, <1>2, <1>4, <2>1, <2>2 DEF Succession
  <2> QED BY <2>3, <2>4
<1>5. CASE ~ (Remaining(r) > 0)
  <2>1. swept[r] = recognized[r]
    BY <1>0, <1>5 DEF Remaining
  <2>2. Delivered(r)
    BY <1>1, <1>2, <1>3, <1>5 DEF Delivered
  <2>3. Nothing(r)
    BY <1>1, <1>2, <1>5, <2>1 DEF Nothing
  <2> QED BY <2>2, <2>3
<1> QED BY <1>4, <1>5

LEMMA RowShapeNext ==
  ASSUME TypeOK, IndInv, [Next]_vars
  PROVE  RowShape'
<1> USE DEF Settling, Live
<1>0. /\ \A r \in Row : status["sweep"][r] # "none" <=> r < NextRow
      /\ \A r, q \in LiveRows : r = q
      /\ \A r \in Row :
           /\ status["sweep"][r] = "none" <=> recognized[r] = 0
           /\ swept[r] <= recognized[r]
           /\ status["sweep"][r] \in {"none", "CREATED", "WAITING_GAS"} => swept[r] = 0
           /\ status["sweep"][r] \notin {"none", "CREATED", "WAITING_GAS", "FAILED"} => swept[r] > 0
  BY DEF IndInv, RowShape
<1>1. ASSUME Calm PROVE RowShape'
  <2>1. \A r \in Row : Kept(r) \/ Moved(r) \/ Fixed(r)
    BY <1>1 DEF Calm
  <2>2. \A r \in Row : status'["sweep"][r] # "none" <=> status["sweep"][r] # "none"
    BY <2>1 DEF Kept, Moved, Fixed
  <2>3. NextRow' = NextRow
    BY <2>2, NextRowKept
  <2>4. \A r \in Row : status'["sweep"][r] \in Live => status["sweep"][r] \in Live
    BY <2>1 DEF Kept, Moved, Fixed
  <2>5. \A r, q \in LiveRows' : r = q
    BY <1>0, <2>4 DEF LiveRows
  <2>6. recognized' = recognized
    BY <1>1 DEF Calm
  <2>7. \A r \in Row :
          /\ swept'[r] <= recognized[r]
          /\ status'["sweep"][r] \in {"none", "CREATED", "WAITING_GAS"} => swept'[r] = 0
          /\ status'["sweep"][r] \notin {"none", "CREATED", "WAITING_GAS", "FAILED"} => swept'[r] > 0
    BY <1>0, <2>1 DEF Kept, Moved, Fixed
  <2> QED BY <1>0, <2>2, <2>3, <2>5, <2>6, <2>7 DEF RowShape
<1>2. ASSUME NEW d \in Deposit, Credit(d) PROVE RowShape'
  <2>1. PICK r \in Row : Joined(r, d)
    BY <1>2, CreditEffect
  <2>2. /\ recognized[r] \in Nat /\ swept[r] \in Nat /\ Value[d] \in Nat /\ Value[d] > 0
        /\ recognized'[r] = recognized[r] + Value[d] /\ swept' = swept
    BY <2>1, Fields, Units DEF Joined
  <2>3. /\ recognized'[r] # 0 /\ swept[r] <= recognized'[r]
    BY <1>0, <2>2
  <2>4. \A q \in Row :
          /\ status'["sweep"][q] = "none" <=> recognized'[q] = 0
          /\ swept'[q] <= recognized'[q]
          /\ status'["sweep"][q] \in {"none", "CREATED", "WAITING_GAS"} => swept'[q] = 0
          /\ status'["sweep"][q] \notin {"none", "CREATED", "WAITING_GAS", "FAILED"} => swept'[q] > 0
    BY <1>0, <2>1, <2>2, <2>3 DEF Joined
  <2>5. CASE status["sweep"][r] \in Live /\ status'["sweep"][r] = status["sweep"][r]
    <3>1. \A q \in Row : status'["sweep"][q] = status["sweep"][q]
      BY <2>1, <2>5 DEF Joined
    <3>2. NextRow' = NextRow
      BY <3>1, NextRowKept
    <3>3. LiveRows' = LiveRows
      BY <3>1 DEF LiveRows
    <3> QED BY <1>0, <2>4, <3>1, <3>2, <3>3 DEF RowShape
  <2>6. CASE /\ r = NextRow /\ LiveRows = {}
             /\ status["sweep"][r] = "none" /\ status'["sweep"][r] = "CREATED"
    <3>1. \A q \in Row \ {r} : status'["sweep"][q] = status["sweep"][q]
      BY <2>1 DEF Joined
    <3>2. \A q \in Row : status'["sweep"][q] # "none" <=> status["sweep"][q] # "none" \/ q = NextRow
      BY <2>6, <3>1
    <3>3. NextRow' = NextRow + 1 /\ NextRow \in Nat
      BY <2>6, <3>2, NextRowTaken, UsedFinite
    <3>4. \A q \in Row : q \in Nat
      BY Units
    <3>5. \A q \in Row : status'["sweep"][q] # "none" <=> q < NextRow'
      BY <1>0, <3>2, <3>3, <3>4
    <3>6. \A q \in LiveRows' : q = r
      BY <2>6, <3>1 DEF LiveRows
    <3> QED BY <2>4, <3>5, <3>6 DEF RowShape
  <2> QED BY <2>1, <2>5, <2>6 DEF Joined
<1>3. ASSUME NEW r \in Row, Succeeded(r) PROVE RowShape'
  <2>1. Delivered(r) /\ (Succession(r) \/ Nothing(r))
    BY <1>3, SuccessEffect
  <2>2. \A q \in LiveRows : q = r
    BY <1>0, <2>1 DEF LiveRows, Delivered
  <2>3. /\ status["sweep"][r] # "none" /\ status'["sweep"][r] = "COMPLETED"
        /\ recognized'[r] = recognized[r] /\ swept' = swept /\ swept[r] > 0
        /\ recognized[r] \in Nat /\ swept[r] \in Nat
    BY <1>0, <2>1, Fields DEF Delivered
  <2>4. CASE Nothing(r)
    <3>1. \A q \in Row \ {r} : status'["sweep"][q] = status["sweep"][q] /\ recognized'[q] = recognized[q]
      BY <2>4 DEF Nothing
    <3>2. \A q \in Row : status'["sweep"][q] # "none" <=> status["sweep"][q] # "none"
      BY <2>3, <3>1
    <3>3. NextRow' = NextRow
      BY <3>2, NextRowKept
    <3>4. LiveRows' = {}
      BY <2>2, <2>3, <3>1 DEF LiveRows
    <3>5. \A q \in Row :
            /\ status'["sweep"][q] = "none" <=> recognized'[q] = 0
            /\ swept'[q] <= recognized'[q]
            /\ status'["sweep"][q] \in {"none", "CREATED", "WAITING_GAS"} => swept'[q] = 0
            /\ status'["sweep"][q] \notin {"none", "CREATED", "WAITING_GAS", "FAILED"} => swept'[q] > 0
      BY <1>0, <2>3, <3>1
    <3> QED BY <1>0, <3>2, <3>3, <3>4, <3>5 DEF RowShape
  <2>5. CASE Succession(r)
    <3> DEFINE n == NextRow
    <3>1. /\ n \in Row /\ n # r /\ status["sweep"][n] = "none" /\ status'["sweep"][n] = "CREATED"
          /\ Remaining(r) > 0 /\ recognized'[n] = Remaining(r)
          /\ \A q \in Row \ {r, n} : /\ status'["sweep"][q] = status["sweep"][q]
                                     /\ recognized'[q] = recognized[q]
      BY <2>5 DEF Succession
    <3>2. \A q \in Row : status'["sweep"][q] # "none" <=> status["sweep"][q] # "none" \/ q = NextRow
      BY <2>3, <3>1
    <3>3. NextRow' = NextRow + 1 /\ NextRow \in Nat
      BY <3>1, <3>2, NextRowTaken, UsedFinite
    <3>4. \A q \in Row : q \in Nat
      BY Units
    <3>5. \A q \in Row : status'["sweep"][q] # "none" <=> q < NextRow'
      BY <1>0, <3>2, <3>3, <3>4
    <3> HIDE DEF n
    <3>6. \A q \in LiveRows' : q = n
      BY <2>2, <2>3, <3>1 DEF LiveRows
    <3>7. Remaining(r) \in Nat /\ swept[n] = 0
      BY <1>0, <2>3, <3>1 DEF Remaining
    <3>8. \A q \in Row :
            /\ status'["sweep"][q] = "none" <=> recognized'[q] = 0
            /\ swept'[q] <= recognized'[q]
            /\ status'["sweep"][q] \in {"none", "CREATED", "WAITING_GAS"} => swept'[q] = 0
            /\ status'["sweep"][q] \notin {"none", "CREATED", "WAITING_GAS", "FAILED"} => swept'[q] > 0
      BY <1>0, <2>3, <3>1, <3>7
    <3> QED BY <3>5, <3>6, <3>8 DEF RowShape
  <2> QED BY <2>1, <2>4, <2>5
<1> QED BY <1>1, <1>2, <1>3, SweepSteps

LEMMA CreditShapeNext ==
  ASSUME TypeOK, IndInv, [Next]_vars
  PROVE  CreditShape'
<1>0. /\ available \in Nat /\ pendingDeposit \in Nat /\ Received \in Nat
      /\ available + pendingDeposit = Received
  BY Units DEF TypeOK, IndInv, CreditShape
<1>1. CASE Calm
  BY <1>0, <1>1 DEF Calm, deposits, CreditShape
<1>2. ASSUME NEW d \in Deposit, Credit(d) PROVE CreditShape'
  <2>1. PICK r \in Row : Joined(r, d)
    BY <1>2, CreditEffect
  <2>2. /\ available' = available + Value[d] /\ pendingDeposit' = pendingDeposit - Value[d]
        /\ Value[d] \in Nat
    BY <2>1, Units DEF Joined
  <2> QED BY <1>0, <2>2 DEF CreditShape
<1>3. ASSUME NEW r \in Row, Succeeded(r) PROVE CreditShape'
  BY <1>0, <1>3 DEF Succeeded, deposits, CreditShape
<1> QED BY <1>1, <1>2, <1>3, SweepSteps

LEMMA SharesTypeAlways ==
  TypeOK => /\ Shares \in [1 .. Received -> Nat] /\ Shares \in [1 .. Received -> Int]
            /\ \A r \in Row : Shares[r] = Share(r)
BY SharesType

LEMMA RecognizedOnceNext ==
  ASSUME TypeOK, IndInv, [Next]_vars
  PROVE  RecognizedOnce'
<1> USE Units
<1>0. /\ Shares \in [1 .. Received -> Int] /\ \A r \in Row : Shares[r] = Share(r)
      /\ Shares' \in [1 .. Received -> Int] /\ \A r \in Row : Shares'[r] = Share(r)'
  <2>1. TypeOK'
    BY NextType
  <2>2. (TypeOK => /\ Shares \in [1 .. Received -> Nat] /\ Shares \in [1 .. Received -> Int]
                   /\ \A r \in Row : Shares[r] = Share(r))'
    BY SharesTypeAlways, PTL
  <2> QED BY <2>1, <2>2, SharesType
<1>1. available = Total(Shares, Received) /\ (RecognizedOnce' <=> available' = Total(Shares', Received))
  BY DEF IndInv, RecognizedOnce, Shares
<1>2. \A r \in Row : recognized[r] \in Nat /\ swept[r] \in Nat /\ Shares[r] \in Int
  BY <1>0, Fields
<1>3. ASSUME Calm PROVE RecognizedOnce'
  <2>1. ASSUME NEW r \in Row PROVE Share(r)' = Share(r)
    <3>1. recognized'[r] = recognized[r]
      BY <1>3 DEF Calm
    <3>2. Kept(r) \/ Moved(r) \/ Fixed(r)
      BY <1>3 DEF Calm
    <3>3. CASE Kept(r)
      BY <3>1, <3>3 DEF Kept, Share
    <3>4. CASE Moved(r) \/ Fixed(r)
      <4>1. /\ status["sweep"][r] \notin {"none", "COMPLETED"}
            /\ status'["sweep"][r] \notin {"none", "COMPLETED"}
        BY <3>4 DEF Moved, Fixed, Settling
      <4> QED BY <3>1, <4>1 DEF Share
    <3> QED BY <3>2, <3>3, <3>4
  <2>2. Total(Shares', Received) = Total(Shares, Received)
    BY <1>0, <2>1, TotalSame, SMTT(40)
  <2>3. available' = available
    BY <1>3 DEF Calm, deposits
  <2> QED BY <1>1, <2>2, <2>3
<1>4. ASSUME NEW d \in Deposit, Credit(d) PROVE RecognizedOnce'
  <2>1. PICK r \in Row : Joined(r, d)
    BY <1>4, CreditEffect
  <2>2. Share(r) = recognized[r] /\ Share(r)' = recognized[r] + Value[d]
    <3>1. /\ status["sweep"][r] # "COMPLETED" /\ status'["sweep"][r] \notin {"COMPLETED", "none"}
          /\ recognized'[r] = recognized[r] + Value[d]
      BY <2>1 DEF Joined, Live
    <3>2. status["sweep"][r] = "none" => recognized[r] = 0
      BY DEF IndInv, RowShape
    <3> QED BY <3>1, <3>2 DEF Share
  <2>3. \A q \in Row \ {r} : Share(q)' = Share(q)
    BY <2>1 DEF Joined, Share
  <2>4. Total(Shares', Received) = Total(Shares, Received) - Shares[r] + Shares'[r]
    <3>1. \A q \in (1 .. Received) \ {r} : Shares'[q] = Shares[q]
      BY <1>0, <2>3
    <3> QED BY <1>0, <3>1, TotalUpdate
  <2>5. available' = available + Value[d] /\ Value[d] \in Nat
    BY <2>1 DEF Joined
  <2>6. Total(Shares, Received) \in Int
    BY <1>0, TotalType
  <2>7. Shares[r] = recognized[r] /\ Shares'[r] = recognized[r] + Value[d]
    BY <1>0, <2>2
  <2> HIDE DEF Shares
  <2> QED BY <1>1, <1>2, <2>4, <2>5, <2>6, <2>7
<1>5. ASSUME NEW r \in Row, Succeeded(r) PROVE RecognizedOnce'
  <2>1. Delivered(r) /\ (Succession(r) \/ Nothing(r))
    BY <1>5, SuccessEffect
  <2>2. Share(r) = recognized[r] /\ Share(r)' = swept[r] /\ available' = available
    BY <2>1 DEF Delivered, Share, Settling, deposits
  <2>3. CASE Nothing(r)
    <3>1. \A q \in Row : Share(q)' = Share(q)
      BY <2>1, <2>2, <2>3 DEF Nothing, Delivered, Share
    <3>2. Total(Shares', Received) = Total(Shares, Received)
      BY <1>0, <3>1, TotalSame, SMTT(40)
    <3> QED BY <1>1, <2>2, <3>2
  <2>4. CASE Succession(r)
    <3>0. PICK n \in Row : n = NextRow
      BY <2>4 DEF Succession
    <3>1. n # r /\ Share(n) = 0 /\ Share(n)' = recognized[r] - swept[r]
      <4>1. /\ n # r /\ status["sweep"][n] = "none" /\ status'["sweep"][n] = "CREATED"
            /\ recognized'[n] = recognized[r] - swept[r]
        BY <2>4, <3>0 DEF Succession, Remaining
      <4> QED BY <4>1 DEF Share
    <3>2. ASSUME NEW q \in Row \ {r, n} PROVE Share(q)' = Share(q)
      <4>1. /\ status'["sweep"][q] = status["sweep"][q] /\ recognized'[q] = recognized[q]
            /\ swept'[q] = swept[q]
        BY <2>1, <2>4, <3>0 DEF Succession, Delivered
      <4> QED BY <4>1 DEF Share
    <3> DEFINE mid == [Shares EXCEPT ![r] = swept[r]]
    <3>3. /\ mid \in [1 .. Received -> Int] /\ mid[r] = swept[r] /\ mid[n] = 0
          /\ \A q \in (1 .. Received) \ {r} : mid[q] = Shares[q]
      BY <1>0, <1>2, <3>1
    <3> HIDE DEF mid
    <3>4. Total(mid, Received) = Total(Shares, Received) - Shares[r] + mid[r]
      BY <1>0, <3>3, TotalUpdate, ZenonT(40)
    <3>5. \A q \in (1 .. Received) \ {n} : Shares'[q] = mid[q]
      <4>1. Shares'[r] = mid[r]
        BY <1>0, <2>2, <3>3
      <4>2. \A q \in Row \ {r, n} : Shares'[q] = Shares[q]
        BY <1>0, <3>2
      <4> HIDE DEF Shares
      <4> QED BY <3>3, <4>1, <4>2
    <3>6. Total(Shares', Received) = Total(mid, Received) - mid[n] + Shares'[n]
      BY <1>0, <3>1, <3>3, <3>5, TotalUpdate
    <3>7. Total(Shares, Received) \in Int
      BY <1>0, TotalType
    <3>8. Shares[r] = recognized[r] /\ Shares'[n] = recognized[r] - swept[r]
      BY <1>0, <2>2, <3>1
    <3> QED BY <1>1, <1>2, <2>2, <3>3, <3>4, <3>6, <3>7, <3>8
  <2> QED BY <2>1, <2>3, <2>4
<1> QED BY <1>3, <1>4, <1>5, SweepSteps

-----------------------------------------------------------------------------
(***************************************************************************)
(* Top-ups, transactions and what the workers have read.                   *)
(***************************************************************************)

(* The ways a step changes the top-up and the sweep of a row together.     *)
GasKept(r) ==
  /\ status'["topup"][r] = status["topup"][r] /\ status'["sweep"][r] = status["sweep"][r]
GasCreated(r) ==
  /\ status["sweep"][r] = "CREATED"
  /\ status'["topup"][r] = "SIGNING" /\ status'["sweep"][r] = "WAITING_GAS"
GasMoved(r) ==
  /\ status["topup"][r] \in {"SIGNING", "SIGNED"} \union Settling
  /\ status'["topup"][r] \in {"SIGNED"} \union Settling
  /\ status'["sweep"][r] = status["sweep"][r]
GasEnded(r) ==
  /\ status["topup"][r] \in Settling
  /\ \/ /\ status'["topup"][r] = "FAILED" /\ status'["sweep"][r] = "FAILED"
     \/ /\ status'["topup"][r] = "COMPLETED" /\ status'["sweep"][r] = status["sweep"][r]
        /\ \E c \in buried : c.ok /\ c.tx.kind = "topup" /\ c.tx.row = r
SweepMoved(r) ==
  /\ status'["topup"][r] = status["topup"][r] /\ status["topup"][r] \notin Live
  /\ status["sweep"][r] # "FAILED" /\ status'["sweep"][r] # "none"
  /\ status'["sweep"][r] = "CREATED" => status["sweep"][r] = "none"
GasEffect(r) == GasKept(r) \/ GasCreated(r) \/ GasMoved(r) \/ GasEnded(r) \/ SweepMoved(r)

(* A transaction is stored once, for good, and no status goes back.        *)
Signing(k, r) ==
  /\ status[k][r] = "SIGNING" /\ status'[k][r] = "SIGNED" /\ swept'[r] = swept[r]
  /\ \E t : /\ rawTx'[k][r] = {t} /\ t.kind = k /\ t.row = r
            /\ k = "sweep" => t.amount = swept[r]
RawKept(k, r) ==
  /\ rawTx'[k][r] = rawTx[k][r]
  /\ status'[k][r] \in Early => status[k][r] \in Early
RawEffect(k, r) == Signing(k, r) \/ RawKept(k, r)

(* What awaits its confirmations does so until a worker settles it.        *)
SettlingKept(k, r) ==
  status[k][r] \in Settling /\ worker'[k].at = "settle" => status'[k][r] \in Settling

LEMMA RowEffects ==
  ASSUME TypeOK, IndInv, [Next]_vars
  PROVE  \A r \in Row : GasEffect(r) /\ \A k \in Kind : RawEffect(k, r) /\ SettlingKept(k, r)
<1> DEFINE Goal == \A r \in Row : GasEffect(r) /\ \A k \in Kind : RawEffect(k, r) /\ SettlingKept(k, r)
<1> USE DEF deposits, rows, chain
<1> HIDE DEF Turn
<1>0. /\ status \in [Kind -> [Row -> Status]] /\ rawTx \in [Kind -> [Row -> SUBSET Tx]]
      /\ worker \in [Kind -> [at : {"idle", "ready", "create", "allocate", "sent", "settle"},
                              row : Row, amount : Nat, receipt : SUBSET Receipt]]
  BY DEF TypeOK
<1>a. ASSUME UNCHANGED <<status, rawTx>> PROVE Goal
  BY <1>a DEF GasEffect, GasKept, RawEffect, RawKept, SettlingKept
(* Turning one row of token_sweeps. *)
<1>b. ASSUME NEW r \in Row, NEW s, Turn("sweep", r, s), rawTx' = rawTx,
             status["topup"][r] \notin Live, status["sweep"][r] # "FAILED", s \notin {"none", "CREATED"},
             s \in Early => status["sweep"][r] \in Early,
             s \in Settling \/ status["sweep"][r] \notin Settling \/ worker'["sweep"].at # "settle"
      PROVE  Goal
  <2>1. /\ status'["sweep"][r] = s
        /\ \A q \in Row \ {r} : status'["sweep"][q] = status["sweep"][q]
        /\ \A q \in Row : status'["topup"][q] = status["topup"][q]
    BY <1>b, Turned
  <2>2. SweepMoved(r) /\ \A q \in Row \ {r} : GasKept(q)
    BY <1>b, <2>1 DEF SweepMoved, GasKept
  <2>3. \A k \in Kind, q \in Row : RawKept(k, q) /\ SettlingKept(k, q)
    BY <1>b, <2>1 DEF RawKept, SettlingKept
  <2> QED BY <2>2, <2>3 DEF GasEffect, RawEffect
(* Turning one row of internal_transfers. *)
<1>c. ASSUME NEW r \in Row, NEW s \in {"SIGNED"} \union Settling, Turn("topup", r, s), rawTx' = rawTx,
             status["topup"][r] \in {"SIGNED"} \union Settling,
             s \in Settling
      PROVE  Goal
  <2>1. /\ status'["topup"][r] = s
        /\ \A q \in Row \ {r} : status'["topup"][q] = status["topup"][q]
        /\ \A q \in Row : status'["sweep"][q] = status["sweep"][q]
    BY <1>c, Turned
  <2>2. GasMoved(r) /\ \A q \in Row \ {r} : GasKept(q)
    BY <1>c, <2>1 DEF GasMoved, GasKept
  <2>3. \A k \in Kind, q \in Row : RawKept(k, q) /\ SettlingKept(k, q)
    BY <1>c, <2>1 DEF RawKept, SettlingKept, Early, Settling
  <2> QED BY <2>2, <2>3 DEF GasEffect, RawEffect
(* Storing a transaction. *)
<1>d. ASSUME NEW k \in Kind, NEW r \in Row, NEW t, Turn(k, r, "SIGNED"), status[k][r] = "SIGNING",
             rawTx' = [rawTx EXCEPT ![k][r] = {t}], t.kind = k, t.row = r,
             k = "sweep" => t.amount = swept[r], swept' = swept
      PROVE  Goal
  <2>1. /\ status'[k][r] = "SIGNED"
        /\ \A l \in Kind, q \in Row : <<l, q>> # <<k, r>> => status'[l][q] = status[l][q]
    BY <1>d, Turned
  <2>2. /\ rawTx'[k][r] = {t}
        /\ \A l \in Kind, q \in Row : <<l, q>> # <<k, r>> => rawTx'[l][q] = rawTx[l][q]
    BY <1>0, <1>d
  <2>3. Signing(k, r)
    BY <1>d, <2>1, <2>2 DEF Signing
  <2>4. \A l \in Kind, q \in Row : <<l, q>> # <<k, r>> => RawKept(l, q)
    BY <2>1, <2>2 DEF RawKept
  <2>5. \A l \in Kind, q \in Row : SettlingKept(l, q)
    BY <1>d, <2>1 DEF SettlingKept, Settling
  <2>6. \A q \in Row \ {r} : GasKept(q)
    BY <2>1 DEF GasKept
  <2>7. CASE k = "topup"
    <3>1. GasMoved(r)
      BY <1>d, <2>1, <2>7 DEF GasMoved
    <3> QED BY <2>3, <2>4, <2>5, <2>6, <3>1 DEF GasEffect, RawEffect
  <2>8. CASE k = "sweep"
    <3>1. status["topup"][r] \notin Live
      BY <1>d, <2>8 DEF IndInv, GasShape
    <3>2. SweepMoved(r)
      BY <1>d, <2>1, <2>8, <3>1 DEF SweepMoved
    <3> QED BY <2>3, <2>4, <2>5, <2>6, <3>2 DEF GasEffect, RawEffect
  <2> QED BY <2>7, <2>8
<1> HIDE DEF Goal
(* A row that is not waiting for gas has no top-up under way. *)
<1>e. \A r \in Row : status["sweep"][r] # "WAITING_GAS" => status["topup"][r] \notin Live
  BY DEF IndInv, GasShape
<1>1. ASSUME NEW d \in Deposit, Credit(d) PROVE Goal
  <2>1. PICK r \in Row : Joined(r, d)
    BY <1>1, CreditEffect
  <2>2. /\ \A q \in Row \ {r} : status'["sweep"][q] = status["sweep"][q]
        /\ \A q \in Row : status'["topup"][q] = status["topup"][q]
        /\ rawTx' = rawTx
        /\ \/ status'["sweep"][r] = status["sweep"][r]
           \/ status["sweep"][r] = "none" /\ status'["sweep"][r] = "CREATED"
    BY <2>1 DEF Joined
  <2>3. \A k \in Kind, q \in Row : RawKept(k, q) /\ SettlingKept(k, q)
    BY <2>2 DEF RawKept, SettlingKept, Early, Settling
  <2>4. \A q \in Row : GasKept(q) \/ SweepMoved(q)
    BY <1>e, <2>2 DEF GasKept, SweepMoved
  <2> QED BY <2>3, <2>4 DEF Goal, GasEffect, RawEffect
<1>2. ASSUME NEW r \in Row, MarkGasReady(r) PROVE Goal
  <2>1. Turn("sweep", r, "WAITING_GAS") /\ rawTx' = rawTx /\ status["sweep"][r] = "CREATED"
    BY <1>2 DEF MarkGasReady
  <2> QED BY <1>b, <1>e, <2>1 DEF Early, Settling
<1>3. ASSUME NEW r \in Row, CreateTopup(r) PROVE Goal
  <2>1. /\ status'["sweep"][r] = "WAITING_GAS" /\ status'["topup"][r] = "SIGNING"
        /\ \A k \in Kind, q \in Row \ {r} : status'[k][q] = status[k][q]
    BY <1>0, <1>3 DEF CreateTopup
  <2>2. rawTx' = rawTx /\ status["sweep"][r] = "CREATED"
    BY <1>3 DEF CreateTopup
  <2>3. status["topup"][r] = "none"
    BY <1>0, <2>2 DEF IndInv, GasShape, Status
  <2>4. \A k \in Kind, q \in Row : RawKept(k, q) /\ SettlingKept(k, q)
    BY <2>1, <2>2, <2>3 DEF RawKept, SettlingKept, Early, Settling
  <2>5. GasCreated(r) /\ \A q \in Row \ {r} : GasKept(q)
    BY <2>1, <2>2 DEF GasCreated, GasKept
  <2> QED BY <2>4, <2>5 DEF Goal, GasEffect, RawEffect
<1>4. ASSUME NEW r \in Row, SignTopup(r) PROVE Goal
  <2> DEFINE t == [kind |-> "topup", row |-> r, amount |-> topup[r], maxFee |-> 0]
  <2>1. /\ Turn("topup", r, "SIGNED") /\ status["topup"][r] = "SIGNING"
        /\ rawTx' = [rawTx EXCEPT !["topup"][r] = {t}] /\ swept' = swept
    BY <1>4 DEF SignTopup, Unsigned
  <2>2. t.kind = "topup" /\ t.row = r
    OBVIOUS
  <2> HIDE DEF t
  <2> QED BY <1>d, <2>1, <2>2
<1>5. ASSUME NEW r \in Row, NEW seen \in SeenTokens, FailWaiting(r, seen) PROVE Goal
  <2>1. /\ Turn("sweep", r, "FAILED") /\ rawTx' = rawTx /\ status["sweep"][r] = "WAITING_GAS"
        /\ GasDone(r)
    BY <1>5 DEF FailWaiting
  <2>2. status["topup"][r] \notin Live
    BY <2>1 DEF GasDone, Live
  <2> QED BY <1>b, <2>1, <2>2 DEF Early, Settling
<1>6. ASSUME NEW r \in Row, Allocate(r) PROVE Goal
  <2>1. /\ Turn("sweep", r, "SIGNING") /\ rawTx' = rawTx /\ status["sweep"][r] = "WAITING_GAS"
        /\ GasDone(r)
    BY <1>6 DEF Allocate
  <2>2. status["topup"][r] \notin Live
    BY <2>1 DEF GasDone, Live
  <2> QED BY <1>b, <2>1, <2>2 DEF Early, Settling
<1>7. ASSUME NEW r \in Row, NEW quote \in Quotes, SignSweep(r, quote) PROVE Goal
  <2> DEFINE t == [kind |-> "sweep", row |-> r, amount |-> swept[r], maxFee |-> quote]
  <2>1. /\ Turn("sweep", r, "SIGNED") /\ status["sweep"][r] = "SIGNING"
        /\ rawTx' = [rawTx EXCEPT !["sweep"][r] = {t}] /\ swept' = swept
    BY <1>7 DEF SignSweep, Unsigned
  <2>2. t.kind = "sweep" /\ t.row = r /\ t.amount = swept[r]
    OBVIOUS
  <2> HIDE DEF t
  <2> QED BY <1>d, <2>1, <2>2
<1>8. ASSUME NEW k \in Kind, NEW r \in Row, Turn(k, r, "BROADCASTED"), status[k][r] = "SIGNED", rawTx' = rawTx
      PROVE  Goal
  <2>1. CASE k = "topup"
    BY <1>8, <1>c, <2>1 DEF Settling
  <2>2. CASE k = "sweep"
    <3>1. status["topup"][r] \notin Live
      BY <1>e, <1>8, <2>2
    <3>2. /\ Turn("sweep", r, "BROADCASTED") /\ rawTx' = rawTx
          /\ status["sweep"][r] = "SIGNED"
      BY <1>8, <2>2
    <3> QED BY <1>b, <3>1, <3>2 DEF Settling, Early
  <2> QED BY <2>1, <2>2
<1>9. ASSUME NEW k \in Kind, NEW r \in Row, UpdateConfirmations(k, r) PROVE Goal
  <2>1. status[k][r] \in Settling /\ rawTx' = rawTx /\ Turn(k, r, "CONFIRMING")
    BY <1>9 DEF UpdateConfirmations, IndInv, WorkerShape
  <2>2. CASE k = "topup"
    BY <1>c, <2>1, <2>2 DEF Settling
  <2>3. CASE k = "sweep"
    <3>1. /\ Turn("sweep", r, "CONFIRMING") /\ rawTx' = rawTx
          /\ status["sweep"][r] \in Settling
      BY <2>1, <2>3
    <3>2. status["topup"][r] \notin Live
      BY <1>e, <3>1 DEF Settling
    <3> QED BY <1>b, <3>1, <3>2 DEF Settling, Early
  <2> QED BY <2>2, <2>3
<1>10. ASSUME NEW r \in Row, NEW c \in worker["topup"].receipt, FinalizeTopup(r, c) PROVE Goal
  <2>1. /\ c \in buried /\ c.tx \in rawTx["topup"][r] /\ rawTx' = rawTx
        /\ status["topup"][r] \in Settling /\ worker'["topup"].at = "idle"
    BY <1>0, <1>10 DEF FinalizeTopup, EnoughConfirmations, IndInv, WorkerShape, Settling
  <2>2. c.tx.kind = "topup" /\ c.tx.row = r /\ status["sweep"][r] = "WAITING_GAS"
    BY <2>1 DEF IndInv, TxShape, GasShape, Settling, Live
  <2>3. /\ \A k \in Kind, q \in Row \ {r} : status'[k][q] = status[k][q]
        /\ IF c.ok THEN status'["topup"][r] = "COMPLETED" /\ status'["sweep"][r] = status["sweep"][r]
           ELSE status'["topup"][r] = "FAILED" /\ status'["sweep"][r] = "FAILED"
    <3>1. CASE c.ok
      <4>1. status' = [status EXCEPT !["topup"][r] = "COMPLETED"]
        BY <1>10, <3>1 DEF FinalizeTopup
      <4> QED BY <1>0, <3>1, <4>1
    <3>2. CASE ~ c.ok
      <4>1. status' = [status EXCEPT !["topup"][r] = "FAILED", !["sweep"][r] = "FAILED"]
        BY <1>10, <3>2 DEF FinalizeTopup
      <4> QED BY <1>0, <3>2, <4>1
    <3> QED BY <3>1, <3>2
  <2>4. GasEnded(r)
    BY <2>1, <2>2, <2>3 DEF GasEnded
  <2>5. \A q \in Row \ {r} : GasKept(q)
    BY <2>3 DEF GasKept
  <2>6. \A k \in Kind, q \in Row : RawKept(k, q)
    BY <2>1, <2>2, <2>3 DEF RawKept, Early
  <2>7. \A k \in Kind, q \in Row : SettlingKept(k, q)
    BY <2>1, <2>2, <2>3 DEF SettlingKept, Settling
  <2> QED BY <2>4, <2>5, <2>6, <2>7 DEF Goal, GasEffect, RawEffect
<1>11. ASSUME NEW r \in Row, NEW c \in worker["sweep"].receipt, NEW b \in BOOLEAN, FinalizeSweep(r, c, b)
       PROVE  Goal
  <2>1. worker'["sweep"].at = "idle" /\ status["sweep"][r] \in Settling /\ rawTx' = rawTx
    BY <1>0, <1>11 DEF FinalizeSweep, Settling
  <2>2. CASE c.ok /\ b
    <3>1. c \in buried /\ c.tx \in rawTx["sweep"][r]
      BY <1>11 DEF FinalizeSweep, EnoughConfirmations, IndInv, WorkerShape
    <3>2. c.tx.kind = "sweep" /\ c.tx.row = r /\ c.tx.amount = swept[r]
      BY <3>1 DEF IndInv, TxShape
    <3>3. Succeeded(r)
      BY <1>11, <2>1, <2>2, <3>1, <3>2 DEF FinalizeSweep, Succeeded
    <3>4. Delivered(r) /\ (Succession(r) \/ Nothing(r))
      BY <3>3, SuccessEffect
    <3>5. /\ status'["sweep"][r] = "COMPLETED"
          /\ \A q \in Row \ {r} : \/ status'["sweep"][q] = status["sweep"][q]
                                  \/ status["sweep"][q] = "none" /\ status'["sweep"][q] = "CREATED"
          /\ \A q \in Row : status'["topup"][q] = status["topup"][q]
      BY <3>4 DEF Delivered, Succession, Nothing
    <3>6. \A k \in Kind, q \in Row : RawKept(k, q) /\ SettlingKept(k, q)
      BY <2>1, <3>5 DEF RawKept, SettlingKept, Early, Settling
    <3>7. \A q \in Row : GasKept(q) \/ SweepMoved(q)
      BY <1>e, <2>1, <3>5 DEF GasKept, SweepMoved, Settling
    <3> QED BY <3>6, <3>7 DEF Goal, GasEffect, RawEffect
  <2>3. CASE ~ (c.ok /\ b)
    <3>1. Turn("sweep", r, "FAILED")
      BY <1>11, <2>3 DEF FinalizeSweep
    <3>2. status["topup"][r] \notin Live
      BY <1>e, <2>1 DEF Settling
    <3> QED BY <1>b, <2>1, <3>1, <3>2 DEF Settling, Early
  <2> QED BY <2>2, <2>3
<1>13. ASSUME NEW k \in Kind, NEW r \in Row, NEW c \in receipts, Found(k, r, c) PROVE Goal
  BY <1>8, <1>13 DEF Found
<1>14. ASSUME NEW k \in Kind, NEW r \in Row, MarkSent(k, r) PROVE Goal
  BY <1>8, <1>14 DEF MarkSent
<1>15. ASSUME NEW r \in Row, NEW quote \in Quotes, Prepare(r, quote) PROVE Goal
  BY <1>a, <1>15 DEF Prepare
<1>16. ASSUME NEW r \in Row, NEW quote \in Quotes, NEW seen \in SeenTokens, PrepareSweep(r, quote, seen)
       PROVE  Goal
  BY <1>a, <1>16 DEF PrepareSweep
<1>17. ASSUME NEW k \in Kind, NEW r \in Row, NEW t \in rawTx[k][r], NEW b \in BOOLEAN, Send(k, r, t, b)
       PROVE  Goal
  BY <1>a, <1>17 DEF Send
<1>18. ASSUME NEW k \in Kind, NEW r \in Row, NEW c \in receipts, Confirm(k, r, c) PROVE Goal
  BY <1>a, <1>18 DEF Confirm
<1>19. ASSUME NEW k \in Kind, Interrupt(k) PROVE Goal
  BY <1>a, <1>19 DEF Interrupt
<1>20. ASSUME NEW t \in mempool, NEW ok \in BOOLEAN, NEW fee \in PaidFee(t), Mine(t, ok, fee) PROVE Goal
  BY <1>a, <1>20 DEF Mine
<1>21. ASSUME NEW c \in receipts, Bury(c) \/ Reorg(c) PROVE Goal
  BY <1>a, <1>21 DEF Bury, Reorg
<1>22. ASSUME Withdraw \/ UNCHANGED vars PROVE Goal
  BY <1>a, <1>22 DEF Withdraw, vars
<1>23. Goal
  BY <1>1, <1>2, <1>3, <1>4, <1>5, <1>6, <1>7, <1>9, <1>10, <1>11, <1>13, <1>14, <1>15, <1>16,
     <1>17, <1>18, <1>19, <1>20, <1>21, <1>22, StepCases
<1> QED BY <1>23 DEF Goal

LEMMA GasShapeNext ==
  ASSUME TypeOK, IndInv, [Next]_vars
  PROVE  GasShape'
<1> SUFFICES ASSUME NEW r \in Row
             PROVE  /\ status'["topup"][r] \notin {"CREATED", "WAITING_GAS"}
                    /\ status'["topup"][r] \in Live => status'["sweep"][r] = "WAITING_GAS"
                    /\ status'["topup"][r] = "COMPLETED" => status'["sweep"][r] \notin {"none", "CREATED"}
                    /\ status'["topup"][r] = "FAILED" => status'["sweep"][r] = "FAILED" /\ rawTx'["sweep"][r] = {}
  BY DEF GasShape
<1>1. /\ status["topup"][r] \notin {"CREATED", "WAITING_GAS"}
      /\ status["topup"][r] \in Live => status["sweep"][r] = "WAITING_GAS"
      /\ status["topup"][r] = "COMPLETED" => status["sweep"][r] \notin {"none", "CREATED"}
      /\ status["topup"][r] = "FAILED" => status["sweep"][r] = "FAILED" /\ rawTx["sweep"][r] = {}
  BY DEF IndInv, GasShape
<1>2. GasEffect(r) /\ RawEffect("sweep", r)
  BY RowEffects
<1>3. status["sweep"][r] \in Early => rawTx["sweep"][r] = {}
  BY DEF IndInv, TxShape
<1> USE DEF Live, Settling
<1>4. CASE GasKept(r)
  BY <1>1, <1>2, <1>4 DEF GasKept, RawEffect, RawKept, Signing
<1>5. CASE GasCreated(r)
  BY <1>5 DEF GasCreated
<1>6. CASE GasMoved(r)
  BY <1>1, <1>6 DEF GasMoved
<1>7. CASE GasEnded(r)
  <2>1. status["sweep"][r] = "WAITING_GAS" /\ rawTx["sweep"][r] = {}
    BY <1>1, <1>3, <1>7 DEF GasEnded, Early
  <2>2. rawTx'["sweep"][r] = {}
    BY <1>2, <2>1 DEF RawEffect, RawKept, Signing
  <2> QED BY <1>7, <2>1, <2>2 DEF GasEnded
<1>8. CASE SweepMoved(r)
  BY <1>1, <1>8 DEF SweepMoved
<1> QED BY <1>2, <1>4, <1>5, <1>6, <1>7, <1>8 DEF GasEffect

(* What the network knows of. *)
Known == mempool \union {c.tx : c \in receipts}

LEMMA KnownSteps ==
  ASSUME TypeOK, [Next]_vars
  PROVE  \A t \in Known' : t \in Known \/ \E k \in Kind, r \in Row : t \in rawTx[k][r]
<1> USE DEF Known, deposits, rows, chain
<1> DEFINE Goal == \A t \in Known' : t \in Known \/ \E k \in Kind, r \in Row : t \in rawTx[k][r]
<1>1. ASSUME UNCHANGED <<mempool, receipts>> PROVE Goal
  BY <1>1
<1>2. ASSUME NEW k \in Kind, NEW r \in Row, NEW t \in rawTx[k][r], NEW b \in BOOLEAN, Send(k, r, t, b)
      PROVE  Goal
  BY <1>2 DEF Send
<1>3. ASSUME NEW t \in mempool, NEW ok \in BOOLEAN, NEW fee \in PaidFee(t), Mine(t, ok, fee) PROVE Goal
  BY <1>3 DEF Mine
<1>4. ASSUME NEW c \in receipts, Reorg(c) PROVE Goal
  BY <1>4 DEF Reorg
<1> HIDE DEF Goal
<1>5. ASSUME NEW d \in Deposit, Credit(d) PROVE Goal
  BY <1>1, <1>5 DEF Credit
<1>6. ASSUME NEW r \in Row, MarkGasReady(r) \/ CreateTopup(r) \/ SignTopup(r) \/ Allocate(r)
      PROVE  Goal
  BY <1>1, <1>6 DEF MarkGasReady, CreateTopup, SignTopup, Allocate
<1>7. ASSUME NEW r \in Row, NEW seen \in SeenTokens, FailWaiting(r, seen) PROVE Goal
  BY <1>1, <1>7 DEF FailWaiting
<1>8. ASSUME NEW r \in Row, NEW quote \in Quotes, Prepare(r, quote) \/ SignSweep(r, quote) PROVE Goal
  BY <1>1, <1>8 DEF Prepare, SignSweep
<1>9. ASSUME NEW r \in Row, NEW quote \in Quotes, NEW seen \in SeenTokens, PrepareSweep(r, quote, seen)
      PROVE  Goal
  BY <1>1, <1>9 DEF PrepareSweep
<1>10. ASSUME NEW k \in Kind, NEW r \in Row, NEW c \in receipts, Found(k, r, c) \/ Confirm(k, r, c)
       PROVE  Goal
  BY <1>1, <1>10 DEF Found, Confirm
<1>11. ASSUME NEW k \in Kind, NEW r \in Row, MarkSent(k, r) \/ UpdateConfirmations(k, r) PROVE Goal
  BY <1>1, <1>11 DEF MarkSent, UpdateConfirmations
<1>12. ASSUME NEW r \in Row, NEW c \in worker["topup"].receipt, FinalizeTopup(r, c) PROVE Goal
  BY <1>1, <1>12 DEF FinalizeTopup
<1>13. ASSUME NEW r \in Row, NEW c \in worker["sweep"].receipt, NEW b \in BOOLEAN, FinalizeSweep(r, c, b)
       PROVE  Goal
  BY <1>1, <1>13 DEF FinalizeSweep
<1>14. ASSUME NEW k \in Kind, Interrupt(k) PROVE Goal
  BY <1>1, <1>14 DEF Interrupt
<1>15. ASSUME NEW c \in receipts, Bury(c) PROVE Goal
  BY <1>1, <1>15 DEF Bury
<1>16. ASSUME Withdraw \/ UNCHANGED vars PROVE Goal
  BY <1>1, <1>16 DEF Withdraw, vars
<1>17. Goal
  BY <1>2, <1>3, <1>4, <1>5, <1>6, <1>7, <1>8, <1>9, <1>10, <1>11, <1>12, <1>13, <1>14, <1>15,
     <1>16, StepCases
<1> QED BY <1>17 DEF Goal

LEMMA SweptKept ==
  ASSUME TypeOK, IndInv, [Next]_vars, NEW r \in Row, status["sweep"][r] \notin Early
  PROVE  swept'[r] = swept[r]
<1>1. CASE Calm
  BY <1>1 DEF Calm, Kept, Moved, Fixed, Early
<1>2. ASSUME NEW d \in Deposit, Credit(d) PROVE swept'[r] = swept[r]
  BY <1>2 DEF Credit
<1>3. ASSUME NEW q \in Row, Succeeded(q) PROVE swept'[r] = swept[r]
  BY <1>3 DEF Succeeded
<1> QED BY <1>1, <1>2, <1>3, SweepSteps

LEMMA TxShapeNext ==
  ASSUME TypeOK, IndInv, [Next]_vars
  PROVE  TxShape'
<1>0. /\ \A k \in Kind, r \in Row :
           /\ status[k][r] \in Early => rawTx[k][r] = {}
           /\ \A t \in rawTx[k][r] : t.kind = k /\ t.row = r /\ rawTx[k][r] = {t}
      /\ \A r \in Row : \A t \in rawTx["sweep"][r] : t.amount = swept[r]
      /\ \A t \in mempool : t \in rawTx[t.kind][t.row]
      /\ \A c \in receipts : c.tx \in rawTx[c.tx.kind][c.tx.row]
  BY DEF IndInv, TxShape
<1>1. \A k \in Kind, r \in Row : Signing(k, r) \/ RawKept(k, r)
  BY RowEffects DEF RawEffect
<1>2. ASSUME NEW k \in Kind, NEW r \in Row
      PROVE  /\ status'[k][r] \in Early => rawTx'[k][r] = {}
             /\ \A t \in rawTx'[k][r] : t.kind = k /\ t.row = r /\ rawTx'[k][r] = {t}
             /\ rawTx[k][r] \subseteq rawTx'[k][r]
  <2>1. CASE Signing(k, r)
    <3>1. rawTx[k][r] = {} /\ status'[k][r] \notin Early
      BY <1>0, <2>1 DEF Signing, Early
    <3> QED BY <2>1, <3>1 DEF Signing
  <2>2. CASE RawKept(k, r)
    BY <1>0, <2>2 DEF RawKept
  <2> QED BY <1>1, <2>1, <2>2
<1>3. ASSUME NEW r \in Row, NEW t \in rawTx'["sweep"][r] PROVE t.amount = swept'[r]
  <2>1. CASE Signing("sweep", r)
    BY <1>3, <2>1 DEF Signing
  <2>2. CASE RawKept("sweep", r)
    <3>1. t \in rawTx["sweep"][r]
      BY <1>3, <2>2 DEF RawKept
    <3>2. status["sweep"][r] \notin Early
      BY <1>0, <3>1
    <3> QED BY <1>0, <3>1, <3>2, SweptKept
  <2> QED BY <1>1, <2>1, <2>2
<1>4. \A t \in Known' : t \in rawTx'[t.kind][t.row]
  <2>1. TAKE t \in Known'
  <2>2. PICK k \in Kind, r \in Row : t \in rawTx[k][r]
    <3>1. CASE t \in Known
      <4>1. t \in Tx
        BY <3>1 DEF Known, TypeOK, Receipt
      <4>2. t.kind \in Kind /\ t.row \in Row
        BY <4>1 DEF Tx
      <4>3. t \in rawTx[t.kind][t.row]
        BY <1>0, <3>1 DEF Known
      <4> QED BY <4>2, <4>3
    <3> QED BY <3>1, KnownSteps
  <2>3. t.kind = k /\ t.row = r
    BY <1>0, <2>2
  <2> QED BY <1>2, <2>2, <2>3
<1>5. /\ \A t \in mempool' : t \in rawTx'[t.kind][t.row]
      /\ \A c \in receipts' : c.tx \in rawTx'[c.tx.kind][c.tx.row]
  BY <1>4 DEF Known
<1> QED BY <1>2, <1>3, <1>5 DEF TxShape

LEMMA BuriedGrows ==
  ASSUME TypeOK, [Next]_vars
  PROVE  buried \subseteq buried'
<1> USE DEF deposits, rows, chain
<1>1. ASSUME NEW d \in Deposit, Credit(d) PROVE buried \subseteq buried'
  BY <1>1 DEF Credit
<1>2. CASE GasStation
  BY <1>2 DEF GasStation, GasStationStep, Prepare, MarkGasReady, CreateTopup, SignTopup, Broadcast, Found,
              Send, MarkSent, ConfirmTopup, Confirm, SettleTopup, UpdateConfirmations, FinalizeTopup
<1>3. CASE Sweeper
  BY <1>3, ZenonT(40) DEF Sweeper, SweeperStep, PrepareSweep, FailWaiting, Allocate, SignSweep, Broadcast, Found,
              Send, MarkSent, Confirm, SettleSweep, UpdateConfirmations, FinalizeSweep
<1>4. CASE (\E k \in Kind : Interrupt(k)) \/ MineAny \/ BuryAny \/ Withdraw \/ \E c \in receipts : Reorg(c)
  BY <1>4 DEF Interrupt, MineAny, Mine, BuryAny, Bury, Withdraw, Reorg
<1>5. CASE UNCHANGED vars
  BY <1>5 DEF vars
<1> QED BY <1>1, <1>2, <1>3, <1>4, <1>5 DEF Next

LEMMA TopupShapeNext ==
  ASSUME TypeOK, IndInv, [Next]_vars
  PROVE  TopupShape'
<1> SUFFICES ASSUME NEW r \in Row, status'["topup"][r] = "COMPLETED"
             PROVE  \E c \in buried' : c.ok /\ c.tx.kind = "topup" /\ c.tx.row = r
  BY DEF TopupShape
<1>1. GasEffect(r)
  BY RowEffects
<1>2. CASE status["topup"][r] = "COMPLETED"
  BY <1>2, BuriedGrows DEF IndInv, TopupShape
<1>3. CASE status["topup"][r] # "COMPLETED"
  <2>1. GasEnded(r)
    BY <1>1, <1>3 DEF GasEffect, GasKept, GasCreated, GasMoved, SweepMoved, Settling
  <2> QED BY <2>1, BuriedGrows DEF GasEnded
<1> QED BY <1>2, <1>3

LEMMA CompletedNext ==
  ASSUME TypeOK, IndInv, [Next]_vars
  PROVE  CompletedIsDelivered'
<1> SUFFICES ASSUME NEW r \in Row, status'["sweep"][r] = "COMPLETED"
             PROVE  \E c \in buried' : /\ c.ok /\ c.tx.kind = "sweep" /\ c.tx.row = r
                                       /\ c.tx.amount = swept'[r]
  BY DEF CompletedIsDelivered
<1>1. ASSUME status["sweep"][r] = "COMPLETED"
      PROVE  \E c \in buried' : /\ c.ok /\ c.tx.kind = "sweep" /\ c.tx.row = r
                                /\ c.tx.amount = swept'[r]
  <2>1. swept'[r] = swept[r]
    BY <1>1, SweptKept DEF Early
  <2> QED BY <1>1, <2>1, BuriedGrows DEF IndInv, CompletedIsDelivered
<1>2. CASE Calm
  <2>1. status["sweep"][r] = "COMPLETED"
    BY <1>2 DEF Calm, Kept, Moved, Fixed, Settling
  <2> QED BY <1>1, <2>1
<1>3. ASSUME NEW d \in Deposit, Credit(d) PROVE status["sweep"][r] = "COMPLETED"
  <2>1. PICK q \in Row : Joined(q, d)
    BY <1>3, CreditEffect
  <2> QED BY <2>1 DEF Joined
<1>4. ASSUME NEW q \in Row, Succeeded(q)
      PROVE  \E c \in buried' : /\ c.ok /\ c.tx.kind = "sweep" /\ c.tx.row = r
                                /\ c.tx.amount = swept'[r]
  <2>1. Delivered(q) /\ (Succession(q) \/ Nothing(q))
    BY <1>4, SuccessEffect
  <2>2. CASE r = q
    <3>1. swept' = swept
      BY <1>4 DEF Succeeded
    <3> QED BY <1>4, <2>2, <3>1, BuriedGrows DEF Succeeded
  <2>3. CASE r # q
    <3>1. status["sweep"][r] = "COMPLETED"
      BY <2>1, <2>3 DEF Delivered, Succession, Nothing
    <3> QED BY <1>1, <3>1
  <2> QED BY <2>2, <2>3
<1> QED BY <1>1, <1>2, <1>3, <1>4, SweepSteps

(* What a worker has in hand.  The steps that fill it do so from the row;  *)
(* over the others it holds what it held or nothing.                       *)
Holds(k) ==
  /\ worker'[k].at = "settle" =>
       /\ status'[k][worker'[k].row] \in Settling
       /\ \A c \in worker'[k].receipt : c.tx \in rawTx[k][worker'[k].row]
  /\ k = "sweep" /\ worker'[k].at = "allocate" => worker'[k].amount > 0
  /\ k = "topup" /\ worker'[k].at = "create" => worker'[k].amount <= TopupMax

LEMMA WorkerKept ==
  ASSUME TypeOK, IndInv, [Next]_vars, NEW k \in Kind, worker'[k] = worker[k]
  PROVE  Holds(k)
<1>1. worker[k].at = "settle" =>
        /\ status[k][worker[k].row] \in Settling
        /\ \A c \in worker[k].receipt : c.tx \in rawTx[k][worker[k].row]
  BY DEF IndInv, WorkerShape
<1>2. worker[k].row \in Row
  BY DEF TypeOK
<1>3. SettlingKept(k, worker[k].row)
  BY <1>2, RowEffects
<1>4. /\ worker["sweep"].at = "allocate" => worker["sweep"].amount > 0
      /\ worker["topup"].at = "create" => worker["topup"].amount <= TopupMax
  BY DEF IndInv, WorkerShape
<1> QED BY <1>1, <1>3, <1>4 DEF Holds, SettlingKept

LEMMA WorkerRests ==
  ASSUME TypeOK, IndInv, [Next]_vars, NEW k \in Kind, worker'[k].at \in {"idle", "ready", "sent"},
         \A l \in Kind \ {k} : worker'[l] = worker[l]
  PROVE  \A l \in Kind : Holds(l)
<1>1. Holds(k)
  BY DEF Holds
<1> QED BY <1>1, WorkerKept

LEMMA WorkerReads ==
  ASSUME TypeOK, IndInv, [Next]_vars, NEW k \in Kind, NEW r \in Row, NEW c,
         c.tx \in rawTx[k][r], status'[k][r] \in Settling,
         worker' = [worker EXCEPT ![k] = [Resting EXCEPT !.at = "settle", !.row = r, !.receipt = {c}]]
  PROVE  \A l \in Kind : Holds(l)
<1>0. worker \in [Kind -> [at : {"idle", "ready", "create", "allocate", "sent", "settle"},
                           row : Row, amount : Nat, receipt : SUBSET Receipt]]
  BY DEF TypeOK
<1>1. /\ worker'[k] = [Resting EXCEPT !.at = "settle", !.row = r, !.receipt = {c}]
      /\ \A l \in Kind \ {k} : worker'[l] = worker[l]
  BY <1>0
<1>2. worker'[k].at = "settle" /\ worker'[k].row = r /\ worker'[k].receipt = {c}
  BY <1>1, ZenonT(40)
<1>3. Holds(k)
  BY <1>2 DEF Holds
<1> QED BY <1>1, <1>3, WorkerKept

LEMMA WorkerShapeNext ==
  ASSUME TypeOK, IndInv, [Next]_vars
  PROVE  WorkerShape'
<1> DEFINE Goal == \A k \in Kind : Holds(k)
<1> USE DEF deposits, rows, chain
<1>0. /\ worker \in [Kind -> [at : {"idle", "ready", "create", "allocate", "sent", "settle"},
                              row : Row, amount : Nat, receipt : SUBSET Receipt]]
      /\ status \in [Kind -> [Row -> Status]]
  BY DEF TypeOK
<1>a. ASSUME worker' = worker PROVE Goal
  BY <1>a, WorkerKept
<1>b. ASSUME NEW k \in Kind, Rest(k) PROVE Goal
  <2>1. worker'[k].at = "idle" /\ \A l \in Kind \ {k} : worker'[l] = worker[l]
    BY <1>0, <1>b
  <2> QED BY <2>1, WorkerRests
<1>1. ASSUME NEW d \in Deposit, Credit(d) PROVE Goal
  BY <1>1, <1>a DEF Credit
<1>2. ASSUME NEW r \in Row, NEW quote \in Quotes, Prepare(r, quote) PROVE Goal
  <2> DEFINE short == Target(quote) - gas
  <2>1. /\ short <= TopupMax
        /\ worker' = [worker EXCEPT !["topup"] =
             [at |-> IF short > 0 THEN "create" ELSE "ready", row |-> r,
              amount |-> IF short > 0 THEN short ELSE 0, receipt |-> {}]]
    BY <1>2 DEF Prepare, WithinLimit
  <2> HIDE DEF short
  <2>2. worker'["sweep"] = worker["sweep"]
    BY <1>0, <2>1
  <2>3. CASE short > 0
    <3>1. worker'["topup"].at = "create" /\ worker'["topup"].amount = short
      BY <1>0, <2>1, <2>3
    <3> QED BY <2>1, <2>2, <3>1, WorkerKept DEF Holds
  <2>4. CASE ~ (short > 0)
    <3>1. worker'["topup"].at = "ready"
      BY <1>0, <2>1, <2>4
    <3> QED BY <2>2, <3>1, WorkerKept DEF Holds
  <2> QED BY <2>3, <2>4
<1>3. ASSUME NEW r \in Row, MarkGasReady(r) PROVE Goal
  BY <1>3, <1>b DEF MarkGasReady
<1>4. ASSUME NEW r \in Row, CreateTopup(r) PROVE Goal
  BY <1>4, <1>b DEF CreateTopup
<1>5. ASSUME NEW r \in Row, SignTopup(r) PROVE Goal
  BY <1>5, <1>a DEF SignTopup
<1>6. ASSUME NEW r \in Row, NEW quote \in Quotes, NEW seen \in SeenTokens, PrepareSweep(r, quote, seen)
      PROVE  Goal
  <2>1. seen \in Nat /\ seen > 0 /\ status["sweep"][r] # "none"
    BY <1>6 DEF PrepareSweep, SeenTokens, TypeOK
  <2>2. recognized[r] \in Nat /\ recognized[r] # 0
    BY <2>1, Fields DEF IndInv, RowShape
  <2>3. Smaller(seen, recognized[r]) > 0
    BY <2>1, <2>2 DEF Smaller
  <2>4. worker' = [worker EXCEPT !["sweep"] = [at |-> "allocate", row |-> r, receipt |-> {},
                                              amount |-> Smaller(seen, recognized[r])]]
    BY <1>6 DEF PrepareSweep
  <2>5. /\ worker'["topup"] = worker["topup"] /\ worker'["sweep"].at = "allocate"
        /\ worker'["sweep"].amount = Smaller(seen, recognized[r])
    BY <1>0, <2>4
  <2> QED BY <2>3, <2>5, WorkerKept DEF Holds
<1>7. ASSUME NEW r \in Row, NEW seen \in SeenTokens, FailWaiting(r, seen) PROVE Goal
  BY <1>7, <1>a DEF FailWaiting
<1>8. ASSUME NEW r \in Row, Allocate(r) PROVE Goal
  BY <1>8, <1>b DEF Allocate
<1>9. ASSUME NEW r \in Row, NEW quote \in Quotes, SignSweep(r, quote) PROVE Goal
  BY <1>9, <1>a DEF SignSweep
<1>10. ASSUME NEW k \in Kind, NEW r \in Row, NEW c \in receipts, Found(k, r, c) PROVE Goal
  <2>1. status'[k][r] \in Settling
    <3>1. status' = [status EXCEPT ![k][r] = "BROADCASTED"]
      BY <1>10 DEF Found
    <3> QED BY <1>0, <3>1 DEF Settling
  <2> QED BY <1>10, <2>1, WorkerReads DEF Found
<1>11. ASSUME NEW k \in Kind, NEW r \in Row, NEW t \in rawTx[k][r], NEW b \in BOOLEAN, Send(k, r, t, b)
       PROVE  Goal
  <2>1. CASE b
    <3>1. worker'[k].at = "sent" /\ \A l \in Kind \ {k} : worker'[l] = worker[l]
      BY <1>0, <1>11, <2>1 DEF Send
    <3> QED BY <3>1, WorkerRests
  <2>2. CASE ~ b
    BY <1>11, <1>a, <2>2 DEF Send
  <2> QED BY <2>1, <2>2
<1>12. ASSUME NEW k \in Kind, NEW r \in Row, MarkSent(k, r) PROVE Goal
  BY <1>12, <1>b DEF MarkSent
<1>13. ASSUME NEW k \in Kind, NEW r \in Row, NEW c \in receipts, Confirm(k, r, c) PROVE Goal
  BY <1>13, WorkerReads DEF Confirm, Settling
<1>14. ASSUME NEW k \in Kind, NEW r \in Row, UpdateConfirmations(k, r) PROVE Goal
  BY <1>14, <1>b DEF UpdateConfirmations
<1>15. ASSUME NEW r \in Row, NEW c \in worker["topup"].receipt, FinalizeTopup(r, c) PROVE Goal
  BY <1>15, <1>b DEF FinalizeTopup
<1>16. ASSUME NEW r \in Row, NEW c \in worker["sweep"].receipt, NEW b \in BOOLEAN, FinalizeSweep(r, c, b)
       PROVE  Goal
  BY <1>16, <1>b DEF FinalizeSweep
<1>17. ASSUME NEW k \in Kind, Interrupt(k) PROVE Goal
  BY <1>17, <1>b DEF Interrupt
<1>18. ASSUME NEW t \in mempool, NEW ok \in BOOLEAN, NEW fee \in PaidFee(t), Mine(t, ok, fee) PROVE Goal
  BY <1>18, <1>a DEF Mine
<1>19. ASSUME NEW c \in receipts, Bury(c) PROVE Goal
  BY <1>19, <1>a DEF Bury
<1>20. ASSUME NEW c \in receipts, Reorg(c) PROVE Goal
  BY <1>20, <1>a DEF Reorg
<1>21. ASSUME Withdraw PROVE Goal
  BY <1>21, <1>a DEF Withdraw
<1>22. ASSUME UNCHANGED vars PROVE Goal
  BY <1>22, <1>a DEF vars
<1> HIDE DEF Goal
<1>23. Goal
  BY <1>1, <1>2, <1>3, <1>4, <1>5, <1>6, <1>7, <1>8, <1>9, <1>10, <1>11, <1>12, <1>13, <1>14,
     <1>15, <1>16, <1>17, <1>18, <1>19, <1>20, <1>21, <1>22, StepCases
<1>24. \A k \in Kind, r \in Row : rawTx[k][r] \subseteq rawTx'[k][r]
  <2>1. TAKE k \in Kind, r \in Row
  <2>2. RawEffect(k, r) /\ (status[k][r] \in Early => rawTx[k][r] = {})
    BY RowEffects DEF IndInv, TxShape
  <2> QED BY <2>2 DEF RawEffect, Signing, RawKept, Early
<1>25. \A k \in Kind : worker'[k].row \in Row
  BY NextType DEF TypeOK
<1> QED BY <1>23, <1>24, <1>25 DEF Goal, Holds, WorkerShape

-----------------------------------------------------------------------------
(***************************************************************************)
(* What was sent, from the shape of the transactions.                      *)
(***************************************************************************)
LEMMA SentFromShape == TypeOK /\ TxShape => SentIsRecorded
<1> SUFFICES ASSUME TypeOK, TxShape, NEW k \in Kind, NEW r \in Row, Sent(k, r) # {}
             PROVE  Sent(k, r) = rawTx[k][r] /\ status[k][r] \notin Early
  BY DEF SentIsRecorded, Early
<1>1. \A t \in Sent(k, r) : t \in rawTx[k][r]
  BY DEF Sent, TxShape
<1>2. PICK t \in Sent(k, r) : t \in rawTx[k][r]
  BY <1>1
<1>3. rawTx[k][r] = {t} /\ status[k][r] \notin Early
  BY <1>2 DEF TxShape
<1> QED BY <1>1, <1>2, <1>3

LEMMA GasFromShape == TypeOK /\ TxShape /\ GasShape /\ TopupShape /\ SentIsRecorded => GasBeforeSweep
<1> SUFFICES ASSUME TypeOK, TxShape, GasShape, TopupShape, SentIsRecorded,
                    NEW r \in Row, Sent("sweep", r) # {}, status["topup"][r] # "none"
             PROVE  \E c \in buried : c.ok /\ c.tx.kind = "topup" /\ c.tx.row = r
  BY DEF GasBeforeSweep
<1>1. rawTx["sweep"][r] # {} /\ status["sweep"][r] # "WAITING_GAS"
  BY DEF SentIsRecorded
<1>2. status["topup"][r] \notin Live /\ status["topup"][r] # "FAILED" /\ status["topup"][r] \in Status
  BY <1>1, Fields DEF GasShape
<1>3. status["topup"][r] = "COMPLETED"
  BY <1>2 DEF Status
<1> QED BY <1>3 DEF TopupShape

LEMMA InitInv == Init => IndInv
<1> SUFFICES ASSUME Init PROVE IndInv
  OBVIOUS
<1>0. TypeOK
  BY InitType
<1>1. /\ \A k \in Kind, r \in Row : status[k][r] = "none" /\ rawTx[k][r] = {}
      /\ \A r \in Row : recognized[r] = 0 /\ swept[r] = 0
      /\ \A k \in Kind : worker[k].at = "idle"
  BY DEF Init
<1>2. NextRow = 1
  <2>1. Used = {}
    BY <1>1 DEF Used
  <2> QED BY <2>1, UsedFinite, FS_EmptySet
<1>3. RowShape
  <2>1. \A r \in Row : r >= 1 /\ r \in Nat
    BY Units
  <2>2. LiveRows = {}
    BY <1>1 DEF LiveRows, Live
  <2> QED BY <1>1, <1>2, <2>1, <2>2 DEF RowShape
<1>4. CreditShape
  BY Units DEF Init, CreditShape
<1>5. GasShape /\ TopupShape /\ CompletedIsDelivered
  BY <1>1 DEF GasShape, TopupShape, CompletedIsDelivered, Live
<1>6. TxShape
  BY <1>1 DEF Init, TxShape
<1>7. WorkerShape
  BY <1>1 DEF WorkerShape
<1>8. RecognizedOnce
  <2>1. [r \in Row |-> Share(r)] = [r \in 1 .. Received |-> 0]
    BY <1>1, Units DEF Share
  <2> QED BY <2>1, Units, TotalZero DEF Init, RecognizedOnce
<1>9. SentIsRecorded
  BY <1>0, <1>6, SentFromShape
<1>10. GasBeforeSweep
  BY <1>0, <1>5, <1>6, <1>9, GasFromShape
<1> QED BY <1>3, <1>4, <1>5, <1>6, <1>7, <1>8, <1>9, <1>10 DEF IndInv

LEMMA NextInv == TypeOK /\ IndInv /\ [Next]_vars => IndInv'
<1> SUFFICES ASSUME TypeOK, IndInv, [Next]_vars PROVE IndInv'
  OBVIOUS
<1>1. TypeOK' /\ TxShape' /\ GasShape' /\ TopupShape'
  BY NextType, TxShapeNext, GasShapeNext, TopupShapeNext
<1>2. SentIsRecorded'
  <2>1. (TypeOK /\ TxShape => SentIsRecorded)'
    BY SentFromShape, PTL
  <2> QED BY <1>1, <2>1
<1>3. GasBeforeSweep'
  <2>1. (TypeOK /\ TxShape /\ GasShape /\ TopupShape /\ SentIsRecorded => GasBeforeSweep)'
    BY GasFromShape, PTL
  <2> QED BY <1>1, <1>2, <2>1
<1> QED BY <1>1, <1>2, <1>3, RowShapeNext, CreditShapeNext, WorkerShapeNext, RecognizedOnceNext,
           CompletedNext DEF IndInv

-----------------------------------------------------------------------------
(***************************************************************************)
(* The theorems.                                                           *)
(***************************************************************************)

(* The inductive invariant: rows are used in order and at most one is      *)
(* live, what is credited is shared out to the rows, a transaction is      *)
(* stored once and the network knows no other, a sweep waits for the       *)
(* top-up it has, and a worker about to settle a row has the receipt of    *)
(* its transaction.                                                        *)
THEOREM Inductive == Spec => [](TypeOK /\ IndInv)
BY InitType, InitInv, NextType, NextInv, PTL DEF Spec

(* Type correctness: the balances stay natural, and no row is recognised,  *)
(* swept or topped up beyond its bound.                                    *)
THEOREM TypeCorrect == Spec => []TypeOK
BY Inductive, PTL

(* CreditTokenDeposit and FinalizeTokenSweep together: every unit credited *)
(* is delivered by one completed sweep or recognised by one other, however *)
(* deposits fall between the steps of the worker.                          *)
THEOREM UnitsRecognizedOnce == Spec => []RecognizedOnce
<1>1. IndInv => RecognizedOnce
  BY DEF IndInv
<1> QED BY <1>1, Inductive, PTL

(* FinalizeTokenSweep: a completed sweep has its transfer, of its amount,  *)
(* in a block that stays.                                                  *)
THEOREM CompletedAreDelivered == Spec => []CompletedIsDelivered
<1>1. IndInv => CompletedIsDelivered
  BY DEF IndInv
<1> QED BY <1>1, Inductive, PTL

(* SaveSignedTokenSweep and SaveSignedInternalTransfer before broadcast:   *)
(* the network has at most the one stored transaction of a row, over lost  *)
(* replies and restarts.                                                   *)
THEOREM RecordedBeforeSent == Spec => []SentIsRecorded
<1>1. IndInv => SentIsRecorded
  BY DEF IndInv
<1> QED BY <1>1, Inductive, PTL

(* Once signed, the transaction of a sweep or a top-up is never replaced:  *)
(* the workers build one only for a row that is SIGNING, and retries send  *)
(* the stored bytes.                                                       *)
THEOREM SameBytes ==
  Spec => [][\A k \in Kind, r \in Row : rawTx[k][r] # {} => rawTx'[k][r] = rawTx[k][r]]_vars
<1>1. TypeOK /\ IndInv /\ [Next]_vars
        => [\A k \in Kind, r \in Row : rawTx[k][r] # {} => rawTx'[k][r] = rawTx[k][r]]_vars
  <2> SUFFICES ASSUME TypeOK, IndInv, [Next]_vars, NEW k \in Kind, NEW r \in Row, rawTx[k][r] # {}
               PROVE  rawTx'[k][r] = rawTx[k][r]
    OBVIOUS
  <2>1. RawEffect(k, r)
    BY RowEffects
  <2>2. ~ Signing(k, r)
    BY DEF Signing, IndInv, TxShape, Early
  <2> QED BY <2>1, <2>2 DEF RawEffect, RawKept
<1> QED BY <1>1, Inductive, PTL DEF Spec

SweepFinal(r) == Ended(r) => UNCHANGED <<status["sweep"][r], recognized[r], swept[r]>>
TopupFinal(r) == status["topup"][r] \in {"COMPLETED", "FAILED"} => UNCHANGED status["topup"][r]

(* What was recognised and swept by a row that ended is settled: no worker *)
(* reopens a sweep or a top-up that ended, although UpdateConfirmations    *)
(* writes a status without looking at it, no credit joins an ended sweep,  *)
(* and its amounts stay.                                                   *)
THEOREM NoneReopened == Spec => [][\A r \in Row : SweepFinal(r) /\ TopupFinal(r)]_vars
<1>1. TypeOK /\ IndInv /\ [Next]_vars => [\A r \in Row : SweepFinal(r) /\ TopupFinal(r)]_vars
  <2> SUFFICES ASSUME TypeOK, IndInv, [Next]_vars, NEW r \in Row
               PROVE  SweepFinal(r) /\ TopupFinal(r)
    OBVIOUS
  <2>1. TopupFinal(r)
    <3>1. GasEffect(r)
      BY RowEffects
    <3>2. /\ status["topup"][r] = "COMPLETED" => status["sweep"][r] # "CREATED"
          /\ status["topup"][r] = "FAILED" => status["sweep"][r] = "FAILED"
      BY DEF IndInv, GasShape
    <3> QED BY <3>1, <3>2 DEF TopupFinal, GasEffect, GasKept, GasCreated, GasMoved, GasEnded, SweepMoved, Settling
  <2>2. CASE Calm
    <3>1. recognized' = recognized /\ (Kept(r) \/ Moved(r) \/ Fixed(r))
      BY <2>2 DEF Calm
    <3> QED BY <2>1, <3>1 DEF SweepFinal, Kept, Moved, Fixed, Ended, Settling
  <2>3. ASSUME NEW d \in Deposit, Credit(d) PROVE SweepFinal(r)
    <3>1. PICK q \in Row : Joined(q, d)
      BY <2>3, CreditEffect
    <3>2. swept' = swept /\ (Ended(r) => r # q)
      BY <3>1 DEF Joined, Ended, Live
    <3> QED BY <3>1, <3>2 DEF SweepFinal, Joined
  <2>4. ASSUME NEW q \in Row, Succeeded(q) PROVE SweepFinal(r)
    <3>1. Delivered(q) /\ (Succession(q) \/ Nothing(q))
      BY <2>4, SuccessEffect
    <3>2. swept' = swept /\ (Ended(r) => r # q)
      BY <3>1 DEF Delivered, Ended, Settling
    <3>3. Succession(q) /\ Ended(r) => r # NextRow
      BY DEF Succession, Ended
    <3> QED BY <3>1, <3>2, <3>3 DEF SweepFinal, Succession, Nothing
  <2> QED BY <2>1, <2>2, <2>3, <2>4, SweepSteps
<1> QED BY <1>1, Inductive, PTL DEF Spec

(* The claim of a WAITING_GAS sweep: one that needed a top-up is sent only *)
(* when the top-up is buried.                                              *)
THEOREM GasArrivesFirst == Spec => []GasBeforeSweep
<1>1. IndInv => GasBeforeSweep
  BY DEF IndInv
<1> QED BY <1>1, Inductive, PTL
=============================================================================
