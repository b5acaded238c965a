-------------------------- MODULE EthDepositProofs --------------------------
(***************************************************************************)
(* Theorems about EthDeposit for every number of deposits and top-ups,     *)
(* every amount, every number of confirmations and every batch size: that  *)
(* no deposit is passed over, that no top-up is credited, that the two     *)
(* balances are the sums of the rows, and that the scanner implements      *)
(* Crediting.                                                              *)
(***************************************************************************)
EXTENDS EthDeposit, SumsProofs, SequenceTheorems

NumTransfers == NumDeposits + NumTopups

LEMMA Constants ==
  /\ NumDeposits \in Nat /\ NumTopups \in Nat /\ NumTransfers \in Nat
  /\ Transfer = 1 .. NumTransfers /\ Amount \in [1 .. NumTransfers -> Nat]
  /\ Deposit \intersect Topup = {}
  /\ Confirmations \in Nat /\ Confirmations > 0 /\ BatchSize \in Nat /\ BatchSize > 0
<1>1. Transfer = 1 .. NumTransfers
  BY DepositConstantsAssumption DEF Transfer, Deposit, Topup, NumTransfers
<1> QED
  BY <1>1, DepositConstantsAssumption DEF Deposit, Topup, NumTransfers

LEMMA AmountIsSum == ASSUME NEW S PROVE AmountOf(S) = SumOver(S, Amount, NumTransfers)
BY Constants DEF AmountOf, SumOver, NumTransfers

(* The sums of amounts the steps of the scanner change. *)
LEMMA Amounts ==
  /\ \A S : AmountOf(S) \in Nat
  /\ \A S \in SUBSET Transfer : AmountOf(S) <= AmountOf(Transfer)
  /\ \A S, T : S \intersect T = {} => AmountOf(S \union T) = AmountOf(S) + AmountOf(T)
  /\ \A t \in Transfer : AmountOf({t}) = Amount[t] /\ Amount[t] \in Nat
  /\ AmountOf({}) = 0
<1> USE Constants, AmountIsSum
<1>1. \A S : AmountOf(S) \in Nat
  BY SumOverType
<1>2. ASSUME NEW S \in SUBSET Transfer PROVE AmountOf(S) <= AmountOf(Transfer)
  BY SumOverSubset
<1>3. ASSUME NEW S, NEW T, S \intersect T = {}
      PROVE  AmountOf(S \union T) = AmountOf(S) + AmountOf(T)
  BY <1>3, SumOverUnion
<1>4. ASSUME NEW t \in Transfer PROVE AmountOf({t}) = Amount[t] /\ Amount[t] \in Nat
  BY SumOverOne
<1>5. AmountOf({}) = 0
  BY SumOverNone
<1> QED BY <1>1, <1>2, <1>3, <1>4, <1>5

(* Moving t from one set of rows to the other moves its amount. *)
LEMMA AmountWithout ==
  ASSUME NEW S, NEW t \in Transfer, t \in S
  PROVE  AmountOf(S \ {t}) = AmountOf(S) - Amount[t]
<1>1. S = (S \ {t}) \union {t} /\ (S \ {t}) \intersect {t} = {}
  OBVIOUS
<1>2. AmountOf(S) = AmountOf(S \ {t}) + AmountOf({t})
  BY <1>1, Amounts
<1>3. AmountOf(S \ {t}) \in Nat /\ AmountOf({t}) = Amount[t] /\ Amount[t] \in Nat
  BY Amounts
<1> QED BY <1>2, <1>3

(* The steps of Next by name: a step proof has one case for each. *)
LEMMA StepCases ==
  ASSUME [Next]_vars, NEW ACTION Case,
    \A latest \in 0 .. Len(chain) : Begin(latest) => Case,
    Read => Case,
    \A b \in scanner.block : Record(b) => Case,
    List => Case,
    \A t \in Transfer : Wait(t) => Case,
    \A t \in Transfer : Verify(t) => Case,
    \A t \in Transfer : Credit(t) => Case,
    Interrupt => Case,
    \A t \in Topup : SaveTopup(t) => Case,
    \A S \in SUBSET Transfer : Extend(S) => Case,
    Reorg => Case,
    UNCHANGED vars => Case
  PROVE Case
BY DEF Next, Scan

(* What the chain is after a block more or less, and the checkpoint after  *)
(* a block is recorded.                                                    *)
LEMMA Extended ==
  ASSUME TypeOK, nextHash > 0, NEW S \in SUBSET Transfer, Extend(S)
  PROVE  /\ chain' \in Seq(Block) /\ Len(chain) \in Nat /\ Len(chain') = Len(chain) + 1
         /\ \A n \in 1 .. Len(chain) : chain'[n] = chain[n]
         /\ chain'[Len(chain) + 1] = [hash |-> nextHash, txs |-> S]
         /\ chain'[Len(chain) + 1].hash = nextHash
         /\ nextHash' = nextHash + 1
<1> DEFINE b == [hash |-> nextHash, txs |-> S]
<1>1. chain \in Seq(Block) /\ chain' = Append(chain, b) /\ nextHash' = nextHash + 1 /\ b \in Block
  BY DEF TypeOK, Extend, Block
<1> HIDE DEF b
<1>2. Len(chain) \in Nat
  BY <1>1, LenProperties
<1>3. /\ chain' \in Seq(Block) /\ Len(chain') = Len(chain) + 1
      /\ \A n \in 1 .. Len(chain) : chain'[n] = chain[n]
      /\ chain'[Len(chain) + 1] = b
  BY <1>1, AppendProperties
<1>4. b.hash = nextHash
  BY DEF b
<1> QED BY <1>1, <1>2, <1>3, <1>4 DEF b

LEMMA Reorged ==
  ASSUME TypeOK, Reorg
  PROVE  /\ chain' \in Seq(Block) /\ Len(chain) \in Nat /\ Len(chain') = Len(chain) - 1
         /\ Len(chain) > 0
         /\ \A n \in 1 .. Len(chain') : chain'[n] = chain[n]
<1>1. chain \in Seq(Block) /\ chain' = SubSeq(chain, 1, Len(chain) - 1) /\ Len(chain) > final /\ final \in 0 .. Len(chain)
  BY DEF TypeOK, Reorg
<1>2. Len(chain) \in Nat /\ Len(chain) > 0
  BY <1>1, LenProperties
<1>3. \A i \in 1 .. Len(chain) - 1 : chain[i] \in Block
  BY <1>1, <1>2, ElementOfSeq
<1> DEFINE m == Len(chain) - 1
<1>4. m \in Nat
  BY <1>2
<1> HIDE DEF m
<1>5. /\ SubSeq(chain, 1, m) \in Seq(Block)
      /\ Len(SubSeq(chain, 1, m)) = IF 1 <= m THEN m - 1 + 1 ELSE 0
      /\ \A i \in 1 .. m - 1 + 1 : SubSeq(chain, 1, m)[i] = chain[1 + i - 1]
  BY <1>3, <1>4, SubSeqProperties DEF m
<1>6. SubSeq(chain, 1, m) \in Seq(Block) /\ Len(SubSeq(chain, 1, m)) = m
  BY <1>4, <1>5
<1>7. \A i \in 1 .. m : SubSeq(chain, 1, m)[i] = chain[i]
  BY <1>4, <1>5
<1>8. chain' = SubSeq(chain, 1, m)
  BY <1>1 DEF m
<1>9. chain' \in Seq(Block) /\ Len(chain') = m /\ \A n \in 1 .. m : chain'[n] = chain[n]
  BY <1>6, <1>7, <1>8
<1> QED BY <1>2, <1>9 DEF m

LEMMA Recorded ==
  ASSUME TypeOK, NEW b \in scanner.block, Record(b)
  PROVE  /\ scanned' \in Seq(Nat \ {0}) /\ Len(scanned) \in Nat /\ Len(scanned') = Len(scanned) + 1
         /\ \A n \in 1 .. Len(scanned) : scanned'[n] = scanned[n]
         /\ scanned'[Len(scanned) + 1] = b.hash
         /\ b \in Block
<1>1. scanned \in Seq(Nat \ {0}) /\ scanned' = Append(scanned, b.hash) /\ b \in Block /\ b.hash \in Nat \ {0}
  BY DEF TypeOK, Record, Block
<1>2. Len(scanned) \in Nat
  BY <1>1, LenProperties
<1> QED BY <1>1, <1>2, AppendProperties

-----------------------------------------------------------------------------
(***************************************************************************)
(* The parts of the inductive invariant, one lemma each.                   *)
(***************************************************************************)
LEMMA Lengths == TypeOK => Len(chain) \in Nat /\ Len(scanned) \in Nat
BY LenProperties DEF TypeOK

LEMMA BlockAt == TypeOK => \A n \in 1 .. Len(chain) : chain[n] \in Block
BY ElementOfSeq DEF TypeOK

LEMMA InitIndInv == Init => TypeOK /\ IndInv
<1> SUFFICES ASSUME Init PROVE TypeOK /\ IndInv
  OBVIOUS
<1>1. Len(<<>>) = 0 /\ <<>> \in Seq(Block) /\ <<>> \in Seq(Nat \ {0})
  OBVIOUS
<1>2. TypeOK
  <2>1. available \in 0 .. AmountOf(Transfer) /\ pendingDeposit \in 0 .. AmountOf(Transfer)
    BY Amounts DEF Init
  <2>2. scanner \in [at : {"idle", "scan", "record", "list", "check", "credit", "stopped"},
                      latest : Nat, last : Nat, block : SUBSET Block,
                      todo : SUBSET Transfer, deposit : Nat]
    BY DEF Init, Resting
  <2>3. seenAt \in [Transfer -> 0 .. Len(scanned)] /\ final \in 0 .. Len(chain)
    BY <1>1 DEF Init
  <2> QED BY <1>1, <2>1, <2>2, <2>3 DEF TypeOK, Init
<1>3. ChainShape /\ NoneSkipped
  BY <1>1 DEF ChainShape, NoneSkipped, Init
<1>4. HeightsShape
  BY <1>1, Constants DEF HeightsShape, Init, Resting
<1>5. RowShape /\ ScannerShape
  BY DEF RowShape, ScannerShape, Init, Resting
<1>6. BooksShape
  <2>1. {t \in Transfer : status[t] = "CONFIRMING"} = {} /\ {t \in Transfer : status[t] = "CREDITED"} = {}
    BY DEF Init
  <2> QED BY <2>1, Amounts DEF BooksShape, Init
<1>7. TopupsNotCredited
  BY DEF TopupsNotCredited, Init, Transfer
<1> QED BY <1>2, <1>3, <1>4, <1>5, <1>6, <1>7 DEF IndInv

LEMMA NextChainShape ==
  ASSUME TypeOK, IndInv, [Next]_vars
  PROVE  ChainShape'
<1> USE DEF node, rows
<1>0. /\ nextHash \in Nat /\ nextHash > 0 /\ Len(chain) \in Nat /\ Len(scanned) \in Nat
      /\ \A n \in 1 .. Len(chain) : chain[n].hash \in Nat
      /\ ChainShape
  BY Lengths, BlockAt DEF TypeOK, IndInv, ChainShape, Block
<1>1. ASSUME UNCHANGED <<chain, nextHash, internal, scanned>> PROVE ChainShape'
  BY <1>0, <1>1 DEF ChainShape, Known
<1>2. ASSUME NEW b \in scanner.block, Record(b) PROVE ChainShape'
  <2>1. /\ Len(scanned') = Len(scanned) + 1 /\ scanned'[Len(scanned) + 1] = b.hash
        /\ \A n \in 1 .. Len(scanned) : scanned'[n] = scanned[n]
    BY <1>2, Recorded
  <2>2. b.hash < nextHash
    BY <1>2 DEF IndInv, ScannerShape
  <2>3. \A n \in 1 .. Len(scanned') : scanned'[n] < nextHash
    BY <1>0, <2>1, <2>2 DEF ChainShape
  <2> QED BY <1>0, <1>2, <2>3 DEF Record, ChainShape, Known
<1>3. ASSUME NEW t \in Topup, SaveTopup(t) PROVE ChainShape'
  BY <1>0, <1>3 DEF SaveTopup, ChainShape, Known
<1>4. ASSUME NEW S \in SUBSET Transfer, Extend(S) PROVE ChainShape'
  <2>1. /\ Len(chain') = Len(chain) + 1 /\ nextHash' = nextHash + 1
        /\ chain'[Len(chain) + 1] = [hash |-> nextHash, txs |-> S]
        /\ \A n \in 1 .. Len(chain) : chain'[n] = chain[n]
    BY <1>0, <1>4, Extended
  <2>2. Known(S)
    BY <1>4, Constants DEF Extend, Known, SentTopups
  <2>3. internal' = internal /\ scanned' = scanned
    BY <1>4 DEF Extend
  <2>4. \A n \in 1 .. Len(chain') : chain'[n].hash < nextHash' /\ Known(chain'[n].txs)
    BY <1>0, <2>1, <2>2 DEF ChainShape
  <2>5. \A m, n \in 1 .. Len(chain') : chain'[m].hash = chain'[n].hash => m = n
    BY <1>0, <2>1, SMTT(40) DEF ChainShape
  <2>6. \A n \in 1 .. Len(scanned) : scanned[n] < nextHash'
    <3>1. \A n \in 1 .. Len(scanned) : scanned[n] \in Nat
      BY ElementOfSeq DEF TypeOK
    <3> QED BY <1>0, <2>1, <3>1 DEF ChainShape
  <2> QED BY <1>0, <2>1, <2>3, <2>4, <2>5, <2>6 DEF ChainShape, Known
<1>5. ASSUME Reorg PROVE ChainShape'
  <2>1. /\ Len(chain') = Len(chain) - 1 /\ Len(chain) > 0
        /\ \A n \in 1 .. Len(chain') : chain'[n] = chain[n]
    BY <1>5, Reorged
  <2>2. \A n \in 1 .. Len(chain') : n \in 1 .. Len(chain)
    BY <1>0, <2>1
  <2>3. UNCHANGED <<nextHash, internal, scanned>>
    BY <1>5 DEF Reorg
  <2> QED BY <1>0, <2>1, <2>2, <2>3 DEF ChainShape, Known
<1> HIDE DEF node, rows
<1> QED BY <1>1, <1>2, <1>3, <1>4, <1>5, StepCases
        DEF node, rows, vars, Begin, Read, List, Wait, Verify, Credit, Interrupt

LEMMA NextHeightsShape ==
  ASSUME TypeOK, IndInv, [Next]_vars
  PROVE  HeightsShape'
<1>0. /\ Len(chain) \in Nat /\ final \in Nat /\ final <= Len(chain) /\ Confirmations \in Nat /\ Confirmations > 0
      /\ Len(chain) + 1 - Confirmations <= final /\ scanner.latest + 1 - Confirmations <= final
      /\ scanner.latest \in Nat /\ nextHash > 0
  BY Lengths, Constants DEF TypeOK, IndInv, HeightsShape, ChainShape
<1>1. ASSUME UNCHANGED <<chain, final>>, scanner'.latest \in {0, scanner.latest} PROVE HeightsShape'
  BY <1>0, <1>1 DEF HeightsShape
<1>2. ASSUME NEW latest \in 0 .. Len(chain), Begin(latest) PROVE HeightsShape'
  <2>1. scanner'.latest = latest /\ UNCHANGED <<chain, final>>
    BY <1>2 DEF Begin, Resting, node
  <2> QED BY <1>0, <2>1 DEF HeightsShape
<1>3. ASSUME NEW S \in SUBSET Transfer, Extend(S) PROVE HeightsShape'
  <2>1. Len(chain') = Len(chain) + 1
    BY <1>0, <1>3, Extended
  <2>2. final' = Larger(final, Len(chain) + 2 - Confirmations) /\ scanner' = scanner
    BY <1>3 DEF Extend
  <2>3. final' >= final /\ final' >= Len(chain) + 2 - Confirmations /\ final' \in Nat
    BY <1>0, <2>2 DEF Larger
  <2> QED BY <1>0, <2>1, <2>2, <2>3 DEF HeightsShape
<1>4. ASSUME Reorg PROVE HeightsShape'
  <2>1. Len(chain') = Len(chain) - 1
    BY <1>4, Reorged
  <2>2. final' = final /\ scanner' = scanner
    BY <1>4 DEF Reorg
  <2> QED BY <1>0, <2>1, <2>2 DEF HeightsShape
<1>5. Resting.latest = 0
  BY DEF Resting
<1>6. \A t \in Transfer : After(t).latest \in {0, scanner.latest}
  BY <1>5 DEF After, TypeOK
<1>7. ASSUME NEW t \in Transfer, Verify(t) \/ Wait(t) \/ Credit(t) PROVE HeightsShape'
  BY <1>1, <1>5, <1>6, <1>7 DEF Verify, Wait, Credit, node, TypeOK, Resting
<1>8. ASSUME Read \/ List \/ Interrupt \/ (\E b \in scanner.block : Record(b)) PROVE HeightsShape'
  BY <1>1, <1>5, <1>8 DEF Read, List, Interrupt, Record, node, TypeOK
<1>9. ASSUME (\E t \in Topup : SaveTopup(t)) \/ UNCHANGED vars PROVE HeightsShape'
  BY <1>1, <1>9 DEF SaveTopup, node, vars
<1> QED BY <1>2, <1>3, <1>4, <1>7, <1>8, <1>9, StepCases

(* No step takes a transfer out of the blocks that will not be replaced.   *)
LEMMA SettledGrows ==
  ASSUME TypeOK, IndInv, [Next]_vars
  PROVE  Settled \subseteq Settled'
<1>0. Len(chain) \in Nat /\ final \in Nat /\ final <= Len(chain) /\ Confirmations \in Nat /\ nextHash > 0
  BY Lengths, Constants DEF TypeOK, IndInv, ChainShape
<1>1. ASSUME UNCHANGED node PROVE Settled \subseteq Settled'
  BY <1>1 DEF Settled, node
<1>2. ASSUME NEW S \in SUBSET Transfer, Extend(S) PROVE Settled \subseteq Settled'
  <2>1. \A n \in 1 .. Len(chain) : chain'[n] = chain[n]
    BY <1>0, <1>2, Extended
  <2>2. final' \in Int /\ final <= final'
    BY <1>0, <1>2 DEF Extend, Larger
  <2>3. \A n \in 1 .. final : n \in 1 .. final' /\ chain'[n] = chain[n]
    BY <1>0, <2>1, <2>2
  <2> QED BY <2>3 DEF Settled
<1>3. ASSUME Reorg PROVE Settled \subseteq Settled'
  <2>1. /\ Len(chain') = Len(chain) - 1 /\ \A n \in 1 .. Len(chain') : chain'[n] = chain[n]
        /\ final' = final /\ Len(chain) > final
    BY <1>3, Reorged DEF Reorg
  <2>2. \A n \in 1 .. final : chain'[n] = chain[n]
    BY <1>0, <2>1
  <2> QED BY <2>1, <2>2 DEF Settled
<1> QED BY <1>1, <1>2, <1>3, StepCases
        DEF vars, Begin, Read, List, Record, Wait, Verify, Credit, Interrupt, SaveTopup

LEMMA NextRowShape ==
  ASSUME TypeOK, IndInv, [Next]_vars
  PROVE  RowShape'
<1>0. /\ nextHash \in Nat /\ nextHash > 0 /\ Len(chain) \in Nat /\ Len(scanned) \in Nat
      /\ \A t \in Transfer : seenAt[t] \in Nat /\ seenHash[t] \in Nat
      /\ RowShape
  BY Lengths DEF TypeOK, IndInv, ChainShape
<1>1. ASSUME UNCHANGED <<chain, nextHash, status, seenAt, seenHash>> PROVE RowShape'
  BY <1>0, <1>1 DEF RowShape
<1>2. ASSUME NEW b \in scanner.block, Record(b) PROVE RowShape'
  <2>1. b.hash < nextHash /\ \A n \in 1 .. Len(chain) : chain[n].hash = b.hash => chain[n] = b
    BY DEF IndInv, ScannerShape
  <2>2. chain' = chain /\ nextHash' = nextHash
    BY <1>2 DEF Record, node
  <2>3. ASSUME NEW t \in Transfer, status'[t] # "none"
        PROVE  /\ seenAt'[t] > 0 /\ seenHash'[t] < nextHash
               /\ \A n \in 1 .. Len(chain) : chain[n].hash = seenHash'[t] => t \in chain[n].txs
    <3>1. CASE t \in Observed(b) /\ status[t] = "none"
      <4>1. seenAt'[t] = Len(scanned) + 1 /\ seenHash'[t] = b.hash /\ t \in b.txs
        BY <1>2, <3>1 DEF Record, Observed, NextHeight
      <4> QED BY <1>0, <2>1, <4>1
    <3>2. CASE ~ (t \in Observed(b) /\ status[t] = "none")
      <4>1. status'[t] = status[t] /\ seenAt'[t] = seenAt[t] /\ seenHash'[t] = seenHash[t]
        BY <1>2, <3>2 DEF Record
      <4> QED BY <1>0, <2>3, <4>1 DEF RowShape
    <3> QED BY <3>1, <3>2
  <2> QED BY <2>2, <2>3 DEF RowShape
<1>3. ASSUME NEW t \in Transfer, Credit(t) PROVE RowShape'
  <2>1. /\ UNCHANGED <<chain, nextHash, seenAt, seenHash>>
        /\ \A u \in Transfer : status'[u] # "none" => status[u] # "none"
    BY <1>3 DEF Credit, Confirming, node, TypeOK
  <2> QED BY <1>0, <2>1 DEF RowShape
<1>4. ASSUME NEW S \in SUBSET Transfer, Extend(S) PROVE RowShape'
  <2>1. /\ Len(chain') = Len(chain) + 1 /\ nextHash' = nextHash + 1
        /\ chain'[Len(chain) + 1].hash = nextHash
        /\ \A n \in 1 .. Len(chain) : chain'[n] = chain[n]
    BY <1>0, <1>4, Extended
  <2>2. UNCHANGED <<status, seenAt, seenHash>>
    BY <1>4 DEF Extend, rows
  <2> QED BY <1>0, <2>1, <2>2 DEF RowShape
<1>5. ASSUME Reorg PROVE RowShape'
  <2>1. /\ Len(chain') = Len(chain) - 1 /\ \A n \in 1 .. Len(chain') : chain'[n] = chain[n]
        /\ UNCHANGED <<nextHash, status, seenAt, seenHash>>
    BY <1>5, Reorged DEF Reorg, rows
  <2>2. \A n \in 1 .. Len(chain') : n \in 1 .. Len(chain)
    BY <1>0, <2>1
  <2> QED BY <1>0, <2>1, <2>2 DEF RowShape
<1> QED BY <1>1, <1>2, <1>3, <1>4, <1>5, StepCases
        DEF vars, node, rows, Begin, Read, List, Wait, Verify, Interrupt, SaveTopup

LEMMA NextNoneSkipped ==
  ASSUME TypeOK, IndInv, [Next]_vars
  PROVE  NoneSkipped'
<1>0. /\ nextHash \in Nat /\ Len(chain) \in Nat /\ Len(scanned) \in Nat /\ nextHash > 0
      /\ \A n \in 1 .. Len(scanned) : scanned[n] < nextHash
      /\ NoneSkipped
  BY Lengths DEF TypeOK, IndInv, ChainShape
<1>1. ASSUME UNCHANGED <<chain, status, seenHash, scanned>> PROVE NoneSkipped'
  BY <1>0, <1>1 DEF NoneSkipped
<1>2. ASSUME NEW b \in scanner.block, Record(b) PROVE NoneSkipped'
  <2>1. \A n \in 1 .. Len(chain) : chain[n].hash = b.hash => chain[n] = b
    BY DEF IndInv, ScannerShape
  <2>2. chain' = chain /\ ~ Conflict(b)
    BY <1>2 DEF Record, node
  <2>3. /\ Len(scanned') = Len(scanned) + 1 /\ scanned'[Len(scanned) + 1] = b.hash
        /\ \A n \in 1 .. Len(scanned) : scanned'[n] = scanned[n]
    BY <1>2, Recorded
  <2>4. \A t \in Transfer : status[t] # "none" => status'[t] # "none" /\ seenHash'[t] = seenHash[t]
    BY <1>2 DEF Record
  <2>5. \A t \in Deposit : t \in Transfer /\ t \notin internal
    BY Constants DEF Transfer, TypeOK
  <2>6. \A t \in b.txs \intersect Deposit : status'[t] # "none" /\ seenHash'[t] = b.hash
    <3> SUFFICES ASSUME NEW t \in b.txs \intersect Deposit
                 PROVE  status'[t] # "none" /\ seenHash'[t] = b.hash
      OBVIOUS
    <3>1. t \in Observed(b) /\ t \in Transfer
      BY <2>5 DEF Observed
    <3>2. CASE status[t] = "none"
      BY <1>2, <3>1, <3>2 DEF Record
    <3>3. CASE status[t] # "none"
      BY <2>2, <2>4, <3>1, <3>3 DEF Conflict
    <3> QED BY <3>2, <3>3
  <2>7. ASSUME NEW n \in 1 .. Len(scanned'), n <= Len(chain), chain[n].hash = scanned'[n]
        PROVE  \A t \in chain[n].txs \intersect Deposit : status'[t] # "none" /\ seenHash'[t] = scanned'[n]
    <3>1. CASE n = Len(scanned) + 1
      <4>1. chain[n] = b /\ scanned'[n] = b.hash
        BY <1>0, <2>1, <2>3, <2>7, <3>1
      <4> QED BY <2>6, <4>1
    <3>2. CASE n # Len(scanned) + 1
      <4>1. n \in 1 .. Len(scanned) /\ scanned'[n] = scanned[n]
        BY <1>0, <2>3, <3>2
      <4> QED BY <1>0, <2>4, <2>5, <2>7, <4>1 DEF NoneSkipped
    <3> QED BY <3>1, <3>2
  <2> QED BY <2>2, <2>7 DEF NoneSkipped
<1>3. ASSUME NEW t \in Transfer, Credit(t) PROVE NoneSkipped'
  <2>1. /\ UNCHANGED <<chain, scanned, seenHash>>
        /\ \A u \in Transfer : status[u] # "none" => status'[u] # "none"
    BY <1>3 DEF Credit, Confirming, node, TypeOK
  <2> QED BY <1>0, <2>1 DEF NoneSkipped, Transfer
<1>4. ASSUME NEW S \in SUBSET Transfer, Extend(S) PROVE NoneSkipped'
  <2>1. /\ Len(chain') = Len(chain) + 1 /\ chain'[Len(chain) + 1].hash = nextHash
        /\ \A n \in 1 .. Len(chain) : chain'[n] = chain[n]
    BY <1>0, <1>4, Extended
  <2>2. UNCHANGED <<status, seenHash, scanned>>
    BY <1>4 DEF Extend, rows
  <2>3. \A n \in 1 .. Len(scanned) : scanned[n] \in Nat
    BY ElementOfSeq DEF TypeOK
  <2>4. ASSUME NEW n \in 1 .. Len(scanned), n <= Len(chain'), chain'[n].hash = scanned[n]
        PROVE  n <= Len(chain) /\ chain'[n] = chain[n]
    BY <1>0, <2>1, <2>3, <2>4
  <2> QED BY <1>0, <2>2, <2>4 DEF NoneSkipped
<1>5. ASSUME Reorg PROVE NoneSkipped'
  <2>1. /\ Len(chain') = Len(chain) - 1 /\ \A n \in 1 .. Len(chain') : chain'[n] = chain[n]
        /\ UNCHANGED <<status, seenHash, scanned>>
    BY <1>5, Reorged DEF Reorg, rows
  <2>2. \A n \in 1 .. Len(scanned) : n <= Len(chain') => n <= Len(chain) /\ chain'[n] = chain[n]
    BY <1>0, <2>1
  <2> QED BY <1>0, <2>1, <2>2 DEF NoneSkipped
<1> QED BY <1>1, <1>2, <1>3, <1>4, <1>5, StepCases
        DEF vars, node, rows, Begin, Read, List, Wait, Verify, Interrupt, SaveTopup

LEMMA NextTopupsNotCredited ==
  ASSUME TypeOK, IndInv, [Next]_vars
  PROVE  TopupsNotCredited'
<1>0. TopupsNotCredited /\ Topup \subseteq Transfer
  BY DEF IndInv, Transfer
<1>1. ASSUME NEW b \in scanner.block, Record(b) PROVE TopupsNotCredited'
  <2>1. Known(b.txs)
    BY DEF IndInv, ScannerShape
  <2>2. \A t \in Topup : t \notin Observed(b)
    BY <2>1 DEF Known, Observed
  <2> QED BY <1>0, <1>1, <2>2 DEF Record, TopupsNotCredited
<1>2. ASSUME NEW t \in Transfer, Credit(t) PROVE TopupsNotCredited'
  BY <1>0, <1>2 DEF Credit, Confirming, TopupsNotCredited, TypeOK
<1>3. ASSUME UNCHANGED status PROVE TopupsNotCredited'
  BY <1>0, <1>3 DEF TopupsNotCredited
<1> QED BY <1>1, <1>2, <1>3, StepCases
        DEF vars, rows, Begin, Read, List, Wait, Verify, Interrupt, SaveTopup, Extend, Reorg

LEMMA NextScannerShape ==
  ASSUME TypeOK, IndInv, [Next]_vars
  PROVE  ScannerShape'
<1>0. /\ nextHash \in Nat /\ nextHash > 0 /\ Len(chain) \in Nat /\ ScannerShape /\ ChainShape
      /\ \A b \in scanner.block : b \in Block /\ b.hash \in Nat
      /\ Settled \subseteq Settled'
  BY Lengths, SettledGrows DEF TypeOK, IndInv, ChainShape, Block
<1>1. Resting.block = {} /\ Resting.todo = {} /\ Resting.at = "idle"
  BY DEF Resting
<1>2. ASSUME UNCHANGED <<node, internal>>, \A t \in Transfer : status[t] # "none" => status'[t] # "none",
             scanner'.block \in {{}, scanner.block},
             scanner'.todo \subseteq scanner.todo \union Confirming,
             scanner'.at = "credit" => scanner.at = "credit" /\ scanner'.deposit = scanner.deposit
      PROVE  ScannerShape'
  <2>1. Settled' = Settled /\ scanner'.todo \subseteq Transfer
    BY <1>2 DEF Settled, node, Confirming, TypeOK
  <2>2. \A t \in scanner'.todo : status'[t] # "none"
    BY <1>0, <1>2, <2>1 DEF ScannerShape, Confirming
  <2>3. \A b \in scanner'.block : b \in scanner.block
    BY <1>2
  <2> QED BY <1>0, <1>2, <2>1, <2>2, <2>3 DEF ScannerShape, Known, node
<1>3. ASSUME Read PROVE ScannerShape'
  <2>1. /\ scanner'.block = {chain[NextHeight]} /\ scanner'.todo = scanner.todo /\ scanner'.at = "record"
        /\ UNCHANGED <<node, internal, status>>
    BY <1>3 DEF Read, rows, TypeOK
  <2>2. NextHeight \in 1 .. Len(chain)
    BY <1>3, Lengths DEF Read, NextHeight
  <2> QED BY <1>0, <2>1, <2>2 DEF ScannerShape, ChainShape, Known, node
<1>4. ASSUME NEW t \in Transfer, Verify(t) PROVE ScannerShape'
  <2>1. CASE ~ SameHash(t)
    BY <1>1, <1>2, <1>4, <2>1 DEF Verify, rows, Resting
  <2>2. CASE SameHash(t)
    <3>1. /\ scanner' = [scanner EXCEPT !.at = "credit", !.deposit = t]
          /\ t \in scanner.todo /\ EnoughConfirmations(t, scanner.latest) /\ seenAt[t] <= Len(chain)
          /\ UNCHANGED <<node, internal, rows>>
      BY <1>4, <2>2 DEF Verify, Lowest
    <3>2. /\ scanner'.block = scanner.block /\ scanner'.todo = scanner.todo /\ scanner'.deposit = t
      BY <3>1 DEF TypeOK
    <3>3. status[t] # "none" /\ seenAt[t] \in Nat /\ seenAt[t] > 0
      BY <3>1, Lengths DEF IndInv, ScannerShape, RowShape, TypeOK
    <3>4. t \in chain[seenAt[t]].txs
      BY <1>0, <2>2, <3>1, <3>3 DEF SameHash, IndInv, RowShape
    <3>5. scanner.latest \in Nat /\ final \in Nat
      BY Lengths DEF TypeOK
    <3>6. scanner.latest + 1 - Confirmations <= final /\ scanner.latest - seenAt[t] + 1 >= Confirmations
      BY <3>1 DEF IndInv, HeightsShape, EnoughConfirmations
    <3>7. seenAt[t] \in 1 .. final
      BY <3>3, <3>5, <3>6, Constants
    <3>8. t \in Settled
      BY <3>4, <3>7 DEF Settled
    <3> QED BY <1>0, <3>1, <3>2, <3>8 DEF ScannerShape, Known, node, rows
  <2> QED BY <2>1, <2>2
<1>5. ASSUME NEW t \in Transfer, Wait(t) \/ Credit(t) PROVE ScannerShape'
  <2>1. scanner' = After(t) /\ UNCHANGED <<node, internal>>
    BY <1>5 DEF Wait, Credit
  <2>2. \A u \in Transfer : status[u] # "none" => status'[u] # "none"
    BY <1>5 DEF Wait, Credit, rows, Confirming, TypeOK
  <2>3. scanner'.block \in {{}, scanner.block} /\ scanner'.todo \subseteq scanner.todo /\ scanner'.at # "credit"
    BY <1>1, <2>1 DEF After, TypeOK
  <2> QED BY <1>2, <2>1, <2>2, <2>3
<1>6. ASSUME NEW b \in scanner.block, Record(b) PROVE ScannerShape'
  <2>1. scanner'.block = {} /\ scanner'.todo = scanner.todo /\ scanner'.at \in {"scan", "list"}
        /\ UNCHANGED <<node, internal>>
    BY <1>6 DEF Record, TypeOK
  <2>2. \A t \in Transfer : status[t] # "none" => status'[t] # "none"
    BY <1>6 DEF Record
  <2> QED BY <1>2, <2>1, <2>2
<1>7. ASSUME NEW latest \in 0 .. Len(chain), Begin(latest) PROVE ScannerShape'
  <2>1. scanner'.block = {} /\ scanner'.todo = {} /\ scanner'.at \in {"scan", "list"}
    BY <1>7 DEF Begin, Resting
  <2> QED BY <1>2, <1>7, <2>1 DEF Begin, rows
<1>8. ASSUME List PROVE ScannerShape'
  <2>1. scanner'.block \in {{}, scanner.block} /\ scanner'.todo \subseteq Confirming /\ scanner'.at # "credit"
    BY <1>1, <1>8 DEF List, TypeOK
  <2> QED BY <1>2, <1>8, <2>1 DEF List, rows
<1>9. ASSUME Interrupt PROVE ScannerShape'
  BY <1>1, <1>2, <1>9 DEF Interrupt, rows
<1>10. ASSUME NEW t \in Topup, SaveTopup(t) PROVE ScannerShape'
  <2>1. internal \subseteq internal' /\ UNCHANGED <<node, rows, scanner>>
    BY <1>10 DEF SaveTopup
  <2> QED BY <1>0, <2>1 DEF ScannerShape, Known, node, rows
<1>11. ASSUME NEW S \in SUBSET Transfer, Extend(S) PROVE ScannerShape'
  <2>1. /\ Len(chain') = Len(chain) + 1 /\ chain'[Len(chain) + 1].hash = nextHash
        /\ \A n \in 1 .. Len(chain) : chain'[n] = chain[n]
        /\ nextHash' = nextHash + 1
    BY <1>0, <1>11, Extended
  <2>2. UNCHANGED <<internal, scanner, status>>
    BY <1>11 DEF Extend, rows
  <2>3. ASSUME NEW b \in scanner.block
        PROVE  /\ b.hash < nextHash' /\ Known(b.txs)
               /\ \A n \in 1 .. Len(chain') : chain'[n].hash = b.hash => chain'[n] = b
    BY <1>0, <2>1 DEF ScannerShape
  <2> QED BY <1>0, <2>2, <2>3 DEF ScannerShape, Known
<1>12. ASSUME Reorg PROVE ScannerShape'
  <2>1. /\ Len(chain') = Len(chain) - 1 /\ \A n \in 1 .. Len(chain') : chain'[n] = chain[n]
        /\ UNCHANGED <<nextHash, internal, scanner, status>>
    BY <1>12, Reorged DEF Reorg, rows
  <2>2. \A n \in 1 .. Len(chain') : n \in 1 .. Len(chain)
    BY <1>0, <2>1
  <2> QED BY <1>0, <2>1, <2>2 DEF ScannerShape, Known
<1>13. ASSUME UNCHANGED vars PROVE ScannerShape'
  BY <1>2, <1>13 DEF vars, rows
<1> QED BY <1>3, <1>4, <1>5, <1>6, <1>7, <1>8, <1>9, <1>10, <1>11, <1>12, <1>13, StepCases

(* Recording new deposits adds their sum, crediting one moves its amount.  *)
LEMMA NextBooksShape ==
  ASSUME TypeOK, IndInv, [Next]_vars
  PROVE  BooksShape'
<1> DEFINE held == {t \in Transfer : status[t] = "CONFIRMING"}
           paid == {t \in Transfer : status[t] = "CREDITED"}
<1>0. pendingDeposit = AmountOf(held) /\ available = AmountOf(paid)
  BY DEF IndInv, BooksShape
<1>1. ASSUME NEW b \in scanner.block, Record(b) PROVE BooksShape'
  <2> DEFINE new == {t \in Observed(b) : status[t] = "none"}
  <2>1. new \subseteq Transfer
    BY DEF Observed, TypeOK, Block
  <2>2. /\ status' = [t \in Transfer |-> IF t \in new THEN "CONFIRMING" ELSE status[t]]
        /\ pendingDeposit' = pendingDeposit + AmountOf(new) /\ available' = available
    BY <1>1 DEF Record
  <2>3. held \intersect new = {}
    OBVIOUS
  <2>4. held' = held \union new
    BY <2>1, <2>2
  <2>5. paid' = paid
    BY <2>2
  <2>6. AmountOf(held \union new) = AmountOf(held) + AmountOf(new)
    BY <2>3, Amounts
  <2> HIDE DEF new
  <2> QED BY <1>0, <2>2, <2>4, <2>5, <2>6 DEF BooksShape
<1>2. ASSUME NEW t \in Transfer, Credit(t) PROVE BooksShape'
  <2>1. /\ t \in held /\ status' = [status EXCEPT ![t] = "CREDITED"]
        /\ pendingDeposit' = pendingDeposit - Amount[t] /\ available' = available + Amount[t]
    BY <1>2 DEF Credit, Confirming
  <2>2. held' = held \ {t} /\ paid' = paid \union {t} /\ paid \intersect {t} = {}
    BY <2>1 DEF TypeOK
  <2>3. AmountOf(held \ {t}) = AmountOf(held) - Amount[t]
    BY <2>1, AmountWithout
  <2>4. AmountOf(paid \union {t}) = AmountOf(paid) + AmountOf({t}) /\ AmountOf({t}) = Amount[t]
    BY <2>2, Amounts
  <2> QED BY <1>0, <2>1, <2>2, <2>3, <2>4 DEF BooksShape
<1>3. ASSUME UNCHANGED <<status, pendingDeposit, available>> PROVE BooksShape'
  BY <1>0, <1>3 DEF BooksShape
<1> QED BY <1>1, <1>2, <1>3, StepCases
        DEF vars, rows, Begin, Read, List, Wait, Verify, Interrupt, SaveTopup, Extend, Reorg

-----------------------------------------------------------------------------
(***************************************************************************)
(* The safety theorems.                                                    *)
(***************************************************************************)
LEMMA NextIndInv == TypeOK /\ IndInv /\ [Next]_vars => IndInv'
BY NextChainShape, NextHeightsShape, NextRowShape, NextScannerShape, NextBooksShape,
   NextNoneSkipped, NextTopupsNotCredited DEF IndInv

ScannerType == [at : {"idle", "scan", "record", "list", "check", "credit", "stopped"},
                latest : Nat, last : Nat, block : SUBSET Block,
                todo : SUBSET Transfer, deposit : Nat]

LEMMA ScannerTypes ==
  ASSUME TypeOK
  PROVE  /\ scanner \in ScannerType /\ Resting \in ScannerType
         /\ \A t \in Transfer : After(t) \in ScannerType
<1>1. scanner \in ScannerType
  BY DEF TypeOK, ScannerType
<1>2. Resting \in ScannerType
  BY DEF Resting, ScannerType
<1> QED BY <1>1, <1>2 DEF After, ScannerType

LEMMA NextScannerType ==
  ASSUME TypeOK, [Next]_vars
  PROVE  scanner' \in ScannerType
<1> USE ScannerTypes
<1>1. ASSUME NEW latest \in 0 .. Len(chain), Begin(latest) PROVE scanner' \in ScannerType
  <2>1. Len(chain) \in Nat /\ NextHeight \in Nat /\ BatchSize \in Nat /\ NextHeight > 0
    BY Lengths, Constants DEF NextHeight
  <2>2. latest \in Nat /\ Smaller(latest, NextHeight + BatchSize - 1) \in Nat
    BY <2>1 DEF Smaller
  <2>3. scanner' = [at |-> IF NextHeight <= latest THEN "scan" ELSE "list", latest |-> latest,
                    last |-> Smaller(latest, NextHeight + BatchSize - 1), block |-> {}, todo |-> {}, deposit |-> 0]
    BY <1>1 DEF Begin, Resting
  <2> QED BY <2>2, <2>3 DEF ScannerType
<1>2. ASSUME Read PROVE scanner' \in ScannerType
  <2>1. chain[NextHeight] \in Block
    BY <1>2, Lengths, BlockAt DEF Read, NextHeight
  <2> QED BY <1>2, <2>1 DEF Read, ScannerType
<1>3. ASSUME NEW b \in scanner.block, Record(b) PROVE scanner' \in ScannerType
  BY <1>3 DEF Record, ScannerType
<1>4. ASSUME List PROVE scanner' \in ScannerType
  BY <1>4 DEF List, ScannerType, Confirming
<1>5. ASSUME NEW t \in Transfer, Wait(t) \/ Credit(t) PROVE scanner' \in ScannerType
  BY <1>5 DEF Wait, Credit
<1>6. ASSUME NEW t \in Transfer, Verify(t) PROVE scanner' \in ScannerType
  <2>1. t \in Nat
    BY Constants
  <2>2. scanner \in ScannerType /\ Resting \in ScannerType
    OBVIOUS
  <2>3. CASE SameHash(t)
    <3>1. scanner' = [scanner EXCEPT !.at = "credit", !.deposit = t]
      BY <1>6, <2>3 DEF Verify
    <3> QED BY <2>1, <2>2, <3>1 DEF ScannerType
  <2>4. CASE ~ SameHash(t)
    <3>1. scanner' = [Resting EXCEPT !.at = "stopped"]
      BY <1>6, <2>4 DEF Verify
    <3> QED BY <2>2, <3>1 DEF ScannerType
  <2> QED BY <2>3, <2>4
<1>7. ASSUME Interrupt PROVE scanner' \in ScannerType
  BY <1>7 DEF Interrupt
<1>8. ASSUME UNCHANGED scanner PROVE scanner' \in ScannerType
  BY <1>8
<1> QED BY <1>1, <1>2, <1>3, <1>4, <1>5, <1>6, <1>7, <1>8, StepCases DEF SaveTopup, Extend, Reorg, vars

LEMMA NextChainType ==
  ASSUME TypeOK, IndInv, [Next]_vars
  PROVE  /\ chain' \in Seq(Block) /\ nextHash' \in Nat /\ final' \in 0 .. Len(chain')
         /\ internal' \subseteq Topup
<1> DEFINE Goal == /\ chain' \in Seq(Block) /\ nextHash' \in Nat /\ final' \in 0 .. Len(chain')
                   /\ internal' \subseteq Topup
<1>0. /\ Len(chain) \in Nat /\ Confirmations \in Nat /\ Confirmations > 0 /\ nextHash > 0
      /\ nextHash \in Nat /\ final \in Nat /\ final <= Len(chain) /\ chain \in Seq(Block) /\ internal \subseteq Topup
  <2>1. Len(chain) \in Nat /\ Confirmations \in Nat /\ Confirmations > 0 /\ nextHash > 0
    BY Lengths, Constants DEF IndInv, ChainShape
  <2>2. nextHash \in Nat /\ final \in 0 .. Len(chain) /\ chain \in Seq(Block) /\ internal \subseteq Topup
    BY DEF TypeOK
  <2> QED BY <2>1, <2>2
<1>1. ASSUME NEW S \in SUBSET Transfer, Extend(S) PROVE Goal
  <2>1. chain' \in Seq(Block) /\ Len(chain') = Len(chain) + 1 /\ nextHash' = nextHash + 1
    BY <1>0, <1>1, Extended
  <2>2. final' = Larger(final, Len(chain) + 2 - Confirmations) /\ internal' = internal
    BY <1>1 DEF Extend
  <2>3. final' \in 0 .. Len(chain) + 1
    BY <1>0, <2>2 DEF Larger
  <2> QED BY <1>0, <2>1, <2>2, <2>3
<1>2. ASSUME Reorg PROVE Goal
  <2>1. /\ chain' \in Seq(Block) /\ Len(chain') = Len(chain) - 1 /\ Len(chain) > final
        /\ UNCHANGED <<nextHash, final, internal>>
    BY <1>2, Reorged DEF Reorg
  <2> QED BY <1>0, <2>1
<1>3. ASSUME UNCHANGED node, internal' \subseteq Topup PROVE Goal
  BY <1>0, <1>3 DEF node
<1> QED BY <1>0, <1>1, <1>2, <1>3, StepCases
        DEF vars, Begin, Read, List, Record, Wait, Verify, Credit, Interrupt, SaveTopup

LEMMA NextRowType ==
  ASSUME TypeOK, [Next]_vars
  PROVE  /\ status' \in [Transfer -> {"none", "CONFIRMING", "CREDITED"}]
         /\ seenAt' \in [Transfer -> 0 .. Len(scanned')] /\ seenHash' \in [Transfer -> Nat]
         /\ scanned' \in Seq(Nat \ {0})
<1> DEFINE Goal == /\ status' \in [Transfer -> {"none", "CONFIRMING", "CREDITED"}]
                   /\ seenAt' \in [Transfer -> 0 .. Len(scanned')] /\ seenHash' \in [Transfer -> Nat]
                   /\ scanned' \in Seq(Nat \ {0})
<1>1. ASSUME NEW b \in scanner.block, Record(b) PROVE Goal
  <2>1. scanned' \in Seq(Nat \ {0}) /\ Len(scanned) \in Nat /\ Len(scanned') = Len(scanned) + 1 /\ b.hash \in Nat
    BY <1>1, Recorded DEF Block
  <2>2. seenAt' \in [Transfer -> 0 .. Len(scanned) + 1]
    BY <1>1, <2>1 DEF Record, TypeOK, NextHeight
  <2>3. seenHash' \in [Transfer -> Nat] /\ status' \in [Transfer -> {"none", "CONFIRMING", "CREDITED"}]
    BY <1>1, <2>1 DEF Record, TypeOK
  <2> QED BY <2>1, <2>2, <2>3
<1>2. ASSUME NEW t \in Transfer, Credit(t) PROVE Goal
  BY <1>2 DEF Credit, TypeOK
<1>3. ASSUME UNCHANGED rows PROVE Goal
  BY <1>3 DEF rows, TypeOK
<1> QED BY <1>1, <1>2, <1>3, StepCases
        DEF vars, Begin, Read, List, Wait, Verify, Interrupt, SaveTopup, Extend, Reorg

LEMMA BooksInRange ==
  BooksShape => available \in 0 .. AmountOf(Transfer) /\ pendingDeposit \in 0 .. AmountOf(Transfer)
<1> DEFINE held == {t \in Transfer : status[t] = "CONFIRMING"}
           paid == {t \in Transfer : status[t] = "CREDITED"}
<1>1. held \in SUBSET Transfer /\ paid \in SUBSET Transfer
  OBVIOUS
<1>2. BooksShape => pendingDeposit = AmountOf(held) /\ available = AmountOf(paid)
  BY DEF BooksShape
<1> HIDE DEF held, paid
<1>3. /\ AmountOf(held) \in Nat /\ AmountOf(paid) \in Nat /\ AmountOf(Transfer) \in Nat
      /\ AmountOf(held) <= AmountOf(Transfer) /\ AmountOf(paid) <= AmountOf(Transfer)
  BY <1>1, Amounts
<1> QED BY <1>2, <1>3

LEMMA NextType == TypeOK /\ IndInv /\ [Next]_vars => TypeOK'
<1> SUFFICES ASSUME TypeOK, IndInv, [Next]_vars PROVE TypeOK'
  OBVIOUS
<1>1. BooksShape'
  BY NextBooksShape
<1>2. (available \in 0 .. AmountOf(Transfer) /\ pendingDeposit \in 0 .. AmountOf(Transfer))'
  <2>1. (BooksShape => available \in 0 .. AmountOf(Transfer) /\ pendingDeposit \in 0 .. AmountOf(Transfer))'
    BY BooksInRange, PTL
  <2> QED BY <1>1, <2>1
<1> QED BY <1>2, NextChainType, NextRowType, NextScannerType DEF TypeOK, ScannerType

(* At every step of the scanner, and however blocks are replaced meanwhile, the rows match the chain the scanner
   counted from, and what it holds in hand is of the block it will record (IndInv, with the types it rests on). *)
THEOREM Inductive == Spec => [](TypeOK /\ IndInv)
<1>1. TypeOK /\ IndInv /\ [Next]_vars => (TypeOK /\ IndInv)'
  BY NextType, NextIndInv
<1> QED BY InitIndInv, <1>1, PTL DEF Spec

(* Type correctness: neither balance becomes negative, nor more than the   *)
(* transfers there are, whatever is repeated, replaced or interrupted.     *)
THEOREM TypeCorrect == Spec => []TypeOK
BY Inductive, PTL

(* The checkpoint passes a block only with all of its deposits recorded:   *)
(* RecordDepositsAndCheckpoint writes both, and a conflict writes neither. *)
THEOREM NoDepositSkipped == Spec => []NoneSkipped
<1>1. IndInv => NoneSkipped
  BY DEF IndInv
<1> QED BY <1>1, Inductive, PTL

(* A top-up is not credited: its hash is stored before it is first sent,   *)
(* so the scanner knows it in whichever block it finds it.                 *)
THEOREM NoTopupCredited == Spec => []TopupsNotCredited
<1>1. IndInv => TopupsNotCredited
  BY DEF IndInv
<1> QED BY <1>1, Inductive, PTL

-----------------------------------------------------------------------------
(***************************************************************************)
(* The scanner implements Crediting: a block that settles settles its      *)
(* transfers, a recorded block is observed, and a deposit is credited only *)
(* when it is settled.                                                     *)
(***************************************************************************)
Phases == [t \in Transfer |-> Phase(t)]
Promise == <<pendingDeposit, available, Phases, Settled>>

USE DEF Phase

LEMMA InitCrediting == Init => C!Init
<1> SUFFICES ASSUME Init PROVE C!Init
  OBVIOUS
<1>1. C!Deposit = Transfer
  BY Constants DEF C!Deposit, NumTransfers
<1>2. Settled = {}
  BY DEF Init, Settled
<1>3. Phases = [t \in Transfer |-> "absent"]
  BY DEF Init, Phases
<1> QED BY <1>1, <1>2, <1>3 DEF Init, C!Init, Phases

LEMMA StepCrediting ==
  TypeOK /\ IndInv /\ [Next]_vars => [C!Next]_(C!vars)
<1> SUFFICES ASSUME TypeOK, IndInv, [Next]_vars PROVE C!Next \/ UNCHANGED Promise
  BY DEF C!vars, Promise, Phases
<1>0. C!Deposit = Transfer /\ \A S : C!Sum(S) = AmountOf(S)
  <2>1. C!Deposit = Transfer
    BY Constants DEF C!Deposit, NumTransfers
  <2> QED BY <2>1 DEF C!Sum, AmountOf, C!Total, C!RunningTotal, Total, RunningTotal
<1>1. ASSUME NEW b \in scanner.block, Record(b) PROVE C!Next
  <2>0. PICK new : new = {t \in Observed(b) : status[t] = "none"}
    OBVIOUS
  <2>1. new \subseteq Transfer /\ \A t \in new : status[t] = "none"
    BY <2>0 DEF Observed, TypeOK, Block
  <2>2. /\ status' = [t \in Transfer |-> IF t \in new THEN "CONFIRMING" ELSE status[t]]
        /\ pendingDeposit' = pendingDeposit + AmountOf(new) /\ available' = available
        /\ UNCHANGED node
    BY <1>1, <2>0 DEF Record
  <2>3. new \in SUBSET C!In("absent")
    BY <1>0, <2>1 DEF C!In
  <2>4. Phases' = [t \in Transfer |-> IF t \in new THEN "pending" ELSE Phases[t]]
    BY <2>1, <2>2 DEF Phases
  <2>5. Settled' = Settled
    BY <2>2 DEF Settled, node
  <2>6. C!Observe(new)
    BY <1>0, <2>2, <2>4, <2>5 DEF C!Observe, C!Move, Phases
  <2> QED BY <2>3, <2>6 DEF C!Next
<1>2. ASSUME NEW t \in Transfer, Credit(t) PROVE C!Next
  <2>1. /\ status[t] = "CONFIRMING" /\ status' = [status EXCEPT ![t] = "CREDITED"]
        /\ pendingDeposit' = pendingDeposit - Amount[t] /\ available' = available + Amount[t]
        /\ UNCHANGED node /\ scanner.at = "credit" /\ scanner.deposit = t
    BY <1>2 DEF Credit, Confirming
  <2>2. t \in Settled
    BY <2>1 DEF IndInv, ScannerShape
  <2>3. t \in C!In("pending")
    BY <1>0, <2>1 DEF C!In
  <2>4. Phases' = [u \in Transfer |-> IF u \in {t} THEN "available" ELSE Phases[u]]
    BY <2>1 DEF Phases, TypeOK
  <2>5. Settled' = Settled
    BY <2>1 DEF Settled, node
  <2>6. C!Credit(t)
    BY <1>0, <2>1, <2>2, <2>4, <2>5 DEF C!Credit, C!Move, Phases
  <2> QED BY <2>3, <2>6 DEF C!Next
<1>3. ASSUME NEW S \in SUBSET Transfer, Extend(S) PROVE C!Next
  <2>1. Settled' = Settled \union Settled'
    BY SettledGrows
  <2>2. Settled' \in SUBSET C!Deposit
    <3>1. chain' \in Seq(Block) /\ final' \in 0 .. Len(chain')
      BY NextChainType
    <3>2. Len(chain') \in Nat
      BY <3>1, LenProperties
    <3>3. \A n \in 1 .. final' : chain'[n] \in Block
      BY <3>1, <3>2, ElementOfSeq
    <3> QED BY <1>0, <3>3 DEF Settled, Block
  <2>3. UNCHANGED <<pendingDeposit, available, Phases>>
    BY <1>3 DEF Extend, rows, Phases
  <2>4. C!Settle(Settled')
    BY <2>1, <2>3 DEF C!Settle, Phases
  <2> QED BY <2>2, <2>4 DEF C!Next
<1>4. ASSUME Reorg PROVE UNCHANGED Promise
  <2>1. /\ Len(chain') = Len(chain) - 1 /\ \A n \in 1 .. Len(chain') : chain'[n] = chain[n]
        /\ UNCHANGED <<final, rows>> /\ Len(chain) > final /\ Len(chain) \in Nat /\ final \in Nat
    BY <1>4, Reorged, Lengths, SMTT(40) DEF Reorg, TypeOK
  <2>2. \A n \in 1 .. final : chain'[n] = chain[n]
    BY <2>1
  <2>3. Settled' = Settled
    BY <2>1, <2>2 DEF Settled
  <2> QED BY <2>1, <2>3 DEF Promise, Phases, rows
<1>5. ASSUME UNCHANGED <<node, rows>> PROVE UNCHANGED Promise
  BY <1>5 DEF Promise, Phases, Settled, node, rows
<1> QED BY <1>1, <1>2, <1>3, <1>4, <1>5, StepCases
        DEF vars, Begin, Read, List, Wait, Verify, Interrupt, SaveTopup

(* Each deposit is pending once, and available once it is credited, from a *)
(* block that will not be replaced, over all retries and restarts.         *)
THEOREM ImplementsCrediting == Spec => CreditingSpec
<1>1. Init => C!Init
  BY InitCrediting
<1>2. TypeOK /\ IndInv /\ [Next]_vars => [C!Next]_(C!vars)
  BY StepCrediting
<1> QED BY <1>1, <1>2, Inductive, PTL DEF Spec, CreditingSpec, C!Spec
=============================================================================
