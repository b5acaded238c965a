-------------------------- MODULE BtcDepositProofs --------------------------
(***************************************************************************)
(* Theorems about BtcDeposit for every number and amount of deposits,      *)
(* every number of confirmations and every batch size: that the rows       *)
(* follow the chain over any number of replaced blocks, that the balances  *)
(* are the sums of the rows, and that the scanner implements Crediting.    *)
(***************************************************************************)
EXTENDS BtcDeposit, SumsProofs, SequenceTheorems

LEMMA Constants ==
  /\ NumDeposits \in Nat /\ Amount \in [1 .. NumDeposits -> Nat] /\ Deposit = 1 .. NumDeposits
  /\ \A d \in Deposit : Amount[d] \in Nat
  /\ Confirmations \in Nat /\ Confirmations > 0 /\ BatchSize \in Nat /\ BatchSize > 0
  /\ MaxForks \in Nat
BY BtcDepositConstantsAssumption DEF Deposit

LEMMA AmountIsSum == ASSUME NEW S PROVE AmountOf(S) = SumOver(S, Amount, NumDeposits)
BY DEF AmountOf, SumOver, Deposit

(* The sums of amounts the steps of the scanner change. *)
LEMMA Amounts ==
  /\ \A S : AmountOf(S) \in Nat
  /\ \A S \in SUBSET Deposit : AmountOf(S) <= AmountOf(Deposit)
  /\ \A S, T : S \intersect T = {} => AmountOf(S \union T) = AmountOf(S) + AmountOf(T)
  /\ \A d \in Deposit : AmountOf({d}) = Amount[d]
  /\ AmountOf({}) = 0
<1> USE Constants, AmountIsSum
<1>1. \A S : AmountOf(S) \in Nat
  BY SumOverType
<1>2. ASSUME NEW S \in SUBSET Deposit PROVE AmountOf(S) <= AmountOf(Deposit)
  BY SumOverSubset
<1>3. ASSUME NEW S, NEW T, S \intersect T = {}
      PROVE  AmountOf(S \union T) = AmountOf(S) + AmountOf(T)
  BY <1>3, SumOverUnion
<1>4. ASSUME NEW d \in Deposit PROVE AmountOf({d}) = Amount[d]
  BY SumOverOne
<1>5. AmountOf({}) = 0
  BY SumOverNone
<1> QED BY <1>1, <1>2, <1>3, <1>4, <1>5

(* Rows that leave a set take their amounts with them. *)
LEMMA AmountWithout ==
  ASSUME NEW S, NEW T \in SUBSET S
  PROVE  AmountOf(S \ T) = AmountOf(S) - AmountOf(T)
<1>1. S = (S \ T) \union T /\ (S \ T) \intersect T = {}
  OBVIOUS
<1>2. AmountOf(S) = AmountOf(S \ T) + AmountOf(T)
  BY <1>1, Amounts
<1>3. AmountOf(S \ T) \in Nat /\ AmountOf(T) \in Nat
  BY Amounts
<1> QED BY <1>2, <1>3

-----------------------------------------------------------------------------
(***************************************************************************)
(* The steps.  Both steps of the node keep the chain's first blocks, those *)
(* up to a height m that is not below the final ones, and mark every block *)
(* above that is not new on top.                                           *)
(***************************************************************************)
LEMMA Extended ==
  ASSUME NEW c \in Seq(Block), NEW n \in Nat, NEW fork \in Nat, NEW e \in Extensions(c, n, fork)
  PROVE  /\ e \in Seq(Block) /\ Len(c) \in Nat /\ Len(e) = Len(c) + n
         /\ \A i \in 1 .. Len(c) : e[i] = c[i]
         /\ \A i \in 1 .. Len(e) : i > Len(c) =>
              /\ e[i].fork = fork
              /\ \A j \in 1 .. Len(e) : i # j => e[i].outputs \intersect e[j].outputs = {}
<1>1. PICK f \in [1 .. n -> SUBSET (Deposit \ OutputsOf(c))] :
        /\ \A k, l \in 1 .. n : k # l => f[k] \intersect f[l] = {}
        /\ e = c \o [k \in 1 .. n |-> [fork |-> fork, outputs |-> f[k]]]
  BY DEF Extensions
<1> DEFINE g == [k \in 1 .. n |-> [fork |-> fork, outputs |-> f[k]]]
<1>2. \A k \in 1 .. n : g[k] = [fork |-> fork, outputs |-> f[k]] /\ g[k] \in Block
  BY DEF Block
<1>3. g \in [1 .. n -> Block]
  BY <1>2
<1>4. \A k \in 1 .. n : g[k].fork = fork /\ g[k].outputs = f[k]
  BY <1>2
<1>5. e = c \o g
  BY <1>1
<1> HIDE DEF g
<1>6. g \in Seq(Block) /\ Len(g) = n
  BY <1>3
<1>7. /\ e \in Seq(Block) /\ Len(c) \in Nat /\ Len(e) = Len(c) + n
      /\ \A i \in 1 .. Len(c) + n : e[i] = IF i <= Len(c) THEN c[i] ELSE g[i - Len(c)]
  <2>1. /\ c \o g \in Seq(Block)
        /\ Len(c \o g) = Len(c) + Len(g)
        /\ \A i \in 1 .. Len(c) + Len(g) : (c \o g)[i] = IF i <= Len(c) THEN c[i] ELSE g[i - Len(c)]
    BY <1>6, ConcatProperties
  <2>2. Len(c) \in Nat
    BY LenProperties
  <2> QED BY <1>5, <1>6, <2>1, <2>2
<1>8. \A i \in 1 .. Len(c) : e[i] = c[i]
  BY <1>7
<1>9. ASSUME NEW i \in 1 .. Len(e), i > Len(c)
      PROVE  i - Len(c) \in 1 .. n /\ e[i].fork = fork /\ e[i].outputs = f[i - Len(c)]
  <2>1. i - Len(c) \in 1 .. n /\ e[i] = g[i - Len(c)]
    BY <1>7, <1>9
  <2> QED BY <1>4, <2>1
<1>10. ASSUME NEW i \in 1 .. Len(e), i > Len(c), NEW j \in 1 .. Len(e), i # j
       PROVE  e[i].outputs \intersect e[j].outputs = {}
  <2>1. i - Len(c) \in 1 .. n /\ e[i].outputs = f[i - Len(c)]
    BY <1>9, <1>10
  <2>2. CASE j > Len(c)
    <3>1. j - Len(c) \in 1 .. n /\ e[j].outputs = f[j - Len(c)]
      BY <1>9, <2>2
    <3>2. i - Len(c) # j - Len(c)
      BY <1>7, <1>10
    <3> QED BY <1>1, <2>1, <3>1, <3>2
  <2>3. CASE ~ (j > Len(c))
    <3>1. j \in 1 .. Len(c) /\ e[j] = c[j]
      BY <1>7, <1>8, <2>3
    <3>2. f[i - Len(c)] \intersect OutputsOf(c) = {}
      BY <1>1, <2>1
    <3> QED BY <2>1, <3>1, <3>2 DEF OutputsOf
  <2> QED BY <2>2, <2>3
<1> QED BY <1>7, <1>8, <1>9, <1>10

LEMMA Shape ==
  TypeOK /\ IndInv =>
    /\ chain \in Seq(Block) /\ Len(chain) \in Nat /\ forks \in Nat
    /\ \A n \in 1 .. Len(chain) : /\ chain[n] \in Block /\ chain[n].fork \in Nat
                                  /\ chain[n].fork <= forks /\ chain[n].outputs \subseteq Deposit
    /\ checkpoint.height \in Int /\ checkpoint.height >= -1 /\ checkpoint.height <= Len(chain)
    /\ checkpoint.fork \in Nat /\ checkpoint.fork <= forks
    /\ \A d \in Deposit : rows[d].height \in Nat /\ rows[d].height <= Len(chain)
                          /\ rows[d].fork \in Nat /\ rows[d].fork <= forks
    /\ scanner.tip \in Nat /\ scanner.tip <= Len(chain)
    /\ scanner.todo \subseteq Deposit
<1> SUFFICES ASSUME TypeOK, IndInv
             PROVE  /\ chain \in Seq(Block) /\ Len(chain) \in Nat /\ forks \in Nat
                    /\ \A n \in 1 .. Len(chain) : /\ chain[n] \in Block /\ chain[n].fork \in Nat
                                                  /\ chain[n].fork <= forks /\ chain[n].outputs \subseteq Deposit
                    /\ checkpoint.height \in Int /\ checkpoint.height >= -1 /\ checkpoint.height <= Len(chain)
                    /\ checkpoint.fork \in Nat /\ checkpoint.fork <= forks
                    /\ \A d \in Deposit : rows[d].height \in Nat /\ rows[d].height <= Len(chain)
                                          /\ rows[d].fork \in Nat /\ rows[d].fork <= forks
                    /\ scanner.tip \in Nat /\ scanner.tip <= Len(chain)
                    /\ scanner.todo \subseteq Deposit
  OBVIOUS
<1>1. chain \in Seq(Block) /\ Len(chain) \in Nat /\ forks \in Nat
  BY LenProperties, Constants DEF TypeOK
<1>2. \A n \in 1 .. Len(chain) : chain[n] \in Block /\ chain[n].fork <= forks
  BY <1>1, ElementOfSeq DEF IndInv, ChainShape
<1>3. checkpoint.height \in -1 .. Len(chain) /\ checkpoint.fork \in 0 .. forks
  BY DEF TypeOK
<1>4. \A d \in Deposit : rows[d].height \in 0 .. Len(chain) /\ rows[d].fork \in 0 .. forks
  BY DEF TypeOK
<1>5. scanner.tip \in 0 .. Len(chain) /\ scanner.todo \subseteq Deposit
  BY DEF TypeOK
<1> QED BY <1>1, <1>2, <1>3, <1>4, <1>5 DEF Block

Grows(m) ==
  /\ m \in Nat /\ m >= FinalHeight /\ m <= Len(chain)
  /\ chain' \in Seq(Block) /\ Len(chain') = Len(chain) + 1
  /\ \A i \in 1 .. m : chain'[i] = chain[i]
  /\ \A i \in 1 .. Len(chain) + 1 : i > m => chain'[i].fork = forks'
  /\ \A i, j \in 1 .. Len(chain) + 1 : i # j => chain'[i].outputs \intersect chain'[j].outputs = {}
  /\ forks' \in 0 .. MaxForks /\ forks' >= forks
  /\ m < Len(chain) => forks' = forks + 1
  /\ UNCHANGED <<db, scanner, torn>>

LEMMA ExtendGrows ==
  ASSUME TypeOK, IndInv, Extend
  PROVE  Grows(Len(chain))
<1>0. chain \in Seq(Block) /\ Len(chain) \in Nat /\ forks \in Nat /\ forks \in 0 .. MaxForks
  BY Shape DEF TypeOK
<1>1. chain' \in Extensions(chain, 1, forks) /\ forks' = forks /\ UNCHANGED <<db, scanner, torn>>
  BY DEF Extend
<1>2. /\ chain' \in Seq(Block) /\ Len(chain') = Len(chain) + 1
      /\ \A i \in 1 .. Len(chain) : chain'[i] = chain[i]
      /\ \A i \in 1 .. Len(chain') : i > Len(chain) =>
           /\ chain'[i].fork = forks
           /\ \A j \in 1 .. Len(chain') : i # j => chain'[i].outputs \intersect chain'[j].outputs = {}
  BY <1>0, <1>1, Extended
<1>3. Len(chain) >= FinalHeight
  BY <1>0, Constants DEF FinalHeight, Tip
<1>4. ASSUME NEW i \in 1 .. Len(chain) + 1, NEW j \in 1 .. Len(chain) + 1, i # j
      PROVE  chain'[i].outputs \intersect chain'[j].outputs = {}
  <2>1. CASE i > Len(chain) \/ j > Len(chain)
    BY <1>2, <1>4, <2>1
  <2>2. CASE i <= Len(chain) /\ j <= Len(chain)
    <3>1. i \in 1 .. Len(chain) /\ j \in 1 .. Len(chain)
      BY <1>0, <2>2
    <3> QED BY <1>2, <1>4, <3>1 DEF IndInv, ChainShape
  <2> QED BY <1>0, <2>1, <2>2
<1> QED BY <1>0, <1>1, <1>2, <1>3, <1>4 DEF Grows

LEMMA ReplaceGrows ==
  ASSUME TypeOK, IndInv, NEW k \in 1 .. Confirmations - 1, Replace(k)
  PROVE  Len(chain) - k \in Nat /\ Grows(Len(chain) - k)
<1>0. chain \in Seq(Block) /\ Len(chain) \in Nat /\ forks \in Nat /\ k \in Nat /\ k > 0
  BY Shape, Constants
<1> DEFINE m == Len(chain) - k
           c == SubSeq(chain, 1, m)
<1>1. m \in Nat /\ m >= FinalHeight /\ m < Len(chain) /\ k + 1 \in Nat /\ m + (k + 1) = Len(chain) + 1
  BY <1>0, Constants DEF Replace, FinalHeight, Tip, Larger
<1>2. /\ chain' \in Extensions(c, k + 1, forks + 1) /\ forks' = forks + 1 /\ forks < MaxForks
      /\ UNCHANGED <<db, scanner, torn>>
  BY DEF Replace, Tip
<1> HIDE DEF m
<1>3. c \in Seq(Block) /\ Len(c) = m /\ \A i \in 1 .. m : c[i] = chain[i]
  <2>1. \A i \in 1 .. m : chain[i] \in Block
    BY <1>0, <1>1, ElementOfSeq
  <2>2. /\ c \in Seq(Block)
        /\ Len(c) = IF 1 <= m THEN m - 1 + 1 ELSE 0
        /\ \A i \in 1 .. m - 1 + 1 : c[i] = chain[1 + i - 1]
    BY <1>1, <2>1, SubSeqProperties
  <2> HIDE DEF c
  <2>3. Len(c) = m /\ \A i \in 1 .. m : c[i] = chain[i]
    BY <1>1, <2>2
  <2> QED BY <2>2, <2>3
<1> HIDE DEF c
<1>4. /\ chain' \in Seq(Block) /\ Len(chain') = Len(chain) + 1
      /\ \A i \in 1 .. m : chain'[i] = chain[i]
      /\ \A i \in 1 .. Len(chain) + 1 : i > m =>
           /\ chain'[i].fork = forks + 1
           /\ \A j \in 1 .. Len(chain) + 1 : i # j => chain'[i].outputs \intersect chain'[j].outputs = {}
  <2>1. forks + 1 \in Nat
    BY <1>0
  <2>2. /\ chain' \in Seq(Block) /\ Len(chain') = Len(c) + (k + 1)
        /\ \A i \in 1 .. Len(c) : chain'[i] = c[i]
        /\ \A i \in 1 .. Len(chain') : i > Len(c) =>
             /\ chain'[i].fork = forks + 1
             /\ \A j \in 1 .. Len(chain') : i # j => chain'[i].outputs \intersect chain'[j].outputs = {}
    <3> DEFINE n == k + 1
               fork == forks + 1
    <3>1. c \in Seq(Block) /\ n \in Nat /\ fork \in Nat /\ chain' \in Extensions(c, n, fork)
      BY <1>1, <1>2, <1>3, <2>1
    <3> HIDE DEF n, fork
    <3>2. /\ chain' \in Seq(Block) /\ Len(chain') = Len(c) + n
          /\ \A i \in 1 .. Len(c) : chain'[i] = c[i]
          /\ \A i \in 1 .. Len(chain') : i > Len(c) =>
               /\ chain'[i].fork = fork
               /\ \A j \in 1 .. Len(chain') : i # j => chain'[i].outputs \intersect chain'[j].outputs = {}
      <4>1. \A b \in Seq(Block), l \in Nat, x \in Nat : \A e \in Extensions(b, l, x) :
              /\ e \in Seq(Block) /\ Len(e) = Len(b) + l
              /\ \A i \in 1 .. Len(b) : e[i] = b[i]
              /\ \A i \in 1 .. Len(e) : i > Len(b) =>
                   /\ e[i].fork = x
                   /\ \A j \in 1 .. Len(e) : i # j => e[i].outputs \intersect e[j].outputs = {}
        BY Extended
      <4> QED BY <3>1, <4>1
    <3> QED BY <3>2 DEF n, fork
  <2> QED BY <1>1, <1>3, <2>2
<1>5. ASSUME NEW i \in 1 .. Len(chain) + 1, NEW j \in 1 .. Len(chain) + 1, i # j
      PROVE  chain'[i].outputs \intersect chain'[j].outputs = {}
  <2>1. CASE i > m \/ j > m
    BY <1>4, <1>5, <2>1
  <2>2. CASE i <= m /\ j <= m
    <3>1. i \in 1 .. m /\ j \in 1 .. m /\ i \in 1 .. Len(chain) /\ j \in 1 .. Len(chain)
      BY <1>0, <1>1, <2>2
    <3> QED BY <1>4, <1>5, <3>1 DEF IndInv, ChainShape
  <2> QED BY <1>0, <1>1, <2>1, <2>2
<1>6. forks' \in 0 .. MaxForks /\ forks' >= forks
  BY <1>0, <1>2, Constants
<1>7. Grows(m)
  BY <1>0, <1>1, <1>2, <1>4, <1>5, <1>6 DEF Grows
<1> QED BY <1>1, <1>7 DEF m

ScannerType == [at : {"idle", "compare", "rewind", "scan", "confirm"},
                tip : 0 .. Len(chain), left : 0 .. BatchSize, todo : SUBSET Deposit]

(* The steps that only move the scanner. *)
Quiet ==
  /\ UNCHANGED <<node, db, torn>>
  /\ scanner' \in ScannerType
  /\ scanner'.at # "confirm" => scanner'.todo = {}
  /\ \A d \in scanner'.todo : d \in scanner.todo \/ rows[d].status = "CONFIRMING"

LEMMA QuietSteps ==
  ASSUME TypeOK, IndInv,
         \/ Begin \/ Compare \/ RewindRefused \/ List \/ Done \/ Interrupt
         \/ (\E d \in Deposit : Mismatch(d)) \/ UNCHANGED vars
  PROVE  Quiet
<1>0. /\ Len(chain) \in Nat /\ BatchSize \in Nat /\ Tip = Len(chain)
      /\ scanner \in ScannerType /\ Resting \in ScannerType /\ Resting.todo = {}
      /\ scanner.at # "confirm" => scanner.todo = {}
  <2>1. Len(chain) \in Nat /\ BatchSize \in Nat /\ Tip = Len(chain)
    BY Shape, Constants DEF Tip
  <2>2. scanner \in ScannerType /\ (scanner.at # "confirm" => scanner.todo = {})
    BY DEF TypeOK, ScannerType, IndInv, ScannerShape
  <2> QED BY <2>1, <2>2 DEF Resting, ScannerType
<1>1. CASE Begin
  <2>1. scanner' = [at |-> IF checkpoint.height < 0 THEN "scan" ELSE "compare",
                    tip |-> Len(chain), left |-> BatchSize, todo |-> {}]
    BY <1>0, <1>1 DEF Begin, Resting
  <2>2. scanner' \in ScannerType
    <3> DEFINE l == IF checkpoint.height < 0 THEN "scan" ELSE "compare"
    <3>1. l \in {"scan", "compare"}
      OBVIOUS
    <3> HIDE DEF l
    <3>2. scanner' = [at |-> l, tip |-> Len(chain), left |-> BatchSize, todo |-> {}]
      BY <2>1 DEF l
    <3> QED BY <1>0, <3>1, <3>2 DEF ScannerType
  <2>3. scanner'.todo = {}
    BY <2>1
  <2>4. UNCHANGED <<node, db, torn>>
    BY <1>1 DEF Begin
  <2> QED BY <2>2, <2>3, <2>4 DEF Quiet
<1>2. CASE Compare
  <2>1. scanner' = [scanner EXCEPT !.at = "scan"] \/ scanner' = [scanner EXCEPT !.at = "rewind"]
    BY <1>2 DEF Compare, Goto
  <2>2. scanner' \in ScannerType /\ scanner'.todo = scanner.todo /\ scanner.at = "compare"
    BY <1>0, <1>2, <2>1 DEF ScannerType, Compare
  <2> QED BY <1>0, <1>2, <2>2 DEF Compare, Quiet
<1>3. CASE List
  <2>1. /\ scanner' \in ScannerType /\ scanner'.at = "confirm"
        /\ scanner'.todo = {d \in Deposit : rows[d].status = "CONFIRMING"}
    BY <1>0, <1>3 DEF List, ScannerType
  <2> QED BY <1>3, <2>1 DEF List, Quiet
<1>4. CASE RewindRefused \/ Done \/ Interrupt \/ (\E d \in Deposit : Mismatch(d))
  BY <1>0, <1>4 DEF RewindRefused, Done, Interrupt, Mismatch, Quiet
<1>5. CASE UNCHANGED vars
  BY <1>0, <1>5 DEF vars, Quiet, ScannerType
<1> QED BY <1>1, <1>2, <1>3, <1>4, <1>5

(* A step proof has one case for each of these. *)
LEMMA StepCases ==
  ASSUME TypeOK, IndInv, [Next]_vars, NEW ACTION Case,
    Quiet => Case,
    Rewind => Case,
    Scan => Case,
    \A d \in Deposit : Wait(d) => Case,
    \A d \in Deposit : Credit(d) => Case,
    \A m \in Nat : Grows(m) => Case
  PROVE Case
<1>1. CASE \/ Begin \/ Compare \/ RewindRefused \/ List \/ Done \/ Interrupt
           \/ (\E d \in Deposit : Mismatch(d)) \/ UNCHANGED vars
  BY <1>1, QuietSteps
<1>2. CASE Extend
  <2>1. Grows(Len(chain)) /\ Len(chain) \in Nat
    BY <1>2, ExtendGrows, Shape
  <2> QED BY <2>1
<1>3. ASSUME NEW k \in 1 .. Confirmations - 1, Replace(k) PROVE Case
  <2>1. Len(chain) - k \in Nat /\ Grows(Len(chain) - k)
    BY <1>3, ReplaceGrows
  <2> QED BY <2>1
<1> QED BY <1>1, <1>2, <1>3 DEF Next, Pass

-----------------------------------------------------------------------------
(***************************************************************************)
(* The parts of the inductive invariant, one lemma each.                   *)
(***************************************************************************)
LEMMA InitIndInv == Init => TypeOK /\ IndInv
<1> SUFFICES ASSUME Init PROVE TypeOK /\ IndInv
  OBVIOUS
<1>1. Len(chain) = 0 /\ chain \in Seq(Block)
  BY DEF Init
<1>2. TypeOK
  <2>1. pending \in 0 .. AmountOf(Deposit) /\ available \in 0 .. AmountOf(Deposit)
    BY Amounts DEF Init
  <2>2. /\ rows \in [Deposit -> [status : Status, height : 0 .. Len(chain), fork : 0 .. forks,
                                 confirmations : 0 .. Len(chain)]]
        /\ checkpoint \in [height : -1 .. Len(chain), fork : 0 .. forks]
    BY <1>1 DEF Init, NoRow, NoCheckpoint, Status
  <2>3. scanner \in [at : {"idle", "compare", "rewind", "scan", "confirm"},
                     tip : 0 .. Len(chain), left : 0 .. BatchSize, todo : SUBSET Deposit]
    <3>1. scanner = [at |-> "idle", tip |-> 0, left |-> 0, todo |-> {}]
      BY DEF Init, Resting
    <3>2. 0 \in 0 .. Len(chain) /\ 0 \in 0 .. BatchSize
      BY <1>1, Constants
    <3> QED BY <3>1, <3>2
  <2>4. forks = 0 /\ torn = FALSE
    BY DEF Init
  <2>5. forks \in 0 .. MaxForks
    BY <2>4, Constants
  <2> QED BY <1>1, <2>1, <2>2, <2>3, <2>4, <2>5 DEF TypeOK
<1>3. ChainShape
  BY <1>1 DEF ChainShape
<1>4. \A d \in Deposit : ~ Exists(d) /\ rows[d].status = "none"
  BY DEF Init, Exists, NoRow
<1>5. RowShape /\ ScannerShape
  BY <1>4 DEF RowShape, ScannerShape, Init, Resting
<1>6. FollowShape
  BY <1>1, <1>4 DEF FollowShape, FollowsTo
<1>7. BooksShape
  <2>1. {d \in Deposit : rows[d].status = "CONFIRMING"} = {} /\ {d \in Deposit : rows[d].status = "CREDITED"} = {}
    BY <1>4
  <2> QED BY <2>1, Amounts DEF BooksShape, Init
<1> QED BY <1>2, <1>3, <1>5, <1>6, <1>7 DEF IndInv

LEMMA NextChainShape ==
  ASSUME TypeOK, IndInv, [Next]_vars
  PROVE  ChainShape'
<1>1. ASSUME UNCHANGED node PROVE ChainShape'
  BY <1>1 DEF node, IndInv, ChainShape
<1>2. ASSUME NEW m \in Nat, Grows(m) PROVE ChainShape'
  <2>0. Len(chain) \in Nat /\ forks \in Nat /\ \A n \in 1 .. Len(chain) : chain[n].fork \in Nat /\ chain[n].fork <= forks
    BY Shape
  <2>1. /\ Len(chain') = Len(chain) + 1 /\ m <= Len(chain)
        /\ \A i \in 1 .. m : chain'[i] = chain[i]
        /\ \A i \in 1 .. Len(chain) + 1 : i > m => chain'[i].fork = forks'
        /\ \A i, j \in 1 .. Len(chain) + 1 : i # j => chain'[i].outputs \intersect chain'[j].outputs = {}
        /\ forks' \in Nat /\ forks' >= forks
    BY <1>2, Constants DEF Grows
  <2>2. ASSUME NEW i \in 1 .. Len(chain') PROVE chain'[i].fork <= forks'
    <3>1. CASE i > m
      BY <2>1, <3>1
    <3>2. CASE ~ (i > m)
      <4>1. i \in 1 .. m /\ i \in 1 .. Len(chain)
        BY <2>0, <2>1, <3>2
      <4> QED BY <2>0, <2>1, <4>1
    <3> QED BY <3>1, <3>2
  <2> QED BY <2>1, <2>2 DEF ChainShape
<1> QED BY <1>1, <1>2, StepCases DEF Quiet, Rewind, Scan, Wait, Credit

(* What the steps of the scanner make of a row. *)
LEMMA Rewound ==
  ASSUME TypeOK, IndInv, Rewind
  PROVE  /\ RewindHeight \in Nat /\ RewindHeight <= Len(chain)
         /\ (RewindHeight = 0 /\ checkpoint.height - Confirmations <= 0) \/ RewindHeight = checkpoint.height - Confirmations
         /\ checkpoint' = [height |-> RewindHeight, fork |-> Hash(RewindHeight)]
         /\ \A d \in Deposit :
              IF Exists(d) /\ rows[d].height > RewindHeight
                THEN rows[d].status = "CONFIRMING" /\ rows'[d] = NoRow
                ELSE rows'[d] = rows[d]
<1>0. /\ checkpoint.height \in Int /\ checkpoint.height <= Len(chain) /\ Len(chain) \in Nat
      /\ Confirmations \in Nat /\ Confirmations > 0
  BY Shape, Constants
<1>1. /\ RewindHeight \in Nat /\ RewindHeight <= Len(chain)
      /\ (RewindHeight = 0 /\ checkpoint.height - Confirmations <= 0) \/ RewindHeight = checkpoint.height - Confirmations
  BY <1>0 DEF RewindHeight, Larger
<1>2. \A d \in Deposit : rows[d].status \in {"none", "CONFIRMING", "CREDITED"}
  BY DEF TypeOK, Status
<1>3. \A d \in Above(RewindHeight) : rows[d].status # "CREDITED"
  BY DEF Rewind, Rewinds
<1>4. \A d \in Deposit : d \in Undone(RewindHeight) <=> Exists(d) /\ rows[d].height > RewindHeight
  BY <1>3 DEF Undone, Above, Exists
<1>5. rows' = [d \in Deposit |-> IF d \in Undone(RewindHeight) THEN NoRow ELSE rows[d]]
  BY DEF Rewind
<1>6. \A d \in Undone(RewindHeight) : rows[d].status = "CONFIRMING"
  BY <1>2 DEF Undone, Above
<1>7. checkpoint' = [height |-> RewindHeight, fork |-> Hash(RewindHeight)]
  BY DEF Rewind
<1> QED BY <1>1, <1>4, <1>5, <1>6, <1>7

LEMMA Scanned ==
  ASSUME TypeOK, IndInv, Scan
  PROVE  /\ NextHeight \in 1 .. Len(chain) /\ NextHeight > checkpoint.height
         /\ (checkpoint.height <= 0 /\ NextHeight = 1) \/ NextHeight = checkpoint.height + 1
         /\ checkpoint' = [height |-> NextHeight, fork |-> chain[NextHeight].fork]
         /\ \A d \in Deposit :
              IF d \in chain[NextHeight].outputs /\ ~ Exists(d)
                THEN rows'[d] = [status |-> "CONFIRMING", height |-> NextHeight,
                                 fork |-> chain[NextHeight].fork, confirmations |-> 0]
                ELSE rows'[d] = rows[d]
         /\ scanner' \in ScannerType /\ scanner'.todo = scanner.todo /\ scanner.at = "scan"
         /\ scanner'.at = scanner.at
<1>0. /\ checkpoint.height \in Int /\ checkpoint.height >= -1 /\ Len(chain) \in Nat
      /\ scanner.tip \in Nat /\ scanner.tip <= Len(chain)
  BY Shape
<1>1. NextHeight <= scanner.tip /\ scanner.left > 0
  BY DEF Scan, InBatch
<1>2. /\ NextHeight \in 1 .. Len(chain) /\ NextHeight > checkpoint.height
      /\ (checkpoint.height <= 0 /\ NextHeight = 1) \/ NextHeight = checkpoint.height + 1
  BY <1>0, <1>1 DEF NextHeight, Larger
<1>3. Hash(NextHeight) = chain[NextHeight].fork
  BY <1>2 DEF Hash
<1>4. checkpoint' = [height |-> NextHeight, fork |-> chain[NextHeight].fork]
  BY <1>3 DEF Scan
<1>5. rows' = [d \in Deposit |->
                 IF d \in {e \in chain[NextHeight].outputs : rows[e].status = "none"}
                   THEN [status |-> "CONFIRMING", height |-> NextHeight,
                         fork |-> chain[NextHeight].fork, confirmations |-> 0]
                   ELSE rows[d]]
  BY <1>3 DEF Scan, Observed
<1>6. scanner' = [scanner EXCEPT !.left = scanner.left - 1]
  BY DEF Scan
<1>7. scanner \in ScannerType /\ BatchSize \in Nat
  BY Constants DEF TypeOK, ScannerType
<1>8. scanner' \in ScannerType /\ scanner'.todo = scanner.todo /\ scanner'.at = scanner.at
  BY <1>1, <1>6, <1>7 DEF ScannerType
<1>9. scanner.at = "scan"
  BY DEF Scan
<1> QED BY <1>2, <1>4, <1>5, <1>8, <1>9 DEF Exists

LEMMA Looked ==
  ASSUME TypeOK, IndInv, NEW d \in Deposit, Wait(d) \/ Credit(d)
  PROVE  /\ d \in scanner.todo /\ rows[d].status = "CONFIRMING"
         /\ rows'[d].height = rows[d].height /\ rows'[d].fork = rows[d].fork
         /\ rows'[d].status = IF Wait(d) THEN "CONFIRMING" ELSE "CREDITED"
         /\ \A e \in Deposit : e # d => rows'[e] = rows[e]
         /\ scanner' \in ScannerType /\ scanner'.todo = scanner.todo \ {d} /\ scanner'.at = "confirm"
<1>1. d \in scanner.todo /\ rows[d].status = "CONFIRMING"
  BY DEF Wait, Credit, Lowest, IndInv, ScannerShape
<1>2. rows \in [Deposit -> [status : Status, height : 0 .. Len(chain), fork : 0 .. forks,
                            confirmations : 0 .. Len(chain)]]
  BY DEF TypeOK
<1>3. scanner' = [scanner EXCEPT !.todo = scanner.todo \ {d}]
  BY DEF Wait, Credit, Proceed
<1>4. scanner \in ScannerType
  BY DEF TypeOK, ScannerType
<1>5. scanner' \in ScannerType /\ scanner'.todo = scanner.todo \ {d} /\ scanner'.at = "confirm"
  BY <1>3, <1>4 DEF ScannerType, Wait, Credit
<1> DEFINE c == Larger(rows[d].confirmations, Count(d))
<1>6. Confirmed(d) = [rows[d] EXCEPT !.confirmations = c]
  BY DEF Confirmed
<1> HIDE DEF c
<1>7. CASE Wait(d)
  <2>1. rows' = [rows EXCEPT ![d] = [rows[d] EXCEPT !.confirmations = c]]
    BY <1>6, <1>7 DEF Wait
  <2> QED BY <1>1, <1>2, <1>5, <1>7, <2>1
<1>8. CASE ~ Wait(d)
  <2>1. rows' = [rows EXCEPT ![d] = [[rows[d] EXCEPT !.confirmations = c] EXCEPT !.status = "CREDITED"]]
    BY <1>6, <1>8 DEF Credit
  <2> QED BY <1>1, <1>2, <1>5, <1>8, <2>1
<1> QED BY <1>7, <1>8

LEMMA NextRowShape ==
  ASSUME TypeOK, IndInv, [Next]_vars
  PROVE  RowShape'
<1>0. /\ RowShape /\ Len(chain) \in Nat /\ forks \in Nat
      /\ checkpoint.height \in Int /\ checkpoint.height <= Len(chain)
      /\ \A d \in Deposit : rows[d].height \in Nat /\ rows[d].fork \in Nat /\ rows[d].fork <= forks
  BY Shape DEF IndInv
<1>1. ASSUME UNCHANGED <<node, db>> PROVE RowShape'
  BY <1>0, <1>1 DEF RowShape, Exists, node, db
<1>2. ASSUME Rewind PROVE RowShape'
  <2>1. /\ checkpoint'.height = RewindHeight /\ chain' = chain /\ RewindHeight \in Nat
        /\ \A d \in Deposit :
             IF Exists(d) /\ rows[d].height > RewindHeight
               THEN rows'[d] = NoRow
               ELSE rows'[d] = rows[d]
    BY <1>2, Rewound DEF Rewind, node
  <2>2. ASSUME NEW d \in Deposit, rows'[d].status # "none"
        PROVE  rows'[d] = rows[d] /\ Exists(d) /\ rows[d].height <= RewindHeight
    BY <1>0, <2>1, <2>2 DEF NoRow, Exists
  <2> QED BY <1>0, <2>1, <2>2 DEF RowShape, Exists
<1>3. ASSUME Scan PROVE RowShape'
  <2>1. /\ NextHeight \in 1 .. Len(chain) /\ NextHeight > checkpoint.height
        /\ checkpoint'.height = NextHeight /\ chain' = chain
        /\ \A d \in Deposit :
             IF d \in chain[NextHeight].outputs /\ ~ Exists(d)
               THEN rows'[d] = [status |-> "CONFIRMING", height |-> NextHeight,
                                fork |-> chain[NextHeight].fork, confirmations |-> 0]
               ELSE rows'[d] = rows[d]
    BY <1>3, Scanned DEF Scan, node
  <2>2. ASSUME NEW d \in Deposit, rows'[d].status # "none"
        PROVE  /\ rows'[d].height > 0 /\ rows'[d].height <= NextHeight
               /\ chain[rows'[d].height].fork = rows'[d].fork => d \in chain[rows'[d].height].outputs
    <3>1. CASE d \in chain[NextHeight].outputs /\ ~ Exists(d)
      <4>1. rows'[d].height = NextHeight
        BY <2>1, <3>1
      <4> QED BY <2>1, <3>1, <4>1
    <3>2. CASE ~ (d \in chain[NextHeight].outputs /\ ~ Exists(d))
      <4>1. rows'[d] = rows[d] /\ Exists(d)
        BY <2>1, <2>2, <3>2 DEF Exists
      <4> QED BY <1>0, <2>1, <4>1 DEF RowShape
    <3> QED BY <3>1, <3>2
  <2> QED BY <2>1, <2>2 DEF RowShape, Exists
<1>4. ASSUME NEW d \in Deposit, Wait(d) \/ Credit(d) PROVE RowShape'
  <2>1. \A e \in Deposit : /\ rows'[e].height = rows[e].height /\ rows'[e].fork = rows[e].fork
                           /\ Exists(e) \/ rows'[e] = rows[e]
    BY <1>4, Looked DEF Exists
  <2>2. checkpoint' = checkpoint /\ chain' = chain
    BY <1>4 DEF Wait, Credit, node
  <2> QED BY <1>0, <2>1, <2>2 DEF RowShape, Exists
<1>5. ASSUME NEW m \in Nat, Grows(m) PROVE RowShape'
  <2>1. /\ m <= Len(chain) /\ rows' = rows /\ checkpoint' = checkpoint
        /\ \A i \in 1 .. m : chain'[i] = chain[i]
        /\ \A i \in 1 .. Len(chain) + 1 : i > m => chain'[i].fork = forks'
        /\ m < Len(chain) => forks' = forks + 1
    BY <1>5 DEF Grows, db
  <2>2. ASSUME NEW d \in Deposit, Exists(d), chain'[rows[d].height].fork = rows[d].fork
        PROVE  d \in chain'[rows[d].height].outputs
    <3>1. rows[d].height \in 1 .. Len(chain)
      BY <1>0, <2>2 DEF RowShape
    <3>2. rows[d].height <= m
      BY <1>0, <2>1, <2>2, <3>1
    <3>3. chain'[rows[d].height] = chain[rows[d].height]
      BY <2>1, <3>1, <3>2
    <3> QED BY <1>0, <2>2, <3>3 DEF RowShape
  <2> QED BY <1>0, <2>1, <2>2 DEF RowShape, Exists
<1> QED BY <1>1, <1>2, <1>3, <1>4, <1>5, StepCases DEF Quiet

(* Rows that follow the chain up to a height follow it up to a lower one. *)
LEMMA FollowLess ==
  ASSUME Len(chain) \in Nat, \A d \in Deposit : rows[d].height \in Nat, RowShape,
         NEW m \in Int, NEW n \in Int, n <= m, FollowsTo(m)
  PROVE  FollowsTo(n)
<1>1. ASSUME NEW d \in Deposit, Exists(d), rows[d].height <= n
      PROVE  \E h \in 1 .. Len(chain) : h <= n /\ d \in chain[h].outputs
  <2>1. PICK h \in 1 .. Len(chain) : h <= m /\ d \in chain[h].outputs
    BY <1>1 DEF FollowsTo
  <2>2. rows[d].height = h
    BY <2>1 DEF FollowsTo
  <2> QED BY <1>1, <2>1, <2>2
<1>2. ASSUME NEW d \in Deposit, NEW h \in 1 .. Len(chain), h <= n, d \in chain[h].outputs
      PROVE  Exists(d) /\ rows[d].height = h /\ rows[d].fork = Hash(h)
  BY <1>2 DEF FollowsTo
<1> QED BY <1>1, <1>2 DEF FollowsTo

(* Following up to the checkpoint is following up to the window as well. *)
LEMMA FollowsEnough ==
  ASSUME Len(chain) \in Nat, \A d \in Deposit : rows[d].height \in Nat, RowShape,
         checkpoint.height \in Int, FollowsTo(checkpoint.height)
  PROVE  FollowShape
<1> DEFINE n == checkpoint.height - Confirmations + 1
<1>1. n \in Int /\ n <= checkpoint.height
  BY Constants
<1> HIDE DEF n
<1>2. FollowsTo(n)
  BY <1>1, FollowLess
<1> QED BY <1>2 DEF FollowShape, n

LEMMA RewindFollows ==
  ASSUME TypeOK, IndInv, Rewind, ~ torn
  PROVE  FollowsTo(checkpoint.height)'
<1>0. /\ RowShape /\ FollowsTo(checkpoint.height - Confirmations + 1)
      /\ Len(chain) \in Nat /\ checkpoint.height \in Int /\ Confirmations \in Nat
      /\ \A d \in Deposit : rows[d].height \in Nat
  BY Shape, Constants DEF IndInv, FollowShape
<1>1. /\ checkpoint'.height = RewindHeight /\ chain' = chain /\ RewindHeight \in Nat
      /\ (RewindHeight = 0 /\ checkpoint.height - Confirmations <= 0) \/ RewindHeight = checkpoint.height - Confirmations
      /\ \A d \in Deposit :
           IF Exists(d) /\ rows[d].height > RewindHeight
             THEN rows'[d] = NoRow
             ELSE rows'[d] = rows[d]
  BY Rewound DEF Rewind, node
<1>2. FollowsTo(RewindHeight)
  <2>1. CASE RewindHeight = checkpoint.height - Confirmations
    <3> DEFINE n == checkpoint.height - Confirmations + 1
    <3>1. n \in Int /\ RewindHeight <= n /\ FollowsTo(n)
      BY <1>0, <2>1
    <3> HIDE DEF n
    <3> QED BY <1>0, <1>1, <3>1, FollowLess
  <2>2. CASE RewindHeight = 0
    BY <1>0, <2>2 DEF FollowsTo, RowShape
  <2> QED BY <1>1, <2>1, <2>2
<1>3. ASSUME NEW d \in Deposit, rows'[d].status # "none", rows'[d].height <= RewindHeight
      PROVE  \E h \in 1 .. Len(chain) : h <= RewindHeight /\ d \in chain[h].outputs
  <2>1. rows'[d] = rows[d]
    BY <1>1, <1>3 DEF NoRow
  <2> QED BY <1>2, <1>3, <2>1 DEF FollowsTo, Exists
<1>4. ASSUME NEW d \in Deposit, NEW h \in 1 .. Len(chain), h <= RewindHeight, d \in chain[h].outputs
      PROVE  rows'[d].status # "none" /\ rows'[d].height = h /\ rows'[d].fork = Hash(h)
  <2>1. Exists(d) /\ rows[d].height = h /\ rows[d].fork = Hash(h)
    BY <1>2, <1>4 DEF FollowsTo
  <2>2. rows'[d] = rows[d]
    BY <1>1, <1>4, <2>1
  <2> QED BY <2>1, <2>2 DEF Exists
<1> QED BY <1>1, <1>3, <1>4 DEF FollowsTo, Exists, Hash

LEMMA ScanFollows ==
  ASSUME TypeOK, IndInv, Scan, ~ torn, OnCheckpoint
  PROVE  FollowsTo(checkpoint.height)'
<1>0. /\ RowShape /\ ChainShape /\ FollowsTo(checkpoint.height)
      /\ Len(chain) \in Nat /\ checkpoint.height \in Int
      /\ \A d \in Deposit : rows[d].height \in Nat
      /\ \A n \in 1 .. Len(chain) : chain[n].outputs \subseteq Deposit
  BY Shape DEF IndInv, FollowShape
<1>1. /\ NextHeight \in 1 .. Len(chain) /\ NextHeight > checkpoint.height
      /\ (checkpoint.height <= 0 /\ NextHeight = 1) \/ NextHeight = checkpoint.height + 1
      /\ checkpoint'.height = NextHeight /\ chain' = chain
      /\ \A d \in Deposit :
           IF d \in chain[NextHeight].outputs /\ ~ Exists(d)
             THEN rows'[d] = [status |-> "CONFIRMING", height |-> NextHeight,
                              fork |-> chain[NextHeight].fork, confirmations |-> 0]
             ELSE rows'[d] = rows[d]
  BY Scanned DEF Scan, node
<1>2. ASSUME NEW d \in Deposit, rows'[d].status # "none"
      PROVE  \E h \in 1 .. Len(chain) : h <= NextHeight /\ d \in chain[h].outputs
  <2>1. CASE d \in chain[NextHeight].outputs
    BY <1>1, <2>1
  <2>2. CASE d \notin chain[NextHeight].outputs
    <3>1. Exists(d) /\ rows[d].height <= checkpoint.height
      BY <1>0, <1>1, <1>2, <2>2 DEF Exists, RowShape
    <3>2. PICK h \in 1 .. Len(chain) : h <= checkpoint.height /\ d \in chain[h].outputs
      BY <1>0, <3>1 DEF FollowsTo
    <3> QED BY <1>0, <1>1, <3>2
  <2> QED BY <2>1, <2>2
<1>3. ASSUME NEW d \in Deposit, NEW h \in 1 .. Len(chain), h <= NextHeight, d \in chain[h].outputs
      PROVE  rows'[d].status # "none" /\ rows'[d].height = h /\ rows'[d].fork = chain[h].fork
  <2>1. CASE h <= checkpoint.height
    <3>1. Exists(d) /\ rows[d].height = h /\ rows[d].fork = Hash(h)
      BY <1>0, <1>3, <2>1 DEF FollowsTo
    <3>2. rows'[d] = rows[d] /\ Hash(h) = chain[h].fork
      BY <1>1, <3>1 DEF Hash
    <3> QED BY <3>1, <3>2 DEF Exists
  <2>2. CASE h > checkpoint.height
    <3>1. h = NextHeight
      BY <1>0, <1>1, <1>3, <2>2
    <3>2. ~ Exists(d)
      <4> SUFFICES ASSUME Exists(d) PROVE FALSE
        OBVIOUS
      <4>1. rows[d].height <= checkpoint.height
        BY <1>0 DEF RowShape
      <4>2. PICK i \in 1 .. Len(chain) : i <= checkpoint.height /\ d \in chain[i].outputs
        BY <1>0, <4>1 DEF FollowsTo
      <4>3. i # h
        BY <1>0, <2>2, <4>2
      <4> QED BY <1>0, <1>3, <4>2, <4>3 DEF ChainShape
    <3> QED BY <1>1, <1>3, <3>1, <3>2
  <2> QED BY <1>0, <2>1, <2>2
<1>4. \A h \in 1 .. Len(chain) : Hash(h)' = chain[h].fork
  BY <1>1 DEF Hash
<1> QED BY <1>1, <1>2, <1>3, <1>4 DEF FollowsTo, Exists

(* What follows depends on each row's height and hash, and on the chain up *)
(* to there.                                                               *)
LEMMA FollowsSame ==
  ASSUME NEW n \in Int, Len(chain) \in Nat, Len(chain') \in Nat, Len(chain) <= Len(chain'),
         FollowsTo(n),
         \A h \in 1 .. Len(chain') : h <= n => h <= Len(chain) /\ chain'[h] = chain[h],
         \A d \in Deposit : /\ rows'[d].status # "none" <=> Exists(d)
                            /\ rows'[d].height = rows[d].height /\ rows'[d].fork = rows[d].fork
  PROVE  FollowsTo(n)'
<1>1. \A h \in 1 .. Len(chain) : h \in 1 .. Len(chain')
  OBVIOUS
<1>2. ASSUME NEW h \in 1 .. Len(chain'), h <= n
      PROVE  h \in 1 .. Len(chain) /\ chain'[h] = chain[h] /\ Hash(h)' = Hash(h)
  BY <1>2 DEF Hash
<1>3. ASSUME NEW d \in Deposit, rows'[d].status # "none", rows'[d].height <= n
      PROVE  \E h \in 1 .. Len(chain') : h <= n /\ d \in chain'[h].outputs
  <2>1. PICK h \in 1 .. Len(chain) : h <= n /\ d \in chain[h].outputs
    BY <1>3 DEF FollowsTo
  <2> QED BY <1>1, <1>2, <2>1
<1>4. ASSUME NEW d \in Deposit, NEW h \in 1 .. Len(chain'), h <= n, d \in chain'[h].outputs
      PROVE  rows'[d].status # "none" /\ rows'[d].height = h /\ rows'[d].fork = Hash(h)'
  <2>1. Exists(d) /\ rows[d].height = h /\ rows[d].fork = Hash(h)
    BY <1>2, <1>4 DEF FollowsTo
  <2> QED BY <1>2, <1>4, <2>1
<1> QED BY <1>3, <1>4 DEF FollowsTo, Exists

LEMMA Positive ==
  TypeOK /\ IndInv => /\ Len(chain) \in Nat /\ checkpoint.height \in Int /\ RowShape
                      /\ \A d \in Deposit : rows[d].height \in Nat
BY Shape DEF IndInv

LEMMA FollowsEnoughHere ==
  Len(chain) \in Nat /\ (\A d \in Deposit : rows[d].height \in Nat) /\ RowShape
    /\ checkpoint.height \in Int /\ FollowsTo(checkpoint.height) => FollowShape
BY FollowsEnough

LEMMA NextFollowShape ==
  ASSUME TypeOK, IndInv, [Next]_vars
  PROVE  FollowShape'
<1>0. /\ FollowShape /\ Len(chain) \in Nat /\ forks \in Nat /\ Confirmations \in Nat /\ Confirmations > 0
      /\ checkpoint.height \in Int /\ checkpoint.height <= Len(chain)
      /\ checkpoint.fork \in Nat /\ checkpoint.fork <= forks
      /\ \A d \in Deposit : rows[d].height \in Nat
  BY Shape, Constants DEF IndInv
<1> DEFINE n == checkpoint.height - Confirmations + 1
<1>1. ASSUME UNCHANGED <<node, db, torn>> PROVE FollowShape'
  <2>1. chain' = chain /\ rows' = rows /\ checkpoint' = checkpoint /\ torn' = torn
    BY <1>1 DEF node, db
  <2> QED BY <1>0, <2>1 DEF FollowShape, FollowsTo, Exists, OnCheckpoint, Hash
<1>2. ASSUME Rewind \/ Scan PROVE FollowShape'
  <2>1. RowShape'
    BY NextRowShape
  <2>2. Len(chain)' \in Nat /\ checkpoint'.height \in Int /\ \A d \in Deposit : rows'[d].height \in Nat
    <3>1. CASE Rewind
      <4>1. /\ checkpoint'.height = RewindHeight /\ RewindHeight \in Nat /\ chain' = chain
            /\ \A d \in Deposit : rows'[d] = NoRow \/ rows'[d] = rows[d]
        BY <3>1, Rewound DEF Rewind, node
      <4> QED BY <1>0, <4>1 DEF NoRow
    <3>2. CASE Scan
      <4>1. /\ checkpoint'.height = NextHeight /\ NextHeight \in Nat /\ chain' = chain
            /\ \A d \in Deposit : rows'[d].height = NextHeight \/ rows'[d] = rows[d]
        BY <3>2, Scanned DEF Scan, node
      <4> QED BY <1>0, <4>1
    <3> QED BY <1>2, <3>1, <3>2
  <2>3. ASSUME ~ torn' PROVE FollowsTo(checkpoint.height)'
    <3>1. CASE Rewind
      <4>1. ~ torn
        BY <2>3, <3>1 DEF Rewind
      <4> QED BY <3>1, <4>1, RewindFollows
    <3>2. CASE Scan
      <4>1. ~ torn /\ OnCheckpoint
        BY <2>3, <3>2 DEF Scan
      <4> QED BY <3>2, <4>1, ScanFollows
    <3> QED BY <1>2, <3>1, <3>2
  <2>4. CASE torn'
    BY <2>4 DEF FollowShape
  <2>5. CASE ~ torn'
    <3>1. FollowsTo(checkpoint.height)'
      BY <2>3, <2>5
    <3>2. (Len(chain) \in Nat /\ (\A d \in Deposit : rows[d].height \in Nat) /\ RowShape
            /\ checkpoint.height \in Int /\ FollowsTo(checkpoint.height) => FollowShape)'
      BY FollowsEnoughHere, PTL
    <3> QED BY <2>1, <2>2, <3>1, <3>2
  <2> QED BY <2>4, <2>5
<1>3. ASSUME NEW d \in Deposit, Wait(d) \/ Credit(d) PROVE FollowShape'
  <2>1. /\ \A e \in Deposit : /\ rows'[e].status # "none" <=> Exists(e)
                              /\ rows'[e].height = rows[e].height /\ rows'[e].fork = rows[e].fork
        /\ chain' = chain /\ checkpoint' = checkpoint /\ torn' = torn
    <3>1. chain' = chain /\ checkpoint' = checkpoint /\ torn' = torn
      BY <1>3 DEF Wait, Credit, node
    <3>2. /\ rows[d].status = "CONFIRMING" /\ rows'[d].status # "none"
          /\ rows'[d].height = rows[d].height /\ rows'[d].fork = rows[d].fork
          /\ \A e \in Deposit : e # d => rows'[e] = rows[e]
      BY <1>3, Looked
    <3> QED BY <3>1, <3>2 DEF Exists
  <2>2. ASSUME NEW k \in Int, FollowsTo(k) PROVE FollowsTo(k)'
    BY <1>0, <2>1, <2>2, FollowsSame
  <2>3. n \in Int /\ n' = n /\ checkpoint'.height = checkpoint.height
    BY <1>0, <2>1
  <2>4. OnCheckpoint' <=> OnCheckpoint
    BY <2>1 DEF OnCheckpoint, Hash
  <2> QED BY <1>0, <2>1, <2>2, <2>3, <2>4 DEF FollowShape
<1>4. ASSUME NEW m \in Nat, Grows(m) PROVE FollowShape'
  <2>1. /\ m <= Len(chain) /\ m >= FinalHeight /\ rows' = rows /\ checkpoint' = checkpoint /\ torn' = torn
        /\ Len(chain') = Len(chain) + 1
        /\ \A i \in 1 .. m : chain'[i] = chain[i]
        /\ \A i \in 1 .. Len(chain) + 1 : i > m => chain'[i].fork = forks'
        /\ m < Len(chain) => forks' = forks + 1
    BY <1>4 DEF Grows, db
  <2>2. ASSUME NEW k \in Int, k <= m, FollowsTo(k) PROVE FollowsTo(k)'
    <3>1. \A h \in 1 .. Len(chain') : h <= k => h \in 1 .. m /\ h <= Len(chain) /\ chain'[h] = chain[h]
      BY <1>0, <2>1, <2>2
    <3> QED BY <1>0, <2>1, <2>2, <3>1, FollowsSame DEF Exists
  <2>3. n \in Int /\ n <= m /\ n' = n
    BY <1>0, <2>1 DEF FinalHeight, Tip
  <2>4. ASSUME OnCheckpoint' PROVE OnCheckpoint /\ checkpoint.height <= m
    <3>1. checkpoint.height < 0
            \/ (IF checkpoint.height <= 0 THEN 0 ELSE chain'[checkpoint.height].fork) = checkpoint.fork
      BY <2>1, <2>4 DEF OnCheckpoint, Hash
    <3>2. CASE checkpoint.height <= 0
      BY <1>0, <3>1, <3>2 DEF OnCheckpoint, Hash
    <3>3. CASE checkpoint.height > 0
      <4>1. chain'[checkpoint.height].fork = checkpoint.fork
        BY <1>0, <3>1, <3>3
      <4>2. checkpoint.height <= m
        BY <1>0, <2>1, <3>3, <4>1
      <4> QED BY <1>0, <2>1, <3>3, <4>1, <4>2 DEF OnCheckpoint, Hash
    <3> QED BY <1>0, <3>2, <3>3
  <2> HIDE DEF n
  <2>5. ~ torn' => FollowsTo(n)'
    BY <1>0, <2>1, <2>2, <2>3 DEF FollowShape, n
  <2>6. ~ torn' /\ OnCheckpoint' => FollowsTo(checkpoint.height)'
    <3> SUFFICES ASSUME ~ torn', OnCheckpoint' PROVE FollowsTo(checkpoint.height)'
      OBVIOUS
    <3> DEFINE k == checkpoint.height
    <3>1. k \in Int /\ k <= m /\ FollowsTo(k) /\ k' = k
      BY <1>0, <2>1, <2>4 DEF FollowShape
    <3> HIDE DEF k
    <3>2. FollowsTo(k)'
      BY <2>2, <3>1
    <3> QED BY <3>2 DEF k
  <2> QED BY <2>5, <2>6 DEF FollowShape, n
<1> QED BY <1>1, <1>2, <1>3, <1>4, StepCases DEF Quiet

LEMMA NextScannerShape ==
  ASSUME TypeOK, IndInv, [Next]_vars
  PROVE  ScannerShape'
<1>0. ScannerShape /\ scanner.todo \subseteq Deposit
  BY Shape DEF IndInv
<1>1. ASSUME Quiet PROVE ScannerShape'
  <2>1. rows' = rows
    BY <1>1 DEF Quiet, db
  <2> QED BY <1>0, <1>1, <2>1 DEF Quiet, ScannerShape
<1>2. ASSUME Rewind PROVE ScannerShape'
  <2>1. scanner.at = "rewind" /\ scanner' = [scanner EXCEPT !.at = "scan"]
    BY <1>2 DEF Rewind, Goto
  <2>2. scanner'.todo = {}
    BY <1>0, <2>1 DEF TypeOK, ScannerShape
  <2> QED BY <2>2 DEF ScannerShape
<1>3. ASSUME Scan PROVE ScannerShape'
  <2>1. /\ scanner'.todo = scanner.todo /\ scanner'.at = scanner.at
        /\ \A d \in Deposit : rows'[d].status = "CONFIRMING" \/ rows'[d] = rows[d]
    BY <1>3, Scanned
  <2> QED BY <1>0, <2>1 DEF ScannerShape
<1>4. ASSUME NEW d \in Deposit, Wait(d) \/ Credit(d) PROVE ScannerShape'
  <2>1. scanner'.todo = scanner.todo \ {d} /\ scanner'.at = "confirm" /\ \A e \in Deposit : e # d => rows'[e] = rows[e]
    BY <1>4, Looked
  <2> QED BY <1>0, <2>1 DEF ScannerShape
<1>5. ASSUME NEW m \in Nat, Grows(m) PROVE ScannerShape'
  <2>1. rows' = rows /\ scanner' = scanner
    BY <1>5 DEF Grows, db
  <2> QED BY <1>0, <2>1 DEF ScannerShape
<1> QED BY <1>1, <1>2, <1>3, <1>4, <1>5, StepCases

LEMMA NextBooksShape ==
  ASSUME TypeOK, IndInv, [Next]_vars
  PROVE  BooksShape'
<1> DEFINE held == {d \in Deposit : rows[d].status = "CONFIRMING"}
           paid == {d \in Deposit : rows[d].status = "CREDITED"}
<1>0. pending = AmountOf(held) /\ available = AmountOf(paid)
  BY DEF IndInv, BooksShape
<1>1. ASSUME UNCHANGED db PROVE BooksShape'
  BY <1>0, <1>1 DEF BooksShape, db
<1>2. ASSUME Rewind PROVE BooksShape'
  <2>0. PICK gone : gone = Undone(RewindHeight)
    OBVIOUS
  <2>1. /\ rows' = [d \in Deposit |-> IF d \in gone THEN NoRow ELSE rows[d]]
        /\ pending' = pending - AmountOf(gone) /\ available' = available
    BY <1>2, <2>0 DEF Rewind
  <2>2. gone \in SUBSET held
    BY <2>0 DEF Undone, Above, TypeOK, Status
  <2>3. NoRow.status = "none"
    BY DEF NoRow
  <2>4. held' = held \ gone /\ paid' = paid
    BY <2>1, <2>2, <2>3
  <2>5. AmountOf(held \ gone) = AmountOf(held) - AmountOf(gone)
    BY <2>2, AmountWithout
  <2> QED BY <1>0, <2>1, <2>4, <2>5 DEF BooksShape
<1>3. ASSUME Scan PROVE BooksShape'
  <2>0. PICK new : new = {d \in Observed(NextHeight) : rows[d].status = "none"}
    OBVIOUS
  <2>1. /\ \A d \in Deposit : IF d \in new THEN rows'[d].status = "CONFIRMING" ELSE rows'[d] = rows[d]
        /\ pending' = pending + AmountOf(new) /\ available' = available
    BY <1>3, <2>0 DEF Scan
  <2>2. NextHeight \in 1 .. Len(chain)
    BY <1>3, Scanned
  <2>3. new \subseteq Deposit /\ \A d \in new : rows[d].status = "none"
    BY <2>0, <2>2, Shape DEF Observed
  <2>4. held' = held \union new /\ held \intersect new = {} /\ paid' = paid
    BY <2>1, <2>3
  <2>5. AmountOf(held \union new) = AmountOf(held) + AmountOf(new)
    BY <2>4, Amounts
  <2> QED BY <1>0, <2>1, <2>4, <2>5 DEF BooksShape
<1>4. ASSUME NEW d \in Deposit, Wait(d) PROVE BooksShape'
  <2>1. \A e \in Deposit : rows'[e].status = rows[e].status
    BY <1>4, Looked
  <2>2. held' = held /\ paid' = paid
    BY <2>1
  <2>3. pending' = pending /\ available' = available
    BY <1>4 DEF Wait
  <2> QED BY <1>0, <2>2, <2>3 DEF BooksShape
<1>5. ASSUME NEW d \in Deposit, Credit(d) PROVE BooksShape'
  <2>1. /\ rows[d].status = "CONFIRMING" /\ \A e \in Deposit : e # d => rows'[e] = rows[e]
        /\ ~ Wait(d) => rows'[d].status = "CREDITED"
    BY <1>5, Looked
  <2>2. /\ pending' = pending - Amount[d] /\ available' = available + Amount[d]
        /\ Count(d) >= Confirmations
    BY <1>5 DEF Credit
  <2>3. ~ Wait(d)
    <3>1. Count(d) \in Int /\ Confirmations \in Int
      BY Shape, Constants DEF Count
    <3> QED BY <2>2, <3>1 DEF Wait
  <2>4. held' = held \ {d} /\ {d} \in SUBSET held /\ paid' = paid \union {d} /\ paid \intersect {d} = {}
    BY <2>1, <2>3
  <2>5. AmountOf(held \ {d}) = AmountOf(held) - AmountOf({d})
    BY <2>4, AmountWithout
  <2>6. AmountOf(paid \union {d}) = AmountOf(paid) + AmountOf({d}) /\ AmountOf({d}) = Amount[d]
    BY <2>4, Amounts
  <2> QED BY <1>0, <2>2, <2>4, <2>5, <2>6 DEF BooksShape
<1> QED BY <1>1, <1>2, <1>3, <1>4, <1>5, StepCases DEF Quiet, Grows

-----------------------------------------------------------------------------
(***************************************************************************)
(* The safety theorems.                                                    *)
(***************************************************************************)
LEMMA NextIndInv == TypeOK /\ IndInv /\ [Next]_vars => IndInv'
BY NextChainShape, NextRowShape, NextFollowShape, NextScannerShape, NextBooksShape DEF IndInv

LEMMA NextScannerType ==
  ASSUME TypeOK, IndInv, [Next]_vars
  PROVE  scanner' \in [at : {"idle", "compare", "rewind", "scan", "confirm"},
                       tip : 0 .. Len(chain'), left : 0 .. BatchSize, todo : SUBSET Deposit]
<1>0. Len(chain) \in Nat /\ scanner \in ScannerType
  BY Shape DEF TypeOK, ScannerType
<1>1. ASSUME scanner' \in ScannerType, chain' = chain
      PROVE  scanner' \in [at : {"idle", "compare", "rewind", "scan", "confirm"},
                           tip : 0 .. Len(chain'), left : 0 .. BatchSize, todo : SUBSET Deposit]
  BY <1>1 DEF ScannerType
<1>2. ASSUME Rewind PROVE scanner' \in ScannerType
  <2>1. scanner' = [scanner EXCEPT !.at = "scan"]
    BY <1>2 DEF Rewind, Goto
  <2> QED BY <1>0, <2>1 DEF ScannerType
<1>3. ASSUME NEW m \in Nat, Grows(m)
      PROVE  scanner' \in [at : {"idle", "compare", "rewind", "scan", "confirm"},
                           tip : 0 .. Len(chain'), left : 0 .. BatchSize, todo : SUBSET Deposit]
  <2>1. scanner' = scanner /\ Len(chain') = Len(chain) + 1
    BY <1>3 DEF Grows
  <2>2. \A i \in 0 .. Len(chain) : i \in 0 .. Len(chain')
    BY <1>0, <2>1
  <2> QED BY <1>0, <2>1, <2>2 DEF ScannerType
<1> QED BY <1>1, <1>2, <1>3, StepCases, Scanned, Looked
        DEF Quiet, Rewind, Scan, Wait, Credit, node

RowType(length, fork) ==
  [status : Status, height : 0 .. length, fork : 0 .. fork, confirmations : 0 .. length]

LEMMA RowTypes ==
  TypeOK => /\ rows \in [Deposit -> RowType(Len(chain), forks)]
            /\ checkpoint \in [height : -1 .. Len(chain), fork : 0 .. forks]
            /\ torn \in BOOLEAN
BY DEF TypeOK, RowType

LEMMA HashType ==
  TypeOK /\ IndInv => \A h \in Nat : h <= Len(chain) => Hash(h) \in 0 .. forks
<1> SUFFICES ASSUME TypeOK, IndInv, NEW h \in Nat, h <= Len(chain) PROVE Hash(h) \in 0 .. forks
  OBVIOUS
<1>1. /\ Len(chain) \in Nat /\ forks \in Nat
      /\ \A n \in 1 .. Len(chain) : chain[n].fork \in Nat /\ chain[n].fork <= forks
  BY Shape
<1> QED BY <1>1 DEF Hash

LEMMA NextRowType ==
  ASSUME TypeOK, IndInv, [Next]_vars
  PROVE  /\ rows' \in [Deposit -> RowType(Len(chain'), forks')]
         /\ checkpoint' \in [height : -1 .. Len(chain'), fork : 0 .. forks']
<1> DEFINE Goal == /\ rows' \in [Deposit -> RowType(Len(chain'), forks')]
                   /\ checkpoint' \in [height : -1 .. Len(chain'), fork : 0 .. forks']
<1>0. /\ Len(chain) \in Nat /\ forks \in Nat /\ rows \in [Deposit -> RowType(Len(chain), forks)]
      /\ checkpoint \in [height : -1 .. Len(chain), fork : 0 .. forks]
  BY Shape, RowTypes
<1>1. ASSUME UNCHANGED <<node, db>> PROVE Goal
  BY <1>0, <1>1 DEF node, db
<1>2. ASSUME Rewind PROVE Goal
  <2>1. /\ RewindHeight \in Nat /\ RewindHeight <= Len(chain) /\ Hash(RewindHeight) \in 0 .. forks
        /\ checkpoint' = [height |-> RewindHeight, fork |-> Hash(RewindHeight)]
    BY <1>2, Rewound, HashType
  <2>2. NoRow \in RowType(Len(chain), forks)
    BY <1>0 DEF NoRow, RowType, Status
  <2>3. chain' = chain /\ forks' = forks
    BY <1>2 DEF Rewind, node
  <2>4. rows' = [d \in Deposit |-> IF d \in Undone(RewindHeight) THEN NoRow ELSE rows[d]]
    BY <1>2 DEF Rewind
  <2>5. rows' \in [Deposit -> RowType(Len(chain), forks)]
    BY <1>0, <2>2, <2>4
  <2> QED BY <1>0, <2>1, <2>3, <2>5
<1>3. ASSUME Scan PROVE Goal
  <2>1. /\ NextHeight \in 1 .. Len(chain)
        /\ checkpoint' = [height |-> NextHeight, fork |-> Hash(NextHeight)]
        /\ Hash(NextHeight) \in 0 .. forks
    BY <1>0, <1>3, Scanned, HashType DEF Scan
  <2> DEFINE row == [status |-> "CONFIRMING", height |-> NextHeight,
                     fork |-> Hash(NextHeight), confirmations |-> 0]
  <2>2. row \in RowType(Len(chain), forks)
    BY <1>0, <2>1 DEF RowType, Status
  <2>3. rows' = [d \in Deposit |-> IF d \in {e \in Observed(NextHeight) : rows[e].status = "none"}
                                   THEN row ELSE rows[d]]
    BY <1>3 DEF Scan
  <2>4. chain' = chain /\ forks' = forks
    BY <1>3 DEF Scan, node
  <2> HIDE DEF row
  <2>5. rows' \in [Deposit -> RowType(Len(chain), forks)]
    BY <1>0, <2>2, <2>3
  <2> QED BY <1>0, <2>1, <2>4, <2>5
<1>4. ASSUME NEW d \in Deposit, Wait(d) \/ Credit(d) PROVE Goal
  <2> DEFINE k == Larger(rows[d].confirmations, Count(d))
  <2>1. k \in 0 .. Len(chain)
    <3>1. /\ rows[d].height \in Nat /\ rows[d].confirmations \in 0 .. Len(chain)
          /\ scanner.tip \in Nat /\ scanner.tip <= Len(chain)
      BY <1>0, Shape DEF RowType
    <3>2. rows[d].height > 0
      BY <1>4, Looked DEF IndInv, RowShape, Exists
    <3>3. Count(d) \in 0 .. Len(chain)
      BY <1>0, <3>1, <3>2 DEF Count
    <3> QED BY <3>1, <3>3 DEF Larger
  <2>2. chain' = chain /\ forks' = forks /\ checkpoint' = checkpoint
    BY <1>4 DEF Wait, Credit, node
  <2>3. Confirmed(d) = [rows[d] EXCEPT !.confirmations = k]
    BY DEF Confirmed
  <2> HIDE DEF k
  <2>4. \/ rows' = [rows EXCEPT ![d] = [rows[d] EXCEPT !.confirmations = k]]
        \/ rows' = [rows EXCEPT ![d] = [[rows[d] EXCEPT !.confirmations = k] EXCEPT !.status = "CREDITED"]]
    BY <1>4, <2>3 DEF Wait, Credit
  <2>5. /\ rows[d] \in RowType(Len(chain), forks)
        /\ [rows[d] EXCEPT !.confirmations = k] \in RowType(Len(chain), forks)
        /\ [[rows[d] EXCEPT !.confirmations = k] EXCEPT !.status = "CREDITED"] \in RowType(Len(chain), forks)
    BY <1>0, <2>1 DEF RowType, Status
  <2>6. rows' \in [Deposit -> RowType(Len(chain), forks)]
    BY <1>0, <2>4, <2>5
  <2> QED BY <1>0, <2>2, <2>6
<1>5. ASSUME NEW m \in Nat, Grows(m) PROVE Goal
  <2>1. rows' = rows /\ checkpoint' = checkpoint /\ Len(chain') = Len(chain) + 1 /\ forks' \in Nat /\ forks' >= forks
    BY <1>5, Constants DEF Grows, db
  <2>2. /\ \A i \in 0 .. Len(chain) : i \in 0 .. Len(chain')
        /\ \A i \in -1 .. Len(chain) : i \in -1 .. Len(chain')
        /\ \A i \in 0 .. forks : i \in 0 .. forks'
    BY <1>0, <2>1
  <2>3. \A d \in Deposit : rows[d] \in RowType(Len(chain'), forks')
    BY <1>0, <2>2 DEF RowType
  <2> QED BY <1>0, <2>1, <2>2, <2>3
<1> HIDE DEF Goal
<1>6. Goal
  BY <1>1, <1>2, <1>3, <1>4, <1>5, StepCases DEF Quiet
<1> QED BY <1>6 DEF Goal

LEMMA NextChainType ==
  ASSUME TypeOK, IndInv, [Next]_vars
  PROVE  chain' \in Seq(Block) /\ forks' \in 0 .. MaxForks
<1>1. ASSUME UNCHANGED node PROVE chain' \in Seq(Block) /\ forks' \in 0 .. MaxForks
  BY <1>1 DEF node, TypeOK
<1> QED BY <1>1, StepCases DEF Grows, Quiet, Rewind, Scan, Wait, Credit

LEMMA NextTornType ==
  ASSUME TypeOK, IndInv, [Next]_vars
  PROVE  torn' \in BOOLEAN
<1>1. torn \in BOOLEAN
  BY RowTypes
<1>2. ASSUME Scan PROVE torn' \in BOOLEAN
  <2>1. torn' = (torn \/ ~ OnCheckpoint)
    BY <1>2 DEF Scan
  <2> QED BY <1>1, <2>1
<1>3. ASSUME torn' = torn PROVE torn' \in BOOLEAN
  BY <1>1, <1>3
<1> QED BY <1>2, <1>3, StepCases DEF Grows, Quiet, Rewind, Wait, Credit

LEMMA BooksInRange ==
  BooksShape => pending \in 0 .. AmountOf(Deposit) /\ available \in 0 .. AmountOf(Deposit)
<1> DEFINE held == {d \in Deposit : rows[d].status = "CONFIRMING"}
           paid == {d \in Deposit : rows[d].status = "CREDITED"}
<1>1. held \in SUBSET Deposit /\ paid \in SUBSET Deposit
  OBVIOUS
<1>2. BooksShape => pending = AmountOf(held) /\ available = AmountOf(paid)
  BY DEF BooksShape
<1> HIDE DEF held, paid
<1>3. /\ AmountOf(held) \in Nat /\ AmountOf(paid) \in Nat /\ AmountOf(Deposit) \in Nat
      /\ AmountOf(held) <= AmountOf(Deposit) /\ AmountOf(paid) <= AmountOf(Deposit)
  BY <1>1, Amounts
<1> QED BY <1>2, <1>3

LEMMA NextType == TypeOK /\ IndInv /\ [Next]_vars => TypeOK'
<1> SUFFICES ASSUME TypeOK, IndInv, [Next]_vars PROVE TypeOK'
  OBVIOUS
<1>1. BooksShape'
  BY NextBooksShape
<1>2. (pending \in 0 .. AmountOf(Deposit) /\ available \in 0 .. AmountOf(Deposit))'
  <2>1. (BooksShape => pending \in 0 .. AmountOf(Deposit) /\ available \in 0 .. AmountOf(Deposit))'
    BY BooksInRange, PTL
  <2> QED BY <1>1, <2>1
<1> QED BY <1>2, NextChainType, NextRowType, NextScannerType, NextTornType DEF TypeOK, RowType

(* The rows follow the chain below the confirmation window always, and up to the checkpoint while its block is on
   the chain, through scans, rewinds and the releases between them (IndInv, with the types). *)
THEOREM Inductive == Spec => [](TypeOK /\ IndInv)
<1>1. TypeOK /\ IndInv /\ [Next]_vars => (TypeOK /\ IndInv)'
  BY NextType, NextIndInv
<1> QED BY InitIndInv, <1>1, PTL DEF Spec

(* Type correctness: neither balance becomes negative, and no checkpoint   *)
(* or row is of a block above the chain, whatever is replaced.             *)
THEOREM TypeCorrect == Spec => []TypeOK
BY Inductive, PTL

(* The rows are what the chain pays up to the checkpoint, after any number *)
(* of rewinds: RewindBTCCheckpoint deletes enough, and deletes no row of a *)
(* block it does not scan again.                                           *)
THEOREM RowsAlwaysFollow == Spec => []RowsFollowChain
<1>1. TypeOK /\ IndInv => RowsFollowChain
  <2> SUFFICES ASSUME TypeOK, IndInv, OnCheckpoint, ~ torn, NEW d \in Deposit
               PROVE  LET heights == {h \in 1 .. checkpoint.height : d \in chain[h].outputs} IN
                      /\ rows[d].status = "none" <=> heights = {}
                      /\ \A h \in heights : rows[d].height = h /\ rows[d].fork = Hash(h)
    BY DEF RowsFollowChain
  <2> DEFINE heights == {h \in 1 .. checkpoint.height : d \in chain[h].outputs}
  <2>1. /\ FollowsTo(checkpoint.height) /\ RowShape
        /\ checkpoint.height \in Int /\ checkpoint.height <= Len(chain) /\ Len(chain) \in Nat
    BY Shape DEF IndInv, FollowShape
  <2>2. \A h \in heights : Exists(d) /\ rows[d].height = h /\ rows[d].fork = Hash(h)
    BY <2>1 DEF FollowsTo
  <2>3. ASSUME Exists(d) PROVE heights # {}
    <3>1. rows[d].height <= checkpoint.height
      BY <2>1, <2>3 DEF RowShape
    <3>2. PICK h \in 1 .. Len(chain) : h <= checkpoint.height /\ d \in chain[h].outputs
      BY <2>1, <2>3, <3>1 DEF FollowsTo
    <3>3. h \in heights
      BY <2>1, <3>2
    <3> QED BY <3>3
  <2> QED BY <2>2, <2>3 DEF Exists
<1> QED BY <1>1, Inductive, PTL

-----------------------------------------------------------------------------
(***************************************************************************)
(* The scanner implements Crediting: a block that is built on settles the  *)
(* deposits of the one that becomes final, a scanned block is observed,    *)
(* what a rewind deletes is forgotten, and only a settled deposit is       *)
(* credited.                                                               *)
(***************************************************************************)
Phases  == [d \in Deposit |-> Phase(d)]
Promise == <<pending, available, Phases, Settled>>

USE DEF Phase

LEMMA InitCrediting == Init => C!Init
<1> SUFFICES ASSUME Init PROVE C!Init
  OBVIOUS
<1>1. C!Deposit = Deposit
  BY DEF C!Deposit, Deposit
<1>2. Settled = {}
  <2>1. FinalHeight < 1
    BY Constants DEF Init, FinalHeight, Tip
  <2> QED BY <2>1, Constants DEF Settled, FinalHeight, Tip, Init
<1>3. Phases = [d \in Deposit |-> "absent"]
  BY DEF Init, Phases, NoRow
<1> QED BY <1>1, <1>2, <1>3 DEF Init, C!Init, Phases

(* A credited deposit is in a block that stays: enough blocks were counted *)
(* from a tip that is not above the chain's, and its hash is unchanged.    *)
LEMMA CreditedSettled ==
  ASSUME TypeOK, IndInv, NEW d \in Deposit, Credit(d)
  PROVE  d \in Settled
<1>1. /\ rows[d].height \in Nat /\ rows[d].height <= Len(chain) /\ Len(chain) \in Nat
      /\ scanner.tip \in Nat /\ scanner.tip <= Len(chain)
      /\ Confirmations \in Nat /\ Confirmations > 0
  BY Shape, Constants
<1>2. rows[d].height > 0 /\ (chain[rows[d].height].fork = rows[d].fork => d \in chain[rows[d].height].outputs)
  BY Looked DEF IndInv, RowShape, Exists
<1>3. Count(d) >= Confirmations /\ Hash(rows[d].height) = rows[d].fork
  BY DEF Credit, SameHash
<1>4. rows[d].height \in 1 .. FinalHeight
  BY <1>1, <1>2, <1>3 DEF Count, FinalHeight, Tip
<1>5. d \in chain[rows[d].height].outputs
  BY <1>1, <1>2, <1>3 DEF Hash
<1> QED BY <1>4, <1>5 DEF Settled

LEMMA StepCrediting ==
  TypeOK /\ IndInv /\ [Next]_vars => [C!Next]_(C!vars)
<1> SUFFICES ASSUME TypeOK, IndInv, [Next]_vars PROVE C!Next \/ UNCHANGED Promise
  BY DEF C!vars, Promise, Phases
<1>0. C!Deposit = Deposit /\ \A S : C!Sum(S) = AmountOf(S)
  <2>1. C!Deposit = Deposit
    BY DEF C!Deposit, Deposit
  <2> QED BY <2>1 DEF C!Sum, AmountOf, C!Total, C!RunningTotal, Total, RunningTotal
<1>1. ASSUME Rewind PROVE C!Next
  <2>0. PICK gone : gone = Undone(RewindHeight)
    OBVIOUS
  <2>1. /\ rows' = [d \in Deposit |-> IF d \in gone THEN NoRow ELSE rows[d]]
        /\ pending' = pending - AmountOf(gone) /\ available' = available /\ UNCHANGED node
    BY <1>1, <2>0 DEF Rewind
  <2>2. gone \subseteq Deposit /\ \A d \in gone : rows[d].status = "CONFIRMING"
    BY <2>0 DEF Undone, Above, TypeOK, Status
  <2>3. gone \in SUBSET C!In("pending")
    BY <1>0, <2>2 DEF C!In
  <2>4. Phases' = [d \in Deposit |-> IF d \in gone THEN "absent" ELSE Phases[d]]
    BY <2>1, <2>2 DEF Phases, NoRow
  <2>5. Settled' = Settled
    BY <2>1 DEF Settled, node, FinalHeight, Tip
  <2>6. C!Forget(gone)
    BY <1>0, <2>1, <2>4, <2>5 DEF C!Forget, C!Move, Phases
  <2> QED BY <2>3, <2>6 DEF C!Next
<1>2. ASSUME Scan PROVE C!Next
  <2>0. PICK new : new = {d \in Observed(NextHeight) : rows[d].status = "none"}
    OBVIOUS
  <2>1. /\ \A d \in Deposit : IF d \in new THEN rows'[d].status = "CONFIRMING" ELSE rows'[d] = rows[d]
        /\ pending' = pending + AmountOf(new) /\ available' = available /\ UNCHANGED node
    BY <1>2, <2>0 DEF Scan
  <2>2. NextHeight \in 1 .. Len(chain)
    BY <1>2, Scanned
  <2>3. new \subseteq Deposit /\ \A d \in new : rows[d].status = "none"
    BY <2>0, <2>2, Shape DEF Observed
  <2>4. new \in SUBSET C!In("absent")
    BY <1>0, <2>3 DEF C!In
  <2>5. Phases' = [d \in Deposit |-> IF d \in new THEN "pending" ELSE Phases[d]]
    BY <2>1, <2>3 DEF Phases
  <2>6. Settled' = Settled
    BY <2>1 DEF Settled, node, FinalHeight, Tip
  <2>7. C!Observe(new)
    BY <1>0, <2>1, <2>5, <2>6 DEF C!Observe, C!Move, Phases
  <2> QED BY <2>4, <2>7 DEF C!Next
<1>3. ASSUME NEW d \in Deposit, Wait(d) PROVE UNCHANGED Promise
  <2>1. \A e \in Deposit : rows'[e].status = rows[e].status
    BY <1>3, Looked
  <2>2. UNCHANGED <<node, pending, available>>
    BY <1>3 DEF Wait
  <2> QED BY <2>1, <2>2 DEF Promise, Phases, Settled, node, FinalHeight, Tip
<1>4. ASSUME NEW d \in Deposit, Credit(d) PROVE C!Next
  <2>1. /\ rows[d].status = "CONFIRMING" /\ \A e \in Deposit : e # d => rows'[e] = rows[e]
        /\ ~ Wait(d) => rows'[d].status = "CREDITED"
    BY <1>4, Looked
  <2>2. /\ pending' = pending - Amount[d] /\ available' = available + Amount[d]
        /\ Count(d) >= Confirmations /\ UNCHANGED node
    BY <1>4 DEF Credit
  <2>3. rows'[d].status = "CREDITED"
    <3>1. Count(d) \in Int /\ Confirmations \in Int
      BY Shape, Constants DEF Count
    <3> QED BY <2>1, <2>2, <3>1 DEF Wait
  <2>4. d \in Settled
    BY <1>4, CreditedSettled
  <2>5. d \in C!In("pending")
    BY <1>0, <2>1 DEF C!In
  <2>6. Phases' = [e \in Deposit |-> IF e \in {d} THEN "available" ELSE Phases[e]]
    BY <2>1, <2>3 DEF Phases
  <2>7. Settled' = Settled
    BY <2>2 DEF Settled, node, FinalHeight, Tip
  <2>8. C!Credit(d)
    BY <1>0, <2>2, <2>4, <2>6, <2>7 DEF C!Credit, C!Move, Phases
  <2> QED BY <2>5, <2>8 DEF C!Next
<1>5. ASSUME NEW m \in Nat, Grows(m) PROVE C!Next
  <2>0. Len(chain) \in Nat /\ Confirmations \in Nat /\ Confirmations > 0
    BY Shape, Constants
  <2>1. /\ m >= FinalHeight /\ Len(chain') = Len(chain) + 1 /\ chain' \in Seq(Block)
        /\ \A i \in 1 .. m : chain'[i] = chain[i]
        /\ UNCHANGED db
    BY <1>5 DEF Grows
  <2>2. FinalHeight \in Int /\ FinalHeight' \in Int /\ FinalHeight < FinalHeight' /\ FinalHeight' <= Len(chain')
    BY <2>0, <2>1 DEF FinalHeight, Tip
  <2>3. \A i \in 1 .. FinalHeight : i \in 1 .. FinalHeight' /\ chain'[i] = chain[i]
    BY <2>1, <2>2
  <2>4. Settled' = Settled \union Settled'
    BY <2>3 DEF Settled
  <2>5. Settled' \in SUBSET C!Deposit
    <3>1. \A i \in 1 .. FinalHeight' : chain'[i] \in Block
      BY <2>0, <2>1, <2>2, ElementOfSeq
    <3> QED BY <1>0, <3>1 DEF Settled, Block
  <2>6. UNCHANGED <<pending, available, Phases>>
    BY <2>1 DEF db, Phases
  <2>7. C!Settle(Settled')
    BY <2>4, <2>6 DEF C!Settle, Phases
  <2> QED BY <2>5, <2>7 DEF C!Next
<1>6. ASSUME Quiet PROVE UNCHANGED Promise
  BY <1>6 DEF Quiet, Promise, Phases, Settled, node, db, FinalHeight, Tip
<1> QED BY <1>1, <1>2, <1>3, <1>4, <1>5, <1>6, StepCases

(* Each deposit is pending once and available once, whole, and only from a *)
(* block that stays, over all rewinds, retries and restarts.               *)
THEOREM ImplementsCrediting == Spec => CreditingSpec
<1>1. Init => C!Init
  BY InitCrediting
<1>2. TypeOK /\ IndInv /\ [Next]_vars => [C!Next]_(C!vars)
  BY StepCrediting
<1> QED BY <1>1, <1>2, Inductive, PTL DEF Spec, CreditingSpec, C!Spec
=============================================================================
