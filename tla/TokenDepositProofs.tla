------------------------- MODULE TokenDepositProofs -------------------------
(***************************************************************************)
(* Theorems about TokenDeposit and the client it extends, for every number *)
(* of deposits, endpoints, attempts and confirmations and every batch      *)
(* size: that only endpoints of the right chain become active, that no     *)
(* deposit of a block that was read is passed over however its range is    *)
(* split, that the balances are the sums of the rows, and that the scanner *)
(* implements Crediting.                                                   *)
(***************************************************************************)
EXTENDS TokenDeposit, SumsProofs, SequenceTheorems

LEMMA Constants ==
  /\ NumDeposits \in Nat /\ Amount \in [1 .. NumDeposits -> Nat] /\ Deposit = 1 .. NumDeposits
  /\ \A d \in Deposit : Amount[d] \in Nat
  /\ Confirmations \in Nat /\ Confirmations > 0 /\ BatchSize \in Nat /\ BatchSize > 0
  /\ MaxForks \in Nat
  /\ NumEndpoints \in Nat /\ NumEndpoints > 0 /\ Endpoint = 1 .. NumEndpoints
  /\ MaxAttempts \in Nat /\ MaxAttempts > 0
BY TokenDepositConstantsAssumption, RpcClientConstantsAssumption DEF Deposit, Endpoint

LEMMA AmountIsSum == ASSUME NEW S PROVE AmountOf(S) = SumOver(S, Amount, NumDeposits)
BY DEF AmountOf, SumOver, Deposit

(* The sums of amounts the steps of the scanner change. *)
LEMMA Amounts ==
  /\ \A S : AmountOf(S) \in Nat
  /\ \A S \in SUBSET Deposit : AmountOf(S) <= AmountOf(Deposit)
  /\ \A S, T : S \intersect T = {} => AmountOf(S \union T) = AmountOf(S) + AmountOf(T)
  /\ \A d \in Deposit : AmountOf({d}) = Amount[d]
  /\ AmountOf({}) = 0
<1> USE Constants, AmountIsSum
<1>1. \A S : AmountOf(S) \in Nat
  BY SumOverType
<1>2. ASSUME NEW S \in SUBSET Deposit PROVE AmountOf(S) <= AmountOf(Deposit)
  BY SumOverSubset
<1>3. ASSUME NEW S, NEW T, S \intersect T = {}
      PROVE  AmountOf(S \union T) = AmountOf(S) + AmountOf(T)
  BY <1>3, SumOverUnion
<1>4. ASSUME NEW d \in Deposit PROVE AmountOf({d}) = Amount[d]
  BY SumOverOne
<1>5. AmountOf({}) = 0
  BY SumOverNone
<1> QED BY <1>1, <1>2, <1>3, <1>4, <1>5

(* A credited row takes its amount out of the pending ones. *)
LEMMA AmountWithout ==
  ASSUME NEW S, NEW d \in Deposit, d \in S
  PROVE  AmountOf(S \ {d}) = AmountOf(S) - Amount[d]
<1>1. S = (S \ {d}) \union {d} /\ (S \ {d}) \intersect {d} = {}
  OBVIOUS
<1>2. AmountOf(S) = AmountOf(S \ {d}) + AmountOf({d})
  BY <1>1, Amounts
<1>3. AmountOf(S \ {d}) \in Nat /\ AmountOf({d}) = Amount[d] /\ Amount[d] \in Nat
  BY Amounts, Constants
<1> QED BY <1>2, <1>3

-----------------------------------------------------------------------------
(***************************************************************************)
(* The client: what a step leaves of a call, and of the active endpoint.   *)
(***************************************************************************)
CallType == [order : Seq(Endpoint), attempt : 1 .. MaxAttempts, passed : BOOLEAN]

Sound(c, e) ==
  /\ e \in Endpoint \ foreign /\ c \in CallType /\ Len(c.order) <= NumEndpoints
  /\ c.passed => c.order # <<>> /\ Head(c.order) \notin foreign

LEMMA ClientSound == ClientTypeOK <=> foreign \subseteq Endpoint /\ Sound(call, active)
BY DEF ClientTypeOK, Sound, CallType

(* A new call starts at endpoints that are no more than there are, and     *)
(* passes without a probe only at the active one.                          *)
LEMMA CallToSound ==
  ASSUME NEW order \in Seq(Endpoint), Len(order) <= NumEndpoints, active \in Endpoint \ foreign
  PROVE  Sound(CallTo(order), active)
<1> DEFINE p == order # <<>> /\ Head(order) = active
<1>1. p \in BOOLEAN /\ 1 \in 1 .. MaxAttempts
  BY Constants
<1>2. CallTo(order) = [order |-> order, attempt |-> 1, passed |-> p]
  BY DEF CallTo, Proven
<1>3. p => order # <<>> /\ Head(order) = active
  OBVIOUS
<1> HIDE DEF p
<1>4. CallTo(order) \in CallType /\ CallTo(order).order = order /\ CallTo(order).passed = p
  BY <1>1, <1>2 DEF CallType
<1> QED BY <1>3, <1>4 DEF Sound

LEMMA OrderType ==
  ASSUME active \in Endpoint
  PROVE  EndpointOrder \in Seq(Endpoint) /\ Len(EndpointOrder) = NumEndpoints
<1>1. \A n \in Endpoint : (IF n = 1 THEN active ELSE IF n <= active THEN n - 1 ELSE n) \in Endpoint
  BY Constants
<1>2. EndpointOrder \in [1 .. NumEndpoints -> Endpoint]
  BY <1>1, Constants DEF EndpointOrder
<1> QED BY <1>2, Constants

LEMMA CalledSound == active \in Endpoint \ foreign => Sound(Called, active)
BY OrderType, CallToSound, Constants DEF Called

LEMMA NoCallSound == active \in Endpoint \ foreign => Sound(NoCall, active)
<1>1. <<>> \in Seq(Endpoint) /\ Len(<<>>) <= NumEndpoints
  BY Constants
<1> QED BY <1>1, CallToSound DEF NoCall

LEMMA NextEndpointSound ==
  ClientTypeOK /\ Calling => Sound(NextEndpoint, active)
<1> SUFFICES ASSUME ClientTypeOK, Calling PROVE Sound(NextEndpoint, active)
  OBVIOUS
<1>1. call.order \in Seq(Endpoint) /\ call.order # <<>> /\ Len(call.order) <= NumEndpoints /\ active \in Endpoint \ foreign
  BY DEF ClientTypeOK, Calling
<1>2. Tail(call.order) \in Seq(Endpoint) /\ Len(Tail(call.order)) = Len(call.order) - 1 /\ Len(call.order) \in Nat
  BY <1>1, HeadTailProperties, LenProperties
<1>3. Len(Tail(call.order)) <= NumEndpoints
  BY <1>1, <1>2, Constants
<1> QED BY <1>1, <1>2, <1>3, CallToSound DEF NextEndpoint

(* The asked endpoint is of the right chain once the call has passed. *)
LEMMA AskedSound ==
  ClientTypeOK /\ call.passed => Calling /\ Asked \in Endpoint \ foreign
<1> SUFFICES ASSUME ClientTypeOK, call.passed PROVE Calling /\ Asked \in Endpoint \ foreign
  OBVIOUS
<1>1. call.order \in Seq(Endpoint) /\ call.order # <<>> /\ Head(call.order) \notin foreign
  BY DEF ClientTypeOK
<1>2. Head(call.order) \in Endpoint
  BY <1>1, HeadTailProperties
<1> QED BY <1>1, <1>2 DEF Calling, Asked

LEMMA FailSound ==
  ASSUME ClientTypeOK, NEW f, Fail(f)
  PROVE  Sound(call', active)
<1>1. call.passed /\ active \in Endpoint \ foreign /\ Calling /\ call \in CallType /\ Sound(call, active)
  BY AskedSound, ClientSound DEF Fail, ClientTypeOK, CallType
<1>2. CASE ~ Retryable(f)
  BY <1>1, <1>2, NoCallSound DEF Fail
<1>3. CASE Retryable(f) /\ call.attempt < MaxAttempts
  <2>1. call' = [call EXCEPT !.attempt = call.attempt + 1]
    BY <1>3 DEF Fail
  <2>2. call.attempt + 1 \in 1 .. MaxAttempts
    BY <1>1, <1>3, Constants DEF CallType
  <2>3. call' \in CallType /\ call'.order = call.order /\ call'.passed = call.passed
    BY <1>1, <2>1, <2>2 DEF CallType
  <2> QED BY <1>1, <2>3 DEF Sound
<1>4. CASE Retryable(f) /\ ~ (call.attempt < MaxAttempts)
  BY <1>1, <1>4, NextEndpointSound DEF Fail
<1> QED BY <1>2, <1>3, <1>4

LEMMA ValidatedSound ==
  ASSUME ClientTypeOK, Validated
  PROVE  Sound(call', active)
<1>1. call' = [call EXCEPT !.passed = TRUE] /\ call.order # <<>> /\ Head(call.order) \notin foreign
  BY DEF Validated, Calling, Asked
<1>2. call \in CallType /\ Len(call.order) <= NumEndpoints /\ active \in Endpoint \ foreign
  BY DEF ClientTypeOK, CallType
<1>3. call' \in CallType /\ call'.order = call.order
  BY <1>1, <1>2 DEF CallType
<1> QED BY <1>1, <1>2, <1>3 DEF Sound

(* The endpoint that answers becomes the active one, and the next question *)
(* starts there.                                                           *)
LEMMA NextClient ==
  ASSUME ClientTypeOK, [Next]_vars
  PROVE  ClientTypeOK'
<1>0. foreign \subseteq Endpoint /\ active \in Endpoint \ foreign /\ Sound(call, active)
  BY ClientSound DEF ClientTypeOK
<1>1. ASSUME foreign' = foreign, Sound(call', active') PROVE ClientTypeOK'
  BY <1>0, <1>1 DEF ClientTypeOK, Sound, CallType
<1>2. ASSUME foreign' = foreign, active' \in Endpoint \ foreign, call' = Called' \/ call' = NoCall
      PROVE  ClientTypeOK'
  <2>1. (active \in Endpoint \ foreign => Sound(Called, active) /\ Sound(NoCall, active))'
    BY CalledSound, NoCallSound, PTL
  <2>2. Sound(Called, active)' /\ Sound(NoCall, active)'
    BY <1>2, <2>1
  <2>3. NoCall = NoCall'
    BY DEF NoCall, CallTo
  <2>4. Sound(call, active)'
    BY <1>2, <2>2, <2>3
  <2>5. (foreign \subseteq Endpoint /\ Sound(call, active) => ClientTypeOK)'
    BY ClientSound, PTL
  <2> QED BY <1>0, <1>2, <2>4, <2>5
<1>3. ASSUME NEW l, Answered(l) PROVE foreign' = foreign /\ active' \in Endpoint \ foreign
  BY <1>3, AskedSound DEF Answered, MarkSuccess
<1>4. ASSUME Local PROVE foreign' = foreign /\ active' \in Endpoint \ foreign
  BY <1>0, <1>4 DEF Local
<1>5. ASSUME NEW s, Ask(s) \/ Turn(s) PROVE call' = Called' \/ call' = NoCall
  BY <1>5 DEF Ask, Turn
<1>6. ASSUME Begin \/ SplitRange \/ List PROVE ClientTypeOK'
  BY <1>2, <1>4, <1>5, <1>6 DEF Begin, SplitRange, List
<1>7. ASSUME StartRange \/ LogsRead \/ Record \/ EndPass PROVE ClientTypeOK'
  BY <1>2, <1>3, <1>4, <1>5, <1>7 DEF StartRange, LogsRead, Record, EndPass
<1>8. ASSUME NEW d \in Deposit, Wait(d) \/ Verify(d) \/ Credit(d) \/ Stop(d) PROVE ClientTypeOK'
  BY <1>2, <1>3, <1>4, <1>5, <1>8 DEF Wait, Verify, Credit, Stop
<1>9. ASSUME Validated \/ Rejected \/ (\E f : Fail(f)) PROVE ClientTypeOK'
  <2>1. foreign' = foreign /\ active' = active
    BY <1>9 DEF Validated, Rejected, Fail
  <2>2. CASE Validated
    BY <1>1, <2>1, <2>2, ValidatedSound
  <2>3. CASE Rejected
    BY <1>1, <2>1, <2>3, NextEndpointSound DEF Rejected
  <2>4. CASE \E f : Fail(f)
    BY <1>1, <2>1, <2>4, FailSound
  <2> QED BY <1>9, <2>2, <2>3, <2>4
<1>10. ASSUME ClientRestart PROVE ClientTypeOK'
  BY <1>2, <1>10 DEF ClientRestart
<1>11. ASSUME NEW e \in Endpoint, OtherCall(e) PROVE ClientTypeOK'
  BY <1>0, <1>1, <1>11 DEF OtherCall, Sound
<1>12. ASSUME UNCHANGED client PROVE ClientTypeOK'
  BY <1>0, <1>1, <1>12 DEF client
<1>13. ASSUME Restart PROVE ClientTypeOK'
  BY <1>10, <1>13 DEF Restart
<1>14. ASSUME NEW S \in SUBSET Deposit, Extend(S) \/ Replace(S) PROVE ClientTypeOK'
  BY <1>12, <1>14 DEF Extend, Replace, NewBlock
<1>15. ASSUME NEW e \in Endpoint, CatchUp(e) PROVE ClientTypeOK'
  BY <1>12, <1>15 DEF CatchUp
<1>16. ASSUME UNCHANGED vars PROVE ClientTypeOK'
  BY <1>12, <1>16 DEF vars
<1>17. ASSUME NEW f, NoReply(f) PROVE ClientTypeOK'
  BY <1>9, <1>17 DEF NoReply
<1> QED BY <1>6, <1>7, <1>8, <1>9, <1>11, <1>13, <1>14, <1>15, <1>16, <1>17 DEF Next, Pass

-----------------------------------------------------------------------------
(***************************************************************************)
(* The steps of the node and of the scanner.                               *)
(***************************************************************************)
ScannerType == [at : {"idle", "tip", "logs", "header", "list", "check", "verify", "stopped"},
                latest : 0 .. Len(chain), ranges : Seq(BlockRange), blocks : Seq(Block),
                todo : SUBSET Deposit]

LEMMA Shape ==
  TypeOK /\ IndInv =>
    /\ chain \in Seq(Block) /\ Len(chain) \in Nat /\ forks \in Nat
    /\ \A n \in 1 .. Len(chain) : /\ chain[n] \in Block /\ chain[n].fork \in Nat
                                  /\ chain[n].fork <= forks /\ chain[n].logs \subseteq Deposit
    /\ scanned \in Seq(Nat \union {Unread}) /\ Len(scanned) \in Nat /\ Len(scanned) <= Len(chain)
    /\ \A n \in 1 .. Len(scanned) : scanned[n] \in Int /\ scanned[n] <= forks
    /\ \A d \in Deposit : seenAt[d] \in Nat /\ seenAt[d] <= Len(scanned) /\ seenFork[d] \in Nat /\ seenFork[d] <= forks
    /\ scanner \in ScannerType /\ scanner.latest \in Nat /\ scanner.latest <= Len(chain)
<1> SUFFICES ASSUME TypeOK, IndInv
             PROVE  /\ chain \in Seq(Block) /\ Len(chain) \in Nat /\ forks \in Nat
                    /\ \A n \in 1 .. Len(chain) : /\ chain[n] \in Block /\ chain[n].fork \in Nat
                                                  /\ chain[n].fork <= forks /\ chain[n].logs \subseteq Deposit
                    /\ scanned \in Seq(Nat \union {Unread}) /\ Len(scanned) \in Nat /\ Len(scanned) <= Len(chain)
                    /\ \A n \in 1 .. Len(scanned) : scanned[n] \in Int /\ scanned[n] <= forks
                    /\ \A d \in Deposit : seenAt[d] \in Nat /\ seenAt[d] <= Len(scanned)
                                          /\ seenFork[d] \in Nat /\ seenFork[d] <= forks
                    /\ scanner \in ScannerType /\ scanner.latest \in Nat /\ scanner.latest <= Len(chain)
  OBVIOUS
<1>1. chain \in Seq(Block) /\ Len(chain) \in Nat /\ forks \in Nat
  BY LenProperties, Constants DEF TypeOK
<1>2. \A n \in 1 .. Len(chain) : chain[n] \in Block /\ chain[n].fork <= forks
  BY <1>1, ElementOfSeq DEF IndInv, ChainShape
<1>3. scanned \in Seq(Nat \union {Unread}) /\ Len(scanned) \in Nat /\ Len(scanned) <= Len(chain)
  BY LenProperties DEF TypeOK
<1>4. \A n \in 1 .. Len(scanned) : scanned[n] \in Nat \union {Unread} /\ scanned[n] <= forks
  BY <1>3, ElementOfSeq DEF IndInv, RowShape
<1>5. \A d \in Deposit : seenAt[d] \in 0 .. Len(scanned) /\ seenFork[d] \in 0 .. forks
  BY DEF TypeOK
<1>6. scanner \in ScannerType /\ scanner.latest \in 0 .. Len(chain)
  BY DEF TypeOK, ScannerType
<1> QED BY <1>1, <1>2, <1>3, <1>4, <1>5, <1>6 DEF Block, Unread

(* A new block keeps the first m blocks, none of them fewer than the final *)
(* ones, and marks itself if it replaces one.                              *)
Grows(m) ==
  /\ m \in Nat /\ m >= FinalHeight /\ m <= Len(chain)
  /\ chain' \in Seq(Block) /\ Len(chain') = m + 1 /\ Len(chain') >= Len(chain)
  /\ \A i \in 1 .. m : chain'[i] = chain[i]
  /\ chain'[m + 1].fork = forks'
  /\ \A i \in 1 .. m : chain'[i].logs \intersect chain'[m + 1].logs = {}
  /\ forks' \in 0 .. MaxForks /\ forks' >= forks
  /\ m < Len(chain) => forks' = forks + 1
  /\ behind' \subseteq Endpoint
  /\ UNCHANGED <<db, scanner>>

LEMMA NewBlockGrows ==
  ASSUME NEW old \in Seq(Block), NEW fork \in Nat, NEW S, NewBlock(old, fork, S)
  PROVE  /\ chain' \in Seq(Block) /\ Len(old) \in Nat /\ Len(chain') = Len(old) + 1
         /\ \A i \in 1 .. Len(old) : chain'[i] = old[i]
         /\ chain'[Len(old) + 1].fork = fork
         /\ \A i \in 1 .. Len(old) : chain'[i].logs \intersect chain'[Len(old) + 1].logs = {}
         /\ behind' \subseteq Endpoint
         /\ UNCHANGED <<db, scanner>>
<1> DEFINE b == [fork |-> fork, logs |-> S]
<1>1. S \subseteq Deposit \ LogsOf(old) /\ chain' = Append(old, b)
  BY DEF NewBlock
<1>2. b \in Block /\ b.fork = fork /\ b.logs = S
  BY <1>1 DEF Block
<1>3. \A i \in 1 .. Len(old) : old[i].logs \intersect S = {}
  BY <1>1 DEF LogsOf
<1> HIDE DEF b
<1>4. Len(old) \in Nat
  BY LenProperties
<1>5. /\ chain' \in Seq(Block) /\ Len(chain') = Len(old) + 1
      /\ \A i \in 1 .. Len(old) : chain'[i] = old[i]
      /\ chain'[Len(old) + 1] = b
  BY <1>1, <1>2, AppendProperties
<1>6. behind' \subseteq Endpoint /\ UNCHANGED <<db, scanner>>
  BY DEF NewBlock
<1> QED BY <1>2, <1>3, <1>4, <1>5, <1>6

LEMMA ExtendGrows ==
  ASSUME TypeOK, IndInv, NEW S \in SUBSET Deposit, Extend(S)
  PROVE  Grows(Len(chain))
<1>0. chain \in Seq(Block) /\ Len(chain) \in Nat /\ forks \in Nat /\ forks \in 0 .. MaxForks
  BY Shape DEF TypeOK
<1>1. NewBlock(chain, forks, S) /\ forks' = forks
  BY DEF Extend
<1>2. Len(chain) >= FinalHeight
  BY <1>0, Constants DEF FinalHeight
<1>3. /\ chain' \in Seq(Block) /\ Len(chain') = Len(chain) + 1
      /\ \A i \in 1 .. Len(chain) : chain'[i] = chain[i]
      /\ chain'[Len(chain) + 1].fork = forks
      /\ \A i \in 1 .. Len(chain) : chain'[i].logs \intersect chain'[Len(chain) + 1].logs = {}
      /\ behind' \subseteq Endpoint
      /\ UNCHANGED <<db, scanner>>
  BY <1>0, <1>1, NewBlockGrows
<1> QED BY <1>0, <1>1, <1>2, <1>3 DEF Grows

LEMMA ReplaceGrows ==
  ASSUME TypeOK, IndInv, NEW S \in SUBSET Deposit, Replace(S)
  PROVE  Len(chain) - 1 \in Nat /\ Grows(Len(chain) - 1)
<1>0. chain \in Seq(Block) /\ Len(chain) \in Nat /\ forks \in Nat
  BY Shape
<1> DEFINE m == Len(chain) - 1
           old == SubSeq(chain, 1, m)
           fork == forks + 1
<1>1. m \in Nat /\ m >= FinalHeight /\ m < Len(chain) /\ m + 1 = Len(chain) /\ FinalHeight \in Int
  BY <1>0, Constants DEF Replace, FinalHeight, Larger
<1>2. NewBlock(old, fork, S) /\ forks' = fork /\ forks < MaxForks
  BY DEF Replace
<1>3. fork \in Nat /\ fork \in 0 .. MaxForks /\ fork >= forks /\ fork = forks + 1
  BY <1>0, <1>2, Constants
<1> HIDE DEF m, fork
<1>4. old \in Seq(Block) /\ Len(old) = m /\ \A i \in 1 .. m : old[i] = chain[i]
  <2>1. \A i \in 1 .. m : chain[i] \in Block
    BY <1>0, <1>1, ElementOfSeq
  <2>2. /\ old \in Seq(Block)
        /\ Len(old) = IF 1 <= m THEN m - 1 + 1 ELSE 0
        /\ \A i \in 1 .. m - 1 + 1 : old[i] = chain[1 + i - 1]
    BY <1>1, <2>1, SubSeqProperties
  <2> HIDE DEF old
  <2>3. Len(old) = m /\ \A i \in 1 .. m : old[i] = chain[i]
    BY <1>1, <2>2
  <2> QED BY <2>2, <2>3
<1> HIDE DEF old
<1>5. /\ chain' \in Seq(Block) /\ Len(chain') = Len(old) + 1
      /\ \A i \in 1 .. Len(old) : chain'[i] = old[i]
      /\ chain'[Len(old) + 1].fork = fork
      /\ \A i \in 1 .. Len(old) : chain'[i].logs \intersect chain'[Len(old) + 1].logs = {}
      /\ behind' \subseteq Endpoint
      /\ UNCHANGED <<db, scanner>>
  BY <1>2, <1>3, <1>4, NewBlockGrows
<1>6. Grows(m)
  BY <1>0, <1>1, <1>2, <1>3, <1>4, <1>5 DEF Grows
<1> QED BY <1>1, <1>6 DEF m

(* A block below the top stays; the top stays or gives way to a new hash.  *)
LEMMA KeptOrNew ==
  ASSUME TypeOK, IndInv, NEW m \in Nat, Grows(m), NEW n \in 1 .. Len(chain)
  PROVE  n \in 1 .. Len(chain') /\ (chain'[n] = chain[n] \/ chain'[n].fork > forks)
<1>0. Len(chain) \in Nat /\ forks \in Nat
  BY Shape
<1>1. /\ Len(chain') = m + 1 /\ Len(chain') >= Len(chain) /\ m <= Len(chain)
      /\ \A i \in 1 .. m : chain'[i] = chain[i]
      /\ chain'[m + 1].fork = forks' /\ (m < Len(chain) => forks' = forks + 1)
  BY DEF Grows
<1>2. CASE n <= m
  BY <1>0, <1>1, <1>2
<1>3. CASE n > m
  <2>1. n = m + 1 /\ m < Len(chain)
    BY <1>0, <1>1, <1>3
  <2> QED BY <1>0, <1>1, <2>1
<1> QED BY <1>0, <1>2, <1>3

(* The steps that end a call or a pass: the scanner waits on, rests, or    *)
(* asks for the newest height.                                             *)
Quiet ==
  /\ UNCHANGED <<node, db>>
  /\ \/ scanner' = scanner
     \/ \E l \in {"idle", "tip", "stopped"} : scanner' = [Resting EXCEPT !.at = l]

LEMMA QuietSteps ==
  ASSUME \/ Begin \/ EndPass \/ (\E d \in Deposit : Stop(d)) \/ Restart \/ (\E f : NoReply(f))
         \/ ((Validated \/ Rejected) /\ EndsWithCall)
         \/ (\E e \in Endpoint : OtherCall(e) /\ UNCHANGED <<node, db, scanner>>) \/ UNCHANGED vars
  PROVE  Quiet
<1>1. Resting = [Resting EXCEPT !.at = "idle"]
  BY DEF Resting
<1>2. CASE Begin
  BY <1>2 DEF Begin, Quiet, Local, Ask
<1>3. CASE EndPass
  BY <1>1, <1>3 DEF EndPass, Quiet, Local, Answered, Turn
<1>4. ASSUME NEW d \in Deposit, Stop(d) PROVE Quiet
  BY <1>4 DEF Stop, Quiet, Answered, Turn
<1>5. CASE EndsWithCall
  BY <1>1, <1>5 DEF EndsWithCall, Quiet
<1>6. CASE Restart
  BY <1>1, <1>6 DEF Restart, Quiet
<1>7. CASE UNCHANGED vars \/ UNCHANGED <<node, db, scanner>>
  BY <1>7 DEF vars, Quiet
<1> QED BY <1>2, <1>3, <1>4, <1>5, <1>6, <1>7 DEF NoReply

(* A step proof has one case for each of these. *)
LEMMA StepCases ==
  ASSUME TypeOK, IndInv, [Next]_vars, NEW ACTION Case,
    Quiet => Case,
    StartRange => Case, LogsRead => Case, SplitRange => Case, Record => Case, List => Case,
    \A d \in Deposit : Wait(d) => Case,
    \A d \in Deposit : Verify(d) => Case,
    \A d \in Deposit : Credit(d) => Case,
    \A m \in Nat : Grows(m) => Case,
    \A e \in Endpoint : CatchUp(e) => Case
  PROVE Case
<1>1. CASE \/ Begin \/ EndPass \/ (\E d \in Deposit : Stop(d)) \/ Restart \/ (\E f : NoReply(f))
           \/ ((Validated \/ Rejected) /\ EndsWithCall)
           \/ (\E e \in Endpoint : OtherCall(e) /\ UNCHANGED <<node, db, scanner>>) \/ UNCHANGED vars
  BY <1>1, QuietSteps
<1>2. ASSUME NEW S \in SUBSET Deposit, Extend(S) \/ Replace(S) PROVE Case
  <2>1. Len(chain) \in Nat
    BY Shape
  <2> QED BY <1>2, <2>1, ExtendGrows, ReplaceGrows
<1> QED BY <1>1, <1>2 DEF Next, Pass

LEMMA Heights == Len(chain) \in Nat => \A e : Height(e) \in Int /\ Height(e) <= Len(chain)
BY DEF Height

(* The first range left starts above the checkpoint. *)
LEMMA FirstRange ==
  ASSUME TypeOK, IndInv, At("logs") \/ At("header")
  PROVE  /\ scanner.ranges \in Seq(BlockRange) /\ scanner.ranges # <<>>
         /\ Len(scanner.ranges) \in Nat /\ Len(scanner.ranges) > 0
         /\ First = scanner.ranges[1] /\ First \in BlockRange
         /\ First.from \in Nat /\ First.to \in Nat
         /\ First.from = Len(scanned) + 1 /\ First.from <= First.to
<1>1. scanner.ranges \in Seq(BlockRange) /\ scanner.ranges # <<>> /\ First.from = NextBlock
  BY DEF TypeOK, IndInv, RangeShape
<1>2. First = scanner.ranges[1] /\ First \in BlockRange
  BY <1>1, HeadTailProperties DEF First
<1>3. Len(scanner.ranges) \in Nat /\ Len(scanner.ranges) > 0
  BY <1>1, EmptySeq, LenProperties
<1>4. First.from <= First.to
  BY <1>2, <1>3 DEF IndInv, RangeShape
<1> QED BY <1>1, <1>2, <1>3, <1>4 DEF NextBlock, BlockRange

LEMMA BlocksRead ==
  ASSUME TypeOK
  PROVE  /\ scanner.blocks \in Seq(Block) /\ Len(scanner.blocks) \in Nat
         /\ \A k \in 1 .. Len(scanner.blocks) :
              scanner.blocks[k].fork \in Nat /\ scanner.blocks[k].logs \subseteq Deposit
<1>1. scanner.blocks \in Seq(Block) /\ Len(scanner.blocks) \in Nat
  BY LenProperties DEF TypeOK
<1>2. \A k \in 1 .. Len(scanner.blocks) : scanner.blocks[k] \in Block
  BY <1>1, ElementOfSeq
<1> QED BY <1>1, <1>2 DEF Block

(* Where a deposit was found. *)
LEMMA Found ==
  ASSUME TypeOK, IndInv, At("header"), NEW d \in Observed
  PROVE  /\ d \in Deposit /\ BlockOf(d) \in 1 .. Len(scanner.blocks) /\ d \in scanner.blocks[BlockOf(d)].logs
         /\ FoundAt(d) = First.from + BlockOf(d) - 1
         /\ FoundAt(d) \in First.from .. First.to /\ FoundAt(d) \in Nat /\ FoundAt(d) > 0
         /\ FoundFork(d) = scanner.blocks[BlockOf(d)].fork
         /\ FoundFork(d) \in Nat /\ FoundFork(d) <= forks
<1>1. \E k \in 1 .. Len(scanner.blocks) : d \in scanner.blocks[k].logs
  BY DEF Observed, LogsOf
<1>2. BlockOf(d) \in 1 .. Len(scanner.blocks) /\ d \in scanner.blocks[BlockOf(d)].logs
  BY <1>1 DEF BlockOf
<1>3. First.from + Len(scanner.blocks) <= First.to + 1 /\ scanner.blocks[BlockOf(d)].fork <= forks
  BY <1>2 DEF IndInv, BlocksShape
<1>4. /\ Len(scanner.blocks) \in Nat /\ First.from \in Nat /\ First.to \in Nat /\ First.from = Len(scanned) + 1
      /\ Len(scanned) \in Nat
  BY BlocksRead, FirstRange, Shape
<1>5. FoundAt(d) = First.from + BlockOf(d) - 1 /\ FoundFork(d) = scanner.blocks[BlockOf(d)].fork
  BY DEF FoundAt, FoundFork
<1>6. d \in Deposit /\ FoundFork(d) \in Nat /\ FoundFork(d) <= forks
  BY <1>2, <1>3, <1>5, BlocksRead
<1>7. FoundAt(d) \in First.from .. First.to /\ FoundAt(d) \in Nat /\ FoundAt(d) > 0
  <2>1. PICK k \in 1 .. Len(scanner.blocks) : k = BlockOf(d)
    BY <1>2
  <2>2. First.from + k - 1 \in First.from .. First.to /\ First.from + k - 1 > 0
    <3>1. \A f, t, l, n \in Nat : f + l <= t + 1 /\ n <= l /\ n > 0 /\ f > 0
            => f + n - 1 \in f .. t /\ f + n - 1 > 0
      OBVIOUS
    <3>2. k \in Nat /\ k <= Len(scanner.blocks) /\ k > 0 /\ First.from > 0
      BY <1>4
    <3> QED BY <1>3, <1>4, <3>1, <3>2
  <2> QED BY <1>4, <1>5, <2>1, <2>2
<1> QED BY <1>2, <1>5, <1>6, <1>7

LEMMA Recorded ==
  ASSUME TypeOK, IndInv, Record
  PROVE  /\ At("header") /\ ~ Conflict /\ UNCHANGED node /\ First.to <= Len(chain)
         /\ scanned' \in Seq(Nat \union {Unread}) /\ Len(scanned') = First.to
         /\ \A n \in 1 .. Len(scanned) : scanned'[n] = scanned[n]
         /\ \A n \in First.from .. First.to :
              scanned'[n] = IF n - First.from < Len(scanner.blocks)
                            THEN scanner.blocks[n - First.from + 1].fork ELSE Unread
         /\ \A d \in Deposit :
              IF d \in Observed /\ status[d] = "none"
                THEN status'[d] = "CONFIRMING" /\ seenAt'[d] = FoundAt(d) /\ seenFork'[d] = FoundFork(d)
                ELSE status'[d] = status[d] /\ seenAt'[d] = seenAt[d] /\ seenFork'[d] = seenFork[d]
<1>1. At("header") /\ ~ Conflict /\ UNCHANGED node /\ First.to <= BlockNumber
  BY DEF Record, Answered, HasHeader
<1>2. First.to <= Len(chain) /\ Len(chain) \in Nat /\ Len(scanned) \in Nat
  BY <1>1, Shape, Heights, FirstRange DEF BlockNumber
<1>3. First.from \in Nat /\ First.to \in Nat /\ First.from = Len(scanned) + 1 /\ First.from <= First.to
  BY <1>1, FirstRange
<1> DEFINE hash(n) == IF n < First.from THEN scanned[n]
                      ELSE IF n - First.from < Len(scanner.blocks)
                           THEN scanner.blocks[n - First.from + 1].fork ELSE Unread
<1>4. scanned' = [n \in 1 .. First.to |-> hash(n)]
  BY DEF Record
<1>5. \A n \in 1 .. First.to : hash(n) \in Nat \union {Unread}
  <2>1. \A n \in 1 .. Len(scanned) : scanned[n] \in Nat \union {Unread}
    BY ElementOfSeq DEF TypeOK
  <2>2. \A n \in 1 .. First.to : n < First.from => n \in 1 .. Len(scanned)
    BY <1>2, <1>3
  <2>3. \A n \in 1 .. First.to : ~ (n < First.from) /\ n - First.from < Len(scanner.blocks)
           => n - First.from + 1 \in 1 .. Len(scanner.blocks)
    BY <1>2, <1>3, BlocksRead
  <2> QED BY <2>1, <2>2, <2>3, BlocksRead
<1> HIDE DEF hash
<1>6. scanned' \in [1 .. First.to -> Nat \union {Unread}]
  BY <1>4, <1>5
<1>7. scanned' \in Seq(Nat \union {Unread}) /\ Len(scanned') = First.to
  BY <1>3, <1>6
<1>8. \A n \in 1 .. Len(scanned) : scanned'[n] = scanned[n]
  BY <1>2, <1>3, <1>4 DEF hash
<1>9. \A n \in First.from .. First.to :
        scanned'[n] = IF n - First.from < Len(scanner.blocks)
                      THEN scanner.blocks[n - First.from + 1].fork ELSE Unread
  BY <1>2, <1>3, <1>4 DEF hash
<1>10. \A d \in Deposit :
         IF d \in Observed /\ status[d] = "none"
           THEN status'[d] = "CONFIRMING" /\ seenAt'[d] = FoundAt(d) /\ seenFork'[d] = FoundFork(d)
           ELSE status'[d] = status[d] /\ seenAt'[d] = seenAt[d] /\ seenFork'[d] = seenFork[d]
  BY DEF Record
<1> QED BY <1>1, <1>2, <1>7, <1>8, <1>9, <1>10

-----------------------------------------------------------------------------
(***************************************************************************)
(* The parts of the inductive invariant, one lemma each.                   *)
(***************************************************************************)
LEMMA InitIndInv == Init => TypeOK /\ IndInv
<1> SUFFICES ASSUME Init PROVE TypeOK /\ IndInv
  OBVIOUS
<1>1. /\ Len(chain) = 0 /\ chain \in Seq(Block) /\ Len(scanned) = 0 /\ scanned \in Seq(Nat \union {Unread})
      /\ scanned = <<>> /\ chain = <<>>
  BY DEF Init
<1>2. scanner.at = "idle" /\ scanner.todo = {} /\ scanner.latest = 0 /\ scanner.ranges = <<>> /\ scanner.blocks = <<>>
  BY DEF Init, Resting
<1>3. \A d \in Deposit : status[d] = "none"
  BY DEF Init
<1>4. TypeOK
  <2>1. pending \in 0 .. AmountOf(Deposit) /\ available \in 0 .. AmountOf(Deposit)
    BY Amounts DEF Init
  <2>2. scanner \in [at : {"idle", "tip", "logs", "header", "list", "check", "verify", "stopped"},
                     latest : 0 .. Len(chain), ranges : Seq(BlockRange), blocks : Seq(Block),
                     todo : SUBSET Deposit]
    <3>1. scanner = [at |-> "idle", latest |-> 0, ranges |-> <<>>, blocks |-> <<>>, todo |-> {}]
      BY DEF Init, Resting
    <3>2. 0 \in 0 .. Len(chain) /\ <<>> \in Seq(BlockRange) /\ <<>> \in Seq(Block)
      BY <1>1
    <3> QED BY <3>1, <3>2
  <2>3. /\ status \in [Deposit -> {"none", "CONFIRMING", "CREDITED"}]
        /\ seenAt \in [Deposit -> 0 .. Len(scanned)] /\ seenFork \in [Deposit -> 0 .. forks]
    BY <1>1 DEF Init
  <2>4. forks \in 0 .. MaxForks /\ behind \subseteq Endpoint
    BY Constants DEF Init
  <2>5. ClientTypeOK
    <3>1. foreign \subseteq Endpoint /\ active \in Endpoint \ foreign /\ call = NoCall
      BY DEF Init, ClientInit
    <3> QED BY <3>1, NoCallSound, ClientSound
  <2> QED BY <1>1, <2>1, <2>2, <2>3, <2>4, <2>5 DEF TypeOK
<1>5. ChainShape /\ RowShape /\ NoneSkipped
  BY <1>1, <1>3 DEF ChainShape, RowShape, NoneSkipped, Init
<1>6. RangeShape /\ BlocksShape /\ CheckShape
  BY <1>2 DEF RangeShape, BlocksShape, CheckShape, At
<1>7. BooksShape
  <2>1. {d \in Deposit : status[d] = "CONFIRMING"} = {} /\ {d \in Deposit : status[d] = "CREDITED"} = {}
    BY <1>3
  <2> QED BY <2>1, Amounts DEF BooksShape, Init
<1> QED BY <1>4, <1>5, <1>6, <1>7 DEF IndInv

LEMMA NextChainShape ==
  ASSUME TypeOK, IndInv, [Next]_vars
  PROVE  ChainShape'
<1>0. ChainShape /\ Len(chain) \in Nat
  BY Shape DEF IndInv
<1>1. ASSUME UNCHANGED node PROVE ChainShape'
  BY <1>0, <1>1 DEF node, ChainShape
<1>2. ASSUME NEW m \in Nat, Grows(m) PROVE ChainShape'
  <2>1. /\ Len(chain') = m + 1 /\ m <= Len(chain)
        /\ \A i \in 1 .. m : chain'[i] = chain[i]
        /\ chain'[m + 1].fork = forks'
        /\ \A i \in 1 .. m : chain'[i].logs \intersect chain'[m + 1].logs = {}
        /\ forks' \in Nat /\ forks' >= forks /\ forks \in Nat
        /\ \A n \in 1 .. Len(chain) : chain[n].fork \in Nat /\ chain[n].fork <= forks
    BY <1>2, Constants, Shape, SMTT(40) DEF Grows
  <2>2. \A i \in 1 .. m : i \in 1 .. Len(chain) /\ chain'[i] = chain[i]
    BY <1>0, <2>1
  <2>3. \A i \in 1 .. Len(chain') : i \in 1 .. m \/ i = m + 1
    BY <2>1
  <2>4. \A i \in 1 .. Len(chain') : chain'[i].fork <= forks'
    BY <2>1, <2>2, <2>3
  <2>5. \A i, j \in 1 .. Len(chain') : i # j => chain'[i].logs \intersect chain'[j].logs = {}
    BY <1>0, <2>1, <2>2, <2>3 DEF ChainShape
  <2> QED BY <2>1, <2>4, <2>5 DEF ChainShape
<1>3. ASSUME NEW e \in Endpoint, CatchUp(e) PROVE ChainShape'
  BY <1>0, <1>3 DEF CatchUp, ChainShape
<1> QED BY <1>1, <1>2, <1>3, StepCases
        DEF Quiet, StartRange, LogsRead, SplitRange, Record, List, Wait, Verify, Credit, Answered, Local

(* The steps that read, without writing. *)
LEMMA ReadsKeep ==
  ASSUME \/ StartRange \/ LogsRead \/ SplitRange \/ List \/ (\E d \in Deposit : Wait(d) \/ Verify(d))
  PROVE  UNCHANGED <<node, db>>
BY DEF StartRange, LogsRead, SplitRange, List, Wait, Verify, Answered, Local

LEMMA NextRowShape ==
  ASSUME TypeOK, IndInv, [Next]_vars
  PROVE  RowShape'
<1>0. /\ RowShape /\ Len(chain) \in Nat /\ forks \in Nat /\ Len(scanned) \in Nat /\ Len(scanned) <= Len(chain)
      /\ \A d \in Deposit : seenAt[d] \in Nat /\ seenAt[d] <= Len(scanned) /\ seenFork[d] \in Nat /\ seenFork[d] <= forks
      /\ \A n \in 1 .. Len(scanned) : scanned[n] \in Int /\ scanned[n] <= forks
  BY Shape DEF IndInv
<1>1. ASSUME UNCHANGED <<chain, forks, status, seenAt, seenFork, scanned>> PROVE RowShape'
  BY <1>0, <1>1 DEF RowShape
<1>2. ASSUME Record PROVE RowShape'
  <2>0. At("header") /\ UNCHANGED <<chain, forks>>
    BY <1>2, Recorded DEF node
  <2>1. ASSUME NEW n \in 1 .. Len(scanned') PROVE scanned'[n] <= forks
    <3>1. /\ Len(scanned') = First.to /\ First.from = Len(scanned) + 1 /\ First.from \in Nat /\ First.to \in Nat
          /\ \A i \in 1 .. Len(scanned) : scanned'[i] = scanned[i]
          /\ \A i \in First.from .. First.to :
               scanned'[i] = IF i - First.from < Len(scanner.blocks)
                             THEN scanner.blocks[i - First.from + 1].fork ELSE Unread
      BY <1>2, <2>0, Recorded, FirstRange
    <3>2. CASE n <= Len(scanned)
      BY <1>0, <3>1, <3>2
    <3>3. CASE n > Len(scanned) /\ n - First.from < Len(scanner.blocks)
      <4>1. n \in First.from .. First.to /\ n - First.from + 1 \in 1 .. Len(scanner.blocks)
        BY <1>0, <3>1, <3>3, BlocksRead
      <4>2. scanner.blocks[n - First.from + 1].fork <= forks
        BY <2>0, <4>1 DEF IndInv, BlocksShape
      <4> QED BY <3>1, <3>3, <4>1, <4>2
    <3>4. CASE n > Len(scanned) /\ ~ (n - First.from < Len(scanner.blocks))
      <4>1. n \in First.from .. First.to
        BY <1>0, <3>1, <3>4
      <4> QED BY <1>0, <3>1, <3>4, <4>1 DEF Unread
    <3> QED BY <1>0, <3>1, <3>2, <3>3, <3>4
  <2>2. ASSUME NEW d \in Deposit, status'[d] # "none"
        PROVE  seenAt'[d] > 0 /\ (chain[seenAt'[d]].fork = seenFork'[d] => d \in chain[seenAt'[d]].logs)
    <3>1. CASE d \in Observed /\ status[d] = "none"
      <4>1. seenAt'[d] = First.from + BlockOf(d) - 1 /\ seenAt'[d] > 0
            /\ seenFork'[d] = scanner.blocks[BlockOf(d)].fork
            /\ BlockOf(d) \in 1 .. Len(scanner.blocks) /\ d \in scanner.blocks[BlockOf(d)].logs
        BY <1>2, <2>0, <3>1, Recorded, Found
      <4>2. chain[seenAt'[d]].fork = seenFork'[d] => chain[seenAt'[d]] = scanner.blocks[BlockOf(d)]
        BY <2>0, <4>1 DEF IndInv, BlocksShape
      <4> QED BY <4>1, <4>2
    <3>2. CASE ~ (d \in Observed /\ status[d] = "none")
      <4>1. status'[d] = status[d] /\ seenAt'[d] = seenAt[d] /\ seenFork'[d] = seenFork[d]
        BY <1>2, <3>2, Recorded
      <4> QED BY <1>0, <2>2, <4>1 DEF RowShape
    <3> QED BY <3>1, <3>2
  <2> QED BY <2>0, <2>1, <2>2 DEF RowShape
<1>3. ASSUME NEW d \in Deposit, Credit(d) PROVE RowShape'
  <2>1. /\ UNCHANGED <<chain, forks, seenAt, seenFork, scanned>>
        /\ \A e \in Deposit : status'[e] # "none" => e = d \/ status[e] # "none"
    BY <1>3 DEF Credit, Answered, node, TypeOK
  <2>2. status[d] # "none"
    BY <1>3 DEF Credit, Lowest, IndInv, CheckShape
  <2> QED BY <1>0, <2>1, <2>2 DEF RowShape
<1>4. ASSUME NEW m \in Nat, Grows(m) PROVE RowShape'
  <2>1. UNCHANGED <<status, seenAt, seenFork, scanned>> /\ forks' \in Nat /\ forks' >= forks
    BY <1>4, Constants DEF Grows, db
  <2>2. ASSUME NEW d \in Deposit, status[d] # "none", chain'[seenAt[d]].fork = seenFork[d]
        PROVE  d \in chain'[seenAt[d]].logs
    <3>1. seenAt[d] \in 1 .. Len(chain) /\ (chain[seenAt[d]].fork = seenFork[d] => d \in chain[seenAt[d]].logs)
      BY <1>0, <2>2 DEF RowShape
    <3>2. chain'[seenAt[d]] = chain[seenAt[d]]
      BY <1>0, <1>4, <2>2, <3>1, KeptOrNew
    <3> QED BY <2>2, <3>1, <3>2
  <2> QED BY <1>0, <2>1, <2>2 DEF RowShape
<1>5. ASSUME NEW e \in Endpoint, CatchUp(e) PROVE RowShape'
  BY <1>1, <1>5 DEF CatchUp, db
<1>6. ASSUME UNCHANGED <<node, db>> PROVE RowShape'
  BY <1>1, <1>6 DEF node, db
<1> QED BY <1>2, <1>3, <1>4, <1>5, <1>6, ReadsKeep, StepCases DEF Quiet

LEMMA NextNoneSkipped ==
  ASSUME TypeOK, IndInv, [Next]_vars
  PROVE  NoneSkipped'
<1>0. /\ NoneSkipped /\ Len(chain) \in Nat /\ forks \in Nat /\ Len(scanned) \in Nat /\ Len(scanned) <= Len(chain)
      /\ \A n \in 1 .. Len(scanned) : scanned[n] \in Int /\ scanned[n] <= forks
      /\ \A n \in 1 .. Len(chain) : chain[n].fork \in Nat /\ chain[n].logs \subseteq Deposit
  BY Shape DEF IndInv
<1>1. ASSUME UNCHANGED <<chain, status, seenFork, scanned>> PROVE NoneSkipped'
  BY <1>0, <1>1 DEF NoneSkipped
<1>2. ASSUME Record PROVE NoneSkipped'
  <2>0. /\ At("header") /\ chain' = chain /\ Len(scanned') = First.to /\ First.to <= Len(chain)
        /\ First.from = Len(scanned) + 1 /\ First.from \in Nat /\ First.to \in Nat
        /\ \A i \in 1 .. Len(scanned) : scanned'[i] = scanned[i]
        /\ \A i \in First.from .. First.to :
             scanned'[i] = IF i - First.from < Len(scanner.blocks)
                           THEN scanner.blocks[i - First.from + 1].fork ELSE Unread
    BY <1>2, Recorded, FirstRange DEF node
  <2>1. ASSUME NEW d \in Deposit, status[d] # "none"
        PROVE  status'[d] # "none" /\ seenFork'[d] = seenFork[d]
    BY <1>2, <2>1, Recorded
  <2>2. ASSUME NEW d \in Observed
        PROVE  status'[d] # "none" /\ seenFork'[d] = FoundFork(d)
    <3>1. d \in Deposit
      BY <2>0, Found
    <3>2. CASE status[d] = "none"
      BY <1>2, <3>1, <3>2, Recorded
    <3>3. CASE status[d] # "none"
      <4>1. ~ Conflict
        BY <1>2, Recorded
      <4>2. seenFork[d] = FoundFork(d)
        BY <3>3, <4>1 DEF Conflict
      <4> QED BY <2>1, <3>1, <3>3, <4>2
    <3> QED BY <3>2, <3>3
  <2>3. ASSUME NEW n \in 1 .. Len(scanned'), chain[n].fork = scanned'[n], NEW d \in chain[n].logs
        PROVE  status'[d] # "none" /\ seenFork'[d] = scanned'[n]
    <3>0. d \in Deposit /\ chain[n].fork \in Nat
      BY <1>0, <2>0
    <3>1. CASE n <= Len(scanned)
      <4>1. n \in 1 .. Len(scanned) /\ scanned'[n] = scanned[n]
        BY <1>0, <2>0, <3>1
      <4>2. status[d] # "none" /\ seenFork[d] = scanned[n]
        BY <1>0, <2>3, <4>1 DEF NoneSkipped
      <4> QED BY <2>1, <3>0, <4>1, <4>2
    <3>2. CASE n > Len(scanned)
      <4>1. n \in First.from .. First.to
        BY <1>0, <2>0, <3>2
      <4>2. n - First.from < Len(scanner.blocks)
        BY <2>0, <2>3, <3>0, <4>1 DEF Unread
      <4> DEFINE k == n - First.from + 1
      <4>3. k \in 1 .. Len(scanner.blocks) /\ First.from + k - 1 = n /\ scanned'[n] = scanner.blocks[k].fork
        BY <1>0, <2>0, <4>1, <4>2, BlocksRead
      <4> HIDE DEF k
      <4>4. chain[n] = scanner.blocks[k]
        BY <2>0, <2>3, <4>3 DEF IndInv, BlocksShape
      <4>5. d \in Observed
        BY <4>3, <4>4 DEF Observed, LogsOf
      <4>6. BlockOf(d) = k
        <5>1. BlockOf(d) \in 1 .. Len(scanner.blocks) /\ d \in scanner.blocks[BlockOf(d)].logs
          BY <2>0, <4>5, Found
        <5> QED BY <2>0, <4>3, <4>4, <5>1 DEF IndInv, BlocksShape
      <4>7. FoundFork(d) = scanned'[n]
        BY <4>3, <4>6 DEF FoundFork
      <4> QED BY <2>2, <4>5, <4>7
    <3> QED BY <1>0, <2>0, <3>1, <3>2
  <2> QED BY <2>0, <2>3 DEF NoneSkipped
<1>3. ASSUME NEW d \in Deposit, Credit(d) PROVE NoneSkipped'
  <2>1. UNCHANGED <<chain, seenFork, scanned>> /\ status' = [status EXCEPT ![d] = "CREDITED"]
    BY <1>3 DEF Credit, Answered, node
  <2>2. \A e : e \in Deposit /\ status[e] # "none" => status'[e] # "none"
    BY <2>1 DEF TypeOK
  <2>3. ASSUME NEW n \in 1 .. Len(scanned), chain[n].fork = scanned[n], NEW e \in chain[n].logs
        PROVE  status'[e] # "none" /\ seenFork[e] = scanned[n]
    <3>1. e \in Deposit
      BY <1>0
    <3> QED BY <1>0, <2>2, <2>3, <3>1 DEF NoneSkipped
  <2> QED BY <2>1, <2>3 DEF NoneSkipped
<1>4. ASSUME NEW m \in Nat, Grows(m) PROVE NoneSkipped'
  <2>1. UNCHANGED <<status, seenFork, scanned>>
    BY <1>4 DEF Grows, db
  <2>2. ASSUME NEW n \in 1 .. Len(scanned), chain'[n].fork = scanned[n]
        PROVE  chain'[n] = chain[n]
    <3>1. n \in 1 .. Len(chain)
      BY <1>0
    <3>2. ~ (chain'[n].fork > forks)
      BY <1>0, <2>2
    <3> QED BY <1>4, <3>1, <3>2, KeptOrNew
  <2> QED BY <1>0, <2>1, <2>2 DEF NoneSkipped
<1>5. ASSUME NEW e \in Endpoint, CatchUp(e) PROVE NoneSkipped'
  BY <1>1, <1>5 DEF CatchUp, db
<1>6. ASSUME UNCHANGED <<node, db>> PROVE NoneSkipped'
  BY <1>1, <1>6 DEF node, db
<1> QED BY <1>2, <1>3, <1>4, <1>5, <1>6, ReadsKeep, StepCases DEF Quiet

(* A batch starts above the checkpoint, if there are new blocks. *)
LEMMA Batched ==
  ASSUME TypeOK, IndInv, StartRange
  PROVE  /\ BlockNumber \in 0 .. Len(chain) /\ BlockNumber \in Nat
         /\ NextBlock <= BlockNumber =>
              /\ Batch(BlockNumber) \in BlockRange
              /\ Batch(BlockNumber).from = NextBlock /\ NextBlock <= Batch(BlockNumber).to
              /\ Batch(BlockNumber).to <= BlockNumber
              /\ scanner' = [scanner EXCEPT !.latest = BlockNumber, !.at = "logs", !.ranges = <<Batch(BlockNumber)>>]
         /\ ~ (NextBlock <= BlockNumber) => scanner' = [scanner EXCEPT !.latest = BlockNumber, !.at = "list"]
<1>0. /\ Len(chain) \in Nat /\ Len(scanned) \in Nat /\ BatchSize \in Nat /\ BatchSize > 0
      /\ (behind # {} => Len(chain) > 0) /\ scanner \in ScannerType
  BY Shape, Constants DEF IndInv, ChainShape
<1>1. BlockNumber \in 0 .. Len(chain) /\ BlockNumber \in Nat
  BY <1>0 DEF BlockNumber, Height
<1>2. NextBlock \in Nat /\ NextBlock > 0
  BY <1>0 DEF NextBlock
<1> DEFINE to == Smaller(BlockNumber, NextBlock + BatchSize - 1)
<1>3. Batch(BlockNumber) = [from |-> NextBlock, to |-> to]
  BY DEF Batch
<1>4. NextBlock <= BlockNumber => to \in Nat /\ NextBlock <= to /\ to <= BlockNumber
  BY <1>0, <1>1, <1>2 DEF Smaller
<1> HIDE DEF to
<1>5. NextBlock <= BlockNumber =>
        /\ Batch(BlockNumber) \in BlockRange
        /\ Batch(BlockNumber).from = NextBlock /\ NextBlock <= Batch(BlockNumber).to
        /\ Batch(BlockNumber).to <= BlockNumber
  BY <1>2, <1>3, <1>4 DEF BlockRange
<1>6. NextBlock <= BlockNumber =>
        scanner' = [scanner EXCEPT !.latest = BlockNumber, !.at = "logs", !.ranges = <<Batch(BlockNumber)>>]
  BY DEF StartRange, Ask
<1>7. ~ (NextBlock <= BlockNumber) => scanner' = [scanner EXCEPT !.latest = BlockNumber, !.at = "list"]
  BY DEF StartRange, Turn
<1> QED BY <1>1, <1>5, <1>6, <1>7

(* Both halves of a range are ranges, and one follows the other. *)
LEMMA Halved ==
  ASSUME NEW r \in BlockRange, r.from < r.to
  PROVE  /\ Halves(r) \in Seq(BlockRange) /\ Len(Halves(r)) = 2
         /\ Halves(r)[1].from = r.from /\ Halves(r)[1].from <= Halves(r)[1].to
         /\ Halves(r)[2].from = Halves(r)[1].to + 1 /\ Halves(r)[2].from <= Halves(r)[2].to
         /\ Halves(r)[1].to <= r.to /\ Halves(r)[2].to = r.to
<1> DEFINE middle == r.from + (r.to - r.from) \div 2
           low == [r EXCEPT !.to = middle]
           high == [r EXCEPT !.from = middle + 1]
<1>1. Halves(r) = <<low, high>>
  BY DEF Halves
<1>2. r.from \in Nat /\ r.to \in Nat /\ r.from > 0
  BY DEF BlockRange
<1>3. middle \in Nat /\ r.from <= middle /\ middle < r.to
  BY <1>2
<1> HIDE DEF middle
<1>4. /\ low \in BlockRange /\ low.from = r.from /\ low.to = middle
      /\ high \in BlockRange /\ high.from = middle + 1 /\ high.to = r.to
  BY <1>2, <1>3 DEF BlockRange
<1> HIDE DEF low, high
<1>5. Halves(r) \in Seq(BlockRange) /\ Len(Halves(r)) = 2 /\ Halves(r)[1] = low /\ Halves(r)[2] = high
  BY <1>1, <1>4
<1> QED BY <1>2, <1>3, <1>4, <1>5

LEMMA Split ==
  ASSUME TypeOK, IndInv, SplitRange
  PROVE  LET new == Halves(First) \o Tail(scanner.ranges) IN
         /\ scanner' = [scanner EXCEPT !.ranges = new]
         /\ new \in Seq(BlockRange) /\ Len(new) = Len(scanner.ranges) + 1
         /\ new[1] = Halves(First)[1] /\ new[2] = Halves(First)[2]
         /\ \A i \in 3 .. Len(new) : new[i] = scanner.ranges[i - 1]
<1> DEFINE t == Tail(scanner.ranges)
           h == Halves(First)
           new == h \o t
<1>0. At("logs") /\ First.from < First.to
  BY DEF SplitRange
<1>1. /\ scanner.ranges \in Seq(BlockRange) /\ scanner.ranges # <<>> /\ First \in BlockRange
      /\ Len(scanner.ranges) \in Nat /\ Len(scanner.ranges) > 0
  BY <1>0, FirstRange
<1>2. scanner' = [scanner EXCEPT !.ranges = new]
  <2>1. scanner' = [scanner EXCEPT !.ranges = Halves(First) \o Tail(@)]
    BY DEF SplitRange, Ask
  <2> QED BY <2>1, Shape DEF TypeOK
<1>3. /\ t \in Seq(BlockRange) /\ Len(t) = Len(scanner.ranges) - 1
      /\ \A i \in 1 .. Len(t) : t[i] = scanner.ranges[i + 1]
  BY <1>1, HeadTailProperties
<1>4. h \in Seq(BlockRange) /\ Len(h) = 2
  BY <1>0, <1>1, Halved
<1> HIDE DEF t, h
<1>5. /\ new \in Seq(BlockRange) /\ Len(new) = Len(h) + Len(t)
      /\ \A i \in 1 .. Len(h) + Len(t) : new[i] = IF i <= Len(h) THEN h[i] ELSE t[i - Len(h)]
  BY <1>3, <1>4, ConcatProperties
<1> HIDE DEF new
<1>6. Len(new) = Len(scanner.ranges) + 1 /\ new[1] = h[1] /\ new[2] = h[2]
  <2>1. Len(t) \in Nat /\ Len(new) = Len(scanner.ranges) + 1
    BY <1>1, <1>3, <1>4, <1>5
  <2>2. /\ 1 \in 1 .. Len(h) + Len(t) /\ 1 <= Len(h)
        /\ 2 \in 1 .. Len(h) + Len(t) /\ 2 <= Len(h)
    BY <1>4, <2>1
  <2>3. new[1] = h[1]
    BY <1>5, <2>2
  <2>4. new[2] = h[2]
    BY <1>5, <2>2
  <2> QED BY <2>1, <2>3, <2>4
<1>7. ASSUME NEW i \in 3 .. Len(new) PROVE new[i] = scanner.ranges[i - 1]
  <2>1. i - 2 \in 1 .. Len(t) /\ i \in 1 .. Len(h) + Len(t) /\ ~ (i <= Len(h))
    BY <1>1, <1>3, <1>4, <1>6
  <2>2. new[i] = t[i - 2] /\ t[i - 2] = scanner.ranges[(i - 2) + 1]
    BY <1>3, <1>4, <1>5, <2>1
  <2>3. (i - 2) + 1 = i - 1
    BY <2>1
  <2> QED BY <2>2, <2>3
<1> QED BY <1>2, <1>5, <1>6, <1>7 DEF new, t, h

LEMMA RecordedOn ==
  ASSUME TypeOK, IndInv, Record
  PROVE  /\ Tail(scanner.ranges) = <<>> =>
              scanner' = [scanner EXCEPT !.ranges = Tail(scanner.ranges), !.blocks = <<>>, !.at = "list"]
         /\ Tail(scanner.ranges) # <<>> =>
              scanner' = [scanner EXCEPT !.ranges = Tail(scanner.ranges), !.blocks = <<>>, !.at = "logs"]
         /\ Tail(scanner.ranges) \in Seq(BlockRange) /\ Len(Tail(scanner.ranges)) = Len(scanner.ranges) - 1
         /\ \A i \in 1 .. Len(Tail(scanner.ranges)) : Tail(scanner.ranges)[i] = scanner.ranges[i + 1]
<1>1. scanner.ranges \in Seq(BlockRange) /\ scanner.ranges # <<>> /\ At("header")
  BY FirstRange DEF Record, Answered
<1>2. /\ Tail(scanner.ranges) \in Seq(BlockRange) /\ Len(Tail(scanner.ranges)) = Len(scanner.ranges) - 1
      /\ \A i \in 1 .. Len(Tail(scanner.ranges)) : Tail(scanner.ranges)[i] = scanner.ranges[i + 1]
  BY <1>1, HeadTailProperties
<1>3. scanner \in ScannerType
  BY Shape
<1>4. Tail(scanner.ranges) = <<>> =>
        scanner' = [scanner EXCEPT !.ranges = Tail(scanner.ranges), !.blocks = <<>>, !.at = "list"]
  BY DEF Record, Turn
<1>5. Tail(scanner.ranges) # <<>> =>
        scanner' = [scanner EXCEPT !.ranges = Tail(scanner.ranges), !.blocks = <<>>, !.at = "logs"]
  BY DEF Record, Ask
<1> QED BY <1>2, <1>4, <1>5

LEMMA NextRangeShape ==
  ASSUME TypeOK, IndInv, [Next]_vars
  PROVE  RangeShape'
<1>0. scanner \in ScannerType /\ RangeShape /\ Len(scanned) \in Nat
  BY Shape DEF IndInv
<1>1. ASSUME UNCHANGED <<scanner, scanned>> PROVE RangeShape'
  BY <1>0, <1>1 DEF RangeShape, At, First, NextBlock
<1>2. ASSUME scanner'.at \notin {"logs", "header"} PROVE RangeShape'
  BY <1>2 DEF RangeShape, At
<1>3. ASSUME NEW l \in {"idle", "tip", "stopped"}, scanner' = [Resting EXCEPT !.at = l] PROVE RangeShape'
  <2>1. scanner'.at = l
    BY <1>3 DEF Resting
  <2> QED BY <1>2, <2>1
<1>4. ASSUME StartRange PROVE RangeShape'
  <2>1. CASE ~ (NextBlock <= BlockNumber)
    <3>1. scanner'.at = "list"
      BY <1>0, <1>4, <2>1, Batched DEF ScannerType
    <3> QED BY <1>2, <3>1
  <2>2. CASE NextBlock <= BlockNumber
    <3> DEFINE b == Batch(BlockNumber)
    <3>1. b.from = NextBlock /\ NextBlock <= b.to /\ scanner'.ranges = <<b>>
      BY <1>0, <1>4, <2>2, Batched DEF ScannerType
    <3> HIDE DEF b
    <3>2. /\ <<b>> # <<>> /\ Head(<<b>>) = b /\ Len(<<b>>) = 1
          /\ \A i \in 1 .. Len(<<b>>) : <<b>>[i] = b
      OBVIOUS
    <3>3. scanned' = scanned
      BY <1>4 DEF StartRange, db
    <3> QED BY <3>1, <3>2, <3>3 DEF RangeShape, First, NextBlock
  <2> QED BY <2>1, <2>2
<1>5. ASSUME LogsRead PROVE RangeShape'
  <2>1. scanner'.ranges = scanner.ranges /\ scanned' = scanned /\ At("logs")
    BY <1>0, <1>5 DEF LogsRead, Ask, db, ScannerType, Answered
  <2> QED BY <1>0, <2>1 DEF RangeShape, First, NextBlock
<1>6. ASSUME SplitRange PROVE RangeShape'
  <2> DEFINE new == Halves(First) \o Tail(scanner.ranges)
             old == scanner.ranges
  <2>1. /\ scanner' = [scanner EXCEPT !.ranges = new] /\ new \in Seq(BlockRange) /\ Len(new) = Len(old) + 1
        /\ new[1] = Halves(First)[1] /\ new[2] = Halves(First)[2]
        /\ \A i \in 3 .. Len(new) : new[i] = old[i - 1]
    BY <1>6, Split
  <2>2. At("logs") /\ First.from < First.to /\ scanned' = scanned
    BY <1>6 DEF SplitRange, db
  <2>3. First \in BlockRange /\ First = old[1] /\ Len(old) \in Nat /\ Len(old) > 0 /\ First.from = NextBlock
    BY <2>2, FirstRange DEF IndInv, RangeShape
  <2>4. /\ new[1].from = NextBlock /\ new[1].from <= new[1].to
        /\ new[2].from = new[1].to + 1 /\ new[2].from <= new[2].to /\ new[2].to = old[1].to
    BY <2>1, <2>2, <2>3, Halved
  <2>5. /\ \A i \in 1 .. Len(old) : old[i].from <= old[i].to
        /\ \A i, j \in 1 .. Len(old) : j = i + 1 => old[j].from = old[i].to + 1
    BY <1>0, <2>2 DEF RangeShape
  <2>6. scanner'.ranges = new
    BY <1>0, <2>1 DEF ScannerType
  <2> HIDE DEF new, old
  <2>7. ASSUME NEW i \in 1 .. Len(new) PROVE new[i].from <= new[i].to
    <3>1. CASE i <= 2
      BY <2>4, <3>1
    <3>2. CASE i > 2
      <4>1. i \in 3 .. Len(new) /\ i - 1 \in 1 .. Len(old)
        BY <2>1, <2>3, <3>2
      <4> QED BY <2>1, <2>5, <4>1
    <3> QED BY <2>1, <2>3, <3>1, <3>2
  <2>8. ASSUME NEW i \in 1 .. Len(new), NEW j \in 1 .. Len(new), j = i + 1
        PROVE  new[j].from = new[i].to + 1
    <3>1. CASE i = 1
      BY <2>4, <2>8, <3>1
    <3>2. CASE i = 2
      <4>1. j = 3 /\ j \in 3 .. Len(new) /\ 1 \in 1 .. Len(old) /\ 2 \in 1 .. Len(old)
        BY <2>1, <2>3, <2>8, <3>2
      <4>2. j - 1 = 2 /\ 2 = 1 + 1
        BY <4>1
      <4>3. new[j] = old[2]
        BY <2>1, <4>1, <4>2
      <4>4. old[2].from = old[1].to + 1
        BY <2>5, <4>1, <4>2
      <4> QED BY <2>4, <3>2, <4>3, <4>4
    <3>3. CASE i > 2
      <4>1. /\ i \in 3 .. Len(new) /\ j \in 3 .. Len(new)
            /\ i - 1 \in 1 .. Len(old) /\ j - 1 \in 1 .. Len(old) /\ j - 1 = (i - 1) + 1
        BY <2>1, <2>3, <2>8, <3>3
      <4> QED BY <2>1, <2>5, <4>1
    <3> QED BY <2>1, <2>3, <3>1, <3>2, <3>3
  <2>9. new # <<>> /\ Head(new) = new[1]
    BY <2>1, <2>3
  <2> QED BY <2>2, <2>4, <2>6, <2>7, <2>8, <2>9 DEF RangeShape, First, NextBlock
<1>7. ASSUME Record PROVE RangeShape'
  <2> DEFINE t == Tail(scanner.ranges)
             old == scanner.ranges
  <2>0. /\ t = <<>> => scanner' = [scanner EXCEPT !.ranges = t, !.blocks = <<>>, !.at = "list"]
        /\ t # <<>> => scanner' = [scanner EXCEPT !.ranges = t, !.blocks = <<>>, !.at = "logs"]
        /\ t \in Seq(BlockRange) /\ Len(t) = Len(old) - 1
        /\ \A i \in 1 .. Len(t) : t[i] = old[i + 1]
    BY <1>7, RecordedOn
  <2>1. CASE t = <<>>
    <3>1. scanner'.at = "list"
      BY <1>0, <2>0, <2>1 DEF ScannerType
    <3> QED BY <1>2, <3>1
  <2>2. CASE t # <<>>
    <3>1. scanner'.ranges = t
      BY <1>0, <2>0, <2>2 DEF ScannerType
    <3>2. At("header") /\ Len(scanned') = First.to
      BY <1>7, Recorded
    <3>3. First = old[1] /\ Len(old) \in Nat /\ First.to \in Nat
      BY <3>2, FirstRange
    <3>4. /\ \A i \in 1 .. Len(old) : old[i].from <= old[i].to
          /\ \A i, j \in 1 .. Len(old) : j = i + 1 => old[j].from = old[i].to + 1
      BY <1>0, <3>2 DEF RangeShape
    <3> HIDE DEF t, old
    <3>5. Len(t) \in Nat /\ Len(t) > 0 /\ Head(t) = t[1]
      BY <2>0, <2>2, EmptySeq
    <3>6. \A i \in 1 .. Len(t) : i + 1 \in 1 .. Len(old)
      BY <2>0, <3>3
    <3>7. \A i \in 1 .. Len(t) : t[i].from <= t[i].to
      BY <2>0, <3>4, <3>6
    <3>8. ASSUME NEW i \in 1 .. Len(t), NEW j \in 1 .. Len(t), j = i + 1
          PROVE  t[j].from = t[i].to + 1
      <4>1. i + 1 \in 1 .. Len(old) /\ j + 1 \in 1 .. Len(old) /\ j + 1 = (i + 1) + 1
        BY <3>6, <3>8
      <4>2. old[j + 1].from = old[i + 1].to + 1
        BY <3>4, <4>1
      <4> QED BY <2>0, <4>2
    <3>9. t[1].from = First.to + 1
      <4>1. 1 \in 1 .. Len(old) /\ 2 \in 1 .. Len(old) /\ 1 \in 1 .. Len(t) /\ t[1] = old[2]
        BY <2>0, <3>3, <3>5
      <4> QED BY <3>3, <3>4, <4>1
    <3> QED BY <2>2, <3>1, <3>2, <3>5, <3>7, <3>8, <3>9 DEF RangeShape, First, NextBlock
  <2> QED BY <2>1, <2>2
<1>8. ASSUME List PROVE RangeShape'
  <2>1. scanner'.at = "check"
    BY <1>0, <1>8 DEF List, Turn, ScannerType
  <2> QED BY <1>2, <2>1
<1>9. ASSUME NEW d \in Deposit, Wait(d) \/ Verify(d) \/ Credit(d) PROVE RangeShape'
  <2>1. scanner'.at \in {"check", "verify"}
    BY <1>0, <1>9 DEF Wait, Verify, Credit, Turn, Ask, ScannerType, At
  <2> QED BY <1>2, <2>1
<1>10. ASSUME NEW m \in Nat, Grows(m) PROVE RangeShape'
  BY <1>1, <1>10 DEF Grows, db
<1>11. ASSUME NEW e \in Endpoint, CatchUp(e) PROVE RangeShape'
  BY <1>1, <1>11 DEF CatchUp, db
<1>12. ASSUME Quiet PROVE RangeShape'
  BY <1>1, <1>3, <1>12 DEF Quiet, db
<1> QED BY <1>4, <1>5, <1>6, <1>7, <1>8, <1>9, <1>10, <1>11, <1>12, StepCases

(* What an endpoint returns are blocks of the chain, from the first of the *)
(* range on.                                                               *)
LEMMA LogsAnswered ==
  ASSUME TypeOK, IndInv, LogsRead
  PROVE  LET b == FilterLogs(First) IN
         /\ At("logs") /\ UNCHANGED <<node, db>> /\ scanner' = [scanner EXCEPT !.at = "header", !.blocks = b]
         /\ b \in Seq(Block) /\ Len(b) \in Nat /\ First.from + Len(b) <= First.to + 1
         /\ First.to <= BlockNumber => First.from + Len(b) = First.to + 1
         /\ \A k \in 1 .. Len(b) : First.from + k - 1 \in 1 .. Len(chain) /\ b[k] = chain[First.from + k - 1]
<1> DEFINE b == FilterLogs(First)
           x == Smaller(First.to, BlockNumber)
<1>0. At("logs") /\ UNCHANGED <<node, db>> /\ scanner' = [scanner EXCEPT !.at = "header", !.blocks = b]
  BY DEF LogsRead, Answered, Ask
<1>1. /\ First.from \in Nat /\ First.to \in Nat /\ First.from > 0 /\ First.from <= First.to
      /\ Len(chain) \in Nat /\ chain \in Seq(Block)
  BY <1>0, Shape, FirstRange
<1>2. x \in Int /\ x <= First.to /\ x <= Len(chain) /\ (First.to <= BlockNumber => x = First.to)
  <2>1. BlockNumber \in Int /\ BlockNumber <= Len(chain)
    BY <1>1, Heights DEF BlockNumber
  <2> QED BY <1>1, <2>1 DEF Smaller
<1>3. b = SubSeq(chain, First.from, x)
  BY DEF FilterLogs
<1> HIDE DEF b, x
<1> DEFINE f == First.from
<1>4. f \in Nat /\ f > 0 /\ b = SubSeq(chain, f, x) /\ f <= First.to
  BY <1>1, <1>3
<1> HIDE DEF f
<1>5. \A i \in f .. x : chain[i] \in Block
  BY <1>1, <1>2, <1>4, ElementOfSeq
<1>6. /\ b \in Seq(Block)
      /\ Len(b) = IF f <= x THEN x - f + 1 ELSE 0
      /\ \A k \in 1 .. x - f + 1 : b[k] = chain[f + k - 1]
  BY <1>2, <1>4, <1>5, SubSeqProperties
<1>7. /\ Len(b) \in Nat /\ f + Len(b) <= First.to + 1
      /\ x = First.to => f + Len(b) = First.to + 1
  BY <1>1, <1>2, <1>4, <1>6
<1>8. \A k \in 1 .. Len(b) : f + k - 1 \in 1 .. Len(chain) /\ k \in 1 .. x - f + 1
  BY <1>1, <1>2, <1>4, <1>6
<1> QED BY <1>0, <1>2, <1>6, <1>7, <1>8 DEF b, f

LEMMA NextBlocksShape ==
  ASSUME TypeOK, IndInv, [Next]_vars
  PROVE  BlocksShape'
<1>0. scanner \in ScannerType /\ BlocksShape /\ forks \in Nat /\ ChainShape
  BY Shape DEF IndInv
<1>1. ASSUME UNCHANGED <<scanner, chain, forks>> PROVE BlocksShape'
  BY <1>0, <1>1 DEF BlocksShape, At, First
<1>2. ASSUME scanner'.at # "header" PROVE BlocksShape'
  BY <1>2 DEF BlocksShape, At
<1>3. ASSUME NEW l \in {"idle", "tip", "stopped"}, scanner' = [Resting EXCEPT !.at = l] PROVE BlocksShape'
  <2>1. scanner'.at = l
    BY <1>3 DEF Resting
  <2> QED BY <1>2, <2>1
<1>4. ASSUME StartRange PROVE BlocksShape'
  <2>1. scanner'.at \in {"logs", "list"}
    BY <1>0, <1>4, Batched DEF ScannerType
  <2> QED BY <1>2, <2>1
<1>5. ASSUME LogsRead PROVE BlocksShape'
  <2> DEFINE b == FilterLogs(First)
             f == First.from
  <2>1. /\ UNCHANGED <<chain, forks>> /\ scanner' = [scanner EXCEPT !.at = "header", !.blocks = b]
        /\ Len(b) \in Nat /\ f + Len(b) <= First.to + 1 /\ f \in Nat
        /\ \A k \in 1 .. Len(b) : f + k - 1 \in 1 .. Len(chain) /\ b[k] = chain[f + k - 1]
    BY <1>5, LogsAnswered, FirstRange DEF node
  <2>2. scanner'.blocks = b /\ scanner'.ranges = scanner.ranges
    BY <1>0, <2>1 DEF ScannerType
  <2>3. First' = First
    BY <2>2 DEF First
  <2> HIDE DEF b
  <2>4. ASSUME NEW k \in 1 .. Len(b)
        PROVE  /\ f + k - 1 <= Len(chain) /\ b[k].fork <= forks
               /\ chain[f + k - 1].fork = b[k].fork => chain[f + k - 1] = b[k]
    <3>1. PICK n \in 1 .. Len(chain) : n = f + k - 1
      BY <2>1
    <3>2. b[k] = chain[n] /\ chain[n].fork <= forks /\ n <= Len(chain)
      BY <1>0, <2>1, <3>1 DEF ChainShape
    <3> QED BY <3>1, <3>2
  <2>5. ASSUME NEW k \in 1 .. Len(b), NEW l \in 1 .. Len(b), k # l
        PROVE  b[k].logs \intersect b[l].logs = {}
    <3> HIDE DEF f
    <3>1. f + k - 1 # f + l - 1
      BY <2>1, <2>5
    <3>2. f + k - 1 \in 1 .. Len(chain) /\ f + l - 1 \in 1 .. Len(chain)
      BY <2>1
    <3> QED BY <1>0, <2>1, <3>1, <3>2 DEF ChainShape
  <2> QED BY <2>1, <2>2, <2>3, <2>4, <2>5 DEF BlocksShape
<1>6. ASSUME SplitRange \/ List \/ (\E d \in Deposit : Wait(d) \/ Verify(d) \/ Credit(d)) PROVE BlocksShape'
  <2>1. scanner'.at \in {"logs", "check", "verify"}
    BY <1>0, <1>6 DEF SplitRange, List, Wait, Verify, Credit, Turn, Ask, ScannerType, At
  <2> QED BY <1>2, <2>1
<1>7. ASSUME Record PROVE BlocksShape'
  <2>1. scanner'.at \in {"logs", "list"}
    BY <1>0, <1>7, RecordedOn DEF ScannerType
  <2> QED BY <1>2, <2>1
<1>8. ASSUME NEW m \in Nat, Grows(m) PROVE BlocksShape'
  <2>0. CASE ~ At("header")
    BY <1>2, <1>8, <2>0 DEF Grows, At
  <2>1. CASE At("header")
    <3> DEFINE b == scanner.blocks
               f == First.from
    <3>1. scanner' = scanner /\ First' = First /\ forks' \in Nat /\ forks' >= forks
      BY <1>8, Constants DEF Grows, First
    <3>2. /\ \A k \in 1 .. Len(b) :
               /\ f + k - 1 <= Len(chain) /\ b[k].fork <= forks
               /\ chain[f + k - 1].fork = b[k].fork => chain[f + k - 1] = b[k]
          /\ f + Len(b) <= First.to + 1
          /\ \A k, l \in 1 .. Len(b) : k # l => b[k].logs \intersect b[l].logs = {}
      BY <1>0, <2>1 DEF BlocksShape
    <3>3. f \in Nat /\ f > 0 /\ Len(b) \in Nat /\ Len(chain) \in Nat /\ \A k \in 1 .. Len(b) : b[k].fork \in Nat
      BY <2>1, FirstRange, BlocksRead, Shape
    <3> HIDE DEF b, f
    <3>4. ASSUME NEW k \in 1 .. Len(b)
          PROVE  /\ f + k - 1 <= Len(chain') /\ b[k].fork <= forks'
                 /\ chain'[f + k - 1].fork = b[k].fork => chain'[f + k - 1] = b[k]
      <4>1. f + k - 1 \in 1 .. Len(chain)
        BY <3>2, <3>3
      <4>2. PICK n \in 1 .. Len(chain) : n = f + k - 1
        BY <4>1
      <4>3. n \in 1 .. Len(chain') /\ (chain'[n] = chain[n] \/ chain'[n].fork > forks)
        BY <1>8, KeptOrNew
      <4>4. chain'[n].fork = b[k].fork => chain'[n] = b[k]
        BY <1>0, <3>2, <3>3, <4>2, <4>3
      <4>5. n <= Len(chain') /\ b[k].fork <= forks'
        BY <1>0, <3>1, <3>2, <3>3, <4>3
      <4> QED BY <4>2, <4>4, <4>5
    <3> QED BY <3>1, <3>2, <3>4 DEF BlocksShape, b, f
  <2> QED BY <2>0, <2>1
<1>9. ASSUME NEW e \in Endpoint, CatchUp(e) PROVE BlocksShape'
  BY <1>1, <1>9 DEF CatchUp
<1>10. ASSUME Quiet PROVE BlocksShape'
  BY <1>1, <1>3, <1>10 DEF Quiet, node
<1> QED BY <1>4, <1>5, <1>6, <1>7, <1>8, <1>9, <1>10, StepCases

(* The scanner credits the deposits it looks at, one at a time. *)
LEMMA NextCheckShape ==
  ASSUME TypeOK, IndInv, [Next]_vars
  PROVE  CheckShape'
<1>0. /\ scanner \in ScannerType /\ CheckShape /\ status \in [Deposit -> {"none", "CONFIRMING", "CREDITED"}]
      /\ scanner.todo \subseteq Deposit
  BY Shape DEF IndInv, TypeOK, ScannerType
<1>1. ASSUME UNCHANGED <<scanner, status, seenAt>> PROVE CheckShape'
  BY <1>0, <1>1 DEF CheckShape, At, Lowest, EnoughConfirmations
<1>2. ASSUME scanner'.at # "verify", \A d \in scanner'.todo : status'[d] = "CONFIRMING" PROVE CheckShape'
  BY <1>2 DEF CheckShape, At
<1>3. ASSUME NEW l \in {"idle", "tip", "stopped"}, scanner' = [Resting EXCEPT !.at = l] PROVE CheckShape'
  <2>1. scanner'.at = l /\ scanner'.todo = {}
    BY <1>3 DEF Resting
  <2> QED BY <1>2, <2>1
<1>4. ASSUME StartRange \/ LogsRead \/ SplitRange PROVE CheckShape'
  <2>1. scanner'.at \in {"logs", "list", "header"} /\ scanner'.todo = scanner.todo
    <3>1. CASE StartRange
      BY <1>0, <3>1, Batched DEF ScannerType
    <3>2. CASE LogsRead \/ SplitRange
      BY <1>0, <3>2 DEF LogsRead, SplitRange, Ask, ScannerType, At
    <3> QED BY <1>4, <3>1, <3>2
  <2>2. status' = status
    BY <1>4, ReadsKeep DEF db
  <2> QED BY <1>0, <1>2, <2>1, <2>2 DEF CheckShape
<1>5. ASSUME Record PROVE CheckShape'
  <2>1. scanner'.at \in {"logs", "list"} /\ scanner'.todo = scanner.todo
    BY <1>0, <1>5, RecordedOn DEF ScannerType
  <2>2. \A d \in scanner.todo : status[d] = "CONFIRMING" /\ status'[d] = status[d]
    BY <1>0, <1>5, Recorded DEF CheckShape
  <2> QED BY <1>2, <2>1, <2>2
<1>6. ASSUME List PROVE CheckShape'
  <2>1. scanner'.at = "check" /\ scanner'.todo = Confirming /\ status' = status
    BY <1>0, <1>6 DEF List, Turn, ScannerType, db
  <2> QED BY <1>2, <2>1 DEF Confirming
<1>7. ASSUME NEW d \in Deposit, Wait(d) PROVE CheckShape'
  <2>1. scanner'.at = "check" /\ scanner'.todo = scanner.todo \ {d} /\ status' = status
    BY <1>0, <1>7 DEF Wait, Turn, At, ScannerType, db
  <2> QED BY <1>0, <1>2, <2>1 DEF CheckShape
<1>8. ASSUME NEW d \in Deposit, Verify(d) PROVE CheckShape'
  <2>1. /\ scanner'.at = "verify" /\ scanner'.todo = scanner.todo /\ scanner'.latest = scanner.latest
        /\ status' = status /\ seenAt' = seenAt
    BY <1>0, <1>8 DEF Verify, Ask, ScannerType, db
  <2>2. Lowest(d) /\ EnoughConfirmations(d) /\ \A e \in Deposit : seenAt[e] \in Nat
    BY <1>8, Shape DEF Verify
  <2>3. ASSUME NEW e \in Deposit, Lowest(e) PROVE EnoughConfirmations(e)
    <3>1. seenAt[e] = seenAt[d]
      BY <1>0, <2>2, <2>3 DEF Lowest
    <3> QED BY <2>2, <3>1 DEF EnoughConfirmations
  <2> QED BY <1>0, <2>1, <2>3 DEF CheckShape, Lowest, EnoughConfirmations
<1>9. ASSUME NEW d \in Deposit, Credit(d) PROVE CheckShape'
  <2>1. scanner'.at = "check" /\ scanner'.todo = scanner.todo \ {d}
    BY <1>0, <1>9 DEF Credit, Turn, ScannerType
  <2>2. \A e \in Deposit : e # d => status'[e] = status[e]
    BY <1>0, <1>9 DEF Credit
  <2> QED BY <1>0, <1>2, <2>1, <2>2 DEF CheckShape
<1>10. ASSUME NEW m \in Nat, Grows(m) PROVE CheckShape'
  BY <1>1, <1>10 DEF Grows, db
<1>11. ASSUME NEW e \in Endpoint, CatchUp(e) PROVE CheckShape'
  BY <1>1, <1>11 DEF CatchUp, db
<1>12. ASSUME Quiet PROVE CheckShape'
  BY <1>1, <1>3, <1>12 DEF Quiet, db
<1> QED BY <1>4, <1>5, <1>6, <1>7, <1>8, <1>9, <1>10, <1>11, <1>12, StepCases

(* A credit moves one row's amount from the one balance to the other. *)
LEMMA NextBooksShape ==
  ASSUME TypeOK, IndInv, [Next]_vars
  PROVE  BooksShape'
<1> DEFINE held(p) == {d \in Deposit : status[d] = p}
<1>0. /\ pending = AmountOf(held("CONFIRMING")) /\ available = AmountOf(held("CREDITED"))
      /\ status \in [Deposit -> {"none", "CONFIRMING", "CREDITED"}]
  BY DEF IndInv, BooksShape, TypeOK
<1>1. ASSUME UNCHANGED <<status, available, pending>> PROVE BooksShape'
  BY <1>0, <1>1 DEF BooksShape
<1>2. ASSUME Record PROVE BooksShape'
  <2>0. PICK new : new = {d \in Observed : status[d] = "none"}
    OBVIOUS
  <2>1. new \subseteq Deposit
    BY <1>2, <2>0, Recorded, Found
  <2>2. pending' = pending + AmountOf(new) /\ available' = available
    BY <1>2, <2>0 DEF Record
  <2>3. \A d \in Deposit : IF d \in new THEN status[d] = "none" /\ status'[d] = "CONFIRMING" ELSE status'[d] = status[d]
    BY <1>2, <2>0, Recorded
  <2>4. held("CONFIRMING")' = held("CONFIRMING") \union new
    BY <2>1, <2>3
  <2>5. held("CREDITED")' = held("CREDITED")
    BY <2>3
  <2>6. held("CONFIRMING") \intersect new = {}
    BY <2>1, <2>3
  <2> HIDE DEF held
  <2>7. AmountOf(held("CONFIRMING") \union new) = AmountOf(held("CONFIRMING")) + AmountOf(new)
    BY <2>6, Amounts
  <2>8. pending' = AmountOf(held("CONFIRMING") \union new) /\ available' = AmountOf(held("CREDITED"))
    BY <1>0, <2>2, <2>7
  <2> QED BY <2>4, <2>5, <2>8 DEF BooksShape, held
<1>3. ASSUME NEW d \in Deposit, Credit(d) PROVE BooksShape'
  <2>1. status[d] = "CONFIRMING"
    BY <1>3 DEF Credit, Lowest, IndInv, CheckShape
  <2>2. /\ status' = [status EXCEPT ![d] = "CREDITED"]
        /\ pending' = pending - Amount[d] /\ available' = available + Amount[d]
    BY <1>3 DEF Credit
  <2>3. d \in held("CONFIRMING") /\ held("CONFIRMING")' = held("CONFIRMING") \ {d}
    BY <1>0, <2>1, <2>2
  <2>4. held("CREDITED")' = held("CREDITED") \union {d} /\ held("CREDITED") \intersect {d} = {}
    BY <1>0, <2>1, <2>2
  <2> HIDE DEF held
  <2>5. AmountOf(held("CONFIRMING") \ {d}) = AmountOf(held("CONFIRMING")) - Amount[d]
    BY <2>3, AmountWithout
  <2>6. AmountOf(held("CREDITED") \union {d}) = AmountOf(held("CREDITED")) + Amount[d]
    BY <2>4, Amounts
  <2>7. /\ pending' = AmountOf(held("CONFIRMING") \ {d})
        /\ available' = AmountOf(held("CREDITED") \union {d})
    BY <1>0, <2>2, <2>5, <2>6
  <2> QED BY <2>3, <2>4, <2>7 DEF BooksShape, held
<1>4. ASSUME UNCHANGED db PROVE BooksShape'
  BY <1>1, <1>4 DEF db
<1> QED BY <1>2, <1>3, <1>4, ReadsKeep, StepCases DEF Quiet, Grows, CatchUp

LEMMA NextIndInv == TypeOK /\ IndInv /\ [Next]_vars => IndInv'
BY NextChainShape, NextRowShape, NextRangeShape, NextBlocksShape, NextCheckShape, NextBooksShape,
   NextNoneSkipped DEF IndInv

-----------------------------------------------------------------------------
(***************************************************************************)
(* The type invariant.                                                     *)
(***************************************************************************)
LEMMA ChainLonger ==
  ASSUME TypeOK, IndInv, [Next]_vars
  PROVE  Len(chain') \in Nat /\ Len(chain') >= Len(chain) /\ Len(chain) \in Nat
<1> DEFINE Goal == Len(chain') \in Nat /\ Len(chain') >= Len(chain)
<1>0. Len(chain) \in Nat
  BY Shape
<1>1. ASSUME chain' = chain PROVE Goal
  BY <1>0, <1>1
<1>2. ASSUME NEW m \in Nat, Grows(m) PROVE Goal
  BY <1>2 DEF Grows
<1>3. Record \/ (\E d \in Deposit : Credit(d)) \/ (\E e \in Endpoint : CatchUp(e)) \/ UNCHANGED <<node, db>>
      => chain' = chain
  BY DEF Record, Credit, Answered, CatchUp, node
<1> HIDE DEF Goal
<1>4. Goal
  BY <1>1, <1>2, <1>3, ReadsKeep, StepCases DEF Quiet
<1> QED BY <1>0, <1>4 DEF Goal

LEMMA NextChainType ==
  ASSUME TypeOK, IndInv, [Next]_vars
  PROVE  chain' \in Seq(Block) /\ forks' \in 0 .. MaxForks /\ behind' \subseteq Endpoint
<1> DEFINE Goal == chain' \in Seq(Block) /\ forks' \in 0 .. MaxForks /\ behind' \subseteq Endpoint
<1>0. chain \in Seq(Block) /\ forks \in 0 .. MaxForks /\ behind \subseteq Endpoint
  BY DEF TypeOK
<1>1. ASSUME UNCHANGED node PROVE Goal
  BY <1>0, <1>1 DEF node
<1>2. ASSUME NEW m \in Nat, Grows(m) PROVE Goal
  BY <1>2 DEF Grows
<1>3. ASSUME NEW e \in Endpoint, CatchUp(e) PROVE Goal
  BY <1>0, <1>3 DEF CatchUp
<1>4. Record \/ (\E d \in Deposit : Credit(d)) \/ UNCHANGED <<node, db>> => UNCHANGED node
  BY DEF Record, Credit, Answered
<1> HIDE DEF Goal
<1>5. Goal
  BY <1>1, <1>2, <1>3, <1>4, ReadsKeep, StepCases DEF Quiet
<1> QED BY <1>5 DEF Goal

RowType ==
  /\ status \in [Deposit -> {"none", "CONFIRMING", "CREDITED"}]
  /\ seenAt \in [Deposit -> 0 .. Len(scanned)] /\ seenFork \in [Deposit -> 0 .. forks]
  /\ scanned \in Seq(Nat \union {Unread}) /\ Len(scanned) <= Len(chain)

LEMMA NextRowType ==
  ASSUME TypeOK, IndInv, [Next]_vars
  PROVE  RowType'
<1>0. RowType /\ Len(chain') \in Nat /\ Len(chain') >= Len(chain) /\ Len(chain) \in Nat /\ Len(scanned) \in Nat
  BY ChainLonger, Shape DEF TypeOK, RowType
<1>1. ASSUME UNCHANGED <<status, seenAt, seenFork, scanned>>, forks' = forks PROVE RowType'
  BY <1>0, <1>1 DEF RowType
<1>2. ASSUME Record PROVE RowType'
  <2>0. /\ At("header") /\ chain' = chain /\ forks' = forks /\ First.to <= Len(chain)
        /\ scanned' \in Seq(Nat \union {Unread}) /\ Len(scanned') = First.to
        /\ First.to \in Nat /\ First.from = Len(scanned) + 1 /\ First.from <= First.to /\ forks \in Nat
    BY <1>2, Recorded, FirstRange, Shape DEF node
  <2>1. ASSUME NEW d \in Deposit
        PROVE  /\ status'[d] \in {"none", "CONFIRMING", "CREDITED"}
               /\ seenAt'[d] \in 0 .. First.to /\ seenFork'[d] \in 0 .. forks
    <3>1. CASE d \in Observed /\ status[d] = "none"
      <4>1. FoundAt(d) \in 0 .. First.to /\ FoundFork(d) \in 0 .. forks
        BY <1>0, <2>0, <3>1, Found
      <4> QED BY <1>2, <3>1, <4>1, Recorded
    <3>2. CASE ~ (d \in Observed /\ status[d] = "none")
      <4>1. status'[d] = status[d] /\ seenAt'[d] = seenAt[d] /\ seenFork'[d] = seenFork[d]
        BY <1>2, <3>2, Recorded
      <4>2. seenAt[d] \in 0 .. First.to
        BY <1>0, <2>0 DEF RowType
      <4> QED BY <1>0, <4>1, <4>2 DEF RowType
    <3> QED BY <3>1, <3>2
  <2>2. /\ status' = [d \in Deposit |-> status'[d]] /\ seenAt' = [d \in Deposit |-> seenAt'[d]]
        /\ seenFork' = [d \in Deposit |-> seenFork'[d]]
    BY <1>2 DEF Record
  <2>3. status' \in [Deposit -> {"none", "CONFIRMING", "CREDITED"}]
    BY <2>1, <2>2
  <2>4. seenAt' \in [Deposit -> 0 .. First.to]
    BY <2>1, <2>2
  <2>5. seenFork' \in [Deposit -> 0 .. forks]
    BY <2>1, <2>2
  <2> QED BY <2>0, <2>3, <2>4, <2>5 DEF RowType
<1>3. ASSUME NEW d \in Deposit, Credit(d) PROVE RowType'
  BY <1>0, <1>3 DEF Credit, Answered, node, RowType
<1>4. ASSUME NEW m \in Nat, Grows(m) PROVE RowType'
  <2>1. UNCHANGED <<status, seenAt, seenFork, scanned>> /\ forks' \in Nat /\ forks' >= forks /\ forks \in Nat
    BY <1>4, Constants, Shape DEF Grows, db
  <2>2. \A i \in 0 .. forks : i \in 0 .. forks'
    BY <2>1
  <2>3. seenFork \in [Deposit -> 0 .. forks']
    BY <1>0, <2>2 DEF RowType
  <2> QED BY <1>0, <2>1, <2>3 DEF RowType
<1>5. ASSUME NEW e \in Endpoint, CatchUp(e) PROVE RowType'
  BY <1>1, <1>5 DEF CatchUp, db
<1>6. ASSUME UNCHANGED <<node, db>> PROVE RowType'
  BY <1>1, <1>6 DEF node, db
<1> QED BY <1>2, <1>3, <1>4, <1>5, <1>6, ReadsKeep, StepCases DEF Quiet

(* Room for a longer chain. *)
LEMMA ScannerKept ==
  ASSUME TypeOK, IndInv, [Next]_vars, scanner' \in ScannerType
  PROVE  scanner' \in ScannerType'
<1>1. \A n \in 0 .. Len(chain) : n \in 0 .. Len(chain')
  BY ChainLonger
<1> DEFINE m == Len(chain)
           n == Len(chain')
<1>2. 0 .. m \subseteq 0 .. n
  BY <1>1
<1> HIDE DEF m, n
<1>3. scanner' \in [at : {"idle", "tip", "logs", "header", "list", "check", "verify", "stopped"},
                    latest : 0 .. m, ranges : Seq(BlockRange), blocks : Seq(Block), todo : SUBSET Deposit]
  BY DEF ScannerType, m
<1>4. scanner' \in [at : {"idle", "tip", "logs", "header", "list", "check", "verify", "stopped"},
                    latest : 0 .. n, ranges : Seq(BlockRange), blocks : Seq(Block), todo : SUBSET Deposit]
  BY <1>2, <1>3
<1> QED BY <1>4 DEF ScannerType, n

LEMMA NextScannerType ==
  ASSUME TypeOK, IndInv, [Next]_vars
  PROVE  scanner' \in ScannerType'
<1> DEFINE Goal == scanner' \in ScannerType
<1>0. scanner \in ScannerType /\ Len(chain) \in Nat
  BY Shape
<1>1. ASSUME scanner' = scanner PROVE Goal
  BY <1>0, <1>1
<1>2. ASSUME NEW l \in {"idle", "tip", "stopped"}, scanner' = [Resting EXCEPT !.at = l] PROVE Goal
  <2>1. scanner' = [at |-> l, latest |-> 0, ranges |-> <<>>, blocks |-> <<>>, todo |-> {}]
    BY <1>2 DEF Resting
  <2>2. 0 \in 0 .. Len(chain) /\ <<>> \in Seq(BlockRange) /\ <<>> \in Seq(Block)
    BY <1>0
  <2> QED BY <2>1, <2>2 DEF ScannerType
<1>3. ASSUME StartRange PROVE Goal
  <2> DEFINE b == Batch(BlockNumber)
             h == BlockNumber
  <2>1. h \in 0 .. Len(chain)
    BY <1>3, Batched
  <2>2. CASE ~ (NextBlock <= BlockNumber)
    <3>1. scanner' = [scanner EXCEPT !.latest = h, !.at = "list"]
      BY <1>3, <2>2, Batched
    <3> HIDE DEF h
    <3> QED BY <1>0, <2>1, <3>1 DEF ScannerType
  <2>3. CASE NextBlock <= BlockNumber
    <3>1. b \in BlockRange /\ scanner' = [scanner EXCEPT !.latest = h, !.at = "logs", !.ranges = <<b>>]
      BY <1>3, <2>3, Batched
    <3> HIDE DEF h, b
    <3>2. <<b>> \in Seq(BlockRange)
      BY <3>1
    <3> QED BY <1>0, <2>1, <3>1, <3>2 DEF ScannerType
  <2> QED BY <2>2, <2>3
<1>4. ASSUME LogsRead PROVE Goal
  <2> DEFINE b == FilterLogs(First)
  <2>1. b \in Seq(Block) /\ scanner' = [scanner EXCEPT !.at = "header", !.blocks = b]
    BY <1>4, LogsAnswered
  <2> HIDE DEF b
  <2> QED BY <1>0, <2>1 DEF ScannerType
<1>5. ASSUME SplitRange PROVE Goal
  <2> DEFINE new == Halves(First) \o Tail(scanner.ranges)
  <2>1. new \in Seq(BlockRange) /\ scanner' = [scanner EXCEPT !.ranges = new]
    BY <1>5, Split
  <2> HIDE DEF new
  <2> QED BY <1>0, <2>1 DEF ScannerType
<1>6. ASSUME Record PROVE Goal
  <2> DEFINE t == Tail(scanner.ranges)
  <2>1. /\ t \in Seq(BlockRange) /\ <<>> \in Seq(Block)
        /\ \/ scanner' = [scanner EXCEPT !.ranges = t, !.blocks = <<>>, !.at = "list"]
           \/ scanner' = [scanner EXCEPT !.ranges = t, !.blocks = <<>>, !.at = "logs"]
    BY <1>6, RecordedOn
  <2> HIDE DEF t
  <2> QED BY <1>0, <2>1 DEF ScannerType
<1>7. ASSUME List PROVE Goal
  <2>1. scanner' = [scanner EXCEPT !.at = "check", !.todo = Confirming] /\ Confirming \subseteq Deposit
    BY <1>7 DEF List, Turn, Confirming
  <2> QED BY <1>0, <2>1 DEF ScannerType
<1>8. ASSUME NEW d \in Deposit, Wait(d) \/ Verify(d) \/ Credit(d) PROVE Goal
  <2>1. \/ scanner' = [scanner EXCEPT !.todo = scanner.todo \ {d}]
        \/ scanner' = [scanner EXCEPT !.at = "verify"]
        \/ scanner' = [scanner EXCEPT !.at = "check", !.todo = scanner.todo \ {d}]
    BY <1>0, <1>8 DEF Wait, Verify, Credit, Turn, Ask, ScannerType
  <2> QED BY <1>0, <2>1 DEF ScannerType
<1>9. ASSUME Quiet PROVE Goal
  BY <1>1, <1>2, <1>9 DEF Quiet
<1>10. (\E m \in Nat : Grows(m)) \/ (\E e \in Endpoint : CatchUp(e)) => scanner' = scanner
  BY DEF Grows, CatchUp
<1> HIDE DEF Goal
<1>11. Goal
  BY <1>1, <1>3, <1>4, <1>5, <1>6, <1>7, <1>8, <1>9, <1>10, StepCases
<1> QED BY <1>11, ScannerKept DEF Goal

LEMMA BooksInRange ==
  BooksShape => pending \in 0 .. AmountOf(Deposit) /\ available \in 0 .. AmountOf(Deposit)
<1> DEFINE held == {d \in Deposit : status[d] = "CONFIRMING"}
           paid == {d \in Deposit : status[d] = "CREDITED"}
<1>1. held \in SUBSET Deposit /\ paid \in SUBSET Deposit
  OBVIOUS
<1>2. BooksShape => pending = AmountOf(held) /\ available = AmountOf(paid)
  BY DEF BooksShape
<1> HIDE DEF held, paid
<1>3. /\ AmountOf(held) \in Nat /\ AmountOf(paid) \in Nat /\ AmountOf(Deposit) \in Nat
      /\ AmountOf(held) <= AmountOf(Deposit) /\ AmountOf(paid) <= AmountOf(Deposit)
  BY <1>1, Amounts
<1> QED BY <1>2, <1>3

LEMMA NextType == TypeOK /\ IndInv /\ [Next]_vars => TypeOK'
<1> SUFFICES ASSUME TypeOK, IndInv, [Next]_vars PROVE TypeOK'
  OBVIOUS
<1>1. BooksShape'
  BY NextBooksShape
<1>2. (pending \in 0 .. AmountOf(Deposit) /\ available \in 0 .. AmountOf(Deposit))'
  <2>1. (BooksShape => pending \in 0 .. AmountOf(Deposit) /\ available \in 0 .. AmountOf(Deposit))'
    BY BooksInRange, PTL
  <2> QED BY <1>1, <2>1
<1>3. ClientTypeOK'
  BY NextClient DEF TypeOK
<1> QED BY <1>2, <1>3, NextChainType, NextRowType, NextScannerType DEF TypeOK, RowType, ScannerType

(* The ranges left follow each other from the checkpoint, the logs in hand are of the range at their head, and each
   call has passed only an endpoint of the right chain, through splits and failover (IndInv, with the types). *)
THEOREM Inductive == Spec => [](TypeOK /\ IndInv)
<1>1. TypeOK /\ IndInv /\ [Next]_vars => (TypeOK /\ IndInv)'
  BY NextType, NextIndInv
<1> QED BY InitIndInv, <1>1, PTL DEF Spec

(* Type correctness: the active endpoint is never one of another chain,    *)
(* a call asks only such endpoints for data once their probe has passed,   *)
(* and no checkpoint or row is of a block above the chain.                 *)
THEOREM TypeCorrect == Spec => []TypeOK
BY Inductive, PTL

(* The checkpoint passes no block whose logs were read without all of its  *)
(* deposits, for every batch size, every way ranges are split, and every   *)
(* call that fails between two ranges.                                     *)
THEOREM NoDepositSkipped == Spec => []NoneSkipped
BY Inductive, PTL DEF IndInv

-----------------------------------------------------------------------------
(***************************************************************************)
(* The scanner implements Crediting: a new block settles the deposits of   *)
(* those that become final, a recorded range is observed, and only a       *)
(* settled deposit is credited.                                            *)
(***************************************************************************)
Phases  == [d \in Deposit |-> Phase(d)]
Promise == <<pending, available, Phases, Settled>>

USE DEF Phase

LEMMA InitCrediting == Init => C!Init
<1> SUFFICES ASSUME Init PROVE C!Init
  OBVIOUS
<1>1. C!Deposit = Deposit
  BY DEF C!Deposit, Deposit
<1>2. Settled = {}
  <2>1. FinalHeight < 1 /\ FinalHeight \in Int
    BY Constants DEF Init, FinalHeight
  <2>2. \A n \in 1 .. FinalHeight : FALSE
    BY <2>1
  <2> QED BY <2>2 DEF Settled
<1>3. Phases = [d \in Deposit |-> "absent"]
  BY DEF Init, Phases
<1> QED BY <1>1, <1>2, <1>3 DEF Init, C!Init, Phases

(* A credited deposit is in a block that stays: the height that was asked  *)
(* for is not above the chain's, and the block still has its hash.         *)
LEMMA CreditedSettled ==
  ASSUME TypeOK, IndInv, NEW d \in Deposit, Credit(d)
  PROVE  status[d] = "CONFIRMING" /\ d \in Settled
<1>1. /\ seenAt[d] \in Nat /\ Len(chain) \in Nat /\ scanner.latest \in Nat /\ scanner.latest <= Len(chain)
      /\ Confirmations \in Nat /\ Confirmations > 0
  BY Shape, Constants
<1>2. At("verify") /\ Lowest(d) /\ SameHash(d)
  BY DEF Credit, Answered
<1>3. status[d] = "CONFIRMING" /\ EnoughConfirmations(d)
  BY <1>2 DEF IndInv, CheckShape, Lowest
<1>4. seenAt[d] > 0 /\ d \in chain[seenAt[d]].logs
  BY <1>2, <1>3 DEF IndInv, RowShape, SameHash
<1>5. seenAt[d] \in 1 .. FinalHeight
  BY <1>1, <1>3, <1>4 DEF EnoughConfirmations, FinalHeight
<1> QED BY <1>3, <1>4, <1>5 DEF Settled

LEMMA StepCrediting ==
  TypeOK /\ IndInv /\ [Next]_vars => [C!Next]_(C!vars)
<1> SUFFICES ASSUME TypeOK, IndInv, [Next]_vars PROVE C!Next \/ UNCHANGED Promise
  BY DEF C!vars, Promise, Phases
<1>0. C!Deposit = Deposit /\ \A S : C!Sum(S) = AmountOf(S)
  <2>1. C!Deposit = Deposit
    BY DEF C!Deposit, Deposit
  <2> QED BY <2>1 DEF C!Sum, AmountOf, C!Total, C!RunningTotal, Total, RunningTotal
<1>1. ASSUME Record PROVE C!Next
  <2>0. PICK new : new = {d \in Observed : status[d] = "none"}
    OBVIOUS
  <2>1. /\ pending' = pending + AmountOf(new) /\ available' = available
        /\ status' = [d \in Deposit |-> IF d \in new THEN "CONFIRMING" ELSE status[d]]
    BY <1>1, <2>0 DEF Record
  <2>2. At("header") /\ UNCHANGED node
    BY <1>1, Recorded
  <2>3. new \subseteq Deposit /\ \A d \in new : status[d] = "none"
    BY <2>0, <2>2, Found
  <2>4. new \in SUBSET C!In("absent")
    BY <1>0, <2>3 DEF C!In
  <2>5. Phases' = [d \in Deposit |-> IF d \in new THEN "pending" ELSE Phases[d]]
    BY <2>1, <2>3 DEF Phases
  <2>6. Settled' = Settled
    BY <2>2 DEF Settled, node, FinalHeight
  <2>7. C!Observe(new)
    BY <1>0, <2>1, <2>5, <2>6 DEF C!Observe, C!Move, Phases
  <2> QED BY <2>4, <2>7 DEF C!Next
<1>2. ASSUME NEW d \in Deposit, Credit(d) PROVE C!Next
  <2>1. status[d] = "CONFIRMING" /\ d \in Settled
    BY <1>2, CreditedSettled
  <2>2. /\ pending' = pending - Amount[d] /\ available' = available + Amount[d] /\ UNCHANGED node
        /\ status' = [status EXCEPT ![d] = "CREDITED"] /\ status \in [Deposit -> {"none", "CONFIRMING", "CREDITED"}]
    BY <1>2 DEF Credit, Answered, TypeOK
  <2>3. d \in C!In("pending")
    BY <1>0, <2>1 DEF C!In
  <2>4. Phases' = [e \in Deposit |-> IF e \in {d} THEN "available" ELSE Phases[e]]
    BY <2>1, <2>2 DEF Phases
  <2>5. Settled' = Settled
    BY <2>2 DEF Settled, node, FinalHeight
  <2>6. C!Credit(d)
    BY <1>0, <2>1, <2>2, <2>4, <2>5 DEF C!Credit, C!Move, Phases
  <2> QED BY <2>3, <2>6 DEF C!Next
<1>3. ASSUME NEW m \in Nat, Grows(m) PROVE C!Next
  <2>0. Len(chain) \in Nat /\ Confirmations \in Nat /\ Confirmations > 0
    BY Shape, Constants
  <2>1. /\ m >= FinalHeight /\ Len(chain') = m + 1 /\ Len(chain') >= Len(chain) /\ chain' \in Seq(Block)
        /\ \A i \in 1 .. m : chain'[i] = chain[i]
        /\ UNCHANGED db
    BY <1>3 DEF Grows
  <2>2. FinalHeight \in Int /\ FinalHeight' \in Int /\ FinalHeight <= FinalHeight' /\ FinalHeight' <= Len(chain')
    BY <2>0, <2>1 DEF FinalHeight
  <2>3. \A i \in 1 .. FinalHeight : i \in 1 .. FinalHeight' /\ chain'[i] = chain[i]
    BY <2>1, <2>2
  <2>4. Settled' = Settled \union Settled'
    BY <2>3 DEF Settled
  <2>5. Settled' \in SUBSET C!Deposit
    <3>1. \A i \in 1 .. FinalHeight' : chain'[i] \in Block
      BY <2>0, <2>1, <2>2, ElementOfSeq
    <3> QED BY <1>0, <3>1 DEF Settled, Block
  <2>6. UNCHANGED <<pending, available, Phases>>
    BY <2>1 DEF db, Phases
  <2>7. C!Settle(Settled')
    BY <2>4, <2>6 DEF C!Settle, Phases
  <2> QED BY <2>5, <2>7 DEF C!Next
<1>4. ASSUME UNCHANGED <<chain, db>> PROVE UNCHANGED Promise
  BY <1>4 DEF Promise, Phases, Settled, db, FinalHeight
<1>5. (\E e \in Endpoint : CatchUp(e)) \/ UNCHANGED <<node, db>> => UNCHANGED <<chain, db>>
  BY DEF CatchUp, node
<1> QED BY <1>1, <1>2, <1>3, <1>4, <1>5, ReadsKeep, StepCases DEF Quiet

(* Each log (tx_hash, log_index) is pending once and available once,       *)
(* whole, and only from a block that stays, whichever endpoints answer and *)
(* however often a pass fails or the process restarts.                     *)
THEOREM ImplementsCrediting == Spec => CreditingSpec
<1>1. Init => C!Init
  BY InitCrediting
<1>2. TypeOK /\ IndInv /\ [Next]_vars => [C!Next]_(C!vars)
  BY StepCrediting
<1> QED BY <1>1, <1>2, Inductive, PTL DEF Spec, CreditingSpec, C!Spec

-----------------------------------------------------------------------------
(***************************************************************************)
(* With no fallback, nothing is skipped while no block is replaced.        *)
(***************************************************************************)

(* The one endpoint knows the height it answered and all below it, so a    *)
(* range is read to its end.                                               *)
AloneShape ==
  forks = 0 =>
    /\ AllRead /\ scanner.latest <= Height(1)
    /\ At("logs") \/ At("header") =>
         \A i \in 1 .. Len(scanner.ranges) : scanner.ranges[i].to <= scanner.latest
    /\ At("header") => First.from + Len(scanner.blocks) = First.to + 1

(* While no block is replaced, an endpoint's newest height does not fall.  *)
LEMMA HeightStays ==
  ASSUME TypeOK, IndInv, [Next]_vars, NumEndpoints = 1, forks' = 0
  PROVE  forks = 0 /\ Height(1) \in Int /\ Height(1)' \in Int /\ Height(1) <= Height(1)'
<1> DEFINE Goal == forks = 0 /\ Height(1) <= Height(1)'
<1>0. Len(chain) \in Nat /\ Len(chain') \in Nat /\ forks \in Nat
  BY ChainLonger, Shape
<1>1. ASSUME UNCHANGED node PROVE Goal
  BY <1>0, <1>1 DEF node, Height
<1>2. ASSUME NEW m \in Nat, Grows(m) PROVE Goal
  BY <1>0, <1>2 DEF Grows, Height
<1>3. ASSUME NEW e \in Endpoint, CatchUp(e) PROVE Goal
  BY <1>0, <1>3 DEF CatchUp, Height
<1>4. Record \/ (\E d \in Deposit : Credit(d)) => UNCHANGED node
  BY DEF Record, Credit, Answered
<1>5. Height(1) \in Int /\ Height(1)' \in Int
  BY <1>0 DEF Height
<1> HIDE DEF Goal
<1>6. Goal
  BY <1>1, <1>2, <1>3, <1>4, ReadsKeep, StepCases DEF Quiet
<1> QED BY <1>5, <1>6 DEF Goal

LEMMA HeightNotNegative == Len(chain) \in Nat /\ ChainShape => Height(1) >= 0
BY DEF ChainShape, Height

LEMMA InitAlone == Init => AloneShape
<1> SUFFICES ASSUME Init PROVE AloneShape
  OBVIOUS
<1>1. scanner.at = "idle" /\ scanner.latest = 0 /\ scanned = <<>> /\ behind = {} /\ Len(chain) = 0
  BY DEF Init, Resting
<1>2. Len(scanned) = 0
  BY <1>1
<1> QED BY <1>1, <1>2 DEF AloneShape, AllRead, At, Height

LEMMA NextAlone ==
  ASSUME TypeOK, IndInv, AloneShape, [Next]_vars, NumEndpoints = 1
  PROVE  AloneShape'
<1> SUFFICES ASSUME forks' = 0 PROVE AloneShape'
  BY DEF AloneShape
<1>0. /\ forks = 0 /\ Height(1) \in Int /\ Height(1)' \in Int /\ Height(1) <= Height(1)'
      /\ AllRead /\ scanner.latest <= Height(1) /\ scanner.latest \in Nat
      /\ scanner \in ScannerType /\ Height(1)' >= 0 /\ Len(scanned) \in Nat
  <2>1. (Len(chain) \in Nat /\ ChainShape => Height(1) >= 0)'
    BY HeightNotNegative, PTL
  <2>2. Height(1)' >= 0
    BY <2>1, NextChainShape, ChainLonger
  <2>3. forks = 0 /\ Height(1) \in Int /\ Height(1)' \in Int /\ Height(1) <= Height(1)'
    BY HeightStays
  <2>4. AllRead /\ scanner.latest <= Height(1)
    BY <2>3 DEF AloneShape
  <2>5. scanner.latest \in Nat /\ scanner \in ScannerType /\ Len(scanned) \in Nat
    BY Shape
  <2> QED BY <2>2, <2>3, <2>4, <2>5
<1>1. ASSUME NEW l, Answered(l) PROVE BlockNumber = Height(1)
  <2>1. Asked \in Endpoint
    BY <1>1, AskedSound DEF Answered, MarkSuccess, TypeOK
  <2>2. Asked = 1
    BY <2>1, Constants
  <2> QED BY <2>2 DEF BlockNumber
<1>2. ASSUME scanned' = scanned, scanner'.latest <= Height(1)', scanner'.at \notin {"logs", "header"}
      PROVE  AloneShape'
  BY <1>0, <1>2 DEF AloneShape, AllRead, At
<1>3. ASSUME scanned' = scanned, scanner' = scanner PROVE AloneShape'
  <2>1. scanner.latest <= Height(1)'
    BY <1>0
  <2> QED BY <1>0, <1>3, <2>1 DEF AloneShape, AllRead, At, First
<1>4. ASSUME NEW l \in {"idle", "tip", "stopped"}, scanner' = [Resting EXCEPT !.at = l], scanned' = scanned
      PROVE  AloneShape'
  <2>1. scanner'.at = l /\ scanner'.latest = 0
    BY <1>4 DEF Resting
  <2> QED BY <1>0, <1>2, <1>4, <2>1
<1>5. ASSUME StartRange PROVE AloneShape'
  <2> DEFINE b == Batch(BlockNumber)
             h == BlockNumber
  <2>1. h = Height(1) /\ scanned' = scanned /\ h <= Height(1)'
    BY <1>0, <1>1, <1>5 DEF StartRange, db
  <2>2. CASE ~ (NextBlock <= h)
    <3>1. scanner'.at = "list" /\ scanner'.latest = h
      BY <1>0, <1>5, <2>2, Batched DEF ScannerType
    <3> QED BY <1>2, <2>1, <3>1
  <2>3. CASE NextBlock <= h
    <3>1. scanner'.at = "logs" /\ scanner'.latest = h /\ scanner'.ranges = <<b>> /\ b.to <= h
      BY <1>0, <1>5, <2>3, Batched DEF ScannerType
    <3> HIDE DEF b, h
    <3>2. \A i \in 1 .. Len(<<b>>) : <<b>>[i] = b
      OBVIOUS
    <3> QED BY <1>0, <2>1, <3>1, <3>2 DEF AloneShape, AllRead, At
  <2> QED BY <2>2, <2>3
<1>6. ASSUME At("logs") \/ At("header")
      PROVE  /\ \A i \in 1 .. Len(scanner.ranges) : scanner.ranges[i].to <= scanner.latest
             /\ First = scanner.ranges[1] /\ First.to <= scanner.latest
             /\ scanner.ranges \in Seq(BlockRange) /\ Len(scanner.ranges) \in Nat /\ Len(scanner.ranges) > 0
             /\ First.from \in Nat /\ First.to \in Nat /\ First.from = Len(scanned) + 1
             /\ First \in BlockRange
  <2>1. \A i \in 1 .. Len(scanner.ranges) : scanner.ranges[i].to <= scanner.latest
    BY <1>0, <1>6 DEF AloneShape
  <2>2. 1 \in 1 .. Len(scanner.ranges)
    BY <1>6, FirstRange
  <2> QED BY <1>6, <2>1, <2>2, FirstRange
<1>7. ASSUME LogsRead PROVE AloneShape'
  <2> DEFINE b == FilterLogs(First)
  <2>1. /\ At("logs") /\ scanned' = scanned /\ scanner' = [scanner EXCEPT !.at = "header", !.blocks = b]
        /\ First.to <= BlockNumber => First.from + Len(b) = First.to + 1
    BY <1>7, LogsAnswered DEF db
  <2>2. First.to <= BlockNumber
    <3>1. BlockNumber = Height(1)
      BY <1>1, <1>7 DEF LogsRead
    <3> QED BY <1>0, <1>6, <2>1, <3>1
  <2>3. /\ scanner'.at = "header" /\ scanner'.latest = scanner.latest /\ scanner'.ranges = scanner.ranges
        /\ scanner'.blocks = b
    BY <1>0, <2>1 DEF ScannerType
  <2>4. First' = First
    BY <2>3 DEF First
  <2> HIDE DEF b
  <2>5. scanner'.latest <= Height(1)'
    BY <1>0, <2>3
  <2> QED BY <1>0, <1>6, <2>1, <2>2, <2>3, <2>4, <2>5 DEF AloneShape, AllRead, At
<1>8. ASSUME SplitRange PROVE AloneShape'
  <2> DEFINE new == Halves(First) \o Tail(scanner.ranges)
             old == scanner.ranges
  <2>1. /\ scanner' = [scanner EXCEPT !.ranges = new] /\ new \in Seq(BlockRange) /\ Len(new) = Len(old) + 1
        /\ new[1] = Halves(First)[1] /\ new[2] = Halves(First)[2]
        /\ \A i \in 3 .. Len(new) : new[i] = old[i - 1]
    BY <1>8, Split
  <2>2. At("logs") /\ First.from < First.to /\ scanned' = scanned
    BY <1>8 DEF SplitRange, db
  <2>3. First \in BlockRange /\ First.to <= scanner.latest /\ Len(old) \in Nat /\ Len(old) > 0 /\ First.to \in Nat
        /\ \A i \in 1 .. Len(old) : old[i].to <= scanner.latest
    BY <1>6, <2>2
  <2>4. Halves(First)[1].to <= First.to /\ Halves(First)[2].to = First.to /\ Halves(First)[1].to \in Int
    <3>1. Halves(First) \in Seq(BlockRange) /\ Len(Halves(First)) = 2
      BY <2>2, <2>3, Halved
    <3>2. Halves(First)[1] \in BlockRange
      BY <3>1, ElementOfSeq
    <3> QED BY <2>2, <2>3, <3>2, Halved DEF BlockRange
  <2>5. /\ scanner'.at = "logs" /\ scanner'.ranges = new /\ scanner'.latest = scanner.latest
    BY <1>0, <2>1, <2>2 DEF ScannerType, At
  <2> HIDE DEF new, old
  <2>6. ASSUME NEW i \in 1 .. Len(new) PROVE new[i].to <= scanner.latest
    <3>1. CASE i = 1 \/ i = 2
      BY <1>0, <2>1, <2>3, <2>4, <3>1
    <3>2. CASE i > 2
      <4>1. i \in 3 .. Len(new) /\ i - 1 \in 1 .. Len(old)
        BY <2>1, <2>3, <3>2
      <4> QED BY <2>1, <2>3, <4>1
    <3> QED BY <2>1, <2>3, <3>1, <3>2
  <2>7. scanner'.latest <= Height(1)'
    BY <1>0, <2>5
  <2> QED BY <1>0, <2>2, <2>5, <2>6, <2>7 DEF AloneShape, AllRead, At
<1>9. ASSUME Record PROVE AloneShape'
  <2> DEFINE t == Tail(scanner.ranges)
             b == scanner.blocks
  <2>1. /\ t = <<>> => scanner' = [scanner EXCEPT !.ranges = t, !.blocks = <<>>, !.at = "list"]
        /\ t # <<>> => scanner' = [scanner EXCEPT !.ranges = t, !.blocks = <<>>, !.at = "logs"]
        /\ t \in Seq(BlockRange) /\ Len(t) = Len(scanner.ranges) - 1
        /\ \A i \in 1 .. Len(t) : t[i] = scanner.ranges[i + 1]
    BY <1>9, RecordedOn
  <2>2. /\ At("header") /\ Len(scanned') = First.to
        /\ \A n \in 1 .. Len(scanned) : scanned'[n] = scanned[n]
        /\ \A n \in First.from .. First.to :
             scanned'[n] = IF n - First.from < Len(b) THEN b[n - First.from + 1].fork ELSE Unread
    BY <1>9, Recorded
  <2>3. First.from + Len(b) = First.to + 1 /\ Len(b) \in Nat /\ \A k \in 1 .. Len(b) : b[k].fork \in Nat
    BY <1>0, <2>2, BlocksRead DEF AloneShape
  <2>4. /\ scanner'.at \in {"list", "logs"} /\ scanner'.ranges = t /\ scanner'.latest = scanner.latest
    BY <1>0, <2>1 DEF ScannerType
  <2> HIDE DEF t, b
  <2>5. ASSUME NEW n \in 1 .. Len(scanned') PROVE scanned'[n] # Unread
    <3>1. CASE n <= Len(scanned)
      BY <1>0, <2>2, <3>1 DEF AllRead
    <3>2. CASE n > Len(scanned)
      <4>0. First.from \in Nat /\ First.to \in Nat /\ First.from = Len(scanned) + 1 /\ n <= First.to
        BY <1>6, <2>2
      <4>1. n \in First.from .. First.to /\ n - First.from < Len(b) /\ n - First.from + 1 \in 1 .. Len(b)
        BY <1>0, <2>3, <3>2, <4>0, SMTT(40)
      <4>2. scanned'[n] \in Nat
        BY <2>2, <2>3, <4>1
      <4> QED BY <4>2 DEF Unread
    <3> QED BY <1>0, <1>6, <2>2, <3>1, <3>2
  <2>6. \A i \in 1 .. Len(t) : t[i].to <= scanner.latest
    <3>1. \A i \in 1 .. Len(t) : i + 1 \in 1 .. Len(scanner.ranges)
      BY <1>6, <2>1, <2>2
    <3> QED BY <1>6, <2>1, <2>2, <3>1
  <2>7. scanner'.latest <= Height(1)'
    BY <1>0, <2>4
  <2> QED BY <2>4, <2>5, <2>6, <2>7 DEF AloneShape, AllRead, At
<1>10. ASSUME List \/ (\E d \in Deposit : Wait(d) \/ Verify(d) \/ Credit(d)) PROVE AloneShape'
  <2>1. scanned' = scanned /\ scanner'.at \in {"check", "verify"} /\ scanner'.latest = scanner.latest
    BY <1>0, <1>10 DEF List, Wait, Verify, Credit, Turn, Ask, ScannerType, At, db
  <2>2. scanner'.latest <= Height(1)'
    BY <1>0, <2>1
  <2> QED BY <1>2, <2>1, <2>2
<1>11. (\E m \in Nat : Grows(m)) \/ (\E e \in Endpoint : CatchUp(e)) => UNCHANGED <<scanner, scanned>>
  BY DEF Grows, CatchUp, db
<1>12. ASSUME Quiet PROVE AloneShape'
  BY <1>3, <1>4, <1>12 DEF Quiet, db
<1> QED BY <1>3, <1>5, <1>7, <1>8, <1>9, <1>10, <1>11, <1>12, StepCases

(* requirements.md:150, which the run token_deposit_skips refutes for two  *)
(* endpoints, holds where no SEPOLIA_RPC_FALLBACK_URL is configured: until *)
(* a block is replaced, the checkpoint passes no block with a deposit that *)
(* has no row, whatever the endpoint refuses, and though it may lag.       *)
THEOREM AloneSkipsNothing ==
  ASSUME NumEndpoints = 1
  PROVE  Spec => [](forks = 0 => NoBlockSkipped)
<1>1. TypeOK /\ IndInv /\ AloneShape /\ [Next]_vars => AloneShape'
  BY NextAlone
<1>2. TypeOK /\ IndInv /\ AloneShape => (forks = 0 => NoBlockSkipped)
  <2> SUFFICES ASSUME TypeOK, IndInv, AloneShape, forks = 0,
                      NEW n \in 1 .. Len(scanned), n <= FinalHeight, NEW d \in chain[n].logs
               PROVE  status[d] # "none"
    BY DEF NoBlockSkipped
  <2>1. n \in 1 .. Len(chain) /\ scanned[n] \in Int /\ scanned[n] <= 0
    BY Shape
  <2>2. chain[n].fork = 0
    BY <2>1, Shape
  <2>3. scanned[n] \in Nat
    BY ElementOfSeq DEF AloneShape, AllRead, TypeOK
  <2>4. chain[n].fork = scanned[n]
    BY <2>1, <2>2, <2>3
  <2> QED BY <2>4 DEF IndInv, NoneSkipped
<1> QED BY InitAlone, <1>1, <1>2, Inductive, PTL DEF Spec
=============================================================================
