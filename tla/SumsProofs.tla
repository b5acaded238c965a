----------------------------- MODULE SumsProofs -----------------------------
(***************************************************************************)
(* What the ledger proofs need of sums: a sum of integers is an integer,   *)
(* changing one summand changes the sum by the difference, and a sum of    *)
(* naturals bounds each summand.  Induction is by a least counterexample   *)
(* taken from a set of naturals.                                           *)
(***************************************************************************)
EXTENDS Sums, TLAPS, NaturalsInduction, WellFoundedInduction

(* A non-empty set of naturals has a least element. *)
LEMMA LeastNat ==
  ASSUME NEW T \in SUBSET Nat, T # {}
  PROVE  \E x \in T : \A y \in T : x <= y
<1>1. IsWellFoundedOn(OpToRel(<, Nat), Nat)
  BY NatLessThanWellFounded
<1>2. PICK x \in T : \A y \in T : ~ (<<y, x>> \in OpToRel(<, Nat))
  BY <1>1, WFMin
<1>3. \A y \in T : ~ (y < x)
  BY <1>2 DEF OpToRel
<1> QED
  BY <1>3

IsRunning(s, f, n) ==
  s = [i \in 0 .. n |-> IF i = 0 THEN 0 ELSE s[i - 1] + f[i]]

(* The recursive definition is satisfied by some integer function. *)
LEMMA RunningExists ==
  ASSUME NEW n \in Nat, NEW f \in [1 .. n -> Int]
  PROVE  \E s \in [0 .. n -> Int] : IsRunning(s, f, n)
<1> DEFINE Good(m) == \E s \in [0 .. m -> Int] : IsRunning(s, f, m)
           Bad == {m \in 0 .. n : ~ Good(m)}
<1> SUFFICES ASSUME Bad # {} PROVE FALSE
  OBVIOUS
<1>1. PICK m \in Bad : \A y \in Bad : m <= y
  BY LeastNat, Bad \in SUBSET Nat
<1>2. Good(0)
  <2> DEFINE z == [i \in 0 .. 0 |-> 0]
  <2>1. z \in [0 .. 0 -> Int] /\ IsRunning(z, f, 0)
    BY DEF IsRunning
  <2> QED BY <2>1
<1>3. m # 0
  BY <1>2
<1>4. m - 1 \in 0 .. n /\ m - 1 \notin Bad /\ m \in 1 .. n
  BY <1>1, <1>3
<1>5. PICK s \in [0 .. m - 1 -> Int] : IsRunning(s, f, m - 1)
  BY <1>4
<1> DEFINE t == [i \in 0 .. m |-> IF i = m THEN s[m - 1] + f[m] ELSE s[i]]
<1>6. t \in [0 .. m -> Int]
  BY <1>4
<1>7. \A i \in 0 .. m : t[i] = IF i = 0 THEN 0 ELSE t[i - 1] + f[i]
  <2> SUFFICES ASSUME NEW i \in 0 .. m
               PROVE  t[i] = IF i = 0 THEN 0 ELSE t[i - 1] + f[i]
    OBVIOUS
  <2>1. CASE i = m
    BY <2>1, <1>4
  <2>2. CASE i # m
    <3>1. i \in 0 .. m - 1 /\ t[i] = s[i] /\ (i # 0 => t[i - 1] = s[i - 1])
      BY <2>2, <1>4
    <3>2. s[i] = IF i = 0 THEN 0 ELSE s[i - 1] + f[i]
      BY <3>1, <1>5 DEF IsRunning
    <3> QED BY <3>1, <3>2
  <2> QED BY <2>1, <2>2
<1>8. IsRunning(t, f, m)
  BY <1>6, <1>7 DEF IsRunning
<1> HIDE DEF t
<1> QED BY <1>1, <1>6, <1>8

(* The recursion equations of RunningTotal. *)
LEMMA RunningTotalDef ==
  ASSUME NEW n \in Nat, NEW f \in [1 .. n -> Int]
  PROVE  /\ RunningTotal(f, n) \in [0 .. n -> Int]
         /\ RunningTotal(f, n)[0] = 0
         /\ \A i \in 1 .. n : RunningTotal(f, n)[i] = RunningTotal(f, n)[i - 1] + f[i]
<1>1. PICK w \in [0 .. n -> Int] : IsRunning(w, f, n)
  BY RunningExists
<1> DEFINE s == RunningTotal(f, n)
<1>2. s = CHOOSE g : g = [i \in 0 .. n |-> IF i = 0 THEN 0 ELSE g[i - 1] + f[i]]
  BY DEF RunningTotal
<1>3. s = [i \in 0 .. n |-> IF i = 0 THEN 0 ELSE s[i - 1] + f[i]]
  BY <1>1, <1>2 DEF IsRunning
<1> HIDE DEF s
<1>4. s[0] = 0 /\ \A i \in 1 .. n : s[i] = s[i - 1] + f[i]
  BY <1>3
<1> DEFINE Bad == {i \in 0 .. n : s[i] \notin Int}
<1>5. Bad = {}
  <2> SUFFICES ASSUME Bad # {} PROVE FALSE
    OBVIOUS
  <2>1. PICK m \in Bad : \A y \in Bad : m <= y
    BY LeastNat, Bad \in SUBSET Nat
  <2>2. m \in 1 .. n /\ m - 1 \in 0 .. n /\ m - 1 \notin Bad
    BY <2>1, <1>4
  <2> QED BY <2>1, <2>2, <1>4, SMTT(40)
<1>6. s \in [0 .. n -> Int]
  BY <1>3, <1>5
<1> QED BY <1>4, <1>6 DEF s

(* A sum of integers is an integer. *)
LEMMA TotalType ==
  ASSUME NEW n \in Nat, NEW f \in [1 .. n -> Int]
  PROVE  Total(f, n) \in Int
BY RunningTotalDef DEF Total

(* Changing one summand changes the sum by the difference. *)
LEMMA TotalUpdate ==
  ASSUME NEW n \in Nat, NEW f \in [1 .. n -> Int], NEW g \in [1 .. n -> Int],
         NEW k \in 1 .. n, \A i \in (1 .. n) \ {k} : g[i] = f[i]
  PROVE  Total(g, n) = Total(f, n) - f[k] + g[k]
<1> DEFINE s == RunningTotal(f, n)
           t == RunningTotal(g, n)
           Bad == {i \in 0 .. n : t[i] # IF i < k THEN s[i] ELSE s[i] - f[k] + g[k]}
<1>1. /\ s \in [0 .. n -> Int] /\ t \in [0 .. n -> Int] /\ s[0] = 0 /\ t[0] = 0
      /\ \A i \in 1 .. n : s[i] = s[i - 1] + f[i] /\ t[i] = t[i - 1] + g[i]
  BY RunningTotalDef
<1> HIDE DEF s, t
<1>2. Bad = {}
  <2> SUFFICES ASSUME Bad # {} PROVE FALSE
    OBVIOUS
  <2>1. PICK m \in Bad : \A y \in Bad : m <= y
    BY LeastNat, Bad \in SUBSET Nat
  <2>0. t[0] = IF 0 < k THEN s[0] ELSE s[0] - f[k] + g[k]
    BY <1>1
  <2>2. m \in 1 .. n /\ m - 1 \in 0 .. n /\ m - 1 \notin Bad
    BY <2>0, <2>1
  <2>3. t[m - 1] = IF m - 1 < k THEN s[m - 1] ELSE s[m - 1] - f[k] + g[k]
    BY <2>2
  <2>4. /\ s[m] = s[m - 1] + f[m] /\ t[m] = t[m - 1] + g[m]
        /\ s[m] \in Int /\ s[m - 1] \in Int /\ t[m] \in Int /\ f[m] \in Int /\ g[m] \in Int
        /\ f[k] \in Int /\ g[k] \in Int /\ (m # k => g[m] = f[m])
    BY <2>2, <1>1
  <2>5. t[m] = IF m < k THEN s[m] ELSE s[m] - f[k] + g[k]
    <3>1. CASE m < k  BY <3>1, <2>2, <2>3, <2>4
    <3>2. CASE m = k  BY <3>2, <2>2, <2>3, <2>4
    <3>3. CASE m > k
      <4>1. t[m - 1] = s[m - 1] - f[k] + g[k] /\ g[m] = f[m]
        BY <3>3, <2>2, <2>3, <2>4
      <4>2. m \in Int /\ s[m - 1] \in Int
        BY <2>2, <2>4
      <4>3. t[m] = s[m - 1] - f[k] + g[k] + f[m]
        BY <4>1, <2>4
      <4>4. ~ (m < k)
        BY <3>3, <4>2
      <4> HIDE DEF Bad
      <4> QED BY <4>2, <4>3, <4>4, <2>4, SMTT(40)
    <3> QED BY <3>1, <3>2, <3>3, <2>2
  <2> QED BY <2>1, <2>5
<1>3. t[n] = s[n] - f[k] + g[k]
  BY <1>2
<1> QED BY <1>3 DEF Total, s, t

(* Equal functions have equal sums. *)
LEMMA TotalSame ==
  ASSUME NEW n \in Nat, NEW f \in [1 .. n -> Int], NEW g \in [1 .. n -> Int],
         \A i \in 1 .. n : g[i] = f[i]
  PROVE  Total(g, n) = Total(f, n)
<1>1. f = g
  OBVIOUS
<1> QED BY <1>1

(* A sum of naturals is at least each of its summands. *)
LEMMA TotalBounds ==
  ASSUME NEW n \in Nat, NEW f \in [1 .. n -> Nat], NEW k \in 1 .. n
  PROVE  f[k] <= Total(f, n)
<1> DEFINE s == RunningTotal(f, n)
           Bad == {i \in 0 .. n : ~ (0 <= s[i] /\ (i >= k => f[k] <= s[i]))}
<1>0. f \in [1 .. n -> Int]
  OBVIOUS
<1>1. /\ s \in [0 .. n -> Int] /\ s[0] = 0
      /\ \A i \in 1 .. n : s[i] = s[i - 1] + f[i]
  BY RunningTotalDef, <1>0
<1> HIDE DEF s
<1>2. Bad = {}
  <2> SUFFICES ASSUME Bad # {} PROVE FALSE
    OBVIOUS
  <2>1. PICK m \in Bad : \A y \in Bad : m <= y
    BY LeastNat, Bad \in SUBSET Nat
  <2>2. m \in 1 .. n /\ m - 1 \in 0 .. n /\ m - 1 \notin Bad
    BY <2>1, <1>1
  <2>3. 0 <= s[m - 1] /\ (m - 1 >= k => f[k] <= s[m - 1])
    BY <2>2
  <2>4. s[m] = s[m - 1] + f[m] /\ f[m] \in Nat /\ f[k] \in Nat /\ s[m] \in Int /\ s[m - 1] \in Int
    BY <2>2, <1>1
  <2>5. 0 <= s[m] /\ (m >= k => f[k] <= s[m])
    <3>1. CASE m = k  BY <3>1, <2>2, <2>3, <2>4
    <3>2. CASE m # k  BY <3>2, <2>2, <2>3, <2>4, SMTT(40)
    <3> QED BY <3>1, <3>2
  <2> QED BY <2>1, <2>5
<1>3. f[k] <= s[n]
  BY <1>2
<1> QED BY <1>3 DEF Total, s

(* A sum of naturals is at least the number of its positive summands, here *)
(* of those at the front.                                                  *)
LEMMA TotalCount ==
  ASSUME NEW n \in Nat, NEW f \in [1 .. n -> Nat], NEW k \in 0 .. n,
         \A i \in 1 .. k : f[i] > 0
  PROVE  k <= Total(f, n)
<1> DEFINE s == RunningTotal(f, n)
           Bad == {i \in 0 .. n : ~ (IF i <= k THEN i <= s[i] ELSE k <= s[i])}
<1>0. f \in [1 .. n -> Int]
  OBVIOUS
<1>1. /\ s \in [0 .. n -> Int] /\ s[0] = 0
      /\ \A i \in 1 .. n : s[i] = s[i - 1] + f[i]
  BY RunningTotalDef, <1>0
<1> HIDE DEF s
<1>2. Bad = {}
  <2> SUFFICES ASSUME Bad # {} PROVE FALSE
    OBVIOUS
  <2>1. PICK m \in Bad : \A y \in Bad : m <= y
    BY LeastNat, Bad \in SUBSET Nat
  <2>2. m \in 1 .. n /\ m - 1 \in 0 .. n /\ m - 1 \notin Bad
    BY <2>1, <1>1
  <2>3. IF m - 1 <= k THEN m - 1 <= s[m - 1] ELSE k <= s[m - 1]
    BY <2>2
  <2>4. s[m] = s[m - 1] + f[m] /\ f[m] \in Nat /\ s[m] \in Int /\ s[m - 1] \in Int /\ (m <= k => f[m] > 0)
    BY <2>2, <1>1
  <2>5. IF m <= k THEN m <= s[m] ELSE k <= s[m]
    <3> HIDE DEF Bad
    <3>1. CASE m <= k  BY <3>1, <2>2, <2>3, <2>4
    <3>2. CASE m > k   BY <3>2, <2>2, <2>3, <2>4
    <3> QED BY <3>1, <3>2, <2>2
  <2> QED BY <2>1, <2>5
<1>3. k <= s[n]
  BY <1>2
<1> QED BY <1>3 DEF Total, s

(* A sum of zeros is zero. *)
LEMMA TotalZero ==
  ASSUME NEW n \in Nat
  PROVE  Total([i \in 1 .. n |-> 0], n) = 0
<1> DEFINE f == [i \in 1 .. n |-> 0]
           s == RunningTotal(f, n)
           Bad == {i \in 0 .. n : s[i] # 0}
<1>1. f \in [1 .. n -> Int] /\ \A i \in 1 .. n : f[i] = 0
  OBVIOUS
<1>2. s[0] = 0 /\ \A i \in 1 .. n : s[i] = s[i - 1] + f[i]
  BY RunningTotalDef, <1>1
<1> HIDE DEF s, f
<1>3. Bad = {}
  <2> SUFFICES ASSUME Bad # {} PROVE FALSE
    OBVIOUS
  <2>1. PICK m \in Bad : \A y \in Bad : m <= y
    BY LeastNat, Bad \in SUBSET Nat
  <2>2. m \in 1 .. n /\ m - 1 \in 0 .. n /\ m - 1 \notin Bad
    BY <2>1, <1>2
  <2> QED BY <2>1, <2>2, <1>1, <1>2
<1>4. s[n] = 0
  BY <1>3
<1> QED BY <1>4 DEF Total, s, f

(* The sum of two functions, summand by summand, has the sum of their sums. *)
LEMMA TotalPlus ==
  ASSUME NEW n \in Nat, NEW f \in [1 .. n -> Int], NEW g \in [1 .. n -> Int],
         NEW h \in [1 .. n -> Int], \A i \in 1 .. n : h[i] = f[i] + g[i]
  PROVE  Total(h, n) = Total(f, n) + Total(g, n)
<1> DEFINE r == RunningTotal(f, n)
           s == RunningTotal(g, n)
           t == RunningTotal(h, n)
           Bad == {i \in 0 .. n : t[i] # r[i] + s[i]}
<1>1. /\ r \in [0 .. n -> Int] /\ s \in [0 .. n -> Int] /\ t \in [0 .. n -> Int]
      /\ r[0] = 0 /\ s[0] = 0 /\ t[0] = 0
      /\ \A i \in 1 .. n : r[i] = r[i - 1] + f[i] /\ s[i] = s[i - 1] + g[i] /\ t[i] = t[i - 1] + h[i]
  BY RunningTotalDef
<1> HIDE DEF r, s, t
<1>2. Bad = {}
  <2> SUFFICES ASSUME Bad # {} PROVE FALSE
    OBVIOUS
  <2>1. PICK m \in Bad : \A y \in Bad : m <= y
    BY LeastNat, Bad \in SUBSET Nat
  <2>2. m \in 1 .. n /\ m - 1 \in 0 .. n /\ m - 1 \notin Bad
    BY <2>1, <1>1, SMTT(40)
  <2>3. t[m - 1] = r[m - 1] + s[m - 1]
    BY <2>2
  <2>4. /\ r[m] = r[m - 1] + f[m] /\ s[m] = s[m - 1] + g[m] /\ t[m] = t[m - 1] + h[m]
        /\ h[m] = f[m] + g[m]
        /\ r[m - 1] \in Int /\ s[m - 1] \in Int /\ f[m] \in Int /\ g[m] \in Int
    BY <2>2, <1>1
  <2>5. t[m] = r[m] + s[m]
    <3> HIDE DEF Bad
    <3> QED BY <2>3, <2>4
  <2> QED BY <2>1, <2>5
<1>3. t[n] = r[n] + s[n]
  BY <1>2
<1> QED BY <1>3 DEF Total, r, s, t

-----------------------------------------------------------------------------
(***************************************************************************)
(* Sums over a set of positions, as the deposit modules use them.          *)
(***************************************************************************)
SumOver(S, f, n) == Total([i \in 1 .. n |-> IF i \in S THEN f[i] ELSE 0], n)

LEMMA SumOverType ==
  ASSUME NEW n \in Nat, NEW f \in [1 .. n -> Nat], NEW S
  PROVE  SumOver(S, f, n) \in Nat
<1> DEFINE g == [i \in 1 .. n |-> IF i \in S THEN f[i] ELSE 0]
           z == [i \in 1 .. n |-> 0]
<1>1. g \in [1 .. n -> Nat] /\ g \in [1 .. n -> Int]
  OBVIOUS
<1>2. CASE n = 0
  <2>1. g = z
    BY <1>2
  <2>2. Total(z, n) = 0
    BY TotalZero
  <2> QED BY <2>1, <2>2 DEF SumOver
<1>3. CASE n # 0
  <2>1. 1 \in 1 .. n
    BY <1>3
  <2> HIDE DEF g
  <2>2. g[1] <= Total(g, n) /\ g[1] \in Nat
    BY <1>1, <2>1, TotalBounds
  <2>3. Total(g, n) \in Int
    BY <1>1, TotalType
  <2> QED BY <2>2, <2>3 DEF SumOver, g
<1> QED BY <1>2, <1>3

(* The sum over a union of disjoint sets is the sum of their sums. *)
LEMMA SumOverUnion ==
  ASSUME NEW n \in Nat, NEW f \in [1 .. n -> Nat], NEW S, NEW T, S \intersect T = {}
  PROVE  SumOver(S \union T, f, n) = SumOver(S, f, n) + SumOver(T, f, n)
<1> DEFINE a == [i \in 1 .. n |-> IF i \in S THEN f[i] ELSE 0]
           b == [i \in 1 .. n |-> IF i \in T THEN f[i] ELSE 0]
           c == [i \in 1 .. n |-> IF i \in S \union T THEN f[i] ELSE 0]
<1>1. a \in [1 .. n -> Int] /\ b \in [1 .. n -> Int] /\ c \in [1 .. n -> Int]
  OBVIOUS
<1>2. \A i \in 1 .. n : c[i] = a[i] + b[i]
  OBVIOUS
<1> HIDE DEF a, b, c
<1>3. Total(c, n) = Total(a, n) + Total(b, n)
  BY <1>1, <1>2, TotalPlus
<1> QED BY <1>3 DEF SumOver, a, b, c

LEMMA SumOverNone ==
  ASSUME NEW n \in Nat, NEW f \in [1 .. n -> Nat]
  PROVE  SumOver({}, f, n) = 0
<1>1. [i \in 1 .. n |-> IF i \in {} THEN f[i] ELSE 0] = [i \in 1 .. n |-> 0]
  OBVIOUS
<1> QED BY <1>1, TotalZero DEF SumOver

LEMMA SumOverOne ==
  ASSUME NEW n \in Nat, NEW f \in [1 .. n -> Nat], NEW k \in 1 .. n
  PROVE  SumOver({k}, f, n) = f[k]
<1> DEFINE z == [i \in 1 .. n |-> 0]
           g == [i \in 1 .. n |-> IF i \in {k} THEN f[i] ELSE 0]
<1>1. z \in [1 .. n -> Int] /\ g \in [1 .. n -> Int] /\ z[k] = 0 /\ g[k] = f[k] /\ f[k] \in Int
  OBVIOUS
<1>2. \A i \in (1 .. n) \ {k} : g[i] = z[i]
  OBVIOUS
<1>3. Total(z, n) = 0
  BY TotalZero
<1> HIDE DEF z, g
<1>4. Total(g, n) = Total(z, n) - z[k] + g[k]
  BY <1>1, <1>2, TotalUpdate
<1> QED BY <1>1, <1>3, <1>4 DEF SumOver, g

(* A larger set has no smaller sum. *)
LEMMA SumOverSubset ==
  ASSUME NEW n \in Nat, NEW f \in [1 .. n -> Nat], NEW T, NEW S \in SUBSET T
  PROVE  SumOver(S, f, n) <= SumOver(T, f, n)
<1>1. T = S \union (T \ S) /\ S \intersect (T \ S) = {}
  OBVIOUS
<1>2. SumOver(T, f, n) = SumOver(S, f, n) + SumOver(T \ S, f, n)
  BY <1>1, SumOverUnion
<1>3. SumOver(S, f, n) \in Nat /\ SumOver(T \ S, f, n) \in Nat
  BY SumOverType
<1> QED BY <1>2, <1>3
=============================================================================
