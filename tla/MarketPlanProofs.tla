-------------------------- MODULE MarketPlanProofs --------------------------
(***************************************************************************)
(* The inductive invariant of MarketPlan, and its properties for any       *)
(* markets, assets, addresses and bounds.                                  *)
(*                                                                         *)
(* What is on screen is settled or about to be: CalcInv says that a        *)
(* calculation that is due or under way is one of what is on screen, so    *)
(* that its answer, which is heeded only then, settles it.  DistinctInv    *)
(* says that ids and names occur once, in the plan and with the market of  *)
(* the dialog: a saved draft replaces the market it edits and no other,    *)
(* and a line has one quantity.  AddressInv says which addresses the       *)
(* address list has yet to replace.                                        *)
(*                                                                         *)
(* A plan that replaces the plan keeps the invariant when its ids, names   *)
(* and addresses are in order (CommitKeeps), and so does a draft that      *)
(* replaces the draft (RedraftKeeps); the rest is to show that of each     *)
(* plan and draft the actions make.  What rewrites assets in place keeps   *)
(* ids and names (RewrittenPlan).                                          *)
(***************************************************************************)
EXTENDS MarketPlan, SequenceTheorems, FiniteSetTheorems, WellFoundedInduction, TLAPS

-----------------------------------------------------------------------------
(* The calculator: sums, lines, quantities.                                *)

\* Induction, with a set in the place of the property: what holds of 0 and goes
\* from each number to the next holds of every number.
LEMMA FromZero ==
  ASSUME NEW S, 0 \in S, \A n \in Nat : n \in S => n + 1 \in S
  PROVE  Nat \subseteq S
<1> DEFINE T == Nat \ S
<1>1. SUFFICES ASSUME T # {} PROVE FALSE
  BY <1>1
<1>2. PICK x \in T : \A y \in T : ~(<<y, x>> \in OpToRel(<, Nat))
  BY <1>1, NatLessThanWellFounded, WFMin, T \subseteq Nat
<1>3. x # 0 /\ x \in Nat
  OBVIOUS
<1>4. x - 1 \in Nat /\ x - 1 < x /\ (x - 1) + 1 = x
  BY <1>3
<1>5. x - 1 \in T
  BY <1>4
<1>6. <<x - 1, x>> \in OpToRel(<, Nat)
  BY <1>3, <1>4 DEF OpToRel
<1>. QED
  BY <1>2, <1>5, <1>6

\* The recursive sum of naturals is the last of their partial sums.
LEMMA PartialSums ==
  ASSUME NEW len \in Nat, NEW q \in [1 .. len -> Nat]
  PROVE  \E s \in [0 .. len -> Nat] :
           /\ s[0] = 0 /\ Total(q) = s[len]
           /\ \A n \in Nat : n + 1 <= len => s[n + 1] = s[n] + q[n + 1]
<1> DEFINE Sums(f) == f = [i \in 0 .. len |-> IF i = 0 THEN 0 ELSE f[i - 1] + q[i]]
<1> DEFINE Partial(f, n) == \A i \in 0 .. n : f[i] = IF i = 0 THEN 0 ELSE f[i - 1] + q[i]
<1>1. Len(q) = len
  BY IsASeq
<1>2. Total(q) = (CHOOSE f : Sums(f))[len]
  BY <1>1 DEF Total
<1>3. \E f \in [0 .. len -> Nat] : Partial(f, len)
  <2> DEFINE Has(n) == n <= len => \E f \in [0 .. n -> Nat] : Partial(f, n)
  <2> DEFINE S == {n \in Nat : Has(n)}
  <2>1. 0 \in S
    <3>1. [i \in 0 .. 0 |-> 0] \in [0 .. 0 -> Nat] /\ Partial([i \in 0 .. 0 |-> 0], 0)
      OBVIOUS
    <3>. QED
      BY <3>1
  <2>2. ASSUME NEW n \in Nat, n \in S PROVE n + 1 \in S
    <3>0. Has(n)
      BY <2>2
    <3>1. SUFFICES ASSUME n + 1 <= len
                   PROVE  \E f \in [0 .. n + 1 -> Nat] : Partial(f, n + 1)
      <4>1. SUFFICES Has(n + 1)
        <5> HIDE DEF Has
        <5>. QED
          OBVIOUS
      <4> HIDE DEF Partial
      <4>. QED
        OBVIOUS
    <3>2. PICK f \in [0 .. n -> Nat] : Partial(f, n)
      <4> HIDE DEF Partial
      <4>. QED
        BY <3>0, <3>1
    <3> DEFINE g == [i \in 0 .. n + 1 |-> IF i = n + 1 THEN f[n] + q[n + 1] ELSE f[i]]
    <3>3. g \in [0 .. n + 1 -> Nat]
      BY <3>1
    <3>4. ASSUME NEW i \in 0 .. n + 1 PROVE g[i] = IF i = 0 THEN 0 ELSE g[i - 1] + q[i]
      <4>1. CASE i = n + 1
        BY <4>1
      <4>2. CASE i \in 0 .. n
        BY <3>2, <4>2
      <4>. QED
        BY <4>1, <4>2
    <3>. QED
      BY <3>3, <3>4
  <2>3. Nat \subseteq S
    <3> HIDE DEF S
    <3>. QED
      BY <2>1, <2>2, FromZero
  <2>4. Has(len)
    <3> HIDE DEF Has
    <3>. QED
      BY <2>3
  <2>. QED
    <3> HIDE DEF Partial
    <3>. QED
      BY <2>4
<1>4. PICK f \in [0 .. len -> Nat] : Partial(f, len)
  BY <1>3
<1>5. Sums(f)
  BY <1>4
<1> DEFINE s == CHOOSE t : Sums(t)
<1>6. Sums(s)
  <2> HIDE DEF Sums
  <2>. QED
    BY <1>5
<1>7. \A n \in 0 .. len : s[n] \in Nat
  <2> HIDE DEF s
  <2> DEFINE S == {n \in Nat : n <= len => s[n] \in Nat}
  <2>0. s[0] = 0 /\ \A n \in Nat : n + 1 <= len => s[n + 1] = s[n] + q[n + 1]
    BY <1>6
  <2>1. 0 \in S
    BY <2>0
  <2>2. ASSUME NEW n \in Nat, n \in S PROVE n + 1 \in S
    BY <2>0, <2>2
  <2>3. Nat \subseteq S
    <3> HIDE DEF S
    <3>. QED
      BY <2>1, <2>2, FromZero
  <2>. QED
    BY <2>3
<1>8. s \in [0 .. len -> Nat] /\ s[0] = 0
  <2>1. DOMAIN s = 0 .. len /\ s = [i \in 0 .. len |-> s[i]]
    <3>1. s = [i \in 0 .. len |-> IF i = 0 THEN 0 ELSE s[i - 1] + q[i]]
      BY <1>6
    <3> HIDE DEF s
    <3>. QED
      BY <3>1
  <2>2. s[0] = 0
    <3> HIDE DEF s
    <3>. QED
      BY <1>6
  <2> HIDE DEF s
  <2>. QED
    BY <1>7, <2>1, <2>2
<1>9. \A n \in Nat : n + 1 <= len => s[n + 1] = s[n] + q[n + 1]
  <2> HIDE DEF s
  <2>. QED
    BY <1>6
<1>10. Total(q) = s[len]
  BY <1>2
<1>. QED
  <2> HIDE DEF s
  <2>. QED
    BY <1>8, <1>9, <1>10

\* It is a natural.
LEMMA TotalIsNatural ==
  ASSUME NEW len \in Nat, NEW q \in [1 .. len -> Nat]
  PROVE  Total(q) \in Nat
BY PartialSums

\* Sums are added member by member,
LEMMA TotalsAdd ==
  ASSUME NEW len \in Nat, NEW f \in [1 .. len -> Nat], NEW g \in [1 .. len -> Nat],
         NEW h \in [1 .. len -> Nat], \A i \in 1 .. len : f[i] = g[i] + h[i]
  PROVE  Total(f) = Total(g) + Total(h)
<1>1. PICK s \in [0 .. len -> Nat] :
        /\ s[0] = 0 /\ Total(f) = s[len]
        /\ \A n \in Nat : n + 1 <= len => s[n + 1] = s[n] + f[n + 1]
  BY PartialSums
<1>2. PICK t \in [0 .. len -> Nat] :
        /\ t[0] = 0 /\ Total(g) = t[len]
        /\ \A n \in Nat : n + 1 <= len => t[n + 1] = t[n] + g[n + 1]
  BY PartialSums
<1>3. PICK u \in [0 .. len -> Nat] :
        /\ u[0] = 0 /\ Total(h) = u[len]
        /\ \A n \in Nat : n + 1 <= len => u[n + 1] = u[n] + h[n + 1]
  BY PartialSums
<1> DEFINE S == {n \in Nat : n <= len => s[n] = t[n] + u[n]}
<1>4. 0 \in S
  BY <1>1, <1>2, <1>3
<1>5. ASSUME NEW n \in Nat, n \in S PROVE n + 1 \in S
  <2>1. SUFFICES ASSUME n + 1 <= len PROVE s[n + 1] = t[n + 1] + u[n + 1]
    OBVIOUS
  <2>2. s[n + 1] = s[n] + f[n + 1] /\ t[n + 1] = t[n] + g[n + 1] /\ u[n + 1] = u[n] + h[n + 1]
    BY <1>1, <1>2, <1>3, <2>1
  <2>3. s[n] = t[n] + u[n] /\ f[n + 1] = g[n + 1] + h[n + 1]
    BY <1>5, <2>1
  <2>4. t[n] \in Nat /\ u[n] \in Nat /\ g[n + 1] \in Nat /\ h[n + 1] \in Nat
    BY <2>1
  <2>. DEFINE a == t[n]  b == u[n]  c == g[n + 1]  d == h[n + 1]
  <2>5. s[n] + f[n + 1] = (a + b) + (c + d) /\ t[n + 1] = a + c /\ u[n + 1] = b + d
    BY <2>2, <2>3
  <2>6. (a + b) + (c + d) = (a + c) + (b + d)
    <3> HIDE DEF a, b, c, d
    <3>1. a \in Nat /\ b \in Nat /\ c \in Nat /\ d \in Nat
      BY <2>4 DEF a, b, c, d
    <3>. QED
      BY <3>1
  <2>. QED
    BY <2>2, <2>5, <2>6
<1>6. Nat \subseteq S
  <2> HIDE DEF S
  <2>. QED
    BY <1>4, <1>5, FromZero
<1>. QED
  BY <1>1, <1>2, <1>3, <1>6

\* multiplied by a number,
LEMMA TotalsScale ==
  ASSUME NEW len \in Nat, NEW f \in [1 .. len -> Nat], NEW g \in [1 .. len -> Nat],
         NEW c \in Nat, \A i \in 1 .. len : f[i] = c * g[i]
  PROVE  Total(f) = c * Total(g)
<1>1. PICK s \in [0 .. len -> Nat] :
        /\ s[0] = 0 /\ Total(f) = s[len]
        /\ \A n \in Nat : n + 1 <= len => s[n + 1] = s[n] + f[n + 1]
  BY PartialSums
<1>2. PICK t \in [0 .. len -> Nat] :
        /\ t[0] = 0 /\ Total(g) = t[len]
        /\ \A n \in Nat : n + 1 <= len => t[n + 1] = t[n] + g[n + 1]
  BY PartialSums
<1> DEFINE S == {n \in Nat : n <= len => s[n] = c * t[n]}
<1>3. 0 \in S
  BY <1>1, <1>2
<1>4. ASSUME NEW n \in Nat, n \in S PROVE n + 1 \in S
  <2>1. SUFFICES ASSUME n + 1 <= len PROVE s[n + 1] = c * t[n + 1]
    OBVIOUS
  <2>2. s[n + 1] = c * t[n] + c * g[n + 1]
    BY <1>1, <1>4, <2>1
  <2>3. t[n] \in Nat /\ g[n + 1] \in Nat /\ t[n + 1] = t[n] + g[n + 1]
    BY <1>2, <2>1
  <2>4. \A x, y \in Nat : c * (x + y) = c * x + c * y
    OBVIOUS
  <2>. QED
    BY <2>2, <2>3, <2>4
<1>5. Nat \subseteq S
  <2> HIDE DEF S
  <2>. QED
    BY <1>3, <1>4, FromZero
<1>. QED
  BY <1>1, <1>2, <1>5

\* and compared.
LEMMA TotalsOrdered ==
  ASSUME NEW len \in Nat, NEW f \in [1 .. len -> Nat], NEW g \in [1 .. len -> Nat],
         \A i \in 1 .. len : f[i] <= g[i]
  PROVE  Total(f) <= Total(g)
<1>1. PICK s \in [0 .. len -> Nat] :
        /\ s[0] = 0 /\ Total(f) = s[len]
        /\ \A n \in Nat : n + 1 <= len => s[n + 1] = s[n] + f[n + 1]
  BY PartialSums
<1>2. PICK t \in [0 .. len -> Nat] :
        /\ t[0] = 0 /\ Total(g) = t[len]
        /\ \A n \in Nat : n + 1 <= len => t[n + 1] = t[n] + g[n + 1]
  BY PartialSums
<1> DEFINE S == {n \in Nat : n <= len => s[n] <= t[n]}
<1>3. 0 \in S
  BY <1>1, <1>2
<1>4. ASSUME NEW n \in Nat, n \in S PROVE n + 1 \in S
  <2>1. SUFFICES ASSUME n + 1 <= len PROVE s[n + 1] <= t[n + 1]
    OBVIOUS
  <2>2. s[n + 1] = s[n] + f[n + 1] /\ t[n + 1] = t[n] + g[n + 1]
    BY <1>1, <1>2, <2>1
  <2>3. s[n] <= t[n] /\ f[n + 1] <= g[n + 1]
    BY <1>4, <2>1
  <2>4. s[n] \in Nat /\ t[n] \in Nat /\ f[n + 1] \in Nat /\ g[n + 1] \in Nat
    BY <2>1
  <2>5. \A a, b, c, d \in Nat : a <= b /\ c <= d => a + c <= b + d
    OBVIOUS
  <2>. QED
    BY <2>2, <2>3, <2>4, <2>5
<1>5. Nat \subseteq S
  <2> HIDE DEF S
  <2>. QED
    BY <1>3, <1>4, FromZero
<1>. QED
  BY <1>1, <1>2, <1>5

\* One for each member of a set sums up to its cardinality.
Ones(A, len) == [i \in 1 .. len |-> IF i \in A THEN 1 ELSE 0]
LEMMA TotalOfOnes ==
  ASSUME NEW len \in Nat, NEW A \in SUBSET (1 .. len)
  PROVE  Total(Ones(A, len)) = Cardinality(A)
<1> DEFINE f == Ones(A, len)
<1>1. f \in [1 .. len -> Nat] /\ \A i \in 1 .. len : f[i] = IF i \in A THEN 1 ELSE 0
  BY DEF Ones
<1> HIDE DEF f
<1>2. PICK s \in [0 .. len -> Nat] :
        /\ s[0] = 0 /\ Total(f) = s[len]
        /\ \A n \in Nat : n + 1 <= len => s[n + 1] = s[n] + f[n + 1]
  BY <1>1, PartialSums
<1> DEFINE Low(n) == A \cap (1 .. n)
<1> DEFINE S == {n \in Nat : n <= len => s[n] = Cardinality(Low(n))}
<1>3. 0 \in S
  <2>1. Low(0) = {}
    OBVIOUS
  <2>. QED
    BY <1>2, <2>1, FS_EmptySet
<1>4. ASSUME NEW n \in Nat, n \in S PROVE n + 1 \in S
  <2>1. SUFFICES ASSUME n + 1 <= len PROVE s[n + 1] = Cardinality(Low(n + 1))
    OBVIOUS
  <2>2. s[n] = Cardinality(Low(n)) /\ s[n + 1] = s[n] + f[n + 1] /\ n + 1 \in 1 .. len
    BY <1>2, <1>4, <2>1
  <2>3. IsFiniteSet(Low(n))
    <3>1. IsFiniteSet(1 .. n)
      BY FS_Interval
    <3>2. Low(n) \in SUBSET (1 .. n)
      OBVIOUS
    <3> HIDE DEF Low
    <3>. QED
      BY <3>1, <3>2, FS_Subset
  <2>4. CASE n + 1 \in A
    <3>1. Low(n + 1) = Low(n) \cup {n + 1} /\ n + 1 \notin Low(n)
      BY <2>4
    <3>2. Cardinality(Low(n) \cup {n + 1}) = Cardinality(Low(n)) + 1
      <4> HIDE DEF Low
      <4>. QED
        BY <2>3, <3>1, FS_AddElement
    <3> HIDE DEF Low
    <3>. QED
      BY <1>1, <2>2, <2>4, <3>1, <3>2
  <2>5. CASE n + 1 \notin A
    <3>1. Low(n + 1) = Low(n)
      BY <2>5
    <3>2. s[n] \in Nat
      BY <1>2, <2>1
    <3> HIDE DEF Low
    <3>. QED
      BY <1>1, <2>2, <2>5, <3>1, <3>2
  <2>. QED
    BY <2>4, <2>5
<1>5. Nat \subseteq S
  <2> HIDE DEF S
  <2>. QED
    BY <1>3, <1>4, FromZero
<1>6. Low(len) = A
  OBVIOUS
<1>. QED
  BY <1>2, <1>5, <1>6 DEF f

\* The positions before i, the largest remainder first and the earlier of equals.
Ahead(rest, len, i) ==
  {j \in 1 .. len : rest[j] > rest[i] \/ (rest[j] = rest[i] /\ j < i)}

\* Positions ranked by how many are ahead of them: d of them have a rank below d.
LEMMA RanksFill ==
  ASSUME NEW len \in Nat, NEW rest \in [1 .. len -> Nat], NEW d \in 0 .. len
  PROVE  LET first == {i \in 1 .. len : Cardinality(Ahead(rest, len, i)) < d}
         IN Cardinality(first) = d
<1> DEFINE rank == [i \in 1 .. len |-> Cardinality(Ahead(rest, len, i))]
<1>1. IsFiniteSet(1 .. len) /\ Cardinality(1 .. len) = len
  BY FS_Interval
<1>2. ASSUME NEW i \in 1 .. len
      PROVE  IsFiniteSet(Ahead(rest, len, i)) /\ rank[i] \in 0 .. len - 1
  <2>1. Ahead(rest, len, i) \in SUBSET (1 .. len) /\ i \notin Ahead(rest, len, i)
    BY DEF Ahead
  <2>2. IsFiniteSet(Ahead(rest, len, i)) /\ rank[i] <= len /\ rank[i] \in Nat
    BY <1>1, <2>1, FS_Subset, FS_CardinalityType
  <2>3. rank[i] # len
    BY <1>1, <2>1, FS_Subset
  <2> HIDE DEF rank
  <2>. QED
    BY <2>2, <2>3
<1>3. ASSUME NEW i \in 1 .. len, NEW j \in 1 .. len, i \in Ahead(rest, len, j)
      PROVE  rank[i] < rank[j]
  <2>1. Ahead(rest, len, i) \in SUBSET Ahead(rest, len, j) /\ i \notin Ahead(rest, len, i)
    BY <1>3 DEF Ahead
  <2>2. rank[i] <= rank[j] /\ rank[i] # rank[j]
    BY <1>2, <1>3, <2>1, FS_Subset
  <2>3. rank[i] \in Nat /\ rank[j] \in Nat
    BY <1>2
  <2> HIDE DEF rank
  <2>. QED
    BY <2>2, <2>3
<1>4. ASSUME NEW i \in 1 .. len, NEW j \in 1 .. len, i # j PROVE rank[i] # rank[j]
  <2>1. i \in Ahead(rest, len, j) \/ j \in Ahead(rest, len, i)
    BY <1>4 DEF Ahead
  <2>2. rank[i] < rank[j] \/ rank[j] < rank[i]
    BY <1>3, <2>1
  <2>3. rank[i] \in 0 .. len - 1 /\ rank[j] \in 0 .. len - 1
    BY <1>2
  <2> HIDE DEF rank
  <2>. QED
    BY <2>2, <2>3
<1>5. rank \in Injection(1 .. len, 0 .. len - 1)
  BY <1>2, <1>4 DEF Injection, IsInjective
<1>6. rank \in Surjection(1 .. len, 0 .. len - 1)
  <2>1. IsFiniteSet(0 .. len - 1) /\ Cardinality(0 .. len - 1) = len
    <3>1. len - 1 \in Int /\ 0 \in Int
      OBVIOUS
    <3>2. IsFiniteSet(0 .. len - 1)
      BY <3>1, FS_Interval
    <3>3. Cardinality(0 .. len - 1) = IF 0 > len - 1 THEN 0 ELSE len - 1 - 0 + 1
      BY <3>1, FS_Interval
    <3>. QED
      BY <3>2, <3>3
  <2> HIDE DEF rank
  <2>. QED
    BY <1>1, <1>5, <2>1, FS_Injection
<1> DEFINE first == {i \in 1 .. len : rank[i] < d}
<1> DEFINE g == [i \in first |-> rank[i]]
<1>7. \A i \in 1 .. len : rank[i] \in 0 .. len - 1
  BY <1>2
<1>8. \A v \in 0 .. len - 1 : \E i \in 1 .. len : rank[i] = v
  BY <1>6 DEF Surjection
<1>9. g \in Bijection(first, 0 .. d - 1)
  <2>1. g \in [first -> 0 .. d - 1]
    <3> HIDE DEF rank
    <3>. QED
      BY <1>7
  <2>2. ASSUME NEW v \in 0 .. d - 1 PROVE \E i \in first : g[i] = v
    <3>1. v \in 0 .. len - 1 /\ v < d
      OBVIOUS
    <3>2. PICK i \in 1 .. len : rank[i] = v
      BY <1>8, <3>1
    <3> HIDE DEF rank
    <3>. QED
      BY <3>1, <3>2
  <2>3. \A i, j \in first : g[i] = g[j] => i = j
    <3>1. \A i, j \in 1 .. len : rank[i] = rank[j] => i = j
      BY <1>4
    <3> HIDE DEF rank
    <3>. QED
      BY <3>1
  <2> HIDE DEF g, first
  <2>. QED
    BY <2>1, <2>2, <2>3 DEF Bijection, Injection, Surjection, IsInjective
<1>10. Cardinality(first) = d
  <2>1. IsFiniteSet(first)
    <3>1. first \in SUBSET (1 .. len)
      OBVIOUS
    <3>. QED
      BY <1>1, <3>1, FS_Subset
  <2>2. ExistsBijection(first, 0 .. d - 1)
    <3> HIDE DEF g, first
    <3>. QED
      BY <1>9 DEF ExistsBijection
  <2>3. Cardinality(0 .. d - 1) = d
    BY FS_Interval
  <2> HIDE DEF first
  <2>. QED
    BY <2>1, <2>2, <2>3, FS_Bijection
<1>11. first = {i \in 1 .. len : Cardinality(Ahead(rest, len, i)) < d}
  OBVIOUS
<1>. QED
  BY <1>10, <1>11

\* A market's count that is shared out gives every line a natural number.
LEMMA DistributeTyped ==
  ASSUME NEW len \in Nat, NEW q \in [1 .. len -> Nat], NEW lines, NEW target \in Nat
  PROVE  Distribute(q, lines, target) \in [1 .. len -> Nat]
<1> DEFINE total == Total(q)
<1> DEFINE base == [i \in DOMAIN q |-> (q[i] * target) \div total]
<1> DEFINE rest == [i \in DOMAIN q |-> (q[i] * target) % total]
<1> DEFINE rank == [i \in DOMAIN q |-> Cardinality({j \in DOMAIN q :
                     rest[j] > rest[i] \/ (rest[j] = rest[i] /\ j < i)})]
<1>1. total \in Nat
  BY TotalIsNatural
<1>2. CASE total = 0
  BY <1>2 DEF Distribute
<1>3. CASE total # 0
  <2>1. ASSUME NEW i \in 1 .. len PROVE base[i] \in Nat
    <3>1. q[i] * target \in Nat
      OBVIOUS
    <3> HIDE DEF total
    <3>. QED
      BY <1>1, <1>3, <3>1
  <2>2. Distribute(q, lines, target)
          = [i \in 1 .. len |-> base[i] + IF rank[i] < target - Total(base) THEN 1 ELSE 0]
    BY <1>3 DEF Distribute
  <2> HIDE DEF base, rank
  <2>. QED
    BY <2>1, <2>2
<1>. QED
  BY <1>2, <1>3

\* What each line gets of a market's count.
Shares(q, lines, target) ==
  [i \in DOMAIN q |-> IF i \in lines THEN Distribute(q, lines, target)[i] ELSE 0]

\* What the lines of a market get of its count adds up to that count: nothing is
\* lost in the divisions or given twice (distributeBreakdownOverride).
LEMMA CountsAddUp ==
  ASSUME NEW len \in Nat, NEW q \in [1 .. len -> Nat], NEW target \in Nat,
         NEW lines \in SUBSET (1 .. len), lines # {},
         \A i \in 1 .. len : i \notin lines => q[i] = 0
  PROVE  Total(Shares(q, lines, target)) = target
<1> DEFINE total == Total(q)
<1> DEFINE f == [i \in 1 .. len |-> IF i \in lines THEN Distribute(q, lines, target)[i] ELSE 0]
<1>0. f = Shares(q, lines, target)
  BY DEF Shares
<1>1. total \in Nat /\ f \in [1 .. len -> Nat]
  BY TotalIsNatural, DistributeTyped
<1>2. CASE total = 0
  <2>1. PICK first \in lines : \A j \in lines : first <= j
    <3>1. lines \subseteq Nat
      OBVIOUS
    <3>2. PICK first \in lines : \A j \in lines : ~(<<j, first>> \in OpToRel(<, Nat))
      BY <3>1, NatLessThanWellFounded, WFMin
    <3>3. first \in Nat
      BY <3>1
    <3>4. ASSUME NEW j \in lines PROVE first <= j
      <4>1. j \in Nat
        BY <3>1
      <4>2. ~(<<j, first>> \in OpToRel(<, Nat))
        BY <3>2
      <4>3. ~(j < first)
        BY <3>3, <4>1, <4>2 DEF OpToRel
      <4>4. \A x, y \in Nat : ~(x < y) => y <= x
        OBVIOUS
      <4>. QED
        BY <3>3, <4>1, <4>3, <4>4
    <3>. QED
      BY <3>4
  <2>2. ASSUME NEW i \in 1 .. len PROVE f[i] = target * Ones({first}, len)[i]
    <3>1. Distribute(q, lines, target)[i] = IF \A j \in lines : i <= j THEN target ELSE 0
      BY <1>2 DEF Distribute
    <3>2. i \in lines => ((\A j \in lines : i <= j) <=> i = first)
      BY <2>1
    <3>3. f[i] = IF i = first THEN target ELSE 0
      BY <2>1, <3>1, <3>2
    <3>4. Ones({first}, len)[i] = IF i = first THEN 1 ELSE 0
      BY DEF Ones
    <3> HIDE DEF f
    <3>. QED
      BY <3>3, <3>4
  <2>3. /\ {first} \in SUBSET (1 .. len) /\ Cardinality({first}) = 1
        /\ Ones({first}, len) \in [1 .. len -> Nat]
    BY <2>1, FS_Singleton DEF Ones
  <2>4. Total(f) = target * Total(Ones({first}, len))
    <3> HIDE DEF f
    <3>. QED
      BY <1>1, <2>2, <2>3, TotalsScale
  <2>5. Total(Ones({first}, len)) = 1
    BY <2>3, TotalOfOnes
  <2> HIDE DEF f
  <2>6. Total(f) = target
    BY <2>4, <2>5
  <2>. QED
    BY <1>0, <2>6
<1> HIDE DEF f
<1>3. CASE total # 0
  <2> DEFINE weighted == [i \in 1 .. len |-> q[i] * target]
  <2> DEFINE base == [i \in 1 .. len |-> (q[i] * target) \div total]
  <2> DEFINE rest == [i \in 1 .. len |-> (q[i] * target) % total]
  <2> DEFINE Rank(i) == Cardinality(Ahead(rest, len, i))
  <2>1. ASSUME NEW i \in 1 .. len
        PROVE  /\ weighted[i] \in Nat /\ base[i] \in Nat /\ rest[i] \in Nat /\ rest[i] < total
               /\ weighted[i] = total * base[i] + rest[i]
               /\ q[i] = 0 => base[i] = 0 /\ rest[i] = 0
    <3>1. q[i] * target \in Nat
      OBVIOUS
    <3>2. \A a \in Nat, b \in Nat \ {0} :
            /\ a \div b \in Nat /\ a % b \in Nat /\ a % b < b
            /\ a = (b * (a \div b)) + (a % b)
            /\ a = 0 => a \div b = 0 /\ a % b = 0
      OBVIOUS
    <3>3. q[i] = 0 => q[i] * target = 0
      OBVIOUS
    <3> HIDE DEF total
    <3>. QED
      BY <1>1, <1>3, <3>1, <3>2, <3>3
  <2>2. /\ weighted \in [1 .. len -> Nat] /\ base \in [1 .. len -> Nat]
        /\ rest \in [1 .. len -> Nat]
    BY <2>1
  <2>3. Distribute(q, lines, target)
          = [i \in 1 .. len |-> base[i] + IF Rank(i) < target - Total(base) THEN 1 ELSE 0]
    BY <1>3 DEF Distribute, Ahead
  <2> DEFINE d == target - Total(base)
  <2> DEFINE some == {i \in 1 .. len : rest[i] > 0}
  <2> DEFINE first == {i \in 1 .. len : Rank(i) < d}
  <2>4. Total(base) \in Nat /\ Total(rest) \in Nat
    BY <2>2, TotalIsNatural
  <2>5. IsFiniteSet(some) /\ some \in SUBSET (1 .. len) /\ Cardinality(some) \in 0 .. len
    <3>1. some \in SUBSET (1 .. len)
      OBVIOUS
    <3>2. IsFiniteSet(1 .. len) /\ Cardinality(1 .. len) = len
      BY FS_Interval
    <3> HIDE DEF some
    <3>3. IsFiniteSet(some) /\ Cardinality(some) <= Cardinality(1 .. len)
      BY <3>1, <3>2, FS_Subset
    <3>4. Cardinality(some) \in Nat
      BY <3>3, FS_CardinalityType
    <3>. QED
      BY <3>1, <3>2, <3>3, <3>4
  <2>6. total * d = Total(rest)
    <3> DEFINE parts == [i \in 1 .. len |-> total * base[i]]
    <3>1. parts \in [1 .. len -> Nat] /\ \A i \in 1 .. len : parts[i] = total * base[i]
      <4> HIDE DEF total, base
      <4>. QED
        BY <1>1, <2>2
    <3>2. Total(parts) = total * Total(base)
      <4> HIDE DEF total, base, parts, weighted, rest
      <4>. QED
        BY ZenonT(30), <1>1, <2>2, <3>1, TotalsScale
    <3>3. Total(weighted) = Total(parts) + Total(rest)
      <4>1. \A i \in 1 .. len : weighted[i] = parts[i] + rest[i]
        BY <2>1, <3>1
      <4> HIDE DEF weighted, parts, rest
      <4>. QED
        BY <2>2, <3>1, <4>1, TotalsAdd
    <3>4. Total(weighted) = target * total
      <4>1. \A i \in 1 .. len : weighted[i] = target * q[i]
        OBVIOUS
      <4> HIDE DEF weighted
      <4>. QED
        BY <2>2, <4>1, TotalsScale
    <3>5. \A a, b, c \in Nat : a * (b - c) = b * a - a * c
      OBVIOUS
    <3>6. total * (target - Total(base)) = target * total - total * Total(base)
      <4> HIDE DEF total, base
      <4>. QED
        BY <1>1, <2>4, <3>5
    <3>7. target * total = total * Total(base) + Total(rest)
      BY <3>2, <3>3, <3>4
    <3>8. {target * total, total * Total(base), Total(rest)} \subseteq Nat
      <4> HIDE DEF total, base, rest
      <4>. QED
        BY <1>1, <2>4
    <3>9. \A a, b, c \in Nat : a = b + c => a - b = c
      OBVIOUS
    <3> HIDE DEF total, base, rest
    <3>. QED
      BY <3>6, <3>7, <3>8, <3>9
  <2>7. d \in 0 .. Cardinality(some)
    <3> DEFINE most == [i \in 1 .. len |-> (total - 1) * Ones(some, len)[i]]
    <3>1. /\ Ones(some, len) \in [1 .. len -> Nat] /\ total - 1 \in Nat
          /\ \A i \in 1 .. len : Ones(some, len)[i] = IF i \in some THEN 1 ELSE 0
      <4> HIDE DEF total, some
      <4>. QED
        BY <1>1, <1>3 DEF Ones
    <3>2. /\ most \in [1 .. len -> Nat]
          /\ \A i \in 1 .. len : most[i] = IF i \in some THEN total - 1 ELSE 0
      <4> HIDE DEF total, some
      <4>. QED
        BY <3>1
    <3>3. Total(most) = (total - 1) * Cardinality(some)
      <4>1. \A i \in 1 .. len : most[i] = (total - 1) * Ones(some, len)[i]
        OBVIOUS
      <4> HIDE DEF total, some, most
      <4>2. Total(most) = (total - 1) * Total(Ones(some, len))
        BY <3>1, <3>2, <4>1, TotalsScale
      <4>3. Total(Ones(some, len)) = Cardinality(some)
        BY <2>5, TotalOfOnes
      <4>. QED
        BY <4>2, <4>3
    <3>4. ASSUME NEW i \in 1 .. len PROVE rest[i] <= most[i]
      <4>1. i \in some <=> rest[i] > 0
        OBVIOUS
      <4>2. rest[i] \in Nat /\ rest[i] < total
        BY <2>1
      <4> HIDE DEF some, rest, most, total
      <4>. QED
        BY <1>1, <3>2, <4>1, <4>2
    <3>5. Total(rest) <= Total(most)
      <4> HIDE DEF rest, most
      <4>. QED
        BY <2>2, <3>2, <3>4, TotalsOrdered
    <3>6. \A t, c \in Nat : \A x \in Int :
            t > 0 /\ t * x >= 0 /\ t * x <= (t - 1) * c => x >= 0 /\ x <= c
      <4> TAKE t, c \in Nat
      <4> TAKE x \in Int
      <4>1. SUFFICES ASSUME t > 0, t * x >= 0, t * x <= (t - 1) * c PROVE x >= 0 /\ x <= c
        OBVIOUS
      <4>2. x >= 0
        BY <4>1
      <4>3. ASSUME x > c PROVE FALSE
        <5>1. (t - 1) * c <= t * c
          <6>1. (t - 1) * c = t * c - c
            OBVIOUS
          <6>. QED
            BY <6>1
        <5>2. t * c < t * x
          BY <4>1, <4>3
        <5>3. (t - 1) * c \in Int /\ t * c \in Int /\ t * x \in Int
          OBVIOUS
        <5>. QED
          BY <4>1, <5>1, <5>2, <5>3
      <4>. QED
        BY <4>2, <4>3
    <3>7. d \in Int /\ total > 0 /\ total * d >= 0 /\ total * d <= (total - 1) * Cardinality(some)
      <4>1. Total(base) \in Nat /\ Total(rest) \in Nat
        BY <2>4
      <4> HIDE DEF total, base, rest, most, some
      <4>. QED
        BY <1>1, <1>3, <2>6, <3>3, <3>5, <4>1
    <3>8. Cardinality(some) \in Nat
      BY <2>5
    <3> HIDE DEF total, some, d
    <3>9. d >= 0 /\ d <= Cardinality(some)
      BY <1>1, <3>6, <3>7, <3>8
    <3>. QED
      BY <3>7, <3>8, <3>9
  <2>8. first \in SUBSET (1 .. len) /\ Cardinality(first) = d
    <3>1. first = {i \in 1 .. len : Cardinality(Ahead(rest, len, i)) < d}
      OBVIOUS
    <3>2. d \in 0 .. len
      <4> HIDE DEF d, some
      <4>. QED
        BY <2>5, <2>7
    <3>3. rest \in [1 .. len -> Nat]
      BY <2>2
    <3> HIDE DEF rest, d
    <3>. QED
      BY <3>1, <3>2, <3>3, RanksFill
  <2>9. ASSUME NEW i \in 1 .. len, i \notin lines PROVE base[i] = 0 /\ i \notin first
    <3>1. base[i] = 0 /\ rest[i] = 0
      BY <2>1, <2>9
    <3>2. some \in SUBSET Ahead(rest, len, i) /\ Ahead(rest, len, i) \in SUBSET (1 .. len)
      BY <3>1 DEF Ahead
    <3>3. IsFiniteSet(Ahead(rest, len, i))
      <4>1. IsFiniteSet(1 .. len)
        BY FS_Interval
      <4> HIDE DEF rest
      <4>. QED
        BY <3>2, <4>1, FS_Subset
    <3>4. Cardinality(some) <= Rank(i) /\ Rank(i) \in Nat
      <4> HIDE DEF some, rest
      <4>. QED
        BY <3>2, <3>3, FS_Subset, FS_CardinalityType
    <3>5. ~(Rank(i) < d)
      <4> HIDE DEF some, Rank, d
      <4>. QED
        BY <2>5, <2>7, <3>4
    <3> HIDE DEF Rank, d, base
    <3>. QED
      BY <3>1, <3>5
  <2>10. ASSUME NEW i \in 1 .. len PROVE f[i] = base[i] + Ones(first, len)[i]
    <3>1. /\ Distribute(q, lines, target)[i] = base[i] + IF i \in first THEN 1 ELSE 0
          /\ f[i] = IF i \in lines THEN Distribute(q, lines, target)[i] ELSE 0
      <4> HIDE DEF base, Rank
      <4>. QED
        BY <2>3 DEF f
    <3>2. Ones(first, len)[i] = IF i \in first THEN 1 ELSE 0
      BY DEF Ones
    <3>3. base[i] \in Nat
      BY <2>1
    <3> HIDE DEF base, first
    <3>4. CASE i \in lines
      BY <3>1, <3>2, <3>4
    <3>5. CASE i \notin lines
      BY <2>9, <3>1, <3>2, <3>5
    <3>. QED
      BY <3>4, <3>5
  <2>11. Ones(first, len) \in [1 .. len -> Nat]
    BY DEF Ones
  <2>12. Total(f) = Total(base) + Total(Ones(first, len))
    <3> HIDE DEF f, base, first, weighted, rest
    <3>. QED
      BY ZenonT(30), <1>1, <2>2, <2>10, <2>11, TotalsAdd
  <2>13. Total(Ones(first, len)) = d
    <3> HIDE DEF first
    <3>. QED
      BY <2>8, TotalOfOnes
  <2>14. Total(f) = target
    <3> HIDE DEF base, f, first
    <3>. QED
      BY <2>4, <2>12, <2>13
  <2>. QED
    BY <1>0, <2>14
<1>. QED
  BY <1>2, <1>3

-----------------------------------------------------------------------------
(* Plans and their lines.                                                  *)

Line == [id: Nat, q: Nat]

\* What the members of a plan are.
LEMMA PlanShape ==
  ASSUME NEW n \in Nat, NEW ms \in Seq(MarketType(n)), NEW i \in DOMAIN ms
  PROVE  /\ ms[i] \in MarketType(n) /\ ms[i].assets \in Seq(AssetType(n))
         /\ \A k \in DOMAIN ms[i].assets : ms[i].assets[k] \in AssetType(n)
<1>1. ms[i] \in MarketType(n)
  OBVIOUS
<1>2. ms[i].assets \in Seq(AssetType(n))
  BY <1>1 DEF MarketType
<1>. QED
  BY <1>1, <1>2

\* The posters of an asset with weeks are a natural number.
LEMMA PostersTyped ==
  ASSUME NEW n \in Nat, NEW m \in MarketType(n), NEW k \in DOMAIN m.assets, Sized(m.assets[k])
  PROVE  Posters(m.assets[k]) \in Nat
<1>1. PICK a \in AssetType(n) : a = m.assets[k]
  <2>1. m.assets \in Seq(AssetType(n))
    BY DEF MarketType
  <2>. QED
    BY <2>1
<1>2. a.asset \in AllAssets /\ a.weeks \in SUBSET (1 .. MaxWeeks) /\ a.over \in Nat \cup {None}
  BY <1>1 DEF Sized, AssetType
<1>3. Cardinality(a.weeks) \in Nat
  <2>1. IsFiniteSet(1 .. MaxWeeks)
    BY PlanAssumption, FS_Interval
  <2>2. IsFiniteSet(a.weeks)
    BY <1>2, <2>1, FS_Subset
  <2>. QED
    BY <2>2, FS_CardinalityType
<1>4. PerWeek[a.asset] \in Nat
  BY <1>2, PlanAssumption
<1>. QED
  BY <1>1, <1>2, <1>3, <1>4 DEF Posters

\* The lines of a market carry its ids and natural quantities.
LEMMA MarketLinesTyped ==
  ASSUME NEW n \in Nat, NEW m \in MarketType(n)
  PROVE  MarketLines(m) \subseteq Line
<1> DEFINE lines == {k \in DOMAIN m.assets : Sized(m.assets[k])}
<1> DEFINE own == [k \in DOMAIN m.assets |-> IF k \in lines THEN Posters(m.assets[k]) ELSE 0]
<1> DEFINE q == IF m.over = None THEN own ELSE Distribute(own, lines, m.over)
<1>1. /\ m.assets \in Seq(AssetType(n)) /\ m.over \in Nat \cup {None}
      /\ DOMAIN m.assets = 1 .. Len(m.assets) /\ Len(m.assets) \in Nat
  BY DEF MarketType
<1>2. ASSUME NEW k \in lines PROVE Posters(m.assets[k]) \in Nat
  BY <1>1, PostersTyped
<1>3. own \in [1 .. Len(m.assets) -> Nat]
  BY <1>1, <1>2
<1>4. q \in [1 .. Len(m.assets) -> Nat]
  <2> HIDE DEF own, lines
  <2>. QED
    BY <1>1, <1>3, DistributeTyped
<1>5. MarketLines(m) = {[id |-> m.assets[k].id, q |-> q[k]] : k \in lines}
  BY DEF MarketLines
<1>6. ASSUME NEW k \in lines PROVE m.assets[k].id \in Nat /\ q[k] \in Nat
  <2>1. k \in 1 .. Len(m.assets)
    BY <1>1
  <2>2. PICK a \in AssetType(n) : a = m.assets[k]
    BY <1>1, <2>1
  <2> HIDE DEF q, lines
  <2>. QED
    BY <1>4, <2>1, <2>2 DEF AssetType
<1> HIDE DEF q
<1>. QED
  BY <1>5, <1>6 DEF Line

\* And so do those of a plan.
LEMMA LinesTyped ==
  ASSUME NEW n \in Nat, NEW ms \in Seq(MarketType(n))
  PROVE  Lines(ms) \subseteq Line
BY MarketLinesTyped DEF Lines, ToSet

\* An id handed out later leaves a plan what it was.
LEMMA PlanGrows ==
  ASSUME NEW n \in Nat, NEW p \in Nat, n <= p
  PROVE  /\ MarketType(n) \subseteq MarketType(p)
         /\ Seq(MarketType(n)) \subseteq Seq(MarketType(p))
         /\ AssetType(n) \subseteq AssetType(p)
         /\ Seq(AssetType(n)) \subseteq Seq(AssetType(p))
<1>1. 0 .. n \subseteq 0 .. p
  OBVIOUS
<1>2. AssetType(n) \subseteq AssetType(p)
  BY <1>1 DEF AssetType
<1>3. Seq(AssetType(n)) \subseteq Seq(AssetType(p))
  BY <1>2, SeqMonotonic
<1>4. MarketType(n) \subseteq MarketType(p)
  BY <1>1, <1>3 DEF MarketType
<1>. QED
  BY <1>2, <1>3, <1>4, SeqMonotonic

-----------------------------------------------------------------------------
(* What the editor fills in by itself.                                     *)

\* The same markets and assets in the same places, whatever they hold.
SamePlan(ms, ns) ==
  /\ DOMAIN ns = DOMAIN ms
  /\ \A i \in DOMAIN ms :
       /\ ns[i].id = ms[i].id /\ ns[i].name = ms[i].name
       /\ DOMAIN ns[i].assets = DOMAIN ms[i].assets
       /\ \A k \in DOMAIN ms[i].assets : ns[i].assets[k].id = ms[i].assets[k].id

\* A function on an initial segment is a sequence.
LEMMA FunctionIsSequence ==
  ASSUME NEW S, NEW len \in Nat, NEW f \in [1 .. len -> S]
  PROVE  f \in Seq(S) /\ Len(f) = len
OBVIOUS

\* ns is ms with the assets that g says.
Rewrites(ms, ns, g) ==
  ns = [i \in DOMAIN ms |-> [ms[i] EXCEPT !.assets = [k \in DOMAIN ms[i].assets |-> g[i][k]]]]

SameIds(n, ms, g) ==
  \A i \in DOMAIN ms : \A k \in DOMAIN ms[i].assets :
    g[i][k] \in AssetType(n) /\ g[i][k].id = ms[i].assets[k].id

\* Assets rewritten in place, with their ids, leave the plan its ids and names.
LEMMA RewrittenPlan ==
  ASSUME NEW n \in Nat, NEW ms \in Seq(MarketType(n)), NEW ns, NEW g,
         Rewrites(ms, ns, g), SameIds(n, ms, g)
  PROVE  /\ ns \in Seq(MarketType(n)) /\ SamePlan(ms, ns)
         /\ \A i \in DOMAIN ms : \A k \in DOMAIN ms[i].assets : ns[i].assets[k] = g[i][k]
<1>1. DOMAIN ms = 1 .. Len(ms) /\ Len(ms) \in Nat
  OBVIOUS
<1>2. ASSUME NEW i \in DOMAIN ms
      PROVE  /\ ns[i] \in MarketType(n) /\ ns[i].id = ms[i].id /\ ns[i].name = ms[i].name
             /\ ns[i].assets = [k \in DOMAIN ms[i].assets |-> g[i][k]]
  <2>1. ns[i] = [ms[i] EXCEPT !.assets = [k \in DOMAIN ms[i].assets |-> g[i][k]]]
    BY DEF Rewrites
  <2>2. ms[i] \in MarketType(n) /\ ms[i].assets \in Seq(AssetType(n))
    BY PlanShape
  <2>3. DOMAIN ms[i].assets = 1 .. Len(ms[i].assets) /\ Len(ms[i].assets) \in Nat
    BY <2>2
  <2>4. [k \in DOMAIN ms[i].assets |-> g[i][k]] \in [1 .. Len(ms[i].assets) -> AssetType(n)]
    BY <2>3 DEF SameIds
  <2>5. PICK s \in Seq(AssetType(n)) : s = [k \in DOMAIN ms[i].assets |-> g[i][k]]
    BY <2>3, <2>4, FunctionIsSequence
  <2>6. ns[i] = [ms[i] EXCEPT !.assets = s]
    BY <2>1, <2>5
  <2>7. ns[i] \in MarketType(n) /\ ns[i].assets = s /\ ns[i].id = ms[i].id
        /\ ns[i].name = ms[i].name
    BY <2>2, <2>6 DEF MarketType
  <2>. QED
    BY <2>5, <2>7
<1>3. ns \in Seq(MarketType(n))
  <2>1. ns \in [1 .. Len(ms) -> MarketType(n)]
    BY <1>1, <1>2 DEF Rewrites
  <2>. QED
    BY <1>1, <2>1, FunctionIsSequence
<1>4. DOMAIN ns = DOMAIN ms
  BY DEF Rewrites
<1>5. ASSUME NEW i \in DOMAIN ms
      PROVE  /\ DOMAIN ns[i].assets = DOMAIN ms[i].assets
             /\ \A k \in DOMAIN ms[i].assets : ns[i].assets[k] = g[i][k]
  BY <1>2
<1>6. ASSUME NEW i \in DOMAIN ms
      PROVE  \A k \in DOMAIN ms[i].assets : ns[i].assets[k].id = ms[i].assets[k].id
  BY <1>5 DEF SameIds
<1>7. SamePlan(ms, ns)
  BY <1>2, <1>4, <1>5, <1>6 DEF SamePlan
<1>. QED
  BY <1>3, <1>5, <1>7

\* Frames are a natural number.
LEMMA FramesTyped == ASSUME NEW q \in Nat PROVE Frames(q) \in Nat
BY PlanAssumption DEF Frames

\* The quantity of an id that has a line is that of a line.
LEMMA QuantityTyped ==
  ASSUME NEW ls \in SUBSET Line, NEW id \in LineIds(ls)
  PROVE  Quantity(ls, id) \in Nat
<1>1. \E l \in ls : l.id = id
  BY DEF LineIds
<1>. QED
  BY <1>1 DEF Quantity, Line

\* The default rows: of a line with posters and no row of its own, and nothing else.
LEMMA RowsFilled ==
  ASSUME NEW n \in Nat, NEW ms \in Seq(MarketType(n)), NEW ls \in SUBSET Line
  PROVE  /\ WithRows(ms, ls) \in Seq(MarketType(n)) /\ SamePlan(ms, WithRows(ms, ls))
         /\ \A i \in DOMAIN ms : \A k \in DOMAIN ms[i].assets :
              LET a == ms[i].assets[k]
                  b == WithRows(ms, ls)[i].assets[k]
              IN /\ b.addr = a.addr
                 /\ (a.id \in LineIds(ls) /\ Quantity(ls, a.id) > 0) => b.rows # None
<1> DEFINE fill(a) ==
      IF a.rows = None /\ a.id \in LineIds(ls) /\ Quantity(ls, a.id) > 0
      THEN [a EXCEPT !.rows = Frames(Quantity(ls, a.id))] ELSE a
<1> DEFINE g == [i \in DOMAIN ms |-> [k \in DOMAIN ms[i].assets |-> fill(ms[i].assets[k])]]
<1>1. ASSUME NEW a \in AssetType(n)
      PROVE  /\ fill(a) \in AssetType(n) /\ fill(a).id = a.id /\ fill(a).addr = a.addr
             /\ (a.id \in LineIds(ls) /\ Quantity(ls, a.id) > 0) => fill(a).rows # None
  <2>1. CASE a.rows = None /\ a.id \in LineIds(ls) /\ Quantity(ls, a.id) > 0
    <3>1. PICK f \in Nat : f = Frames(Quantity(ls, a.id))
      BY <2>1, QuantityTyped, FramesTyped
    <3>2. fill(a) = [a EXCEPT !.rows = f]
      BY <2>1, <3>1
    <3> HIDE DEF fill
    <3>. QED
      BY <3>1, <3>2, PlanAssumption DEF AssetType
  <2>2. CASE ~(a.rows = None /\ a.id \in LineIds(ls) /\ Quantity(ls, a.id) > 0)
    <3>1. fill(a) = a
      BY <2>2
    <3> HIDE DEF fill
    <3>. QED
      BY <2>2, <3>1
  <2>. QED
    BY <2>1, <2>2
<1> HIDE DEF fill
<1>2. \A i \in DOMAIN ms : \A k \in DOMAIN ms[i].assets :
        g[i][k] = fill(ms[i].assets[k]) /\ ms[i].assets[k] \in AssetType(n)
  BY PlanShape
<1>3. Rewrites(ms, WithRows(ms, ls), g)
  BY DEF Rewrites, WithRows, fill
<1> HIDE DEF g
<1>4. SameIds(n, ms, g)
  BY <1>1, <1>2 DEF SameIds
<1>5. /\ WithRows(ms, ls) \in Seq(MarketType(n)) /\ SamePlan(ms, WithRows(ms, ls))
      /\ \A i \in DOMAIN ms : \A k \in DOMAIN ms[i].assets :
           WithRows(ms, ls)[i].assets[k] = g[i][k]
  BY <1>3, <1>4, RewrittenPlan
<1>. QED
  BY <1>1, <1>2, <1>5

\* Empty addresses become the preferred ones; nothing else changes.
LEMMA AddressesFilled ==
  ASSUME NEW n \in Nat, NEW ms \in Seq(MarketType(n))
  PROVE  /\ WithAddresses(ms) \in Seq(MarketType(n)) /\ SamePlan(ms, WithAddresses(ms))
         /\ \A i \in DOMAIN ms : \A k \in DOMAIN ms[i].assets :
              LET a == ms[i].assets[k] IN
              WithAddresses(ms)[i].assets[k].addr
                = IF a.addr = None THEN Preferred[ms[i].name] ELSE a.addr
<1> DEFINE fill(a, m) == IF a.addr = None THEN [a EXCEPT !.addr = Preferred[m.name]] ELSE a
<1> DEFINE g == [i \in DOMAIN ms |->
                   [k \in DOMAIN ms[i].assets |-> fill(ms[i].assets[k], ms[i])]]
<1>1. ASSUME NEW a \in AssetType(n), NEW m \in MarketType(n)
      PROVE  /\ fill(a, m) \in AssetType(n) /\ fill(a, m).id = a.id
             /\ fill(a, m).addr = IF a.addr = None THEN Preferred[m.name] ELSE a.addr
  <2>1. PICK p \in Addresses \cup {None} : p = Preferred[m.name]
    BY AddressAssumption DEF MarketType
  <2>. QED
    BY <2>1 DEF AssetType
<1> HIDE DEF fill
<1>2. \A i \in DOMAIN ms : \A k \in DOMAIN ms[i].assets :
        /\ g[i][k] = fill(ms[i].assets[k], ms[i])
        /\ ms[i].assets[k] \in AssetType(n) /\ ms[i] \in MarketType(n)
  <2>1. ASSUME NEW i \in DOMAIN ms
        PROVE  /\ ms[i] \in MarketType(n)
               /\ \A k \in DOMAIN ms[i].assets : ms[i].assets[k] \in AssetType(n)
    BY PlanShape
  <2>2. \A i \in DOMAIN ms : \A k \in DOMAIN ms[i].assets :
          g[i][k] = fill(ms[i].assets[k], ms[i])
    OBVIOUS
  <2> HIDE DEF g
  <2>. QED
    BY <2>1, <2>2
<1>3. Rewrites(ms, WithAddresses(ms), g)
  BY DEF Rewrites, WithAddresses, fill
<1> HIDE DEF g
<1>4. SameIds(n, ms, g)
  BY <1>1, <1>2 DEF SameIds
<1>5. /\ WithAddresses(ms) \in Seq(MarketType(n)) /\ SamePlan(ms, WithAddresses(ms))
      /\ \A i \in DOMAIN ms : \A k \in DOMAIN ms[i].assets :
           WithAddresses(ms)[i].assets[k] = g[i][k]
  BY <1>3, <1>4, RewrittenPlan
<1>6. ASSUME NEW i \in DOMAIN ms, NEW k \in DOMAIN ms[i].assets
      PROVE  WithAddresses(ms)[i].assets[k].addr
               = IF ms[i].assets[k].addr = None THEN Preferred[ms[i].name]
                 ELSE ms[i].assets[k].addr
  <2>1. PICK a \in AssetType(n), m \in MarketType(n) : a = ms[i].assets[k] /\ m = ms[i]
    BY <1>2
  <2>2. WithAddresses(ms)[i].assets[k] = fill(a, m)
    BY <1>2, <1>5, <2>1
  <2>3. fill(a, m).addr = IF a.addr = None THEN Preferred[m.name] ELSE a.addr
    BY <1>1
  <2>. QED
    BY <2>1, <2>2, <2>3
<1>. QED
  BY <1>5, <1>6

\* What becomes of an address is an address that nothing more becomes of.
LEMMA RefreshedTyped ==
  ASSUME NEW m \in Names, NEW addr \in Addresses \cup {None}
  PROVE  /\ Refreshed(m, addr) \in Addresses \cup {None}
         /\ Refreshed(m, addr) = None <=> addr = None
         /\ Refreshed(m, Refreshed(m, addr)) = Refreshed(m, addr)
         /\ Refreshed(m, Preferred[m]) = Preferred[m]
<1>1. /\ DOMAIN Latest[m] \subseteq Addresses /\ Latest[m] \in [DOMAIN Latest[m] -> Addresses]
      /\ \A a \in {Preferred[m]} \cup {Latest[m][old] : old \in DOMAIN Latest[m]} :
           Refreshed(m, a) = a
  BY AddressAssumption
<1>2. CASE addr \in DOMAIN Latest[m]
  <2>1. Refreshed(m, addr) = Latest[m][addr] /\ Latest[m][addr] \in Addresses
    BY <1>1, <1>2 DEF Refreshed
  <2>. QED
    BY <1>1, <1>2, <2>1, PlanAssumption
<1>3. CASE addr \notin DOMAIN Latest[m]
  <2>1. Refreshed(m, addr) = addr
    BY <1>3 DEF Refreshed
  <2>. QED
    BY <1>1, <2>1
<1>. QED
  BY <1>2, <1>3

\* Every address becomes the current one of its contact; nothing else changes.
LEMMA AddressesRefreshed ==
  ASSUME NEW n \in Nat, NEW ms \in Seq(MarketType(n))
  PROVE  /\ WithLatest(ms) \in Seq(MarketType(n)) /\ SamePlan(ms, WithLatest(ms))
         /\ \A i \in DOMAIN ms : \A k \in DOMAIN ms[i].assets :
              WithLatest(ms)[i].assets[k].addr = Refreshed(ms[i].name, ms[i].assets[k].addr)
<1> DEFINE fill(a, m) == [a EXCEPT !.addr = Refreshed(m.name, a.addr)]
<1> DEFINE g == [i \in DOMAIN ms |->
                   [k \in DOMAIN ms[i].assets |-> fill(ms[i].assets[k], ms[i])]]
<1>1. ASSUME NEW a \in AssetType(n), NEW m \in MarketType(n)
      PROVE  /\ fill(a, m) \in AssetType(n) /\ fill(a, m).id = a.id
             /\ fill(a, m).addr = Refreshed(m.name, a.addr)
  <2>1. PICK p \in Addresses \cup {None} : p = Refreshed(m.name, a.addr)
    BY RefreshedTyped DEF MarketType, AssetType
  <2>. QED
    BY <2>1 DEF AssetType
<1> HIDE DEF fill
<1>2. \A i \in DOMAIN ms : \A k \in DOMAIN ms[i].assets :
        /\ g[i][k] = fill(ms[i].assets[k], ms[i])
        /\ ms[i].assets[k] \in AssetType(n) /\ ms[i] \in MarketType(n)
  BY PlanShape
<1>3. Rewrites(ms, WithLatest(ms), g)
  BY DEF Rewrites, WithLatest, fill
<1> HIDE DEF g
<1>4. SameIds(n, ms, g)
  BY <1>1, <1>2 DEF SameIds
<1>5. /\ WithLatest(ms) \in Seq(MarketType(n)) /\ SamePlan(ms, WithLatest(ms))
      /\ \A i \in DOMAIN ms : \A k \in DOMAIN ms[i].assets :
           WithLatest(ms)[i].assets[k] = g[i][k]
  BY <1>3, <1>4, RewrittenPlan
<1>6. ASSUME NEW i \in DOMAIN ms, NEW k \in DOMAIN ms[i].assets
      PROVE  WithLatest(ms)[i].assets[k].addr
               = Refreshed(ms[i].name, ms[i].assets[k].addr)
  <2>1. PICK a \in AssetType(n), m \in MarketType(n) : a = ms[i].assets[k] /\ m = ms[i]
    BY <1>2
  <2>2. WithLatest(ms)[i].assets[k] = fill(a, m)
    BY <1>2, <1>5, <2>1
  <2>. QED
    BY <1>1, <2>1, <2>2
<1>. QED
  BY <1>5, <1>6

\* Weeks that go leave ids, names and addresses alone.
LEMMA WeeksCut ==
  ASSUME NEW n \in Nat, NEW ms \in Seq(MarketType(n)), NEW w
  PROVE  /\ InRange(ms, w) \in Seq(MarketType(n)) /\ SamePlan(ms, InRange(ms, w))
         /\ \A i \in DOMAIN ms : \A k \in DOMAIN ms[i].assets :
              InRange(ms, w)[i].assets[k].addr = ms[i].assets[k].addr
<1> DEFINE fill(a) == [a EXCEPT !.weeks = a.weeks \cap 1 .. w]
<1> DEFINE g == [i \in DOMAIN ms |-> [k \in DOMAIN ms[i].assets |-> fill(ms[i].assets[k])]]
<1>1. ASSUME NEW a \in AssetType(n)
      PROVE  /\ fill(a) \in AssetType(n) /\ fill(a).id = a.id /\ fill(a).addr = a.addr
  <2>1. PICK s \in SUBSET (1 .. MaxWeeks) : s = a.weeks \cap 1 .. w
    BY DEF AssetType
  <2>. QED
    BY <2>1 DEF AssetType
<1> HIDE DEF fill
<1>2. \A i \in DOMAIN ms : \A k \in DOMAIN ms[i].assets :
        g[i][k] = fill(ms[i].assets[k]) /\ ms[i].assets[k] \in AssetType(n)
  BY PlanShape
<1>3. Rewrites(ms, InRange(ms, w), g)
  BY DEF Rewrites, InRange, fill
<1> HIDE DEF g
<1>4. SameIds(n, ms, g)
  BY <1>1, <1>2 DEF SameIds
<1>5. /\ InRange(ms, w) \in Seq(MarketType(n)) /\ SamePlan(ms, InRange(ms, w))
      /\ \A i \in DOMAIN ms : \A k \in DOMAIN ms[i].assets :
           InRange(ms, w)[i].assets[k] = g[i][k]
  BY <1>3, <1>4, RewrittenPlan
<1>. QED
  BY <1>1, <1>2, <1>5

-----------------------------------------------------------------------------
(* The invariant.                                                          *)

Loading == {"loading", "ok"}
OpenDraft(n) ==
  [open: {TRUE}, market: MarketType(n), editing: 0 .. n \cup {None}, lines: SUBSET Line,
   shown: BOOLEAN]
Calculation == {Idle} \cup [st: {"timer", "sent"}, of: SUBSET Line]

\* The types of the plan, of the dialog and of the two calculations.
PlanTypeOK ==
  /\ weeks \in 1 .. MaxWeeks /\ ids \in Nat
  /\ markets \in Seq(MarketType(ids)) /\ draft \in OpenDraft(ids) \cup {NoDraft}
  /\ summary \in (SUBSET Line) \cup {None} /\ {calc, dcalc} \subseteq Calculation
  /\ loads \in [metadata: Loading, addresses: Loading, materials: Loading]
  /\ flow \in [managed: BOOLEAN, saved: BOOLEAN]

\* A calculation that is due or under way is one of what is on screen, and the
\* lines the dialog shows are its market's unless they are being calculated.
CalcInv ==
  /\ ~CanCalculate => calc = Idle /\ dcalc = Idle /\ summary = None /\ ~draft.shown
  /\ calc # Idle => calc.of = Lines(markets) /\ markets # <<>>
  /\ dcalc # Idle => draft.open /\ dcalc.of = MarketLines(draft.market)
  /\ draft.shown /\ dcalc = Idle => draft.lines = MarketLines(draft.market)
  /\ SummaryOfThePlan

\* Ids and names occur once, in the plan and with what the dialog may add to it.
DistinctInv ==
  /\ Distinct(markets)
  /\ flow.managed /\ ~flow.saved => markets = <<>>
  /\ draft.open =>
       /\ Apart(draft.market.assets)
       /\ draft.editing # None => draft.editing = draft.market.id
       /\ draft.editing = None => \A i \in DOMAIN markets : markets[i].id # draft.market.id

\* An address that the effects have no more to do with.
Current(a, name, known) ==
  \/ a.addr = None /\ Preferred[name] = None
  \/ a.addr # None /\ Refreshed(name, a.addr) = a.addr
  \/ <<a.id, a.addr>> \in known
MarketCurrent(m, known) == \A k \in DOMAIN m.assets : Current(m.assets[k], m.name, known)
PlanCurrent(ms, known) == \A i \in DOMAIN ms : MarketCurrent(ms[i], known)

\* The plan's addresses are current once the list is there, and those of the
\* dialog are too, or were there before.
AddressInv ==
  /\ loads.addresses = "ok" => PlanCurrent(markets, kept)
  /\ draft.open =>
       /\ loads.addresses = "ok" => MarketCurrent(draft.market, kept)
       /\ loads.addresses # "ok" => \A k \in DOMAIN draft.market.assets :
            <<draft.market.assets[k].id, draft.market.assets[k].addr>> \in kept

PlanInv == PlanTypeOK /\ CalcInv /\ DistinctInv /\ AddressInv /\ RowsOfEveryLine

-----------------------------------------------------------------------------
(* Lists: an asset is added, removed, or dragged to another place.         *)

\* Two sequences one after the other.
LEMMA Joined ==
  ASSUME NEW S, NEW a \in Seq(S), NEW b \in Seq(S)
  PROVE  /\ a \o b \in Seq(S) /\ Len(a \o b) = Len(a) + Len(b)
         /\ \A j \in 1 .. Len(a) + Len(b) :
              (a \o b)[j] = IF j <= Len(a) THEN a[j] ELSE b[j - Len(a)]
OBVIOUS

\* t is s and e after it.
Extends(t, s, e, len) ==
  /\ t = Append(s, e) /\ DOMAIN s = 1 .. len /\ DOMAIN t = 1 .. len + 1
  /\ \A j \in 1 .. len : t[j] = s[j]
  /\ t[len + 1] = e

\* Append gives such a sequence.
LEMMA Appended ==
  ASSUME NEW S, NEW s \in Seq(S), NEW e \in S
  PROVE  \E t \in Seq(S), len \in Nat : Extends(t, s, e, len)
<1>1. /\ Append(s, e) \in Seq(S) /\ DOMAIN s = 1 .. Len(s) /\ Len(s) \in Nat
      /\ DOMAIN Append(s, e) = 1 .. Len(s) + 1
      /\ \A j \in 1 .. Len(s) : Append(s, e)[j] = s[j]
      /\ Append(s, e)[Len(s) + 1] = e
  OBVIOUS
<1>. QED
  BY <1>1 DEF Extends

\* RemoveAt leaves what was before its place, and moves up what was after it.
LEMMA Removed ==
  ASSUME NEW S, NEW s \in Seq(S), NEW k \in DOMAIN s
  PROVE  /\ RemoveAt(s, k) \in Seq(S) /\ Len(RemoveAt(s, k)) = Len(s) - 1
         /\ \A j \in 1 .. Len(s) - 1 : RemoveAt(s, k)[j] = IF j < k THEN s[j] ELSE s[j + 1]
<1>1. Len(s) \in Nat /\ k \in 1 .. Len(s)
  OBVIOUS
<1>2. PICK a \in Seq(S) : a = SubSeq(s, 1, k - 1)
  <2>1. SubSeq(s, 1, k - 1) \in Seq(S)
    OBVIOUS
  <2>. QED
    BY <2>1
<1>3. PICK b \in Seq(S) : b = SubSeq(s, k + 1, Len(s))
  <2>1. SubSeq(s, k + 1, Len(s)) \in Seq(S)
    OBVIOUS
  <2>. QED
    BY <2>1
<1>4. Len(a) = k - 1 /\ \A j \in 1 .. k - 1 : a[j] = s[j]
  BY <1>2
<1>5. Len(b) = Len(s) - k /\ \A j \in 1 .. Len(s) - k : b[j] = s[k + j]
  BY <1>3
<1>6. RemoveAt(s, k) = a \o b
  BY <1>2, <1>3 DEF RemoveAt
<1>7. /\ RemoveAt(s, k) \in Seq(S) /\ Len(RemoveAt(s, k)) = Len(s) - 1
      /\ \A j \in 1 .. Len(s) - 1 :
           RemoveAt(s, k)[j] = IF j <= k - 1 THEN a[j] ELSE b[j - (k - 1)]
  BY <1>1, <1>4, <1>5, <1>6, Joined, SMTT(20)
<1>8. \A j \in k .. Len(s) - 1 : b[j - (k - 1)] = s[j + 1]
  <2>1. TAKE j \in k .. Len(s) - 1
  <2>2. j - (k - 1) \in 1 .. Len(s) - k /\ k + (j - (k - 1)) = j + 1
    BY <1>1
  <2>. QED
    BY <1>5, <2>2
<1>. QED
  BY <1>1, <1>4, <1>7, <1>8

\* InsertAt leaves what was before its place, and moves down what was after it.
LEMMA Inserted ==
  ASSUME NEW S, NEW s \in Seq(S), NEW e \in S, NEW k \in 1 .. Len(s) + 1
  PROVE  /\ InsertAt(s, k, e) \in Seq(S) /\ Len(InsertAt(s, k, e)) = Len(s) + 1
         /\ \A j \in 1 .. k - 1 : InsertAt(s, k, e)[j] = s[j]
         /\ InsertAt(s, k, e)[k] = e
         /\ \A j \in k + 1 .. Len(s) + 1 : InsertAt(s, k, e)[j] = s[j - 1]
<1>1. Len(s) \in Nat
  OBVIOUS
<1>2. PICK a \in Seq(S) : a = SubSeq(s, 1, k - 1)
  <2>1. SubSeq(s, 1, k - 1) \in Seq(S)
    OBVIOUS
  <2>. QED
    BY <2>1
<1>3. PICK b \in Seq(S) : b = SubSeq(s, k, Len(s))
  <2>1. SubSeq(s, k, Len(s)) \in Seq(S)
    OBVIOUS
  <2>. QED
    BY <2>1
<1>4. Len(a) = k - 1 /\ \A j \in 1 .. k - 1 : a[j] = s[j]
  BY <1>2
<1>5. Len(b) = Len(s) - k + 1 /\ \A j \in 1 .. Len(s) - k + 1 : b[j] = s[k + j - 1]
  BY <1>3
<1>6. PICK c \in Seq(S) : c = <<e>> /\ Len(c) = 1 /\ c[1] = e
  <2>1. <<e>> \in Seq(S) /\ Len(<<e>>) = 1 /\ <<e>>[1] = e
    OBVIOUS
  <2>. QED
    BY <2>1
<1>7. PICK d \in Seq(S) : d = a \o c
  <2>1. a \o c \in Seq(S)
    OBVIOUS
  <2>. QED
    BY <2>1
<1>8. Len(d) = k /\ \A j \in 1 .. k : d[j] = IF j < k THEN s[j] ELSE e
  <2>1. Len(d) = k /\ \A j \in 1 .. k : d[j] = IF j <= k - 1 THEN a[j] ELSE c[j - (k - 1)]
    BY <1>4, <1>6, <1>7, Joined
  <2>. QED
    BY <1>4, <1>6, <2>1
<1>9. InsertAt(s, k, e) = d \o b
  BY <1>2, <1>3, <1>6, <1>7 DEF InsertAt
<1>10. /\ InsertAt(s, k, e) \in Seq(S) /\ Len(InsertAt(s, k, e)) = Len(s) + 1
       /\ \A j \in 1 .. Len(s) + 1 : InsertAt(s, k, e)[j] = IF j <= k THEN d[j] ELSE b[j - k]
  <2>1. Len(d) + Len(b) = Len(s) + 1
    BY <1>1, <1>5, <1>8
  <2>. QED
    BY <1>8, <1>9, <2>1, Joined
<1>11. \A j \in k + 1 .. Len(s) + 1 : b[j - k] = s[j - 1]
  <2>1. TAKE j \in k + 1 .. Len(s) + 1
  <2>2. j - k \in 1 .. Len(s) - k + 1 /\ k + (j - k) - 1 = j - 1
    BY <1>1
  <2>. QED
    BY <1>5, <2>2
<1>12. \A j \in k + 1 .. Len(s) + 1 : InsertAt(s, k, e)[j] = s[j - 1]
  <2>1. TAKE j \in k + 1 .. Len(s) + 1
  <2>2. j \in 1 .. Len(s) + 1 /\ ~(j <= k)
    BY <1>1
  <2>. QED
    BY <1>10, <1>11, <2>2
<1>13. (\A j \in 1 .. k - 1 : InsertAt(s, k, e)[j] = s[j]) /\ InsertAt(s, k, e)[k] = e
  BY <1>1, <1>8, <1>10
<1>. QED
  BY <1>10, <1>12, <1>13

\* No id comes to occur twice.
LEMMA RemovedApart ==
  ASSUME NEW S, NEW s \in Seq(S), NEW k \in DOMAIN s, Apart(s)
  PROVE  Apart(RemoveAt(s, k))
<1>1. PICK t \in Seq(S) : t = RemoveAt(s, k)
  BY Removed
<1>2. /\ Len(s) \in Nat /\ DOMAIN s = 1 .. Len(s) /\ DOMAIN t = 1 .. Len(s) - 1
      /\ \A j \in 1 .. Len(s) - 1 : t[j] = IF j < k THEN s[j] ELSE s[j + 1]
  BY <1>1, Removed
<1>3. ASSUME NEW i \in 1 .. Len(s) - 1, NEW j \in 1 .. Len(s) - 1, i # j
      PROVE  t[i].id # t[j].id
  BY <1>2, <1>3 DEF Apart
<1>. QED
  BY <1>1, <1>2, <1>3 DEF Apart

\* What is left was there before.
LEMMA RemovedElements ==
  ASSUME NEW S, NEW s \in Seq(S), NEW k \in DOMAIN s
  PROVE  ToSet(RemoveAt(s, k)) \subseteq ToSet(s)
<1>1. PICK t \in Seq(S) : t = RemoveAt(s, k)
  BY Removed
<1>2. /\ Len(s) \in Nat /\ DOMAIN s = 1 .. Len(s) /\ DOMAIN t = 1 .. Len(s) - 1
      /\ \A j \in 1 .. Len(s) - 1 : t[j] = IF j < k THEN s[j] ELSE s[j + 1]
  BY <1>1, Removed
<1>3. ASSUME NEW j \in 1 .. Len(s) - 1 PROVE \E i \in DOMAIN s : t[j] = s[i]
  <2>1. j \in DOMAIN s /\ j + 1 \in DOMAIN s
    BY <1>2
  <2>. QED
    BY <1>2, <2>1
<1>. QED
  BY <1>1, <1>2, <1>3 DEF ToSet

\* A member dragged to another place: the same members, apart as they were.
LEMMA MovedApart ==
  ASSUME NEW S, NEW s \in Seq(S), NEW k \in DOMAIN s, NEW j \in DOMAIN s, Apart(s)
  PROVE  /\ InsertAt(RemoveAt(s, k), j, s[k]) \in Seq(S)
         /\ Apart(InsertAt(RemoveAt(s, k), j, s[k]))
         /\ ToSet(InsertAt(RemoveAt(s, k), j, s[k])) \subseteq ToSet(s)
<1>1. PICK t \in Seq(S) : t = RemoveAt(s, k)
  BY Removed
<1>2. /\ Len(s) \in Nat /\ DOMAIN s = 1 .. Len(s) /\ Len(t) = Len(s) - 1
      /\ \A i \in 1 .. Len(s) - 1 : t[i] = IF i < k THEN s[i] ELSE s[i + 1]
  <2>1. Len(s) \in Nat /\ DOMAIN s = 1 .. Len(s)
    OBVIOUS
  <2>2. Len(t) = Len(s) - 1
    BY <1>1, Removed
  <2>3. \A i \in 1 .. Len(s) - 1 : t[i] = IF i < k THEN s[i] ELSE s[i + 1]
    BY <1>1, Removed
  <2>. QED
    BY <2>1, <2>2, <2>3
<1>3. PICK e \in S : e = s[k]
  BY <1>2
<1>4. j \in 1 .. Len(t) + 1
  BY <1>2
<1>5. PICK u : u = InsertAt(t, j, e)
  OBVIOUS
<1>6. /\ u \in Seq(S) /\ Len(u) = Len(t) + 1
      /\ \A i \in 1 .. j - 1 : u[i] = t[i]
      /\ u[j] = e
      /\ \A i \in j + 1 .. Len(t) + 1 : u[i] = t[i - 1]
  <2>1. u \in Seq(S) /\ Len(u) = Len(t) + 1
    BY <1>4, <1>5, Inserted
  <2>2. (\A i \in 1 .. j - 1 : u[i] = t[i]) /\ u[j] = e
    BY <1>4, <1>5, Inserted
  <2>3. \A i \in j + 1 .. Len(t) + 1 : u[i] = t[i - 1]
    <3>1. PICK p \in 1 .. Len(t) + 1 : p = j
      BY <1>4
    <3>2. \A i \in p + 1 .. Len(t) + 1 : InsertAt(t, p, e)[i] = t[i - 1]
      BY Inserted
    <3>. QED
      BY <1>5, <3>1, <3>2
  <2>. QED
    BY <2>1, <2>2, <2>3
<1>7. /\ DOMAIN u = 1 .. Len(s)
      /\ \A i \in 1 .. Len(s) : u[i] = IF i < j THEN t[i] ELSE IF i = j THEN s[k] ELSE t[i - 1]
  BY <1>2, <1>3, <1>6
<1> DEFINE from == [i \in 1 .. Len(s) |->
      IF i = j THEN k
      ELSE LET p == IF i < j THEN i ELSE i - 1 IN IF p < k THEN p ELSE p + 1]
<1>8. \A i \in 1 .. Len(s) : from[i] \in 1 .. Len(s) /\ u[i] = s[from[i]]
  <2>1. TAKE i \in 1 .. Len(s)
  <2>2. CASE i = j
    BY <1>2, <1>7, <2>2
  <2>3. CASE i # j
    <3>1. PICK p \in 1 .. Len(s) - 1 : p = IF i < j THEN i ELSE i - 1
      BY <1>2, <2>3
    <3>2. u[i] = t[p] /\ from[i] = IF p < k THEN p ELSE p + 1
      BY <1>7, <2>3, <3>1
    <3> HIDE DEF from
    <3>. QED
      BY <1>2, <3>1, <3>2
  <2>. QED
    BY <2>2, <2>3
<1>9. \A i, l \in 1 .. Len(s) : i # l => from[i] # from[l]
  BY <1>2
<1> HIDE DEF from
<1>10. Apart(u)
  BY <1>2, <1>7, <1>8, <1>9 DEF Apart
<1>11. ToSet(u) \subseteq ToSet(s)
  BY <1>2, <1>7, <1>8, SMTT(20) DEF ToSet
<1>. QED
  BY <1>1, <1>3, <1>5, <1>6, <1>10, <1>11

-----------------------------------------------------------------------------
(* Types.                                                                  *)

\* A dialog is open with a market of the plan's type, or it is the closed one.
LEMMA DraftOpens ==
  ASSUME NEW n \in Nat, NEW d \in OpenDraft(n) \cup {NoDraft}
  PROVE  /\ d.open \in BOOLEAN
         /\ d.open => d \in OpenDraft(n) /\ d.market \in MarketType(n)
         /\ d.open => MarketLines(d.market) \subseteq Line
         /\ ~d.open => d = NoDraft /\ ~d.shown
<1>1. CASE d = NoDraft
  BY <1>1 DEF NoDraft
<1>2. CASE d \in OpenDraft(n)
  <2>1. d.open = TRUE /\ d.market \in MarketType(n)
    BY <1>2 DEF OpenDraft
  <2>. QED
    BY <1>2, <2>1, MarketLinesTyped
<1>. QED
  BY <1>1, <1>2

\* A calculation that starts, of lines that are lines.
LEMMA TimerTyped ==
  ASSUME NEW ls \in SUBSET Line, NEW st \in {"timer", "sent"}
  PROVE  [st |-> st, of |-> ls] \in Calculation
BY DEF Calculation

\* No calculation.
LEMMA IdleTyped == Idle \in Calculation /\ Idle.st = "idle"
BY DEF Calculation, Idle

\* The types after a plan has replaced the plan.
LEMMA CommitTyped ==
  ASSUME PlanTypeOK, NEW ms \in Seq(MarketType(ids)), NEW d \in OpenDraft(ids) \cup {NoDraft},
         Commit(ms, d)
  PROVE  /\ markets' \in Seq(MarketType(ids)) /\ draft' \in OpenDraft(ids) \cup {NoDraft}
         /\ summary' \in (SUBSET Line) \cup {None} /\ {calc', dcalc'} \subseteq Calculation
<1>1. ids \in Nat
  BY DEF PlanTypeOK
<1>2. markets' = ms /\ draft' = d
  BY DEF Commit
<1>3. calc' \in Calculation
  <2>1. Lines(ms) \in SUBSET Line
    BY <1>1, LinesTyped
  <2>. QED
    BY <2>1, TimerTyped, IdleTyped DEF Commit, Restart
<1>4. dcalc' \in Calculation
  <2>1. d.open => DraftOf(d) \in SUBSET Line
    BY <1>1, DraftOpens DEF DraftOf
  <2>2. CASE d.open /\ CanCalculate
    BY <2>1, <2>2, TimerTyped DEF Commit, Restart
  <2>3. CASE ~(d.open /\ CanCalculate)
    BY <2>3, IdleTyped DEF Commit, Restart
  <2>. QED
    BY <2>2, <2>3
<1>5. summary' \in (SUBSET Line) \cup {None}
  <2>1. summary \in (SUBSET Line) \cup {None}
    BY DEF PlanTypeOK
  <2>2. summary' = None \/ summary' = summary
    BY DEF Commit, Restart
  <2>. QED
    BY <2>1, <2>2
<1>. QED
  BY <1>2, <1>3, <1>4, <1>5

\* The types after a draft has replaced the draft.
LEMMA RedraftTyped ==
  ASSUME PlanTypeOK, NEW n \in Nat, ids <= n, NEW d \in OpenDraft(n) \cup {NoDraft}, Redraft(d)
  PROVE  /\ markets' \in Seq(MarketType(n)) /\ draft' \in OpenDraft(n) \cup {NoDraft}
         /\ summary' \in (SUBSET Line) \cup {None} /\ {calc', dcalc'} \subseteq Calculation
<1>1. ids \in Nat /\ markets \in Seq(MarketType(ids))
  BY DEF PlanTypeOK
<1>2. markets' \in Seq(MarketType(n))
  <2>1. Seq(MarketType(ids)) \subseteq Seq(MarketType(n))
    BY <1>1, PlanGrows
  <2>. QED
    BY <1>1, <2>1 DEF Redraft
<1>3. dcalc' \in Calculation
  <2>1. d.open => DraftOf(d) \in SUBSET Line
    BY DraftOpens DEF DraftOf
  <2>2. CASE d.open /\ CanCalculate
    BY <2>1, <2>2, TimerTyped DEF Redraft
  <2>3. CASE ~(d.open /\ CanCalculate)
    BY <2>3, IdleTyped DEF Redraft
  <2>. QED
    BY <2>2, <2>3
<1>4. draft' = d /\ summary' = summary /\ calc' = calc
  BY DEF Redraft
<1>. QED
  BY <1>2, <1>3, <1>4 DEF PlanTypeOK

\* What is in an open dialog.
LEMMA DraftShape ==
  ASSUME PlanTypeOK, draft.open
  PROVE  /\ ids \in Nat /\ draft \in OpenDraft(ids) /\ draft.market \in MarketType(ids)
         /\ draft.market.assets \in Seq(AssetType(ids)) /\ draft.market.name \in Names
         /\ \A k \in DOMAIN draft.market.assets : draft.market.assets[k] \in AssetType(ids)
<1>1. ids \in Nat /\ draft \in OpenDraft(ids) /\ draft.market \in MarketType(ids)
  BY DraftOpens DEF PlanTypeOK
<1>2. draft.market.assets \in Seq(AssetType(ids)) /\ draft.market.name \in Names
  BY <1>1 DEF MarketType
<1>. QED
  BY <1>1, <1>2

\* The types after a summary has been shown.
LEMMA ShownTyped ==
  ASSUME PlanTypeOK, NEW ls \in SUBSET Line, Shown(ls)
  PROVE  /\ markets' \in Seq(MarketType(ids))
         /\ summary' \in (SUBSET Line) \cup {None} /\ {calc', dcalc'} \subseteq Calculation
<1>1. /\ ids \in Nat /\ markets \in Seq(MarketType(ids)) /\ dcalc \in Calculation
      /\ draft \in OpenDraft(ids) \cup {NoDraft}
  BY DEF PlanTypeOK
<1>2. PICK ms : ms = IF RowsReady THEN WithRows(markets, ls) ELSE markets
  OBVIOUS
<1>3. ms \in Seq(MarketType(ids)) /\ markets' = ms /\ summary' = ls
  BY <1>1, <1>2, RowsFilled DEF Shown
<1>4. calc' \in Calculation
  <2>1. Lines(ms) \in SUBSET Line
    BY <1>1, <1>3, LinesTyped
  <2>2. calc' = IF ms = markets THEN Idle ELSE [st |-> "timer", of |-> Lines(ms)]
    BY <1>2 DEF Shown
  <2>. QED
    BY <2>1, <2>2, TimerTyped, IdleTyped
<1>5. dcalc' \in Calculation
  <2>1. draft.open => DraftOf(draft) \in SUBSET Line
    BY <1>1, DraftOpens DEF DraftOf
  <2>2. dcalc' = IF ms = markets \/ ~draft.open THEN dcalc
                 ELSE [st |-> "timer", of |-> DraftOf(draft)]
    BY <1>2 DEF Shown
  <2>. QED
    BY <1>1, <2>1, <2>2, TimerTyped
<1>. QED
  BY <1>3, <1>4, <1>5

\* What a calculation is, and what it is once it is sent.
LEMMA CalculationShape ==
  ASSUME NEW c \in Calculation
  PROVE  /\ c.of \in SUBSET Line
         /\ c.st = "timer" => [c EXCEPT !.st = "sent"] \in Calculation
         /\ c.st = "idle" <=> c = Idle
<1>1. CASE c = Idle
  BY <1>1 DEF Idle, Calculation
<1>2. CASE c \in [st: {"timer", "sent"}, of: SUBSET Line]
  BY <1>2 DEF Idle, Calculation
<1>. QED
  BY <1>1, <1>2 DEF Calculation

\* The types of the initial states.
LEMMA InitTyped == PlanInit => PlanTypeOK
<1> SUFFICES ASSUME PlanInit PROVE PlanTypeOK
  OBVIOUS
<1>1. LastId \in Nat /\ MaxWeeks \in 1 .. MaxWeeks /\ StoredWeeks \in 1 .. MaxWeeks
  BY PlanAssumption
<1>2. markets \in Seq(MarketType(LastId))
  <2>1. <<>> \in Seq(MarketType(LastId))
    OBVIOUS
  <2>. QED
    BY <2>1, StoredAssumption DEF PlanInit
<1>3. /\ weeks \in 1 .. MaxWeeks /\ ids = LastId /\ draft = NoDraft /\ summary = None
      /\ calc = Idle /\ dcalc = Idle
      /\ loads = [metadata |-> "loading", addresses |-> "loading", materials |-> "loading"]
  BY <1>1 DEF PlanInit
<1>4. flow \in [managed: BOOLEAN, saved: BOOLEAN]
  BY PlanAssumption DEF PlanInit
<1>5. loads \in [metadata: Loading, addresses: Loading, materials: Loading]
  BY <1>3 DEF Loading
<1>. QED
  BY <1>1, <1>2, <1>3, <1>4, <1>5, IdleTyped DEF PlanTypeOK

\* What an action leaves alone, or gives its type.
LEMMA CommittedTyped ==
  ASSUME PlanTypeOK, NEW ms \in Seq(MarketType(ids)), NEW d \in OpenDraft(ids) \cup {NoDraft},
         Commit(ms, d), ids' = ids, weeks' \in 1 .. MaxWeeks,
         loads' \in [metadata: Loading, addresses: Loading, materials: Loading],
         flow' \in [managed: BOOLEAN, saved: BOOLEAN]
  PROVE  PlanTypeOK'
BY CommitTyped DEF PlanTypeOK

\* The same ids and names are distinct ones.
LEMMA SameDistinct ==
  ASSUME NEW n \in Nat, NEW ms \in Seq(MarketType(n)), NEW ns \in Seq(MarketType(n)),
         SamePlan(ms, ns)
  PROVE  /\ Distinct(ms) => Distinct(ns)
         /\ ms = <<>> <=> ns = <<>>
         /\ \A x : (\A i \in DOMAIN ms : ms[i].id # x) => \A i \in DOMAIN ns : ns[i].id # x
<1>1. DOMAIN ms = 1 .. Len(ms) /\ DOMAIN ns = 1 .. Len(ns) /\ DOMAIN ms = DOMAIN ns
  BY DEF SamePlan
<1>2. ms = <<>> <=> ns = <<>>
  BY <1>1
<1>3. ASSUME Distinct(ms) PROVE Distinct(ns)
  <2>1. Apart(ns)
    BY <1>3 DEF SamePlan, Distinct, Apart
  <2>2. ASSUME NEW i \in DOMAIN ns PROVE Apart(ns[i].assets)
    BY <1>3 DEF SamePlan, Distinct, Apart
  <2>3. \A i, j \in DOMAIN ns : i # j => ns[i].name # ns[j].name
    BY <1>3 DEF SamePlan, Distinct
  <2>. QED
    BY <2>1, <2>2, <2>3 DEF Distinct
<1>. QED
  BY <1>1, <1>2, <1>3 DEF SamePlan

\* The same addresses are current ones, also when more has been kept.
LEMMA SameCurrent ==
  ASSUME NEW ms, NEW ns, NEW known, NEW more, known \subseteq more,
         SamePlan(ms, ns), PlanCurrent(ms, known),
         \A i \in DOMAIN ms : \A k \in DOMAIN ms[i].assets :
           ns[i].assets[k].addr = ms[i].assets[k].addr
  PROVE  PlanCurrent(ns, more)
<1>1. ASSUME NEW i \in DOMAIN ns, NEW k \in DOMAIN ns[i].assets
      PROVE  Current(ns[i].assets[k], ns[i].name, more)
  <2>1. i \in DOMAIN ms /\ k \in DOMAIN ms[i].assets /\ ns[i].name = ms[i].name
    BY DEF SamePlan
  <2>2. ns[i].assets[k].id = ms[i].assets[k].id /\ ns[i].assets[k].addr = ms[i].assets[k].addr
    BY <2>1 DEF SamePlan
  <2>3. Current(ms[i].assets[k], ms[i].name, known)
    BY <2>1 DEF PlanCurrent, MarketCurrent
  <2>. QED
    BY <2>1, <2>2, <2>3 DEF Current
<1>. QED
  BY <1>1 DEF PlanCurrent, MarketCurrent

\* So are those of one market, and what was kept is current.
LEMMA StaysCurrent ==
  ASSUME NEW m, NEW known, NEW more, known \subseteq more
  PROVE  /\ MarketCurrent(m, known) => MarketCurrent(m, more)
         /\ (\A k \in DOMAIN m.assets : <<m.assets[k].id, m.assets[k].addr>> \in known)
              => MarketCurrent(m, more)
BY DEF MarketCurrent, Current

\* An asset with the market's preferred address has a current one.
LEMMA NewCurrent ==
  ASSUME loads.addresses = "ok", NEW name \in Names, NEW a, a.addr = PreferredOf(name), NEW known
  PROVE  Current(a, name, known)
<1>1. a.addr = Preferred[name] /\ Preferred[name] \in Addresses \cup {None}
  BY AddressAssumption DEF PreferredOf
<1>. QED
  BY <1>1, RefreshedTyped DEF Current

\* What is loaded is under way or there.
LEMMA LoadsShape ==
  ASSUME loads \in [metadata: Loading, addresses: Loading, materials: Loading]
  PROVE  /\ loads.addresses \in {"loading", "ok"} /\ loads.metadata \in {"loading", "ok"}
         /\ loads.materials \in {"loading", "ok"}
BY DEF Loading

\* A plan that replaces the plan.
LEMMA CommitKeeps ==
  ASSUME PlanInv, NEW ms \in Seq(MarketType(ids)), NEW d, d = draft \/ d = NoDraft, Commit(ms, d),
         Distinct(ms), flow'.managed /\ ~flow'.saved => ms = <<>>,
         d.open /\ d.editing = None => \A i \in DOMAIN ms : ms[i].id # d.market.id,
         ids' = ids, weeks' \in 1 .. MaxWeeks, flow' \in [managed: BOOLEAN, saved: BOOLEAN],
         loads' \in [metadata: Loading, addresses: Loading, materials: Loading],
         loads'.metadata = loads.metadata, loads.addresses = "ok" => loads'.addresses = "ok",
         kept \subseteq kept', loads'.addresses = "ok" => PlanCurrent(ms, kept')
  PROVE  PlanInv'
<1>1. PlanTypeOK /\ CalcInv /\ DistinctInv /\ AddressInv
  BY DEF PlanInv
<1>2. PlanTypeOK'
  <2>1. d \in OpenDraft(ids) \cup {NoDraft}
    BY <1>1 DEF PlanTypeOK
  <2>. QED
    BY <1>1, <2>1, CommittedTyped
<1>3. /\ markets' = ms /\ draft' = d
      /\ calc' = IF ms = <<>> \/ ~CanCalculate THEN Idle ELSE [st |-> "timer", of |-> Lines(ms)]
      /\ dcalc' = IF d.open /\ CanCalculate THEN [st |-> "timer", of |-> DraftOf(d)] ELSE Idle
      /\ summary' = IF ms = <<>> /\ CanCalculate THEN None ELSE summary
  BY DEF Commit, Restart
<1>4. CanCalculate' <=> CanCalculate
  BY DEF CanCalculate
<1>5. /\ d.open \in BOOLEAN /\ d.shown \in BOOLEAN /\ (d.shown => d.open /\ draft.shown)
      /\ d.open => d = draft /\ draft.open
  <2>1. ids \in Nat /\ draft \in OpenDraft(ids) \cup {NoDraft}
    BY <1>1 DEF PlanTypeOK
  <2>2. d \in OpenDraft(ids) \cup {NoDraft}
    BY <2>1
  <2>3. NoDraft.open = FALSE /\ NoDraft.shown = FALSE
    BY DEF NoDraft
  <2>4. \A e \in OpenDraft(ids) : e.open = TRUE /\ e.shown \in BOOLEAN
    BY DEF OpenDraft
  <2>. QED
    BY <2>1, <2>2, <2>3, <2>4
<1>6. CalcInv'
  <2>1. ~CanCalculate' => calc' = Idle /\ dcalc' = Idle /\ summary' = None /\ ~draft'.shown
    BY <1>1, <1>3, <1>4, <1>5 DEF CalcInv
  <2>2. calc' # Idle => calc'.of = Lines(markets') /\ markets' # <<>>
    BY <1>3
  <2>3. dcalc' # Idle => draft'.open /\ dcalc'.of = MarketLines(draft'.market)
    BY <1>3 DEF DraftOf
  <2>4. draft'.shown /\ dcalc' = Idle => draft'.lines = MarketLines(draft'.market)
    BY <1>1, <1>3, <1>5 DEF CalcInv, Idle
  <2>5. SummaryOfThePlan'
    BY <1>3, <1>4 DEF SummaryOfThePlan, Idle
  <2>. QED
    BY <2>1, <2>2, <2>3, <2>4, <2>5 DEF CalcInv
<1>7. DistinctInv'
  BY <1>1, <1>3, <1>5 DEF DistinctInv
<1>8. AddressInv'
  <2>1. loads'.addresses = "ok" => MarketCurrent(d.market, kept') \/ ~d.open
    BY <1>1, <1>5, StaysCurrent DEF AddressInv
  <2>2. loads'.addresses # "ok" /\ d.open => \A k \in DOMAIN d.market.assets :
          <<d.market.assets[k].id, d.market.assets[k].addr>> \in kept'
    BY <1>1, <1>5 DEF AddressInv
  <2>. QED
    BY <1>3, <2>1, <2>2 DEF AddressInv
<1>9. RowsOfEveryLine'
  <2>1. calc' = Idle => summary' = None
    BY <1>1, <1>3 DEF CalcInv, Idle
  <2>. QED
    BY <2>1 DEF RowsOfEveryLine
<1>. QED
  BY <1>2, <1>6, <1>7, <1>8, <1>9 DEF PlanInv

\* A draft that replaces the draft.
LEMMA RedraftKeeps ==
  ASSUME PlanInv, NEW n \in Nat, ids <= n, NEW d \in OpenDraft(n) \cup {NoDraft}, Redraft(d),
         ids' = n, UNCHANGED <<weeks, loads, flow>>, d.shown => draft.shown,
         d.open => /\ Apart(d.market.assets)
                   /\ d.editing # None => d.editing = d.market.id
                   /\ d.editing = None => \A i \in DOMAIN markets : markets[i].id # d.market.id
                   /\ loads.addresses = "ok" => MarketCurrent(d.market, kept)
  PROVE  PlanInv'
<1>1. PlanTypeOK /\ CalcInv /\ DistinctInv /\ AddressInv /\ RowsOfEveryLine
  BY DEF PlanInv
<1>2. PlanTypeOK'
  BY <1>1, RedraftTyped DEF PlanTypeOK
<1>3. /\ draft' = d /\ kept' = kept \cup Early(d)
      /\ dcalc' = IF d.open /\ CanCalculate THEN [st |-> "timer", of |-> DraftOf(d)] ELSE Idle
      /\ UNCHANGED <<markets, calc, stale, summary, failed>>
  BY DEF Redraft
<1>4. CanCalculate' <=> CanCalculate
  BY DEF CanCalculate
<1>5. d.shown => d.open
  BY DraftOpens
<1>6. CalcInv'
  <2>1. ~CanCalculate' => calc' = Idle /\ dcalc' = Idle /\ summary' = None /\ ~draft'.shown
    BY <1>1, <1>3, <1>4 DEF CalcInv
  <2>2. calc' # Idle => calc'.of = Lines(markets') /\ markets' # <<>>
    <3>1. calc # Idle => calc.of = Lines(markets) /\ markets # <<>>
      BY <1>1 DEF CalcInv
    <3>. QED
      BY <1>3, <3>1
  <2>3. dcalc' # Idle => draft'.open /\ dcalc'.of = MarketLines(draft'.market)
    BY <1>3 DEF DraftOf
  <2>4. draft'.shown /\ dcalc' = Idle => draft'.lines = MarketLines(draft'.market)
    BY <1>1, <1>3, <1>5 DEF CalcInv, Idle
  <2>5. SummaryOfThePlan'
    <3>1. SummaryOfThePlan
      BY <1>1 DEF CalcInv
    <3>. QED
      BY <1>3, <1>4, <3>1 DEF SummaryOfThePlan
  <2>. QED
    BY <2>1, <2>2, <2>3, <2>4, <2>5 DEF CalcInv
<1>7. DistinctInv'
  BY <1>1, <1>3 DEF DistinctInv
<1>8. AddressInv'
  <2>1. loads.addresses \in {"loading", "ok"}
    BY <1>1, LoadsShape DEF PlanTypeOK
  <2>2. loads.addresses = "ok" => PlanCurrent(markets, kept')
    BY <1>1, <1>3 DEF AddressInv, PlanCurrent, MarketCurrent, Current
  <2>3. d.open /\ loads.addresses = "ok" => MarketCurrent(d.market, kept')
    BY <1>3, StaysCurrent
  <2>4. d.open /\ loads.addresses # "ok" => \A k \in DOMAIN d.market.assets :
          <<d.market.assets[k].id, d.market.assets[k].addr>> \in kept'
    BY <1>3, <2>1 DEF Early, Addressed, ToSet
  <2>. QED
    BY <1>3, <2>2, <2>3, <2>4 DEF AddressInv
<1>9. RowsOfEveryLine'
  <2>1. RowsReady' <=> RowsReady
    BY DEF RowsReady
  <2>. QED
    BY <1>1, <1>3, <2>1 DEF RowsOfEveryLine, AssetsOf
<1>. QED
  BY <1>2, <1>6, <1>7, <1>8, <1>9 DEF PlanInv

\* A market that replaces the one in the dialog.
LEMMA DraftKeeps ==
  ASSUME PlanInv, draft.open, NEW n \in Nat, ids <= n, NEW m \in MarketType(n),
         UpdateDraftMarket(m),
         ids' = n, UNCHANGED <<weeks, loads, flow>>, m.id = draft.market.id, Apart(m.assets),
         loads.addresses = "ok" => MarketCurrent(m, kept)
  PROVE  PlanInv'
<1>1. ids \in Nat /\ draft \in OpenDraft(ids) /\ DistinctInv
  BY DraftShape DEF PlanInv
<1>2. PICK d \in OpenDraft(n) : d = [draft EXCEPT !.market = m]
  <2>1. 0 .. ids \subseteq 0 .. n
    BY <1>1
  <2>2. [draft EXCEPT !.market = m] \in OpenDraft(n)
    BY <1>1, <2>1 DEF OpenDraft
  <2>. QED
    BY <2>2
<1>3. d.market = m /\ d.editing = draft.editing /\ d.shown = draft.shown
  BY <1>1, <1>2 DEF OpenDraft
<1>4. Redraft(d)
  BY <1>2 DEF UpdateDraftMarket
<1>. QED
  BY <1>1, <1>3, <1>4, RedraftKeeps DEF DistinctInv

\* A step that changes none of them but what is loaded, or the number of weeks.
LEMMA LeftAlone ==
  ASSUME PlanInv, UNCHANGED <<markets, draft, calc, dcalc, summary, failed, ids, flow, kept>>,
         weeks' \in 1 .. MaxWeeks,
         loads' \in [metadata: Loading, addresses: Loading, materials: Loading],
         loads'.metadata = loads.metadata, loads.addresses = "ok" => loads'.addresses = "ok",
         loads'.addresses = "ok" => PlanCurrent(markets, kept),
         loads'.materials = loads.materials \/ RowsOfEveryLine'
  PROVE  PlanInv'
<1>1. PlanTypeOK /\ CalcInv /\ DistinctInv /\ AddressInv /\ RowsOfEveryLine
  BY DEF PlanInv
<1>2. PlanTypeOK' /\ DistinctInv'
  BY <1>1 DEF PlanTypeOK, DistinctInv
<1>3. CalcInv'
  BY <1>1 DEF CalcInv, CanCalculate, SummaryOfThePlan
<1>4. AddressInv'
  BY <1>1, StaysCurrent DEF AddressInv
<1>5. RowsOfEveryLine'
  BY <1>1 DEF RowsOfEveryLine, RowsReady, AssetsOf
<1>. QED
  BY <1>2, <1>3, <1>4, <1>5 DEF PlanInv

\* The initial states.
LEMMA InitKeeps == PlanInit => PlanInv
<1> SUFFICES ASSUME PlanInit PROVE PlanInv
  OBVIOUS
<1>1. PlanTypeOK
  BY InitTyped
<1>2. /\ draft = NoDraft /\ summary = None /\ calc = Idle /\ dcalc = Idle
      /\ loads = [metadata |-> "loading", addresses |-> "loading", materials |-> "loading"]
  BY DEF PlanInit
<1>3. ~draft.open /\ ~draft.shown
  BY <1>2 DEF NoDraft
<1>4. CalcInv /\ AddressInv /\ RowsOfEveryLine
  BY <1>2, <1>3 DEF CalcInv, SummaryOfThePlan, CanCalculate, AddressInv, RowsOfEveryLine,
     RowsReady
<1>5. DistinctInv
  <2>1. Distinct(<<>>)
    BY DEF Distinct, Apart
  <2>2. Distinct(markets)
    BY <2>1, StoredAssumption DEF PlanInit
  <2>3. flow.managed /\ ~flow.saved => markets = <<>>
    BY DEF PlanInit
  <2>. QED
    BY <1>3, <2>2, <2>3 DEF DistinctInv
<1>. QED
  BY <1>1, <1>4, <1>5 DEF PlanInv

\* The types after a step of the two calculations.
LEMMA CalculationsTyped ==
  ASSUME PlanTypeOK,
         CalcFires \/ CalcAnswered \/ CalcFails \/ DraftFires \/ DraftAnswered \/ DraftFails
         \/ (\E c \in stale : StaleAnswered(c)) \/ UNCHANGED vars,
         dcalc # Idle => draft.open
  PROVE  PlanTypeOK'
<1>1. CASE CalcFires
  BY <1>1, CalculationShape DEF CalcFires, PlanTypeOK
<1>2. CASE CalcAnswered
  <2>1. calc.of \in SUBSET Line
    BY CalculationShape DEF PlanTypeOK
  <2>. QED
    BY <1>2, <2>1, ShownTyped DEF CalcAnswered, PlanTypeOK
<1>3. CASE CalcFails
  BY <1>3, IdleTyped DEF CalcFails, PlanTypeOK
<1>4. CASE DraftFires
  BY <1>4, CalculationShape DEF DraftFires, PlanTypeOK
<1>5. CASE DraftAnswered
  <2>1. dcalc.of \in SUBSET Line /\ dcalc # Idle
    BY <1>5, CalculationShape, IdleTyped DEF PlanTypeOK, DraftAnswered
  <2>2. draft \in OpenDraft(ids)
    BY <2>1, DraftShape
  <2>3. (draft.market.name \in Names) = TRUE
    BY <2>1, DraftShape
  <2>4. draft' = [draft EXCEPT !.lines = dcalc.of, !.shown = TRUE]
    BY <1>5, <2>3 DEF DraftAnswered
  <2>5. draft' \in OpenDraft(ids)
    BY <2>1, <2>2, <2>4 DEF OpenDraft
  <2>. QED
    BY <1>5, <2>5, IdleTyped DEF DraftAnswered, PlanTypeOK
<1>6. CASE DraftFails
  <2>1. draft \in OpenDraft(ids)
    BY <1>6, IdleTyped, DraftShape DEF DraftFails
  <2>2. draft' = [draft EXCEPT !.lines = {}, !.shown = FALSE]
    BY <1>6 DEF DraftFails
  <2>3. draft' \in OpenDraft(ids)
    BY <2>1, <2>2 DEF OpenDraft
  <2>. QED
    BY <1>6, <2>3, IdleTyped DEF DraftFails, PlanTypeOK
<1>7. CASE \E c \in stale : StaleAnswered(c)
  BY <1>7 DEF StaleAnswered, PlanTypeOK
<1>8. CASE UNCHANGED vars
  BY <1>8 DEF vars, PlanTypeOK
<1>. QED
  BY <1>1, <1>2, <1>3, <1>4, <1>5, <1>6, <1>7, <1>8

\* The summary that is shown is of the plan, and the rows that come with it leave
\* its ids, names and addresses alone.
LEMMA ShownKeeps ==
  ASSUME PlanInv, CalcAnswered
  PROVE  PlanInv'
<1>1. PlanTypeOK /\ CalcInv /\ DistinctInv /\ AddressInv
  BY DEF PlanInv
<1>2. /\ ids \in Nat /\ markets \in Seq(MarketType(ids))
         /\ draft \in OpenDraft(ids) \cup {NoDraft}
      /\ calc \in Calculation /\ calc # Idle
  BY <1>1 DEF PlanTypeOK, CalcAnswered, Idle
<1>3. calc.of \in SUBSET Line /\ calc.of = Lines(markets) /\ markets # <<>>
  BY <1>1, <1>2, CalculationShape DEF CalcInv
<1>4. PICK ms : ms = IF RowsReady THEN WithRows(markets, calc.of) ELSE markets
  OBVIOUS
<1>5. /\ summary' = calc.of /\ failed' = FALSE /\ markets' = ms
      /\ calc' = IF ms = markets THEN Idle ELSE [st |-> "timer", of |-> Lines(ms)]
      /\ dcalc' = IF ms = markets \/ ~draft.open THEN dcalc
                  ELSE [st |-> "timer", of |-> DraftOf(draft)]
      /\ UNCHANGED <<weeks, draft, loads, flow, kept, ids>>
  BY <1>4 DEF CalcAnswered, Shown
<1>6. PlanTypeOK'
  BY <1>1, CalculationsTyped DEF CalcInv
<1>7. /\ ms \in Seq(MarketType(ids)) /\ SamePlan(markets, ms)
      /\ \A i \in DOMAIN markets : \A k \in DOMAIN markets[i].assets :
           ms[i].assets[k].addr = markets[i].assets[k].addr
  <2>1. SamePlan(markets, markets)
    BY DEF SamePlan
  <2>2. CASE RowsReady
    BY <1>2, <1>3, <1>4, <2>2, RowsFilled
  <2>3. CASE ~RowsReady
    BY <1>2, <1>4, <2>1, <2>3
  <2>. QED
    BY <2>2, <2>3
<1>8. Distinct(ms) /\ ms # <<>>
      /\ \A x : (\A i \in DOMAIN markets : markets[i].id # x) => \A i \in DOMAIN ms : ms[i].id # x
  BY <1>1, <1>2, <1>3, <1>7, SameDistinct DEF DistinctInv
<1>9. CalcInv'
  <2>0. CanCalculate' /\ CanCalculate
    BY <1>1, <1>2, <1>5 DEF CalcInv, CanCalculate
  <2>1. calc' # Idle => calc'.of = Lines(markets') /\ markets' # <<>>
    BY <1>5, <1>8
  <2>2. dcalc' # Idle => draft'.open /\ dcalc'.of = MarketLines(draft'.market)
    <3>1. dcalc # Idle => draft.open /\ dcalc.of = MarketLines(draft.market)
      BY <1>1 DEF CalcInv
    <3>. QED
      BY <1>5, <3>1 DEF DraftOf
  <2>3. draft'.shown /\ dcalc' = Idle => draft'.lines = MarketLines(draft'.market)
    BY <1>1, <1>5 DEF CalcInv, Idle
  <2>4. SummaryOfThePlan'
    BY <1>3, <1>5 DEF SummaryOfThePlan, Idle
  <2>. QED
    BY <2>0, <2>1, <2>2, <2>3, <2>4 DEF CalcInv
<1>10. DistinctInv'
  BY <1>1, <1>5, <1>3, <1>8 DEF DistinctInv
<1>11. AddressInv'
  <2>1. loads.addresses = "ok" => PlanCurrent(ms, kept)
    BY <1>1, <1>7, SameCurrent DEF AddressInv
  <2>. QED
    BY <1>1, <1>5, <2>1 DEF AddressInv
<1>12. RowsOfEveryLine'
  <2> SUFFICES ASSUME calc' = Idle, RowsReady'
               PROVE  \A a \in AssetsOf(markets') :
                        (a.id \in LineIds(summary') /\ Quantity(summary', a.id) > 0)
                          => a.rows # None
    BY DEF RowsOfEveryLine
  <2>1. RowsReady /\ ms = markets /\ WithRows(markets, calc.of) = markets
    BY <1>4, <1>5 DEF RowsReady, Idle
  <2>2. \A i \in DOMAIN markets : \A k \in DOMAIN markets[i].assets :
          LET a == markets[i].assets[k]
          IN (a.id \in LineIds(calc.of) /\ Quantity(calc.of, a.id) > 0) => a.rows # None
    BY <1>2, <1>3, <2>1, RowsFilled
  <2>. QED
    BY <1>5, <2>1, <2>2 DEF AssetsOf, ToSet
<1>. QED
  BY <1>6, <1>9, <1>10, <1>11, <1>12 DEF PlanInv

\* The steps of the two calculations keep the invariant.
LEMMA CalculationsKeep ==
  ASSUME PlanInv,
         CalcFires \/ CalcAnswered \/ CalcFails \/ DraftFires \/ DraftAnswered \/ DraftFails
         \/ (\E c \in stale : StaleAnswered(c)) \/ UNCHANGED vars
  PROVE  PlanInv'
<1>1. PlanTypeOK /\ CalcInv /\ DistinctInv /\ AddressInv /\ RowsOfEveryLine
  BY DEF PlanInv
<1>2. PlanTypeOK'
  BY <1>1, CalculationsTyped DEF CalcInv
<1>3. calc \in Calculation /\ dcalc \in Calculation /\ draft \in OpenDraft(ids) \cup {NoDraft}
  BY <1>1 DEF PlanTypeOK
<1>4. ASSUME UNCHANGED <<markets, loads, flow, kept>>, draft'.open <=> draft.open,
             draft'.market = draft.market, draft'.editing = draft.editing
      PROVE  DistinctInv' /\ AddressInv'
  BY <1>1, <1>4 DEF DistinctInv, AddressInv
<1>5. ASSUME UNCHANGED <<markets, loads, summary>>,
             calc' # Idle \/ failed' \/ (calc' = calc /\ failed' = failed)
      PROVE  RowsOfEveryLine' /\ SummaryOfThePlan'
  BY <1>1, <1>5 DEF RowsOfEveryLine, CalcInv, SummaryOfThePlan, CanCalculate, RowsReady, AssetsOf
<1>6. CASE CalcFires
  <2>1. calc # Idle /\ calc' # Idle /\ calc'.of = calc.of
    BY <1>3, <1>6, CalculationShape DEF CalcFires, Idle, Calculation
  <2>2. UNCHANGED <<markets, draft, summary, dcalc, loads, flow, kept>>
    BY <1>6 DEF CalcFires
  <2>3. CalcInv'
    BY <1>1, <1>5, <2>1, <2>2 DEF CalcInv, CanCalculate
  <2>. QED
    BY <1>2, <1>4, <1>5, <2>1, <2>2, <2>3 DEF PlanInv
<1>7. CASE CalcAnswered
  BY <1>7, ShownKeeps
<1>8. CASE CalcFails
  <2>1. calc' = Idle /\ failed' /\ UNCHANGED <<markets, draft, summary, dcalc, loads, flow, kept>>
    BY <1>8 DEF CalcFails
  <2>2. CalcInv'
    BY <1>1, <1>5, <2>1 DEF CalcInv, CanCalculate
  <2>. QED
    BY <1>2, <1>4, <1>5, <2>1, <2>2 DEF PlanInv
<1>9. CASE DraftFires
  <2>1. dcalc # Idle /\ dcalc' # Idle /\ dcalc'.of = dcalc.of
    BY <1>3, <1>9, CalculationShape DEF DraftFires, Idle, Calculation
  <2>2. UNCHANGED <<markets, draft, summary, calc, loads, flow, kept, failed>>
    BY <1>9 DEF DraftFires
  <2>3. CalcInv'
    BY <1>1, <1>5, <2>1, <2>2 DEF CalcInv, CanCalculate
  <2>. QED
    BY <1>2, <1>4, <1>5, <2>2, <2>3 DEF PlanInv
<1>10. CASE DraftAnswered
  <2>1. dcalc # Idle
    BY <1>10 DEF DraftAnswered, Idle
  <2>2. draft.open /\ dcalc.of = MarketLines(draft.market) /\ CanCalculate
    BY <1>1, <2>1 DEF CalcInv
  <2>3. draft \in OpenDraft(ids)
    BY <1>1, <2>2, DraftShape
  <2>4. /\ draft'.open = draft.open /\ draft'.market = draft.market
           /\ draft'.editing = draft.editing
        /\ draft'.lines = MarketLines(draft.market) /\ dcalc' = Idle
    BY <1>10, <2>2, <2>3 DEF DraftAnswered, OpenDraft
  <2>5. UNCHANGED <<markets, summary, calc, loads, flow, kept, failed>>
    BY <1>10 DEF DraftAnswered
  <2>6. CalcInv'
    BY <1>1, <1>5, <2>2, <2>4, <2>5 DEF CalcInv, CanCalculate
  <2>. QED
    BY <1>2, <1>4, <1>5, <2>4, <2>5, <2>6 DEF PlanInv
<1>11. CASE DraftFails
  <2>1. dcalc # Idle
    BY <1>11 DEF DraftFails, Idle
  <2>2. draft.open /\ CanCalculate
    BY <1>1, <2>1 DEF CalcInv
  <2>3. draft \in OpenDraft(ids)
    BY <1>1, <2>2, DraftShape
  <2>4. /\ draft'.open = draft.open /\ draft'.market = draft.market
           /\ draft'.editing = draft.editing
        /\ draft'.shown = FALSE /\ dcalc' = Idle
    BY <1>11, <2>3 DEF DraftFails, OpenDraft
  <2>5. UNCHANGED <<markets, summary, calc, loads, flow, kept, failed>>
    BY <1>11 DEF DraftFails
  <2>6. CalcInv'
    BY <1>1, <1>5, <2>2, <2>4, <2>5 DEF CalcInv, CanCalculate
  <2>. QED
    BY <1>2, <1>4, <1>5, <2>4, <2>5, <2>6 DEF PlanInv
<1>12. CASE (\E c \in stale : StaleAnswered(c)) \/ UNCHANGED vars
  <2>1. UNCHANGED <<weeks, markets, draft, calc, dcalc, summary, failed, ids, flow, kept, loads>>
    BY <1>12 DEF StaleAnswered, vars
  <2>. QED
    BY <1>1, <2>1, LeftAlone DEF AddressInv, PlanTypeOK
<1>. QED
  BY <1>6, <1>7, <1>8, <1>9, <1>10, <1>11, <1>12

\* Rewriting twice leaves ids and names what they were.
LEMMA SamePlanAgain ==
  ASSUME NEW ms, NEW as, NEW ns, SamePlan(ms, as), SamePlan(as, ns)
  PROVE  SamePlan(ms, ns)
<1>1. DOMAIN ns = DOMAIN ms /\ DOMAIN as = DOMAIN ms
  BY DEF SamePlan
<1>2. ASSUME NEW i \in DOMAIN ms
      PROVE  /\ ns[i].id = ms[i].id /\ ns[i].name = ms[i].name
             /\ DOMAIN ns[i].assets = DOMAIN ms[i].assets
             /\ \A k \in DOMAIN ms[i].assets : ns[i].assets[k].id = ms[i].assets[k].id
  <2>1. /\ as[i].id = ms[i].id /\ as[i].name = ms[i].name
        /\ DOMAIN as[i].assets = DOMAIN ms[i].assets
        /\ \A k \in DOMAIN ms[i].assets : as[i].assets[k].id = ms[i].assets[k].id
    BY DEF SamePlan
  <2>2. /\ ns[i].id = as[i].id /\ ns[i].name = as[i].name
        /\ DOMAIN ns[i].assets = DOMAIN as[i].assets
        /\ \A k \in DOMAIN as[i].assets : ns[i].assets[k].id = as[i].assets[k].id
    BY <1>1 DEF SamePlan
  <2>. QED
    BY <2>1, <2>2
<1>. QED
  BY <1>1, <1>2 DEF SamePlan

\* The plan the address list leaves is current.
LEMMA ListApplied ==
  ASSUME NEW n \in Nat, NEW ms \in Seq(MarketType(n)), NEW known
  PROVE  /\ WithLatest(WithAddresses(ms)) \in Seq(MarketType(n))
         /\ SamePlan(ms, WithLatest(WithAddresses(ms)))
         /\ PlanCurrent(WithLatest(WithAddresses(ms)), known)
<1>1. PICK as : as = WithAddresses(ms)
  OBVIOUS
<1>2. PICK ns : ns = WithLatest(as)
  OBVIOUS
<1>3. /\ as \in Seq(MarketType(n)) /\ SamePlan(ms, as)
      /\ \A i \in DOMAIN ms : \A k \in DOMAIN ms[i].assets :
           as[i].assets[k].addr
             = IF ms[i].assets[k].addr = None THEN Preferred[ms[i].name] ELSE ms[i].assets[k].addr
  BY <1>1, AddressesFilled
<1>4. /\ ns \in Seq(MarketType(n)) /\ SamePlan(as, ns)
      /\ \A i \in DOMAIN as : \A k \in DOMAIN as[i].assets :
           ns[i].assets[k].addr = Refreshed(as[i].name, as[i].assets[k].addr)
  BY <1>2, <1>3, AddressesRefreshed
<1>5. SamePlan(ms, ns)
  BY <1>3, <1>4, SamePlanAgain
<1>6. ASSUME NEW i \in DOMAIN ns, NEW k \in DOMAIN ns[i].assets
      PROVE  Current(ns[i].assets[k], ns[i].name, known)
  <2>1. /\ i \in DOMAIN as /\ k \in DOMAIN as[i].assets /\ ns[i].name = as[i].name
        /\ i \in DOMAIN ms /\ k \in DOMAIN ms[i].assets /\ as[i].name = ms[i].name
    BY <1>3, <1>4 DEF SamePlan
  <2>2. PICK name \in Names : name = ns[i].name
    <3>1. ns[i].name \in Names
      BY <1>4, PlanShape DEF MarketType
    <3>. QED
      BY <3>1
  <2>3. PICK addr \in Addresses \cup {None} : addr = as[i].assets[k].addr
    <3>1. as[i].assets[k].addr \in Addresses \cup {None}
      BY <1>3, <2>1, PlanShape DEF AssetType
    <3>. QED
      BY <3>1
  <2>4. ns[i].assets[k].addr = Refreshed(name, addr) /\ (addr = None => Preferred[name] = None)
    BY <1>3, <1>4, <2>1, <2>2, <2>3
  <2>. QED
    BY <2>2, <2>4, RefreshedTyped DEF Current
<1>. QED
  BY <1>1, <1>2, <1>4, <1>5, <1>6 DEF PlanCurrent, MarketCurrent

\* What the editor loads by itself keeps the invariant, in whatever order it comes.
LEMMA LoadsKeep ==
  ASSUME PlanInv, LoadMetadata \/ LoadAddresses \/ LoadMaterials
  PROVE  PlanInv'
<1>1. /\ PlanTypeOK /\ CalcInv /\ DistinctInv /\ AddressInv /\ RowsOfEveryLine
      /\ ids \in Nat /\ markets \in Seq(MarketType(ids))
         /\ draft \in OpenDraft(ids) \cup {NoDraft}
      /\ loads \in [metadata: Loading, addresses: Loading, materials: Loading]
      /\ summary \in (SUBSET Line) \cup {None} /\ weeks \in 1 .. MaxWeeks
      /\ flow \in [managed: BOOLEAN, saved: BOOLEAN]
  BY DEF PlanInv, PlanTypeOK
<1>2. CASE LoadMetadata
  <2>1. /\ loads' \in [metadata: Loading, addresses: Loading, materials: Loading]
        /\ loads'.addresses = loads.addresses /\ loads'.materials = loads.materials
        /\ loads'.metadata = "ok" /\ ~CanCalculate
    BY <1>1, <1>2 DEF LoadMetadata, Loading, CanCalculate
  <2>2. Lines(markets) \in SUBSET Line
    BY <1>1, LinesTyped
  <2>3. calc' \in Calculation
    BY <1>2, <2>2, TimerTyped, IdleTyped DEF LoadMetadata
  <2>4. dcalc' \in Calculation
    <3>1. draft.open => DraftOf(draft) \in SUBSET Line
      BY <1>1, DraftOpens DEF DraftOf
    <3>. QED
      BY <1>2, <3>1, TimerTyped, IdleTyped DEF LoadMetadata
  <2>5. PlanTypeOK'
    BY <1>1, <1>2, <2>1, <2>3, <2>4 DEF LoadMetadata, PlanTypeOK
  <2>6. /\ UNCHANGED <<markets, draft, summary, flow, kept>> /\ summary = None /\ ~draft.shown
        /\ calc' = IF markets = <<>> THEN Idle ELSE [st |-> "timer", of |-> Lines(markets)]
        /\ dcalc' = IF draft.open THEN [st |-> "timer", of |-> DraftOf(draft)] ELSE Idle
    BY <1>1, <1>2, <2>1 DEF LoadMetadata, CalcInv
  <2>7. CalcInv'
    <3>1. CanCalculate'
      BY <2>1 DEF CanCalculate
    <3>2. SummaryOfThePlan'
      BY <2>6 DEF SummaryOfThePlan, Idle
    <3>. QED
      BY <2>6, <3>1, <3>2 DEF CalcInv, DraftOf
  <2>8. DistinctInv' /\ AddressInv'
    BY <1>1, <2>1, <2>6 DEF DistinctInv, AddressInv
  <2>9. RowsOfEveryLine'
    BY <2>6 DEF RowsOfEveryLine
  <2>. QED
    BY <2>5, <2>7, <2>8, <2>9 DEF PlanInv
<1>3. CASE LoadAddresses
  <2>1. /\ loads' \in [metadata: Loading, addresses: Loading, materials: Loading]
        /\ loads'.addresses = "ok" /\ loads'.materials = loads.materials
        /\ loads'.metadata = loads.metadata
    BY <1>1, <1>3 DEF LoadAddresses, Loading
  <2>2. PICK ms \in Seq(MarketType(ids)) :
          /\ ms = WithLatest(WithAddresses(markets)) /\ SamePlan(markets, ms)
             /\ PlanCurrent(ms, kept)
    BY <1>1, ListApplied
  <2>3. UNCHANGED <<weeks, flow, kept, ids>>
    BY <1>3 DEF LoadAddresses
  <2>4. CASE ms = markets
    <3>1. UNCHANGED <<markets, draft, calc, dcalc, summary, failed>>
      BY <1>3, <2>2, <2>4 DEF LoadAddresses
    <3>. QED
      BY <1>1, <2>1, <2>2, <2>3, <2>4, <3>1, LeftAlone
  <2>5. CASE ms # markets
    <3>1. Commit(ms, draft)
      BY <1>3, <2>2, <2>5 DEF LoadAddresses
    <3>2. /\ Distinct(ms)
          /\ flow'.managed /\ ~flow'.saved => ms = <<>>
          /\ draft.open /\ draft.editing = None => \A i \in DOMAIN ms : ms[i].id # draft.market.id
      <4>1. Distinct(ms)
        BY <1>1, <2>2, SameDistinct DEF DistinctInv
      <4>2. flow'.managed /\ ~flow'.saved => ms = <<>>
        BY <1>1, <2>2, <2>3, SameDistinct DEF DistinctInv
      <4>3. draft.open /\ draft.editing = None =>
              \A i \in DOMAIN ms : ms[i].id # draft.market.id
        <5>1. draft.open /\ draft.editing = None =>
                \A i \in DOMAIN markets : markets[i].id # draft.market.id
          BY <1>1 DEF DistinctInv
        <5>2. \A i \in DOMAIN ms : i \in DOMAIN markets /\ ms[i].id = markets[i].id
          BY <2>2 DEF SamePlan
        <5>. QED
          BY <5>1, <5>2
      <4>. QED
        BY <4>1, <4>2, <4>3
    <3>3. weeks' \in 1 .. MaxWeeks /\ flow' \in [managed: BOOLEAN, saved: BOOLEAN]
      BY <1>1, <2>3
    <3>4. PICK d : d = draft
      OBVIOUS
    <3>. QED
      BY <2>1, <2>2, <2>3, <3>1, <3>2, <3>3, <3>4, CommitKeeps
  <2>. QED
    BY <2>4, <2>5
<1>4. CASE LoadMaterials
  <2>1. /\ loads' \in [metadata: Loading, addresses: Loading, materials: Loading]
        /\ loads'.addresses = loads.addresses /\ loads'.metadata = loads.metadata
    BY <1>1, <1>4 DEF LoadMaterials, Loading
  <2>2. PICK ms \in Seq(MarketType(ids)) :
          /\ ms = IF summary = None THEN markets ELSE WithRows(markets, summary)
          /\ SamePlan(markets, ms)
          /\ \A i \in DOMAIN markets : \A k \in DOMAIN markets[i].assets :
               ms[i].assets[k].addr = markets[i].assets[k].addr
    <3>1. CASE summary = None
      BY <1>1, <3>1 DEF SamePlan
    <3>2. CASE summary # None
      BY <1>1, <3>2, RowsFilled
    <3>. QED
      BY <3>1, <3>2
  <2>3. UNCHANGED <<weeks, flow, kept, ids>>
    BY <1>4 DEF LoadMaterials
  <2>4. loads.addresses = "ok" => PlanCurrent(ms, kept)
    BY <1>1, <2>2, SameCurrent DEF AddressInv
  <2>5. CASE ms = markets
    <3>1. UNCHANGED <<markets, draft, calc, dcalc, summary, failed>>
      BY <1>4, <2>2, <2>5 DEF LoadMaterials
    <3>2. RowsOfEveryLine'
      <4> SUFFICES ASSUME summary # None
                   PROVE  \A a \in AssetsOf(markets) :
                            (a.id \in LineIds(summary) /\ Quantity(summary, a.id) > 0)
                              => a.rows # None
        BY <3>1 DEF RowsOfEveryLine
      <4>1. \A i \in DOMAIN markets : \A k \in DOMAIN markets[i].assets :
              LET a == markets[i].assets[k]
              IN (a.id \in LineIds(summary) /\ Quantity(summary, a.id) > 0) => a.rows # None
        <5>1. PICK ls \in SUBSET Line : ls = summary
          BY <1>1
        <5>2. WithRows(markets, ls) = markets
          BY <2>2, <2>5, <5>1
        <5>. QED
          BY <1>1, <5>1, <5>2, RowsFilled
      <4>. QED
        BY <4>1 DEF AssetsOf, ToSet
    <3>. QED
      BY <1>1, <2>1, <2>3, <2>4, <2>5, <3>1, <3>2, LeftAlone
  <2>6. CASE ms # markets
    <3>1. Commit(ms, draft)
      BY <1>4, <2>2, <2>6 DEF LoadMaterials
    <3>2. /\ Distinct(ms)
          /\ flow'.managed /\ ~flow'.saved => ms = <<>>
          /\ draft.open /\ draft.editing = None => \A i \in DOMAIN ms : ms[i].id # draft.market.id
      <4>1. Distinct(ms)
        BY <1>1, <2>2, SameDistinct DEF DistinctInv
      <4>2. flow'.managed /\ ~flow'.saved => ms = <<>>
        BY <1>1, <2>2, <2>3, SameDistinct DEF DistinctInv
      <4>3. draft.open /\ draft.editing = None =>
              \A i \in DOMAIN ms : ms[i].id # draft.market.id
        <5>1. draft.open /\ draft.editing = None =>
                \A i \in DOMAIN markets : markets[i].id # draft.market.id
          BY <1>1 DEF DistinctInv
        <5>2. \A i \in DOMAIN ms : i \in DOMAIN markets /\ ms[i].id = markets[i].id
          BY <2>2 DEF SamePlan
        <5>. QED
          BY <5>1, <5>2
      <4>. QED
        BY <4>1, <4>2, <4>3
    <3>3. weeks' \in 1 .. MaxWeeks /\ flow' \in [managed: BOOLEAN, saved: BOOLEAN]
      BY <1>1, <2>3
    <3>4. PICK d : d = draft
      OBVIOUS
    <3>. QED
      BY <2>1, <2>2, <2>3, <2>4, <3>1, <3>2, <3>3, <3>4, CommitKeeps
  <2>. QED
    BY <2>5, <2>6
<1>. QED
  BY <1>2, <1>3, <1>4

\* The type of a new asset.
LEMMA NewAssetTyped ==
  ASSUME NEW n \in Nat, NEW id \in 0 .. n, NEW asset \in AllAssets \cup {None}, NEW name \in Names
  PROVE  /\ NewAsset(id, asset, name) \in AssetType(n) /\ NewAsset(id, asset, name).id = id
         /\ NewAsset(id, asset, name).addr = PreferredOf(name)
<1>1. PreferredOf(name) \in Addresses \cup {None}
  BY AddressAssumption DEF PreferredOf
<1>. QED
  BY <1>1 DEF NewAsset, AssetType

\* The assets of the dialog after frames were typed for one of them.
OverridesOf(k, f) ==
  [j \in DOMAIN draft.market.assets |->
     IF j = k THEN [draft.market.assets[j] EXCEPT !.over = f * Divisor]
     ELSE IF draft.market.over # None /\ draft.market.assets[j].id \in LineIds(draft.lines)
          THEN [draft.market.assets[j] EXCEPT
                  !.over = Quantity(draft.lines, draft.market.assets[j].id)]
     ELSE draft.market.assets[j]]

\* What that changes: the counts, and only they.
LEMMA OverridesTyped ==
  ASSUME PlanTypeOK, draft.open, NEW k, NEW f \in 0 .. 1
  PROVE  /\ OverridesOf(k, f) \in Seq(AssetType(ids))
         /\ DOMAIN OverridesOf(k, f) = DOMAIN draft.market.assets
         /\ \A j \in DOMAIN draft.market.assets :
              LET a == draft.market.assets[j]
                  b == OverridesOf(k, f)[j]
              IN /\ b.id = a.id /\ b.addr = a.addr /\ b.asset = a.asset /\ b.weeks = a.weeks
                 /\ b.over = IF j = k THEN f * Divisor
                             ELSE IF draft.market.over # None /\ a.id \in LineIds(draft.lines)
                                  THEN Quantity(draft.lines, a.id) ELSE a.over
<1>1. PICK as \in Seq(AssetType(ids)) : as = draft.market.assets
  BY DraftShape
<1>2. draft.lines \in SUBSET Line
  BY DraftShape DEF OpenDraft
<1>3. ASSUME NEW j \in DOMAIN as
      PROVE  /\ OverridesOf(k, f)[j] \in AssetType(ids)
             /\ OverridesOf(k, f)[j].id = as[j].id /\ OverridesOf(k, f)[j].addr = as[j].addr
             /\ OverridesOf(k, f)[j].asset = as[j].asset
                /\ OverridesOf(k, f)[j].weeks = as[j].weeks
             /\ OverridesOf(k, f)[j].over =
                  IF j = k THEN f * Divisor
                  ELSE IF draft.market.over # None /\ as[j].id \in LineIds(draft.lines)
                       THEN Quantity(draft.lines, as[j].id) ELSE as[j].over
  <2>1. PICK a \in AssetType(ids) : a = as[j]
    <3>1. as[j] \in AssetType(ids)
      BY <1>1
    <3>. QED
      BY <3>1
  <2>2. ASSUME NEW q \in Nat
        PROVE  /\ [a EXCEPT !.over = q] \in AssetType(ids) /\ [a EXCEPT !.over = q].over = q
               /\ [a EXCEPT !.over = q].id = a.id /\ [a EXCEPT !.over = q].addr = a.addr
               /\ [a EXCEPT !.over = q].asset = a.asset /\ [a EXCEPT !.over = q].weeks = a.weeks
    BY DEF AssetType
  <2>3. CASE j = k
    <3>1. f * Divisor \in Nat
      BY PlanAssumption
    <3>2. OverridesOf(k, f)[j] = [a EXCEPT !.over = f * Divisor]
      BY <1>1, <2>1, <2>3 DEF OverridesOf
    <3>. QED
      BY <2>1, <2>2, <2>3, <3>1, <3>2
  <2>4. CASE j # k /\ draft.market.over # None /\ a.id \in LineIds(draft.lines)
    <3>1. Quantity(draft.lines, a.id) \in Nat
      BY <1>2, <2>4, QuantityTyped
    <3>2. OverridesOf(k, f)[j] = [a EXCEPT !.over = Quantity(draft.lines, a.id)]
      BY <1>1, <2>1, <2>4 DEF OverridesOf
    <3>. QED
      BY <2>1, <2>2, <2>4, <3>1, <3>2
  <2>5. CASE j # k /\ ~(draft.market.over # None /\ a.id \in LineIds(draft.lines))
    <3>1. OverridesOf(k, f)[j] = a
      BY <1>1, <2>1, <2>5 DEF OverridesOf
    <3>. QED
      BY <2>1, <2>5, <3>1
  <2>. QED
    BY <2>1, <2>3, <2>4, <2>5
<1>4. OverridesOf(k, f) \in Seq(AssetType(ids)) /\ DOMAIN OverridesOf(k, f) = DOMAIN as
  <2>1. DOMAIN as = 1 .. Len(as) /\ Len(as) \in Nat
    BY <1>1
  <2>2. OverridesOf(k, f) = [j \in DOMAIN as |-> OverridesOf(k, f)[j]]
    BY <1>1 DEF OverridesOf
  <2>3. OverridesOf(k, f) \in [1 .. Len(as) -> AssetType(ids)]
    BY <1>3, <2>1, <2>2
  <2>. QED
    BY <2>1, <2>3, FunctionIsSequence
<1>. QED
  BY <1>1, <1>3, <1>4

\* Opening the dialog keeps the invariant: a new market and its first asset get
\* ids that nothing has.
LEMMA OpenKeeps ==
  ASSUME PlanInv, OpenAddMarketDialog \/ \E i \in DOMAIN markets : OpenEditMarketDialog(i)
  PROVE  PlanInv'
<1>1. /\ ids \in Nat /\ markets \in Seq(MarketType(ids)) /\ DistinctInv /\ AddressInv
      /\ \A i \in DOMAIN markets : markets[i] \in MarketType(ids) /\ markets[i].id \in 0 .. ids
  <2>1. ids \in Nat /\ markets \in Seq(MarketType(ids)) /\ DistinctInv /\ AddressInv
    BY DEF PlanInv, PlanTypeOK
  <2>2. ASSUME NEW i \in DOMAIN markets
        PROVE  markets[i] \in MarketType(ids) /\ markets[i].id \in 0 .. ids
    BY <2>1, PlanShape DEF MarketType
  <2>. QED
    BY <2>1, <2>2
<1>2. CASE OpenAddMarketDialog
  <2>1. PICK n \in Names :
          Redraft([open |-> TRUE, editing |-> None, lines |-> {}, shown |-> FALSE,
                   market |-> [id |-> ids + 1, name |-> n, over |-> None,
                               assets |-> <<NewAsset(ids + 2, None, n)>>]])
    BY <1>2 DEF OpenAddMarketDialog, Remaining
  <2>2. PICK a \in AssetType(ids + 2) : a = NewAsset(ids + 2, None, n) /\ a.addr = PreferredOf(n)
    <3>1. ids + 2 \in Nat /\ ids + 2 \in 0 .. ids + 2
      BY <1>1
    <3>2. NewAsset(ids + 2, None, n) \in AssetType(ids + 2)
          /\ NewAsset(ids + 2, None, n).addr = PreferredOf(n)
      BY <3>1, NewAssetTyped
    <3>. QED
      BY <3>2
  <2>3. PICK s \in Seq(AssetType(ids + 2)) : s = <<a>>
    <3>1. <<a>> \in Seq(AssetType(ids + 2))
      OBVIOUS
    <3>. QED
      BY <3>1
  <2>4. DOMAIN s = {1} /\ s[1] = a
    BY <2>3
  <2>5. PICK m \in MarketType(ids + 2) :
          m = [id |-> ids + 1, name |-> n, over |-> None, assets |-> s]
    <3>1. ids + 1 \in 0 .. ids + 2
      BY <1>1
    <3>2. [id |-> ids + 1, name |-> n, over |-> None, assets |-> s] \in MarketType(ids + 2)
      BY <3>1 DEF MarketType
    <3>. QED
      BY <3>2
  <2>6. PICK d \in OpenDraft(ids + 2) :
          d = [open |-> TRUE, editing |-> None, lines |-> {}, shown |-> FALSE, market |-> m]
    BY DEF OpenDraft
  <2>7. Redraft(d)
    BY <2>1, <2>2, <2>3, <2>5, <2>6
  <2>8. d.market = m /\ d.editing = None /\ d.shown = FALSE /\ m.assets = s /\ m.name = n
        /\ m.id = ids + 1
    BY <2>5, <2>6
  <2>9. Apart(m.assets)
    BY <2>4, <2>8 DEF Apart
  <2>10. \A i \in DOMAIN markets : markets[i].id # ids + 1
    BY <1>1
  <2>11. loads.addresses = "ok" => MarketCurrent(m, kept)
    <3>1. loads.addresses = "ok" => Current(a, n, kept)
      BY <2>2, NewCurrent
    <3>. QED
      BY <2>4, <2>8, <3>1 DEF MarketCurrent
  <2>12. ids + 2 \in Nat /\ ids <= ids + 2 /\ ids' = ids + 2 /\ UNCHANGED <<weeks, loads, flow>>
    BY <1>1, <1>2 DEF OpenAddMarketDialog
  <2>. QED
    BY <2>7, <2>8, <2>9, <2>10, <2>11, <2>12, RedraftKeeps
<1>3. CASE \E i \in DOMAIN markets : OpenEditMarketDialog(i)
  <2>1. PICK i \in DOMAIN markets : OpenEditMarketDialog(i)
    BY <1>3
  <2>2. PICK m \in MarketType(ids) : m = markets[i] /\ m.id \in 0 .. ids
    BY <1>1
  <2>3. PICK d \in OpenDraft(ids) :
          d = [open |-> TRUE, editing |-> m.id, lines |-> {}, shown |-> FALSE, market |-> m]
    BY <2>2 DEF OpenDraft
  <2>4. Redraft(d) /\ ids' = ids /\ UNCHANGED <<weeks, loads, flow>>
    BY <2>1, <2>2, <2>3 DEF OpenEditMarketDialog
  <2>5. d.market = m /\ d.editing = m.id /\ d.shown = FALSE /\ m.id # None
    BY <2>2, <2>3, <1>1, PlanAssumption
  <2>6. Apart(m.assets) /\ (loads.addresses = "ok" => MarketCurrent(m, kept))
    BY <1>1, <2>2 DEF DistinctInv, Distinct, AddressInv, PlanCurrent
  <2>. QED
    BY <1>1, <2>4, <2>5, <2>6, RedraftKeeps
<1>. QED
  BY <1>2, <1>3

\* What the user does in the dialog keeps the invariant.
LEMMA DraftEditsKeep ==
  ASSUME PlanInv,
         \/ AddDraftAsset
         \/ \E n \in Names : DraftMarket(n)
         \/ draft.open /\ \E k \in DOMAIN draft.market.assets :
              \/ DraftAsset(k) \/ ToggleDraftAssetWeek(k) \/ RemoveDraftAsset(k)
              \/ UpdateDraftAssetFrameOverride(k)
              \/ \E j \in DOMAIN draft.market.assets : ReorderDraftAssets(k, j)
  PROVE  PlanInv'
<1>1. draft.open /\ PlanTypeOK
  BY DEF AddDraftAsset, DraftMarket, PlanInv
<1>2. PICK d \in MarketType(ids), as \in Seq(AssetType(ids)) : d = draft.market
      /\ as = draft.market.assets
  BY <1>1, DraftShape
<1>3. /\ ids \in Nat /\ d.name \in Names /\ weeks \in 1 .. MaxWeeks
      /\ \A k \in DOMAIN as : as[k] \in AssetType(ids)
  BY <1>1, <1>2, DraftShape DEF PlanTypeOK
<1>4. Apart(as) /\ (loads.addresses = "ok" => \A k \in DOMAIN as : Current(as[k], d.name, kept))
  BY <1>1, <1>2 DEF PlanInv, DistinctInv, AddressInv, MarketCurrent
<1>5. ASSUME NEW m \in MarketType(ids), UpdateDraftMarket(m),
             UNCHANGED <<weeks, loads, flow, ids>>,
             m.id = d.id, Apart(m.assets), loads.addresses = "ok" => MarketCurrent(m, kept)
      PROVE  PlanInv'
  BY <1>1, <1>2, <1>3, <1>5, DraftKeeps
<1>6. ASSUME NEW s \in Seq(AssetType(ids)), UpdateDraftMarket([d EXCEPT !.assets = s]),
             UNCHANGED <<weeks, loads, flow, ids>>, Apart(s),
             loads.addresses = "ok" => \A k \in DOMAIN s : Current(s[k], d.name, kept)
      PROVE  PlanInv'
  <2>1. PICK m \in MarketType(ids) : m = [d EXCEPT !.assets = s]
    <3>1. [d EXCEPT !.assets = s] \in MarketType(ids)
      BY <1>2 DEF MarketType
    <3>. QED
      BY <3>1
  <2>2. m.id = d.id /\ m.name = d.name /\ m.assets = s
    BY <1>2, <2>1 DEF MarketType
  <2>3. loads.addresses = "ok" => MarketCurrent(m, kept)
    BY <1>6, <2>2 DEF MarketCurrent
  <2>. QED
    BY <1>5, <1>6, <2>1, <2>2, <2>3
<1>7. ASSUME NEW k \in DOMAIN as, NEW a \in AssetType(ids), UpdateDraftAsset(k, a),
             a.id = as[k].id, a.addr = as[k].addr
      PROVE  PlanInv'
  <2>1. PICK s \in Seq(AssetType(ids)) : s = [as EXCEPT ![k] = a]
    <3>1. [as EXCEPT ![k] = a] \in Seq(AssetType(ids))
      BY <1>2
    <3>. QED
      BY <3>1
  <2>2. UpdateDraftMarket([d EXCEPT !.assets = s]) /\ UNCHANGED <<weeks, loads, flow, ids>>
    BY <1>2, <1>7, <2>1 DEF UpdateDraftAsset
  <2>3. DOMAIN s = DOMAIN as /\ \A j \in DOMAIN as : s[j].id = as[j].id /\ s[j].addr = as[j].addr
    <3>1. DOMAIN s = DOMAIN as /\ s[k] = a /\ \A j \in DOMAIN as : j # k => s[j] = as[j]
      BY <1>2, <2>1
    <3>. QED
      BY <1>7, <3>1
  <2>4. Apart(s)
    BY <1>4, <2>3 DEF Apart
  <2>5. loads.addresses = "ok" => \A j \in DOMAIN s : Current(s[j], d.name, kept)
    BY <1>4, <2>3 DEF Current
  <2>. QED
    BY <1>6, <2>2, <2>4, <2>5
<1>8. CASE AddDraftAsset
  <2>1. PICK x \in Catalogue[d.name] :
          UpdateDraftMarket([d EXCEPT !.assets = Append(as, NewAsset(ids + 1, x, d.name))])
    BY <1>2, <1>8 DEF AddDraftAsset
  <2>2. PICK a \in AssetType(ids + 1) :
          a = NewAsset(ids + 1, x, d.name) /\ a.id = ids + 1 /\ a.addr = PreferredOf(d.name)
    <3>1. ids + 1 \in Nat /\ ids + 1 \in 0 .. ids + 1 /\ x \in AllAssets \cup {None}
      BY <1>3, <2>1 DEF AllAssets
    <3>2. /\ NewAsset(ids + 1, x, d.name) \in AssetType(ids + 1)
          /\ NewAsset(ids + 1, x, d.name).id = ids + 1
          /\ NewAsset(ids + 1, x, d.name).addr = PreferredOf(d.name)
      BY <1>3, <3>1, NewAssetTyped
    <3>. QED
      BY <3>2
  <2>3. as \in Seq(AssetType(ids + 1)) /\ d \in MarketType(ids + 1)
    BY <1>2, <1>3, PlanGrows
  <2>4. PICK s \in Seq(AssetType(ids + 1)), len \in Nat : Extends(s, as, a, len)
    BY <2>3, Appended
  <2>5. /\ DOMAIN as = 1 .. len /\ DOMAIN s = 1 .. len + 1
        /\ \A j \in 1 .. len : s[j] = as[j]
        /\ s = Append(as, a) /\ s[len + 1] = a
    BY <2>4 DEF Extends
  <2>6. PICK m \in MarketType(ids + 1) : m = [d EXCEPT !.assets = s]
    <3>1. [d EXCEPT !.assets = s] \in MarketType(ids + 1)
      BY <2>3 DEF MarketType
    <3>. QED
      BY <3>1
  <2>7. UpdateDraftMarket(m) /\ m.id = d.id /\ m.name = d.name /\ m.assets = s
    BY <2>1, <2>2, <2>3, <2>5, <2>6 DEF MarketType
  <2>8. \A j \in DOMAIN as : as[j].id \in 0 .. ids
    BY <1>3 DEF AssetType
  <2>9. Apart(s)
    <3>1. ASSUME NEW j \in DOMAIN as PROVE s[j].id = as[j].id /\ s[j].id # a.id
      <4>1. s[j] = as[j]
        BY <2>5
      <4>2. PICK u \in 0 .. ids : u = as[j].id
        BY <2>8
      <4>3. u # ids + 1
        BY <1>3
      <4>. QED
        BY <2>2, <4>1, <4>2, <4>3
    <3>2. ASSUME NEW i \in DOMAIN s, NEW j \in DOMAIN s, i # j PROVE s[i].id # s[j].id
      <4>1. (i \in DOMAIN as \/ i = len + 1) /\ (j \in DOMAIN as \/ j = len + 1)
        BY <2>5
      <4>. QED
        <5>1. CASE i \in DOMAIN as /\ j \in DOMAIN as
          <6>1. as[i].id # as[j].id
            BY <1>4, <3>2, <5>1 DEF Apart
          <6>. QED
            BY <3>1, <5>1, <6>1
        <5>2. CASE i = len + 1 /\ j \in DOMAIN as
          BY <2>5, <3>1, <5>2
        <5>3. CASE i \in DOMAIN as /\ j = len + 1
          BY <2>5, <3>1, <5>3
        <5>. QED
          BY <3>2, <4>1, <5>1, <5>2, <5>3
    <3>. QED
      BY <3>2 DEF Apart
  <2>10. loads.addresses = "ok" => MarketCurrent(m, kept)
    <3>1. loads.addresses = "ok" => Current(a, d.name, kept)
      BY <1>3, <2>2, NewCurrent
    <3>2. ASSUME NEW j \in DOMAIN s PROVE s[j] = a \/ (j \in DOMAIN as /\ s[j] = as[j])
      <4>1. j \in 1 .. len \/ j = len + 1
        BY <2>5
      <4>. QED
        BY <2>5, <4>1
    <3>. QED
      BY <1>4, <2>7, <3>1, <3>2 DEF MarketCurrent
  <2>11. /\ ids + 1 \in Nat /\ ids <= ids + 1 /\ ids' = ids + 1
            /\ UNCHANGED <<weeks, loads, flow>>
    BY <1>3, <1>8 DEF AddDraftAsset
  <2>. QED
    BY <1>1, <1>2, <2>7, <2>9, <2>10, <2>11, DraftKeeps
<1>9. ASSUME NEW n \in Names, DraftMarket(n) PROVE PlanInv'
  <2>1. UpdateDraftMarket([d EXCEPT !.name = n, !.over = None,
          !.assets = [k \in DOMAIN as |-> [as[k] EXCEPT !.asset = None, !.weeks = {},
                       !.over = None, !.addr = PreferredOf(n)]]])
    BY <1>2, <1>9 DEF DraftMarket
  <2>2. PreferredOf(n) \in Addresses \cup {None}
    BY AddressAssumption DEF PreferredOf
  <2>3. ASSUME NEW k \in DOMAIN as, NEW b,
               b = [as[k] EXCEPT !.asset = None, !.weeks = {}, !.over = None,
                                 !.addr = PreferredOf(n)]
        PROVE  b \in AssetType(ids) /\ b.id = as[k].id /\ b.addr = PreferredOf(n)
    BY <1>3, <2>2, <2>3 DEF AssetType
  <2>4. PICK s \in Seq(AssetType(ids)) :
          /\ s = [k \in DOMAIN as |-> [as[k] EXCEPT !.asset = None, !.weeks = {},
                                        !.over = None, !.addr = PreferredOf(n)]]
    <3>0. DOMAIN as = 1 .. Len(as) /\ Len(as) \in Nat
      BY <1>2
    <3>1. [k \in DOMAIN as |-> [as[k] EXCEPT !.asset = None, !.weeks = {},
                                  !.over = None, !.addr = PreferredOf(n)]]
            \in [1 .. Len(as) -> AssetType(ids)]
      BY <2>3, <3>0
    <3>. QED
      BY <3>0, <3>1, FunctionIsSequence
  <2>5. /\ DOMAIN s = DOMAIN as
        /\ \A k \in DOMAIN as : s[k].id = as[k].id /\ s[k].addr = PreferredOf(n)
    BY <2>3, <2>4
  <2>6. PICK m \in MarketType(ids) : m = [d EXCEPT !.name = n, !.over = None, !.assets = s]
    <3>1. [d EXCEPT !.name = n, !.over = None, !.assets = s] \in MarketType(ids)
      BY DEF MarketType
    <3>. QED
      BY <3>1
  <2>7. m.id = d.id /\ m.name = n /\ m.assets = s /\ UpdateDraftMarket(m)
    BY <2>1, <2>4, <2>6 DEF MarketType
  <2>8. Apart(s)
    BY <1>4, <2>5 DEF Apart
  <2>9. loads.addresses = "ok" => MarketCurrent(m, kept)
    BY <2>5, <2>7, NewCurrent DEF MarketCurrent
  <2>. QED
    BY <1>5, <1>9, <2>7, <2>8, <2>9 DEF DraftMarket
<1>10. ASSUME NEW k \in DOMAIN as, DraftAsset(k) PROVE PlanInv'
  <2>1. PICK x \in Catalogue[d.name] :
          UpdateDraftAsset(k, [as[k] EXCEPT !.asset = x, !.over = None])
    BY <1>2, <1>10 DEF DraftAsset
  <2>2. x \in AllAssets
    BY <1>3 DEF AllAssets
  <2>3. PICK a \in AssetType(ids) :
          a = [as[k] EXCEPT !.asset = x, !.over = None] /\ a.id = as[k].id /\ a.addr = as[k].addr
    <3>1. PICK b \in AssetType(ids) : b = as[k]
      BY <1>3
    <3>2. /\ [b EXCEPT !.asset = x, !.over = None] \in AssetType(ids)
          /\ [b EXCEPT !.asset = x, !.over = None].id = b.id
          /\ [b EXCEPT !.asset = x, !.over = None].addr = b.addr
      BY <2>2 DEF AssetType
    <3>. QED
      BY <3>1, <3>2
  <2>. QED
    BY <1>7, <2>1, <2>3
<1>11. ASSUME NEW k \in DOMAIN as, ToggleDraftAssetWeek(k) PROVE PlanInv'
  <2>1. PICK w \in 1 .. weeks : UpdateDraftAsset(k, [as[k] EXCEPT
           !.weeks = IF w \in as[k].weeks THEN as[k].weeks \ {w} ELSE as[k].weeks \cup {w}])
    BY <1>2, <1>11 DEF ToggleDraftAssetWeek
  <2>2. PICK a \in AssetType(ids) : a = as[k]
    BY <1>3
  <2>3. PICK ws \in SUBSET (1 .. MaxWeeks) :
          ws = IF w \in a.weeks THEN a.weeks \ {w} ELSE a.weeks \cup {w}
    <3>1. a.weeks \in SUBSET (1 .. MaxWeeks)
      BY DEF AssetType
    <3>2. w \in 1 .. MaxWeeks
      BY <1>3, PlanAssumption
    <3>3. (IF w \in a.weeks THEN a.weeks \ {w} ELSE a.weeks \cup {w}) \in SUBSET (1 .. MaxWeeks)
      BY <3>1, <3>2
    <3>. QED
      BY <3>3
  <2>4. PICK b \in AssetType(ids) : b = [a EXCEPT !.weeks = ws] /\ b.id = a.id /\ b.addr = a.addr
    <3>1. /\ [a EXCEPT !.weeks = ws] \in AssetType(ids)
          /\ [a EXCEPT !.weeks = ws].id = a.id /\ [a EXCEPT !.weeks = ws].addr = a.addr
      BY DEF AssetType
    <3>. QED
      BY <3>1
  <2>5. UpdateDraftAsset(k, b)
    BY <2>1, <2>2, <2>3, <2>4
  <2>. QED
    BY <1>7, <2>2, <2>4, <2>5
<1>12. ASSUME NEW k \in DOMAIN as, RemoveDraftAsset(k) PROVE PlanInv'
  <2>1. PICK s \in Seq(AssetType(ids)) : s = RemoveAt(as, k)
    BY Removed
  <2>2. UpdateDraftMarket([d EXCEPT !.assets = s]) /\ UNCHANGED <<weeks, loads, flow, ids>>
    BY <1>2, <1>12, <2>1 DEF RemoveDraftAsset
  <2>3. Apart(s)
    BY <1>4, <2>1, RemovedApart
  <2>4. loads.addresses = "ok" => \A j \in DOMAIN s : Current(s[j], d.name, kept)
    <3>1. ToSet(s) \subseteq ToSet(as)
      BY <2>1, RemovedElements
    <3>. QED
      BY <1>4, <3>1 DEF ToSet
  <2>. QED
    BY <1>6, <2>2, <2>3, <2>4
<1>13. ASSUME NEW k \in DOMAIN as, NEW j \in DOMAIN as, ReorderDraftAssets(k, j) PROVE PlanInv'
  <2>1. PICK s \in Seq(AssetType(ids)) :
          s = InsertAt(RemoveAt(as, k), j, as[k]) /\ Apart(s) /\ ToSet(s) \subseteq ToSet(as)
    BY <1>4, MovedApart
  <2>2. UpdateDraftMarket([d EXCEPT !.assets = s]) /\ UNCHANGED <<weeks, loads, flow, ids>>
    BY <1>2, <1>13, <2>1 DEF ReorderDraftAssets
  <2>3. loads.addresses = "ok" => \A i \in DOMAIN s : Current(s[i], d.name, kept)
    BY <1>4, <2>1 DEF ToSet
  <2>. QED
    BY <1>6, <2>1, <2>2, <2>3
<1>14. ASSUME NEW k \in DOMAIN as, UpdateDraftAssetFrameOverride(k) PROVE PlanInv'
  <2>1. PICK f \in 0 .. 1 :
          UpdateDraftMarket([d EXCEPT !.over = None, !.assets = OverridesOf(k, f)])
    BY <1>2, <1>14 DEF UpdateDraftAssetFrameOverride, OverridesOf
  <2>2. PICK s \in Seq(AssetType(ids)) :
          /\ s = OverridesOf(k, f) /\ DOMAIN s = DOMAIN as
          /\ \A j \in DOMAIN as : s[j].id = as[j].id /\ s[j].addr = as[j].addr
    BY <1>1, <1>2, OverridesTyped
  <2>3. PICK m \in MarketType(ids) : m = [d EXCEPT !.over = None, !.assets = s]
    <3>1. [d EXCEPT !.over = None, !.assets = s] \in MarketType(ids)
      BY DEF MarketType
    <3>. QED
      BY <3>1
  <2>4. m.id = d.id /\ m.name = d.name /\ m.assets = s /\ UpdateDraftMarket(m)
    BY <2>1, <2>2, <2>3 DEF MarketType
  <2>5. Apart(s)
    <3>1. DOMAIN s = DOMAIN as /\ \A j \in DOMAIN as : s[j].id = as[j].id
      BY <2>2
    <3>. QED
      BY <1>4, <3>1 DEF Apart
  <2>6. loads.addresses = "ok" => MarketCurrent(m, kept)
    BY <1>4, <2>2, <2>4 DEF MarketCurrent, Current
  <2>. QED
    BY <1>5, <1>14, <2>4, <2>5, <2>6 DEF UpdateDraftAssetFrameOverride
<1>. QED
  BY <1>2, <1>8, <1>9, <1>10, <1>11, <1>12, <1>13, <1>14

AddressAt(ms, i, k, addr) == [ms EXCEPT ![i].assets[k].addr = addr]

\* An address is chosen for the asset at i, k; nothing else of the plan changes.
LEMMA AddressSaved ==
  ASSUME NEW n \in Nat, NEW ms \in Seq(MarketType(n)), NEW i \in DOMAIN ms,
         NEW k \in DOMAIN ms[i].assets, NEW addr \in Addresses \cup {None},
         NEW ns, ns = AddressAt(ms, i, k, addr)
  PROVE  /\ ns \in Seq(MarketType(n)) /\ SamePlan(ms, ns)
         /\ ns[i].assets[k].addr = addr
         /\ \A j \in DOMAIN ms : \A l \in DOMAIN ms[j].assets :
              (j # i \/ l # k) => ns[j].assets[l].addr = ms[j].assets[l].addr
<1>1. PICK m \in MarketType(n), as \in Seq(AssetType(n)) : m = ms[i] /\ as = m.assets
  BY PlanShape
<1>2. PICK a \in AssetType(n) : a = as[k]
  <2>1. as[k] \in AssetType(n)
    BY <1>1
  <2>. QED
    BY <2>1
<1>3. PICK b \in AssetType(n) : b = [a EXCEPT !.addr = addr] /\ b.id = a.id /\ b.addr = addr
  <2>1. [a EXCEPT !.addr = addr] \in AssetType(n)
    BY DEF AssetType
  <2>2. [a EXCEPT !.addr = addr].id = a.id /\ [a EXCEPT !.addr = addr].addr = addr
    BY DEF AssetType
  <2>. QED
    BY <2>1, <2>2
<1>4. PICK bs \in Seq(AssetType(n)) : bs = [as EXCEPT ![k] = b]
  <2>1. [as EXCEPT ![k] = b] \in Seq(AssetType(n))
    BY <1>1
  <2>. QED
    BY <2>1
<1>5. PICK w \in MarketType(n) : w = [m EXCEPT !.assets = bs]
  <2>1. [m EXCEPT !.assets = bs] \in MarketType(n)
    BY DEF MarketType
  <2>. QED
    BY <2>1
<1>6. w.id = m.id /\ w.name = m.name /\ w.assets = bs
  BY <1>5 DEF MarketType
<1>7. ns = [ms EXCEPT ![i] = w]
  BY <1>1, <1>2, <1>3, <1>4, <1>5 DEF AddressAt
<1>8. ns \in Seq(MarketType(n)) /\ ns[i] = w /\ DOMAIN ns = DOMAIN ms
      /\ \A j \in DOMAIN ms : j # i => ns[j] = ms[j]
  BY <1>7
<1>9. /\ DOMAIN bs = DOMAIN as /\ bs[k] = b /\ \A l \in DOMAIN as : l # k => bs[l] = as[l]
  BY <1>1, <1>4
<1>10. SamePlan(ms, ns)
  <2>1. ASSUME NEW j \in DOMAIN ms
        PROVE  /\ ns[j].id = ms[j].id /\ ns[j].name = ms[j].name
               /\ DOMAIN ns[j].assets = DOMAIN ms[j].assets
               /\ \A l \in DOMAIN ms[j].assets : ns[j].assets[l].id = ms[j].assets[l].id
    <3>1. CASE j = i
      <4>1. ns[j] = w /\ ms[j] = m /\ w.assets = bs /\ m.assets = as
        BY <1>1, <1>6, <1>8, <3>1
      <4>2. ASSUME NEW l \in DOMAIN as PROVE bs[l].id = as[l].id
        <5>1. CASE l = k
          BY <1>2, <1>3, <1>9, <5>1
        <5>2. CASE l # k
          BY <1>9, <5>2
        <5>. QED
          BY <5>1, <5>2
      <4>. QED
        BY <1>6, <1>9, <4>1, <4>2
    <3>2. CASE j # i
      BY <1>8, <3>2
    <3>. QED
      BY <3>1, <3>2
  <2>. QED
    BY <1>8, <2>1 DEF SamePlan
<1>11. ns[i].assets[k].addr = addr
  BY <1>3, <1>6, <1>8, <1>9
<1>12. ASSUME NEW j \in DOMAIN ms, NEW l \in DOMAIN ms[j].assets, j # i \/ l # k
       PROVE  ns[j].assets[l].addr = ms[j].assets[l].addr
  <2>1. CASE j = i
    BY <1>1, <1>6, <1>8, <1>9, <1>12, <2>1
  <2>2. CASE j # i
    BY <1>8, <2>2
  <2>. QED
    BY <2>1, <2>2
<1>. QED
  BY <1>8, <1>10, <1>11, <1>12

\* What choosing an address does to the plan.
LEMMA ChosenAddress ==
  ASSUME PlanTypeOK, NEW i \in DOMAIN markets, NEW k \in DOMAIN markets[i].assets,
         SaveAddress(i, k)
  PROVE  \E addr, ns :
           /\ addr \in Addresses \cup {None} /\ addr # None
           /\ ns \in Seq(MarketType(ids)) /\ SamePlan(markets, ns) /\ Commit(ns, draft)
           /\ ns[i].assets[k].addr = addr
           /\ \A j \in DOMAIN markets : \A l \in DOMAIN markets[j].assets :
                (j # i \/ l # k) => ns[j].assets[l].addr = markets[j].assets[l].addr
           /\ kept' = IF loads.addresses = "ok"
                        THEN kept \cup {<<markets[i].assets[k].id, addr>>} ELSE kept
<1>1. ids \in Nat /\ markets \in Seq(MarketType(ids))
  BY DEF PlanTypeOK
<1>2. \A a \in ToSet(markets[i].assets) : a.addr \in Addresses \cup {None}
  BY <1>1, PlanShape DEF ToSet, AssetType
<1>3. PreferredOf(markets[i].name) \in Addresses \cup {None}
  BY <1>1, PlanShape, AddressAssumption DEF MarketType, PreferredOf
<1>4. PICK addr \in (Typed \cup {PreferredOf(markets[i].name)}
                          \cup {a.addr : a \in ToSet(markets[i].assets)}) \ {None} :
        /\ Commit([markets EXCEPT ![i].assets[k].addr = addr], draft)
        /\ kept' = IF loads.addresses = "ok"
                     THEN kept \cup {<<markets[i].assets[k].id, addr>>} ELSE kept
  BY DEF SaveAddress
<1>5. addr \in Addresses \cup {None} /\ addr # None
  BY <1>2, <1>3, <1>4, AddressAssumption
<1>6. PICK ns : ns = AddressAt(markets, i, k, addr)
  OBVIOUS
<1>7. ns \in Seq(MarketType(ids)) /\ SamePlan(markets, ns) /\ ns[i].assets[k].addr = addr
  BY <1>1, <1>5, <1>6, AddressSaved
<1>8. \A j \in DOMAIN markets : \A l \in DOMAIN markets[j].assets :
        (j # i \/ l # k) => ns[j].assets[l].addr = markets[j].assets[l].addr
  BY <1>1, <1>5, <1>6, AddressSaved
<1>9. Commit(ns, draft)
  BY <1>4, <1>6 DEF AddressAt
<1>. QED
  BY <1>4, <1>5, <1>7, <1>8, <1>9, Zenon

\* A market in the place of another that has its id.
LEMMA Replaced ==
  ASSUME NEW n \in Nat, NEW ms \in Seq(MarketType(n)), NEW m \in MarketType(n),
         NEW i \in DOMAIN ms,
         Distinct(ms), Apart(m.assets), m.id = ms[i].id,
         \A j \in DOMAIN ms : j # i => ms[j].name # m.name
  PROVE  Distinct([ms EXCEPT ![i] = m])
<1>1. PICK ns : ns = [ms EXCEPT ![i] = m]
  OBVIOUS
<1>2. DOMAIN ns = DOMAIN ms /\ ns[i] = m /\ \A j \in DOMAIN ms : j # i => ns[j] = ms[j]
  BY <1>1
<1>3. Apart(ns)
  <2>1. \A j \in DOMAIN ms : ns[j].id = ms[j].id
    BY <1>2
  <2>. QED
    BY <1>2, <2>1 DEF Distinct, Apart
<1>4. \A j \in DOMAIN ns : Apart(ns[j].assets)
  BY <1>2 DEF Distinct
<1>5. \A j, l \in DOMAIN ns : j # l => ns[j].name # ns[l].name
  BY <1>2 DEF Distinct
<1>. QED
  BY <1>1, <1>3, <1>4, <1>5 DEF Distinct

\* A market after the others, with an id and a name of its own.
LEMMA AppendedDistinct ==
  ASSUME NEW n \in Nat, NEW ms \in Seq(MarketType(n)), NEW m \in MarketType(n),
         Distinct(ms), Apart(m.assets),
         \A j \in DOMAIN ms : ms[j].id # m.id /\ ms[j].name # m.name
  PROVE  Distinct(Append(ms, m))
<1>1. PICK ns \in Seq(MarketType(n)), len \in Nat : Extends(ns, ms, m, len)
  BY Appended
<1>2. /\ ns = Append(ms, m) /\ DOMAIN ms = 1 .. len /\ DOMAIN ns = 1 .. len + 1
      /\ \A j \in 1 .. len : ns[j] = ms[j]
      /\ ns[len + 1] = m
  BY <1>1 DEF Extends
<1>3. ASSUME NEW j \in DOMAIN ns
      PROVE  (j \in DOMAIN ms /\ ns[j] = ms[j]) \/ (j = len + 1 /\ ns[j] = m)
  <2>1. j \in 1 .. len \/ j = len + 1
    BY <1>2
  <2>. QED
    BY <1>2, <2>1
<1>4. ASSUME NEW j \in DOMAIN ns, NEW l \in DOMAIN ns, j # l
      PROVE  ns[j].id # ns[l].id /\ ns[j].name # ns[l].name
  <2>1. (j \in DOMAIN ms /\ ns[j] = ms[j]) \/ (j = len + 1 /\ ns[j] = m)
    BY <1>3
  <2>2. (l \in DOMAIN ms /\ ns[l] = ms[l]) \/ (l = len + 1 /\ ns[l] = m)
    BY <1>3
  <2>. QED
    BY <1>4, <2>1, <2>2 DEF Distinct, Apart
<1>5. \A j \in DOMAIN ns : Apart(ns[j].assets)
  BY <1>3 DEF Distinct
<1>. QED
  BY <1>2, <1>4, <1>5 DEF Distinct, Apart

\* What the plan is when the dialog is saved: what it was, with the dialog's
\* market in the place of one that has its id, after the others, or alone.
LEMMA SavedMarketsShape ==
  ASSUME PlanInv, draft.open
  PROVE  \/ SavedMarkets = markets
         \/ \E i \in DOMAIN markets :
              /\ SavedMarkets = [markets EXCEPT ![i] = draft.market]
              /\ markets[i].id = draft.editing /\ draft.market.id = draft.editing
              /\ \A j \in DOMAIN markets : j # i => markets[j].name # draft.market.name
         \/ /\ SavedMarkets = Append(markets, draft.market)
            /\ \A j \in DOMAIN markets :
                 markets[j].id # draft.market.id /\ markets[j].name # draft.market.name
         \/ SavedMarkets = <<draft.market>> /\ markets = <<>>
<1>1. PICK d \in OpenDraft(ids) : d = draft
  <2>1. draft \in OpenDraft(ids)
    BY DraftShape DEF PlanInv
  <2>. QED
    BY <2>1
<1>2. /\ Distinct(markets) /\ (flow.managed /\ ~flow.saved => markets = <<>>)
      /\ d.editing # None => d.editing = d.market.id
      /\ d.editing = None => \A i \in DOMAIN markets : markets[i].id # d.market.id
  BY <1>1 DEF PlanInv, DistinctInv
<1> DEFINE others == {m \in ToSet(markets) : m.id # d.editing}
           at == {i \in DOMAIN markets : markets[i].id = d.editing}
<1>3. CASE d.editing # None /\ d.market.name \in {m.name : m \in others}
  BY <1>1, <1>3 DEF SavedMarkets
<1>4. CASE d.editing # None /\ d.market.name \notin {m.name : m \in others} /\ at # {}
  <2>1. PICK i \in DOMAIN markets : markets[i].id = d.editing
    BY <1>4
  <2>2. \A j \in DOMAIN markets : j # i => markets[j].id # d.editing
    BY <1>2, <2>1 DEF Distinct, Apart
  <2>3. \A j \in DOMAIN markets : j \in at <=> j = i
    BY <2>1, <2>2
  <2>4. SavedMarkets = [j \in DOMAIN markets |-> IF j \in at THEN d.market ELSE markets[j]]
    BY <1>1, <1>4 DEF SavedMarkets
  <2>5. SavedMarkets = [markets EXCEPT ![i] = d.market]
    BY <2>3, <2>4
  <2>6. \A j \in DOMAIN markets : j # i => markets[j].name # d.market.name
    BY <1>4, <2>2 DEF ToSet
  <2>. QED
    BY <1>1, <1>2, <1>4, <2>1, <2>5, <2>6
<1>5. CASE d.editing # None /\ d.market.name \notin {m.name : m \in others} /\ at = {}
  <2>1. SavedMarkets = Append(markets, d.market)
    BY <1>1, <1>5 DEF SavedMarkets
  <2>2. \A j \in DOMAIN markets : markets[j].id # d.market.id /\ markets[j].name # d.market.name
    BY <1>2, <1>5 DEF ToSet
  <2>. QED
    BY <1>1, <2>1, <2>2
<1>6. CASE d.editing = None /\ d.market.name \in Taken
  BY <1>1, <1>6 DEF SavedMarkets
<1>7. CASE d.editing = None /\ d.market.name \notin Taken /\ flow.managed /\ ~flow.saved
  BY <1>1, <1>2, <1>7 DEF SavedMarkets
<1>8. CASE d.editing = None /\ d.market.name \notin Taken /\ ~(flow.managed /\ ~flow.saved)
  <2>1. SavedMarkets = Append(markets, d.market)
    BY <1>1, <1>8 DEF SavedMarkets
  <2>2. \A j \in DOMAIN markets : markets[j].name # d.market.name
    BY <1>8 DEF Taken, ToSet
  <2>. QED
    BY <1>1, <1>2, <1>8, <2>1, <2>2
<1>. QED
  BY <1>3, <1>4, <1>5, <1>6, <1>7, <1>8

\* Saving a draft keeps what distinguishes and what locates the others.
LEMMA SavedMarketsKeep ==
  ASSUME PlanInv, draft.open
  PROVE  /\ SavedMarkets \in Seq(MarketType(ids)) /\ Distinct(SavedMarkets)
         /\ loads.addresses = "ok" => PlanCurrent(SavedMarkets, kept)
         /\ \A m \in ToSet(markets) : m.id # draft.editing => m \in ToSet(SavedMarkets)
<1>1. /\ ids \in Nat /\ markets \in Seq(MarketType(ids)) /\ Distinct(markets)
      /\ draft.market \in MarketType(ids) /\ Apart(draft.market.assets)
      /\ loads.addresses = "ok" => PlanCurrent(markets, kept) /\ MarketCurrent(draft.market, kept)
  BY DraftShape DEF PlanInv, PlanTypeOK, DistinctInv, AddressInv
<1>2. PICK ms \in Seq(MarketType(ids)), m \in MarketType(ids) : ms = markets /\ m = draft.market
  BY <1>1
<1>3. CASE SavedMarkets = markets
  BY <1>1, <1>3
<1>4. ASSUME NEW i \in DOMAIN ms, SavedMarkets = [ms EXCEPT ![i] = m],
             ms[i].id = draft.editing, m.id = draft.editing,
             \A j \in DOMAIN ms : j # i => ms[j].name # m.name
      PROVE  /\ SavedMarkets \in Seq(MarketType(ids)) /\ Distinct(SavedMarkets)
             /\ loads.addresses = "ok" => PlanCurrent(SavedMarkets, kept)
             /\ \A x \in ToSet(ms) : x.id # draft.editing => x \in ToSet(SavedMarkets)
  <2>1. PICK ns \in Seq(MarketType(ids)) : ns = [ms EXCEPT ![i] = m]
    <3>1. [ms EXCEPT ![i] = m] \in Seq(MarketType(ids))
      OBVIOUS
    <3>. QED
      BY <3>1
  <2>2. Distinct(ns)
    BY <1>1, <1>2, <1>4, <2>1, Replaced
  <2>3. DOMAIN ns = DOMAIN ms /\ ns[i] = m /\ \A j \in DOMAIN ms : j # i => ns[j] = ms[j]
    BY <2>1
  <2>4. loads.addresses = "ok" => PlanCurrent(ns, kept)
    BY <1>1, <1>2, <2>3 DEF PlanCurrent
  <2>5. \A x \in ToSet(ms) : x.id # draft.editing => x \in ToSet(ns)
    BY <1>4, <2>3 DEF ToSet
  <2>. QED
    BY <1>4, <2>1, <2>2, <2>4, <2>5
<1>5. ASSUME SavedMarkets = Append(ms, m),
             \A j \in DOMAIN ms : ms[j].id # m.id /\ ms[j].name # m.name
      PROVE  /\ SavedMarkets \in Seq(MarketType(ids)) /\ Distinct(SavedMarkets)
             /\ loads.addresses = "ok" => PlanCurrent(SavedMarkets, kept)
             /\ \A x \in ToSet(ms) : x.id # draft.editing => x \in ToSet(SavedMarkets)
  <2>1. PICK ns \in Seq(MarketType(ids)), len \in Nat : Extends(ns, ms, m, len)
    BY Appended
  <2>2. /\ ns = Append(ms, m) /\ DOMAIN ms = 1 .. len /\ DOMAIN ns = 1 .. len + 1
        /\ \A j \in 1 .. len : ns[j] = ms[j]
        /\ ns[len + 1] = m
    BY <2>1 DEF Extends
  <2>3. Distinct(ns)
    BY <1>1, <1>2, <1>5, <2>2, AppendedDistinct
  <2>4. ASSUME NEW j \in DOMAIN ns PROVE (j \in DOMAIN ms /\ ns[j] = ms[j]) \/ ns[j] = m
    <3>1. j \in 1 .. len \/ j = len + 1
      BY <2>2
    <3>. QED
      BY <2>2, <3>1
  <2>5. loads.addresses = "ok" => PlanCurrent(ns, kept)
    BY <1>1, <1>2, <2>4 DEF PlanCurrent
  <2>6. ASSUME NEW j \in DOMAIN ms PROVE ms[j] = ns[j] /\ j \in DOMAIN ns
    BY <2>2
  <2>7. ToSet(ms) \subseteq ToSet(ns)
    BY <2>6 DEF ToSet
  <2>. QED
    BY <1>5, <2>2, <2>3, <2>5, <2>7
<1>6. ASSUME SavedMarkets = <<m>>, ms = <<>>
      PROVE  /\ SavedMarkets \in Seq(MarketType(ids)) /\ Distinct(SavedMarkets)
             /\ loads.addresses = "ok" => PlanCurrent(SavedMarkets, kept)
             /\ \A x \in ToSet(ms) : x.id # draft.editing => x \in ToSet(SavedMarkets)
  <2>1. PICK ns \in Seq(MarketType(ids)) : ns = <<m>>
    <3>1. <<m>> \in Seq(MarketType(ids))
      OBVIOUS
    <3>. QED
      BY <3>1
  <2>2. DOMAIN ns = {1} /\ ns[1] = m
    BY <2>1
  <2>3. Distinct(ns)
    BY <1>1, <1>2, <2>2 DEF Distinct, Apart
  <2>4. loads.addresses = "ok" => PlanCurrent(ns, kept)
    BY <1>1, <1>2, <2>2 DEF PlanCurrent
  <2>5. ToSet(ms) = {}
    BY <1>6 DEF ToSet
  <2>. QED
    BY <1>6, <2>1, <2>3, <2>4, <2>5
<1>. QED
  BY <1>2, <1>3, <1>4, <1>5, <1>6, SavedMarketsShape

\* A market taken out of the plan.
LEMMA RemovedDistinct ==
  ASSUME NEW n \in Nat, NEW ms \in Seq(MarketType(n)), NEW i \in DOMAIN ms, Distinct(ms)
  PROVE  /\ RemoveAt(ms, i) \in Seq(MarketType(n)) /\ Distinct(RemoveAt(ms, i))
         /\ Len(ms) <= 1 => RemoveAt(ms, i) = <<>>
         /\ \A known : PlanCurrent(ms, known) => PlanCurrent(RemoveAt(ms, i), known)
<1>1. PICK ns \in Seq(MarketType(n)) : ns = RemoveAt(ms, i)
  BY Removed
<1>2. /\ Len(ms) \in Nat /\ DOMAIN ms = 1 .. Len(ms) /\ DOMAIN ns = 1 .. Len(ms) - 1
      /\ \A j \in 1 .. Len(ms) - 1 : ns[j] = IF j < i THEN ms[j] ELSE ms[j + 1]
      /\ Len(ns) = Len(ms) - 1
  BY <1>1, Removed
<1> DEFINE from == [j \in 1 .. Len(ms) - 1 |-> IF j < i THEN j ELSE j + 1]
<1>3. ASSUME NEW j \in 1 .. Len(ms) - 1
      PROVE  from[j] \in DOMAIN ms /\ ns[j] = ms[from[j]]
  BY <1>2
<1>4. \A j, l \in 1 .. Len(ms) - 1 : j # l => from[j] # from[l]
  BY <1>2
<1> HIDE DEF from
<1>5. Distinct(ns)
  <2>1. ASSUME NEW j \in DOMAIN ns, NEW l \in DOMAIN ns, j # l
        PROVE  ns[j].id # ns[l].id /\ ns[j].name # ns[l].name
    <3>1. from[j] \in DOMAIN ms /\ from[l] \in DOMAIN ms /\ from[j] # from[l]
      BY <1>2, <1>3, <1>4, <2>1
    <3>2. ns[j] = ms[from[j]] /\ ns[l] = ms[from[l]]
      BY <1>2, <1>3
    <3>. QED
      BY <3>1, <3>2 DEF Distinct, Apart
  <2>2. ASSUME NEW j \in DOMAIN ns PROVE Apart(ns[j].assets)
    BY <1>2, <1>3 DEF Distinct
  <2>. QED
    BY <2>1, <2>2 DEF Distinct, Apart
<1>6. \A known : PlanCurrent(ms, known) => PlanCurrent(ns, known)
  BY <1>2, <1>3 DEF PlanCurrent
<1>7. Len(ms) <= 1 => ns = <<>>
  BY <1>2
<1>. QED
  BY <1>1, <1>5, <1>6, <1>7

\* What the user does outside the dialog, and closing it, keeps the invariant.
LEMMA PlanEditsKeep ==
  ASSUME PlanInv,
         \/ CancelDraft \/ HandleSaveAddMarket \/ UpdateCampaignMarket
         \/ \E i \in DOMAIN markets : HandleDeleteMarket(i)
         \/ \E i \in DOMAIN markets : \E k \in DOMAIN markets[i].assets : SaveAddress(i, k)
         \/ \E n \in 1 .. MaxWeeks : UpdateWeekCount(n)
  PROVE  PlanInv'
<1>1. /\ PlanTypeOK /\ DistinctInv /\ AddressInv /\ ids \in Nat
         /\ markets \in Seq(MarketType(ids))
      /\ weeks \in 1 .. MaxWeeks /\ draft \in OpenDraft(ids) \cup {NoDraft}
      /\ loads \in [metadata: Loading, addresses: Loading, materials: Loading]
      /\ flow \in [managed: BOOLEAN, saved: BOOLEAN]
  BY DEF PlanInv, PlanTypeOK
<1>2. NoDraft.open = FALSE /\ NoDraft.shown = FALSE
  BY DEF NoDraft
\* One with the ids of the plan, in a step that leaves the loading and the flow alone.
<1>3. ASSUME NEW ms \in Seq(MarketType(ids)), SamePlan(markets, ms), Commit(ms, draft),
             UNCHANGED <<loads, flow, ids>>, weeks' \in 1 .. MaxWeeks, kept \subseteq kept',
             loads.addresses = "ok" => PlanCurrent(ms, kept')
      PROVE  PlanInv'
  <2>1. Distinct(ms)
    BY <1>1, <1>3, SameDistinct DEF DistinctInv
  <2>2. flow'.managed /\ ~flow'.saved => ms = <<>>
    BY <1>1, <1>3, SameDistinct DEF DistinctInv
  <2>3. draft.open /\ draft.editing = None => \A i \in DOMAIN ms : ms[i].id # draft.market.id
    BY <1>1, <1>3, SameDistinct DEF DistinctInv
  <2>4. PICK d : d = draft
    OBVIOUS
  <2>. QED
    BY <1>1, <1>3, <2>1, <2>2, <2>3, <2>4, CommitKeeps
<1>4. CASE CancelDraft
  <2>1. Redraft(NoDraft) /\ ids' = ids /\ UNCHANGED <<weeks, loads, flow>>
    BY <1>4 DEF CancelDraft
  <2>. QED
    BY <1>1, <1>2, <2>1, RedraftKeeps
<1>5. CASE HandleSaveAddMarket
  <2>1. Commit(SavedMarkets, NoDraft) /\ UNCHANGED <<weeks, loads, kept, ids>>
    BY <1>5 DEF HandleSaveAddMarket
  <2>2. flow' \in [managed: BOOLEAN, saved: BOOLEAN] /\ flow'.saved
    BY <1>1, <1>5 DEF HandleSaveAddMarket
  <2>3. /\ SavedMarkets \in Seq(MarketType(ids)) /\ Distinct(SavedMarkets)
        /\ loads.addresses = "ok" => PlanCurrent(SavedMarkets, kept)
    BY <1>5, SavedMarketsKeep DEF HandleSaveAddMarket
  <2>. QED
    BY <1>1, <1>2, <2>1, <2>2, <2>3, CommitKeeps
<1>6. CASE UpdateCampaignMarket
  <2>1. SamePlan(markets, markets)
    BY DEF SamePlan
  <2>2. Commit(markets, draft) /\ UNCHANGED <<weeks, loads, flow, kept, ids>>
    BY <1>6 DEF UpdateCampaignMarket
  <2>. QED
    BY <1>1, <1>3, <2>1, <2>2 DEF AddressInv
<1>7. ASSUME NEW i \in DOMAIN markets, HandleDeleteMarket(i) PROVE PlanInv'
  <2>1. PICK ms \in Seq(MarketType(ids)) :
          /\ ms = RemoveAt(markets, i) /\ Distinct(ms)
          /\ Len(markets) <= 1 => ms = <<>>
          /\ loads.addresses = "ok" => PlanCurrent(ms, kept)
    BY <1>1, RemovedDistinct DEF DistinctInv, AddressInv
  <2>2. Commit(ms, draft) /\ UNCHANGED <<weeks, loads, kept, ids>> /\ ~draft.open
    BY <1>7, <2>1 DEF HandleDeleteMarket
  <2>3. flow' = [flow EXCEPT !.saved = flow.saved /\ Len(markets) > 1]
    BY <1>7 DEF HandleDeleteMarket
  <2>4. flow' \in [managed: BOOLEAN, saved: BOOLEAN]
    BY <1>1, <2>3
  <2>5. flow'.managed /\ ~flow'.saved => ms = <<>>
    <3>1. markets # <<>> /\ Len(markets) \in Nat
      BY <1>1
    <3>2. flow.managed /\ ~flow.saved => markets = <<>>
      BY <1>1 DEF DistinctInv
    <3>3. ~(flow.managed /\ ~flow.saved)
      BY <3>1, <3>2
    <3>4. CASE Len(markets) > 1
      <4>1. flow'.managed = flow.managed /\ flow'.saved = flow.saved
        BY <1>1, <2>3, <3>4
      <4>. QED
        BY <3>3, <4>1
    <3>5. CASE ~(Len(markets) > 1)
      BY <2>1, <3>1, <3>5
    <3>. QED
      BY <3>4, <3>5
  <2>6. PICK d : d = draft
    OBVIOUS
  <2>. QED
    BY <1>1, <2>1, <2>2, <2>4, <2>5, <2>6, CommitKeeps
<1>8. ASSUME NEW i \in DOMAIN markets, NEW k \in DOMAIN markets[i].assets, SaveAddress(i, k)
      PROVE  PlanInv'
  <2>1. PICK addr, ns :
          /\ addr # None
          /\ ns \in Seq(MarketType(ids)) /\ SamePlan(markets, ns) /\ Commit(ns, draft)
          /\ ns[i].assets[k].addr = addr
          /\ \A j \in DOMAIN markets : \A l \in DOMAIN markets[j].assets :
               (j # i \/ l # k) => ns[j].assets[l].addr = markets[j].assets[l].addr
          /\ kept' = IF loads.addresses = "ok"
                       THEN kept \cup {<<markets[i].assets[k].id, addr>>} ELSE kept
    BY <1>1, <1>8, ChosenAddress
  <2>2. kept \subseteq kept' /\ UNCHANGED <<weeks, loads, flow, ids>>
    BY <1>8, <2>1 DEF SaveAddress
  <2>3. ASSUME loads.addresses = "ok" PROVE PlanCurrent(ns, kept')
    <3>1. ASSUME NEW j \in DOMAIN ns, NEW l \in DOMAIN ns[j].assets
          PROVE  Current(ns[j].assets[l], ns[j].name, kept')
      <4>1. /\ j \in DOMAIN markets /\ l \in DOMAIN markets[j].assets
            /\ ns[j].name = markets[j].name /\ ns[j].assets[l].id = markets[j].assets[l].id
        BY <2>1 DEF SamePlan
      <4>2. CASE j = i /\ l = k
        BY <2>1, <2>3, <4>1, <4>2 DEF Current
      <4>3. CASE j # i \/ l # k
        <5>1. Current(markets[j].assets[l], markets[j].name, kept)
          BY <1>1, <2>3, <4>1 DEF AddressInv, PlanCurrent, MarketCurrent
        <5>2. ns[j].assets[l].addr = markets[j].assets[l].addr
          BY <2>1, <4>1, <4>3
        <5>. QED
          BY <2>2, <4>1, <5>1, <5>2 DEF Current
      <4>. QED
        BY <4>2, <4>3
    <3>. QED
      BY <3>1 DEF PlanCurrent, MarketCurrent
  <2>. QED
    BY <1>1, <1>3, <2>1, <2>2, <2>3
<1>9. ASSUME NEW n \in 1 .. MaxWeeks, UpdateWeekCount(n) PROVE PlanInv'
  <2>1. PICK ms \in Seq(MarketType(ids)) :
          /\ ms = InRange(markets, n) /\ SamePlan(markets, ms)
          /\ loads.addresses = "ok" => PlanCurrent(ms, kept)
    <3>1. /\ InRange(markets, n) \in Seq(MarketType(ids))
             /\ SamePlan(markets, InRange(markets, n))
          /\ \A i \in DOMAIN markets : \A k \in DOMAIN markets[i].assets :
               InRange(markets, n)[i].assets[k].addr = markets[i].assets[k].addr
      BY <1>1, WeeksCut
    <3>2. loads.addresses = "ok" => PlanCurrent(InRange(markets, n), kept)
      BY <1>1, <3>1, SameCurrent DEF AddressInv
    <3>. QED
      BY <3>1, <3>2
  <2>2. weeks' \in 1 .. MaxWeeks /\ UNCHANGED <<loads, flow, kept, ids>>
    BY <1>9 DEF UpdateWeekCount
  <2>3. CASE ms = markets
    <3>1. UNCHANGED <<markets, draft, calc, dcalc, summary, failed>>
      BY <1>9, <2>1, <2>3 DEF UpdateWeekCount
    <3>. QED
      BY <1>1, <2>1, <2>2, <2>3, <3>1, LeftAlone
  <2>4. CASE ms # markets
    <3>1. Commit(ms, draft)
      BY <1>9, <2>1, <2>4 DEF UpdateWeekCount
    <3>. QED
      BY <1>3, <2>1, <2>2, <3>1
  <2>. QED
    BY <2>3, <2>4
<1>. QED
  BY <1>4, <1>5, <1>6, <1>7, <1>8, <1>9

\* Every step keeps the invariant.
LEMMA NextKeeps ==
  ASSUME PlanInv, [PlanNext]_vars
  PROVE  PlanInv'
<1>1. CASE LoadMetadata \/ LoadAddresses \/ LoadMaterials
  BY <1>1, LoadsKeep
<1>2. CASE \/ CalcFires \/ CalcAnswered \/ CalcFails \/ DraftFires \/ DraftAnswered \/ DraftFails
           \/ (\E c \in stale : StaleAnswered(c)) \/ UNCHANGED vars
  BY <1>2, CalculationsKeep
<1>3. CASE OpenAddMarketDialog \/ \E i \in DOMAIN markets : OpenEditMarketDialog(i)
  BY <1>3, OpenKeeps
<1>4. CASE \/ AddDraftAsset
           \/ \E n \in Names : DraftMarket(n)
           \/ draft.open /\ \E k \in DOMAIN draft.market.assets :
                \/ DraftAsset(k) \/ ToggleDraftAssetWeek(k) \/ RemoveDraftAsset(k)
                \/ UpdateDraftAssetFrameOverride(k)
                \/ \E j \in DOMAIN draft.market.assets : ReorderDraftAssets(k, j)
  BY <1>4, DraftEditsKeep
<1>5. CASE \/ CancelDraft \/ HandleSaveAddMarket \/ UpdateCampaignMarket
           \/ \E i \in DOMAIN markets : HandleDeleteMarket(i)
           \/ \E i \in DOMAIN markets : \E k \in DOMAIN markets[i].assets : SaveAddress(i, k)
           \/ \E n \in 1 .. MaxWeeks : UpdateWeekCount(n)
  BY <1>5, PlanEditsKeep
<1>. QED
  BY <1>1, <1>2, <1>3, <1>4, <1>5 DEF PlanNext

-----------------------------------------------------------------------------
(* The theorems.                                                           *)

\* The inductive invariant: types, what is being calculated, distinct ids and names,
\* current addresses, and rows for every line.
THEOREM PlanInvariant == PlanSpec => []PlanInv
<1>1. PlanInit => PlanInv
  BY InitKeeps
<1>2. PlanInv /\ [PlanNext]_vars => PlanInv'
  BY NextKeeps
<1>. QED
  BY <1>1, <1>2, PTL DEF PlanSpec

\* The plan, the dialog, the summary and the calculations always have their types,
\* and no id is used that was not handed out.
THEOREM PlanTyped == PlanSpec => []PlanTypeOK
<1>1. PlanInv => PlanTypeOK
  BY DEF PlanInv
<1>. QED
  BY <1>1, PlanInvariant, PTL

\* Whatever the order of edits, answers, failures and loads: when no calculation of
\* the campaign is due and the last one did not fail, the summary on screen is
\* that of the plan on screen (the effect of QuoteBuilderScreen that calculates).
THEOREM SummaryIsOfThePlan == PlanSpec => []SummaryOfThePlan
<1>1. PlanInv => SummaryOfThePlan
  BY DEF PlanInv, CalcInv
<1>. QED
  BY <1>1, PlanInvariant, PTL

\* Whichever of the summary and the materials came last, and whatever was saved in
\* between: every line of a settled summary that has posters has material rows.
THEOREM LinesHaveRows == PlanSpec => []RowsOfEveryLine
<1>1. PlanInv => RowsOfEveryLine
  BY DEF PlanInv
<1>. QED
  BY <1>1, PlanInvariant, PTL

\* Once the address list is there, an address of the plan is the market's preferred
\* one or current, unless it was in the dialog before or the user chose it since.
THEOREM AddressesAreCurrent == PlanSpec => []AddressesCurrent
<1>1. ASSUME PlanInv, loads.addresses = "ok", NEW m \in ToSet(markets), NEW a \in ToSet(m.assets)
      PROVE  \/ a.addr = None /\ Preferred[m.name] = None
             \/ a.addr # None /\ Refreshed(m.name, a.addr) = a.addr
             \/ <<a.id, a.addr>> \in kept
  <2>1. PICK i \in DOMAIN markets : m = markets[i]
    BY DEF ToSet
  <2>2. PICK k \in DOMAIN m.assets : a = m.assets[k]
    BY DEF ToSet
  <2>3. Current(m.assets[k], m.name, kept)
    BY <1>1, <2>1, <2>2 DEF PlanInv, AddressInv, PlanCurrent, MarketCurrent
  <2>. QED
    BY <2>2, <2>3 DEF Current
<1>2. PlanInv => AddressesCurrent
  BY <1>1 DEF AddressesCurrent
<1>. QED
  BY <1>2, PlanInvariant, PTL

\* Only saving and cancelling close the dialog.
LEMMA DialogStays ==
  ASSUME PlanInv, [PlanNext]_vars, draft.open, ~HandleSaveAddMarket, ~CancelDraft
  PROVE  draft'.open
<1>1. draft \in OpenDraft(ids) /\ draft.open = TRUE
  BY DraftShape DEF PlanInv, OpenDraft
<1>2. ASSUME NEW m, UpdateDraftMarket(m) PROVE draft'.open
  <2>1. draft' = [draft EXCEPT !.market = m]
    BY <1>2 DEF UpdateDraftMarket, Redraft
  <2>. QED
    BY <1>1, <2>1 DEF OpenDraft
<1>3. CASE LoadMetadata \/ LoadAddresses \/ LoadMaterials
  BY <1>3 DEF LoadMetadata, LoadAddresses, LoadMaterials, Commit
<1>4. CASE CalcFires \/ CalcAnswered \/ CalcFails \/ DraftFires
           \/ (\E c \in stale : StaleAnswered(c)) \/ UNCHANGED vars
  BY <1>4 DEF CalcFires, CalcAnswered, CalcFails, DraftFires, StaleAnswered, vars
<1>5. CASE DraftAnswered \/ DraftFails
  BY <1>1, <1>5 DEF DraftAnswered, DraftFails, OpenDraft
<1>6. CASE AddDraftAsset \/ \E n \in Names : DraftMarket(n)
  BY <1>2, <1>6 DEF AddDraftAsset, DraftMarket
<1>7. ASSUME NEW k \in DOMAIN draft.market.assets,
             \/ DraftAsset(k) \/ ToggleDraftAssetWeek(k) \/ RemoveDraftAsset(k)
             \/ UpdateDraftAssetFrameOverride(k)
             \/ \E j \in DOMAIN draft.market.assets : ReorderDraftAssets(k, j)
      PROVE  draft'.open
  BY <1>2, <1>7 DEF DraftAsset, ToggleDraftAssetWeek, UpdateDraftAsset, RemoveDraftAsset,
                    UpdateDraftAssetFrameOverride, ReorderDraftAssets
<1>8. CASE OpenAddMarketDialog \/ UpdateCampaignMarket
           \/ \E i \in DOMAIN markets : OpenEditMarketDialog(i) \/ HandleDeleteMarket(i)
  BY <1>1, <1>8 DEF OpenAddMarketDialog, OpenEditMarketDialog, HandleDeleteMarket,
     UpdateCampaignMarket
<1>9. CASE (\E i \in DOMAIN markets : \E k \in DOMAIN markets[i].assets : SaveAddress(i, k))
           \/ \E n \in 1 .. MaxWeeks : UpdateWeekCount(n)
  BY <1>1, <1>9 DEF SaveAddress, UpdateWeekCount
<1>. QED
  BY <1>3, <1>4, <1>5, <1>6, <1>7, <1>8, <1>9 DEF PlanNext

\* Saving the dialog keeps every market it does not edit, and the names of the
\* markets distinct (handleSaveAddMarket).
THEOREM OthersAreKept == PlanSpec => SavingKeepsTheOthers
<1>1. ASSUME PlanInv, PlanInv', [PlanNext]_vars, draft.open, ~draft'.open
      PROVE  /\ \A m \in ToSet(markets) : m.id # draft.editing => m \in ToSet(markets')
             /\ \A i, j \in DOMAIN markets' : i # j => markets'[i].name # markets'[j].name
  <2>1. \A i, j \in DOMAIN markets' : i # j => markets'[i].name # markets'[j].name
    BY <1>1 DEF PlanInv, DistinctInv, Distinct
  <2>2. CASE CancelDraft
    BY <2>1, <2>2 DEF CancelDraft, Redraft
  <2>3. CASE HandleSaveAddMarket
    <3>1. markets' = SavedMarkets
      BY <2>3 DEF HandleSaveAddMarket, Commit
    <3>. QED
      BY <1>1, <2>1, <3>1, SavedMarketsKeep
  <2>. QED
    BY <1>1, <2>2, <2>3, DialogStays
<1>2. PlanInv /\ PlanInv' /\ [PlanNext]_vars =>
        [(draft.open /\ ~draft'.open) =>
           /\ \A m \in ToSet(markets) : m.id # draft.editing => m \in ToSet(markets')
           /\ \A i, j \in DOMAIN markets' : i # j => markets'[i].name # markets'[j].name]_vars
  BY <1>1
<1>. QED
  BY <1>2, PlanInvariant, PTL DEF PlanSpec, SavingKeepsTheOthers

\* The lines of a market without a count of its own, and what every line is of.
LEMMA OwnLines ==
  ASSUME NEW m, m.over = None
  PROVE  MarketLines(m) = {[id |-> m.assets[k].id, q |-> Posters(m.assets[k])] :
                             k \in {k \in DOMAIN m.assets : Sized(m.assets[k])}}
BY DEF MarketLines

\* Every line is of an asset that is sized, and is its id and its quantity.
LEMMA LineOfAsset ==
  ASSUME NEW m, NEW l \in MarketLines(m)
  PROVE  /\ l = [id |-> l.id, q |-> l.q]
         /\ \E k \in DOMAIN m.assets : Sized(m.assets[k]) /\ l.id = m.assets[k].id
<1> DEFINE lines == {k \in DOMAIN m.assets : Sized(m.assets[k])}
           own == [k \in DOMAIN m.assets |-> IF k \in lines THEN Posters(m.assets[k]) ELSE 0]
           q == IF m.over = None THEN own ELSE Distribute(own, lines, m.over)
<1>1. MarketLines(m) = {[id |-> m.assets[k].id, q |-> q[k]] : k \in lines}
  BY DEF MarketLines
<1>2. PICK k \in lines : l = [id |-> m.assets[k].id, q |-> q[k]]
  <2> HIDE DEF lines, q
  <2>. QED
    BY <1>1
<1> HIDE DEF q, own
<1>. QED
  BY <1>2

\* With distinct ids, the quantity of a line's id is that of the line.
LEMMA OneLineEach ==
  ASSUME NEW m, Apart(m.assets), NEW l \in MarketLines(m)
  PROVE  l.id \in LineIds(MarketLines(m)) /\ Quantity(MarketLines(m), l.id) = l.q
<1> DEFINE lines == {k \in DOMAIN m.assets : Sized(m.assets[k])}
           own == [k \in DOMAIN m.assets |-> IF k \in lines THEN Posters(m.assets[k]) ELSE 0]
           q == IF m.over = None THEN own ELSE Distribute(own, lines, m.over)
<1>1. MarketLines(m) = {[id |-> m.assets[k].id, q |-> q[k]] : k \in lines}
  BY DEF MarketLines
<1>2. \A k, j \in lines : m.assets[k].id = m.assets[j].id => k = j
  BY DEF Apart
<1> HIDE DEF lines, own, q
<1>3. \A x \in MarketLines(m) : x.id = l.id => x = l
  BY <1>1, <1>2
<1>. QED
  BY <1>3 DEF LineIds, Quantity

\* The posters of each asset of a market, as its lines say.
PostersOf(m) ==
  [k \in DOMAIN m.assets |->
     IF Sized(m.assets[k]) THEN Quantity(MarketLines(m), m.assets[k].id) ELSE 0]

\* The lines of a market that has a count of its own add up to it.
LEMMA LinesAddUp ==
  ASSUME NEW n \in Nat, NEW m \in MarketType(n), Apart(m.assets), m.over # None,
         MarketLines(m) # {}
  PROVE  Total(PostersOf(m)) = m.over
<1> DEFINE lines == {k \in DOMAIN m.assets : Sized(m.assets[k])}
           own == [k \in DOMAIN m.assets |-> IF k \in lines THEN Posters(m.assets[k]) ELSE 0]
           q == Distribute(own, lines, m.over)
<1>1. MarketLines(m) = {[id |-> m.assets[k].id, q |-> q[k]] : k \in lines}
  BY DEF MarketLines
<1>2. PICK len \in Nat : DOMAIN m.assets = 1 .. len
  <2>1. m.assets \in Seq(AssetType(n))
    BY DEF MarketType
  <2>. QED
    BY <2>1
<1>3. ASSUME NEW k \in lines PROVE Posters(m.assets[k]) \in Nat
  BY <1>2, PostersTyped
<1>4. /\ own \in [1 .. len -> Nat] /\ lines \in SUBSET (1 .. len) /\ m.over \in Nat
      /\ \A i \in 1 .. len : i \notin lines => own[i] = 0
  BY <1>2, <1>3 DEF MarketType
<1>5. ASSUME NEW k \in lines PROVE Quantity(MarketLines(m), m.assets[k].id) = q[k]
  <2> DEFINE l == [id |-> m.assets[k].id, q |-> q[k]]
  <2>1. l \in MarketLines(m)
    <3> HIDE DEF lines, q
    <3>. QED
      BY <1>1
  <2>2. l.id = m.assets[k].id /\ l.q = q[k]
    <3> HIDE DEF q
    <3>. QED
      OBVIOUS
  <2> HIDE DEF l, q, lines
  <2>. QED
    BY <2>1, <2>2, OneLineEach
<1>6. lines # {}
  <2> HIDE DEF lines, q
  <2>. QED
    BY <1>1
<1>7. PostersOf(m) = Shares(own, lines, m.over)
  <2>1. \A k \in 1 .. len : k \in lines <=> Sized(m.assets[k])
    BY <1>2
  <2>2. PostersOf(m) = [k \in 1 .. len |-> IF k \in lines THEN q[k] ELSE 0]
    <3> HIDE DEF lines, q
    <3>. QED
      BY <1>2, <1>5, <2>1 DEF PostersOf
  <2> HIDE DEF lines, own
  <2>. QED
    BY <1>4, <2>2 DEF Shares
<1>8. Total(Shares(own, lines, m.over)) = m.over
  <2> HIDE DEF lines, own
  <2>. QED
    BY <1>4, <1>6, CountsAddUp
<1>. QED
  BY <1>7, <1>8

\* Frames typed for one asset leave the lines of the others what they were.
LEMMA OtherLinesStay ==
  ASSUME PlanInv, draft.shown, dcalc = Idle, NEW k \in DOMAIN draft.market.assets,
         UpdateDraftAssetFrameOverride(k),
         NEW l \in MarketLines(draft.market), l.id # draft.market.assets[k].id
  PROVE  l \in MarketLines(draft'.market)
<1>1. /\ PlanTypeOK /\ draft.open /\ ids \in Nat /\ draft \in OpenDraft(ids)
      /\ draft.market \in MarketType(ids) /\ draft.lines = MarketLines(draft.market)
      /\ Apart(draft.market.assets)
  <2>1. draft.open /\ PlanTypeOK
    BY DEF PlanInv, UpdateDraftAssetFrameOverride
  <2>. QED
    BY <2>1, DraftShape DEF PlanInv, CalcInv, DistinctInv
<1>2. PICK d \in MarketType(ids), as \in Seq(AssetType(ids)) : d = draft.market
      /\ as = draft.market.assets
  BY <1>1, DraftShape
<1>3. PICK f \in 0 .. 1 :
        draft' = [draft EXCEPT !.market = [d EXCEPT !.over = None, !.assets = OverridesOf(k, f)]]
  BY <1>2 DEF UpdateDraftAssetFrameOverride, UpdateDraftMarket, Redraft, OverridesOf
<1>4. PICK s \in Seq(AssetType(ids)) :
        /\ s = OverridesOf(k, f) /\ DOMAIN s = DOMAIN as
        /\ \A j \in DOMAIN as :
             /\ s[j].id = as[j].id /\ s[j].asset = as[j].asset /\ s[j].weeks = as[j].weeks
             /\ s[j].over = IF j = k THEN f * Divisor
                            ELSE IF d.over # None /\ as[j].id \in LineIds(draft.lines)
                                 THEN Quantity(draft.lines, as[j].id) ELSE as[j].over
  BY <1>1, <1>2, OverridesTyped
<1>5. draft'.market.over = None /\ draft'.market.assets = s
  <2>1. draft'.market = [d EXCEPT !.over = None, !.assets = s]
    BY <1>1, <1>3, <1>4 DEF OpenDraft
  <2>. QED
    BY <2>1 DEF MarketType
<1>6. PICK j \in DOMAIN as :
        /\ Sized(as[j]) /\ l.id = as[j].id /\ l = [id |-> l.id, q |-> l.q] /\ j # k
        /\ d.over = None => l.q = Posters(as[j])
  <2>1. CASE d.over = None
    <3>1. PICK j \in {i \in DOMAIN as : Sized(as[i])} :
            l = [id |-> as[j].id, q |-> Posters(as[j])]
      BY <1>2, <2>1, OwnLines
    <3>. QED
      BY <1>2, <3>1
  <2>2. CASE d.over # None
    BY <1>2, <2>2, LineOfAsset
  <2>. QED
    BY <2>1, <2>2
<1>7. Sized(s[j]) /\ s[j].id = l.id
  BY <1>4, <1>6 DEF Sized
<1>8. Posters(s[j]) = l.q
  <2>1. CASE d.over = None
    <3>1. s[j].over = as[j].over /\ s[j].asset = as[j].asset /\ s[j].weeks = as[j].weeks
      BY <1>4, <1>6, <2>1
    <3>. QED
      BY <1>6, <2>1, <3>1 DEF Posters
  <2>2. CASE d.over # None
    <3>1. as[j].id \in LineIds(draft.lines) /\ Quantity(draft.lines, as[j].id) = l.q
      BY <1>1, <1>6, OneLineEach
    <3>2. s[j].over = l.q
      BY <1>4, <1>6, <2>2, <3>1
    <3>3. l.q \in Nat
      BY <1>1, MarketLinesTyped DEF Line
    <3>. QED
      BY <3>2, <3>3, PlanAssumption DEF Posters
  <2>. QED
    BY <2>1, <2>2
<1>9. [id |-> s[j].id, q |-> Posters(s[j])] \in MarketLines(draft'.market)
  <2>1. j \in {i \in DOMAIN s : Sized(s[i])}
    BY <1>4, <1>7
  <2>. QED
    BY <1>5, <2>1, OwnLines
<1>. QED
  BY <1>6, <1>7, <1>8, <1>9

\* Frames typed for one asset of the dialog leave the posters of every other asset
\* what they were, also when a count of the whole market gave them
\* (updateDraftAssetFrameOverride).
THEOREM FramesStayWhereTheyAre == PlanSpec => FramesOfOneAsset
<1>1. PlanInv =>
        [\A k \in 1 .. MaxAssets :
           (/\ draft.shown /\ dcalc = Idle /\ dcalc' # Idle
            /\ k \in DOMAIN draft.market.assets /\ UpdateDraftAssetFrameOverride(k)) =>
             \A l \in MarketLines(draft.market) :
               l.id # draft.market.assets[k].id => l \in MarketLines(draft'.market)]_vars
  BY OtherLinesStay
<1>. QED
  BY <1>1, PlanInvariant, PTL DEF FramesOfOneAsset

\* The posters that a market of the plan, or of the dialog, is given as a whole.
CountsKept ==
  \A m \in ToSet(markets) \cup (IF draft.open THEN {draft.market} ELSE {}) :
    (m.over # None /\ MarketLines(m) # {}) => Total(PostersOf(m)) = m.over

\* A count set for a whole market is what its lines add up to, in the plan and in
\* the dialog, whatever weeks, overrides and assets were changed since: no poster
\* is lost in the divisions or given twice (distributeBreakdownOverride).
THEOREM MarketCountsAddUp == PlanSpec => []CountsKept
<1>1. PlanInv => CountsKept
  <2>1. SUFFICES ASSUME PlanInv,
                        NEW m \in ToSet(markets) \cup (IF draft.open THEN {draft.market} ELSE {}),
                        m.over # None, MarketLines(m) # {}
                 PROVE  Total(PostersOf(m)) = m.over
    BY DEF CountsKept
  <2>2. CASE m \in ToSet(markets)
    <3>1. PICK i \in DOMAIN markets : m = markets[i]
      BY <2>2 DEF ToSet
    <3>2. m \in MarketType(ids) /\ ids \in Nat /\ Apart(m.assets)
      BY <2>1, <3>1, PlanShape DEF PlanInv, PlanTypeOK, DistinctInv, Distinct
    <3>. QED
      BY <2>1, <3>2, LinesAddUp
  <2>3. CASE draft.open /\ m = draft.market
    <3>1. m \in MarketType(ids) /\ ids \in Nat /\ Apart(m.assets)
      BY <2>1, <2>3, DraftShape DEF PlanInv, PlanTypeOK, DistinctInv
    <3>. QED
      BY <2>1, <3>1, LinesAddUp
  <2>. QED
    BY <2>1, <2>2, <2>3
<1>. QED
  BY <1>1, PlanInvariant, PTL

=============================================================================
