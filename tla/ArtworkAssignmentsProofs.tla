---------------------- MODULE ArtworkAssignmentsProofs ----------------------
(***************************************************************************)
(* The inductive invariant of ArtworkAssignments, and its properties for   *)
(* any images, formats, assets, summaries and numbers of clicks.           *)
(***************************************************************************)
EXTENDS ArtworkAssignments, SequenceTheorems, FiniteSetTheorems, WellFoundedInduction, TLAPS

-----------------------------------------------------------------------------
(* Rows: those with frames, and the frames of all.                         *)

\* Induction, with a set in the place of the property: what holds of 0 and goes
\* from each number to the next holds of every number.
LEMMA FromZero ==
  ASSUME NEW S, 0 \in S, \A n \in Nat : n \in S => n + 1 \in S
  PROVE  Nat \subseteq S
<1> DEFINE T == Nat \ S
<1>1. SUFFICES ASSUME T # {} PROVE FALSE
  BY <1>1
<1>2. PICK x \in T : \A y \in T : ~(<<y, x>> \in OpToRel(<, Nat))
  BY <1>1, NatLessThanWellFounded, WFMin, T \subseteq Nat
<1>3. x # 0 /\ x \in Nat
  OBVIOUS
<1>4. x - 1 \in Nat /\ x - 1 < x /\ (x - 1) + 1 = x
  BY <1>3
<1>5. x - 1 \in T
  BY <1>4
<1>6. <<x - 1, x>> \in OpToRel(<, Nat)
  BY <1>3, <1>4 DEF OpToRel
<1>. QED
  BY <1>2, <1>5, <1>6

\* A set of numbers has a least one.
LEMMA Least ==
  ASSUME NEW S \in SUBSET Nat, S # {}
  PROVE  \E x \in S : \A y \in S : x <= y
<1>1. PICK x \in S : \A y \in S : ~(<<y, x>> \in OpToRel(<, Nat))
  BY NatLessThanWellFounded, WFMin
<1>2. ASSUME NEW y \in S PROVE x <= y
  <2>1. ~(y < x)
    BY <1>1 DEF OpToRel
  <2>. QED
    BY <2>1
<1>. QED
  BY <1>2

\* s is b, and then what a step makes, for each of 1 .. len, of the one before.
Iterated(s, b, len, step) == s[0] = b /\ \A i \in 1 .. len : s[i] = step[<<s[i - 1], i>>]

\* There is such an s.
LEMMA Iterates ==
  ASSUME NEW S, NEW b \in S, NEW len \in Nat, NEW step \in [S \X (1 .. len) -> S]
  PROVE  \E s \in [0 .. len -> S] : Iterated(s, b, len, step)
<1> USE DEF Iterated
<1> DEFINE Upto(s, n) == s[0] = b /\ \A i \in 1 .. n : s[i] = step[<<s[i - 1], i>>]
<1> DEFINE N == {n \in Nat : n <= len => \E s \in [0 .. n -> S] : Upto(s, n)}
<1>1. 0 \in N
  <2>1. [i \in 0 .. 0 |-> b] \in [0 .. 0 -> S] /\ Upto([i \in 0 .. 0 |-> b], 0)
    OBVIOUS
  <2>. QED
    BY <2>1
<1>2. ASSUME NEW n \in Nat, n \in N PROVE n + 1 \in N
  <2>1. SUFFICES ASSUME n + 1 <= len PROVE \E s \in [0 .. n + 1 -> S] : Upto(s, n + 1)
    <3> HIDE DEF Upto
    <3>. QED
      OBVIOUS
  <2>2. PICK s \in [0 .. n -> S] : Upto(s, n)
    <3> HIDE DEF Upto
    <3>. QED
      BY <1>2, <2>1
  <2> DEFINE t == [i \in 0 .. n + 1 |-> IF i = n + 1 THEN step[<<s[n], n + 1>>] ELSE s[i]]
  <2>3. n + 1 \in 1 .. len /\ s[n] \in S /\ <<s[n], n + 1>> \in S \X (1 .. len)
    BY <2>1
  <2>4. step[<<s[n], n + 1>>] \in S
    BY <2>3
  <2>5. t \in [0 .. n + 1 -> S]
    BY <2>4
  <2>6. t[0] = b
    BY <2>2
  <2>7. ASSUME NEW i \in 1 .. n + 1 PROVE t[i] = step[<<t[i - 1], i>>]
    <3>1. CASE i = n + 1
      <4>1. t[n + 1] = step[<<s[n], n + 1>>] /\ t[n] = s[n] /\ i - 1 = n
        BY <3>1
      <4>. QED
        BY <3>1, <4>1
    <3>2. CASE i \in 1 .. n
      <4>1. t[i] = s[i] /\ t[i - 1] = s[i - 1]
        BY <3>2
      <4>. QED
        BY <2>2, <3>2, <4>1
    <3>. QED
      BY <3>1, <3>2
  <2>. QED
    <3> HIDE DEF t
    <3>. QED
      BY <2>5, <2>6, <2>7
<1>3. len \in N
  <2> HIDE DEF N
  <2>. QED
    BY <1>1, <1>2, FromZero
<1>. QED
  BY <1>3

\* What Framed says, row by row.
LEMMA FramedSteps ==
  ASSUME NEW rows \in Seq(RowType)
  PROVE  \E s \in [0 .. Len(rows) -> Seq(RowType)] :
           /\ s[0] = <<>> /\ Framed(rows) = s[Len(rows)]
           /\ \A i \in 1 .. Len(rows) :
                s[i] = IF rows[i].frames > 0 THEN Append(s[i - 1], rows[i]) ELSE s[i - 1]
<1> DEFINE len == Len(rows)
<1> DEFINE step == [p \in Seq(RowType) \X (1 .. len) |->
                      IF rows[p[2]].frames > 0 THEN Append(p[1], rows[p[2]]) ELSE p[1]]
<1> DEFINE Eq(f) == f = [k \in 0 .. len |-> IF k = 0 THEN <<>>
                          ELSE IF rows[k].frames > 0 THEN Append(f[k - 1], rows[k]) ELSE f[k - 1]]
<1>0. len \in Nat /\ \A i \in 1 .. len : rows[i] \in RowType
  OBVIOUS
<1>1. step \in [Seq(RowType) \X (1 .. len) -> Seq(RowType)] /\ <<>> \in Seq(RowType)
  BY <1>0
<1>2. PICK s \in [0 .. len -> Seq(RowType)] : Iterated(s, <<>>, len, step)
  <2> HIDE DEF step, len
  <2>. QED
    BY <1>0, <1>1, Iterates
<1>3. ASSUME NEW i \in 1 .. len
      PROVE  s[i] = IF rows[i].frames > 0 THEN Append(s[i - 1], rows[i]) ELSE s[i - 1]
  <2>1. s[i - 1] \in Seq(RowType)
    <3>1. i - 1 \in 0 .. len
      BY <1>0
    <3>. QED
      BY <3>1
  <2>. QED
    BY <1>2, <2>1 DEF Iterated
<1>4. Eq(s)
  <2>1. s = [k \in 0 .. len |-> s[k]]
    OBVIOUS
  <2>2. \A k \in 0 .. len : k # 0 => k \in 1 .. len
    BY <1>0
  <2>. QED
    BY <1>2, <1>3, <2>1, <2>2 DEF Iterated
<1> DEFINE c == CHOOSE f : Eq(f)
<1>5. Eq(c)
  <2> HIDE DEF Eq
  <2>. QED
    BY <1>4
<1>6. Framed(rows) = c[len]
  BY DEF Framed
<1>7. c[len] = s[len]
  <2> HIDE DEF c
  <2>0. c[0] = <<>> /\ \A n \in Nat : n + 1 <= len =>
          c[n + 1] = IF rows[n + 1].frames > 0 THEN Append(c[n], rows[n + 1]) ELSE c[n]
    <3>1. c[0] = <<>>
      BY <1>5, <1>0
    <3>2. ASSUME NEW n \in Nat, n + 1 <= len
          PROVE  c[n + 1] = IF rows[n + 1].frames > 0 THEN Append(c[n], rows[n + 1]) ELSE c[n]
      <4>1. n + 1 \in 0 .. len /\ n + 1 # 0 /\ (n + 1) - 1 = n
        BY <1>0, <3>2
      <4>. QED
        BY <1>5, <4>1
    <3>. QED
      BY <3>1, <3>2
  <2> DEFINE N == {n \in Nat : n <= len => c[n] = s[n]}
  <2>1. 0 \in N
    BY <1>2, <2>0 DEF Iterated
  <2>2. ASSUME NEW n \in Nat, n \in N PROVE n + 1 \in N
    <3>1. SUFFICES ASSUME n + 1 <= len PROVE c[n + 1] = s[n + 1]
      OBVIOUS
    <3>2. n + 1 \in 1 .. len /\ c[n] = s[n]
      BY <1>0, <2>2, <3>1
    <3>. QED
      BY <1>3, <2>0, <3>1, <3>2
  <2>3. Nat \subseteq N
    <3> HIDE DEF N
    <3>. QED
      BY <2>1, <2>2, FromZero
  <2>. QED
    BY <1>0, <2>3
<1>. QED
  <2> HIDE DEF c
  <2>. QED
    BY <1>2, <1>3, <1>6, <1>7 DEF Iterated

\* What Frames adds up, row by row.
LEMMA FramesSteps ==
  ASSUME NEW rows \in Seq(RowType)
  PROVE  \E s \in [0 .. Len(rows) -> Nat] :
           /\ s[0] = 0 /\ Frames(rows) = s[Len(rows)]
           /\ \A i \in 1 .. Len(rows) : s[i] = s[i - 1] + rows[i].frames
<1> DEFINE len == Len(rows)
<1> DEFINE step == [p \in Nat \X (1 .. len) |-> p[1] + rows[p[2]].frames]
<1> DEFINE Eq(f) == f = [k \in 0 .. len |-> IF k = 0 THEN 0 ELSE f[k - 1] + rows[k].frames]
<1>0. len \in Nat /\ \A i \in 1 .. len : rows[i].frames \in Nat
  <2>1. len \in Nat /\ \A i \in 1 .. len : rows[i] \in RowType
    OBVIOUS
  <2>. QED
    BY <2>1 DEF RowType
<1>1. step \in [Nat \X (1 .. len) -> Nat]
  BY <1>0
<1>2. PICK s \in [0 .. len -> Nat] : Iterated(s, 0, len, step)
  <2> HIDE DEF step, len
  <2>. QED
    BY <1>0, <1>1, Iterates
<1>3. ASSUME NEW i \in 1 .. len PROVE s[i] = s[i - 1] + rows[i].frames
  <2>1. s[i - 1] \in Nat
    <3>1. i - 1 \in 0 .. len
      BY <1>0
    <3>. QED
      BY <3>1
  <2>. QED
    BY <1>2, <2>1 DEF Iterated
<1>4. Eq(s)
  <2>1. s = [k \in 0 .. len |-> s[k]]
    OBVIOUS
  <2>2. \A k \in 0 .. len : k # 0 => k \in 1 .. len
    BY <1>0
  <2>. QED
    BY <1>2, <1>3, <2>1, <2>2 DEF Iterated
<1> DEFINE c == CHOOSE f : Eq(f)
<1>5. Eq(c)
  <2> HIDE DEF Eq
  <2>. QED
    BY <1>4
<1>6. Frames(rows) = c[len]
  BY DEF Frames
<1>7. c[len] = s[len]
  <2> HIDE DEF c
  <2>0. c[0] = 0 /\ \A n \in Nat : n + 1 <= len => c[n + 1] = c[n] + rows[n + 1].frames
    BY <1>5, <1>0
  <2> DEFINE N == {n \in Nat : n <= len => c[n] = s[n]}
  <2>1. 0 \in N
    BY <1>2, <2>0 DEF Iterated
  <2>2. ASSUME NEW n \in Nat, n \in N PROVE n + 1 \in N
    <3>1. SUFFICES ASSUME n + 1 <= len PROVE c[n + 1] = s[n + 1]
      OBVIOUS
    <3>2. n + 1 \in 1 .. len /\ c[n] = s[n]
      BY <1>0, <2>2, <3>1
    <3>. QED
      BY <1>3, <2>0, <3>1, <3>2
  <2>3. Nat \subseteq N
    <3> HIDE DEF N
    <3>. QED
      BY <2>1, <2>2, FromZero
  <2>. QED
    BY <1>0, <2>3
<1>. QED
  <2> HIDE DEF c
  <2>. QED
    BY <1>2, <1>3, <1>6, <1>7 DEF Iterated

\* The rows kept are rows, and have frames.
LEMMA FramedRows ==
  ASSUME NEW rows \in Seq(RowType)
  PROVE  /\ Framed(rows) \in Seq(RowType)
         /\ \A j \in 1 .. Len(Framed(rows)) : /\ Framed(rows)[j].frames > 0
                                              /\ Framed(rows)[j] \in ToSet(rows)
<1> DEFINE Good(t) == t \in Seq({r \in ToSet(rows) : r.frames > 0})
<1>1. PICK s \in [0 .. Len(rows) -> Seq(RowType)] :
        /\ s[0] = <<>> /\ Framed(rows) = s[Len(rows)]
        /\ \A i \in 1 .. Len(rows) :
             s[i] = IF rows[i].frames > 0 THEN Append(s[i - 1], rows[i]) ELSE s[i - 1]
  BY FramedSteps
<1>0. Len(rows) \in Nat /\ \A i \in 1 .. Len(rows) : rows[i] \in ToSet(rows)
  BY DEF ToSet
<1> DEFINE N == {n \in Nat : n <= Len(rows) => Good(s[n])}
<1>2. 0 \in N
  BY <1>1
<1>3. ASSUME NEW n \in Nat, n \in N PROVE n + 1 \in N
  <2>1. SUFFICES ASSUME n + 1 <= Len(rows) PROVE Good(s[n + 1])
    <3> HIDE DEF Good
    <3>. QED
      OBVIOUS
  <2>2. n + 1 \in 1 .. Len(rows) /\ (n + 1) - 1 = n
    BY <1>0, <2>1
  <2>3. s[n + 1] = IF rows[n + 1].frames > 0 THEN Append(s[n], rows[n + 1]) ELSE s[n]
    BY <1>1, <2>2
  <2>4. Good(s[n])
    <3> HIDE DEF Good
    <3>. QED
      BY <1>3, <2>1, <1>0
  <2>5. CASE rows[n + 1].frames > 0
    <3>1. rows[n + 1] \in {r \in ToSet(rows) : r.frames > 0}
      BY <1>0, <2>2, <2>5
    <3>. QED
      BY <2>3, <2>4, <2>5, <3>1
  <2>6. CASE ~(rows[n + 1].frames > 0)
    BY <2>3, <2>4, <2>6
  <2>. QED
    BY <2>5, <2>6
<1>4. Len(rows) \in N
  <2> HIDE DEF N
  <2>. QED
    BY <1>0, <1>2, <1>3, FromZero
<1>5. Good(Framed(rows))
  <2> HIDE DEF Good
  <2>. QED
    BY <1>0, <1>1, <1>4
<1>6. Framed(rows) \in Seq(RowType)
  BY <1>0, <1>1
<1>7. \A j \in 1 .. Len(Framed(rows)) : Framed(rows)[j] \in {r \in ToSet(rows) : r.frames > 0}
  BY <1>5
<1>. QED
  BY <1>6, <1>7

\* Rows that all have frames are all kept.
LEMMA AllFramed ==
  ASSUME NEW rows \in Seq(RowType), \A k \in 1 .. Len(rows) : rows[k].frames > 0
  PROVE  Framed(rows) = rows
<1>1. PICK s \in [0 .. Len(rows) -> Seq(RowType)] :
        /\ s[0] = <<>> /\ Framed(rows) = s[Len(rows)]
        /\ \A i \in 1 .. Len(rows) :
             s[i] = IF rows[i].frames > 0 THEN Append(s[i - 1], rows[i]) ELSE s[i - 1]
  BY FramedSteps
<1>0. Len(rows) \in Nat
  OBVIOUS
<1> DEFINE N == {n \in Nat : n <= Len(rows) =>
                   Len(s[n]) = n /\ \A j \in 1 .. n : s[n][j] = rows[j]}
<1>2. 0 \in N
  BY <1>1
<1>3. ASSUME NEW n \in Nat, n \in N PROVE n + 1 \in N
  <2>1. SUFFICES ASSUME n + 1 <= Len(rows)
                 PROVE  Len(s[n + 1]) = n + 1 /\ \A j \in 1 .. n + 1 : s[n + 1][j] = rows[j]
    OBVIOUS
  <2>2. n + 1 \in 1 .. Len(rows) /\ (n + 1) - 1 = n /\ n \in 0 .. Len(rows)
    BY <1>0, <2>1
  <2>3. s[n + 1] = Append(s[n], rows[n + 1]) /\ s[n] \in Seq(RowType)
    BY <1>1, <2>2
  <2>4. Len(s[n]) = n /\ \A j \in 1 .. n : s[n][j] = rows[j]
    BY <1>3, <2>1, <1>0
  <2>. QED
    BY <2>3, <2>4
<1>4. Len(rows) \in N
  <2> HIDE DEF N
  <2>. QED
    BY <1>0, <1>2, <1>3, FromZero
<1>5. Framed(rows) \in Seq(RowType)
  BY FramedRows
<1>6. Len(Framed(rows)) = Len(rows) /\ \A j \in 1 .. Len(rows) : Framed(rows)[j] = rows[j]
  BY <1>1, <1>4
<1>. QED
  BY <1>5, <1>6, SeqEqual

\* So nothing is lost when the rows kept are kept again.
LEMMA FramedTwice ==
  ASSUME NEW rows \in Seq(RowType)
  PROVE  Framed(Framed(rows)) = Framed(rows)
BY FramedRows, AllFramed

\* Which rows are kept, and in which order, is a matter of their frames.
LEMMA FramedAlike ==
  ASSUME NEW rows \in Seq(RowType), NEW recs \in Seq(RowType), Len(rows) = Len(recs),
         \A k \in 1 .. Len(rows) : /\ rows[k].frames = recs[k].frames
                                   /\ rows[k].material = recs[k].material
  PROVE  /\ Len(Framed(rows)) = Len(Framed(recs))
         /\ \A k \in 1 .. Len(Framed(rows)) :
              /\ Framed(rows)[k].frames = Framed(recs)[k].frames
              /\ Framed(rows)[k].material = Framed(recs)[k].material
<1> DEFINE Alike(s, t) == Len(s) = Len(t) /\ \A k \in 1 .. Len(s) :
             s[k].frames = t[k].frames /\ s[k].material = t[k].material
<1>1. PICK s \in [0 .. Len(rows) -> Seq(RowType)] :
        /\ s[0] = <<>> /\ Framed(rows) = s[Len(rows)]
        /\ \A i \in 1 .. Len(rows) :
             s[i] = IF rows[i].frames > 0 THEN Append(s[i - 1], rows[i]) ELSE s[i - 1]
  BY FramedSteps
<1>2. PICK t \in [0 .. Len(rows) -> Seq(RowType)] :
        /\ t[0] = <<>> /\ Framed(recs) = t[Len(rows)]
        /\ \A i \in 1 .. Len(rows) :
             t[i] = IF recs[i].frames > 0 THEN Append(t[i - 1], recs[i]) ELSE t[i - 1]
  BY FramedSteps
<1>0. Len(rows) \in Nat
  OBVIOUS
<1> DEFINE N == {n \in Nat : n <= Len(rows) => Alike(s[n], t[n])}
<1>3. 0 \in N
  BY <1>1, <1>2
<1>4. ASSUME NEW n \in Nat, n \in N PROVE n + 1 \in N
  <2>1. SUFFICES ASSUME n + 1 <= Len(rows) PROVE Alike(s[n + 1], t[n + 1])
    <3> HIDE DEF Alike
    <3>. QED
      OBVIOUS
  <2>2. n + 1 \in 1 .. Len(rows) /\ (n + 1) - 1 = n /\ n \in 0 .. Len(rows)
    BY <1>0, <2>1
  <2>3. s[n] \in Seq(RowType) /\ t[n] \in Seq(RowType)
    BY <2>2
  <2>4. Alike(s[n], t[n])
    <3> HIDE DEF Alike
    <3>. QED
      BY <1>4, <2>1, <1>0
  <2>5. s[n + 1] = IF rows[n + 1].frames > 0 THEN Append(s[n], rows[n + 1]) ELSE s[n]
    BY <1>1, <2>2
  <2>6. t[n + 1] = IF recs[n + 1].frames > 0 THEN Append(t[n], recs[n + 1]) ELSE t[n]
    BY <1>2, <2>2
  <2>7. /\ rows[n + 1].frames = recs[n + 1].frames /\ rows[n + 1].material = recs[n + 1].material
        /\ rows[n + 1] \in RowType /\ recs[n + 1] \in RowType
    BY <2>2
  <2>8. CASE rows[n + 1].frames > 0
    <3>1. s[n + 1] = Append(s[n], rows[n + 1]) /\ t[n + 1] = Append(t[n], recs[n + 1])
      BY <2>5, <2>6, <2>7, <2>8
    <3>. QED
      BY <2>3, <2>4, <2>7, <3>1
  <2>9. CASE ~(rows[n + 1].frames > 0)
    <3>1. s[n + 1] = s[n] /\ t[n + 1] = t[n]
      BY <2>5, <2>6, <2>7, <2>9
    <3> HIDE DEF Alike
    <3>. QED
      BY <2>4, <3>1
  <2>. QED
    <3> HIDE DEF Alike
    <3>. QED
      BY <2>8, <2>9
<1>5. Len(rows) \in N
  <2> HIDE DEF N
  <2>. QED
    BY <1>0, <1>3, <1>4, FromZero
<1>. QED
  BY <1>0, <1>1, <1>2, <1>5

\* The frames of all rows are a number.
LEMMA FramesAreNumbers ==
  ASSUME NEW rows \in Seq(RowType)
  PROVE  Frames(rows) \in Nat
BY FramesSteps

\* A row more adds its frames.
LEMMA FramesAppended ==
  ASSUME NEW rows \in Seq(RowType), NEW r \in RowType
  PROVE  Frames(Append(rows, r)) = Frames(rows) + r.frames
<1>0. Len(rows) \in Nat /\ r.frames \in Nat
  BY DEF RowType
<1>1. PICK more \in Seq(RowType) : /\ more = Append(rows, r) /\ Len(more) = Len(rows) + 1
                                   /\ \A k \in 1 .. Len(rows) : more[k] = rows[k]
                                   /\ more[Len(rows) + 1] = r
  <2>1. /\ Append(rows, r) \in Seq(RowType) /\ Len(Append(rows, r)) = Len(rows) + 1
        /\ \A k \in 1 .. Len(rows) : Append(rows, r)[k] = rows[k]
        /\ Append(rows, r)[Len(rows) + 1] = r
    OBVIOUS
  <2>. QED
    BY <2>1
<1>2. PICK s \in [0 .. Len(rows) -> Nat] :
        /\ s[0] = 0 /\ Frames(rows) = s[Len(rows)]
        /\ \A i \in 1 .. Len(rows) : s[i] = s[i - 1] + rows[i].frames
  BY FramesSteps
<1>3. PICK t \in [0 .. Len(rows) + 1 -> Nat] :
        /\ t[0] = 0 /\ Frames(more) = t[Len(rows) + 1]
        /\ \A i \in 1 .. Len(rows) + 1 : t[i] = t[i - 1] + more[i].frames
  BY <1>1, FramesSteps
<1> DEFINE N == {n \in Nat : n <= Len(rows) => t[n] = s[n]}
<1>4. 0 \in N
  BY <1>2, <1>3
<1>5. ASSUME NEW n \in Nat, n \in N PROVE n + 1 \in N
  <2>1. SUFFICES ASSUME n + 1 <= Len(rows) PROVE t[n + 1] = s[n + 1]
    OBVIOUS
  <2>2. n + 1 \in 1 .. Len(rows) /\ n + 1 \in 1 .. Len(rows) + 1 /\ (n + 1) - 1 = n
    BY <1>0, <2>1
  <2>3. t[n] = s[n] /\ more[n + 1] = rows[n + 1]
    BY <1>0, <1>1, <1>5, <2>1, <2>2
  <2>. QED
    BY <1>2, <1>3, <2>2, <2>3
<1>6. Len(rows) \in N
  <2> HIDE DEF N
  <2>. QED
    BY <1>0, <1>4, <1>5, FromZero
<1>7. /\ Len(rows) + 1 \in 1 .. Len(rows) + 1 /\ (Len(rows) + 1) - 1 = Len(rows)
  BY <1>0
<1>. QED
  BY <1>1, <1>2, <1>3, <1>6, <1>7

\* Changing one row changes the sum by what that row gains or loses.
LEMMA FramesChanged ==
  ASSUME NEW rows \in Seq(RowType), NEW next \in Seq(RowType), NEW k \in 1 .. Len(rows),
         Len(next) = Len(rows), \A i \in 1 .. Len(rows) : i # k => next[i] = rows[i]
  PROVE  Frames(next) + rows[k].frames = Frames(rows) + next[k].frames
<1>0. /\ Len(rows) \in Nat /\ k \in Nat
      /\ \A i \in 1 .. Len(rows) : rows[i].frames \in Nat /\ next[i].frames \in Nat
  <2>1. \A i \in 1 .. Len(rows) : rows[i] \in RowType /\ next[i] \in RowType
    OBVIOUS
  <2>. QED
    BY <2>1 DEF RowType
<1>1. PICK s \in [0 .. Len(rows) -> Nat] :
        /\ s[0] = 0 /\ Frames(rows) = s[Len(rows)]
        /\ \A i \in 1 .. Len(rows) : s[i] = s[i - 1] + rows[i].frames
  BY FramesSteps
<1>2. PICK t \in [0 .. Len(rows) -> Nat] :
        /\ t[0] = 0 /\ Frames(next) = t[Len(rows)]
        /\ \A i \in 1 .. Len(rows) : t[i] = t[i - 1] + next[i].frames
  BY FramesSteps
<1> DEFINE N == {n \in Nat : n <= Len(rows) =>
                   IF n < k THEN t[n] = s[n] ELSE t[n] + rows[k].frames = s[n] + next[k].frames}
<1>3. 0 \in N
  BY <1>0, <1>1, <1>2
<1>4. ASSUME NEW n \in Nat, n \in N PROVE n + 1 \in N
  <2>1. SUFFICES ASSUME n + 1 <= Len(rows)
                 PROVE  IF n + 1 < k THEN t[n + 1] = s[n + 1]
                        ELSE t[n + 1] + rows[k].frames = s[n + 1] + next[k].frames
    OBVIOUS
  <2>2. n + 1 \in 1 .. Len(rows) /\ (n + 1) - 1 = n /\ n \in 0 .. Len(rows)
    BY <1>0, <2>1
  <2>3. s[n] \in Nat /\ t[n] \in Nat /\ rows[n + 1].frames \in Nat /\ next[n + 1].frames \in Nat
    BY <1>0, <2>2
  <2>4. s[n + 1] = s[n] + rows[n + 1].frames /\ t[n + 1] = t[n] + next[n + 1].frames
    BY <1>1, <1>2, <2>2
  <2>5. IF n < k THEN t[n] = s[n] ELSE t[n] + rows[k].frames = s[n] + next[k].frames
    BY <1>0, <1>4, <2>1
  <2>6. n + 1 # k => next[n + 1] = rows[n + 1]
    BY <2>2
  <2>7. rows[k].frames \in Nat /\ next[k].frames \in Nat
    BY <1>0
  <2>8. CASE n + 1 < k
    BY <1>0, <2>4, <2>5, <2>6, <2>8
  <2>9. CASE n + 1 = k
    BY <1>0, <2>3, <2>4, <2>5, <2>9
  <2>10. CASE n >= k
    <3>1. ~(n < k) /\ ~(n + 1 < k) /\ n + 1 # k
      BY <1>0, <2>10
    <3>2. t[n] + rows[k].frames = s[n] + next[k].frames /\ next[n + 1].frames = rows[n + 1].frames
      BY <2>5, <2>6, <3>1
    <3>3. t[n + 1] + rows[k].frames = s[n + 1] + next[k].frames
      BY <2>3, <2>4, <2>7, <3>2
    <3>. QED
      BY <3>1, <3>3
  <2>. QED
    BY <1>0, <2>8, <2>9, <2>10
<1>5. Len(rows) \in N
  <2> HIDE DEF N
  <2>. QED
    BY <1>0, <1>3, <1>4, FromZero
<1>. QED
  BY <1>0, <1>1, <1>2, <1>5

\* Two sequences one after the other.
LEMMA Joined ==
  ASSUME NEW S, NEW a \in Seq(S), NEW b \in Seq(S)
  PROVE  /\ a \o b \in Seq(S) /\ Len(a \o b) = Len(a) + Len(b)
         /\ \A j \in 1 .. Len(a) + Len(b) :
              (a \o b)[j] = IF j <= Len(a) THEN a[j] ELSE b[j - Len(a)]
OBVIOUS

\* RemoveAt leaves what was before its place, and moves up what was after it.
LEMMA Removed ==
  ASSUME NEW S, NEW s \in Seq(S), NEW k \in DOMAIN s
  PROVE  /\ RemoveAt(s, k) \in Seq(S) /\ Len(RemoveAt(s, k)) = Len(s) - 1
         /\ \A j \in 1 .. Len(s) - 1 : RemoveAt(s, k)[j] = IF j < k THEN s[j] ELSE s[j + 1]
<1>1. Len(s) \in Nat /\ k \in 1 .. Len(s)
  OBVIOUS
<1>2. PICK a \in Seq(S) : a = SubSeq(s, 1, k - 1)
  <2>1. SubSeq(s, 1, k - 1) \in Seq(S)
    OBVIOUS
  <2>. QED
    BY <2>1
<1>3. PICK b \in Seq(S) : b = SubSeq(s, k + 1, Len(s))
  <2>1. SubSeq(s, k + 1, Len(s)) \in Seq(S)
    OBVIOUS
  <2>. QED
    BY <2>1
<1>4. Len(a) = k - 1 /\ \A j \in 1 .. k - 1 : a[j] = s[j]
  BY <1>2
<1>5. Len(b) = Len(s) - k /\ \A j \in 1 .. Len(s) - k : b[j] = s[k + j]
  BY <1>3
<1>6. RemoveAt(s, k) = a \o b
  BY <1>2, <1>3 DEF RemoveAt
<1>7. /\ RemoveAt(s, k) \in Seq(S) /\ Len(RemoveAt(s, k)) = Len(s) - 1
      /\ \A j \in 1 .. Len(s) - 1 :
           RemoveAt(s, k)[j] = IF j <= k - 1 THEN a[j] ELSE b[j - (k - 1)]
  BY <1>1, <1>4, <1>5, <1>6, Joined, SMTT(20)
<1>8. \A j \in k .. Len(s) - 1 : b[j - (k - 1)] = s[j + 1]
  <2>1. TAKE j \in k .. Len(s) - 1
  <2>2. j - (k - 1) \in 1 .. Len(s) - k /\ k + (j - (k - 1)) = j + 1
    BY <1>1
  <2>. QED
    BY <1>5, <2>2
<1>. QED
  <2> SUFFICES ASSUME NEW j \in 1 .. Len(s) - 1
               PROVE  RemoveAt(s, k)[j] = IF j < k THEN s[j] ELSE s[j + 1]
    BY <1>7
  <2>1. CASE j < k
    <3>1. j \in 1 .. k - 1 /\ j <= k - 1
      BY <1>1, <2>1
    <3>2. RemoveAt(s, k)[j] = a[j] /\ a[j] = s[j]
      BY <1>4, <1>7, <3>1
    <3>. QED
      BY <2>1, <3>2
  <2>2. CASE ~(j < k)
    <3>1. j \in k .. Len(s) - 1 /\ ~(j <= k - 1)
      BY <1>1, <2>2
    <3>2. RemoveAt(s, k)[j] = b[j - (k - 1)] /\ b[j - (k - 1)] = s[j + 1]
      BY <1>7, <1>8, <3>1
    <3>. QED
      BY <2>2, <3>2
  <2>. QED
    BY <2>1, <2>2

\* The frames of the others, beside those of one row.
LEMMA FramesRemoved ==
  ASSUME NEW rows \in Seq(RowType), NEW k \in 1 .. Len(rows)
  PROVE  Frames(RemoveAt(rows, k)) + rows[k].frames = Frames(rows)
<1>1. PICK less \in Seq(RowType) :
        /\ less = RemoveAt(rows, k) /\ Len(less) = Len(rows) - 1
        /\ \A j \in 1 .. Len(rows) - 1 : less[j] = IF j < k THEN rows[j] ELSE rows[j + 1]
  <2>1. k \in DOMAIN rows
    OBVIOUS
  <2>. QED
    BY <2>1, Removed
<1>0. /\ Len(rows) \in Nat /\ Len(rows) - 1 \in Nat /\ k \in Nat /\ k >= 1
      /\ \A i \in 1 .. Len(rows) : rows[i].frames \in Nat
  <2>1. \A i \in 1 .. Len(rows) : rows[i] \in RowType
    OBVIOUS
  <2>. QED
    BY <2>1 DEF RowType
<1>2. PICK s \in [0 .. Len(rows) -> Nat] :
        /\ s[0] = 0 /\ Frames(rows) = s[Len(rows)]
        /\ \A i \in 1 .. Len(rows) : s[i] = s[i - 1] + rows[i].frames
  BY FramesSteps
<1>3. PICK t \in [0 .. Len(rows) - 1 -> Nat] :
        /\ t[0] = 0 /\ Frames(less) = t[Len(rows) - 1]
        /\ \A i \in 1 .. Len(rows) - 1 : t[i] = t[i - 1] + less[i].frames
  BY <1>1, FramesSteps
<1> DEFINE N == {n \in Nat : n <= Len(rows) - 1 =>
                   IF n < k THEN t[n] = s[n] ELSE t[n] + rows[k].frames = s[n + 1]}
<1>4. 0 \in N
  BY <1>0, <1>2, <1>3
<1>5. ASSUME NEW n \in Nat, n \in N PROVE n + 1 \in N
  <2>1. SUFFICES ASSUME n + 1 <= Len(rows) - 1
                 PROVE  IF n + 1 < k THEN t[n + 1] = s[n + 1]
                        ELSE t[n + 1] + rows[k].frames = s[n + 2]
    OBVIOUS
  <2>2. /\ n + 1 \in 1 .. Len(rows) - 1 /\ (n + 1) - 1 = n /\ n \in 0 .. Len(rows) - 1
        /\ n \in 0 .. Len(rows)
        /\ n + 1 \in 1 .. Len(rows) /\ n + 2 \in 1 .. Len(rows) /\ (n + 2) - 1 = n + 1
    BY <1>0, <2>1
  <2>3. /\ s[n] \in Nat /\ t[n] \in Nat /\ rows[n + 1].frames \in Nat
        /\ rows[n + 2].frames \in Nat /\ rows[k].frames \in Nat
    BY <1>0, <2>2
  <2>4. /\ s[n + 1] = s[n] + rows[n + 1].frames /\ s[n + 2] = s[n + 1] + rows[n + 2].frames
        /\ t[n + 1] = t[n] + less[n + 1].frames
    BY <1>2, <1>3, <2>2
  <2>5. IF n < k THEN t[n] = s[n] ELSE t[n] + rows[k].frames = s[n + 1]
    BY <1>0, <1>5, <2>1
  <2>6. less[n + 1] = IF n + 1 < k THEN rows[n + 1] ELSE rows[n + 2]
    <3>1. (n + 1) + 1 = n + 2
      OBVIOUS
    <3>. QED
      BY <1>1, <2>2, <3>1
  <2>7. CASE n + 1 < k
    <3>1. n < k
      BY <1>0, <2>7
    <3>. QED
      BY <2>4, <2>5, <2>6, <2>7, <3>1
  <2>8. CASE n + 1 = k
    <3>1. n < k /\ ~(n + 1 < k)
      BY <1>0, <2>8
    <3>2. t[n] = s[n] /\ less[n + 1] = rows[n + 2]
      BY <2>5, <2>6, <3>1
    <3>3. t[n + 1] + rows[k].frames = s[n + 2]
      BY <2>3, <2>4, <2>8, <3>2
    <3>. QED
      BY <3>1, <3>3
  <2>9. CASE n >= k
    <3>1. ~(n < k) /\ ~(n + 1 < k)
      BY <1>0, <2>9
    <3>2. t[n] + rows[k].frames = s[n + 1] /\ less[n + 1] = rows[n + 2]
      BY <2>5, <2>6, <3>1
    <3>3. t[n + 1] + rows[k].frames = s[n + 2]
      BY <2>3, <2>4, <3>2
    <3>. QED
      BY <3>1, <3>3
  <2>. QED
    BY <1>0, <2>7, <2>8, <2>9
<1>6. Len(rows) - 1 \in N
  <2> HIDE DEF N
  <2>. QED
    BY <1>0, <1>4, <1>5, FromZero
<1>7. CASE k = Len(rows)
  <2>1. t[Len(rows) - 1] = s[Len(rows) - 1]
    BY <1>0, <1>6, <1>7
  <2>2. s[Len(rows)] = s[Len(rows) - 1] + rows[k].frames
    BY <1>2, <1>7
  <2>. QED
    BY <1>1, <1>2, <1>3, <2>1, <2>2
<1>8. CASE k < Len(rows)
  <2>1. ~(Len(rows) - 1 < k) /\ (Len(rows) - 1) + 1 = Len(rows)
    BY <1>0, <1>8
  <2>. QED
    BY <1>0, <1>1, <1>2, <1>3, <1>6, <2>1
<1>. QED
  BY <1>0, <1>7, <1>8

\* Among the members of a pair of numbers, the smaller and the larger.
LEMMA MinOfTwo ==
  ASSUME NEW a \in Nat, NEW b \in Nat
  PROVE  Min({a, b}) = IF a <= b THEN a ELSE b
<1> DEFINE m == IF a <= b THEN a ELSE b
<1>1. \A x \in {a, b} : (\A y \in {a, b} : x =< y) <=> x = m
  OBVIOUS
<1>2. m \in {a, b}
  OBVIOUS
<1>. QED
  BY <1>1, <1>2 DEF Min

LEMMA MaxOfTwo ==
  ASSUME NEW a \in Nat, NEW b \in Nat
  PROVE  Max({a, b}) = IF a >= b THEN a ELSE b
<1> DEFINE m == IF a >= b THEN a ELSE b
<1>1. \A x \in {a, b} : (\A y \in {a, b} : x >= y) <=> x = m
  OBVIOUS
<1>2. m \in {a, b}
  OBVIOUS
<1>. QED
  BY <1>1, <1>2 DEF Max

-----------------------------------------------------------------------------
(* Assets: their types, the images they name, the rows of a format.        *)

\* The parts of an asset.
LEMMA AssetShape ==
  ASSUME NEW a \in AssetType
  PROVE  /\ a.ids \in [Fs -> Images \cup {None}] /\ a.legacy \in Images \cup {None}
         /\ a.rows \in [Fs -> Seq(RowType) \cup {None}]
BY DEF AssetType

LEMMA IdsTyped ==
  ASSUME NEW a \in AssetType
  PROVE  NormalizeCreativeImageIds(a) \in [Fs -> Images \cup {None}]
BY AssetShape DEF NormalizeCreativeImageIds

LEMMA RowsForTyped ==
  ASSUME NEW a \in AssetType, NEW f \in Fs
  PROVE  RowsFor(a, f) \in Seq(RowType) /\ Framed(RowsFor(a, f)) = RowsFor(a, f)
<1>1. CASE a.rows[f] = None
  <2>1. PICK e \in Seq(RowType) : e = <<>> /\ Len(e) = 0
    <3>1. <<>> \in Seq(RowType) /\ Len(<<>>) = 0
      OBVIOUS
    <3>. QED
      BY <3>1
  <2>2. Framed(e) = e
    <3>1. \A k \in 1 .. Len(e) : e[k].frames > 0
      BY <2>1
    <3>. QED
      BY <3>1, AllFramed
  <2>. QED
    BY <1>1, <2>1, <2>2 DEF RowsFor
<1>2. CASE a.rows[f] # None
  <2>1. a.rows[f] \in Seq(RowType)
    BY <1>2, AssetShape
  <2>. QED
    BY <1>2, <2>1, FramedRows, FramedTwice DEF RowsFor
<1>. QED
  BY <1>1, <1>2

LEMMA RowsTyped ==
  ASSUME NEW a \in AssetType
  PROVE  NormalizeRows(a) \in [Fs -> Seq(RowType) \cup {None}]
BY RowsForTyped DEF NormalizeRows

\* What the normalised rows of a format are read as.
LEMMA RowsRead ==
  ASSUME NEW a \in AssetType, NEW b, NEW f \in Fs
  PROVE  /\ b.rows[f] = NormalizeRows(a)[f] => RowsFor(b, f) = RowsFor(a, f)
         /\ \A t \in Seq(RowType) : b.rows[f] = t => RowsFor(b, f) = Framed(t)
<1>0. RowsFor(a, f) \in Seq(RowType) /\ Framed(RowsFor(a, f)) = RowsFor(a, f)
  BY RowsForTyped
<1>1. \A t \in Seq(RowType) : t # None
  BY ArtworkAssumption
<1>2. \A t \in Seq(RowType) : b.rows[f] = t => RowsFor(b, f) = Framed(t)
  BY <1>1 DEF RowsFor
<1>3. NormalizeRows(a)[f] = IF RowsFor(a, f) = <<>> THEN None ELSE RowsFor(a, f)
  BY DEF NormalizeRows
<1>4. ASSUME b.rows[f] = NormalizeRows(a)[f] PROVE RowsFor(b, f) = RowsFor(a, f)
  <2>1. CASE RowsFor(a, f) = <<>>
    <3>1. b.rows[f] = None
      BY <1>3, <1>4, <2>1
    <3>. QED
      BY <2>1, <3>1 DEF RowsFor
  <2>2. CASE RowsFor(a, f) # <<>>
    <3>1. b.rows[f] = RowsFor(a, f)
      BY <1>3, <1>4, <2>2
    <3>. QED
      BY <1>0, <1>2, <3>1
  <2>. QED
    BY <2>1, <2>2
<1>. QED
  BY <1>2, <1>4

\* Does some row have the image?
RowsName(rows, i) == \E k \in 1 .. Len(rows) : rows[k].image = i

\* The images an asset names, place by place.
LEMMA ImagesNamed ==
  ASSUME NEW a \in AssetType, NEW i
  PROVE  i \in ImagesOf(a) <=>
           i # None /\ \/ i = a.legacy
                       \/ \E f \in Fs : a.ids[f] = i
                       \/ \E f \in Fs : RowsName(RowsFor(a, f), i)
<1>1. \A f \in Fs : i \in {r.image : r \in ToSet(RowsFor(a, f))} <=> RowsName(RowsFor(a, f), i)
  <2>1. TAKE f \in Fs
  <2>2. RowsFor(a, f) \in Seq(RowType)
    BY RowsForTyped
  <2>3. DOMAIN RowsFor(a, f) = 1 .. Len(RowsFor(a, f))
    BY <2>2
  <2>. QED
    BY <2>3 DEF ToSet, RowsName
<1>2. i # None => (i \in {NormalizeCreativeImageIds(a)[f] : f \in Fs} \cup {a.legacy} <=>
                     i = a.legacy \/ \E f \in Fs : a.ids[f] = i)
  <2>1. CASE \A f \in Fs : a.ids[f] = None
    BY <2>1 DEF NormalizeCreativeImageIds
  <2>2. CASE ~ \A f \in Fs : a.ids[f] = None
    BY <2>2 DEF NormalizeCreativeImageIds
  <2>. QED
    BY <2>1, <2>2
<1>3. i \in UNION {{r.image : r \in ToSet(RowsFor(a, f))} : f \in Fs} <=>
        \E f \in Fs : RowsName(RowsFor(a, f), i)
  <2>1. i \in UNION {{r.image : r \in ToSet(RowsFor(a, f))} : f \in Fs} <=>
          \E f \in Fs : i \in {r.image : r \in ToSet(RowsFor(a, f))}
    OBVIOUS
  <2>. QED
    BY <1>1, <2>1
<1>4. i \in ImagesOf(a) <=>
        i # None /\ \/ i \in {NormalizeCreativeImageIds(a)[f] : f \in Fs} \cup {a.legacy}
                    \/ i \in UNION {{r.image : r \in ToSet(RowsFor(a, f))} : f \in Fs}
  BY DEF ImagesOf
<1>. QED
  BY <1>2, <1>3, <1>4

\* So do the normalised ids.
LEMMA IdsNamed ==
  ASSUME NEW a \in AssetType, NEW f \in Fs
  PROVE  NormalizeCreativeImageIds(a)[f] \in ImagesOf(a) \cup {None}
<1>1. NormalizeCreativeImageIds(a)[f] \in {a.ids[f], a.legacy}
  BY AssetShape DEF NormalizeCreativeImageIds
<1>. QED
  BY <1>1, ImagesNamed

LEMMA RowsNamed ==
  ASSUME NEW a \in AssetType, NEW f \in Fs, NEW k \in 1 .. Len(RowsFor(a, f))
  PROVE  RowsFor(a, f)[k].image \in ImagesOf(a) \cup {None}
<1>1. RowsName(RowsFor(a, f), RowsFor(a, f)[k].image)
  BY DEF RowsName
<1>. QED
  BY <1>1, ImagesNamed

LEMMA CreativeImageNamed ==
  ASSUME NEW a \in AssetType, NEW f \in Fs
  PROVE  CreativeImageFor(a, f) \in ImagesOf(a) \cup {None}
<1>1. CreativeImageFor(a, f) \in {a.ids[f], a.ids[Eight], None, a.legacy}
  BY DEF CreativeImageFor
<1>2. \A g \in Fs : a.ids[g] \in ImagesOf(a) \cup {None}
  BY ImagesNamed
<1>3. Eight \in Fs
  BY ArtworkAssumption
<1>. QED
  BY <1>1, <1>2, <1>3, ImagesNamed

LEMMA ImagesTyped ==
  ASSUME NEW a \in AssetType
  PROVE  ImagesOf(a) \subseteq Images
<1>1. SUFFICES ASSUME NEW i \in ImagesOf(a) PROVE i \in Images
  OBVIOUS
<1>2. i # None /\ (i = a.legacy \/ (\E f \in Fs : a.ids[f] = i)
                    \/ \E f \in Fs : RowsName(RowsFor(a, f), i))
  BY ImagesNamed
<1>3. CASE \E f \in Fs : RowsName(RowsFor(a, f), i)
  <2>1. PICK f \in Fs : \E k \in 1 .. Len(RowsFor(a, f)) : RowsFor(a, f)[k].image = i
    BY <1>3 DEF RowsName
  <2>2. \A k \in 1 .. Len(RowsFor(a, f)) : RowsFor(a, f)[k] \in RowType
    <3>1. RowsFor(a, f) \in Seq(RowType)
      BY RowsForTyped
    <3>. QED
      BY <3>1
  <2>. QED
    BY <1>2, <2>1, <2>2 DEF RowType
<1>. QED
  BY <1>2, <1>3, AssetShape

\* The first mapped image is one of those that are mapped.
LEMMA FirstIsMapped ==
  ASSUME NEW ids \in [Fs -> Images \cup {None}]
  PROVE  FirstMapped(ids) = None \/ \E f \in Fs : FirstMapped(ids) = ids[f]
<1> DEFINE mapped == {k \in DOMAIN Formats : ids[Formats[k]] # None}
<1>1. Formats \in Seq(Fs)
  BY ArtworkAssumption
<1>2. CASE mapped = {}
  BY <1>2 DEF FirstMapped
<1>3. CASE mapped # {}
  <2>1. mapped \in SUBSET Nat /\ mapped \subseteq DOMAIN Formats
    BY <1>1
  <2>2. \E k \in mapped : \A j \in mapped : k <= j
    <3> HIDE DEF mapped
    <3>. QED
      BY <1>3, <2>1, Least
  <2>3. Min(mapped) \in mapped
    <3> HIDE DEF mapped
    <3>. QED
      BY <2>2 DEF Min
  <2>4. Formats[Min(mapped)] \in Fs
    BY <1>1, <2>1, <2>3
  <2>. QED
    BY <1>3, <2>4 DEF FirstMapped
<1>. QED
  BY <1>2, <1>3

\* Rows that are given images keep their number and frames.
LEMMA Painted ==
  ASSUME NEW rows \in Seq(RowType), NEW next,
         DOMAIN next = DOMAIN rows, next = [k \in DOMAIN rows |-> next[k]],
         \A k \in DOMAIN rows : next[k] \in RowType
  PROVE  next \in Seq(RowType) /\ Len(next) = Len(rows)
<1>1. DOMAIN rows = 1 .. Len(rows) /\ Len(rows) \in Nat
  OBVIOUS
<1>2. next \in [1 .. Len(rows) -> RowType]
  BY <1>1
<1>3. next \in Seq(RowType)
  BY <1>1, <1>2
<1>. QED
  BY <1>1, <1>3

-----------------------------------------------------------------------------
(* What the handlers make of an asset.                                     *)

\* Do the rows name images of S alone?
RowsWithin(rows, S) == \A k \in 1 .. Len(rows) : rows[k].image \in S \cup {None}

LEMMA OwnRows ==
  ASSUME NEW a \in AssetType, NEW f \in Fs, NEW S, ImagesOf(a) \subseteq S
  PROVE  RowsWithin(RowsFor(a, f), S)
BY RowsNamed DEF RowsWithin

\* The rows of b are those of a, or others that name images of S.
RowsOfWithin(a, b, f, S) ==
  \/ b.rows[f] = NormalizeRows(a)[f] /\ RowsWithin(RowsFor(a, f), S)
  \/ \E t \in Seq(RowType) : b.rows[f] = t /\ RowsWithin(t, S)

LEMMA ImagesWithin ==
  ASSUME NEW a \in AssetType, NEW b \in AssetType, NEW S, b.legacy \in S \cup {None},
         \A f \in Fs : b.ids[f] \in S \cup {None} /\ RowsOfWithin(a, b, f, S)
  PROVE  ImagesOf(b) \subseteq S
<1>1. ASSUME NEW f \in Fs PROVE RowsWithin(RowsFor(b, f), S)
  <2>1. CASE b.rows[f] = NormalizeRows(a)[f] /\ RowsWithin(RowsFor(a, f), S)
    BY <2>1, RowsRead
  <2>2. CASE \E t \in Seq(RowType) : b.rows[f] = t /\ RowsWithin(t, S)
    <3>1. PICK t \in Seq(RowType) : b.rows[f] = t /\ RowsWithin(t, S)
      BY <2>2
    <3>2. RowsFor(b, f) = Framed(t)
      BY <3>1, RowsRead
    <3>3. \A j \in 1 .. Len(Framed(t)) : \E k \in 1 .. Len(t) : Framed(t)[j] = t[k]
      <4>1. DOMAIN t = 1 .. Len(t)
        OBVIOUS
      <4>. QED
        BY <4>1, FramedRows DEF ToSet
    <3>. QED
      BY <3>1, <3>2, <3>3 DEF RowsWithin
  <2>. QED
    BY <2>1, <2>2 DEF RowsOfWithin
<1>2. SUFFICES ASSUME NEW i \in ImagesOf(b) PROVE i \in S
  OBVIOUS
<1>3. i # None /\ (i = b.legacy \/ (\E f \in Fs : b.ids[f] = i)
                    \/ \E f \in Fs : RowsName(RowsFor(b, f), i))
  BY ImagesNamed
<1>. QED
  BY <1>1, <1>3 DEF RowsName, RowsWithin

\* A dialog of rows writes its records: those with frames become the rows.
Synced(a, f, recs) == [a EXCEPT !.rows = [NormalizeRows(a) EXCEPT ![f] = Framed(recs)]]

LEMMA SyncedAsset ==
  ASSUME NEW a \in AssetType, NEW f \in Fs, NEW recs \in Seq(RowType), NEW S,
         ImagesOf(a) \subseteq S, RowsWithin(recs, S)
  PROVE  /\ Synced(a, f, recs) \in AssetType /\ ImagesOf(Synced(a, f, recs)) \subseteq S
         /\ RowsFor(Synced(a, f, recs), f) = Framed(recs)
<1> DEFINE b == Synced(a, f, recs)
<1>1. /\ b.ids = a.ids /\ b.legacy = a.legacy
      /\ b.rows = [NormalizeRows(a) EXCEPT ![f] = Framed(recs)]
  BY DEF Synced, AssetType
<1>2. Framed(recs) \in Seq(RowType)
  BY FramedRows
<1>3. b.rows \in [Fs -> Seq(RowType) \cup {None}]
  BY <1>1, <1>2, RowsTyped
<1>4. b \in AssetType
  BY <1>3 DEF Synced, AssetType
<1>5. b.rows[f] = Framed(recs) /\ \A g \in Fs : g # f => b.rows[g] = NormalizeRows(a)[g]
  BY <1>1, RowsTyped
<1>6. RowsWithin(Framed(recs), S)
  <2>1. \A j \in 1 .. Len(Framed(recs)) : \E k \in 1 .. Len(recs) : Framed(recs)[j] = recs[k]
    <3>1. DOMAIN recs = 1 .. Len(recs)
      OBVIOUS
    <3>. QED
      BY <3>1, FramedRows DEF ToSet
  <2>. QED
    BY <2>1 DEF RowsWithin
<1>7. \A g \in Fs : RowsOfWithin(a, b, g, S)
  <2> HIDE DEF b
  <2>. QED
    BY <1>2, <1>5, <1>6, OwnRows DEF RowsOfWithin
<1>8. b.legacy \in S \cup {None} /\ \A g \in Fs : b.ids[g] \in S \cup {None}
  BY <1>1, ImagesNamed
<1>9. ImagesOf(b) \subseteq S
  <2> HIDE DEF b
  <2>. QED
    BY <1>4, <1>7, <1>8, ImagesWithin
<1>10. RowsFor(b, f) = Framed(recs)
  <2> HIDE DEF b
  <2>. QED
    BY <1>2, <1>5, RowsRead, FramedTwice
<1>. QED
  BY <1>4, <1>9, <1>10

\* A format is given an image, or none.
LEMMA FormatImageSet ==
  ASSUME NEW a \in AssetType, NEW f \in Fs, NEW i \in Images \cup {None}
  PROVE  /\ WithFormatImage(a, f, i) \in AssetType
         /\ ImagesOf(WithFormatImage(a, f, i)) \subseteq (ImagesOf(a) \cup {i}) \ {None}
<1> DEFINE b == WithFormatImage(a, f, i)
           S == (ImagesOf(a) \cup {i}) \ {None}
           ids == [NormalizeCreativeImageIds(a) EXCEPT ![f] = i]
           rows == RowsFor(a, f)
           next == [k \in DOMAIN rows |-> [rows[k] EXCEPT !.image = i]]
<1>1. /\ b.ids = ids /\ b.legacy = FirstMapped(ids)
      /\ b.rows = IF rows = <<>> THEN NormalizeRows(a) ELSE [NormalizeRows(a) EXCEPT ![f] = next]
  BY DEF WithFormatImage
<1>2. ids \in [Fs -> Images \cup {None}] /\ \A g \in Fs : ids[g] \in S \cup {None}
  BY IdsTyped, IdsNamed
<1>3. FirstMapped(ids) \in (Images \cup {None}) /\ FirstMapped(ids) \in S \cup {None}
  <2> HIDE DEF ids
  <2>. QED
    BY <1>2, FirstIsMapped
<1>4. next \in Seq(RowType) /\ Len(next) = Len(rows) /\ RowsWithin(next, S)
  <2>1. rows \in Seq(RowType) /\ DOMAIN rows = 1 .. Len(rows)
    BY RowsForTyped
  <2>2. \A k \in DOMAIN rows : next[k] \in RowType /\ next[k].image = i
    <3>1. \A k \in DOMAIN rows : rows[k] \in RowType
      BY <2>1
    <3> HIDE DEF rows
    <3>. QED
      BY <3>1 DEF RowType
  <2>3. next \in Seq(RowType) /\ Len(next) = Len(rows)
    BY <2>1, <2>2, Painted
  <2>. QED
    BY <2>1, <2>2, <2>3 DEF RowsWithin
<1>5. b.rows \in [Fs -> Seq(RowType) \cup {None}]
  <2> HIDE DEF next, rows, b
  <2>. QED
    BY <1>1, <1>4, RowsTyped
<1>6. b \in AssetType
  <2> HIDE DEF next, rows, ids
  <2>. QED
    BY <1>1, <1>2, <1>3, <1>5 DEF AssetType, WithFormatImage
<1>7. \A g \in Fs : RowsOfWithin(a, b, g, S)
  <2>1. ASSUME NEW g \in Fs PROVE RowsOfWithin(a, b, g, S)
    <3>1. b.rows[g] = NormalizeRows(a)[g] \/ b.rows[g] = next
      <4> HIDE DEF next, rows, b
      <4>. QED
        BY <1>1, RowsTyped
    <3>2. ImagesOf(a) \subseteq S
      BY ImagesNamed
    <3> HIDE DEF next, rows, b, S
    <3>. QED
      BY <1>4, <3>1, <3>2, OwnRows DEF RowsOfWithin
  <2>. QED
    BY <2>1
<1>. QED
  <2>1. b.legacy \in S \cup {None} /\ \A g \in Fs : b.ids[g] \in S \cup {None}
    BY <1>1, <1>2, <1>3
  <2> HIDE DEF b, S
  <2>2. ImagesOf(b) \subseteq S
    BY <1>6, <1>7, <2>1, ImagesWithin
  <2>. QED
    BY <1>6, <2>2 DEF b, S

\* A summary gives rows to the formats that have none.
LEMMA DefaultsSet ==
  ASSUME NEW x, assets[x] \in AssetType, NEW p, p[x] \in [Fs -> Nat]
  PROVE  /\ DefaultRows(x, p) \in AssetType
         /\ ImagesOf(DefaultRows(x, p)) \subseteq ImagesOf(assets[x])
<1> DEFINE a == assets[x]
           b == DefaultRows(x, p)
           new == {f \in Fs : p[x][f] > 0 /\ a.rows[f] = None}
           row(f) == <<Row(CreativeImageFor(a, f), Material, p[x][f])>>
           S == ImagesOf(a)
<1>1. CASE new = {}
  BY <1>1 DEF DefaultRows
<1>2. CASE new # {}
  <2>1. b = [a EXCEPT !.rows = [f \in Fs |-> IF f \in new THEN row(f) ELSE NormalizeRows(a)[f]]]
    BY <1>2 DEF DefaultRows
  <2>2. /\ b.ids = a.ids /\ b.legacy = a.legacy
        /\ b.rows = [f \in Fs |-> IF f \in new THEN row(f) ELSE NormalizeRows(a)[f]]
    <3> HIDE DEF b, new, row
    <3>. QED
      BY <2>1, AssetShape DEF AssetType
  <2>3. ASSUME NEW f \in Fs PROVE row(f) \in Seq(RowType) /\ RowsWithin(row(f), S)
    <3>1. CreativeImageFor(a, f) \in S \cup {None} /\ S \subseteq Images /\ p[x][f] \in Nat
      BY CreativeImageNamed, ImagesTyped
    <3>2. PICK r \in RowType : r = Row(CreativeImageFor(a, f), Material, p[x][f]) /\ r.image \in S \cup {None}
      <4>1. PICK c \in Images \cup {None}, n \in Nat :
              c = CreativeImageFor(a, f) /\ n = p[x][f] /\ c \in S \cup {None}
        <5> HIDE DEF S
        <5>. QED
          BY <3>1
      <4>2. Row(c, Material, n) \in RowType /\ Row(c, Material, n).image = c
        BY DEF Row, RowType
      <4>. QED
        BY <4>1, <4>2
    <3>3. <<r>> \in Seq(RowType) /\ RowsWithin(<<r>>, S)
      <4>1. Len(<<r>>) = 1 /\ <<r>>[1] = r
        OBVIOUS
      <4>2. \A k \in 1 .. 1 : k = 1
        OBVIOUS
      <4>. QED
        BY <3>2, <4>1, <4>2 DEF RowsWithin
    <3>. QED
      BY <3>2, <3>3
  <2>4. \A f \in Fs : RowsOfWithin(a, b, f, S)
    <3> HIDE DEF row, b, new
    <3>. QED
      BY <2>2, <2>3, OwnRows DEF RowsOfWithin
  <2>5. b.rows \in [Fs -> Seq(RowType) \cup {None}]
    <3> HIDE DEF row, b, new
    <3>. QED
      BY <2>2, <2>3, RowsTyped
  <2>6. b \in AssetType
    <3> HIDE DEF row, b, new
    <3>. QED
      BY <2>1, <2>2, <2>5, AssetShape DEF AssetType
  <2>7. b.legacy \in S \cup {None} /\ \A f \in Fs : b.ids[f] \in S \cup {None}
    BY <2>2, ImagesNamed
  <2> HIDE DEF b, S
  <2>8. ImagesOf(b) \subseteq S
    BY <2>4, <2>6, <2>7, ImagesWithin
  <2>. QED
    BY <2>6, <2>8 DEF b, S
<1>. QED
  BY <1>1, <1>2

\* An asset is ticked beside an image: it names that one more at most.
LEMMA TickedNames ==
  ASSUME NEW x, assets[x] \in AssetType, NEW i \in Images
  PROVE  Ticked(x, i) \in AssetType /\ ImagesOf(Ticked(x, i)) \subseteq ImagesOf(assets[x]) \cup {i}
<1> DEFINE a == assets[x]
           fs == ArtworkFormats(x)
           b == Ticked(x, i)
           S == ImagesOf(a) \cup {i}
           ids == [f \in Fs |-> IF f \in fs THEN i ELSE NormalizeCreativeImageIds(a)[f]]
           Row1(r, k) == IF k = 1 \/ r.image = None THEN [r EXCEPT !.image = i] ELSE r
           next(f) == [k \in DOMAIN RowsFor(a, f) |-> Row1(RowsFor(a, f)[k], k)]
<1>0. i # None
  BY ArtworkAssumption
<1>1. CASE fs = {}
  <2>1. b = [a EXCEPT !.legacy = i]
    BY <1>1 DEF Ticked
  <2>2. b \in AssetType /\ b.ids = a.ids /\ b.legacy = i /\ b.rows = a.rows
    <3> HIDE DEF b
    <3>. QED
      BY <2>1 DEF AssetType
  <2>3. \A f \in Fs : RowsFor(b, f) = RowsFor(a, f)
    <3> HIDE DEF b
    <3>. QED
      BY <2>2 DEF RowsFor
  <2> HIDE DEF b
  <2>. QED
    BY <2>2, <2>3, ImagesNamed DEF b
<1>2. CASE fs # {}
  <2>1. b = [ids |-> ids, legacy |-> i, rows |-> [f \in Fs |->
               IF f \in fs /\ RowsFor(a, f) # <<>> THEN next(f) ELSE NormalizeRows(a)[f]]]
    BY <1>2 DEF Ticked
  <2>2. ids \in [Fs -> Images \cup {None}] /\ \A f \in Fs : ids[f] \in S \cup {None}
    BY IdsTyped, IdsNamed
  <2>3. ASSUME NEW f \in Fs PROVE next(f) \in Seq(RowType) /\ RowsWithin(next(f), S)
    <3>1. PICK rows \in Seq(RowType) : rows = RowsFor(a, f) /\ RowsWithin(rows, S)
      BY RowsForTyped, OwnRows
    <3>2. DOMAIN rows = 1 .. Len(rows) /\ \A k \in DOMAIN rows : rows[k] \in RowType
      OBVIOUS
    <3>3. ASSUME NEW k \in DOMAIN rows
          PROVE  Row1(rows[k], k) \in RowType /\ Row1(rows[k], k).image \in S \cup {None}
      <4>1. CASE k = 1 \/ rows[k].image = None
        <5>1. Row1(rows[k], k) = [rows[k] EXCEPT !.image = i]
          BY <4>1
        <5>2. rows[k] \in RowType
          BY <3>2
        <5> HIDE DEF Row1
        <5>. QED
          BY <5>1, <5>2 DEF RowType
      <4>2. CASE ~(k = 1 \/ rows[k].image = None)
        <5>1. Row1(rows[k], k) = rows[k]
          BY <4>2
        <5> HIDE DEF Row1
        <5>. QED
          BY <3>1, <3>2, <5>1 DEF RowsWithin
      <4>. QED
        BY <4>1, <4>2
    <3>4. next(f) = [k \in DOMAIN rows |-> Row1(rows[k], k)]
      BY <3>1
    <3> HIDE DEF Row1, next
    <3>5. next(f) \in Seq(RowType) /\ Len(next(f)) = Len(rows)
      BY <3>3, <3>4, Painted
    <3>. QED
      BY <3>2, <3>3, <3>4, <3>5 DEF RowsWithin
  <2> HIDE DEF ids, next
  <2>4. \A f \in Fs : RowsOfWithin(a, b, f, S)
    <3>1. \A f \in Fs : b.rows[f] = next(f) \/ b.rows[f] = NormalizeRows(a)[f]
      <4> HIDE DEF b
      <4>. QED
        BY <2>1
    <3> HIDE DEF b
    <3>. QED
      BY <2>3, <3>1, OwnRows DEF RowsOfWithin
  <2>5. b \in AssetType
    <3>1. \A f \in Fs : next(f) \in Seq(RowType) /\ NormalizeRows(a)[f] \in Seq(RowType) \cup {None}
      BY <2>3, RowsTyped
    <3> HIDE DEF b
    <3>. QED
      BY <2>1, <2>2, <3>1 DEF AssetType
  <2>6. b.legacy \in S \cup {None} /\ \A f \in Fs : b.ids[f] \in S \cup {None}
    <3> HIDE DEF b
    <3>. QED
      BY <2>1, <2>2
  <2> HIDE DEF b, S
  <2>7. ImagesOf(b) \subseteq S
    BY <2>4, <2>5, <2>6, ImagesWithin
  <2>. QED
    BY <2>5, <2>7 DEF b, S
<1>. QED
  BY <1>1, <1>2

\* Does a format the asset does not plan still have the image?
StillIn(x, i) ==
  \E f \in Fs \ ArtworkFormats(x) : \/ NormalizeCreativeImageIds(assets[x])[f] = i
                                    \/ RowsName(RowsFor(assets[x], f), i)

\* An asset is unticked: it names no other image, and names that one no longer
\* but in a format it does not plan.
LEMMA UntickedNames ==
  ASSUME NEW x, assets[x] \in AssetType, NEW i \in Images
  PROVE  /\ Unticked(x, i) \in AssetType /\ ImagesOf(Unticked(x, i)) \subseteq ImagesOf(assets[x])
         /\ i \in ImagesOf(Unticked(x, i)) => StillIn(x, i)
<1> DEFINE a == assets[x]
           fs == ArtworkFormats(x)
           b == Unticked(x, i)
           T == IF StillIn(x, i) THEN ImagesOf(a) ELSE ImagesOf(a) \ {i}
           ids == [f \in Fs |-> IF f \in fs /\ NormalizeCreativeImageIds(a)[f] = i THEN None
                                ELSE NormalizeCreativeImageIds(a)[f]]
           Bare(r) == IF r.image = i THEN [r EXCEPT !.image = None] ELSE r
           next(f) == [k \in DOMAIN RowsFor(a, f) |-> Bare(RowsFor(a, f)[k])]
<1>0. i # None
  BY ArtworkAssumption
<1>1. CASE fs = {}
  <2>1. b = [a EXCEPT !.legacy = IF a.legacy = i THEN None ELSE a.legacy]
    BY <1>1 DEF Unticked
  <2>2. /\ b \in AssetType /\ b.ids = a.ids /\ b.rows = a.rows
        /\ b.legacy = IF a.legacy = i THEN None ELSE a.legacy
    <3> HIDE DEF b
    <3>. QED
      BY <2>1 DEF AssetType
  <2>3. \A f \in Fs : RowsFor(b, f) = RowsFor(a, f)
    <3> HIDE DEF b
    <3>. QED
      BY <2>2 DEF RowsFor
  <2>4. \A f \in Fs : a.ids[f] = None /\ a.rows[f] = None
    BY <1>1 DEF ArtworkFormats
  <2>5. \A f \in Fs : ~RowsName(RowsFor(a, f), i)
    BY <2>4 DEF RowsFor, RowsName
  <2> HIDE DEF b
  <2>6. i \notin ImagesOf(b)
    BY <1>0, <2>2, <2>3, <2>4, <2>5, ImagesNamed
  <2>7. ImagesOf(b) \subseteq ImagesOf(a)
    BY <2>2, <2>3, ImagesNamed
  <2>. QED
    BY <2>2, <2>6, <2>7 DEF b
<1>2. CASE fs # {}
  <2>1. b = [ids |-> ids, legacy |-> IF a.legacy = i THEN FirstMapped(ids) ELSE a.legacy,
             rows |-> [f \in Fs |->
               IF f \in fs /\ RowsFor(a, f) # <<>> THEN next(f) ELSE NormalizeRows(a)[f]]]
    BY <1>2 DEF Unticked
  <2>2. ids \in [Fs -> Images \cup {None}]
    BY IdsTyped
  <2>3. ASSUME NEW f \in Fs PROVE ids[f] \in T \cup {None}
    <3>1. NormalizeCreativeImageIds(a)[f] \in ImagesOf(a) \cup {None}
      BY IdsNamed
    <3>2. CASE NormalizeCreativeImageIds(a)[f] = i
      <4>1. CASE f \in fs
        BY <3>2, <4>1
      <4>2. CASE f \notin fs
        <5>1. StillIn(x, i)
          BY <3>2, <4>2 DEF StillIn
        <5>. QED
          BY <3>1, <5>1
      <4>. QED
        BY <4>1, <4>2
    <3>3. CASE NormalizeCreativeImageIds(a)[f] # i
      BY <3>1, <3>3
    <3>. QED
      BY <3>2, <3>3
  <2>4. ASSUME NEW f \in Fs PROVE next(f) \in Seq(RowType) /\ RowsWithin(next(f), T)
    <3>1. PICK rows \in Seq(RowType) : rows = RowsFor(a, f) /\ RowsWithin(rows, ImagesOf(a))
      BY RowsForTyped, OwnRows
    <3>2. DOMAIN rows = 1 .. Len(rows) /\ \A k \in DOMAIN rows : rows[k] \in RowType
      OBVIOUS
    <3>3. ASSUME NEW k \in DOMAIN rows
          PROVE  Bare(rows[k]) \in RowType /\ Bare(rows[k]).image \in T \cup {None}
      <4>1. CASE rows[k].image = i
        <5>1. Bare(rows[k]) = [rows[k] EXCEPT !.image = None]
          BY <4>1
        <5>2. rows[k] \in RowType
          BY <3>2
        <5> HIDE DEF Bare
        <5>. QED
          BY <5>1, <5>2 DEF RowType
      <4>2. CASE rows[k].image # i
        <5>1. Bare(rows[k]) = rows[k]
          BY <4>2
        <5>2. rows[k].image \in ImagesOf(a) \cup {None}
          BY <3>1, <3>2 DEF RowsWithin
        <5> HIDE DEF Bare
        <5>. QED
          BY <3>2, <4>2, <5>1, <5>2
      <4>. QED
        BY <4>1, <4>2
    <3>4. next(f) = [k \in DOMAIN rows |-> Bare(rows[k])]
      BY <3>1
    <3> HIDE DEF Bare, next, T
    <3>5. next(f) \in Seq(RowType) /\ Len(next(f)) = Len(rows)
      BY <3>3, <3>4, Painted
    <3>. QED
      BY <3>2, <3>3, <3>4, <3>5 DEF RowsWithin
  <2>5. ASSUME NEW f \in Fs, f \notin fs PROVE RowsWithin(RowsFor(a, f), T)
    <3>1. RowsWithin(RowsFor(a, f), ImagesOf(a))
      BY OwnRows
    <3>2. RowsName(RowsFor(a, f), i) => StillIn(x, i)
      BY <2>5 DEF StillIn
    <3>. QED
      BY <3>1, <3>2 DEF RowsWithin, RowsName
  <2>6. FirstMapped(ids) \in Images \cup {None} /\ FirstMapped(ids) \in T \cup {None}
    <3> HIDE DEF ids, T
    <3>. QED
      BY <2>2, <2>3, FirstIsMapped
  <2> HIDE DEF ids, next
  <2>7. \A f \in Fs : RowsOfWithin(a, b, f, T)
    <3>1. \A f \in Fs : \/ f \in fs /\ b.rows[f] = next(f)
                        \/ f \in fs /\ RowsFor(a, f) = <<>> /\ b.rows[f] = NormalizeRows(a)[f]
                        \/ f \notin fs /\ b.rows[f] = NormalizeRows(a)[f]
      <4> HIDE DEF b, fs
      <4>. QED
        BY <2>1
    <3>2. RowsWithin(<<>>, T)
      BY DEF RowsWithin
    <3> HIDE DEF b, fs, T
    <3>. QED
      BY <2>4, <2>5, <3>1, <3>2 DEF RowsOfWithin
  <2>8. b \in AssetType
    <3>1. \A f \in Fs : next(f) \in Seq(RowType) /\ NormalizeRows(a)[f] \in Seq(RowType) \cup {None}
      BY <2>4, RowsTyped
    <3>2. a.legacy \in Images \cup {None}
      BY AssetShape
    <3> HIDE DEF b, fs, T
    <3>. QED
      BY <2>1, <2>2, <2>6, <3>1, <3>2 DEF AssetType
  <2>9. b.legacy \in T \cup {None} /\ \A f \in Fs : b.ids[f] \in T \cup {None}
    <3>1. a.legacy = i \/ a.legacy \in T \cup {None}
      BY ImagesNamed
    <3> HIDE DEF b, T
    <3>. QED
      BY <2>1, <2>3, <2>6, <3>1
  <2>10. ImagesOf(b) \subseteq T
    <3> HIDE DEF b, T
    <3>. QED
      BY <2>7, <2>8, <2>9, ImagesWithin
  <2>. QED
    BY <2>8, <2>10
<1>. QED
  BY <1>1, <1>2

-----------------------------------------------------------------------------
(* The inductive invariant.                                                *)

\* A dialog of rows, and the target of one that chooses an image.
RowsDialog == [asset : Assets, format : Fs, total : Nat, records : Seq(RowType), opened : Nat]
FormatOf(t) == t.asset \in Assets /\ t.format \in Fs

TypeInv ==
  /\ images \subseteq Images /\ uploads \subseteq Images /\ images \cap uploads = {}
  /\ assets \in [Assets -> AssetType] /\ plan \in [Assets -> [Fs -> Nat]]
  /\ multi # None => multi \in RowsDialog
  /\ material # None => material \in RowsDialog
  /\ preview # None => FormatOf(preview) /\ preview.slot = None
  /\ assign # None => (assign.asset # None => FormatOf(assign))
  /\ held \subseteq Images
  /\ confirm # None => confirm \in images
  /\ aside \in BOOLEAN

\* Which dialogs can be open together, and that a slot is one of a record.
ModalInv ==
  /\ material # None => multi = None /\ preview = None /\ assign = None
  /\ multi # None => preview = None
  /\ assign # None => IF multi = None THEN assign.slot = None
                      ELSE assign.slot # None /\ assign.slot \in DOMAIN multi.records
  /\ confirm # None => assign # None

\* What is named is listed, in the dialog of rows too, and no asset names the
\* image whose deletion waits for an answer.
NamedInv ==
  /\ NamedImagesAreListed
  /\ multi # None => RowsWithin(multi.records, images \cup held)
  /\ confirm \notin AssignedArtwork

RowsInv == FramesWithinTotal /\ RecordsAreRows

\* Files are on the way out only for the image that is confirmed, or for one
\* that is broken; what is not in the store yet is on the way out.
FilesInv ==
  /\ deleting \subseteq flight
  /\ deleting # {} => confirm # None
  /\ \A d \in deleting : d[1] = confirm
  /\ \A d \in flight \ deleting : d[1] \in broken
  /\ deleting # {} => \A b \in Blobs : <<confirm, b>> \in blobs => <<confirm, b>> \in deleting
  /\ FilesOfImages

ArtworkInv == TypeInv /\ ModalInv /\ NamedInv /\ RowsInv /\ FilesInv

-----------------------------------------------------------------------------
(* Steps.                                                                  *)

LEMMA ScreenIs ==
  Screen <=> /\ multi = None /\ material = None /\ preview = None
             /\ assign = None /\ naming = None /\ confirm = None
BY DEF Screen, dialogs

\* What is on the way out stays so while the files, and the images, stay.
LEMMA FilesStay ==
  ASSUME FilesInv, UNCHANGED <<files, images, confirm>>
  PROVE  FilesInv'
BY DEF files, FilesInv, FilesOfImages

\* The rows that a dialog shows are read of the asset alone.
LEMMA RowsStay ==
  ASSUME RowsInv, UNCHANGED <<assets, multi, material>>, aside' = aside
  PROVE  RowsInv'
BY DEF RowsInv, FramesWithinTotal, RecordsAreRows

LEMMA NamedStay ==
  ASSUME NamedInv, TypeInv, assets' = assets, UNCHANGED <<images, held, multi>>,
         confirm' \in {None, confirm}
  PROVE  NamedInv'
<1>1. None \notin AssignedArtwork
  BY DEF AssignedArtwork, ImagesOf
<1>2. AssignedArtwork' = AssignedArtwork
  BY DEF AssignedArtwork
<1>. QED
  BY <1>1, <1>2 DEF NamedInv, NamedImagesAreListed

\* The records of the dialog of rows are written to its asset.
LEMMA MultiWritten ==
  ASSUME ArtworkInv, multi # None, confirm = None, NEW recs \in Seq(RowType),
         RowsWithin(recs, images \cup held),
         Frames(recs) <= Max({multi.total, multi.opened}),
         SyncMultiArtworkRecords(recs), assign' = None, preview' = None,
         UNCHANGED <<images, plan, material, naming, confirm, files>>
  PROVE  ArtworkInv'
<1> DEFINE d == multi
           x == multi.asset
           f == multi.format
           a == assets[multi.asset]
<1>0. ArtworkInv
  OBVIOUS
<1>1. /\ d \in RowsDialog /\ x \in Assets /\ f \in Fs /\ a \in AssetType
      /\ assets \in [Assets -> AssetType]
  BY DEF ArtworkInv, TypeInv, RowsDialog
<1>2. /\ multi' = [d EXCEPT !.records = recs] /\ aside' = FALSE
      /\ assets' = [assets EXCEPT ![x] = Synced(a, f, recs)]
  <2>1. assets' = [assets EXCEPT ![multi.asset].rows =
          [NormalizeRows(assets[multi.asset]) EXCEPT ![multi.format] = Framed(recs)]]
    BY DEF SyncMultiArtworkRecords
  <2>. QED
    BY <2>1 DEF SyncMultiArtworkRecords, Synced
<1>3. /\ multi' \in RowsDialog /\ multi'.asset = x /\ multi'.format = f /\ multi'.records = recs
      /\ multi'.total = d.total /\ multi'.opened = d.opened
  BY <1>1, <1>2 DEF RowsDialog
<1>4. \A y \in Assets : ImagesOf(assets[y]) \subseteq images \cup held
  BY DEF ArtworkInv, NamedInv, NamedImagesAreListed
<1>5. /\ Synced(a, f, recs) \in AssetType
      /\ ImagesOf(Synced(a, f, recs)) \subseteq images \cup held
      /\ RowsFor(Synced(a, f, recs), f) = Framed(recs)
  BY <1>1, <1>4, SyncedAsset
<1>6. /\ assets' \in [Assets -> AssetType] /\ assets'[x] = Synced(a, f, recs)
      /\ \A y \in Assets : y # x => assets'[y] = assets[y]
  BY <1>1, <1>2, <1>5
<1>7. /\ images' = images /\ material' = material /\ held' = held /\ confirm' = None
      /\ uploads' = uploads /\ broken' = broken /\ plan' = plan
  BY DEF files
<1>8. TypeInv'
  BY <1>0, <1>2, <1>3, <1>6, <1>7 DEF ArtworkInv, TypeInv
<1>9. ModalInv'
  BY <1>0, <1>7 DEF ArtworkInv, ModalInv
<1>10. NamedInv'
  <2>1. \A y \in Assets : ImagesOf(assets'[y]) \subseteq images' \cup held'
    BY <1>4, <1>5, <1>6, <1>7
  <2>2. None \notin AssignedArtwork'
    BY DEF AssignedArtwork, ImagesOf
  <2>. QED
    BY <1>3, <1>7, <2>1, <2>2 DEF NamedInv, NamedImagesAreListed
<1>11. RowsInv'
  <2>1. material' = None
    BY <1>0, <1>7 DEF ArtworkInv, ModalInv
  <2>2. FramesWithinTotal'
    BY <1>3, <2>1 DEF FramesWithinTotal
  <2>3. RecordsAreRows'
    BY <1>3, <1>5, <1>6, <2>1 DEF RecordsAreRows
  <2>. QED
    BY <2>2, <2>3 DEF RowsInv
<1>12. FilesInv'
  BY <1>0, FilesStay DEF ArtworkInv
<1>. QED
  BY <1>8, <1>9, <1>10, <1>11, <1>12 DEF ArtworkInv

\* The records of the dialog of materials are written to its asset.
LEMMA MaterialWritten ==
  ASSUME ArtworkInv, material # None, NEW recs \in Seq(RowType),
         Frames(recs) <= Max({material.total, material.opened}),
         SyncMultiMaterialRecords(recs),
         UNCHANGED <<images, plan, multi, preview, assign, naming, confirm, files>>
  PROVE  ArtworkInv'
<1> DEFINE d == material
           x == material.asset
           f == material.format
           a == assets[material.asset]
           rows == RowsFor(a, f)
           At(k) == IF k \in DOMAIN rows THEN rows[k].image ELSE None
           single == CreativeImageFor(a, f)
           next == [k \in DOMAIN recs |-> [recs[k] EXCEPT !.image = IF At(k) # None THEN At(k) ELSE single]]
           S == images \cup held
<1>0. ArtworkInv
  OBVIOUS
<1>1. /\ d \in RowsDialog /\ x \in Assets /\ f \in Fs /\ a \in AssetType
      /\ assets \in [Assets -> AssetType]
  BY DEF ArtworkInv, TypeInv, RowsDialog
<1>2. /\ material' = [d EXCEPT !.records = recs] /\ aside' = FALSE
      /\ assets' = [assets EXCEPT ![x] = Synced(a, f, next)]
  <2>1. assets' = [assets EXCEPT ![material.asset].rows =
          [NormalizeRows(a) EXCEPT ![material.format] = Framed(next)]]
    BY DEF SyncMultiMaterialRecords
  <2> HIDE DEF next
  <2>. QED
    BY <2>1 DEF SyncMultiMaterialRecords, Synced
<1>3. /\ material' \in RowsDialog /\ material'.asset = x /\ material'.format = f
      /\ material'.records = recs /\ material'.total = d.total /\ material'.opened = d.opened
  BY <1>1, <1>2 DEF RowsDialog
<1>4. \A y \in Assets : ImagesOf(assets[y]) \subseteq S
  BY DEF ArtworkInv, NamedInv, NamedImagesAreListed
<1>5. /\ next \in Seq(RowType) /\ Len(next) = Len(recs) /\ RowsWithin(next, S)
      /\ \A k \in 1 .. Len(recs) : /\ next[k].frames = recs[k].frames
                                   /\ next[k].material = recs[k].material
  <2>1. DOMAIN recs = 1 .. Len(recs) /\ \A k \in DOMAIN recs : recs[k] \in RowType
    OBVIOUS
  <2>2. rows \in Seq(RowType) /\ DOMAIN rows = 1 .. Len(rows) /\ RowsWithin(rows, ImagesOf(a))
    BY <1>1, RowsForTyped, OwnRows
  <2>3. ImagesOf(a) \subseteq S /\ ImagesOf(a) \subseteq Images
    BY <1>1, <1>4, ImagesTyped
  <2>4. \A k : At(k) \in ImagesOf(a) \cup {None}
    BY <2>2 DEF RowsWithin
  <2>5. single \in ImagesOf(a) \cup {None}
    BY <1>1, CreativeImageNamed
  <2>6. ASSUME NEW k \in DOMAIN recs
        PROVE  /\ next[k] \in RowType /\ next[k].image \in S \cup {None}
               /\ next[k].frames = recs[k].frames /\ next[k].material = recs[k].material
    <3>1. PICK i \in ImagesOf(a) \cup {None} : i = IF At(k) # None THEN At(k) ELSE single
      <4> HIDE DEF At, single
      <4>. QED
        BY <2>4, <2>5
    <3>2. next[k] = [recs[k] EXCEPT !.image = i]
      BY <3>1
    <3>3. recs[k] \in RowType /\ i \in S \cup {None} /\ i \in Images \cup {None}
      BY <2>1, <2>3
    <3> HIDE DEF next, S
    <3>. QED
      BY <3>2, <3>3 DEF RowType
  <2>7. next \in Seq(RowType) /\ Len(next) = Len(recs)
    BY <2>6, Painted
  <2> HIDE DEF next
  <2>. QED
    BY <2>1, <2>6, <2>7 DEF RowsWithin
<1> HIDE DEF next
<1>6. /\ Synced(a, f, next) \in AssetType /\ ImagesOf(Synced(a, f, next)) \subseteq S
      /\ RowsFor(Synced(a, f, next), f) = Framed(next)
  <2> HIDE DEF S
  <2>. QED
    BY <1>1, <1>4, <1>5, SyncedAsset
<1>7. /\ assets' \in [Assets -> AssetType] /\ assets'[x] = Synced(a, f, next)
      /\ \A y \in Assets : y # x => assets'[y] = assets[y]
  BY <1>1, <1>2, <1>6
<1>8. /\ images' = images /\ multi' = multi /\ held' = held /\ confirm' = confirm
      /\ uploads' = uploads /\ broken' = broken /\ plan' = plan /\ assign' = assign
      /\ preview' = preview /\ multi = None /\ assign = None /\ preview = None /\ confirm = None
  BY <1>0 DEF files, ArtworkInv, ModalInv
<1>9. TypeInv'
  BY <1>0, <1>2, <1>3, <1>7, <1>8 DEF ArtworkInv, TypeInv
<1>10. ModalInv'
  BY <1>0, <1>8 DEF ArtworkInv, ModalInv
<1>11. NamedInv'
  <2>1. \A y \in Assets : ImagesOf(assets'[y]) \subseteq images' \cup held'
    BY <1>4, <1>6, <1>7, <1>8
  <2>2. None \notin AssignedArtwork'
    BY DEF AssignedArtwork, ImagesOf
  <2>. QED
    BY <1>8, <2>1, <2>2 DEF NamedInv, NamedImagesAreListed
<1>12. RowsInv'
  <2>1. FramesWithinTotal'
    BY <1>3, <1>8 DEF FramesWithinTotal
  <2>2. /\ Len(Framed(next)) = Len(Framed(recs)) /\ Framed(next) \in Seq(RowType)
        /\ \A k \in 1 .. Len(Framed(next)) :
             /\ Framed(next)[k].frames = Framed(recs)[k].frames
             /\ Framed(next)[k].material = Framed(recs)[k].material
    <3>1. PICK nx \in Seq(RowType) : nx = next
      BY <1>5
    <3>2. /\ Len(nx) = Len(recs)
          /\ \A k \in 1 .. Len(nx) : /\ nx[k].frames = recs[k].frames
                                     /\ nx[k].material = recs[k].material
      BY <1>5, <3>1
    <3>3. /\ Len(Framed(nx)) = Len(Framed(recs))
          /\ \A k \in 1 .. Len(Framed(nx)) :
               /\ Framed(nx)[k].frames = Framed(recs)[k].frames
               /\ Framed(nx)[k].material = Framed(recs)[k].material
      BY <3>2, FramedAlike
    <3>. QED
      BY <3>1, <3>3, FramedRows
  <2>3. RecordsAreRows'
    <3>1. RowsFor(assets'[material'.asset], material'.format) = Framed(next)
      BY <1>3, <1>6, <1>7
    <3>2. DOMAIN Framed(next) = 1 .. Len(Framed(next))
      BY <2>2
    <3>. QED
      BY <1>3, <1>8, <2>2, <3>1, <3>2 DEF RecordsAreRows
  <2>. QED
    BY <2>1, <2>3 DEF RowsInv
<1>13. FilesInv'
  BY <1>0, FilesStay DEF ArtworkInv
<1>. QED
  BY <1>9, <1>10, <1>11, <1>12, <1>13 DEF ArtworkInv

\* The assets change beside the dialogs of rows, or while none is open.
LEMMA AssetsChanged ==
  ASSUME ArtworkInv, assets' \in [Assets -> AssetType], plan' \in [Assets -> [Fs -> Nat]],
         \A x \in Assets : \/ ImagesOf(assets'[x]) \subseteq ImagesOf(assets[x])
                           \/ /\ confirm = None
                              /\ ImagesOf(assets'[x]) \subseteq ImagesOf(assets[x]) \cup images,
         assets' # assets /\ multi # None => aside', assets' # assets /\ material # None => aside',
         aside => aside', aside' \in BOOLEAN,
         preview' \in {preview, None}, assign' = assign \/ (assign' = None /\ confirm = None),
         UNCHANGED <<images, multi, material, confirm, files>>
  PROVE  ArtworkInv'
<1>0. ArtworkInv
  OBVIOUS
<1>1. /\ images' = images /\ multi' = multi /\ held' = held /\ confirm' = confirm
      /\ uploads' = uploads /\ broken' = broken /\ material' = material
  BY DEF files
<1>2. TypeInv'
  BY <1>0, <1>1 DEF ArtworkInv, TypeInv, FormatOf
<1>3. ModalInv'
  BY <1>0, <1>1 DEF ArtworkInv, ModalInv
<1>4. NamedInv'
  <2>1. \A y \in Assets : ImagesOf(assets'[y]) \subseteq images' \cup held'
    BY <1>0, <1>1 DEF ArtworkInv, NamedInv, NamedImagesAreListed
  <2>2. confirm' \notin AssignedArtwork'
    <3>1. CASE confirm = None
      BY <1>1, <3>1 DEF AssignedArtwork, ImagesOf
    <3>2. CASE confirm # None
      BY <1>0, <1>1, <3>2 DEF AssignedArtwork, ArtworkInv, NamedInv
    <3>. QED
      BY <3>1, <3>2
  <2>. QED
    BY <1>0, <1>1, <2>1, <2>2 DEF ArtworkInv, NamedInv, NamedImagesAreListed
<1>5. RowsInv'
  BY <1>0, <1>1 DEF ArtworkInv, RowsInv, FramesWithinTotal, RecordsAreRows
<1>6. FilesInv'
  BY <1>0, FilesStay DEF ArtworkInv
<1>. QED
  BY <1>2, <1>3, <1>4, <1>5, <1>6 DEF ArtworkInv


-----------------------------------------------------------------------------
(* One lemma per action.                                                   *)

\* The dialog that can be clicked.
LEMMA Tops ==
  /\ OnTop("assign") <=> (assign # None /\ naming = None /\ confirm = None)
  /\ OnTop("multi") <=> (multi # None /\ assign = None)
  /\ OnTop("material") <=> (material # None)
  /\ OnTop("preview") <=> (preview # None /\ assign = None)
BY DEF OnTop

\* The limit of a dialog is a number, no less than its total or what it opened with.
LEMMA Limit ==
  ASSUME NEW d \in RowsDialog
  PROVE  /\ Max({d.total, d.opened}) \in Nat
         /\ Max({d.total, d.opened}) >= d.total /\ Max({d.total, d.opened}) >= d.opened
<1>1. d.total \in Nat /\ d.opened \in Nat
  BY DEF RowsDialog
<1>2. Max({d.total, d.opened}) = IF d.total >= d.opened THEN d.total ELSE d.opened
  BY <1>1, MaxOfTwo
<1>. QED
  BY <1>1, <1>2

\* One record of a dialog is replaced.
LEMMA RecordSet ==
  ASSUME NEW recs \in Seq(RowType), NEW k \in DOMAIN recs, NEW r \in RowType
  PROVE  /\ [recs EXCEPT ![k] = r] \in Seq(RowType)
         /\ Frames([recs EXCEPT ![k] = r]) + recs[k].frames = Frames(recs) + r.frames
         /\ \A S : (RowsWithin(recs, S) /\ r.image \in S \cup {None})
                     => RowsWithin([recs EXCEPT ![k] = r], S)
<1> DEFINE next == [recs EXCEPT ![k] = r]
<1>1. /\ next \in Seq(RowType) /\ Len(next) = Len(recs) /\ k \in 1 .. Len(recs)
      /\ next[k] = r /\ \A i \in 1 .. Len(recs) : i # k => next[i] = recs[i]
  OBVIOUS
<1> HIDE DEF next
<1>2. Frames(next) + recs[k].frames = Frames(recs) + next[k].frames
  BY <1>1, FramesChanged
<1>3. ASSUME NEW S, RowsWithin(recs, S), r.image \in S \cup {None}
      PROVE  RowsWithin(next, S)
  BY <1>1, <1>3 DEF RowsWithin
<1>. QED
  BY <1>1, <1>2, <1>3 DEF next

\* The frames of one record are set to n, or to those the others leave it.
LEMMA CountSet ==
  ASSUME NEW d \in RowsDialog, NEW k \in DOMAIN d.records, NEW n \in Nat,
         Frames(d.records) <= Max({d.total, d.opened})
  PROVE  LET next == [d.records EXCEPT ![k].frames = Min({n, MaxForRow(d, k)})]
         IN /\ next \in Seq(RowType) /\ Frames(next) <= Max({d.total, d.opened})
            /\ \A S : RowsWithin(d.records, S) => RowsWithin(next, S)
<1> DEFINE recs == d.records
           others == Frames(RemoveAt(recs, k))
           c == Min({n, MaxForRow(d, k)})
           r == [recs[k] EXCEPT !.frames = c]
<1>1. recs \in Seq(RowType) /\ d.total \in Nat /\ d.opened \in Nat
  BY DEF RowsDialog
<1>2. /\ recs[k] \in RowType /\ k \in 1 .. Len(recs) /\ recs[k].frames \in Nat
      /\ Frames(recs) \in Nat
  <2>1. recs[k] \in RowType /\ k \in 1 .. Len(recs)
    BY <1>1
  <2> HIDE DEF recs
  <2>. QED
    BY <1>1, <2>1, FramesAreNumbers DEF RowType
<1>3. others \in Nat /\ others + recs[k].frames = Frames(recs)
  BY <1>1, <1>2, Removed, FramesRemoved, FramesAreNumbers
<1>4. MaxForRow(d, k) = IF d.total > others THEN d.total - others ELSE 0
  BY DEF MaxForRow
<1>5. MaxForRow(d, k) \in Nat
  BY <1>1, <1>3, <1>4
<1>6. c = IF n <= MaxForRow(d, k) THEN n ELSE MaxForRow(d, k)
  BY <1>5, MinOfTwo
<1>7. c \in Nat /\ (others + c <= d.total \/ c = 0)
  <2> HIDE DEF others, c
  <2>. QED
    BY <1>1, <1>3, <1>4, <1>5, <1>6
<1>8. r \in RowType /\ r.frames = c /\ r.image = recs[k].image
  <2> HIDE DEF c
  <2>. QED
    BY <1>2, <1>7 DEF RowType
<1>9. [recs EXCEPT ![k].frames = c] = [recs EXCEPT ![k] = r]
  OBVIOUS
<1> HIDE DEF r, c
<1>10. /\ [recs EXCEPT ![k] = r] \in Seq(RowType)
       /\ Frames([recs EXCEPT ![k] = r]) + recs[k].frames = Frames(recs) + c
       /\ \A S : RowsWithin(recs, S) => RowsWithin([recs EXCEPT ![k] = r], S)
  <2>1. /\ [recs EXCEPT ![k] = r] \in Seq(RowType)
        /\ Frames([recs EXCEPT ![k] = r]) + recs[k].frames = Frames(recs) + r.frames
    BY <1>1, <1>8, RecordSet
  <2>2. ASSUME NEW S, RowsWithin(recs, S)
        PROVE  RowsWithin([recs EXCEPT ![k] = r], S)
    <3>1. r.image \in S \cup {None}
      BY <1>2, <1>8, <2>2 DEF RowsWithin
    <3>. QED
      BY <1>1, <1>8, <2>2, <3>1, RecordSet
  <2>. QED
    BY <1>8, <2>1, <2>2
<1>11. Frames([recs EXCEPT ![k] = r]) <= Max({d.total, d.opened})
  <2>1. Frames([recs EXCEPT ![k] = r]) \in Nat
    BY <1>10, FramesAreNumbers
  <2>2. PICK m \in Nat : m = Max({d.total, d.opened}) /\ m >= d.total
    BY Limit
  <2>3. PICK t \in Nat : t = Frames([recs EXCEPT ![k] = r])
    BY <2>1
  <2> HIDE DEF recs, others
  <2>4. t + recs[k].frames = Frames(recs) + c /\ Frames(recs) <= m
    BY <1>10, <2>2, <2>3 DEF recs
  <2>5. t <= m
    BY <1>1, <1>2, <1>3, <1>7, <2>2, <2>4
  <2>. QED
    BY <2>2, <2>3, <2>5
<1>. QED
  BY <1>9, <1>10, <1>11 DEF c

\* A record is taken out.
LEMMA RecordRemoved ==
  ASSUME NEW d \in RowsDialog, NEW k \in DOMAIN d.records,
         Frames(d.records) <= Max({d.total, d.opened})
  PROVE  /\ RemoveAt(d.records, k) \in Seq(RowType)
         /\ Frames(RemoveAt(d.records, k)) <= Max({d.total, d.opened})
         /\ \A S : RowsWithin(d.records, S) => RowsWithin(RemoveAt(d.records, k), S)
<1>1. /\ d.records \in Seq(RowType) /\ k \in 1 .. Len(d.records) /\ Len(d.records) \in Nat
      /\ d.records[k] \in RowType
  BY DEF RowsDialog
<1>2. /\ RemoveAt(d.records, k) \in Seq(RowType)
      /\ Len(RemoveAt(d.records, k)) = Len(d.records) - 1
      /\ \A j \in 1 .. Len(d.records) - 1 :
           RemoveAt(d.records, k)[j] = IF j < k THEN d.records[j] ELSE d.records[j + 1]
  BY <1>1, Removed
<1>3. Frames(RemoveAt(d.records, k)) + d.records[k].frames = Frames(d.records)
  BY <1>1, FramesRemoved
<1>4. /\ Frames(RemoveAt(d.records, k)) \in Nat /\ Frames(d.records) \in Nat
      /\ d.records[k].frames \in Nat /\ Max({d.total, d.opened}) \in Nat
  BY <1>1, <1>2, FramesAreNumbers, Limit DEF RowType
<1>5. ASSUME NEW S, RowsWithin(d.records, S)
      PROVE  RowsWithin(RemoveAt(d.records, k), S)
  <2> SUFFICES ASSUME NEW j \in 1 .. Len(d.records) - 1
               PROVE  RemoveAt(d.records, k)[j].image \in S \cup {None}
    BY <1>2 DEF RowsWithin
  <2>1. j \in 1 .. Len(d.records) /\ j + 1 \in 1 .. Len(d.records)
    BY <1>1
  <2>. QED
    BY <1>2, <1>5, <2>1 DEF RowsWithin
<1>. QED
  BY <1>2, <1>3, <1>4, <1>5

\* A record of no more frames than remain, and without an image, is added.
LEMMA RecordAdded ==
  ASSUME NEW d \in RowsDialog, NEW r \in RowType, r.image = None, r.frames <= Remaining(d),
         Frames(d.records) <= Max({d.total, d.opened})
  PROVE  /\ Append(d.records, r) \in Seq(RowType)
         /\ Frames(Append(d.records, r)) <= Max({d.total, d.opened})
         /\ \A S : RowsWithin(d.records, S) => RowsWithin(Append(d.records, r), S)
<1>1. d.records \in Seq(RowType) /\ d.total \in Nat /\ r.frames \in Nat /\ Len(d.records) \in Nat
  BY DEF RowsDialog, RowType
<1>2. /\ Frames(Append(d.records, r)) = Frames(d.records) + r.frames
      /\ Frames(d.records) \in Nat
  BY <1>1, FramesAppended, FramesAreNumbers
<1>3. /\ Max({d.total, d.opened}) \in Nat /\ Max({d.total, d.opened}) >= d.total
      /\ Remaining(d) = IF d.total > Frames(d.records) THEN d.total - Frames(d.records) ELSE 0
  BY Limit DEF Remaining
<1>4. ASSUME NEW S, RowsWithin(d.records, S)
      PROVE  RowsWithin(Append(d.records, r), S)
  <2> SUFFICES ASSUME NEW j \in 1 .. Len(d.records) + 1
               PROVE  Append(d.records, r)[j].image \in S \cup {None}
    BY <1>1 DEF RowsWithin
  <2>1. CASE j = Len(d.records) + 1
    BY <1>1, <2>1
  <2>2. CASE j \in 1 .. Len(d.records)
    BY <1>1, <1>4, <2>2 DEF RowsWithin
  <2>. QED
    BY <1>1, <2>1, <2>2
<1>. QED
  BY <1>1, <1>2, <1>3, <1>4

\* A summary arrives.
LEMMA StepSummary ==
  ASSUME ArtworkInv, NEW p \in Plans, SummaryArrives(p)
  PROVE  ArtworkInv'
<1>0. ArtworkInv
  OBVIOUS
<1>1. /\ p \in [Assets -> [Fs -> Nat]] /\ plan' = p
      /\ assets' = [x \in Assets |-> DefaultRows(x, p)]
      /\ aside' = (aside \/ assets' # assets)
      /\ UNCHANGED <<images, dialogs, names, files>>
  BY ArtworkAssumption DEF SummaryArrives
<1>2. /\ images' = images /\ multi' = multi /\ material' = material /\ preview' = preview
      /\ assign' = assign /\ confirm' = confirm /\ files' = files
  BY <1>1 DEF dialogs
<1>3. \A x \in Assets : /\ DefaultRows(x, p) \in AssetType
                        /\ ImagesOf(DefaultRows(x, p)) \subseteq ImagesOf(assets[x])
  <2> TAKE x \in Assets
  <2>1. assets[x] \in AssetType /\ p[x] \in [Fs -> Nat]
    BY <1>0, <1>1 DEF ArtworkInv, TypeInv
  <2>. QED
    BY <2>1, DefaultsSet
<1>4. /\ assets' \in [Assets -> AssetType]
      /\ \A x \in Assets : ImagesOf(assets'[x]) \subseteq ImagesOf(assets[x])
  BY <1>1, <1>3
<1>5. aside \in BOOLEAN
  BY <1>0 DEF ArtworkInv, TypeInv
<1>. QED
  BY <1>0, <1>1, <1>2, <1>4, <1>5, AssetsChanged

\* An upload finishes: its image is listed, with all its files.
LEMMA StepUpload ==
  ASSUME ArtworkInv, NEW i \in Images, UploadFinishes(i)
  PROVE  ArtworkInv'
<1>0. ArtworkInv
  OBVIOUS
<1>1. /\ i \in uploads /\ uploads' = uploads \ {i} /\ images' = images \cup {i}
      /\ blobs' = blobs \cup {i} \X Blobs
      /\ assets' = assets /\ plan' = plan /\ multi' = multi /\ material' = material
      /\ preview' = preview /\ assign' = assign /\ confirm' = confirm /\ deleting' = deleting
      /\ flight' = flight /\ held' = held /\ broken' = broken /\ aside' = aside
  BY DEF UploadFinishes, dialogs
<1>2. TypeInv'
  BY <1>0, <1>1 DEF ArtworkInv, TypeInv
<1>3. ModalInv'
  BY <1>0, <1>1 DEF ArtworkInv, ModalInv
<1>4. NamedInv'
  <2>1. NamedImagesAreListed'
    BY <1>0, <1>1 DEF ArtworkInv, NamedInv, NamedImagesAreListed
  <2>2. multi' # None => RowsWithin(multi'.records, images' \cup held')
    BY <1>0, <1>1 DEF ArtworkInv, NamedInv, RowsWithin
  <2>3. confirm' \notin AssignedArtwork'
    BY <1>0, <1>1 DEF ArtworkInv, NamedInv, AssignedArtwork
  <2>. QED
    BY <2>1, <2>2, <2>3 DEF NamedInv
<1>5. RowsInv'
  BY <1>0, <1>1, RowsStay DEF ArtworkInv
<1>6. FilesInv'
  <2>1. i \notin images /\ (confirm # None => confirm \in images)
    BY <1>0, <1>1 DEF ArtworkInv, TypeInv
  <2>2. \A b \in Blobs : <<confirm, b>> \in blobs' /\ confirm # None => <<confirm, b>> \in blobs
    BY <1>1, <2>1
  <2>3. \A j \in Images, b \in Blobs : j # i => (<<j, b>> \in blobs' <=> <<j, b>> \in blobs)
    BY <1>1
  <2>4. FilesOfImages'
    <3> SUFFICES ASSUME NEW j \in Images \ uploads'
                 PROVE  IF j \in images'
                        THEN {j} \X Blobs \subseteq blobs' \/ j \in broken' \/ (j = confirm' /\ deleting' # {})
                        ELSE \A b \in Blobs : <<j, b>> \notin blobs'
      BY DEF FilesOfImages
    <3>1. CASE j = i
      BY <1>1, <3>1
    <3>2. CASE j # i
      <4>1. j \in Images \ uploads /\ (j \in images' <=> j \in images)
        BY <1>1, <3>2
      <4>2. IF j \in images
            THEN {j} \X Blobs \subseteq blobs \/ j \in broken \/ (j = confirm /\ deleting # {})
            ELSE \A b \in Blobs : <<j, b>> \notin blobs
        BY <1>0, <4>1 DEF ArtworkInv, FilesInv, FilesOfImages
      <4>. QED
        BY <1>1, <2>3, <3>2, <4>1, <4>2
    <3>. QED
      BY <3>1, <3>2
  <2>. QED
    BY <1>0, <1>1, <2>2, <2>4 DEF ArtworkInv, FilesInv
<1>. QED
  BY <1>2, <1>3, <1>4, <1>5, <1>6 DEF ArtworkInv

\* The dialogs of rows open on the rows of their asset.
LEMMA StepOpenMulti ==
  ASSUME ArtworkInv, NEW x \in Assets, NEW f \in Fs, OpenMultiArtworkDialog(x, f)
  PROVE  ArtworkInv'
<1> DEFINE a == assets[x]
           records == IF a.rows[f] # None THEN Framed(a.rows[f])
                      ELSE <<Row(None, Material, plan[x][f])>>
<1>0. ArtworkInv
  OBVIOUS
<1>1. /\ multi' = [asset |-> x, format |-> f, total |-> plan[x][f], records |-> records,
                   opened |-> Frames(records)]
      /\ aside' = (a.rows[f] = None)
      /\ multi = None /\ material = None /\ preview = None /\ assign = None /\ confirm = None
  BY ScreenIs DEF OpenMultiArtworkDialog
<1>2. /\ images' = images /\ assets' = assets /\ plan' = plan /\ material' = None
      /\ preview' = None /\ assign' = None /\ confirm' = None /\ files' = files
      /\ held' = held /\ uploads' = uploads /\ broken' = broken
  BY <1>1 DEF OpenMultiArtworkDialog, files
<1>3. a \in AssetType /\ plan[x][f] \in Nat /\ ImagesOf(a) \subseteq images \cup held
  BY <1>0 DEF ArtworkInv, TypeInv, NamedInv, NamedImagesAreListed
<1>4. records \in Seq(RowType) /\ RowsWithin(records, images \cup held)
  <2>1. CASE a.rows[f] # None
    <3>1. records = RowsFor(a, f)
      BY <2>1 DEF RowsFor
    <3>. QED
      BY <1>3, <3>1, RowsForTyped, OwnRows
  <2>2. CASE a.rows[f] = None
    <3>1. Row(None, Material, plan[x][f]) \in RowType /\ Row(None, Material, plan[x][f]).image = None
      BY <1>3 DEF RowType, Row
    <3>. QED
      BY <2>2, <3>1 DEF RowsWithin
  <2>. QED
    BY <2>1, <2>2
<1> HIDE DEF records
<1>5. Frames(records) \in Nat
  BY <1>4, FramesAreNumbers
<1>6. /\ multi' \in RowsDialog /\ multi'.asset = x /\ multi'.format = f /\ multi'.records = records
      /\ multi'.opened = Frames(records)
  BY <1>1, <1>3, <1>4, <1>5 DEF RowsDialog
<1>7. TypeInv'
  BY <1>0, <1>1, <1>2, <1>6 DEF ArtworkInv, TypeInv
<1>8. ModalInv'
  BY <1>2 DEF ModalInv
<1>9. NamedInv'
  <2>1. None \notin AssignedArtwork'
    BY DEF AssignedArtwork, ImagesOf
  <2>. QED
    BY <1>0, <1>2, <1>4, <1>6, <2>1 DEF ArtworkInv, NamedInv, NamedImagesAreListed
<1>10. RowsInv'
  <2>1. Frames(multi'.records) <= Max({multi'.total, multi'.opened})
    BY <1>5, <1>6, Limit
  <2>2. FramesWithinTotal'
    BY <1>2, <2>1 DEF FramesWithinTotal
  <2>3. ~aside' => RowsFor(assets'[multi'.asset], multi'.format) = Framed(multi'.records)
    <3> SUFFICES ASSUME a.rows[f] # None
                 PROVE  RowsFor(a, f) = Framed(records)
      BY <1>1, <1>2, <1>6
    <3>1. records = RowsFor(a, f)
      BY DEF RowsFor, records
    <3>. QED
      BY <1>3, <3>1, RowsForTyped
  <2>. QED
    BY <1>2, <2>2, <2>3 DEF RowsInv, RecordsAreRows
<1>11. FilesInv'
  BY <1>0, <1>1, <1>2, FilesStay DEF ArtworkInv
<1>. QED
  BY <1>7, <1>8, <1>9, <1>10, <1>11 DEF ArtworkInv

LEMMA StepOpenMaterial ==
  ASSUME ArtworkInv, NEW x \in Assets, NEW f \in Fs, OpenMaterialDialog(x, f)
  PROVE  ArtworkInv'
<1> DEFINE a == assets[x]
           rows == RowsFor(a, f)
           records == IF rows # <<>> THEN rows ELSE <<Row(None, Material, plan[x][f])>>
<1>0. ArtworkInv
  OBVIOUS
<1>1. /\ material' = [asset |-> x, format |-> f, total |-> plan[x][f], records |-> records,
                      opened |-> Frames(records)]
      /\ aside' = (rows = <<>>)
      /\ multi = None /\ material = None /\ preview = None /\ assign = None /\ confirm = None
  BY ScreenIs DEF OpenMaterialDialog
<1>2. /\ images' = images /\ assets' = assets /\ plan' = plan /\ multi' = None
      /\ preview' = None /\ assign' = None /\ confirm' = None /\ files' = files
      /\ held' = held /\ uploads' = uploads /\ broken' = broken
  BY <1>1 DEF OpenMaterialDialog, files
<1>3. a \in AssetType /\ plan[x][f] \in Nat
  BY <1>0 DEF ArtworkInv, TypeInv
<1>4. rows \in Seq(RowType) /\ Framed(rows) = rows
  BY <1>3, RowsForTyped
<1>5. records \in Seq(RowType)
  <2>1. Row(None, Material, plan[x][f]) \in RowType
    BY <1>3 DEF RowType, Row
  <2> HIDE DEF rows
  <2>. QED
    BY <1>4, <2>1
<1>6. ~aside' => rows = records
  BY <1>1
<1> HIDE DEF records
<1>7. Frames(records) \in Nat
  BY <1>5, FramesAreNumbers
<1>8. /\ material' \in RowsDialog /\ material'.asset = x /\ material'.format = f
      /\ material'.records = records /\ material'.opened = Frames(records)
  BY <1>1, <1>3, <1>5, <1>7 DEF RowsDialog
<1>9. TypeInv'
  BY <1>0, <1>1, <1>2, <1>8 DEF ArtworkInv, TypeInv
<1>10. ModalInv'
  BY <1>2 DEF ModalInv
<1>11. NamedInv'
  <2>1. None \notin AssignedArtwork'
    BY DEF AssignedArtwork, ImagesOf
  <2>. QED
    BY <1>0, <1>2, <2>1 DEF ArtworkInv, NamedInv, NamedImagesAreListed
<1>12. RowsInv'
  <2>1. Frames(material'.records) <= Max({material'.total, material'.opened})
    BY <1>7, <1>8, Limit
  <2>2. FramesWithinTotal'
    BY <1>2, <2>1 DEF FramesWithinTotal
  <2>3. ~aside' => RowsFor(assets'[material'.asset], material'.format) = Framed(material'.records)
    BY <1>2, <1>4, <1>6, <1>8
  <2>. QED
    BY <1>2, <2>2, <2>3 DEF RowsInv, RecordsAreRows
<1>13. FilesInv'
  BY <1>0, <1>1, <1>2, FilesStay DEF ArtworkInv
<1>. QED
  BY <1>9, <1>10, <1>11, <1>12, <1>13 DEF ArtworkInv

\* Dialogs open and close over what the assets and the dialogs of rows have.
LEMMA DialogsMove ==
  ASSUME ArtworkInv, UNCHANGED <<images, assets, plan, files, aside>>,
         multi' \in {multi, None}, material' \in {material, None},
         preview' # None => FormatOf(preview') /\ preview'.slot = None,
         assign' # None => (assign'.asset # None => FormatOf(assign')),
         \/ confirm' = confirm
         \/ deleting = {} /\ confirm' = None
         \/ deleting = {} /\ confirm' \in images \ AssignedArtwork,
         ModalInv'
  PROVE  ArtworkInv'
<1>0. ArtworkInv
  OBVIOUS
<1>1. /\ images' = images /\ assets' = assets /\ plan' = plan /\ aside' = aside
      /\ held' = held /\ uploads' = uploads /\ broken' = broken /\ deleting' = deleting
      /\ flight' = flight /\ blobs' = blobs
  BY DEF files
<1>2. TypeInv'
  BY <1>0, <1>1 DEF ArtworkInv, TypeInv, FormatOf
<1>3. NamedInv'
  <2>1. None \notin AssignedArtwork
    BY DEF AssignedArtwork, ImagesOf
  <2>2. AssignedArtwork' = AssignedArtwork
    BY <1>1 DEF AssignedArtwork
  <2>. QED
    BY <1>0, <1>1, <2>1, <2>2 DEF ArtworkInv, NamedInv, NamedImagesAreListed
<1>4. RowsInv'
  <2>1. FramesWithinTotal'
    BY <1>0 DEF ArtworkInv, RowsInv, FramesWithinTotal
  <2>2. RecordsAreRows'
    BY <1>0, <1>1 DEF ArtworkInv, RowsInv, RecordsAreRows
  <2>. QED
    BY <2>1, <2>2 DEF RowsInv
<1>5. FilesInv'
  <2>1. CASE confirm' = confirm
    BY <1>0, <1>1, <2>1, FilesStay DEF ArtworkInv
  <2>2. CASE deleting = {}
    BY <1>0, <1>1, <2>2 DEF ArtworkInv, FilesInv, FilesOfImages
  <2>. QED
    BY <2>1, <2>2
<1>. QED
  BY <1>2, <1>3, <1>4, <1>5 DEF ArtworkInv

LEMMA StepOpenArtwork ==
  ASSUME ArtworkInv, NEW x \in Assets, NEW f \in Fs, OpenArtworkDialog(x, f)
  PROVE  ArtworkInv'
<1>0. ArtworkInv
  OBVIOUS
<1>1. /\ multi = None /\ material = None /\ preview = None /\ assign = None /\ confirm = None
      /\ \/ preview' = Target(x, f, None) /\ assign' = assign
         \/ assign' = Target(x, f, None) /\ preview' = preview
      /\ UNCHANGED <<images, assets, plan, multi, material, naming, confirm, names, files, aside, clicks>>
  BY ScreenIs DEF OpenArtworkDialog
<1>2. FormatOf(Target(x, f, None)) /\ Target(x, f, None).slot = None
  BY DEF FormatOf, Target
<1>3. ModalInv'
  BY <1>1, <1>2 DEF ModalInv
<1>. QED
  BY <1>0, <1>1, <1>2, <1>3, DialogsMove

LEMMA StepOpenAssign ==
  ASSUME ArtworkInv, OpenAssignArtworkDialog
  PROVE  ArtworkInv'
<1>0. ArtworkInv
  OBVIOUS
<1>1. UNCHANGED <<images, assets, plan, multi, material, preview, naming, confirm, names, files, aside, clicks>>
  BY DEF OpenAssignArtworkDialog
<1>2. preview # None => FormatOf(preview) /\ preview.slot = None
  BY <1>0 DEF ArtworkInv, TypeInv
<1>3. multi # None => multi.asset \in Assets /\ multi.format \in Fs /\ multi.records \in Seq(RowType)
  BY <1>0 DEF ArtworkInv, TypeInv, RowsDialog
<1>4. None \notin Nat /\ None \notin Assets
  BY ArtworkAssumption
<1>5. CASE OnTop("preview") /\ assign' = preview
  <2>1. preview # None /\ assign = None
    BY <1>5, Tops
  <2>2. ModalInv'
    BY <1>0, <1>1, <1>2, <1>5, <2>1 DEF ArtworkInv, ModalInv
  <2>. QED
    BY <1>0, <1>1, <1>2, <1>5, <2>1, <2>2, DialogsMove
<1>6. CASE OnTop("multi") /\ \E k \in DOMAIN multi.records : assign' = Target(multi.asset, multi.format, k)
  <2>1. multi # None /\ assign = None
    BY <1>6, Tops
  <2>2. PICK k \in DOMAIN multi.records : assign' = Target(multi.asset, multi.format, k)
    BY <1>6
  <2>3. k \in Nat /\ assign'.slot = k /\ FormatOf(assign')
    BY <1>3, <2>1, <2>2 DEF Target, FormatOf
  <2>4. ModalInv'
    BY <1>0, <1>1, <1>4, <2>1, <2>2, <2>3 DEF ArtworkInv, ModalInv
  <2>. QED
    BY <1>0, <1>1, <1>2, <2>3, <2>4, DialogsMove
<1>7. CASE Screen /\ assign' = Target(None, None, None)
  <2>1. multi = None /\ material = None /\ preview = None /\ confirm = None
    BY <1>7, ScreenIs
  <2>2. assign'.asset = None /\ assign'.slot = None
    BY <1>7 DEF Target
  <2>3. ModalInv'
    BY <1>1, <2>1, <2>2 DEF ModalInv
  <2>. QED
    BY <1>0, <1>1, <1>2, <2>2, <2>3, DialogsMove
<1>. QED
  BY <1>5, <1>6, <1>7 DEF OpenAssignArtworkDialog

LEMMA StepClose ==
  ASSUME ArtworkInv, CloseDialog
  PROVE  ArtworkInv'
<1>0. ArtworkInv
  OBVIOUS
<1>1. UNCHANGED <<images, assets, plan, naming, confirm, names, files, aside, clicks>>
  BY DEF CloseDialog
<1>2. /\ preview # None => FormatOf(preview) /\ preview.slot = None
      /\ assign # None => (assign.asset # None => FormatOf(assign))
  BY <1>0 DEF ArtworkInv, TypeInv
<1>3. ModalInv
  BY <1>0 DEF ArtworkInv
<1>4. CASE OnTop("assign") /\ assign' = None /\ UNCHANGED <<multi, material, preview>>
  <2>1. confirm = None
    BY <1>4, Tops
  <2>2. ModalInv'
    BY <1>1, <1>3, <1>4, <2>1 DEF ModalInv
  <2>. QED
    BY <1>0, <1>1, <1>2, <1>4, <2>2, DialogsMove
<1>5. CASE OnTop("multi") /\ multi' = None /\ UNCHANGED <<assign, material, preview>>
  <2>1. assign = None /\ multi # None
    BY <1>5, Tops
  <2>2. ModalInv'
    BY <1>1, <1>3, <1>5, <2>1 DEF ModalInv
  <2>. QED
    BY <1>0, <1>1, <1>2, <1>5, <2>2, DialogsMove
<1>6. CASE OnTop("material") /\ material' = None /\ UNCHANGED <<assign, multi, preview>>
  <2>1. ModalInv'
    BY <1>1, <1>3, <1>6 DEF ModalInv
  <2>. QED
    BY <1>0, <1>1, <1>2, <1>6, <2>1, DialogsMove
<1>7. CASE OnTop("preview") /\ preview' = None /\ UNCHANGED <<assign, multi, material>>
  <2>1. ModalInv'
    BY <1>1, <1>3, <1>7 DEF ModalInv
  <2>. QED
    BY <1>0, <1>1, <1>2, <1>7, <2>1, DialogsMove
<1>. QED
  BY <1>4, <1>5, <1>6, <1>7 DEF CloseDialog

\* Nothing of what the invariant is about moves, but for the image that is confirmed.
LEMMA StepQuiet ==
  ASSUME ArtworkInv,
         UNCHANGED <<images, assets, plan, multi, material, preview, assign, files, aside>>,
         \/ confirm' = confirm
         \/ deleting = {} /\ confirm' = None
         \/ deleting = {} /\ assign # None /\ confirm' \in images \ AssignedArtwork
  PROVE  ArtworkInv'
<1>0. ArtworkInv
  OBVIOUS
<1>1. /\ preview # None => FormatOf(preview) /\ preview.slot = None
      /\ assign # None => (assign.asset # None => FormatOf(assign))
  BY <1>0 DEF ArtworkInv, TypeInv
<1>2. ModalInv'
  BY <1>0 DEF ArtworkInv, ModalInv
<1>. QED
  BY <1>0, <1>1, <1>2, DialogsMove

LEMMA StepNames ==
  ASSUME ArtworkInv, NEW i, NEW n,
         OpenCreativeNames(i) \/ CloseCreativeNames \/ SelectCreativeName(n) \/ CancelDeleteArtwork
  PROVE  ArtworkInv'
<1>1. CASE OpenCreativeNames(i)
  BY <1>1, StepQuiet DEF OpenCreativeNames
<1>2. CASE CloseCreativeNames
  BY <1>2, StepQuiet DEF CloseCreativeNames
<1>3. CASE SelectCreativeName(n)
  BY <1>3, StepQuiet DEF SelectCreativeName
<1>4. CASE CancelDeleteArtwork
  BY <1>4, StepQuiet DEF CancelDeleteArtwork
<1>. QED
  BY <1>1, <1>2, <1>3, <1>4

LEMMA StepHandleDelete ==
  ASSUME ArtworkInv, NEW i, HandleDeleteArtwork(i)
  PROVE  ArtworkInv'
<1>0. ArtworkInv
  OBVIOUS
<1>1. /\ assign # None /\ confirm = None /\ i \in images \ AssignedArtwork /\ confirm' = i
      /\ UNCHANGED <<images, assets, plan, multi, material, preview, assign, naming, names, files, aside, clicks>>
  BY Tops DEF HandleDeleteArtwork
<1>2. deleting = {}
  BY <1>0, <1>1 DEF ArtworkInv, FilesInv
<1>. QED
  BY <1>0, <1>1, <1>2, StepQuiet

\* An edit in the dialog of rows: its records stay within the limit, and name
\* nothing they did not name.
LEMMA MultiEdited ==
  ASSUME ArtworkInv, OnTop("multi"), NEW recs \in Seq(RowType),
         Frames(recs) <= Max({multi.total, multi.opened}),
         \A S : RowsWithin(multi.records, S) => RowsWithin(recs, S),
         SyncMultiArtworkRecords(recs),
         UNCHANGED <<images, plan, material, preview, assign, naming, confirm, names, files>>
  PROVE  ArtworkInv'
<1>0. ArtworkInv
  OBVIOUS
<1>1. multi # None /\ assign = None
  BY Tops
<1>2. /\ confirm = None /\ preview = None
      /\ RowsWithin(multi.records, images \cup held)
  BY <1>0, <1>1 DEF ArtworkInv, ModalInv, NamedInv
<1>3. RowsWithin(recs, images \cup held)
  BY <1>2
<1>. QED
  BY <1>0, <1>1, <1>2, <1>3, MultiWritten

\* The open dialog of rows, and its frames.
LEMMA MultiOpen ==
  ASSUME ArtworkInv, multi # None
  PROVE  /\ multi \in RowsDialog /\ Frames(multi.records) <= Max({multi.total, multi.opened})
         /\ multi.records \in Seq(RowType) /\ Frames(multi.records) \in Nat
<1>0. multi \in RowsDialog /\ multi.records \in Seq(RowType)
  BY DEF ArtworkInv, TypeInv, RowsDialog
<1>1. multi \in {multi, material} \ {None}
  OBVIOUS
<1>2. FramesWithinTotal
  BY DEF ArtworkInv, RowsInv
<1>3. Frames(multi.records) <= Max({multi.total, multi.opened})
  BY <1>1, <1>2 DEF FramesWithinTotal
<1>. QED
  BY <1>0, <1>3, FramesAreNumbers

LEMMA MaterialOpen ==
  ASSUME ArtworkInv, material # None
  PROVE  /\ material \in RowsDialog /\ Frames(material.records) <= Max({material.total, material.opened})
         /\ material.records \in Seq(RowType) /\ Frames(material.records) \in Nat
<1>0. material \in RowsDialog /\ material.records \in Seq(RowType)
  BY DEF ArtworkInv, TypeInv, RowsDialog
<1>1. material \in {multi, material} \ {None}
  OBVIOUS
<1>2. FramesWithinTotal
  BY DEF ArtworkInv, RowsInv
<1>3. Frames(material.records) <= Max({material.total, material.opened})
  BY <1>1, <1>2 DEF FramesWithinTotal
<1>. QED
  BY <1>0, <1>3, FramesAreNumbers

\* The material of a record is set: its frames and its image stay.
LEMMA PaperSet ==
  ASSUME NEW recs \in Seq(RowType), NEW k \in DOMAIN recs, NEW m \in {Material, None}
  PROVE  /\ [recs EXCEPT ![k].material = m] \in Seq(RowType)
         /\ Frames([recs EXCEPT ![k].material = m]) = Frames(recs)
         /\ \A S : RowsWithin(recs, S) => RowsWithin([recs EXCEPT ![k].material = m], S)
<1> DEFINE r == [recs[k] EXCEPT !.material = m]
<1>1. /\ recs[k] \in RowType /\ k \in 1 .. Len(recs)
  OBVIOUS
<1>2. r \in RowType /\ r.frames = recs[k].frames /\ r.image = recs[k].image
  BY <1>1 DEF RowType
<1>3. [recs EXCEPT ![k].material = m] = [recs EXCEPT ![k] = r]
  OBVIOUS
<1> HIDE DEF r
<1>4. /\ [recs EXCEPT ![k] = r] \in Seq(RowType)
      /\ Frames([recs EXCEPT ![k] = r]) + recs[k].frames = Frames(recs) + r.frames
  BY <1>2, RecordSet
<1>5. /\ Frames(recs) \in Nat /\ Frames([recs EXCEPT ![k] = r]) \in Nat /\ recs[k].frames \in Nat
  BY <1>1, <1>4, FramesAreNumbers DEF RowType
<1>6. Frames([recs EXCEPT ![k] = r]) = Frames(recs)
  BY <1>2, <1>4, <1>5
<1>7. ASSUME NEW S, RowsWithin(recs, S)
      PROVE  RowsWithin([recs EXCEPT ![k] = r], S)
  <2>1. r.image \in S \cup {None}
    BY <1>1, <1>2, <1>7 DEF RowsWithin
  <2>. QED
    BY <1>2, <1>7, <2>1, RecordSet
<1>. QED
  BY <1>3, <1>4, <1>6, <1>7

LEMMA StepMultiCount ==
  ASSUME ArtworkInv, multi # None, NEW k \in DOMAIN multi.records, NEW n \in 0 .. multi.total,
         UpdateMultiArtworkRecordFrameCount(k, n)
  PROVE  ArtworkInv'
<1> DEFINE recs == [multi.records EXCEPT ![k].frames = Min({n, MaxForRow(multi, k)})]
<1>0. ArtworkInv
  OBVIOUS
<1>1. /\ multi \in RowsDialog /\ Frames(multi.records) <= Max({multi.total, multi.opened})
      /\ n \in Nat
  BY MultiOpen DEF RowsDialog
<1>2. /\ recs \in Seq(RowType) /\ Frames(recs) <= Max({multi.total, multi.opened})
      /\ \A S : RowsWithin(multi.records, S) => RowsWithin(recs, S)
  BY <1>1, CountSet
<1>3. /\ OnTop("multi") /\ SyncMultiArtworkRecords(recs)
      /\ UNCHANGED <<images, plan, material, preview, assign, naming, confirm, names, files>>
  BY DEF UpdateMultiArtworkRecordFrameCount
<1> HIDE DEF recs
<1>. QED
  BY <1>0, <1>2, <1>3, MultiEdited

LEMMA StepMultiMaterial ==
  ASSUME ArtworkInv, multi # None, NEW k \in DOMAIN multi.records, UpdateMultiArtworkRecordMaterial(k)
  PROVE  ArtworkInv'
<1> DEFINE recs == [multi.records EXCEPT ![k].material = Material]
<1>0. ArtworkInv
  OBVIOUS
<1>1. /\ multi.records \in Seq(RowType) /\ Frames(multi.records) <= Max({multi.total, multi.opened})
  BY MultiOpen
<1>2. /\ recs \in Seq(RowType) /\ Frames(recs) = Frames(multi.records)
      /\ \A S : RowsWithin(multi.records, S) => RowsWithin(recs, S)
  BY <1>1, PaperSet
<1>3. /\ OnTop("multi") /\ SyncMultiArtworkRecords(recs)
      /\ UNCHANGED <<images, plan, material, preview, assign, naming, confirm, names, files>>
  BY DEF UpdateMultiArtworkRecordMaterial
<1> HIDE DEF recs
<1>. QED
  BY <1>0, <1>1, <1>2, <1>3, MultiEdited

\* The record added has as many frames as are left, or fewer.
LEMMA StepMultiAdded ==
  ASSUME ArtworkInv, AddMultiArtworkRecord
  PROVE  ArtworkInv'
<1> DEFINE left == Remaining(multi)
           n == IF multi.records = <<>> THEN left ELSE Min({Last(multi.records).frames, left})
           r == Row(None, Material, n)
<1>0. ArtworkInv
  OBVIOUS
<1>1. /\ OnTop("multi") /\ SyncMultiArtworkRecords(Append(multi.records, r))
      /\ UNCHANGED <<images, plan, material, preview, assign, naming, confirm, names, files>>
  BY DEF AddMultiArtworkRecord
<1>2. multi # None
  BY <1>1, Tops
<1>3. /\ multi \in RowsDialog /\ Frames(multi.records) <= Max({multi.total, multi.opened})
      /\ multi.records \in Seq(RowType) /\ Frames(multi.records) \in Nat /\ multi.total \in Nat
  BY <1>2, MultiOpen DEF RowsDialog
<1>4. left \in Nat
  BY <1>3 DEF Remaining
<1>5. n \in Nat /\ n <= left
  <2>1. CASE multi.records = <<>>
    BY <1>4, <2>1
  <2>2. CASE multi.records # <<>>
    <3>1. Last(multi.records) = multi.records[Len(multi.records)]
      BY DEF Last
    <3>2. multi.records[Len(multi.records)] \in RowType
      BY <1>3, <2>2
    <3>3. Last(multi.records).frames \in Nat
      BY <3>1, <3>2 DEF RowType
    <3> HIDE DEF left
    <3>4. Min({Last(multi.records).frames, left})
            = IF Last(multi.records).frames <= left THEN Last(multi.records).frames ELSE left
      BY <1>4, <3>3, MinOfTwo
    <3>. QED
      BY <1>4, <2>2, <3>3, <3>4
  <2>. QED
    BY <2>1, <2>2
<1>6. r \in RowType /\ r.image = None /\ r.frames <= Remaining(multi)
  <2> HIDE DEF n
  <2>. QED
    BY <1>5 DEF Row, RowType
<1> HIDE DEF r
<1>7. /\ Append(multi.records, r) \in Seq(RowType)
      /\ Frames(Append(multi.records, r)) <= Max({multi.total, multi.opened})
      /\ \A S : RowsWithin(multi.records, S) => RowsWithin(Append(multi.records, r), S)
  BY <1>3, <1>6, RecordAdded
<1>. QED
  BY <1>0, <1>1, <1>7, MultiEdited

LEMMA StepMultiRemoved ==
  ASSUME ArtworkInv, multi # None, NEW k \in DOMAIN multi.records, RemoveMultiArtworkRecord(k)
  PROVE  ArtworkInv'
<1>0. ArtworkInv
  OBVIOUS
<1>1. /\ OnTop("multi") /\ SyncMultiArtworkRecords(RemoveAt(multi.records, k))
      /\ UNCHANGED <<images, plan, material, preview, assign, naming, confirm, names, files>>
  BY DEF RemoveMultiArtworkRecord
<1>2. /\ RemoveAt(multi.records, k) \in Seq(RowType)
      /\ Frames(RemoveAt(multi.records, k)) <= Max({multi.total, multi.opened})
      /\ \A S : RowsWithin(multi.records, S) => RowsWithin(RemoveAt(multi.records, k), S)
  BY MultiOpen, RecordRemoved
<1>. QED
  BY <1>0, <1>1, <1>2, MultiEdited

LEMMA StepMaterialUpdated ==
  ASSUME ArtworkInv, material # None, NEW k \in DOMAIN material.records, UpdateMultiMaterialRecord(k)
  PROVE  ArtworkInv'
<1>0. ArtworkInv
  OBVIOUS
<1>1. /\ material \in RowsDialog /\ Frames(material.records) <= Max({material.total, material.opened})
      /\ material.records \in Seq(RowType)
  BY MaterialOpen
<1>2. UNCHANGED <<images, plan, multi, preview, assign, naming, confirm, names, files>>
  BY DEF UpdateMultiMaterialRecord
<1>3. ASSUME NEW m \in {Material, None},
             SyncMultiMaterialRecords([material.records EXCEPT ![k].material = m])
      PROVE  ArtworkInv'
  <2> DEFINE recs == [material.records EXCEPT ![k].material = m]
  <2>1. recs \in Seq(RowType) /\ Frames(recs) = Frames(material.records)
    BY <1>1, PaperSet
  <2>2. SyncMultiMaterialRecords(recs)
    BY <1>3
  <2> HIDE DEF recs
  <2>. QED
    BY <1>0, <1>1, <1>2, <2>1, <2>2, MaterialWritten
<1>4. ASSUME NEW n \in 0 .. material.total,
             SyncMultiMaterialRecords([material.records EXCEPT ![k].frames = Min({n, MaxForRow(material, k)})])
      PROVE  ArtworkInv'
  <2> DEFINE recs == [material.records EXCEPT ![k].frames = Min({n, MaxForRow(material, k)})]
  <2>1. n \in Nat
    BY <1>1 DEF RowsDialog
  <2>2. recs \in Seq(RowType) /\ Frames(recs) <= Max({material.total, material.opened})
    BY <1>1, <2>1, CountSet
  <2>3. SyncMultiMaterialRecords(recs)
    BY <1>4
  <2> HIDE DEF recs
  <2>. QED
    BY <1>0, <1>2, <2>2, <2>3, MaterialWritten
<1>. QED
  BY <1>3, <1>4 DEF UpdateMultiMaterialRecord

LEMMA StepMaterialAdded ==
  ASSUME ArtworkInv, AddMultiMaterialRecord
  PROVE  ArtworkInv'
<1> DEFINE r == Row(None, None, Remaining(material))
<1>0. ArtworkInv
  OBVIOUS
<1>1. /\ material # None /\ SyncMultiMaterialRecords(Append(material.records, r))
      /\ UNCHANGED <<images, plan, multi, preview, assign, naming, confirm, names, files>>
  BY Tops DEF AddMultiMaterialRecord
<1>2. /\ material \in RowsDialog /\ Frames(material.records) <= Max({material.total, material.opened})
      /\ Frames(material.records) \in Nat /\ material.total \in Nat
  BY <1>1, MaterialOpen DEF RowsDialog
<1>3. Remaining(material) \in Nat
  BY <1>2 DEF Remaining
<1>4. r \in RowType /\ r.image = None /\ r.frames <= Remaining(material)
  BY <1>3 DEF Row, RowType
<1> HIDE DEF r
<1>5. /\ Append(material.records, r) \in Seq(RowType)
      /\ Frames(Append(material.records, r)) <= Max({material.total, material.opened})
  BY <1>2, <1>4, RecordAdded
<1>. QED
  BY <1>0, <1>1, <1>5, MaterialWritten

LEMMA StepMaterialRemoved ==
  ASSUME ArtworkInv, material # None, NEW k \in DOMAIN material.records, RemoveMultiMaterialRecord(k)
  PROVE  ArtworkInv'
<1>0. ArtworkInv
  OBVIOUS
<1>1. /\ SyncMultiMaterialRecords(RemoveAt(material.records, k))
      /\ UNCHANGED <<images, plan, multi, preview, assign, naming, confirm, names, files>>
  BY DEF RemoveMultiMaterialRecord
<1>2. /\ RemoveAt(material.records, k) \in Seq(RowType)
      /\ Frames(RemoveAt(material.records, k)) <= Max({material.total, material.opened})
  BY MaterialOpen, RecordRemoved
<1>. QED
  BY <1>0, <1>1, <1>2, MaterialWritten

\* The click on an image, for a record or for the format.
LEMMA StepAssigned ==
  ASSUME ArtworkInv, NEW i \in Images, AssignArtworkImageToTarget(i)
  PROVE  ArtworkInv'
<1>0. ArtworkInv
  OBVIOUS
<1>1. /\ assign # None /\ confirm = None /\ assign.asset # None /\ i \in images
      /\ assign' = None /\ preview' = None
      /\ UNCHANGED <<images, plan, material, naming, confirm, names, files>>
  BY Tops DEF AssignArtworkImageToTarget
<1>2. FormatOf(assign)
  BY <1>0, <1>1 DEF ArtworkInv, TypeInv
<1>3. CASE assign.slot # None
  <2> DEFINE k == assign.slot
             r == [multi.records[k] EXCEPT !.image = i]
             recs == [multi.records EXCEPT ![assign.slot].image = i]
  <2>1. SyncMultiArtworkRecords(recs)
    BY <1>3 DEF AssignArtworkImageToTarget
  <2>2. multi # None /\ k \in DOMAIN multi.records
    BY <1>0, <1>1, <1>3 DEF ArtworkInv, ModalInv
  <2>3. /\ multi.records \in Seq(RowType) /\ Frames(multi.records) <= Max({multi.total, multi.opened})
        /\ Frames(multi.records) \in Nat
    BY <2>2, MultiOpen
  <2>4. multi.records[k] \in RowType
    BY <2>2, <2>3
  <2>5. r \in RowType /\ r.frames = multi.records[k].frames /\ r.image = i /\ r.frames \in Nat
    BY <2>4 DEF RowType
  <2>6. recs = [multi.records EXCEPT ![k] = r]
    OBVIOUS
  <2>7. RowsWithin(multi.records, images \cup held)
    BY <1>0, <2>2 DEF ArtworkInv, NamedInv
  <2> HIDE DEF recs, r
  <2>8. /\ recs \in Seq(RowType)
        /\ Frames(recs) + multi.records[k].frames = Frames(multi.records) + r.frames
        /\ RowsWithin(recs, images \cup held)
    BY <1>1, <2>2, <2>3, <2>5, <2>6, <2>7, RecordSet
  <2>9. Frames(recs) = Frames(multi.records)
    BY <2>3, <2>5, <2>8, FramesAreNumbers
  <2>. QED
    BY <1>0, <1>1, <2>1, <2>2, <2>3, <2>8, <2>9, MultiWritten
<1>4. CASE assign.slot = None
  <2> DEFINE x == assign.asset
             b == WithFormatImage(assets[x], assign.format, i)
  <2>1. assets' = [assets EXCEPT ![x] = b] /\ multi' = multi /\ aside' = aside
    BY <1>4 DEF AssignArtworkImageToTarget
  <2>2. multi = None /\ material = None
    BY <1>0, <1>1, <1>4 DEF ArtworkInv, ModalInv
  <2>3. x \in Assets /\ assign.format \in Fs /\ assets \in [Assets -> AssetType]
    BY <1>0, <1>2 DEF FormatOf, ArtworkInv, TypeInv
  <2>4. b \in AssetType /\ ImagesOf(b) \subseteq ImagesOf(assets[x]) \cup images
    BY <1>1, <2>3, FormatImageSet
  <2> HIDE DEF b
  <2>5. /\ assets' \in [Assets -> AssetType]
        /\ \A y \in Assets : ImagesOf(assets'[y]) \subseteq ImagesOf(assets[y]) \cup images
    BY <2>1, <2>3, <2>4
  <2>6. aside \in BOOLEAN /\ plan \in [Assets -> [Fs -> Nat]]
    BY <1>0 DEF ArtworkInv, TypeInv
  <2>. QED
    BY <1>0, <1>1, <2>1, <2>2, <2>5, <2>6, AssetsChanged
<1>. QED
  BY <1>3, <1>4

LEMMA StepRemoved ==
  ASSUME ArtworkInv, RemoveArtworkFromPreview
  PROVE  ArtworkInv'
<1> DEFINE x == preview.asset
           b == WithFormatImage(assets[x], preview.format, None)
<1>0. ArtworkInv
  OBVIOUS
<1>1. /\ preview # None /\ assign = None /\ preview' = None /\ assets' = [assets EXCEPT ![x] = b]
      /\ UNCHANGED <<images, plan, multi, material, assign, naming, confirm, names, files, aside>>
  BY Tops DEF RemoveArtworkFromPreview
<1>2. multi = None /\ material = None
  BY <1>0, <1>1 DEF ArtworkInv, ModalInv
<1>3. /\ x \in Assets /\ preview.format \in Fs /\ assets \in [Assets -> AssetType]
      /\ aside \in BOOLEAN /\ plan \in [Assets -> [Fs -> Nat]]
  BY <1>0, <1>1 DEF FormatOf, ArtworkInv, TypeInv
<1>4. b \in AssetType /\ ImagesOf(b) \subseteq ImagesOf(assets[x])
  BY <1>3, FormatImageSet
<1> HIDE DEF b
<1>5. /\ assets' \in [Assets -> AssetType]
      /\ \A y \in Assets : ImagesOf(assets'[y]) \subseteq ImagesOf(assets[y])
  BY <1>1, <1>3, <1>4
<1>. QED
  BY <1>0, <1>1, <1>2, <1>3, <1>5, AssetsChanged

\* The box of an asset is ticked, or unticked.
LEMMA StepBox ==
  ASSUME ArtworkInv, NEW x \in Assets, NEW i \in Images, SetArtworkAssetAssignment(x, i)
  PROVE  ArtworkInv'
<1> DEFINE b == IF i \in ImagesOf(assets[x]) THEN Unticked(x, i) ELSE Ticked(x, i)
<1>0. ArtworkInv
  OBVIOUS
<1>1. /\ confirm = None /\ i \in images /\ aside' = TRUE /\ assets' = [assets EXCEPT ![x] = b]
      /\ UNCHANGED <<images, plan, dialogs, names, files>>
  BY Tops DEF SetArtworkAssetAssignment
<1>2. /\ images' = images /\ multi' = multi /\ material' = material /\ preview' = preview
      /\ assign' = assign /\ confirm' = confirm /\ files' = files /\ plan' = plan
  BY <1>1 DEF dialogs
<1>3. assets \in [Assets -> AssetType] /\ plan \in [Assets -> [Fs -> Nat]]
  BY <1>0 DEF ArtworkInv, TypeInv
<1>4. b \in AssetType /\ ImagesOf(b) \subseteq ImagesOf(assets[x]) \cup {i}
  <2>1. assets[x] \in AssetType
    BY <1>3
  <2>2. Unticked(x, i) \in AssetType /\ ImagesOf(Unticked(x, i)) \subseteq ImagesOf(assets[x])
    BY <2>1, UntickedNames
  <2>3. Ticked(x, i) \in AssetType /\ ImagesOf(Ticked(x, i)) \subseteq ImagesOf(assets[x]) \cup {i}
    BY <2>1, TickedNames
  <2>. QED
    BY <2>2, <2>3
<1> HIDE DEF b
<1>5. /\ assets' \in [Assets -> AssetType]
      /\ \A y \in Assets : ImagesOf(assets'[y]) \subseteq ImagesOf(assets[y]) \cup images
  BY <1>1, <1>3, <1>4
<1>. QED
  BY <1>0, <1>1, <1>2, <1>3, <1>5, AssetsChanged

\* All files of the confirmed image are on their way out.
LEMMA StepConfirmed ==
  ASSUME ArtworkInv, ConfirmDeleteArtwork
  PROVE  ArtworkInv'
<1>0. ArtworkInv
  OBVIOUS
<1>1. /\ confirm # None /\ deleting = {} /\ deleting' = {confirm} \X Blobs
      /\ flight' = flight \cup deleting'
      /\ images' = images /\ assets' = assets /\ plan' = plan /\ multi' = multi
      /\ material' = material /\ preview' = preview /\ assign' = assign /\ confirm' = confirm
      /\ blobs' = blobs /\ held' = held /\ broken' = broken /\ aside' = aside /\ uploads' = uploads
  BY DEF ConfirmDeleteArtwork, dialogs
<1>2. TypeInv'
  BY <1>0, <1>1 DEF ArtworkInv, TypeInv
<1>3. ModalInv'
  BY <1>0, <1>1 DEF ArtworkInv, ModalInv
<1>4. NamedInv'
  BY <1>0, <1>1 DEF ArtworkInv, NamedInv, NamedImagesAreListed, AssignedArtwork
<1>5. RowsInv'
  BY <1>0, <1>1, RowsStay DEF ArtworkInv
<1>6. FilesInv'
  <2>1. \A d \in deleting' : d[1] = confirm
    BY <1>1
  <2>2. \A d \in flight' \ deleting' : d[1] \in broken
    BY <1>0, <1>1 DEF ArtworkInv, FilesInv
  <2>3. \A b \in Blobs : <<confirm, b>> \in deleting'
    BY <1>1
  <2>4. FilesOfImages'
    BY <1>0, <1>1 DEF ArtworkInv, FilesInv, FilesOfImages
  <2>. QED
    BY <1>1, <2>1, <2>2, <2>3, <2>4 DEF FilesInv
<1>. QED
  BY <1>2, <1>3, <1>4, <1>5, <1>6 DEF ArtworkInv

\* One file is gone; with the last one awaited, its image goes too.
LEMMA StepDeleted ==
  ASSUME ArtworkInv, NEW b \in flight, BlobDeleted(b)
  PROVE  ArtworkInv'
<1>0. ArtworkInv
  OBVIOUS
<1>1. /\ flight' = flight \ {b} /\ blobs' = blobs \ {b} /\ deleting' = deleting \ {b}
      /\ assets' = assets /\ plan' = plan /\ multi' = multi /\ material' = material
      /\ assign' = assign /\ broken' = broken /\ aside' = aside /\ uploads' = uploads
  BY DEF BlobDeleted
<1>2. /\ deleting \subseteq flight /\ (deleting # {} => confirm # None)
      /\ \A d \in deleting : d[1] = confirm
      /\ \A d \in flight \ deleting : d[1] \in broken
      /\ deleting # {} => \A c \in Blobs : <<confirm, c>> \in blobs => <<confirm, c>> \in deleting
      /\ FilesOfImages
  BY <1>0 DEF ArtworkInv, FilesInv
<1>3. confirm # None => confirm \in images /\ confirm \notin uploads /\ assign # None
  BY <1>0 DEF ArtworkInv, TypeInv, ModalInv
<1>4. \A i \in Images, c \in Blobs : i # b[1] => (<<i, c>> \in blobs' <=> <<i, c>> \in blobs)
  BY <1>1
<1>5. CASE deleting = {b}
  <2>1. /\ images' = images \ {confirm} /\ confirm' = None
        /\ preview' \in {None, preview} /\ deleting' = {}
        /\ held' = IF multi # None /\ confirm \in {r.image : r \in ToSet(multi.records)}
                   THEN held \cup {confirm} ELSE held
    BY <1>1, <1>5 DEF BlobDeleted
  <2>2. confirm \in images /\ b[1] = confirm
    BY <1>2, <1>3, <1>5
  <2>3. TypeInv'
    BY <1>0, <1>1, <2>1, <2>2 DEF ArtworkInv, TypeInv, FormatOf
  <2>4. ModalInv'
    BY <1>0, <1>1, <2>1 DEF ArtworkInv, ModalInv
  <2>5. NamedInv'
    <3>1. \A x \in Assets : ImagesOf(assets[x]) \subseteq (images \cup held) \ {confirm}
      BY <1>0 DEF ArtworkInv, NamedInv, NamedImagesAreListed, AssignedArtwork
    <3>2. NamedImagesAreListed'
      BY <1>1, <2>1, <3>1 DEF NamedImagesAreListed
    <3>3. ASSUME multi # None
          PROVE  RowsWithin(multi.records, images' \cup held')
      <4>1. RowsWithin(multi.records, images \cup held) /\ multi.records \in Seq(RowType)
        BY <1>0, <3>3, MultiOpen DEF ArtworkInv, NamedInv
      <4> SUFFICES ASSUME NEW k \in 1 .. Len(multi.records)
                   PROVE  multi.records[k].image \in images' \cup held' \cup {None}
        BY DEF RowsWithin
      <4>2. multi.records[k].image \in images \cup held \cup {None}
        BY <4>1 DEF RowsWithin
      <4>3. multi.records[k] \in ToSet(multi.records)
        BY <4>1 DEF ToSet
      <4>. QED
        BY <2>1, <3>3, <4>2, <4>3
    <3>4. None \notin AssignedArtwork'
      BY DEF AssignedArtwork, ImagesOf
    <3>. QED
      BY <1>1, <2>1, <3>2, <3>3, <3>4 DEF NamedInv
  <2>6. RowsInv'
    BY <1>0, <1>1, RowsStay DEF ArtworkInv
  <2>7. FilesInv'
    <3>1. \A c \in Blobs : <<confirm, c>> \notin blobs'
      BY <1>1, <1>2, <1>5
    <3>2. FilesOfImages'
      <4> SUFFICES ASSUME NEW i \in Images \ uploads
                   PROVE  IF i \in images'
                          THEN {i} \X Blobs \subseteq blobs' \/ i \in broken' \/ (i = confirm' /\ deleting' # {})
                          ELSE \A c \in Blobs : <<i, c>> \notin blobs'
        BY <1>1 DEF FilesOfImages
      <4>1. CASE i = confirm
        BY <2>1, <3>1, <4>1
      <4>2. CASE i # confirm
        <5>1. IF i \in images
              THEN {i} \X Blobs \subseteq blobs \/ i \in broken
              ELSE \A c \in Blobs : <<i, c>> \notin blobs
          BY <1>2, <4>2 DEF FilesOfImages
        <5>. QED
          BY <1>1, <1>4, <2>1, <2>2, <4>2, <5>1
      <4>. QED
        BY <4>1, <4>2
    <3>. QED
      BY <1>1, <1>2, <1>5, <2>1, <3>2 DEF FilesInv
  <2>. QED
    BY <2>3, <2>4, <2>5, <2>6, <2>7 DEF ArtworkInv
<1>6. CASE deleting # {b}
  <2>1. images' = images /\ confirm' = confirm /\ preview' = preview /\ held' = held
    BY <1>6 DEF BlobDeleted
  <2>2. TypeInv'
    BY <1>0, <1>1, <2>1 DEF ArtworkInv, TypeInv
  <2>3. ModalInv'
    BY <1>0, <1>1, <2>1 DEF ArtworkInv, ModalInv
  <2>4. NamedInv'
    BY <1>0, <1>1, <2>1 DEF ArtworkInv, NamedInv, NamedImagesAreListed, AssignedArtwork
  <2>5. RowsInv'
    BY <1>0, <1>1, RowsStay DEF ArtworkInv
  <2>6. FilesInv'
    <3>1. deleting' # {} <=> deleting # {}
      BY <1>1, <1>6
    <3>2. b[1] \in broken \/ (b[1] = confirm /\ deleting # {})
      BY <1>2
    <3>3. FilesOfImages'
      <4> SUFFICES ASSUME NEW i \in Images \ uploads
                   PROVE  IF i \in images
                          THEN {i} \X Blobs \subseteq blobs' \/ i \in broken \/ (i = confirm /\ deleting # {})
                          ELSE \A c \in Blobs : <<i, c>> \notin blobs'
        BY <1>1, <2>1, <3>1 DEF FilesOfImages
      <4>1. IF i \in images
            THEN {i} \X Blobs \subseteq blobs \/ i \in broken \/ (i = confirm /\ deleting # {})
            ELSE \A c \in Blobs : <<i, c>> \notin blobs
        BY <1>2 DEF FilesOfImages
      <4>. QED
        BY <1>1, <1>4, <3>2, <4>1
    <3>4. \A c \in Blobs : (<<confirm, c>> \in blobs' /\ deleting # {}) => <<confirm, c>> \in deleting'
      BY <1>1, <1>2
    <3>5. /\ deleting' \subseteq flight' /\ (deleting' # {} => confirm' # None)
          /\ \A d \in deleting' : d[1] = confirm'
          /\ \A d \in flight' \ deleting' : d[1] \in broken'
      BY <1>1, <1>2, <2>1
    <3>6. deleting' # {} => \A c \in Blobs : <<confirm', c>> \in blobs' => <<confirm', c>> \in deleting'
      <4> SUFFICES ASSUME deleting' # {}, NEW c \in Blobs, <<confirm', c>> \in blobs'
                   PROVE  <<confirm', c>> \in deleting'
        OBVIOUS
      <4>1. confirm' = confirm /\ deleting # {}
        BY <2>1, <3>1
      <4>2. <<confirm, c>> \in blobs'
        BY <4>1
      <4>3. <<confirm, c>> \in deleting'
        BY <3>4, <4>1, <4>2
      <4>. QED
        BY <4>1, <4>3
    <3>. QED
      BY <3>3, <3>5, <3>6 DEF FilesInv
  <2>. QED
    BY <2>2, <2>3, <2>4, <2>5, <2>6 DEF ArtworkInv
<1>. QED
  BY <1>5, <1>6

\* A failure ends the wait: the image stays, and counts as broken.
LEMMA StepFailed ==
  ASSUME ArtworkInv, NEW b \in flight, BlobFails(b)
  PROVE  ArtworkInv'
<1>0. ArtworkInv
  OBVIOUS
<1>1. /\ flight' = flight \ {b} /\ deleting' = (IF b \in deleting THEN {} ELSE deleting)
      /\ broken' = broken \cup {b[1]}
      /\ images' = images /\ assets' = assets /\ plan' = plan /\ multi' = multi
      /\ material' = material /\ preview' = preview /\ assign' = assign /\ confirm' = confirm
      /\ blobs' = blobs /\ held' = held /\ aside' = aside /\ uploads' = uploads
  BY DEF BlobFails, dialogs
<1>2. TypeInv'
  BY <1>0, <1>1 DEF ArtworkInv, TypeInv
<1>3. ModalInv'
  BY <1>0, <1>1 DEF ArtworkInv, ModalInv
<1>4. NamedInv'
  BY <1>0, <1>1 DEF ArtworkInv, NamedInv, NamedImagesAreListed, AssignedArtwork
<1>5. RowsInv'
  BY <1>0, <1>1, RowsStay DEF ArtworkInv
<1>6. FilesInv'
  <2>1. /\ deleting \subseteq flight /\ (deleting # {} => confirm # None)
        /\ \A d \in deleting : d[1] = confirm
        /\ \A d \in flight \ deleting : d[1] \in broken
        /\ deleting # {} => \A c \in Blobs : <<confirm, c>> \in blobs => <<confirm, c>> \in deleting
        /\ FilesOfImages
    BY <1>0 DEF ArtworkInv, FilesInv
  <2>2. CASE b \in deleting
    <3>1. b[1] = confirm /\ deleting' = {}
      BY <1>1, <2>1, <2>2
    <3>2. FilesOfImages'
      BY <1>1, <2>1, <3>1 DEF FilesOfImages
    <3>3. \A d \in flight' : d[1] \in broken'
      BY <1>1, <2>1, <3>1
    <3>. QED
      BY <3>1, <3>2, <3>3 DEF FilesInv
  <2>3. CASE b \notin deleting
    <3>1. deleting' = deleting /\ deleting \subseteq flight'
      <4>1. deleting' = deleting /\ flight' = flight \ {b}
        BY <1>1, <2>3
      <4>. QED
        BY <2>1, <2>3, <4>1
    <3>2. FilesOfImages'
      BY <1>1, <2>1, <3>1 DEF FilesOfImages
    <3>3. \A d \in flight' \ deleting' : d[1] \in broken'
      BY <1>1, <2>1, <3>1
    <3>. QED
      BY <1>1, <2>1, <3>1, <3>2, <3>3 DEF FilesInv
  <2>. QED
    BY <2>2, <2>3
<1>. QED
  BY <1>2, <1>3, <1>4, <1>5, <1>6 DEF ArtworkInv

-----------------------------------------------------------------------------
(* The theorems.                                                           *)

LEMMA InitInv ==
  ASSUME ArtworkInit
  PROVE  ArtworkInv
<1>1. /\ images = Images \ Uploading /\ uploads = Uploading
      /\ multi = None /\ material = None /\ preview = None /\ assign = None /\ confirm = None
      /\ deleting = {} /\ flight = {} /\ blobs = images \X Blobs /\ held = {} /\ broken = {}
      /\ aside = FALSE /\ assets \in Stored /\ plan \in Plans
  BY DEF ArtworkInit
<1>2. /\ assets \in [Assets -> AssetType] /\ plan \in [Assets -> [Fs -> Nat]]
      /\ \A x \in Assets : ImagesOf(assets[x]) \subseteq images
  BY <1>1, ArtworkAssumption, StoredImagesAssumption
<1>3. TypeInv
  BY <1>1, <1>2, ArtworkAssumption DEF TypeInv
<1>4. ModalInv
  BY <1>1 DEF ModalInv
<1>5. NamedInv
  <2>1. None \notin AssignedArtwork
    BY DEF AssignedArtwork, ImagesOf
  <2>. QED
    BY <1>1, <1>2, <2>1 DEF NamedInv, NamedImagesAreListed
<1>6. RowsInv
  BY <1>1 DEF RowsInv, FramesWithinTotal, RecordsAreRows
<1>7. FilesInv
  <2>1. FilesOfImages
    BY <1>1 DEF FilesOfImages
  <2>. QED
    BY <1>1, <2>1 DEF FilesInv
<1>. QED
  BY <1>3, <1>4, <1>5, <1>6, <1>7 DEF ArtworkInv

LEMMA StutterInv ==
  ASSUME ArtworkInv, UNCHANGED vars
  PROVE  ArtworkInv'
<1>1. UNCHANGED <<images, assets, plan, multi, material, preview, assign, files, aside>> /\ confirm' = confirm
  BY DEF vars, files
<1>. QED
  BY <1>1, StepQuiet

LEMMA NextInv ==
  ASSUME ArtworkInv, ArtworkNext
  PROVE  ArtworkInv'
<1>1. CASE \E p \in Plans : SummaryArrives(p)
  BY <1>1, StepSummary
<1>2. ASSUME NEW i \in Images,
             \/ UploadFinishes(i) \/ AssignArtworkImageToTarget(i)
             \/ OpenCreativeNames(i) \/ HandleDeleteArtwork(i)
             \/ \E x \in Assets : SetArtworkAssetAssignment(x, i)
      PROVE  ArtworkInv'
  BY <1>2, StepUpload, StepAssigned, StepNames, StepHandleDelete, StepBox
<1>3. ASSUME NEW x \in Assets, NEW f \in Fs,
             \/ OpenMultiArtworkDialog(x, f) \/ OpenMaterialDialog(x, f)
             \/ OpenArtworkDialog(x, f)
      PROVE  ArtworkInv'
  BY <1>3, StepOpenMulti, StepOpenMaterial, StepOpenArtwork
<1>4. CASE OpenAssignArtworkDialog \/ CloseDialog \/ RemoveArtworkFromPreview
  BY <1>4, StepOpenAssign, StepClose, StepRemoved
<1>5. CASE AddMultiArtworkRecord \/ AddMultiMaterialRecord
  BY <1>5, StepMultiAdded, StepMaterialAdded
<1>6. ASSUME multi # None, NEW k \in DOMAIN multi.records,
             \/ UpdateMultiArtworkRecordMaterial(k) \/ RemoveMultiArtworkRecord(k)
             \/ \E n \in 0 .. multi.total : UpdateMultiArtworkRecordFrameCount(k, n)
      PROVE  ArtworkInv'
  BY <1>6, StepMultiMaterial, StepMultiRemoved, StepMultiCount
<1>7. ASSUME material # None, NEW k \in DOMAIN material.records,
             UpdateMultiMaterialRecord(k) \/ RemoveMultiMaterialRecord(k)
      PROVE  ArtworkInv'
  BY <1>7, StepMaterialUpdated, StepMaterialRemoved
<1>8. CASE CloseCreativeNames \/ \E n \in CreativeNumbers \cup {None} : SelectCreativeName(n)
  BY <1>8, StepNames
<1>9. CASE CancelDeleteArtwork
  BY <1>9, StepNames
<1>10. CASE ConfirmDeleteArtwork
  BY <1>10, StepConfirmed
<1>11. CASE \E b \in flight : BlobDeleted(b) \/ BlobFails(b)
  BY <1>11, StepDeleted, StepFailed
<1>. QED
  BY <1>1, <1>2, <1>3, <1>4, <1>5, <1>6, <1>7, <1>8, <1>9, <1>10, <1>11 DEF ArtworkNext

\* The inductive invariant holds of every behaviour.
THEOREM ArtworkHolds == ArtworkSpec => []ArtworkInv
<1>1. ArtworkInit => ArtworkInv
  BY InitInv
<1>2. ArtworkInv /\ [ArtworkNext]_vars => ArtworkInv'
  BY NextInv, StutterInv
<1>. QED
  BY <1>1, <1>2, PTL DEF ArtworkSpec

\* No image an asset names is deleted (handleDeleteArtwork, confirmDeleteArtwork),
\* but for what an empty row of the open dialog still had.
THEOREM NamedStayListed == ArtworkSpec => []NamedImagesAreListed
<1>1. ArtworkInv => NamedImagesAreListed
  BY DEF ArtworkInv, NamedInv
<1>. QED
  BY <1>1, ArtworkHolds, PTL

\* The dialogs of rows hand out no more frames than there are
\* (updateMultiArtworkRecordFrameCount, addMultiArtworkRecord and those of the materials).
THEOREM FramesStayWithin == ArtworkSpec => []FramesWithinTotal
<1>1. ArtworkInv => FramesWithinTotal
  BY DEF ArtworkInv, RowsInv
<1>. QED
  BY <1>1, ArtworkHolds, PTL

\* What a dialog of rows shows is what the asset has (syncMultiArtworkRecords,
\* syncMultiMaterialRecords).
THEOREM RecordsStayRows == ArtworkSpec => []RecordsAreRows
<1>1. ArtworkInv => RecordsAreRows
  BY DEF ArtworkInv, RowsInv
<1>. QED
  BY <1>1, ArtworkHolds, PTL

\* Files and images go together (confirmDeleteArtwork), but for a deletion
\* under way and one that failed half-way.
THEOREM FilesStayTogether == ArtworkSpec => []FilesOfImages
<1>1. ArtworkInv => FilesOfImages
  BY DEF ArtworkInv, FilesInv
<1>. QED
  BY <1>1, ArtworkHolds, PTL

\* The rows of an asset name an image, in the words of UntickedIsGone.
LEMMA RowsNameSet ==
  ASSUME NEW rows \in Seq(RowType), NEW i
  PROVE  RowsName(rows, i) => i \in {r.image : r \in ToSet(rows)}
<1> SUFFICES ASSUME NEW k \in 1 .. Len(rows), rows[k].image = i
             PROVE  i \in {r.image : r \in ToSet(rows)}
  BY DEF RowsName
<1>1. rows[k] \in ToSet(rows)
  BY DEF ToSet
<1>. QED
  BY <1>1

\* The box that is unticked is unticked (setArtworkAssetAssignment).
THEOREM UntickedStayGone == ArtworkSpec => UntickedIsGone
<1> DEFINE Gone == \A x \in Assets, i \in Images :
             (i \in ImagesOf(assets[x]) /\ assets' # assets /\ SetArtworkAssetAssignment(x, i)) =>
               \/ i \notin ImagesOf(assets'[x])
               \/ \E f \in Fs \ ArtworkFormats(x) :
                    \/ NormalizeCreativeImageIds(assets[x])[f] = i
                    \/ i \in {r.image : r \in ToSet(RowsFor(assets[x], f))}
<1>1. ArtworkInv => Gone
  <2> SUFFICES ASSUME ArtworkInv, NEW x \in Assets, NEW i \in Images, i \in ImagesOf(assets[x]),
                      SetArtworkAssetAssignment(x, i), i \in ImagesOf(assets'[x])
               PROVE  \E f \in Fs \ ArtworkFormats(x) :
                        \/ NormalizeCreativeImageIds(assets[x])[f] = i
                        \/ i \in {r.image : r \in ToSet(RowsFor(assets[x], f))}
    OBVIOUS
  <2>1. assets \in [Assets -> AssetType] /\ assets[x] \in AssetType
    BY DEF ArtworkInv, TypeInv
  <2>2. assets' = [assets EXCEPT ![x] = Unticked(x, i)]
    BY DEF SetArtworkAssetAssignment
  <2>3. assets'[x] = Unticked(x, i)
    BY <2>1, <2>2
  <2>4. StillIn(x, i)
    BY <2>1, <2>3, UntickedNames
  <2>5. PICK f \in Fs \ ArtworkFormats(x) : \/ NormalizeCreativeImageIds(assets[x])[f] = i
                                            \/ RowsName(RowsFor(assets[x], f), i)
    BY <2>4 DEF StillIn
  <2>6. RowsFor(assets[x], f) \in Seq(RowType)
    BY <2>1, RowsForTyped
  <2>. QED
    BY <2>5, <2>6, RowsNameSet
<1>2. ArtworkSpec => [][Gone]_vars
  <2>1. ArtworkInv /\ [ArtworkNext]_vars => [Gone]_vars
    BY <1>1
  <2>. QED
    BY <2>1, ArtworkHolds, PTL DEF ArtworkSpec
<1>. QED
  BY <1>2 DEF UntickedIsGone

\* The creative names are numbered, and their numbers stay.
NumbersInv == None \notin CreativeNumbers

\* Only the choice of a name changes the names.
LEMMA NamesChange ==
  ASSUME ArtworkNext, names' # names
  PROVE  \E m \in CreativeNumbers \cup {None} : SelectCreativeName(m)
BY DEF ArtworkNext, SummaryArrives, UploadFinishes, AssignArtworkImageToTarget, OpenCreativeNames,
       HandleDeleteArtwork, SetArtworkAssetAssignment, OpenMultiArtworkDialog, OpenMaterialDialog,
       OpenArtworkDialog, OpenAssignArtworkDialog, CloseDialog, RemoveArtworkFromPreview,
       AddMultiArtworkRecord, AddMultiMaterialRecord, UpdateMultiArtworkRecordMaterial,
       RemoveMultiArtworkRecord, UpdateMultiArtworkRecordFrameCount, UpdateMultiMaterialRecord,
       RemoveMultiMaterialRecord, CloseCreativeNames, CancelDeleteArtwork, ConfirmDeleteArtwork,
       BlobDeleted, BlobFails

LEMMA Numbered == ArtworkSpec => []NumbersInv
<1>1. ArtworkInit => NumbersInv
  <2> SUFFICES ASSUME ArtworkInit
               PROVE  NumbersInv
    OBVIOUS
  <2>1. Cardinality(Images) \in Nat /\ None \notin Nat
    BY ArtworkAssumption, FS_CardinalityType
  <2>2. CreativeNumbers = 1 .. Cardinality(Images)
    BY DEF ArtworkInit, CreativeNumbers
  <2>. QED
    BY <2>1, <2>2 DEF NumbersInv
<1>2. NumbersInv /\ [ArtworkNext]_vars => NumbersInv'
  <2> SUFFICES ASSUME NumbersInv, [ArtworkNext]_vars, names' # names
               PROVE  NumbersInv'
    BY DEF NumbersInv, CreativeNumbers
  <2>1. PICK m : SelectCreativeName(m)
    BY NamesChange DEF vars
  <2>2. CreativeNumbers' = CreativeNumbers
    BY <2>1 DEF SelectCreativeName, AssignCreativeName, CreativeNumbers
  <2>. QED
    BY <2>2 DEF NumbersInv
<1>. QED
  BY <1>1, <1>2, PTL DEF ArtworkSpec

\* A listed image keeps its creative name until its own is chosen
\* (assignCreativeName), whatever is deleted meanwhile.
THEOREM NamesStay == ArtworkSpec => NamesAreKept
<1> DEFINE Kept == \A i \in images', n \in CreativeNumbers :
                     (names[n] = i /\ names'[n] # i) => naming = i
<1>1. ASSUME NumbersInv, NEW m, SelectCreativeName(m)
      PROVE  Kept
  <2> SUFFICES ASSUME NEW i \in images', NEW n \in CreativeNumbers, names[n] = i, names'[n] # i
               PROVE  naming = i
    OBVIOUS
  <2>1. i \in images /\ names' = AssignCreativeName(naming, m)
    BY <1>1 DEF SelectCreativeName
  <2>2. CASE m # None /\ names[m] \in images \ {naming}
    BY <2>1, <2>2 DEF AssignCreativeName
  <2>3. CASE ~(m # None /\ names[m] \in images \ {naming})
    <3>1. names'[n] = IF n = m THEN naming
                      ELSE IF names[n] = naming \/ names[n] \notin images THEN None ELSE names[n]
      BY <2>1, <2>3 DEF AssignCreativeName
    <3>2. CASE n # m
      BY <2>1, <3>1, <3>2
    <3>3. CASE n = m
      BY <1>1, <2>1, <2>3, <3>3 DEF NumbersInv
    <3>. QED
      BY <3>2, <3>3
  <2>. QED
    BY <2>2, <2>3
<1>2. NumbersInv /\ [ArtworkNext]_vars => [Kept]_vars
  <2> SUFFICES ASSUME NumbersInv, ArtworkNext, names' # names
               PROVE  Kept
    OBVIOUS
  <2>1. PICK m : SelectCreativeName(m)
    BY NamesChange
  <2>. QED
    BY <1>1, <2>1
<1>3. ArtworkSpec => [][Kept]_vars
  BY <1>2, Numbered, PTL DEF ArtworkSpec
<1>. QED
  BY <1>3 DEF NamesAreKept
=============================================================================
