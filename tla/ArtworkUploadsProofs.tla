------------------------ MODULE ArtworkUploadsProofs ------------------------
(***************************************************************************)
(* The inductive invariant of ArtworkUploads, its types, and that the      *)
(* notice at the end of a batch tells the truth.                           *)
(*                                                                         *)
(* A batch is a counter: each of its files is counted off once, when its   *)
(* end is heard of, and the notice appears with the last.  So the counter  *)
(* has to be the number of files whose end is still to be heard of: those  *)
(* something is under way for (Pending), and those that will never be      *)
(* counted off (astray).  Of all the others the batch has to know the      *)
(* truth (Fair), and it has to stay the truth, so that they are AtEnd.     *)
(*                                                                         *)
(* What keeps that true is that nothing is counted off twice: a file is in *)
(* the queue once, and the worker's own is not in it (QueueInv); a file is *)
(* in one loop of enqueueOneDriveFiles at most (CreatingInv); one polling  *)
(* loop per file reports to a batch, and none while its creation is under  *)
(* way (LoopInv).  As open batches have no file in common (DisjointInv),   *)
(* the end of a file changes one batch (RecordBatchCompletion).            *)
(***************************************************************************)
EXTENDS ArtworkUploads, FiniteSetTheorems, SequenceTheorems, TLAPS

-----------------------------------------------------------------------------
(* The inductive invariant.                                                *)

\* What may still end a file: the queue and its worker, the loop of
\* enqueueOneDriveFiles, and the polling loop that reports to its batch.
Working(f)   == f \in Local /\ (f = upload.file \/ \E k \in DOMAIN queue : queue[k] = f)
Awaited(f)   == \E c \in creating : f = c.now \/ f \in c.rest
Reporting(f) == f \in Drive /\ \E k \in DOMAIN loops[f] : loops[f][k] = TRUE
Pending(f)   == Working(f) \/ Awaited(f) \/ Reporting(f)

\* The files of a batch that were not counted off yet, and never will be if
\* they went astray.
Owed(f)      == Pending(f) \/ f \in astray
Uncounted(b) == {f \in b.files : Owed(f)}
Counted(b)   == b.files \ Uncounted(b)

\* f has come to its end: what happens to it from now on was told as a failure,
\* or nothing does.
AtEnd(f) ==
  IF f \in Local THEN ~Working(f)
  ELSE \/ f \in unclear
       \/ status[f] \in {"completed", "error"}
       \/ status[f] = "absent" /\ ~Awaited(f)

\* The number of failures told of the files of K is true, up to those of which
\* nobody was told.
Known == unclear \cup {f \in Drive : status[f] = "error"}
Told(K, failed, done, known) ==
  /\ Cardinality((K \cap done) \ known) <= Cardinality(K) - failed
  /\ Cardinality(K) - failed <= Cardinality(K \cap done)
Fair(K, failed) == Told(K, failed, imported, Known)

\* A batch counts what is still owed to it, and so far tells the truth.
BatchOK(b) ==
  /\ b.files # {}
  /\ b.remaining = Cardinality(Uncounted(b)) /\ b.remaining > 0
  /\ Fair(Counted(b), b.failed)
  /\ \A f \in Counted(b) : AtEnd(f)

BatchInv    == \A b \in batches : BatchOK(b)
DisjointInv == \A b, d \in batches : b # d => b.files \cap d.files = {}
PendingInv  == \A f \in Files : Pending(f) => f \notin astray /\ OpenBatch(f) # {}

QueueInv ==
  /\ \A i, j \in DOMAIN queue : queue[i] = queue[j] => i = j
  /\ \A i \in DOMAIN queue : queue[i] # upload.file /\ queue[i] \notin imported
  /\ \A f \in Local : jobs[f].st = "queued" => \E i \in DOMAIN queue : queue[i] = f
  /\ upload.file # None => (upload.step = "answer" <=> upload.file \in imported)

CreationOK(c) ==
  /\ c.now \notin c.rest /\ c.now \in c.batch /\ c.rest \subseteq c.batch
  /\ c.step = "sent" <=> status[c.now] = "absent"
  /\ c.step = "lost" => c.now \in unclear
  /\ \A f \in c.rest : status[f] = "absent"

CreatingInv ==
  /\ \A c \in creating : CreationOK(c)
  /\ \A c, d \in creating : c # d => c.batch \cap d.batch = {}

LoopOK(f) ==
  /\ \A i, j \in DOMAIN loops[f] : loops[f][i] = TRUE /\ loops[f][j] = TRUE => i = j
  /\ Reporting(f) => ~Awaited(f)
  /\ status[f] = "absent" =>
       loops[f] = <<>> /\ f \notin monitored /\ f \notin imported /\ f \notin listing.found
  /\ status[f] = "completed" => f \in imported

LoopInv   == \A f \in Drive : LoopOK(f)
NoticeInv == (\A f \in notice.files : AtEnd(f)) /\ Fair(notice.files, notice.failed)

\* The types of UploadTypeOK, by name.
Accounts     == People \cup {None}
JobType      == [st : {"none", "queued", "uploading", "completed", "error"}, batch : SUBSET Files]
AtWork       == [file : Local \cup {None}, step : {"source", "append", "answer"}]
BatchType    == [files : SUBSET Files, remaining : 0 .. Cardinality(Files),
                 failed : 0 .. Cardinality(Files)]
CreationType == [batch : SUBSET Drive, rest : SUBSET Drive, now : Drive, user : Accounts,
                 step : {"sent", "inserted", "lost"}]
ListType     == [user : Accounts, answered : BOOLEAN, found : SUBSET Drive]
Statuses     == {"absent", "queued", "active", "completed", "error"}
CountType    == [pages : 0 .. MaxPages, fails : 0 .. MaxFails]
NoticeType   == [files : SUBSET Files, failed : 0 .. Cardinality(Files)]

Typed ==
  /\ session \in Accounts
  /\ jobs \in [Files -> JobType]
  /\ queue \in Seq(Local)
  /\ upload \in AtWork
  /\ batches \subseteq BatchType
  /\ creating \subseteq CreationType
  /\ monitored \subseteq Drive
  /\ loops \in [Drive -> Seq(BOOLEAN)]
  /\ listing \in ListType
  /\ status \in [Drive -> Statuses]
  /\ imported \subseteq Files
  /\ owner \in [Drive -> Accounts]
  /\ count \in CountType
  /\ unclear \subseteq Files /\ astray \subseteq Files
  /\ notice \in NoticeType

UploadInv ==
  /\ Typed
  /\ BatchInv /\ DisjointInv /\ NoticeInv
  /\ PendingInv /\ QueueInv /\ CreatingInv /\ LoopInv

-----------------------------------------------------------------------------
(* Sets of files, and sequences.                                           *)

\* Every set of files is finite.
LEMMA SomeFiles ==
  ASSUME UploadAssumption, NEW K \in SUBSET Files
  PROVE  IsFiniteSet(K) /\ Cardinality(K) \in 0 .. Cardinality(Files)
<1>1. IsFiniteSet(Files)
  BY FS_Union DEF UploadAssumption, Files
<1>. QED
  BY <1>1, FS_Subset, FS_CardinalityType

\* A set of files has at least as many files as one within it.
LEMMA FewerFiles ==
  ASSUME UploadAssumption, NEW K \in SUBSET Files, NEW L \in SUBSET K
  PROVE  Cardinality(L) <= Cardinality(K)
BY SomeFiles, FS_Subset

\* One file more, one file less.
LEMMA OneFile ==
  ASSUME UploadAssumption, NEW K \in SUBSET Files, NEW f
  PROVE  /\ f \notin K => Cardinality(K \cup {f}) = Cardinality(K) + 1
         /\ f \in K => Cardinality(K \ {f}) = Cardinality(K) - 1
BY SomeFiles, FS_AddElement, FS_RemoveElement

\* Two sequences joined.
LEMMA Joined ==
  ASSUME NEW S, NEW a \in Seq(S), NEW b \in Seq(S)
  PROVE  /\ a \o b \in Seq(S) /\ Len(a \o b) = Len(a) + Len(b)
         /\ \A j \in 1 .. Len(a) + Len(b) :
              (a \o b)[j] = IF j <= Len(a) THEN a[j] ELSE b[j - Len(a)]
OBVIOUS

\* RemoveAt leaves what was before its place, and moves up what was after it.
LEMMA Removed ==
  ASSUME NEW S, NEW s \in Seq(S), NEW k \in DOMAIN s
  PROVE  /\ RemoveAt(s, k) \in Seq(S) /\ Len(RemoveAt(s, k)) = Len(s) - 1
         /\ \A j \in 1 .. Len(s) - 1 : RemoveAt(s, k)[j] = IF j < k THEN s[j] ELSE s[j + 1]
<1>1. Len(s) \in Nat /\ k \in 1 .. Len(s)
  OBVIOUS
<1>2. PICK a \in Seq(S) : a = SubSeq(s, 1, k - 1)
  <2>1. SubSeq(s, 1, k - 1) \in Seq(S)
    OBVIOUS
  <2>. QED
    BY <2>1
<1>3. PICK b \in Seq(S) : b = SubSeq(s, k + 1, Len(s))
  <2>1. SubSeq(s, k + 1, Len(s)) \in Seq(S)
    OBVIOUS
  <2>. QED
    BY <2>1
<1>4. Len(a) = k - 1 /\ \A j \in 1 .. k - 1 : a[j] = s[j]
  BY <1>2
<1>5. Len(b) = Len(s) - k /\ \A j \in 1 .. Len(s) - k : b[j] = s[k + j]
  BY <1>3
<1>6. RemoveAt(s, k) = a \o b
  BY <1>2, <1>3 DEF RemoveAt
<1>7. /\ RemoveAt(s, k) \in Seq(S) /\ Len(RemoveAt(s, k)) = Len(s) - 1
      /\ \A j \in 1 .. Len(s) - 1 :
           RemoveAt(s, k)[j] = IF j <= k - 1 THEN a[j] ELSE b[j - (k - 1)]
  BY <1>1, <1>4, <1>5, <1>6, Joined, SMTT(20)
<1>8. \A j \in k .. Len(s) - 1 : b[j - (k - 1)] = s[j + 1]
  <2>1. TAKE j \in k .. Len(s) - 1
  <2>2. j - (k - 1) \in 1 .. Len(s) - k /\ k + (j - (k - 1)) = j + 1
    BY <1>1
  <2>. QED
    BY <1>5, <2>2
<1>. QED
  <2> SUFFICES ASSUME NEW j \in 1 .. Len(s) - 1
               PROVE  RemoveAt(s, k)[j] = IF j < k THEN s[j] ELSE s[j + 1]
    BY <1>7
  <2>1. CASE j < k
    <3>1. j \in 1 .. k - 1 /\ j <= k - 1
      BY <1>1, <2>1
    <3>2. RemoveAt(s, k)[j] = a[j] /\ a[j] = s[j]
      BY <1>4, <1>7, <3>1
    <3>. QED
      BY <2>1, <3>2
  <2>2. CASE ~(j < k)
    <3>1. j \in k .. Len(s) - 1 /\ ~(j <= k - 1)
      BY <1>1, <2>2
    <3>2. RemoveAt(s, k)[j] = b[j - (k - 1)] /\ b[j - (k - 1)] = s[j + 1]
      BY <1>7, <1>8, <3>1
    <3>. QED
      BY <2>2, <3>2
  <2>. QED
    BY <2>1, <2>2

\* Whether an element occurs in a sequence, and whether each occurs once.
In(s, g) == \E i \in DOMAIN s : s[i] = g
Once(s)  == \A i, j \in DOMAIN s : s[i] = s[j] => i = j

\* One place less is one element less, if each is there once.
LEMMA TakenOut ==
  ASSUME NEW S, NEW s \in Seq(S), NEW k \in DOMAIN s, Once(s)
  PROVE  /\ RemoveAt(s, k) \in Seq(S) /\ Once(RemoveAt(s, k))
         /\ \A g : In(RemoveAt(s, k), g) <=> In(s, g) /\ g # s[k]
<1>1. PICK t \in Seq(S) : t = RemoveAt(s, k)
  BY Removed
<1>2. /\ Len(s) \in Nat /\ Len(t) = Len(s) - 1 /\ DOMAIN t = 1 .. Len(s) - 1
      /\ DOMAIN s = 1 .. Len(s) /\ k \in 1 .. Len(s)
      /\ \A j \in 1 .. Len(s) - 1 : t[j] = IF j < k THEN s[j] ELSE s[j + 1]
  BY <1>1, Removed
<1>3. Once(t)
  <2>1. SUFFICES ASSUME NEW i \in 1 .. Len(s) - 1, NEW j \in 1 .. Len(s) - 1, t[i] = t[j] PROVE i = j
    BY <1>2 DEF Once
  <2>. QED
    BY <1>2, <2>1 DEF Once
<1>4. ASSUME NEW g, In(t, g) PROVE In(s, g) /\ g # s[k]
  <2>1. PICK j \in 1 .. Len(s) - 1 : t[j] = g
    BY <1>2, <1>4 DEF In
  <2>2. PICK i \in 1 .. Len(s) : s[i] = g /\ i # k
    BY <1>2, <2>1
  <2>. QED
    BY <1>2, <2>2 DEF In, Once
<1>5. ASSUME NEW g, In(s, g), g # s[k] PROVE In(t, g)
  <2>1. PICK i \in 1 .. Len(s) : s[i] = g /\ i # k
    BY <1>2, <1>5 DEF In
  <2>2. CASE i < k
    <3>1. i \in 1 .. Len(s) - 1 /\ t[i] = g
      BY <1>2, <2>1, <2>2
    <3>. QED
      BY <1>2, <3>1 DEF In
  <2>3. CASE i > k
    <3>1. i - 1 \in 1 .. Len(s) - 1 /\ ~(i - 1 < k) /\ (i - 1) + 1 = i
      BY <1>2, <2>1, <2>3
    <3>2. t[i - 1] = g
      BY <1>2, <2>1, <3>1
    <3>. QED
      BY <1>2, <3>1, <3>2 DEF In
  <2>. QED
    BY <1>2, <2>1, <2>2, <2>3
<1>. QED
  BY <1>1, <1>3, <1>4, <1>5

\* The first element leaves a queue.
LEMMA TailOnce ==
  ASSUME NEW S, NEW s \in Seq(S), s # <<>>, Once(s)
  PROVE  /\ Head(s) \in S /\ Tail(s) \in Seq(S) /\ Once(Tail(s)) /\ In(s, Head(s))
         /\ \A g : In(Tail(s), g) <=> In(s, g) /\ g # Head(s)
<1>1. /\ Len(s) \in Nat /\ Len(s) > 0 /\ DOMAIN s = 1 .. Len(s)
      /\ Head(s) = s[1] /\ Head(s) \in S /\ Tail(s) \in Seq(S)
      /\ DOMAIN Tail(s) = 1 .. Len(s) - 1 /\ \A j \in 1 .. Len(s) - 1 : Tail(s)[j] = s[j + 1]
  OBVIOUS
<1>2. Once(Tail(s))
  BY <1>1 DEF Once
<1>3. In(s, Head(s))
  BY <1>1 DEF In
<1>4. ASSUME NEW g, In(Tail(s), g) PROVE In(s, g) /\ g # Head(s)
  <2>1. PICK j \in 1 .. Len(s) - 1 : s[j + 1] = g
    BY <1>1, <1>4 DEF In
  <2>2. j + 1 \in 1 .. Len(s) /\ 1 \in 1 .. Len(s) /\ j + 1 # 1
    BY <1>1, <2>1
  <2>. QED
    BY <1>1, <2>1, <2>2 DEF In, Once
<1>5. ASSUME NEW g, In(s, g), g # Head(s) PROVE In(Tail(s), g)
  <2>1. PICK i \in 1 .. Len(s) : s[i] = g /\ i # 1
    BY <1>1, <1>5 DEF In
  <2>2. i - 1 \in 1 .. Len(s) - 1 /\ (i - 1) + 1 = i
    BY <1>1, <2>1
  <2>3. Tail(s)[i - 1] = g
    BY <1>1, <2>1, <2>2
  <2>. QED
    BY <1>1, <2>2, <2>3 DEF In
<1>. QED
  BY <1>1, <1>2, <1>3, <1>4, <1>5

\* A list of a set has each of its elements once.
LEMMA ListOfSet ==
  ASSUME NEW S, IsFiniteSet(S), NEW s \in SetToSeqs(S)
  PROVE  s \in Seq(S) /\ Once(s) /\ \A g : In(s, g) <=> g \in S
<1> DEFINE n == Cardinality(S)
<1>1. n \in Nat
  BY FS_CardinalityType
<1>2. s \in [1 .. n -> S] /\ \A i, j \in 1 .. n : i # j => s[i] # s[j]
  BY DEF SetToSeqs
<1>3. s \in Seq(S) /\ DOMAIN s = 1 .. n
  BY <1>1, <1>2
<1>4. Cardinality(1 .. n) = n /\ IsFiniteSet(1 .. n)
  BY <1>1, FS_Interval
<1>5. s \in Injection(1 .. n, S)
  BY <1>2 DEF Injection, IsInjective
<1>6. s \in Surjection(1 .. n, S)
  BY <1>4, <1>5, FS_Injection
<1>7. \A g \in S : \E i \in 1 .. n : s[i] = g
  BY <1>6 DEF Surjection
<1>. QED
  BY <1>2, <1>3, <1>7 DEF Once, In

\* Two lists that share nothing, joined.
LEMMA JoinedOnce ==
  ASSUME NEW S, NEW a \in Seq(S), NEW b \in Seq(S), Once(a), Once(b), \A g : ~(In(a, g) /\ In(b, g))
  PROVE  a \o b \in Seq(S) /\ Once(a \o b) /\ \A g : In(a \o b, g) <=> In(a, g) \/ In(b, g)
<1>1. PICK t \in Seq(S) : t = a \o b
  BY Joined
<1>2. /\ Len(a) \in Nat /\ Len(b) \in Nat /\ DOMAIN a = 1 .. Len(a) /\ DOMAIN b = 1 .. Len(b)
      /\ DOMAIN t = 1 .. Len(a) + Len(b)
      /\ \A j \in 1 .. Len(a) + Len(b) : t[j] = IF j <= Len(a) THEN a[j] ELSE b[j - Len(a)]
  BY <1>1, Joined
<1>3. ASSUME NEW i \in DOMAIN t
      PROVE  \/ i \in DOMAIN a /\ t[i] = a[i]
             \/ i - Len(a) \in DOMAIN b /\ t[i] = b[i - Len(a)] /\ i > Len(a)
  BY <1>2
<1>4. ASSUME NEW i \in DOMAIN t, NEW j \in DOMAIN t, t[i] = t[j] PROVE i = j
  <2>1. i \in Nat /\ j \in Nat
    BY <1>2
  <2>2. CASE i \in DOMAIN a /\ t[i] = a[i] /\ j \in DOMAIN a /\ t[j] = a[j]
    BY <1>4, <2>2 DEF Once
  <2>3. CASE /\ i - Len(a) \in DOMAIN b /\ t[i] = b[i - Len(a)]
             /\ j - Len(a) \in DOMAIN b /\ t[j] = b[j - Len(a)]
    <3>1. i - Len(a) = j - Len(a)
      BY <1>4, <2>3 DEF Once
    <3>. QED
      BY <1>2, <2>1, <3>1
  <2>4. CASE i \in DOMAIN a /\ t[i] = a[i] /\ j - Len(a) \in DOMAIN b /\ t[j] = b[j - Len(a)]
    BY <1>4, <2>4 DEF In
  <2>5. CASE j \in DOMAIN a /\ t[j] = a[j] /\ i - Len(a) \in DOMAIN b /\ t[i] = b[i - Len(a)]
    BY <1>4, <2>5 DEF In
  <2>. QED
    BY <1>3, <2>2, <2>3, <2>4, <2>5
<1>5. ASSUME NEW g, In(t, g) PROVE In(a, g) \/ In(b, g)
  BY <1>3, <1>5 DEF In
<1>6. ASSUME NEW g, In(a, g) PROVE In(t, g)
  <2>1. PICK i \in 1 .. Len(a) : a[i] = g
    BY <1>2, <1>6 DEF In
  <2>2. i \in 1 .. Len(a) + Len(b) /\ t[i] = g
    BY <1>2, <2>1
  <2>. QED
    BY <1>2, <2>2 DEF In
<1>7. ASSUME NEW g, In(b, g) PROVE In(t, g)
  <2>1. PICK i \in 1 .. Len(b) : b[i] = g
    BY <1>2, <1>7 DEF In
  <2>2. /\ Len(a) + i \in 1 .. Len(a) + Len(b) /\ ~(Len(a) + i <= Len(a))
        /\ (Len(a) + i) - Len(a) = i
    BY <1>2, <2>1
  <2>3. t[Len(a) + i] = g
    BY <1>2, <2>1, <2>2
  <2>. QED
    BY <1>2, <2>2, <2>3 DEF In
<1>8. Once(t)
  BY <1>4 DEF Once
<1>9. \A g : In(t, g) <=> In(a, g) \/ In(b, g)
  BY <1>5, <1>6, <1>7
<1>. QED
  BY <1>1, <1>8, <1>9

-----------------------------------------------------------------------------
(* What a step makes of the batches and of the notice.                     *)

\* What is known of the end of f stays true.
Steady(f) ==
  /\ AtEnd(f) => AtEnd(f)'
  /\ f \in imported => f \in imported'
  /\ AtEnd(f) /\ f \in imported' /\ f \notin Known' => f \in imported /\ f \notin Known

\* What is told of files at their end stays true.
LEMMA FairStays ==
  ASSUME UploadAssumption, NEW K \in SUBSET Files, NEW n \in Nat,
         Fair(K, n), \A f \in K : AtEnd(f) /\ Steady(f)
  PROVE  Fair(K, n)'
<1> DEFINE A == (K \cap imported) \ Known
           B == (K \cap imported') \ Known'
           C == K \cap imported
           D == K \cap imported'
<1>1. B \subseteq A /\ C \subseteq D
  BY DEF Steady
<1>2. Cardinality(B) <= Cardinality(A) /\ Cardinality(C) <= Cardinality(D)
  <2>1. A \in SUBSET Files /\ D \in SUBSET Files
    OBVIOUS
  <2> HIDE DEF A, B, C, D
  <2>. QED
    BY <1>1, <2>1, FewerFiles
<1>3. /\ Cardinality(A) \in Nat /\ Cardinality(B) \in Nat /\ Cardinality(C) \in Nat
      /\ Cardinality(D) \in Nat /\ Cardinality(K) \in Nat
  <2>1. A \in SUBSET Files /\ B \in SUBSET Files /\ C \in SUBSET Files /\ D \in SUBSET Files
    OBVIOUS
  <2> HIDE DEF A, B, C, D
  <2>. QED
    BY <2>1, SomeFiles
<1>4. Cardinality(A) <= Cardinality(K) - n /\ Cardinality(K) - n <= Cardinality(C)
  BY DEF Fair, Told
<1>5. Cardinality(B) <= Cardinality(K) - n /\ Cardinality(K) - n <= Cardinality(D)
  <2> HIDE DEF A, B, C, D
  <2>. QED
    BY <1>2, <1>3, <1>4
<1>. QED
  BY <1>5 DEF Fair, Told

\* One file more, of which the truth is told.
LEMMA ToldAdds ==
  ASSUME UploadAssumption, NEW K \in SUBSET Files, NEW n \in Nat, NEW f \in Files \ K,
         NEW failed \in BOOLEAN, NEW done, NEW known, Told(K, n, done, known),
         failed => (f \notin done \/ f \in known), ~failed => f \in done
  PROVE  Told(K \cup {f}, n + IF failed THEN 1 ELSE 0, done, known)
<1> DEFINE L == K \cup {f}
           A == (K \cap done) \ known
           C == K \cap done
           B == (L \cap done) \ known
           D == L \cap done
<1>1. A \in SUBSET Files /\ C \in SUBSET Files /\ f \notin A /\ f \notin C /\ f \notin K
  OBVIOUS
<1>2. PICK a \in Nat, k \in Nat, e \in Nat :
        a = Cardinality(A) /\ k = Cardinality(K) /\ e = Cardinality(C)
  <2> HIDE DEF A, C
  <2>. QED
    BY <1>1, SomeFiles
<1>3. /\ Cardinality(L) = k + 1
      /\ Cardinality(A \cup {f}) = a + 1 /\ Cardinality(C \cup {f}) = e + 1
  <2> HIDE DEF A, C
  <2>. QED
    BY <1>1, <1>2, OneFile
<1>4. a <= k - n /\ k - n <= e
  BY <1>2 DEF Told
<1>5. CASE failed
  <2>1. B = A /\ (D = C \/ D = C \cup {f})
    BY <1>5
  <2>2. Cardinality(B) = a /\ Cardinality(D) \in {e, e + 1}
    <3> HIDE DEF A, B, C, D, L
    <3>. QED
      BY <1>2, <1>3, <2>1
  <2>3. a <= (k + 1) - (n + 1) /\ \A d \in {e, e + 1} : (k + 1) - (n + 1) <= d
    BY <1>4
  <2>4. n + (IF failed THEN 1 ELSE 0) = n + 1
    BY <1>5
  <2>. QED
    BY <1>3, <2>2, <2>3, <2>4 DEF Told
<1>6. CASE ~failed
  <2>1. (B = A \/ B = A \cup {f}) /\ D = C \cup {f}
    BY <1>6
  <2>2. Cardinality(B) \in {a, a + 1} /\ Cardinality(D) = e + 1
    <3> HIDE DEF A, B, C, D, L
    <3>. QED
      BY <1>2, <1>3, <2>1
  <2>3. (\A b \in {a, a + 1} : b <= (k + 1) - n) /\ (k + 1) - n <= e + 1
    BY <1>4
  <2>4. n + (IF failed THEN 1 ELSE 0) = n
    BY <1>6
  <2>. QED
    BY <1>3, <2>2, <2>3, <2>4 DEF Told
<1>. QED
  BY <1>5, <1>6

\* No files, of which nothing is told.
LEMMA ToldOfNone ==
  ASSUME NEW done, NEW known
  PROVE  Told({}, 0, done, known)
<1>1. /\ {} \cap done = {} /\ ({} \cap done) \ known = {} /\ Cardinality({}) = 0
  BY FS_EmptySet
<1>2. Cardinality({}) - 0 = 0
  BY <1>1
<1>. QED
  BY <1>1, <1>2 DEF Told

\* A number of failures that is true of a set of files is not larger than it.
LEMMA FewFailures ==
  ASSUME UploadAssumption, NEW K \in SUBSET Files, NEW n \in Nat, Fair(K, n)
  PROVE  n \in 0 .. Cardinality(Files)
<1>1. Cardinality((K \cap imported) \ Known) \in Nat
  <2>1. (K \cap imported) \ Known \in SUBSET Files
    OBVIOUS
  <2>. QED
    BY <2>1, SomeFiles
<1>. QED
  BY <1>1, SomeFiles DEF Fair, Told

\* A batch of whose files nothing changed but for the better.
LEMMA BatchStays ==
  ASSUME UploadAssumption, NEW b \in BatchType, BatchOK(b),
         \A f \in b.files : (Owed(f)' <=> Owed(f)) /\ Steady(f)
  PROVE  BatchOK(b)'
<1>1. b.files \in SUBSET Files /\ b.failed \in Nat
  BY DEF BatchType
<1>2. PICK U : U = Uncounted(b)
  OBVIOUS
<1>3. U = Uncounted(b)'
  BY <1>2 DEF Uncounted
<1>4. PICK K \in SUBSET Files : K = b.files \ U
  BY <1>1
<1>5. K = Counted(b) /\ K = Counted(b)'
  BY <1>2, <1>3, <1>4 DEF Counted
<1>6. Fair(K, b.failed) /\ \A f \in K : AtEnd(f) /\ Steady(f)
  BY <1>4, <1>5 DEF BatchOK
<1>7. Fair(K, b.failed)'
  BY <1>1, <1>6, FairStays
<1>8. \A f \in K : AtEnd(f)'
  BY <1>6 DEF Steady
<1>9. Fair(Counted(b), b.failed)' /\ \A f \in Counted(b)' : AtEnd(f)'
  BY <1>5, <1>7, <1>8
<1>10. b.files # {} /\ b.remaining = Cardinality(Uncounted(b)') /\ b.remaining > 0
  BY <1>2, <1>3 DEF BatchOK
<1>. QED
  BY <1>9, <1>10 DEF BatchOK

\* All batches stay.
LEMMA BatchesStay ==
  ASSUME UploadAssumption, batches \subseteq BatchType, BatchInv, DisjointInv, batches' = batches,
         \A f \in Files : (Owed(f)' <=> Owed(f)) /\ Steady(f)
  PROVE  BatchInv' /\ DisjointInv'
<1>1. \A b \in batches : BatchOK(b)'
  <2>1. TAKE b \in batches
  <2>2. b \in BatchType /\ BatchOK(b) /\ \A f \in b.files : f \in Files
    BY DEF BatchInv, BatchType
  <2>. QED
    BY <2>2, BatchStays
<1>2. BatchInv'
  BY <1>1 DEF BatchInv
<1>3. DisjointInv'
  BY DEF DisjointInv
<1>. QED
  BY <1>2, <1>3

\* The notice stays.
LEMMA NoticeStays ==
  ASSUME UploadAssumption, notice \in NoticeType, NoticeInv, notice' = notice,
         \A f \in notice.files : Steady(f)
  PROVE  NoticeInv'
<1>1. PICK K \in SUBSET Files, n \in Nat : K = notice.files /\ n = notice.failed
  BY DEF NoticeType
<1>2. Fair(K, n) /\ \A f \in K : AtEnd(f) /\ Steady(f)
  BY <1>1 DEF NoticeInv
<1>3. Fair(K, n)' /\ \A f \in K : AtEnd(f)'
  BY <1>2, FairStays DEF Steady
<1>4. K = notice'.files /\ n = notice'.failed
  BY <1>1
<1>5. Fair(notice.files, notice.failed)'
  BY <1>3, <1>4
<1>. QED
  BY <1>3, <1>4, <1>5 DEF NoticeInv

\* A batch after one of its files ended.
Less(b, failed) == [b EXCEPT !.remaining = @ - 1, !.failed = @ + IF failed THEN 1 ELSE 0]

\* A batch all of whose files are counted off but f, or some others as well.
LEMMA CountOff ==
  ASSUME UploadAssumption, NEW b \in BatchType, BatchOK(b), NEW f \in b.files, NEW failed \in BOOLEAN,
         Owed(f), ~Owed(f)', AtEnd(f)', \A g \in b.files : Steady(g),
         \A g \in b.files \ {f} : Owed(g)' <=> Owed(g),
         failed => (f \notin imported' \/ f \in Known'), ~failed => f \in imported',
         NEW c, c = Less(b, failed)
  PROVE  /\ c \in BatchType /\ c.files = b.files
         /\ c.remaining > 0 => BatchOK(c)'
         /\ ~(c.remaining > 0) => /\ (\A g \in b.files : AtEnd(g)') /\ Fair(b.files, c.failed)'
                                   /\ \A g \in b.files \ {f} : ~Owed(g)
<1>1. /\ b.files \in SUBSET Files /\ b.failed \in Nat /\ b.remaining \in 0 .. Cardinality(Files)
      /\ Cardinality(Files) \in Nat
  BY SomeFiles DEF BatchType
<1> PICK e \in Nat : e = IF failed THEN 1 ELSE 0
  OBVIOUS
<1>2. /\ c = [files |-> b.files, remaining |-> b.remaining - 1, failed |-> b.failed + e]
      /\ c.files = b.files /\ c.remaining = b.remaining - 1
      /\ c.failed = b.failed + e /\ c.failed \in Nat
  <2>1. b = [files |-> b.files, remaining |-> b.remaining, failed |-> b.failed]
    BY DEF BatchType
  <2>2. c = [b EXCEPT !.remaining = @ - 1, !.failed = @ + e]
    BY DEF Less
  <2>3. c = [files |-> b.files, remaining |-> b.remaining - 1, failed |-> b.failed + e]
    BY <2>1, <2>2
  <2>4. /\ c.files = b.files /\ c.remaining = b.remaining - 1 /\ c.failed = b.failed + e
    BY <2>3
  <2>5. b.failed + e \in Nat
    BY <1>1
  <2>. QED
    BY <2>3, <2>4, <2>5
<1>3. PICK U \in SUBSET Files : U = Uncounted(b)
  BY <1>1 DEF Uncounted
<1>4. f \in U /\ f \in Files
  BY <1>1, <1>3 DEF Uncounted
<1>5. U \ {f} = Uncounted(c)'
  <2>1. Uncounted(c)' = {g \in b.files : Owed(g)'}
    BY <1>2 DEF Uncounted
  <2>2. U = {g \in b.files : Owed(g)}
    BY <1>3 DEF Uncounted
  <2>. QED
    BY <2>1, <2>2
<1>6. PICK K \in SUBSET Files : K = b.files \ U
  BY <1>1
<1>7. K = Counted(b) /\ f \notin K
  BY <1>3, <1>4, <1>6 DEF Counted
<1>8. K \cup {f} = Counted(c)'
  <2>1. Counted(c)' = b.files \ (U \ {f})
    BY <1>2, <1>5 DEF Counted
  <2>. QED
    BY <1>6, <2>1
<1>9. Fair(K, b.failed) /\ \A g \in K : AtEnd(g) /\ Steady(g)
  BY <1>6, <1>7 DEF BatchOK
<1>10. Fair(K, b.failed)'
  BY <1>1, <1>9, FairStays
<1>11. Fair(K \cup {f}, c.failed)'
  <2>1. f \in Files \ K
    BY <1>4, <1>7
  <2>2. Fair(K \cup {f}, b.failed + IF failed THEN 1 ELSE 0)'
    <3>1. Told(K, b.failed, imported', Known')
      BY <1>10 DEF Fair
    <3>2. Told(K \cup {f}, b.failed + IF failed THEN 1 ELSE 0, imported', Known')
      BY <1>1, <2>1, <3>1, ToldAdds
    <3>. QED
      BY <3>2 DEF Fair
  <2>. QED
    BY <1>2, <2>2
<1>12. \A g \in K \cup {f} : AtEnd(g)'
  BY <1>9 DEF Steady
<1>13. /\ b.remaining = Cardinality(U) /\ Cardinality(U \ {f}) = Cardinality(U) - 1
       /\ Cardinality(U) \in Nat /\ Cardinality(U \ {f}) \in Nat
  <2>1. U \ {f} \in SUBSET Files
    OBVIOUS
  <2>. QED
    BY <1>3, <1>4, <2>1, OneFile, SomeFiles DEF BatchOK
<1>14. c \in BatchType
  <2>1. K \cup {f} \in SUBSET Files
    BY <1>4
  <2>2. c.failed \in 0 .. Cardinality(Files)
    <3>1. Cardinality(((K \cup {f}) \cap imported') \ Known') <= Cardinality(K \cup {f}) - c.failed
      BY <1>11 DEF Fair, Told
    <3>2. ((K \cup {f}) \cap imported') \ Known' \in SUBSET Files
      BY <2>1
    <3>3. /\ Cardinality(((K \cup {f}) \cap imported') \ Known') \in Nat
          /\ Cardinality(K \cup {f}) \in 0 .. Cardinality(Files)
      BY <2>1, <3>2, SomeFiles
    <3>. QED
      BY <1>1, <1>2, <3>1, <3>3
  <2>3. c.remaining \in 0 .. Cardinality(Files)
    BY <1>1, <1>2, <1>13
  <2>. QED
    BY <1>1, <1>2, <2>2, <2>3 DEF BatchType
<1>15. ASSUME c.remaining > 0 PROVE BatchOK(c)'
  <2>1. c.files # {} /\ c.remaining = Cardinality(Uncounted(c)')
    BY <1>2, <1>5, <1>13
  <2>2. Fair(Counted(c), c.failed)' /\ \A g \in Counted(c)' : AtEnd(g)'
    BY <1>8, <1>11, <1>12
  <2>. QED
    BY <1>15, <2>1, <2>2 DEF BatchOK
<1>16. ASSUME ~(c.remaining > 0)
       PROVE  /\ (\A g \in b.files : AtEnd(g)') /\ Fair(b.files, c.failed)'
              /\ \A g \in b.files \ {f} : ~Owed(g)
  <2>1. Cardinality(U \ {f}) = 0
    BY <1>2, <1>13, <1>16
  <2>2. U \ {f} = {}
    <3>1. IsFiniteSet(U \ {f})
      <4>1. U \ {f} \in SUBSET Files
        OBVIOUS
      <4>. QED
        BY <4>1, SomeFiles
    <3>. QED
      BY <2>1, <3>1, FS_EmptySet
  <2>3. b.files = K \cup {f}
    BY <1>6, <2>2
  <2>4. \A g \in b.files \ {f} : ~Owed(g)
    BY <1>3, <2>2 DEF Uncounted
  <2>. QED
    BY <1>11, <1>12, <2>3, <2>4
<1>. QED
  BY <1>2, <1>14, <1>15, <1>16

\* RecordBatchCompletion of a file that was owed.
LEMMA Recorded ==
  ASSUME UploadAssumption, batches \subseteq BatchType, notice \in NoticeType,
         BatchInv, DisjointInv, NoticeInv,
         NEW f \in Files, NEW failed \in BOOLEAN, RecordBatchCompletion(f, failed),
         OpenBatch(f) # {}, Owed(f), ~Owed(f)', AtEnd(f)', \A g \in Files : Steady(g),
         \A g \in Files \ {f} : Owed(g)' <=> Owed(g),
         failed => (f \notin imported' \/ f \in Known'), ~failed => f \in imported'
  PROVE  /\ batches' \subseteq BatchType /\ notice' \in NoticeType
         /\ BatchInv' /\ DisjointInv' /\ NoticeInv'
         /\ \A g \in Files \ {f} : Owed(g) /\ OpenBatch(g) # {} => OpenBatch(g)' # {}
<1>1. PICK b : b = CHOOSE x \in OpenBatch(f) : TRUE
  OBVIOUS
<1>2. b \in batches /\ f \in b.files
  BY <1>1 DEF OpenBatch
<1>3. PICK c : c = Less(b, failed)
  OBVIOUS
<1>4. /\ c.remaining > 0 => batches' = (batches \ {b}) \cup {c} /\ notice' = notice
      /\ ~(c.remaining > 0) => batches' = batches \ {b} /\ notice' = [files |-> c.files, failed |-> c.failed]
  BY <1>1, <1>3 DEF RecordBatchCompletion, Less
<1>5. b \in BatchType /\ BatchOK(b) /\ b.files \in SUBSET Files
  BY <1>2 DEF BatchInv, BatchType
<1>6. /\ c \in BatchType /\ c.files = b.files
      /\ c.remaining > 0 => BatchOK(c)'
      /\ ~(c.remaining > 0) => /\ (\A g \in b.files : AtEnd(g)') /\ Fair(b.files, c.failed)'
                                /\ \A g \in b.files \ {f} : ~Owed(g)
  <2>1. f \in b.files /\ \A g \in b.files : g \in Files
    BY <1>2, <1>5
  <2>2. (\A g \in b.files : Steady(g)) /\ \A g \in b.files \ {f} : Owed(g)' <=> Owed(g)
    BY <2>1
  <2>. QED
    BY <1>3, <1>5, <2>1, <2>2, CountOff
<1>7. \A d \in batches \ {b} : BatchOK(d)'
  <2>1. TAKE d \in batches \ {b}
  <2>2. d \in BatchType /\ BatchOK(d) /\ f \notin d.files /\ \A g \in d.files : g \in Files
    BY <1>2 DEF BatchInv, DisjointInv, BatchType
  <2>3. \A g \in d.files : (Owed(g)' <=> Owed(g)) /\ Steady(g)
    BY <2>2
  <2>. QED
    BY <2>2, <2>3, BatchStays
<1>8. CASE c.remaining > 0
  <2>1. batches' = (batches \ {b}) \cup {c} /\ notice' = notice
    BY <1>4, <1>8
  <2>2. BatchInv'
    BY <1>6, <1>7, <1>8, <2>1 DEF BatchInv
  <2>3. DisjointInv'
    BY <1>2, <1>6, <2>1 DEF DisjointInv
  <2>4. NoticeInv'
    <3>1. \A g \in notice.files : Steady(g)
      BY DEF NoticeType
    <3>. QED
      BY <2>1, <3>1, NoticeStays
  <2>5. \A g \in Files : OpenBatch(g) # {} => OpenBatch(g)' # {}
    BY <1>6, <2>1 DEF OpenBatch
  <2>. QED
    BY <1>6, <2>1, <2>2, <2>3, <2>4, <2>5
<1>9. CASE ~(c.remaining > 0)
  <2>1. batches' = batches \ {b} /\ notice' = [files |-> b.files, failed |-> c.failed]
    BY <1>4, <1>6, <1>9
  <2>2. BatchInv'
    BY <1>7, <2>1 DEF BatchInv
  <2>3. DisjointInv'
    BY <2>1 DEF DisjointInv
  <2>4. NoticeInv'
    <3>1. notice'.files = b.files /\ notice'.failed = c.failed
      BY <2>1
    <3>. QED
      BY <1>6, <1>9, <3>1 DEF NoticeInv
  <2>5. notice' \in NoticeType
    BY <1>5, <1>6, <2>1 DEF NoticeType, BatchType
  <2>6. ASSUME NEW g \in Files \ {f}, Owed(g), OpenBatch(g) # {} PROVE OpenBatch(g)' # {}
    BY <1>6, <1>9, <2>1, <2>6 DEF OpenBatch
  <2>. QED
    BY <2>1, <2>2, <2>3, <2>4, <2>5, <2>6
<1>. QED
  BY <1>8, <1>9

\* A notice of its own for a file that has ended.
LEMMA Announced ==
  ASSUME UploadAssumption, NEW f \in Files, NEW failed \in BOOLEAN, ShowNotice(f, failed), AtEnd(f)',
         failed => (f \notin imported' \/ f \in Known'), ~failed => f \in imported'
  PROVE  notice' \in NoticeType /\ NoticeInv'
<1> PICK e \in Nat : e = IF failed THEN 1 ELSE 0
  OBVIOUS
<1>1. notice' = [files |-> {f}, failed |-> e]
  BY DEF ShowNotice
<1>2. Told({}, 0, imported', Known')
  BY ToldOfNone
<1>3. Told({} \cup {f}, 0 + IF failed THEN 1 ELSE 0, imported', Known')
  BY <1>2, ToldAdds
<1>4. Told({f}, e, imported', Known')
  <2>1. {} \cup {f} = {f} /\ 0 + e = e
    OBVIOUS
  <2>. QED
    BY <1>3, <2>1
<1>5. notice'.files = {f} /\ notice'.failed = e
  BY <1>1
<1>6. NoticeInv'
  BY <1>4, <1>5 DEF NoticeInv, Fair
<1>7. 1 \in 0 .. Cardinality(Files) /\ 0 \in 0 .. Cardinality(Files)
  <2>1. Cardinality({f}) = 1 /\ {f} \in SUBSET Files
    BY FS_Singleton
  <2>2. Cardinality({f}) <= Cardinality(Files) /\ Cardinality(Files) \in Nat
    BY <2>1, SomeFiles
  <2>. QED
    BY <2>1, <2>2
<1>8. notice' \in NoticeType
  BY <1>1, <1>7 DEF NoticeType
<1>. QED
  BY <1>6, <1>8

\* A batch of files chosen at once, all of which are owed.
LEMMA Batched ==
  ASSUME UploadAssumption, batches \subseteq BatchType, notice \in NoticeType,
         BatchInv, DisjointInv, NoticeInv,
         NEW fs \in SUBSET Files, fs # {}, NewBatch(fs), notice' = notice,
         \A f \in fs : OpenBatch(f) = {} /\ f \notin notice.files /\ Owed(f)',
         \A g \in Files \ fs : (Owed(g)' <=> Owed(g)) /\ Steady(g)
  PROVE  /\ batches' \subseteq BatchType
         /\ BatchInv' /\ DisjointInv' /\ NoticeInv'
         /\ \A f \in fs : OpenBatch(f)' # {}
         /\ \A g \in Files : OpenBatch(g) # {} => OpenBatch(g)' # {}
<1>1. PICK c : c = [files |-> fs, remaining |-> Cardinality(fs), failed |-> 0]
  OBVIOUS
<1>2. /\ batches' = batches \cup {c}
      /\ c.files = fs /\ c.remaining = Cardinality(fs) /\ c.failed = 0
  BY <1>1 DEF NewBatch
<1>3. Cardinality(fs) \in 0 .. Cardinality(Files) /\ Cardinality(fs) > 0 /\ 0 \in 0 .. Cardinality(Files)
  <2>1. Cardinality(fs) \in 0 .. Cardinality(Files) /\ IsFiniteSet(fs) /\ Cardinality(Files) \in Nat
    BY SomeFiles
  <2>2. Cardinality(fs) # 0
    BY <2>1, FS_EmptySet
  <2>. QED
    BY <2>1, <2>2
<1>4. c \in BatchType
  BY <1>1, <1>3 DEF BatchType
<1>5. \A d \in batches : fs \cap d.files = {} /\ BatchOK(d)'
  <2>1. TAKE d \in batches
  <2>2. fs \cap d.files = {}
    BY DEF OpenBatch
  <2>3. d \in BatchType /\ BatchOK(d) /\ \A g \in d.files : g \in Files \ fs
    BY <2>2 DEF BatchInv, BatchType
  <2>4. \A g \in d.files : (Owed(g)' <=> Owed(g)) /\ Steady(g)
    BY <2>3
  <2>. QED
    BY <2>2, <2>3, <2>4, BatchStays
<1>6. BatchOK(c)'
  <2>1. Uncounted(c)' = fs
    BY <1>2 DEF Uncounted
  <2>2. Counted(c)' = {}
    BY <1>2, <2>1 DEF Counted
  <2>3. Fair(Counted(c), c.failed)'
    <3>1. Told({}, 0, imported', Known')
      BY ToldOfNone
    <3>. QED
      BY <1>2, <2>2, <3>1 DEF Fair
  <2>. QED
    BY <1>2, <1>3, <2>1, <2>2, <2>3 DEF BatchOK
<1>7. BatchInv'
  BY <1>2, <1>5, <1>6 DEF BatchInv
<1>8. DisjointInv'
  BY <1>2, <1>5 DEF DisjointInv
<1>9. NoticeInv'
  <2>1. \A g \in notice.files : Steady(g)
    BY DEF NoticeType
  <2>. QED
    BY <2>1, NoticeStays
<1>10. \A g \in Files : (OpenBatch(g) # {} \/ g \in fs) => OpenBatch(g)' # {}
  BY <1>2 DEF OpenBatch
<1>. QED
  BY <1>2, <1>4, <1>7, <1>8, <1>9, <1>10

-----------------------------------------------------------------------------
(* The parts of the invariant that most steps leave alone.                 *)

\* What UploadInv says, part by part.
LEMMA TheParts ==
  ASSUME UploadInv
  PROVE  /\ Typed /\ BatchInv /\ DisjointInv /\ NoticeInv
         /\ PendingInv /\ QueueInv /\ CreatingInv /\ LoopInv
         /\ batches \subseteq BatchType /\ notice \in NoticeType
BY DEF UploadInv, Typed

\* The queue and its worker rest.
LEMMA WorkStays ==
  ASSUME queue' = queue, upload'.file = upload.file
  PROVE  \A f : Working(f)' <=> Working(f)
BY DEF Working

\* The creations rest.
LEMMA AwaitedStays ==
  ASSUME creating' = creating
  PROVE  \A f : Awaited(f)' <=> Awaited(f)
BY DEF Awaited

\* The polling loops rest.
LEMMA ReportingStays ==
  ASSUME loops' = loops
  PROVE  \A f : Reporting(f)' <=> Reporting(f)
BY DEF Reporting

\* The server rests, and nothing begins.
LEMMA SteadyAtRest ==
  ASSUME imported' = imported, unclear \subseteq unclear', status' = status,
         NEW f, Working(f)' => Working(f), Awaited(f)' => Awaited(f)
  PROVE  Steady(f)
<1>1. AtEnd(f) => AtEnd(f)'
  BY DEF AtEnd
<1>2. f \in Known => f \in Known'
  BY DEF Known
<1>. QED
  BY <1>1, <1>2 DEF Steady

\* A step that counts no file off.
LEMMA NoneEnds ==
  ASSUME UploadAssumption, UploadInv, batches' = batches,
         \A f \in Files : /\ Owed(f)' <=> Owed(f)
                          /\ Pending(f)' => Pending(f) /\ f \notin astray'
                          /\ Steady(f)
  PROVE  /\ BatchInv' /\ DisjointInv' /\ PendingInv'
         /\ notice' = notice => NoticeInv'
<1>1. BatchInv' /\ DisjointInv'
  BY TheParts, BatchesStay
<1>2. PendingInv'
  BY TheParts DEF PendingInv, OpenBatch
<1>3. ASSUME notice' = notice PROVE NoticeInv'
  <2>1. \A f \in notice.files : Steady(f)
    BY TheParts DEF NoticeType
  <2>. QED
    BY <1>3, <2>1, TheParts, NoticeStays
<1>. QED
  BY <1>1, <1>2, <1>3

\* A step that counts f off.
LEMMA OneEnds ==
  ASSUME UploadAssumption, UploadInv,
         NEW f \in Files, NEW failed \in BOOLEAN, RecordBatchCompletion(f, failed),
         Pending(f), ~Pending(f)', astray' = astray, AtEnd(f)', \A g \in Files : Steady(g),
         \A g \in Files \ {f} : Pending(g)' <=> Pending(g),
         failed => (f \notin imported' \/ f \in Known'), ~failed => f \in imported'
  PROVE  /\ batches' \subseteq BatchType /\ notice' \in NoticeType
         /\ BatchInv' /\ DisjointInv' /\ NoticeInv' /\ PendingInv'
<1>1. f \notin astray /\ OpenBatch(f) # {}
  BY TheParts DEF PendingInv
<1>2. Owed(f) /\ ~Owed(f)' /\ \A g \in Files \ {f} : Owed(g)' <=> Owed(g)
  BY <1>1 DEF Owed
<1>3. /\ batches' \subseteq BatchType /\ notice' \in NoticeType
      /\ BatchInv' /\ DisjointInv' /\ NoticeInv'
      /\ \A g \in Files \ {f} : Owed(g) /\ OpenBatch(g) # {} => OpenBatch(g)' # {}
  BY <1>1, <1>2, TheParts, Recorded
<1>4. PendingInv'
  <2>1. SUFFICES ASSUME NEW g \in Files, Pending(g)' PROVE g \notin astray' /\ OpenBatch(g)' # {}
    BY DEF PendingInv
  <2>2. g # f /\ Pending(g)
    BY <2>1
  <2>3. g \notin astray /\ OpenBatch(g) # {}
    BY <2>2, TheParts DEF PendingInv
  <2>. QED
    BY <1>3, <2>2, <2>3 DEF Owed
<1>. QED
  BY <1>3, <1>4

\* A step that starts the files fs.
LEMMA SomeStart ==
  ASSUME UploadAssumption, UploadInv, NEW fs \in SUBSET Files, fs # {}, NewBatch(fs),
         notice' = notice, astray' = astray,
         \A f \in fs : OpenBatch(f) = {} /\ f \notin notice.files /\ f \notin astray /\ Pending(f)',
         \A g \in Files \ fs : (Pending(g)' <=> Pending(g)) /\ Steady(g)
  PROVE  /\ batches' \subseteq BatchType
         /\ BatchInv' /\ DisjointInv' /\ NoticeInv' /\ PendingInv'
<1>1. \A f \in fs : OpenBatch(f) = {} /\ f \notin notice.files /\ Owed(f)'
  BY DEF Owed
<1>2. \A g \in Files \ fs : (Owed(g)' <=> Owed(g)) /\ Steady(g)
  BY DEF Owed
<1>3. /\ batches' \subseteq BatchType
      /\ BatchInv' /\ DisjointInv' /\ NoticeInv'
      /\ \A f \in fs : OpenBatch(f)' # {}
      /\ \A g \in Files : OpenBatch(g) # {} => OpenBatch(g)' # {}
  BY <1>1, <1>2, TheParts, Batched
<1>4. PendingInv'
  <2>1. SUFFICES ASSUME NEW g \in Files, Pending(g)' PROVE g \notin astray' /\ OpenBatch(g)' # {}
    BY DEF PendingInv
  <2>2. CASE g \in fs
    BY <1>3, <2>2
  <2>3. CASE g \notin fs
    <3>1. Pending(g)
      BY <2>1, <2>3
    <3>2. g \notin astray /\ OpenBatch(g) # {}
      BY <3>1, TheParts DEF PendingInv
    <3>. QED
      BY <1>3, <3>2
  <2>. QED
    BY <2>2, <2>3
<1>. QED
  BY <1>3, <1>4

\* The queue rests.
LEMMA QueueStays ==
  ASSUME QueueInv, queue' = queue, upload' = upload,
         \A f \in Local : /\ jobs'[f].st = "queued" => jobs[f].st = "queued"
                          /\ f \in imported' <=> f \in imported,
         queue \in Seq(Local), upload \in AtWork
  PROVE  QueueInv'
<1>1. \A i \in DOMAIN queue : queue[i] \in Local
  OBVIOUS
<1>2. upload.file # None => upload.file \in Local
  BY DEF AtWork
<1>. QED
  BY <1>1, <1>2 DEF QueueInv

\* The creations rest, and so does the server.
LEMMA CreatingStays ==
  ASSUME CreatingInv, creating' = creating, status' = status, unclear \subseteq unclear'
  PROVE  CreatingInv'
BY DEF CreatingInv, CreationOK

\* The loops and the creations rest, and so does the server.
LEMMA LoopsStay ==
  ASSUME LoopInv, loops' = loops, creating' = creating, status' = status,
         monitored' \subseteq monitored, listing'.found \subseteq listing.found,
         \A f \in Drive : f \in imported' <=> f \in imported
  PROVE  LoopInv'
<1>1. SUFFICES ASSUME NEW f \in Drive PROVE LoopOK(f)'
  BY DEF LoopInv
<1>2. LoopOK(f)
  BY DEF LoopInv
<1>. QED
  BY <1>2 DEF LoopOK, Reporting, Awaited

\* A failed call keeps the count within its bounds.
LEMMA FailsCounted ==
  ASSUME UploadAssumption, count \in CountType, CallFails
  PROVE  count' \in CountType
BY DEF UploadAssumption, CountType, CallFails

\* So does a new page or session.
LEMMA PagesCounted ==
  ASSUME UploadAssumption, count \in CountType,
         count.pages < MaxPages, count' = [count EXCEPT !.pages = @ + 1]
  PROVE  count' \in CountType
<1>1. /\ MaxPages \in Nat
      /\ count.pages \in 0 .. MaxPages
  BY DEF UploadAssumption, CountType
<1>2. PICK n \in 0 .. MaxPages : n = count.pages + 1
  BY <1>1
<1>3. count' = [count EXCEPT !.pages = n]
  BY <1>2
<1>. QED
  BY <1>3 DEF CountType

\* A job that changes stays a job.
LEMMA MarkTyped ==
  ASSUME jobs \in [Files -> JobType], NEW f \in Files,
         NEW st \in {"queued", "uploading", "completed", "error"}, Mark(f, st)
  PROVE  /\ jobs' \in [Files -> JobType]
         /\ \A g \in Files : jobs'[g].st = "queued" =>
              (g # f /\ jobs[g].st = "queued") \/ (g = f /\ st = "queued")
<1>1. jobs' = [jobs EXCEPT ![f].st = IF @ = "none" THEN @ ELSE st]
  BY DEF Mark
<1>2. jobs' = [jobs EXCEPT ![f] = [jobs[f] EXCEPT !.st = IF @ = "none" THEN @ ELSE st]]
  BY <1>1
<1>3. jobs[f] \in JobType
  OBVIOUS
<1>4. PICK j \in JobType : j = [jobs[f] EXCEPT !.st = IF @ = "none" THEN @ ELSE st]
  BY <1>3 DEF JobType
<1>5. j.st = "queued" => st = "queued"
  BY <1>3, <1>4 DEF JobType
<1>6. jobs' = [jobs EXCEPT ![f] = j]
  BY <1>2, <1>4
<1>. QED
  BY <1>5, <1>6

-----------------------------------------------------------------------------
(* The steps of the local files.                                           *)

\* The initial states.
LEMMA UploadInitInv ==
  ASSUME UploadAssumption, UploadInit
  PROVE  UploadInv
<1>1. Typed
  <2>1. Cardinality(Files) \in Nat
    BY SomeFiles
  <2>2. session \in Accounts /\ jobs \in [Files -> JobType] /\ queue \in Seq(Local) /\ upload \in AtWork
    BY DEF UploadInit, Accounts, JobType, AtWork, NoJob, AtRest
  <2>3. batches \subseteq BatchType /\ creating \subseteq CreationType /\ monitored \subseteq Drive
    BY DEF UploadInit
  <2>4. loops \in [Drive -> Seq(BOOLEAN)]
    BY DEF UploadInit
  <2>5. listing \in ListType /\ status \in [Drive -> Statuses] /\ imported \subseteq Files
    BY DEF UploadInit, ListType, Statuses, NoList, Accounts
  <2>6. owner \in [Drive -> Accounts] /\ count \in CountType
    BY DEF UploadInit, Accounts, CountType, UploadAssumption
  <2>7. unclear \subseteq Files /\ astray \subseteq Files /\ notice \in NoticeType
    BY <2>1 DEF UploadInit, NoticeType, NoNotice
  <2>. QED
    BY <2>2, <2>3, <2>4, <2>5, <2>6, <2>7 DEF Typed
<1>2. BatchInv /\ DisjointInv
  BY DEF UploadInit, BatchInv, DisjointInv
<1>3. NoticeInv
  <2>1. Told({}, 0, imported, Known)
    BY ToldOfNone
  <2>2. notice.files = {} /\ notice.failed = 0
    BY DEF UploadInit, NoNotice
  <2>. QED
    BY <2>1, <2>2 DEF NoticeInv, Fair
<1>4. \A f \in Files : ~Pending(f)
  BY DEF UploadInit, Pending, Working, Awaited, Reporting, AtRest, UploadAssumption
<1>5. PendingInv
  BY <1>4 DEF PendingInv
<1>6. QueueInv
  BY DEF UploadInit, QueueInv, AtRest, NoJob, Files
<1>7. CreatingInv
  BY DEF UploadInit, CreatingInv
<1>8. LoopInv
  BY DEF UploadInit, LoopInv, LoopOK, Reporting, NoList
<1>. QED
  BY <1>1, <1>2, <1>3, <1>5, <1>6, <1>7, <1>8 DEF UploadInv

LEMMA EnqueueArtworkFilesInv ==
  ASSUME UploadAssumption, UploadInv, NEW fs \in SUBSET Local, EnqueueArtworkFiles(fs)
  PROVE  UploadInv'
<1> USE TheParts
<1>1. /\ fs # {} /\ NewBatch(fs)
      /\ \A f \in fs : /\ jobs[f] = NoJob /\ f \notin imported \cup astray \cup notice.files
                       /\ upload.file # f /\ \A b \in batches : f \notin b.files
      /\ jobs' = [f \in Files |-> IF f \in fs THEN [st |-> "queued", batch |-> fs] ELSE jobs[f]]
      /\ UNCHANGED <<session, notice, upload, creating, monitored, loops, listing, status, imported,
                     owner, count, unclear, astray>>
  BY DEF EnqueueArtworkFiles, serverVars
<1>2. PICK s \in SetToSeqs(fs) : queue' = queue \o s
  BY DEF EnqueueArtworkFiles
<1>3. s \in Seq(fs) /\ Once(s) /\ \A g : In(s, g) <=> g \in fs
  <2>1. fs \in SUBSET Files
    BY DEF Files
  <2>2. IsFiniteSet(fs)
    BY <2>1, SomeFiles
  <2>. QED
    BY <2>2, ListOfSet
<1>4. s \in Seq(Local) /\ queue \in Seq(Local) /\ upload \in AtWork
  BY <1>3 DEF Typed
<1>5. \A f \in fs : OpenBatch(f) = {} /\ ~Pending(f)
  BY <1>1 DEF OpenBatch, PendingInv, Files
<1>6. \A g : ~(In(queue, g) /\ In(s, g))
  BY <1>3, <1>5 DEF In, Pending, Working
<1>7. Once(queue)
  BY DEF QueueInv, Once
<1>8. queue' \in Seq(Local) /\ Once(queue') /\ \A g : In(queue', g) <=> In(queue, g) \/ g \in fs
  BY <1>2, <1>3, <1>4, <1>6, <1>7, JoinedOnce
<1>9. \A g : Working(g)' <=> Working(g) \/ g \in fs
  BY <1>1, <1>8 DEF Working, In
<1>10. \A g : (Awaited(g)' <=> Awaited(g)) /\ (Reporting(g)' <=> Reporting(g))
  BY <1>1, AwaitedStays, ReportingStays
<1>11. \A g \in Files : Pending(g)' <=> Pending(g) \/ g \in fs
  BY <1>9, <1>10 DEF Pending
<1>12. \A g \in Files \ fs : Steady(g)
  BY <1>1, <1>9, <1>10, SteadyAtRest
<1>13. /\ batches' \subseteq BatchType
       /\ BatchInv' /\ DisjointInv' /\ NoticeInv' /\ PendingInv'
  <2>1. fs \in SUBSET Files
    BY DEF Files
  <2>2. \A f \in fs : OpenBatch(f) = {} /\ f \notin notice.files /\ f \notin astray /\ Pending(f)'
    BY <1>1, <1>5, <1>11, <2>1
  <2>3. \A g \in Files \ fs : (Pending(g)' <=> Pending(g)) /\ Steady(g)
    BY <1>11, <1>12
  <2>. QED
    BY <1>1, <2>1, <2>2, <2>3, SomeStart
<1>14. Typed'
  <2>1. jobs' \in [Files -> JobType]
    <3>1. jobs \in [Files -> JobType]
      BY DEF Typed
    <3>2. [st |-> "queued", batch |-> fs] \in JobType
      BY DEF JobType, Files
    <3>. QED
      BY <1>1, <3>1, <3>2
  <2>. QED
    BY <1>1, <1>8, <1>13, <2>1 DEF Typed
<1>15. QueueInv'
  <2>1. \A i, j \in DOMAIN queue' : queue'[i] = queue'[j] => i = j
    BY <1>8 DEF Once
  <2>2. \A i \in DOMAIN queue' : queue'[i] # upload'.file /\ queue'[i] \notin imported'
    <3>1. TAKE i \in DOMAIN queue'
    <3>2. In(queue, queue'[i]) \/ queue'[i] \in fs
      BY <1>8 DEF In
    <3>. QED
      BY <1>1, <3>2 DEF QueueInv, In
  <2>3. ASSUME NEW f \in Local, jobs'[f].st = "queued" PROVE \E i \in DOMAIN queue' : queue'[i] = f
    <3>1. f \in fs \/ jobs[f].st = "queued"
      BY <1>1, <2>3 DEF Files
    <3>2. f \in fs \/ In(queue, f)
      BY <3>1 DEF QueueInv, In
    <3>3. In(queue', f)
      BY <1>8, <3>2
    <3>. QED
      BY <3>3 DEF In
  <2>4. upload'.file # None => (upload'.step = "answer" <=> upload'.file \in imported')
    BY <1>1 DEF QueueInv
  <2>. QED
    BY <2>1, <2>2, <2>3, <2>4 DEF QueueInv
<1>16. CreatingInv'
  BY <1>1, CreatingStays
<1>17. LoopInv'
  BY <1>1, LoopsStay
<1>. QED
  BY <1>13, <1>14, <1>15, <1>16, <1>17 DEF UploadInv

LEMMA NextFileInv ==
  ASSUME UploadAssumption, UploadInv, NextFile
  PROVE  UploadInv'
<1> USE TheParts
<1>1. /\ upload.file = None /\ queue # <<>> /\ queue' = Tail(queue)
      /\ upload' = [file |-> Head(queue), step |-> "source"] /\ Mark(Head(queue), "uploading")
      /\ UNCHANGED <<session, notice, batches, creating, monitored, loops, listing, status, imported,
                     owner, count, unclear, astray>>
  BY DEF NextFile, serverVars
<1>2. PICK f : f = Head(queue)
  OBVIOUS
<1>3. Once(queue) /\ queue \in Seq(Local)
  BY DEF QueueInv, Once, Typed
<1>4. /\ f \in Local /\ queue' \in Seq(Local) /\ Once(queue') /\ In(queue, f)
      /\ \A g : In(queue', g) <=> In(queue, g) /\ g # f
  BY <1>1, <1>2, <1>3, TailOnce
<1>5. upload'.file = f /\ upload'.step = "source" /\ upload' \in AtWork
  BY <1>1, <1>2, <1>4 DEF AtWork
<1>6. None \notin Local
  BY DEF UploadAssumption
<1>7. \A g : Working(g)' <=> Working(g)
  BY <1>1, <1>4, <1>5, <1>6 DEF Working, In
<1>8. \A g : (Awaited(g)' <=> Awaited(g)) /\ (Reporting(g)' <=> Reporting(g))
  BY <1>1, AwaitedStays, ReportingStays
<1>9. \A g : (Pending(g)' <=> Pending(g)) /\ (Owed(g)' <=> Owed(g)) /\ Steady(g)
  BY <1>1, <1>7, <1>8, SteadyAtRest DEF Pending, Owed
<1>10. BatchInv' /\ DisjointInv' /\ PendingInv' /\ NoticeInv'
  <2>1. \A g \in Files : Pending(g)' => Pending(g) /\ g \notin astray'
    BY <1>1, <1>9 DEF PendingInv
  <2>. QED
    BY <1>1, <1>9, <2>1, NoneEnds
<1>11. /\ jobs' \in [Files -> JobType]
       /\ \A g \in Files : jobs'[g].st = "queued" => jobs[g].st = "queued" /\ g # f
  <2>1. jobs \in [Files -> JobType] /\ f \in Files
    BY <1>4 DEF Typed, Files
  <2>2. Mark(f, "uploading")
    BY <1>1, <1>2
  <2>. QED
    BY <2>1, <2>2, MarkTyped
<1>12. Typed'
  BY <1>1, <1>4, <1>5, <1>11 DEF Typed
<1>13. QueueInv'
  <2>1. \A i, j \in DOMAIN queue' : queue'[i] = queue'[j] => i = j
    BY <1>4 DEF Once
  <2>2. \A i \in DOMAIN queue' : queue'[i] # upload'.file /\ queue'[i] \notin imported'
    <3>1. TAKE i \in DOMAIN queue'
    <3>2. In(queue, queue'[i]) /\ queue'[i] # f
      BY <1>4 DEF In
    <3>. QED
      BY <1>1, <1>5, <3>2 DEF QueueInv, In
  <2>3. ASSUME NEW g \in Local, jobs'[g].st = "queued" PROVE \E i \in DOMAIN queue' : queue'[i] = g
    <3>1. In(queue, g) /\ g # f
      BY <1>11, <2>3 DEF QueueInv, In, Files
    <3>2. In(queue', g)
      BY <1>4, <3>1
    <3>. QED
      BY <3>2 DEF In
  <2>4. f \notin imported
    BY <1>4 DEF QueueInv, In
  <2>5. upload'.file # None => (upload'.step = "answer" <=> upload'.file \in imported')
    BY <1>1, <1>5, <2>4
  <2>. QED
    BY <2>1, <2>2, <2>3, <2>5 DEF QueueInv
<1>14. CreatingInv' /\ LoopInv'
  BY <1>1, CreatingStays, LoopsStay
<1>. QED
  BY <1>10, <1>12, <1>13, <1>14 DEF UploadInv

LEMMA FilesStoredInv ==
  ASSUME UploadAssumption, UploadInv, FilesStored
  PROVE  UploadInv'
<1> USE TheParts
<1>1. /\ upload.file # None /\ upload.step = "source"
      /\ upload' = [upload EXCEPT !.step = "append"]
      /\ UNCHANGED <<session, notice, jobs, queue, batches, creating, monitored, loops, listing,
                     status, imported, owner, count, unclear, astray>>
  BY DEF FilesStored, serverVars
<1>2. upload' \in AtWork /\ upload'.file = upload.file /\ upload'.step = "append"
  BY <1>1 DEF Typed, AtWork
<1>3. \A g : /\ Working(g)' <=> Working(g)
             /\ Awaited(g)' <=> Awaited(g)
             /\ Reporting(g)' <=> Reporting(g)
  BY <1>1, <1>2, WorkStays, AwaitedStays, ReportingStays
<1>4. \A g : (Pending(g)' <=> Pending(g)) /\ (Owed(g)' <=> Owed(g)) /\ Steady(g)
  BY <1>1, <1>3, SteadyAtRest DEF Pending, Owed
<1>5. BatchInv' /\ DisjointInv' /\ PendingInv' /\ NoticeInv'
  <2>1. \A g \in Files : Pending(g)' => Pending(g) /\ g \notin astray'
    BY <1>1, <1>4 DEF PendingInv
  <2>. QED
    BY <1>1, <1>4, <2>1, NoneEnds
<1>6. Typed'
  BY <1>1, <1>2 DEF Typed
<1>7. QueueInv'
  BY <1>1, <1>2 DEF QueueInv
<1>8. CreatingInv' /\ LoopInv'
  BY <1>1, CreatingStays, LoopsStay
<1>. QED
  BY <1>5, <1>6, <1>7, <1>8 DEF UploadInv

\* A local file is not of the server.
LEMMA LocalOnly ==
  ASSUME UploadAssumption, Typed, NEW f \in Local
  PROVE  f \in Files /\ f \notin Drive /\ ~Awaited(f) /\ ~Reporting(f)
<1>1. f \notin Drive
  BY DEF UploadAssumption
<1>2. \A c \in creating : c.now \in Drive /\ c.rest \subseteq Drive
  BY DEF Typed, CreationType
<1>. QED
  BY <1>1, <1>2 DEF Awaited, Reporting, Files

LEMMA ImagesAppendedInv ==
  ASSUME UploadAssumption, UploadInv, ImagesAppended
  PROVE  UploadInv'
<1> USE TheParts
<1>1. /\ upload.file # None /\ upload.step = "append"
      /\ imported' = imported \cup {upload.file}
      /\ upload' = [upload EXCEPT !.step = "answer"]
      /\ UNCHANGED <<session, notice, jobs, queue, batches, creating, monitored, loops, listing,
                     status, owner, count, unclear, astray>>
  BY DEF ImagesAppended
<1>2. upload' \in AtWork /\ upload'.file = upload.file /\ upload'.step = "answer"
  BY <1>1 DEF Typed, AtWork
<1>3. PICK f \in Local : f = upload.file
  BY <1>1 DEF Typed, AtWork
<1>4. \A g : /\ Working(g)' <=> Working(g)
             /\ Awaited(g)' <=> Awaited(g)
             /\ Reporting(g)' <=> Reporting(g)
  BY <1>1, <1>2, WorkStays, AwaitedStays, ReportingStays
<1>5. f \in Files /\ f \notin Drive /\ ~AtEnd(f)
  BY <1>3, LocalOnly DEF AtEnd, Working
<1>6. \A g : Steady(g)
  <2>1. TAKE g
  <2>2. (AtEnd(g) => AtEnd(g)') /\ (g \in Known <=> g \in Known')
    BY <1>1, <1>4 DEF AtEnd, Known
  <2>. QED
    BY <1>1, <1>3, <1>5, <2>2 DEF Steady
<1>7. \A g : (Pending(g)' <=> Pending(g)) /\ (Owed(g)' <=> Owed(g))
  BY <1>1, <1>4 DEF Pending, Owed
<1>8. BatchInv' /\ DisjointInv' /\ PendingInv' /\ NoticeInv'
  <2>1. \A g \in Files : Pending(g)' => Pending(g) /\ g \notin astray'
    BY <1>1, <1>7 DEF PendingInv
  <2>. QED
    BY <1>1, <1>6, <1>7, <2>1, NoneEnds
<1>9. Typed'
  BY <1>1, <1>2, <1>3, <1>5 DEF Typed
<1>10. QueueInv'
  BY <1>1, <1>2, <1>3 DEF QueueInv
<1>11. CreatingInv' /\ LoopInv'
  <2>1. \A g \in Drive : g \in imported' <=> g \in imported
    BY <1>1, <1>3, <1>5
  <2>. QED
    BY <1>1, <2>1, CreatingStays, LoopsStay
<1>. QED
  BY <1>8, <1>9, <1>10, <1>11 DEF UploadInv

\* The worker is done with its file, whichever way it ended.
LEMMA UploadEnds ==
  ASSUME UploadAssumption, UploadInv, NEW failed \in BOOLEAN, upload.file # None,
         Mark(upload.file, IF failed THEN "error" ELSE "completed"),
         RecordBatchCompletion(upload.file, failed), upload' = AtRest,
         ~failed => upload.step = "answer",
         failed => (upload.file \notin imported \/ upload.file \in unclear'),
         unclear \subseteq unclear', unclear' \subseteq Files, count' \in CountType,
         UNCHANGED <<session, queue, creating, monitored, loops, listing, status, imported, owner, astray>>
  PROVE  UploadInv'
<1> USE TheParts
<1>1. PICK f \in Local : f = upload.file
  BY DEF Typed, AtWork
<1>2. f \in Files /\ f \notin Drive /\ ~Awaited(f) /\ ~Reporting(f) /\ f # None
  BY LocalOnly DEF UploadAssumption
<1>3. upload'.file = None /\ upload' \in AtWork
  BY DEF AtRest, AtWork
<1>4. ~Working(f)' /\ Working(f) /\ \A g : g # f /\ g # None => (Working(g)' <=> Working(g))
  BY <1>1, <1>2, <1>3 DEF Working, QueueInv
<1>5. \A g : (Awaited(g)' <=> Awaited(g)) /\ (Reporting(g)' <=> Reporting(g))
  BY AwaitedStays, ReportingStays
<1>6. \A g : Working(g)' => Working(g)
  <2>1. \A g : Working(g)' => g \in Local
    BY DEF Working
  <2>. QED
    BY <1>4, <2>1 DEF UploadAssumption
<1>7. Pending(f) /\ ~Pending(f)' /\ \A g \in Files \ {f} : Pending(g)' <=> Pending(g)
  <2>1. \A g \in Files \ {f} : Working(g)' <=> Working(g)
    <3>1. \A g : Working(g) => g \in Local
      BY DEF Working
    <3>. QED
      BY <1>4, <1>6, <3>1 DEF UploadAssumption
  <2>. QED
    BY <1>2, <1>4, <1>5, <2>1 DEF Pending
<1>8. \A g : Steady(g)
  BY <1>5, <1>6, SteadyAtRest
<1>9. AtEnd(f)'
  BY <1>4 DEF AtEnd
<1>10. (failed => f \notin imported' \/ f \in Known') /\ (~failed => f \in imported')
  BY <1>1 DEF Known, QueueInv
<1>11. /\ batches' \subseteq BatchType /\ notice' \in NoticeType
       /\ BatchInv' /\ DisjointInv' /\ NoticeInv' /\ PendingInv'
  BY <1>1, <1>2, <1>7, <1>8, <1>9, <1>10, OneEnds
<1>12. /\ jobs' \in [Files -> JobType]
       /\ \A g \in Files : jobs'[g].st = "queued" => jobs[g].st = "queued"
  <2>1. PICK st \in {"error", "completed"} : st = IF failed THEN "error" ELSE "completed"
    OBVIOUS
  <2>2. jobs \in [Files -> JobType] /\ Mark(f, st)
    BY <1>1, <2>1 DEF Typed
  <2>. QED
    BY <1>2, <2>2, MarkTyped
<1>13. Typed'
  BY <1>3, <1>11, <1>12 DEF Typed
<1>14. QueueInv'
  <2>1. \A i \in DOMAIN queue' : queue'[i] # upload'.file
    <3>1. \A i \in DOMAIN queue : queue[i] \in Local
      BY DEF Typed
    <3>. QED
      BY <1>3, <3>1 DEF UploadAssumption
  <2>2. \A g \in Local : jobs'[g].st = "queued" => jobs[g].st = "queued"
    BY <1>12 DEF Files
  <2>. QED
    BY <1>3, <2>1, <2>2 DEF QueueInv
<1>15. CreatingInv' /\ LoopInv'
  BY CreatingStays, LoopsStay
<1>. QED
  BY <1>11, <1>13, <1>14, <1>15 DEF UploadInv

LEMMA UploadCompletesInv ==
  ASSUME UploadAssumption, UploadInv, UploadCompletes
  PROVE  UploadInv'
<1> DEFINE failed == FALSE
<1>1. /\ failed \in BOOLEAN /\ upload.file # None
      /\ Mark(upload.file, IF failed THEN "error" ELSE "completed")
      /\ RecordBatchCompletion(upload.file, failed) /\ upload' = AtRest
      /\ ~failed => upload.step = "answer"
      /\ failed => (upload.file \notin imported \/ upload.file \in unclear')
      /\ unclear' = unclear /\ count' = count
      /\ UNCHANGED <<session, queue, creating, monitored, loops, listing, status, imported, owner, astray>>
  BY DEF UploadCompletes, serverVars
<1>2. count' \in CountType /\ unclear' \subseteq Files
  BY <1>1, TheParts DEF Typed
<1> HIDE DEF failed
<1>. QED
  BY <1>1, <1>2, UploadEnds

LEMMA UploadFailsInv ==
  ASSUME UploadAssumption, UploadInv, UploadFails
  PROVE  UploadInv'
<1> DEFINE failed == TRUE
<1>1. /\ failed \in BOOLEAN /\ upload.file # None
      /\ Mark(upload.file, IF failed THEN "error" ELSE "completed")
      /\ RecordBatchCompletion(upload.file, failed) /\ upload' = AtRest
      /\ ~failed => upload.step = "answer"
      /\ CallFails
      /\ unclear' = IF upload.step = "answer" THEN unclear \cup {upload.file} ELSE unclear
      /\ UNCHANGED <<session, queue, creating, monitored, loops, listing, status, imported, owner, astray>>
  BY DEF UploadFails, serverVars
<1>2. count' \in CountType
  BY <1>1, TheParts, FailsCounted DEF Typed
<1>3. upload.file \in Files
  BY <1>1, TheParts DEF Typed, AtWork, Files
<1>4. unclear \subseteq unclear' /\ unclear' \subseteq Files
  BY <1>1, <1>3, TheParts DEF Typed
<1>5. failed => (upload.file \notin imported \/ upload.file \in unclear')
  BY <1>1, TheParts DEF QueueInv
<1> HIDE DEF failed
<1>. QED
  BY <1>1, <1>2, <1>4, <1>5, UploadEnds

LEMMA RemoveQueuedUploadInv ==
  ASSUME UploadAssumption, UploadInv, NEW f \in Local, RemoveQueuedUpload(f)
  PROVE  UploadInv'
<1> USE TheParts
<1>1. /\ jobs' = [jobs EXCEPT ![f] = NoJob] /\ astray' = astray \cup {f}
      /\ UNCHANGED <<session, notice, upload, batches, creating, monitored, loops, listing, status,
                     imported, owner, count, unclear>>
  BY DEF RemoveQueuedUpload, serverVars
<1>2. PICK k \in DOMAIN queue : queue[k] = f /\ queue' = RemoveAt(queue, k)
  BY DEF RemoveQueuedUpload
<1>3. Once(queue) /\ queue \in Seq(Local) /\ upload \in AtWork
  BY DEF QueueInv, Once, Typed
<1>4. queue' \in Seq(Local) /\ Once(queue') /\ \A g : In(queue', g) <=> In(queue, g) /\ g # f
  BY <1>2, <1>3, TakenOut
<1>5. Working(f) /\ ~Working(f)' /\ \A g : g # f => (Working(g)' <=> Working(g))
  BY <1>1, <1>2, <1>4 DEF Working, In, QueueInv
<1>6. \A g : (Awaited(g)' <=> Awaited(g)) /\ (Reporting(g)' <=> Reporting(g))
  BY <1>1, AwaitedStays, ReportingStays
<1>7. f \in Files /\ ~Pending(f)' /\ Pending(f)
  BY <1>5, <1>6, LocalOnly DEF Pending
<1>8. \A g \in Files : /\ Owed(g)' <=> Owed(g)
                       /\ Pending(g)' => Pending(g) /\ g \notin astray'
                       /\ Steady(g)
  <2>1. TAKE g \in Files
  <2>2. Steady(g)
    BY <1>1, <1>5, <1>6, SteadyAtRest
  <2>3. CASE g = f
    BY <1>1, <1>7, <2>2, <2>3 DEF Owed
  <2>4. CASE g # f
    <3>1. Pending(g)' <=> Pending(g)
      BY <1>5, <1>6, <2>4 DEF Pending
    <3>. QED
      BY <1>1, <2>2, <2>4, <3>1 DEF Owed, PendingInv
  <2>. QED
    BY <2>3, <2>4
<1>9. BatchInv' /\ DisjointInv' /\ PendingInv' /\ NoticeInv'
  BY <1>1, <1>8, NoneEnds
<1>10. Typed'
  <2>1. jobs' \in [Files -> JobType]
    BY <1>1, <1>7 DEF Typed, NoJob, JobType
  <2>. QED
    BY <1>1, <1>4, <1>7, <2>1 DEF Typed
<1>11. QueueInv'
  <2>1. \A i, j \in DOMAIN queue' : queue'[i] = queue'[j] => i = j
    BY <1>4 DEF Once
  <2>2. \A i \in DOMAIN queue' : queue'[i] # upload'.file /\ queue'[i] \notin imported'
    <3>1. TAKE i \in DOMAIN queue'
    <3>2. In(queue, queue'[i])
      BY <1>4 DEF In
    <3>. QED
      BY <1>1, <3>2 DEF QueueInv, In
  <2>3. ASSUME NEW g \in Local, jobs'[g].st = "queued" PROVE \E i \in DOMAIN queue' : queue'[i] = g
    <3>1. g # f /\ jobs[g].st = "queued"
      BY <1>1, <2>3 DEF Typed, NoJob, Files
    <3>2. In(queue', g)
      BY <1>4, <3>1 DEF QueueInv, In
    <3>. QED
      BY <3>2 DEF In
  <2>4. upload'.file # None => (upload'.step = "answer" <=> upload'.file \in imported')
    BY <1>1 DEF QueueInv
  <2>. QED
    BY <2>1, <2>2, <2>3, <2>4 DEF QueueInv
<1>12. CreatingInv' /\ LoopInv'
  BY <1>1, CreatingStays, LoopsStay
<1>. QED
  BY <1>9, <1>10, <1>11, <1>12 DEF UploadInv

-----------------------------------------------------------------------------
(* The steps of the imports from OneDrive.                                 *)

\* At most one loop of a file reports to its batch.
OneReports(s) == \A i, j \in DOMAIN s : s[i] = TRUE /\ s[j] = TRUE => i = j

Reports(s)    == \E k \in DOMAIN s : s[k] = TRUE

\* A loop stops.
LEMMA LoopStops ==
  ASSUME NEW s \in Seq(BOOLEAN), NEW k \in DOMAIN s, OneReports(s)
  PROVE  /\ RemoveAt(s, k) \in Seq(BOOLEAN) /\ OneReports(RemoveAt(s, k))
         /\ Reports(RemoveAt(s, k)) <=> Reports(s) /\ s[k] # TRUE
<1>1. PICK t \in Seq(BOOLEAN) : t = RemoveAt(s, k)
  BY Removed
<1>2. /\ Len(s) \in Nat /\ DOMAIN t = 1 .. Len(s) - 1
      /\ DOMAIN s = 1 .. Len(s) /\ k \in 1 .. Len(s)
      /\ \A j \in 1 .. Len(s) - 1 : t[j] = IF j < k THEN s[j] ELSE s[j + 1]
  <2>1. /\ Len(RemoveAt(s, k)) = Len(s) - 1
        /\ \A j \in 1 .. Len(s) - 1 : RemoveAt(s, k)[j] = IF j < k THEN s[j] ELSE s[j + 1]
    BY Removed
  <2>2. Len(t) = Len(s) - 1
    BY <1>1, <2>1
  <2>3. \A j \in 1 .. Len(s) - 1 : t[j] = IF j < k THEN s[j] ELSE s[j + 1]
    BY <1>1, <2>1
  <2>4. Len(s) \in Nat /\ DOMAIN t = 1 .. Len(t) /\ DOMAIN s = 1 .. Len(s)
    BY <1>1
  <2>. QED
    BY <2>2, <2>3, <2>4
<1>3. OneReports(t)
  <2>1. SUFFICES ASSUME NEW i \in 1 .. Len(s) - 1, NEW j \in 1 .. Len(s) - 1, t[i] = TRUE, t[j] = TRUE
                 PROVE  i = j
    BY <1>2 DEF OneReports
  <2>2. PICK p \in 1 .. Len(s) : p = IF i < k THEN i ELSE i + 1
    BY <1>2
  <2>3. PICK q \in 1 .. Len(s) : q = IF j < k THEN j ELSE j + 1
    BY <1>2
  <2>4. s[p] = TRUE /\ s[q] = TRUE
    BY <1>2, <2>1, <2>2, <2>3
  <2>5. p = q
    BY <1>2, <2>4 DEF OneReports
  <2>. QED
    BY <1>2, <2>2, <2>3, <2>5
<1>4. ASSUME Reports(t) PROVE Reports(s) /\ s[k] # TRUE
  <2>1. PICK j \in 1 .. Len(s) - 1 : t[j] = TRUE
    BY <1>2, <1>4 DEF Reports
  <2>2. PICK i \in 1 .. Len(s) : s[i] = TRUE /\ i # k
    BY <1>2, <2>1
  <2>. QED
    BY <1>2, <2>2 DEF Reports, OneReports
<1>5. ASSUME Reports(s), s[k] # TRUE PROVE Reports(t)
  <2>1. PICK i \in 1 .. Len(s) : s[i] = TRUE /\ i # k
    BY <1>2, <1>5 DEF Reports
  <2>2. CASE i < k
    <3>1. i \in 1 .. Len(s) - 1 /\ t[i] = TRUE
      BY <1>2, <2>1, <2>2
    <3>. QED
      BY <1>2, <3>1 DEF Reports
  <2>3. CASE i > k
    <3>1. i - 1 \in 1 .. Len(s) - 1 /\ ~(i - 1 < k) /\ (i - 1) + 1 = i
      BY <1>2, <2>1, <2>3
    <3>2. t[i - 1] = TRUE
      BY <1>2, <2>1, <3>1
    <3>. QED
      BY <1>2, <3>1, <3>2 DEF Reports
  <2>. QED
    BY <1>2, <2>1, <2>2, <2>3
<1>. QED
  BY <1>1, <1>3, <1>4, <1>5

\* One more in a sequence.
LEMMA Appended ==
  ASSUME NEW S, NEW s \in Seq(S), NEW x \in S
  PROVE  /\ Append(s, x) \in Seq(S) /\ Len(s) \in Nat /\ DOMAIN s = 1 .. Len(s)
         /\ DOMAIN Append(s, x) = 1 .. Len(s) + 1
         /\ (\A i \in 1 .. Len(s) : Append(s, x)[i] = s[i]) /\ Append(s, x)[Len(s) + 1] = x
OBVIOUS

\* A loop starts.
LEMMA LoopStarts ==
  ASSUME NEW s \in Seq(BOOLEAN), NEW x \in BOOLEAN, OneReports(s), ~(Reports(s) /\ x = TRUE)
  PROVE  /\ Append(s, x) \in Seq(BOOLEAN) /\ OneReports(Append(s, x))
         /\ Reports(Append(s, x)) <=> Reports(s) \/ x = TRUE
<1>1. PICK t \in Seq(BOOLEAN) : t = Append(s, x)
  BY Appended
<1>2. /\ Len(s) \in Nat /\ DOMAIN s = 1 .. Len(s) /\ DOMAIN t = 1 .. Len(s) + 1
      /\ (\A i \in 1 .. Len(s) : t[i] = s[i]) /\ t[Len(s) + 1] = x
  BY <1>1, Appended
<1>3. OneReports(t)
  <2>1. SUFFICES ASSUME NEW i \in 1 .. Len(s) + 1, NEW j \in 1 .. Len(s) + 1, t[i] = TRUE, t[j] = TRUE
                 PROVE  i = j
    BY <1>2 DEF OneReports
  <2>2. CASE i \in 1 .. Len(s) /\ j \in 1 .. Len(s)
    BY <1>2, <2>1, <2>2 DEF OneReports
  <2>3. CASE i \in 1 .. Len(s) /\ j = Len(s) + 1
    BY <1>2, <2>1, <2>3 DEF Reports
  <2>4. CASE i = Len(s) + 1 /\ j \in 1 .. Len(s)
    BY <1>2, <2>1, <2>4 DEF Reports
  <2>. QED
    BY <1>2, <2>2, <2>3, <2>4
<1>4. Reports(t) => Reports(s) \/ x = TRUE
  BY <1>2 DEF Reports
<1>5. Reports(s) => Reports(t)
  <2>1. SUFFICES ASSUME NEW i \in 1 .. Len(s), s[i] = TRUE PROVE Reports(t)
    BY <1>2 DEF Reports
  <2>2. i \in DOMAIN t /\ t[i] = TRUE
    BY <1>2, <2>1
  <2>. QED
    BY <2>2 DEF Reports
<1>6. x = TRUE => Reports(t)
  <2>1. Len(s) + 1 \in DOMAIN t
    BY <1>2
  <2>. QED
    BY <1>2, <2>1 DEF Reports
<1>. QED
  BY <1>1, <1>3, <1>4, <1>5, <1>6

\* The files of two creations differ.
LEMMA OwnCreation ==
  ASSUME CreatingInv, NEW c \in creating
  PROVE  /\ CreationOK(c) /\ Awaited(c.now)
         /\ \A d \in creating \ {c} : c.now # d.now /\ c.now \notin d.rest
                                      /\ c.batch \cap d.batch = {}
                                      /\ \A f \in c.rest : f # d.now /\ f \notin d.rest
BY DEF CreatingInv, CreationOK, Awaited

\* The server rests on Drive: nothing of local files is awaited or reported.
LEMMA DriveOnly ==
  ASSUME UploadAssumption, Typed, NEW f \in Drive
  PROVE  f \in Files /\ f \notin Local /\ ~Working(f)
BY DEF UploadAssumption, Files, Working

LEMMA EnqueueOneDriveFilesInv ==
  ASSUME UploadAssumption, UploadInv, NEW fs \in SUBSET Drive, NEW f \in fs, EnqueueOneDriveFiles(fs, f)
  PROVE  UploadInv'
<1> USE TheParts
<1>1. /\ \A g \in fs : /\ status[g] = "absent" /\ g \notin astray \cup unclear \cup notice.files
                       /\ OpenBatch(g) = {} /\ \A c \in creating : g \notin c.batch
      /\ NewBatch(fs)
      /\ creating' = creating \cup {Creation(fs, fs \ {f}, f)}
      /\ jobs' = [jobs EXCEPT ![f] = [st |-> "uploading", batch |-> fs]]
      /\ UNCHANGED <<session, notice, queue, upload, monitored, loops, listing, status, imported,
                     owner, count, unclear, astray>>
  BY DEF EnqueueOneDriveFiles, serverVars
<1>2. PICK e : e = Creation(fs, fs \ {f}, f)
  OBVIOUS
<1>3. /\ e \in CreationType /\ e.batch = fs /\ e.rest = fs \ {f} /\ e.now = f /\ e.step = "sent"
      /\ creating' = creating \cup {e}
  BY <1>1, <1>2 DEF Creation, CreationType, Typed
<1>4. \A g : Awaited(g)' <=> Awaited(g) \/ g \in fs
  BY <1>3 DEF Awaited
<1>5. \A g : (Working(g)' <=> Working(g)) /\ (Reporting(g)' <=> Reporting(g))
  BY <1>1, WorkStays, ReportingStays
<1>6. \A g \in fs : g \in Files /\ g \in Drive /\ Pending(g)' /\ ~Reporting(g) /\ loops[g] = <<>>
  <2>1. TAKE g \in fs
  <2>2. LoopOK(g)
    BY DEF LoopInv
  <2>. QED
    BY <1>1, <1>4, <2>2, DriveOnly DEF LoopOK, Reporting, Pending
<1>7. \A g \in Files \ fs : (Pending(g)' <=> Pending(g)) /\ Steady(g)
  <2>1. TAKE g \in Files \ fs
  <2>2. Awaited(g)' <=> Awaited(g)
    BY <1>4
  <2>. QED
    BY <1>1, <1>5, <2>2, SteadyAtRest DEF Pending
<1>8. /\ batches' \subseteq BatchType
      /\ BatchInv' /\ DisjointInv' /\ NoticeInv' /\ PendingInv'
  <2>1. fs \in SUBSET Files /\ fs # {}
    BY <1>6
  <2>2. \A g \in fs : OpenBatch(g) = {} /\ g \notin notice.files /\ g \notin astray /\ Pending(g)'
    BY <1>1, <1>6
  <2>. QED
    BY <1>1, <1>7, <2>1, <2>2, SomeStart
<1>9. jobs' \in [Files -> JobType] /\ \A g \in Local : jobs'[g] = jobs[g]
  <2>1. jobs \in [Files -> JobType] /\ [st |-> "uploading", batch |-> fs] \in JobType
    BY <1>6 DEF Typed, JobType
  <2>2. f \notin Local
    BY DriveOnly
  <2>. QED
    BY <1>1, <2>1, <2>2 DEF Files
<1>10. Typed'
  BY <1>1, <1>3, <1>8, <1>9 DEF Typed
<1>11. QueueInv'
  <2>1. queue \in Seq(Local) /\ upload \in AtWork
    BY DEF Typed
  <2>. QED
    BY <1>1, <1>9, <2>1, QueueStays
<1>12. CreatingInv'
  <2>1. CreationOK(e)'
    BY <1>1, <1>3 DEF CreationOK
  <2>2. \A c \in creating : CreationOK(c)'
    BY <1>1 DEF CreatingInv, CreationOK
  <2>3. \A c \in creating : c.batch \cap e.batch = {}
    BY <1>1, <1>3
  <2>. QED
    BY <1>3, <2>1, <2>2, <2>3 DEF CreatingInv
<1>13. LoopInv'
  <2>1. SUFFICES ASSUME NEW g \in Drive PROVE LoopOK(g)'
    BY DEF LoopInv
  <2>2. LoopOK(g)
    BY DEF LoopInv
  <2>3. Reporting(g)' => ~Awaited(g)'
    BY <1>4, <1>5, <1>6, <2>2 DEF LoopOK
  <2>. QED
    BY <1>1, <2>2, <2>3 DEF LoopOK
<1>. QED
  BY <1>8, <1>10, <1>11, <1>12, <1>13 DEF UploadInv

LEMMA ImportInsertedInv ==
  ASSUME UploadAssumption, UploadInv, NEW c \in creating, ImportInserted(c)
  PROVE  UploadInv'
<1> USE TheParts
<1>1. /\ c.step = "sent" /\ c.user # None /\ status[c.now] = "absent"
      /\ status' = [status EXCEPT ![c.now] = "queued"] /\ owner' = [owner EXCEPT ![c.now] = c.user]
      /\ UNCHANGED <<session, notice, jobs, queue, upload, batches, monitored, loops, listing,
                     imported, astray>>
  BY DEF ImportInserted, Server!Create
<1>2. PICK e \in {[c EXCEPT !.step = "inserted"], [c EXCEPT !.step = "lost"]} :
        /\ creating' = (creating \ {c}) \cup {e}
        /\ \/ e = [c EXCEPT !.step = "inserted"] /\ UNCHANGED <<count, unclear>>
           \/ e = [c EXCEPT !.step = "lost"] /\ CallFails /\ unclear' = unclear \cup {c.now}
  BY DEF ImportInserted
<1>3. c \in CreationType /\ c.now \in Drive /\ c.user \in Accounts
  BY DEF Typed, CreationType
<1>4. /\ e \in CreationType /\ e.batch = c.batch /\ e.rest = c.rest /\ e.now = c.now
      /\ e.step \in {"inserted", "lost"}
  BY <1>2, <1>3 DEF CreationType
<1>5. e.step = "lost" => c.now \in unclear'
  BY <1>2, <1>3 DEF CreationType
<1>6. \A g : Awaited(g)' <=> Awaited(g)
  BY <1>2, <1>4 DEF Awaited
<1>7. \A g : (Working(g)' <=> Working(g)) /\ (Reporting(g)' <=> Reporting(g))
  BY <1>1, WorkStays, ReportingStays
<1>8. unclear \subseteq unclear' /\ unclear' \subseteq Files /\ count' \in CountType
  <2>1. count \in CountType /\ unclear \subseteq Files /\ c.now \in Files
    BY <1>3, DriveOnly DEF Typed
  <2>. QED
    BY <1>2, <2>1, FailsCounted
<1>9. status \in [Drive -> Statuses] /\ status' \in [Drive -> Statuses]
  BY <1>1, <1>3 DEF Typed, Statuses
<1>10. Awaited(c.now) /\ c.now \notin Local
  BY <1>3, OwnCreation, DriveOnly
<1>11. \A g \in Files : Steady(g)
  <2>1. TAKE g \in Files
  <2>2. AtEnd(g) => AtEnd(g)'
    <3>1. CASE g = c.now
      BY <1>1, <1>8, <1>10, <3>1 DEF AtEnd
    <3>2. CASE g # c.now
      <4>1. g \in Local \/ (g \in Drive /\ status'[g] = status[g])
        BY <1>1, <1>9, <3>2 DEF Files
      <4>. QED
        BY <1>6, <1>7, <1>8, <4>1 DEF AtEnd
    <3>. QED
      BY <3>1, <3>2
  <2>3. g \in Known => g \in Known'
    BY <1>1, <1>3, <1>8, <1>9 DEF Known
  <2>. QED
    BY <1>1, <2>2, <2>3 DEF Steady
<1>12. BatchInv' /\ DisjointInv' /\ PendingInv' /\ NoticeInv'
  <2>1. \A g \in Files : Pending(g)' <=> Pending(g)
    BY <1>6, <1>7 DEF Pending
  <2>2. \A g \in Files : (Owed(g)' <=> Owed(g)) /\ (Pending(g)' => Pending(g) /\ g \notin astray')
    BY <1>1, <2>1 DEF Owed, PendingInv
  <2>. QED
    BY <1>1, <1>11, <2>2, NoneEnds
<1>13. Typed'
  <2>1. owner' \in [Drive -> Accounts]
    BY <1>1, <1>3 DEF Typed
  <2>2. creating' \subseteq CreationType
    BY <1>2, <1>4 DEF Typed
  <2>. QED
    BY <1>1, <1>8, <1>9, <2>1, <2>2 DEF Typed
<1>14. QueueInv'
  <2>1. queue \in Seq(Local) /\ upload \in AtWork
    BY DEF Typed
  <2>. QED
    BY <1>1, <2>1, QueueStays
<1>15. CreatingInv'
  <2>1. CreationOK(e)'
    <3>1. c.now \notin c.rest /\ c.now \in c.batch /\ c.rest \subseteq c.batch
          /\ \A g \in c.rest : status[g] = "absent" /\ g \in Drive
      BY <1>3, OwnCreation DEF CreationOK, CreationType
    <3>2. status'[c.now] = "queued" /\ \A g \in c.rest : status'[g] = "absent"
      BY <1>1, <1>3, <1>9, <3>1
    <3>. QED
      BY <1>4, <1>5, <3>1, <3>2 DEF CreationOK
  <2>2. \A d \in creating \ {c} : CreationOK(d)' /\ d.batch \cap e.batch = {}
    <3>1. TAKE d \in creating \ {c}
    <3>2. CreationOK(d) /\ d \in CreationType
      BY DEF CreatingInv, Typed
    <3>3. c.now # d.now /\ c.now \notin d.rest /\ c.batch \cap d.batch = {}
      BY OwnCreation
    <3>4. status'[d.now] = status[d.now] /\ \A g \in d.rest : status'[g] = status[g]
      BY <1>1, <1>9, <3>2, <3>3 DEF CreationType
    <3>. QED
      BY <1>4, <1>8, <3>2, <3>3, <3>4 DEF CreationOK
  <2>3. \A d1, d2 \in creating' : d1 # d2 => d1.batch \cap d2.batch = {}
    BY <1>2, <2>2 DEF CreatingInv
  <2>. QED
    BY <1>2, <2>1, <2>2, <2>3 DEF CreatingInv
<1>16. LoopInv'
  <2>1. SUFFICES ASSUME NEW g \in Drive PROVE LoopOK(g)'
    BY DEF LoopInv
  <2>2. LoopOK(g)
    BY DEF LoopInv
  <2>3. (Reporting(g)' => ~Awaited(g)')
    BY <1>6, <1>7, <2>2 DEF LoopOK
  <2>4. \/ g = c.now /\ status'[g] = "queued"
        \/ g # c.now /\ status'[g] = status[g]
    BY <1>1, <1>9
  <2>. QED
    BY <1>1, <2>2, <2>3, <2>4 DEF LoopOK
<1>. QED
  BY <1>12, <1>13, <1>14, <1>15, <1>16 DEF UploadInv

\* c gives way to the creation of the next file, or to none.
GoesOn(c) ==
  \/ c.rest = {} /\ creating' = creating \ {c}
  \/ \E f \in c.rest : creating' = (creating \ {c}) \cup {Creation(c.batch, c.rest \ {f}, f)}

LEMMA NextCreation ==
  ASSUME UploadAssumption, UploadInv, NEW c \in creating, GoesOn(c),
         status' = status, unclear \subseteq unclear'
  PROVE  /\ CreatingInv' /\ creating' \subseteq CreationType
         /\ \A g : Awaited(g)' <=> Awaited(g) /\ g # c.now
<1> USE TheParts
<1>1. c \in CreationType /\ creating \subseteq CreationType /\ session \in Accounts
  BY DEF Typed
<1>2. /\ c.now \notin c.rest /\ c.now \in c.batch /\ c.rest \subseteq c.batch
      /\ c.batch \subseteq Drive /\ \A f \in c.rest : status[f] = "absent"
      /\ \A d \in creating \ {c} : c.now # d.now /\ c.now \notin d.rest /\ c.batch \cap d.batch = {}
  BY <1>1, OwnCreation DEF CreationOK, CreationType
<1>3. \A d \in creating \ {c} : CreationOK(d)'
  BY DEF CreatingInv, CreationOK
<1>4. CASE c.rest = {} /\ creating' = creating \ {c}
  <2>1. CreatingInv' /\ creating' \subseteq CreationType
    BY <1>1, <1>3, <1>4 DEF CreatingInv
  <2>2. \A g : Awaited(g)' <=> Awaited(g) /\ g # c.now
    BY <1>2, <1>4 DEF Awaited
  <2>. QED
    BY <2>1, <2>2
<1>5. ASSUME NEW f \in c.rest, creating' = (creating \ {c}) \cup {Creation(c.batch, c.rest \ {f}, f)}
      PROVE  /\ CreatingInv' /\ creating' \subseteq CreationType
             /\ \A g : Awaited(g)' <=> Awaited(g) /\ g # c.now
  <2>1. PICK e : e = Creation(c.batch, c.rest \ {f}, f)
    OBVIOUS
  <2>2. e.batch = c.batch /\ e.rest = c.rest \ {f} /\ e.now = f /\ e.step = "sent"
    BY <2>1 DEF Creation
  <2>3. e \in CreationType
    BY <1>1, <1>2, <1>5, <2>1 DEF Creation, CreationType
  <2>4. creating' = (creating \ {c}) \cup {e}
    BY <1>5, <2>1
  <2>5. CreationOK(e)'
    <3>1. status[f] = "absent" /\ f \in c.batch
      BY <1>2
    <3>. QED
      BY <1>2, <2>2, <3>1 DEF CreationOK
  <2>6. CreatingInv'
    BY <1>2, <1>3, <2>2, <2>4, <2>5 DEF CreatingInv
  <2>7. \A g : Awaited(g)' <=> Awaited(g) /\ g # c.now
    <3>1. \A g : Awaited(g)' <=> (\E d \in creating \ {c} : g = d.now \/ g \in d.rest) \/ g \in c.rest
      BY <2>2, <2>4 DEF Awaited
    <3>2. \A g : Awaited(g) <=> (\E d \in creating \ {c} : g = d.now \/ g \in d.rest)
                                \/ g \in c.rest \/ g = c.now
      BY DEF Awaited
    <3>. QED
      BY <1>2, <3>1, <3>2
  <2>. QED
    BY <1>1, <2>3, <2>4, <2>6, <2>7
<1>. QED
  BY <1>4, <1>5 DEF GoesOn

LEMMA ImportCreatedInv ==
  ASSUME UploadAssumption, UploadInv, NEW c \in creating, ImportCreated(c)
  PROVE  UploadInv'
<1> USE TheParts
<1>1. /\ c.step = "inserted"
      /\ UNCHANGED <<session, notice, queue, upload, batches, listing, status, imported, owner,
                     count, unclear>>
  BY DEF ImportCreated, serverVars
<1>2. PICK f \in Drive : f = c.now
  BY DEF Typed, CreationType
<1>3. \/ /\ f \in monitored /\ astray' = astray \cup {f}
         /\ monitored' = monitored /\ loops' = loops
      \/ /\ f \notin monitored /\ monitored' = monitored \cup {f}
         /\ loops' = [loops EXCEPT ![f] = Append(@, TRUE)] /\ astray' = astray
  BY <1>2 DEF ImportCreated
<1>4. GoesOn(c) /\ jobs' \in [Files -> JobType] /\ \A g \in Local : jobs'[g] = jobs[g]
  <2>1. jobs \in [Files -> JobType] /\ c \in CreationType /\ NextSelection(c)
    BY DEF Typed, ImportCreated
  <2>2. CASE c.rest = {}
    BY <2>1, <2>2 DEF NextSelection, GoesOn
  <2>3. CASE c.rest # {}
    <3>1. PICK g \in c.rest : /\ creating' = (creating \ {c}) \cup {Creation(c.batch, c.rest \ {g}, g)}
                              /\ jobs' = [jobs EXCEPT ![g] = [st |-> "uploading", batch |-> c.batch]]
      BY <2>1, <2>3 DEF NextSelection
    <3>2. [st |-> "uploading", batch |-> c.batch] \in JobType /\ g \in Drive
      BY <2>1 DEF CreationType, JobType, Files
    <3>. QED
      BY <2>1, <3>1, <3>2, DriveOnly DEF GoesOn, Files
  <2>. QED
    BY <2>2, <2>3
<1>5. /\ CreatingInv' /\ creating' \subseteq CreationType
      /\ \A g : Awaited(g)' <=> Awaited(g) /\ g # f
  BY <1>1, <1>2, <1>4, NextCreation
<1>6. /\ Awaited(f) /\ f \in Files /\ f \notin Local /\ status[f] # "absent" /\ ~Reporting(f)
      /\ ~Working(f)
  BY <1>1, <1>2, OwnCreation, DriveOnly DEF CreationOK, LoopInv, LoopOK
<1>7. loops \in [Drive -> Seq(BOOLEAN)] /\ OneReports(loops[f]) /\ ~Reports(loops[f])
  BY <1>2, <1>6 DEF Typed, LoopInv, LoopOK, OneReports, Reporting, Reports
<1>8. \A g \in Drive : g # f => loops'[g] = loops[g]
  BY <1>3, <1>7
<1>9. /\ loops' \in [Drive -> Seq(BOOLEAN)] /\ OneReports(loops'[f])
      /\ f \in monitored => ~Reports(loops'[f])
      /\ f \notin monitored => Reports(loops'[f])
  <2>1. CASE f \in monitored
    BY <1>3, <1>7, <2>1
  <2>2. CASE f \notin monitored
    <3>1. TRUE \in BOOLEAN /\ loops[f] \in Seq(BOOLEAN)
      BY <1>7
    <3>2. /\ Append(loops[f], TRUE) \in Seq(BOOLEAN) /\ OneReports(Append(loops[f], TRUE))
          /\ Reports(Append(loops[f], TRUE))
      BY <1>7, <3>1, LoopStarts
    <3>3. loops' = [loops EXCEPT ![f] = Append(loops[f], TRUE)]
      BY <1>3, <2>2
    <3>. QED
      BY <1>7, <2>2, <3>2, <3>3
  <2>. QED
    BY <2>1, <2>2
<1>10. \A g : Working(g)' <=> Working(g)
  BY <1>1, WorkStays
<1>11. \A g : g # f => (Reporting(g)' <=> Reporting(g))
  BY <1>8 DEF Reporting
<1>12. Reporting(f)' <=> f \notin monitored
  BY <1>9 DEF Reporting, Reports
<1>13. \A g : Steady(g)
  BY <1>1, <1>5, <1>10, SteadyAtRest
<1>14. BatchInv' /\ DisjointInv' /\ PendingInv' /\ NoticeInv'
  <2>1. \A g \in Files : /\ Owed(g)' <=> Owed(g)
                         /\ Pending(g)' => Pending(g) /\ g \notin astray'
                         /\ Steady(g)
    <3>1. TAKE g \in Files
    <3>2. CASE g # f
      <4>1. Pending(g)' <=> Pending(g)
        BY <1>5, <1>10, <1>11, <3>2 DEF Pending
      <4>2. g \in astray' <=> g \in astray
        BY <1>3, <3>2
      <4>. QED
        BY <1>13, <4>1, <4>2 DEF Owed, PendingInv
    <3>3. CASE g = f
      <4>1. Pending(f) /\ f \notin astray
        BY <1>6 DEF Pending, PendingInv
      <4>2. Pending(f)' <=> f \notin monitored
        BY <1>5, <1>6, <1>10, <1>12 DEF Pending
      <4>3. f \in astray' <=> f \in monitored
        BY <1>3, <4>1
      <4>. QED
        BY <1>13, <3>3, <4>1, <4>2, <4>3 DEF Owed
    <3>. QED
      BY <3>2, <3>3
  <2>. QED
    BY <1>1, <2>1, NoneEnds
<1>15. Typed'
  <2>1. monitored' \subseteq Drive /\ astray' \subseteq Files
    BY <1>3, <1>6 DEF Typed
  <2>. QED
    BY <1>1, <1>4, <1>5, <1>9, <2>1 DEF Typed
<1>16. QueueInv'
  <2>1. queue \in Seq(Local) /\ upload \in AtWork
    BY DEF Typed
  <2>. QED
    BY <1>1, <1>4, <2>1, QueueStays
<1>17. LoopInv'
  <2>1. SUFFICES ASSUME NEW g \in Drive PROVE LoopOK(g)'
    BY DEF LoopInv
  <2>2. LoopOK(g)
    BY DEF LoopInv
  <2>3. CASE g # f
    <3>1. loops'[g] = loops[g] /\ (g \in monitored' <=> g \in monitored)
      BY <1>3, <1>8, <2>3
    <3>. QED
      BY <1>1, <1>5, <1>11, <2>2, <2>3, <3>1 DEF LoopOK
  <2>4. CASE g = f
    BY <1>1, <1>5, <1>6, <1>9, <2>2, <2>4 DEF LoopOK, OneReports
  <2>. QED
    BY <2>3, <2>4
<1>. QED
  BY <1>5, <1>14, <1>15, <1>16, <1>17 DEF UploadInv

LEMMA CreationFailsInv ==
  ASSUME UploadAssumption, UploadInv, NEW c \in creating, CreationFails(c)
  PROVE  UploadInv'
<1> USE TheParts
<1>1. /\ RecordBatchCompletion(c.now, TRUE)
      /\ UNCHANGED <<session, queue, upload, monitored, loops, listing, status, imported, owner,
                     unclear, astray>>
  BY DEF CreationFails, serverVars
<1>2. PICK f \in Drive : f = c.now
  BY DEF Typed, CreationType
<1>3. c.step \in {"sent", "lost"} /\ count' \in CountType
  <2>1. count \in CountType
    BY DEF Typed
  <2>. QED
    BY <2>1, FailsCounted DEF CreationFails
<1>4. GoesOn(c) /\ jobs' \in [Files -> JobType] /\ \A g \in Local : jobs'[g] = jobs[g]
  <2>1. jobs \in [Files -> JobType] /\ c \in CreationType
    BY DEF Typed
  <2>2. PICK marked : marked = [jobs EXCEPT ![c.now] =
                          IF @.batch = c.batch THEN [@ EXCEPT !.st = "error"] ELSE @]
    OBVIOUS
  <2>3. marked \in [Files -> JobType] /\ \A g \in Local : marked[g] = jobs[g]
    <3>1. jobs[f] \in JobType /\ f \in Files /\ f \notin Local
      BY <2>1, DriveOnly
    <3>2. [jobs[f] EXCEPT !.st = "error"] \in JobType
      BY <3>1 DEF JobType
    <3>3. PICK j \in JobType :
            j = IF jobs[f].batch = c.batch THEN [jobs[f] EXCEPT !.st = "error"] ELSE jobs[f]
      BY <3>1, <3>2
    <3>4. marked = [jobs EXCEPT ![f] = j]
      BY <1>2, <2>2, <3>3
    <3>. QED
      BY <2>1, <3>1, <3>4 DEF Files
  <2>4. CASE c.rest = {}
    <3>1. creating' = creating \ {c} /\ jobs' = marked
      BY <2>2, <2>4 DEF CreationFails
    <3>. QED
      BY <2>3, <2>4, <3>1 DEF GoesOn
  <2>5. CASE c.rest # {}
    <3>1. PICK g \in c.rest : /\ creating' = (creating \ {c}) \cup {Creation(c.batch, c.rest \ {g}, g)}
                              /\ jobs' = [marked EXCEPT ![g] = [st |-> "uploading", batch |-> c.batch]]
      BY <2>2, <2>5 DEF CreationFails
    <3>2. [st |-> "uploading", batch |-> c.batch] \in JobType /\ g \in Drive
      BY <2>1 DEF CreationType, JobType, Files
    <3>. QED
      BY <2>3, <3>1, <3>2, DriveOnly DEF GoesOn, Files
  <2>. QED
    BY <2>4, <2>5
<1>5. /\ CreatingInv' /\ creating' \subseteq CreationType
      /\ \A g : Awaited(g)' <=> Awaited(g) /\ g # f
  BY <1>1, <1>2, <1>4, NextCreation
<1>6. /\ Awaited(f) /\ f \in Files /\ f \notin Local /\ ~Reporting(f) /\ ~Working(f)
      /\ status[f] = "absent" \/ f \in unclear
  BY <1>2, <1>3, OwnCreation, DriveOnly DEF CreationOK, LoopInv, LoopOK
<1>7. \A g : (Working(g)' <=> Working(g)) /\ (Reporting(g)' <=> Reporting(g))
  BY <1>1, WorkStays, ReportingStays
<1>8. Pending(f) /\ ~Pending(f)' /\ \A g \in Files \ {f} : Pending(g)' <=> Pending(g)
  BY <1>5, <1>6, <1>7 DEF Pending
<1>9. \A g \in Files : Steady(g)
  BY <1>1, <1>5, <1>7, SteadyAtRest
<1>10. AtEnd(f)'
  BY <1>1, <1>5, <1>6 DEF AtEnd
<1>11. f \notin imported' \/ f \in Known'
  BY <1>1, <1>6 DEF LoopInv, LoopOK, Known
<1>12. /\ batches' \subseteq BatchType /\ notice' \in NoticeType
       /\ BatchInv' /\ DisjointInv' /\ NoticeInv' /\ PendingInv'
  <2>1. PICK failed \in BOOLEAN : failed = TRUE
    OBVIOUS
  <2>2. RecordBatchCompletion(f, failed)
    BY <1>1, <1>2, <2>1
  <2>. QED
    BY <1>1, <1>6, <1>8, <1>9, <1>10, <1>11, <2>1, <2>2, OneEnds
<1>13. Typed'
  BY <1>1, <1>3, <1>4, <1>5, <1>12 DEF Typed
<1>14. QueueInv'
  <2>1. queue \in Seq(Local) /\ upload \in AtWork
    BY DEF Typed
  <2>. QED
    BY <1>1, <1>4, <2>1, QueueStays
<1>15. LoopInv'
  <2>1. SUFFICES ASSUME NEW g \in Drive PROVE LoopOK(g)'
    BY DEF LoopInv
  <2>2. LoopOK(g)
    BY DEF LoopInv
  <2>. QED
    BY <1>1, <1>5, <1>7, <2>2 DEF LoopOK
<1>. QED
  BY <1>5, <1>12, <1>13, <1>14, <1>15 DEF UploadInv

LEMMA PollInv ==
  ASSUME UploadAssumption, UploadInv, NEW f \in Drive, NEW k \in DOMAIN loops[f], Poll(f, k)
  PROVE  UploadInv'
<1> USE TheParts
<1>1. /\ f \in monitored /\ Mark(f, status[f])
      /\ monitored' = monitored \ {f} /\ loops' = [loops EXCEPT ![f] = RemoveAt(@, k)]
      /\ UNCHANGED <<session, queue, upload, creating, listing, status, imported, owner, count,
                     unclear, astray>>
  BY DEF Poll, serverVars
<1>2. PICK st \in {"completed", "error"} : st = status[f]
  BY DEF Poll, Server!Ended
<1>3. PICK failed \in BOOLEAN : failed = (status[f] = "error")
  OBVIOUS
<1>4. \/ loops[f][k] = TRUE /\ OpenBatch(f) # {} /\ RecordBatchCompletion(f, failed)
      \/ ~(loops[f][k] = TRUE /\ OpenBatch(f) # {}) /\ ShowNotice(f, failed)
  BY <1>3 DEF Poll
<1>5. f \in Files /\ f \notin Local /\ ~Working(f)
  BY DriveOnly
<1>6. LoopOK(f) /\ loops \in [Drive -> Seq(BOOLEAN)]
  BY DEF LoopInv, Typed
<1>7. /\ RemoveAt(loops[f], k) \in Seq(BOOLEAN) /\ OneReports(RemoveAt(loops[f], k))
      /\ Reports(RemoveAt(loops[f], k)) <=> Reports(loops[f]) /\ loops[f][k] # TRUE
  <2>1. loops[f] \in Seq(BOOLEAN) /\ OneReports(loops[f])
    BY <1>6 DEF LoopOK, OneReports
  <2>. QED
    BY <2>1, LoopStops
<1>8. /\ loops' \in [Drive -> Seq(BOOLEAN)] /\ OneReports(loops'[f])
      /\ Reporting(f)' <=> Reporting(f) /\ loops[f][k] # TRUE
      /\ \A g \in Drive : g # f => loops'[g] = loops[g]
  BY <1>1, <1>6, <1>7 DEF Reporting, Reports
<1>9. \A g : g # f => (Reporting(g)' <=> Reporting(g))
  BY <1>8 DEF Reporting
<1>10. \A g : (Working(g)' <=> Working(g)) /\ (Awaited(g)' <=> Awaited(g))
  BY <1>1, WorkStays, AwaitedStays
<1>11. \A g : Steady(g)
  BY <1>1, <1>10, SteadyAtRest
<1>12. AtEnd(f)'
  BY <1>1, <1>2, <1>5 DEF AtEnd
<1>13. (failed => f \notin imported' \/ f \in Known') /\ (~failed => f \in imported')
  BY <1>1, <1>2, <1>3, <1>6 DEF Known, LoopOK
<1>14. \A g \in Files \ {f} : Pending(g)' <=> Pending(g)
  BY <1>9, <1>10 DEF Pending
<1>15. /\ batches' \subseteq BatchType /\ notice' \in NoticeType
       /\ BatchInv' /\ DisjointInv' /\ NoticeInv' /\ PendingInv'
  <2>1. CASE loops[f][k] = TRUE /\ OpenBatch(f) # {} /\ RecordBatchCompletion(f, failed)
    <3>1. Reporting(f) /\ ~Awaited(f) /\ ~Reporting(f)'
      BY <1>6, <1>8, <2>1 DEF LoopOK, Reporting
    <3>2. Pending(f) /\ ~Pending(f)'
      BY <1>5, <1>10, <3>1 DEF Pending
    <3>. QED
      BY <1>1, <1>5, <1>11, <1>12, <1>13, <1>14, <2>1, <3>2, OneEnds
  <2>2. CASE ~(loops[f][k] = TRUE /\ OpenBatch(f) # {}) /\ ShowNotice(f, failed)
    <3>1. loops[f][k] # TRUE
      <4>1. SUFFICES ASSUME loops[f][k] = TRUE PROVE FALSE
        OBVIOUS
      <4>2. Pending(f)
        BY <4>1 DEF Pending, Reporting
      <4>. QED
        BY <1>5, <2>2, <4>1, <4>2 DEF PendingInv
    <3>2. \A g \in Files : (Pending(g)' <=> Pending(g)) /\ (Owed(g)' <=> Owed(g))
      BY <1>1, <1>8, <1>9, <1>10, <3>1 DEF Pending, Owed
    <3>3. batches' = batches
      BY <2>2 DEF ShowNotice
    <3>4. \A g \in Files : Pending(g)' => Pending(g) /\ g \notin astray'
      BY <1>1, <3>2 DEF PendingInv
    <3>5. BatchInv' /\ DisjointInv' /\ PendingInv'
      BY <1>11, <3>2, <3>3, <3>4, NoneEnds
    <3>6. notice' \in NoticeType /\ NoticeInv'
      BY <1>5, <1>12, <1>13, <2>2, Announced
    <3>. QED
      BY <3>3, <3>5, <3>6
  <2>. QED
    BY <1>4, <2>1, <2>2
<1>16. /\ jobs' \in [Files -> JobType]
       /\ \A g \in Files : jobs'[g].st = "queued" => jobs[g].st = "queued"
  <2>1. jobs \in [Files -> JobType] /\ Mark(f, st)
    BY <1>1, <1>2 DEF Typed
  <2>. QED
    BY <1>5, <2>1, MarkTyped
<1>17. Typed'
  BY <1>1, <1>8, <1>15, <1>16 DEF Typed
<1>18. QueueInv'
  <2>1. queue \in Seq(Local) /\ upload \in AtWork
    BY DEF Typed
  <2>. QED
    BY <1>1, <1>16, <2>1, QueueStays DEF Files
<1>19. CreatingInv'
  BY <1>1, CreatingStays
<1>20. LoopInv'
  <2>1. SUFFICES ASSUME NEW g \in Drive PROVE LoopOK(g)'
    BY DEF LoopInv
  <2>2. LoopOK(g)
    BY DEF LoopInv
  <2>3. Reporting(g)' => ~Awaited(g)'
    BY <1>8, <1>9, <1>10, <2>2 DEF LoopOK
  <2>4. CASE g # f
    BY <1>1, <1>8, <2>2, <2>3, <2>4 DEF LoopOK
  <2>5. CASE g = f
    BY <1>1, <1>2, <1>8, <2>2, <2>3, <2>5 DEF LoopOK, OneReports
  <2>. QED
    BY <2>4, <2>5
<1>. QED
  BY <1>15, <1>17, <1>18, <1>19, <1>20 DEF UploadInv

LEMMA PollStopsInv ==
  ASSUME UploadAssumption, UploadInv, NEW f \in Drive, NEW k \in DOMAIN loops[f], PollStops(f, k)
  PROVE  UploadInv'
<1> USE TheParts
<1>1. /\ loops' = [loops EXCEPT ![f] = RemoveAt(@, k)]
      /\ loops[f][k] = TRUE => astray' = astray \cup {f}
      /\ loops[f][k] # TRUE => astray' = astray
      /\ UNCHANGED <<session, notice, jobs, queue, upload, batches, creating, monitored, listing,
                     status, imported, owner, count, unclear>>
  <2>1. loops[f][k] \in BOOLEAN
    BY DEF Typed
  <2>. QED
    BY <2>1 DEF PollStops, serverVars
<1>2. f \in Files /\ f \notin Local /\ ~Working(f)
  BY DriveOnly
<1>3. LoopOK(f) /\ loops \in [Drive -> Seq(BOOLEAN)]
  BY DEF LoopInv, Typed
<1>4. /\ RemoveAt(loops[f], k) \in Seq(BOOLEAN) /\ OneReports(RemoveAt(loops[f], k))
      /\ Reports(RemoveAt(loops[f], k)) <=> Reports(loops[f]) /\ loops[f][k] # TRUE
  <2>1. loops[f] \in Seq(BOOLEAN) /\ OneReports(loops[f])
    BY <1>3 DEF LoopOK, OneReports
  <2>. QED
    BY <2>1, LoopStops
<1>5. /\ loops' \in [Drive -> Seq(BOOLEAN)] /\ OneReports(loops'[f])
      /\ Reporting(f)' <=> Reporting(f) /\ loops[f][k] # TRUE
      /\ \A g \in Drive : g # f => loops'[g] = loops[g]
  BY <1>1, <1>3, <1>4 DEF Reporting, Reports
<1>6. \A g : g # f => (Reporting(g)' <=> Reporting(g))
  BY <1>5 DEF Reporting
<1>7. \A g : (Working(g)' <=> Working(g)) /\ (Awaited(g)' <=> Awaited(g))
  BY <1>1, WorkStays, AwaitedStays
<1>8. \A g : Steady(g)
  BY <1>1, <1>7, SteadyAtRest
<1>9. \A g \in Files : /\ Owed(g)' <=> Owed(g)
                       /\ Pending(g)' => Pending(g) /\ g \notin astray'
                       /\ Steady(g)
  <2>1. TAKE g \in Files
  <2>2. CASE g = f /\ loops[f][k] = TRUE
    <3>1. Reporting(f) /\ ~Awaited(f) /\ ~Reporting(f)'
      BY <1>3, <1>5, <2>2 DEF LoopOK, Reporting
    <3>2. Pending(f) /\ ~Pending(f)' /\ f \in astray'
      BY <1>1, <1>2, <1>7, <2>2, <3>1 DEF Pending
    <3>. QED
      BY <1>8, <2>2, <3>2 DEF Owed
  <2>3. CASE g # f \/ loops[f][k] # TRUE
    <3>1. Pending(g)' <=> Pending(g)
      BY <1>5, <1>6, <1>7, <2>3 DEF Pending
    <3>2. g \in astray' <=> g \in astray
      BY <1>1, <2>3
    <3>. QED
      BY <1>8, <3>1, <3>2 DEF Owed, PendingInv
  <2>. QED
    BY <2>2, <2>3
<1>10. BatchInv' /\ DisjointInv' /\ PendingInv' /\ NoticeInv'
  BY <1>1, <1>9, NoneEnds
<1>11. Typed'
  BY <1>1, <1>2, <1>5 DEF Typed
<1>12. QueueInv'
  BY <1>1 DEF QueueInv
<1>13. CreatingInv'
  BY <1>1, CreatingStays
<1>14. LoopInv'
  <2>1. SUFFICES ASSUME NEW g \in Drive PROVE LoopOK(g)'
    BY DEF LoopInv
  <2>2. LoopOK(g)
    BY DEF LoopInv
  <2>3. Reporting(g)' => ~Awaited(g)'
    BY <1>5, <1>6, <1>7, <2>2 DEF LoopOK
  <2>4. CASE g # f
    BY <1>1, <1>5, <2>2, <2>3, <2>4 DEF LoopOK
  <2>5. CASE g = f
    <3>1. loops[f] # <<>>
      BY <1>3
    <3>. QED
      BY <1>1, <1>5, <2>2, <2>3, <2>5, <3>1 DEF LoopOK, OneReports
  <2>. QED
    BY <2>4, <2>5
<1>. QED
  BY <1>10, <1>11, <1>12, <1>13, <1>14 DEF UploadInv

LEMMA ServerWorksInv ==
  ASSUME UploadAssumption, UploadInv, NEW f \in Drive, ServerWorks(f)
  PROVE  UploadInv'
<1> USE TheParts
<1>1. UNCHANGED <<session, notice, jobs, queue, upload, batches, creating, monitored, loops,
                  listing, owner, count, unclear, astray>>
  BY DEF ServerWorks
<1>2. /\ status[f] \in {"queued", "active"}
      /\ \/ status' = [status EXCEPT ![f] = "active"] /\ imported' = imported
         \/ status' = status /\ imported' = imported \cup {f}
         \/ status' = [status EXCEPT ![f] = "completed"] /\ imported' = imported /\ f \in imported
         \/ status' = [status EXCEPT ![f] = "error"] /\ imported' = imported
  BY DEF ServerWorks, Server!Work, Server!Start, Server!Append, Server!Complete, Server!Fail, Server!Active
<1>3. f \in Files /\ f \notin Local /\ status \in [Drive -> Statuses]
  BY DriveOnly DEF Typed
<1>4. /\ status' \in [Drive -> Statuses]
      /\ status'[f] # "absent" /\ (status'[f] = "completed" => f \in imported')
      /\ \A g \in Drive : /\ g # f => status'[g] = status[g]
                          /\ status'[g] = "absent" <=> status[g] = "absent"
  BY <1>2, <1>3 DEF Statuses
<1>5. /\ imported \subseteq imported' /\ imported' \subseteq Files
      /\ \A g : g # f => (g \in imported' <=> g \in imported)
  BY <1>2, <1>3 DEF Typed
<1>6. \A g : /\ Working(g)' <=> Working(g)
             /\ Awaited(g)' <=> Awaited(g)
             /\ Reporting(g)' <=> Reporting(g)
  BY <1>1, WorkStays, AwaitedStays, ReportingStays
<1>7. \A g : (Pending(g)' <=> Pending(g)) /\ (Owed(g)' <=> Owed(g))
  BY <1>1, <1>6 DEF Pending, Owed
<1>8. \A g \in Files : Steady(g)
  <2>1. TAKE g \in Files
  <2>2. CASE g = f
    <3>1. AtEnd(f) => f \in unclear
      BY <1>2, <1>3 DEF AtEnd
    <3>2. f \in unclear => AtEnd(f)' /\ f \in Known'
      BY <1>1, <1>3 DEF AtEnd, Known
    <3>. QED
      BY <1>5, <2>2, <3>1, <3>2 DEF Steady
  <2>3. CASE g # f
    <3>1. g \in Local \/ (g \in Drive /\ status'[g] = status[g])
      BY <1>4, <2>3 DEF Files
    <3>2. (AtEnd(g) => AtEnd(g)') /\ (g \in Known => g \in Known')
      BY <1>1, <1>4, <1>6, <2>3, <3>1 DEF AtEnd, Known
    <3>. QED
      BY <1>5, <2>3, <3>2 DEF Steady
  <2>. QED
    BY <2>2, <2>3
<1>9. BatchInv' /\ DisjointInv' /\ PendingInv' /\ NoticeInv'
  <2>1. \A g \in Files : Pending(g)' => Pending(g) /\ g \notin astray'
    BY <1>1, <1>7 DEF PendingInv
  <2>. QED
    BY <1>1, <1>7, <1>8, <2>1, NoneEnds
<1>10. Typed'
  BY <1>1, <1>4, <1>5 DEF Typed
<1>11. QueueInv'
  <2>1. queue \in Seq(Local) /\ upload \in AtWork
    BY DEF Typed
  <2>. QED
    BY <1>1, <1>3, <1>5, <2>1, QueueStays
<1>12. CreatingInv'
  <2>1. \A c \in creating : c.now \in Drive /\ c.rest \subseteq Drive
    BY DEF Typed, CreationType
  <2>. QED
    BY <1>1, <1>4, <2>1 DEF CreatingInv, CreationOK
<1>13. LoopInv'
  <2>1. SUFFICES ASSUME NEW g \in Drive PROVE LoopOK(g)'
    BY DEF LoopInv
  <2>2. LoopOK(g)
    BY DEF LoopInv
  <2>3. CASE g = f
    BY <1>1, <1>4, <1>6, <2>2, <2>3 DEF LoopOK
  <2>4. CASE g # f
    BY <1>1, <1>4, <1>5, <1>6, <2>2, <2>4 DEF LoopOK
  <2>. QED
    BY <2>3, <2>4
<1>. QED
  BY <1>9, <1>10, <1>11, <1>12, <1>13 DEF UploadInv

-----------------------------------------------------------------------------
(* The steps of sessions and pages.                                        *)

\* A step that touches neither files nor batches.
LEMMA RestsInv ==
  ASSUME UploadAssumption, UploadInv, Typed',
         UNCHANGED <<queue, upload, batches, creating, loops, status, imported, unclear, astray>>,
         notice' = notice \/ notice' = NoNotice,
         \A f \in Local : jobs'[f].st = "queued" => jobs[f].st = "queued",
         monitored' \subseteq monitored,
         \A f \in listing'.found : status[f] # "absent"
  PROVE  UploadInv'
<1> USE TheParts
<1>1. \A g : /\ Working(g)' <=> Working(g)
             /\ Awaited(g)' <=> Awaited(g)
             /\ Reporting(g)' <=> Reporting(g)
  BY WorkStays, AwaitedStays, ReportingStays
<1>2. \A g : (Pending(g)' <=> Pending(g)) /\ (Owed(g)' <=> Owed(g)) /\ Steady(g)
  BY <1>1, SteadyAtRest DEF Pending, Owed
<1>3. BatchInv' /\ DisjointInv' /\ PendingInv' /\ (notice' = notice => NoticeInv')
  <2>1. \A g \in Files : Pending(g)' => Pending(g) /\ g \notin astray'
    BY <1>2 DEF PendingInv
  <2>. QED
    BY <1>2, <2>1, NoneEnds
<1>4. NoticeInv'
  <2>1. CASE notice' = NoNotice
    <3>1. Told({}, 0, imported', Known')
      BY ToldOfNone
    <3>2. notice'.files = {} /\ notice'.failed = 0
      BY <2>1 DEF NoNotice
    <3>. QED
      BY <3>1, <3>2 DEF NoticeInv, Fair
  <2>. QED
    BY <1>3, <2>1
<1>5. QueueInv'
  BY DEF QueueInv
<1>6. CreatingInv'
  BY CreatingStays
<1>7. LoopInv'
  <2>1. SUFFICES ASSUME NEW g \in Drive PROVE LoopOK(g)'
    BY DEF LoopInv
  <2>2. LoopOK(g)
    BY DEF LoopInv
  <2>. QED
    BY <1>1, <2>2 DEF LoopOK
<1>. QED
  BY <1>3, <1>4, <1>5, <1>6, <1>7 DEF UploadInv

LEMMA ListServedInv ==
  ASSUME UploadAssumption, UploadInv, ListServed
  PROVE  UploadInv'
<1> USE TheParts
<1>1. UNCHANGED <<session, notice, jobs, queue, upload, batches, creating, monitored, loops, status,
                  imported, owner, unclear, astray>>
  BY DEF ListServed, serverVars
<1>2. listing \in ListType /\ count \in CountType
  BY DEF Typed
<1>3. /\ listing' \in ListType /\ count' \in CountType
      /\ \A f \in listing'.found : status[f] # "absent"
  <2>1. CASE /\ listing' = [listing EXCEPT !.answered = TRUE,
                   !.found = {f \in Drive : owner[f] = listing.user /\ Server!Active(f)}]
             /\ count' = count
    <3>1. PICK F \in SUBSET Drive : F = {f \in Drive : owner[f] = listing.user /\ Server!Active(f)}
      OBVIOUS
    <3>2. listing' = [listing EXCEPT !.answered = TRUE, !.found = F]
      BY <2>1, <3>1
    <3>3. listing' \in ListType /\ listing'.found = F
      BY <1>2, <3>2 DEF ListType
    <3>4. \A f \in F : status[f] # "absent"
      BY <3>1 DEF Server!Active
    <3>. QED
      BY <1>2, <2>1, <3>3, <3>4
  <2>2. CASE CallFails /\ listing' = NoList
    BY <1>2, <2>2, FailsCounted DEF NoList, ListType, Accounts
  <2>. QED
    BY <2>1, <2>2 DEF ListServed
<1>4. Typed'
  BY <1>1, <1>3 DEF Typed
<1>. QED
  BY <1>1, <1>3, <1>4, RestsInv

LEMMA ListAnsweredInv ==
  ASSUME UploadAssumption, UploadInv, ListAnswered
  PROVE  UploadInv'
<1> USE TheParts
<1>1. PICK found \in SUBSET Drive : found = listing.found
  BY DEF Typed, ListType
<1>2. /\ jobs' = [f \in Files |-> IF f \in Local THEN jobs[f]
                                 ELSE IF f \in found THEN [st |-> "uploading", batch |-> {}]
                                 ELSE NoJob]
      /\ loops' = [f \in Drive |-> IF f \in found \ monitored THEN Append(loops[f], FALSE)
                                   ELSE loops[f]]
      /\ monitored' = monitored \cup found
      /\ listing' = NoList
      /\ UNCHANGED <<session, notice, queue, upload, batches, creating, status, imported, owner, count,
                     unclear, astray>>
  BY <1>1 DEF ListAnswered, serverVars
<1>3. \A f \in found : status[f] # "absent"
  BY <1>1 DEF LoopInv, LoopOK
<1>4. \A f \in Drive : /\ loops'[f] \in Seq(BOOLEAN) /\ OneReports(loops'[f])
                       /\ Reports(loops'[f]) <=> Reports(loops[f])
                       /\ f \notin found => loops'[f] = loops[f]
  <2>1. TAKE f \in Drive
  <2>2. loops[f] \in Seq(BOOLEAN) /\ OneReports(loops[f])
    BY DEF Typed, LoopInv, LoopOK, OneReports
  <2>3. PICK x \in BOOLEAN : x = FALSE
    OBVIOUS
  <2>4. /\ Append(loops[f], x) \in Seq(BOOLEAN) /\ OneReports(Append(loops[f], x))
        /\ Reports(Append(loops[f], x)) <=> Reports(loops[f])
    BY <2>2, <2>3, LoopStarts
  <2>5. loops'[f] = IF f \in found \ monitored THEN Append(loops[f], x) ELSE loops[f]
    BY <1>2, <2>3
  <2>. QED
    BY <2>2, <2>4, <2>5
<1>5. \A g : (Working(g)' <=> Working(g)) /\ (Awaited(g)' <=> Awaited(g))
  BY <1>2, WorkStays, AwaitedStays
<1>6. \A g : Reporting(g)' <=> Reporting(g)
  BY <1>4 DEF Reporting, Reports
<1>7. \A g : (Pending(g)' <=> Pending(g)) /\ (Owed(g)' <=> Owed(g)) /\ Steady(g)
  BY <1>2, <1>5, <1>6, SteadyAtRest DEF Pending, Owed
<1>8. BatchInv' /\ DisjointInv' /\ PendingInv' /\ NoticeInv'
  <2>1. \A g \in Files : Pending(g)' => Pending(g) /\ g \notin astray'
    BY <1>2, <1>7 DEF PendingInv
  <2>. QED
    BY <1>2, <1>7, <2>1, NoneEnds
<1>9. jobs' \in [Files -> JobType] /\ \A f \in Local : jobs'[f] = jobs[f]
  <2>1. [st |-> "uploading", batch |-> {}] \in JobType /\ NoJob \in JobType
    BY DEF JobType, NoJob
  <2>2. jobs \in [Files -> JobType]
    BY DEF Typed
  <2>. QED
    BY <1>2, <2>1, <2>2 DEF Files
<1>10. Typed'
  <2>1. loops' \in [Drive -> Seq(BOOLEAN)]
    BY <1>2, <1>4
  <2>2. listing' \in ListType /\ monitored' \subseteq Drive
    BY <1>1, <1>2 DEF Typed, NoList, ListType, Accounts
  <2>. QED
    BY <1>2, <1>9, <2>1, <2>2 DEF Typed
<1>11. QueueInv'
  <2>1. queue \in Seq(Local) /\ upload \in AtWork
    BY DEF Typed
  <2>. QED
    BY <1>2, <1>9, <2>1, QueueStays
<1>12. CreatingInv'
  BY <1>2, CreatingStays
<1>13. LoopInv'
  <2>1. SUFFICES ASSUME NEW g \in Drive PROVE LoopOK(g)'
    BY DEF LoopInv
  <2>2. LoopOK(g) /\ OneReports(loops'[g])
    BY <1>4 DEF LoopInv
  <2>3. Reporting(g)' => ~Awaited(g)'
    BY <1>5, <1>6, <2>2 DEF LoopOK
  <2>4. status'[g] = "absent" =>
          loops'[g] = <<>> /\ g \notin monitored' /\ g \notin imported' /\ g \notin listing'.found
    BY <1>2, <1>3, <1>4, <2>2 DEF LoopOK, NoList
  <2>5. status'[g] = "completed" => g \in imported'
    BY <1>2, <2>2 DEF LoopOK
  <2>. QED
    BY <2>2, <2>3, <2>4, <2>5 DEF LoopOK, OneReports
<1>. QED
  BY <1>8, <1>10, <1>11, <1>12, <1>13 DEF UploadInv

LEMMA SessionChangesInv ==
  ASSUME UploadAssumption, UploadInv, NEW u \in Accounts, SessionChanges(u)
  PROVE  UploadInv'
<1> USE TheParts
<1>1. /\ count.pages < MaxPages /\ count' = [count EXCEPT !.pages = @ + 1] /\ session' = u
      /\ monitored' = {} /\ notice' = NoNotice /\ listing' = [NoList EXCEPT !.user = u]
      /\ jobs' = [f \in Files |-> IF f \in Local /\ jobs[f].st \in {"queued", "uploading"}
                                 THEN jobs[f] ELSE NoJob]
      /\ UNCHANGED <<queue, upload, batches, creating, loops, status, imported, owner, unclear, astray>>
  BY DEF SessionChanges, serverVars
<1>2. count' \in CountType
  BY <1>1, PagesCounted DEF Typed
<1>3. listing' \in ListType /\ listing'.found = {}
  BY <1>1 DEF NoList, ListType
<1>4. jobs' \in [Files -> JobType]
  <2>1. NoJob \in JobType /\ jobs \in [Files -> JobType]
    BY DEF JobType, NoJob, Typed
  <2>. QED
    BY <1>1, <2>1
<1>5. notice' \in NoticeType
  <2>1. Cardinality(Files) \in Nat
    BY SomeFiles
  <2>. QED
    BY <1>1, <2>1 DEF NoNotice, NoticeType
<1>6. Typed'
  BY <1>1, <1>2, <1>3, <1>4, <1>5 DEF Typed
<1>7. \A f \in Local : jobs'[f].st = "queued" => jobs[f].st = "queued"
  BY <1>1 DEF NoJob, Files
<1>. QED
  BY <1>1, <1>3, <1>6, <1>7, RestsInv

LEMMA ReloadInv ==
  ASSUME UploadAssumption, UploadInv, Reload
  PROVE  UploadInv'
<1> USE TheParts
<1>1. /\ count.pages < MaxPages /\ count' = [count EXCEPT !.pages = @ + 1]
      /\ jobs' = [f \in Files |-> NoJob]
      /\ queue' = <<>> /\ upload' = AtRest
      /\ batches' = {} /\ creating' = {}
      /\ monitored' = {} /\ loops' = [f \in Drive |-> <<>>]
      /\ notice' = NoNotice
      /\ listing' = [NoList EXCEPT !.user = session]
      /\ astray' = astray \cup UNION {b.files : b \in batches}
      /\ UNCHANGED <<session, status, imported, owner, unclear>>
  BY DEF Reload, serverVars
<1>2. Typed'
  <2>1. count' \in CountType
    BY <1>1, PagesCounted DEF Typed
  <2>2. jobs' \in [Files -> JobType]
    <3>1. NoJob \in JobType
      BY DEF JobType, NoJob
    <3>. QED
      BY <1>1, <3>1
  <2>3. upload' \in AtWork /\ queue' \in Seq(Local) /\ loops' \in [Drive -> Seq(BOOLEAN)]
    BY <1>1 DEF AtRest, AtWork
  <2>4. notice' \in NoticeType
    <3>1. Cardinality(Files) \in Nat
      BY SomeFiles
    <3>. QED
      BY <1>1, <3>1 DEF NoNotice, NoticeType
  <2>5. listing' \in ListType
    BY <1>1 DEF NoList, ListType, Typed
  <2>6. astray' \subseteq Files
    <3>1. \A b \in batches : b.files \subseteq Files
      BY DEF BatchType
    <3>. QED
      BY <1>1, <3>1 DEF Typed
  <2>. QED
    BY <1>1, <2>1, <2>2, <2>3, <2>4, <2>5, <2>6 DEF Typed
<1>3. BatchInv' /\ DisjointInv'
  BY <1>1 DEF BatchInv, DisjointInv
<1>4. NoticeInv'
  <2>1. Told({}, 0, imported', Known')
    BY ToldOfNone
  <2>2. notice'.files = {} /\ notice'.failed = 0
    BY <1>1 DEF NoNotice
  <2>. QED
    BY <2>1, <2>2 DEF NoticeInv, Fair
<1>5. \A g \in Drive : ~Reporting(g)'
  BY <1>1 DEF Reporting
<1>6. PendingInv'
  <2>1. \A g \in Files : ~Working(g)' /\ ~Awaited(g)'
    BY <1>1 DEF Working, Awaited, AtRest, UploadAssumption
  <2>2. \A g : Reporting(g)' => g \in Drive
    BY DEF Reporting
  <2>. QED
    BY <1>5, <2>1, <2>2 DEF PendingInv, Pending
<1>7. QueueInv'
  BY <1>1 DEF QueueInv, AtRest, NoJob, Files
<1>8. CreatingInv'
  BY <1>1 DEF CreatingInv
<1>9. LoopInv'
  <2>1. SUFFICES ASSUME NEW g \in Drive PROVE LoopOK(g)'
    BY DEF LoopInv
  <2>2. LoopOK(g)
    BY DEF LoopInv
  <2>3. loops'[g] = <<>> /\ g \notin monitored' /\ listing'.found = {}
    BY <1>1 DEF NoList
  <2>. QED
    BY <1>1, <1>5, <2>2, <2>3 DEF LoopOK
<1>. QED
  BY <1>2, <1>3, <1>4, <1>6, <1>7, <1>8, <1>9 DEF UploadInv

LEMMA DismissUploadJobsInv ==
  ASSUME UploadAssumption, UploadInv, NEW fs \in SUBSET Files, DismissUploadJobs(fs)
  PROVE  UploadInv'
<1> USE TheParts
<1>1. /\ jobs' = [f \in Files |-> IF f \in fs THEN NoJob ELSE jobs[f]]
      /\ UNCHANGED <<session, notice, queue, upload, batches, creating, monitored, loops, listing,
                     status, imported, owner, count, unclear, astray>>
  BY DEF DismissUploadJobs, serverVars
<1>2. jobs' \in [Files -> JobType]
  <2>1. NoJob \in JobType /\ jobs \in [Files -> JobType]
    BY DEF JobType, NoJob, Typed
  <2>. QED
    BY <1>1, <2>1
<1>3. Typed'
  BY <1>1, <1>2 DEF Typed
<1>4. \A f \in Local : jobs'[f].st = "queued" => jobs[f].st = "queued"
  BY <1>1 DEF NoJob, Files
<1>5. \A f \in listing'.found : status[f] # "absent"
  <2>1. listing.found \subseteq Drive
    BY DEF Typed, ListType
  <2>. QED
    BY <1>1, <2>1 DEF LoopInv, LoopOK
<1>. QED
  BY <1>1, <1>3, <1>4, <1>5, RestsInv

LEMMA UploadStutterInv ==
  ASSUME UploadAssumption, UploadInv, UNCHANGED uploadVars
  PROVE  UploadInv'
<1> USE TheParts
<1>1. UNCHANGED <<session, notice, jobs, queue, upload, batches, creating, monitored, loops, listing,
                  status, imported, owner, count, unclear, astray>>
  BY DEF uploadVars
<1>2. Typed'
  BY <1>1 DEF Typed
<1>3. \A f \in listing'.found : status[f] # "absent"
  <2>1. listing.found \subseteq Drive
    BY DEF Typed, ListType
  <2>. QED
    BY <1>1, <2>1 DEF LoopInv, LoopOK
<1>. QED
  BY <1>1, <1>2, <1>3, RestsInv

LEMMA UploadNextInv ==
  ASSUME UploadAssumption, UploadInv, UploadNext
  PROVE  UploadInv'
<1>1. CASE \E fs \in SUBSET Local : EnqueueArtworkFiles(fs)
  BY <1>1, EnqueueArtworkFilesInv
<1>2. CASE NextFile \/ FilesStored \/ ImagesAppended \/ UploadCompletes \/ UploadFails
  BY <1>2, NextFileInv, FilesStoredInv, ImagesAppendedInv, UploadCompletesInv, UploadFailsInv
<1>3. CASE \E f \in Local : RemoveQueuedUpload(f)
  BY <1>3, RemoveQueuedUploadInv
<1>4. CASE \E fs \in SUBSET Drive : \E f \in fs : EnqueueOneDriveFiles(fs, f)
  BY <1>4, EnqueueOneDriveFilesInv
<1>5. CASE \E c \in creating : ImportInserted(c) \/ ImportCreated(c) \/ CreationFails(c)
  BY <1>5, ImportInsertedInv, ImportCreatedInv, CreationFailsInv
<1>6. CASE \E l \in Loops : Poll(l[1], l[2]) \/ PollStops(l[1], l[2])
  <2>1. PICK l \in Loops : Poll(l[1], l[2]) \/ PollStops(l[1], l[2])
    BY <1>6
  <2>2. Loops = UNION {{f} \X DOMAIN loops[f] : f \in Drive}
    BY DEF Loops
  <2>3. PICK f \in Drive : l \in {f} \X DOMAIN loops[f]
    BY <2>1, <2>2
  <2>4. PICK k \in DOMAIN loops[f] : l = <<f, k>>
    BY <2>3
  <2>5. Poll(f, k) \/ PollStops(f, k)
    BY <2>1, <2>4
  <2>. QED
    BY <2>5, PollInv, PollStopsInv
<1>7. CASE \E f \in Drive : ServerWorks(f)
  BY <1>7, ServerWorksInv
<1>8. CASE ListServed \/ ListAnswered
  BY <1>8, ListServedInv, ListAnsweredInv
<1>9. CASE \E u \in People \cup {None} : SessionChanges(u)
  BY <1>9, SessionChangesInv DEF Accounts
<1>10. CASE Reload
  BY <1>10, ReloadInv
<1>11. CASE \E fs \in SUBSET Files : DismissUploadJobs(fs)
  BY <1>11, DismissUploadJobsInv
<1>. QED
  BY <1>1, <1>2, <1>3, <1>4, <1>5, <1>6, <1>7, <1>8, <1>9, <1>10, <1>11 DEF UploadNext

-----------------------------------------------------------------------------
(* The theorems.                                                           *)

\* UploadInv holds throughout: a batch counts the files whose end is still to
\* come or was lost, and what it says of the others is true
\* (recordBatchCompletion).
THEOREM UploadsHold == ASSUME UploadAssumption PROVE UploadSpec => []UploadInv
<1>1. UploadInit => UploadInv
  BY UploadInitInv
<1>2. UploadInv /\ [UploadNext]_uploadVars => UploadInv'
  BY UploadNextInv, UploadStutterInv
<1>. QED
  BY <1>1, <1>2, PTL DEF UploadSpec

\* The variables of the uploads have their types; a batch never counts more
\* files or failures than there are.
THEOREM UploadsTyped == ASSUME UploadAssumption PROVE UploadSpec => []UploadTypeOK
<1>1. UploadInv => UploadTypeOK
  BY DEF UploadInv, Typed, UploadTypeOK, Accounts, JobType, AtWork, BatchType, CreationType, ListType,
         Statuses, CountType, NoticeType
<1>. QED
  BY <1>1, UploadsHold, PTL

\* What the notice at the end of a batch says is true, whichever way its files
\* ended and in whatever order: that they have, and how many were uploaded.
THEOREM NoticesAreTrue == ASSUME UploadAssumption PROVE UploadSpec => []NoticeIsTrue
<1>1. ASSUME UploadInv PROVE NoticeIsTrue
  <2>1. NoticeInv /\ notice \in NoticeType /\ queue \in Seq(Local)
    BY <1>1, TheParts DEF Typed
  <2>2. ASSUME NEW f \in notice.files
        PROVE  IF f \in Local THEN f # upload.file /\ f \notin ToSet(queue)
               ELSE f \in unclear \/ ~Server!Active(f)
    <3>1. AtEnd(f)
      BY <2>1, <2>2 DEF NoticeInv
    <3>2. CASE f \in Local
      <4>1. f # upload.file /\ ~\E k \in DOMAIN queue : queue[k] = f
        BY <3>1, <3>2 DEF AtEnd, Working
      <4>2. f \notin ToSet(queue)
        BY <2>1, <4>1 DEF ToSet
      <4>. QED
        BY <3>2, <4>1, <4>2
    <3>3. CASE f \notin Local
      BY <3>1, <3>3 DEF AtEnd, Server!Active
    <3>. QED
      BY <3>2, <3>3
  <2>3. Told(notice.files, notice.failed, imported, Known)
    BY <2>1 DEF NoticeInv, Fair
  <2>. QED
    BY <2>2, <2>3 DEF NoticeIsTrue, Told, Known
<1>2. UploadInv => NoticeIsTrue
  BY <1>1
<1>. QED
  BY <1>2, UploadsHold, PTL

=============================================================================
