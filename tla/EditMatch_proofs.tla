---------------------------- MODULE EditMatch_proofs ----------------------------
(***************************************************************************)
(* Proofs about texts (Texts) and about the Edit tool (EditMatch): for     *)
(* every file, old_string and new_string, what an edit replaces is one     *)
(* place of the file, and like what it was asked to replace.               *)
(***************************************************************************)
EXTENDS EditMatch, SequenceTheorems, FiniteSetTheorems, WellFoundedInduction, TLAPS

-----------------------------------------------------------------------------
(* Numbers and places.                                                     *)

Below == {ss \in Nat \X Nat : ss[1] < ss[2]}

\* A set of naturals that is not empty has a least element.
LEMMA LeastNatural ==
  ASSUME NEW T, T \subseteq Nat, T # {}
  PROVE  \E x \in T : \A y \in T : x <= y
<1>1. IsWellFoundedOn(Below, Nat)
  BY NatLessThanWellFounded DEF OpToRel, Below
<1>2. PICK x \in T : \A y \in T : ~(<<y, x>> \in Below)
  BY <1>1, WFMin
<1>3. ASSUME NEW y \in T
      PROVE  x <= y
  <2>1. <<y, x>> \in Nat \X Nat /\ x \in Nat /\ y \in Nat
    OBVIOUS
  <2>2. ~(y < x)
    BY <1>2, <2>1 DEF Below
  <2>3. QED
    BY <2>1, <2>2
<1>4. QED
  BY <1>3

\* Induction: a set with 0 and every successor of its members has every natural.
LEMMA SetInduction ==
  ASSUME NEW S, 0 \in S, \A n \in Nat : n \in S => n + 1 \in S
  PROVE  Nat \subseteq S
<1>1. SUFFICES ASSUME Nat \ S # {} PROVE FALSE
  OBVIOUS
<1>2. PICK x \in Nat \ S : \A y \in Nat \ S : x <= y
  BY <1>1, LeastNatural
<1>3. x # 0 /\ x - 1 \in Nat
  BY <1>2
<1>4. x - 1 \in S
  BY <1>2, <1>3
<1>5. QED
  BY <1>2, <1>3, <1>4

\* The least of a set of places.
LEMMA LeastPlace ==
  ASSUME NEW S, S # {}, S \subseteq Nat
  PROVE  Min(S) \in S /\ \A y \in S : Min(S) <= y
BY LeastNatural DEF Min

\* And the greatest of a bounded one.
LEMMA GreatestPlace ==
  ASSUME NEW n \in Nat, NEW S, S # {}, S \subseteq 0..n
  PROVE  Max(S) \in S /\ \A y \in S : Max(S) >= y
<1> DEFINE T == {k \in Nat : n - k \in S}
<1>1. PICK s : s \in S
  OBVIOUS
<1>2. n - s \in Nat /\ n - (n - s) = s
  BY <1>1
<1>3. T # {}
  BY <1>1, <1>2
<1>4. PICK k \in T : \A j \in T : k <= j
  BY <1>3, LeastNatural
<1>5. ASSUME NEW y \in S
      PROVE  n - k >= y
  <2>1. y \in 0..n /\ n - y \in Nat /\ n - (n - y) = y
    OBVIOUS
  <2>2. n - y \in T
    BY <2>1
  <2>3. k \in Nat /\ k <= n - y
    BY <1>4, <2>2
  <2>4. QED
    BY <2>1, <2>3
<1>6. \E x \in S : \A y \in S : x >= y
  BY <1>4, <1>5
<1>7. QED
  BY <1>6 DEF Max

-----------------------------------------------------------------------------
(* Pieces of texts, and what of them is not blank.                         *)

\* t is what s has from place a to place b.
IsPiece(t, s, a, b, T) ==
  t \in Seq(T) /\ Len(t) = b - a + 1 /\ \A k \in 1..(b - a + 1) : t[k] = s[a + k - 1]

\* A piece of a sequence has its elements at their places.
LEMMA PieceIs ==
  ASSUME NEW T, NEW s \in Seq(T), NEW a \in 1..(Len(s) + 1), NEW b \in (a - 1)..Len(s)
  PROVE  IsPiece(SubSeq(s, a, b), s, a, b, T)
<1>1. Len(s) \in Nat /\ \A i \in 1..Len(s) : s[i] \in T
  OBVIOUS
<1>2. \A i \in a..b : i \in 1..Len(s)
  BY <1>1
<1>3. SubSeq(s, a, b) \in Seq(T)
  BY <1>1, <1>2, SubSeqProperties
<1>4. Len(SubSeq(s, a, b)) = b - a + 1
  BY <1>1, <1>2, SubSeqProperties
<1>5. \A k \in 1..(b - a + 1) : SubSeq(s, a, b)[k] = s[a + k - 1]
  BY <1>1, <1>2, SubSeqProperties
<1>6. QED
  BY <1>3, <1>4, <1>5 DEF IsPiece

Solid(s) == {i \in DOMAIN s : s[i] \notin Blank}

\* The places that are not blank, and the first and the last of them.
LEMMA SolidPlaces ==
  ASSUME NEW T, NEW s \in Seq(T)
  PROVE  /\ Len(s) \in Nat /\ Solid(s) \subseteq 1..Len(s)
         /\ \A i : i \in Solid(s) <=> i \in 1..Len(s) /\ s[i] \notin Blank
         /\ Solid(s) # {} =>
              /\ Min(Solid(s)) \in Solid(s) /\ Max(Solid(s)) \in Solid(s)
              /\ \A i \in Solid(s) : Min(Solid(s)) <= i /\ i <= Max(Solid(s))
<1>1. Len(s) \in Nat /\ DOMAIN s = 1..Len(s)
  OBVIOUS
<1>2. /\ Solid(s) \subseteq 1..Len(s)
      /\ \A i : i \in Solid(s) <=> i \in 1..Len(s) /\ s[i] \notin Blank
  BY <1>1 DEF Solid
<1>3. Solid(s) \subseteq Nat /\ Solid(s) \subseteq 0..Len(s)
  BY <1>1, <1>2
<1>4. QED
  BY <1>1, <1>2, <1>3, LeastPlace, GreatestPlace

-----------------------------------------------------------------------------
(* Sequences put together.                                                 *)

\* FlattenSeq's recursive function on the sequence of sequences p, up to n.
FlatStep(f, p, i) == IF i = 1 THEN p[i] ELSE f[i - 1] \o p[i]
Flattens(f, p, n) == f = [i \in 1..n |-> FlatStep(f, p, i)]

\* Its value at a position, that it exists, and that FlattenSeq is its last value.
LEMMA FlattensAt ==
  ASSUME NEW f, NEW p, NEW n, Flattens(f, p, n), NEW i \in 1..n
  PROVE  f[i] = FlatStep(f, p, i)
BY DEF Flattens

\* The recursive function of FlattenSeq exists on every prefix.
LEMMA FlattensExists ==
  ASSUME NEW p, NEW n \in Nat
  PROVE  \E f : Flattens(f, p, n)
<1> DEFINE S == {m \in Nat : \E f : Flattens(f, p, m)}
<1>1. 0 \in S
  <2>1. Flattens([i \in 1..0 |-> 0], p, 0)
    BY DEF Flattens
  <2>2. QED
    BY <2>1
<1>2. ASSUME NEW m \in Nat, m \in S
      PROVE  m + 1 \in S
  <2>1. PICK f : Flattens(f, p, m)
    BY <1>2
  <2> DEFINE g == [i \in 1..(m + 1) |-> FlatStep(f, p, i)]
  <2>2. \A i \in 1..m : i \in 1..(m + 1) /\ f[i] = g[i]
    BY <2>1, FlattensAt
  <2>3. \A i \in 1..(m + 1) : FlatStep(f, p, i) = FlatStep(g, p, i)
    <3> HIDE DEF g
    <3>1. \A i \in 1..(m + 1) : i # 1 => i - 1 \in 1..m
      OBVIOUS
    <3>2. QED
      BY <2>2, <3>1 DEF FlatStep
  <2>4. Flattens(g, p, m + 1)
    BY <2>3 DEF Flattens
  <2>5. QED
    BY <2>4
<1>3. Nat \subseteq S
  <2> HIDE DEF S
  <2>1. QED
    BY <1>1, <1>2, SetInduction
<1>4. QED
  BY <1>3

\* FlattenSeq is the last value of its recursive function.
LEMMA FlattenSeqFlattens ==
  ASSUME NEW p, Len(p) \in Nat \ {0}
  PROVE  \E f : Flattens(f, p, Len(p)) /\ FlattenSeq(p) = f[Len(p)]
<1>1. \E f : Flattens(f, p, Len(p))
  BY FlattensExists
<1> DEFINE f == CHOOSE f : Flattens(f, p, Len(p))
<1>2. Flattens(f, p, Len(p))
  BY <1>1
<1>3. FlattenSeq(p) = f[Len(p)]
  BY DEF FlattenSeq, Flattens, FlatStep
<1>4. QED
  BY <1>2, <1>3

\* It depends on the parts up to n only.
LEMMA FlattensAgree ==
  ASSUME NEW p, NEW q, NEW m \in Nat, NEW n \in Nat, m <= n, NEW f, NEW g,
         Flattens(f, p, m), Flattens(g, q, n),
         \A i \in 1..m : p[i] = q[i]
  PROVE  \A i \in 1..m : f[i] = g[i]
<1> DEFINE S == {k \in Nat : k \in 1..m => f[k] = g[k]}
<1>1. 0 \in S
  OBVIOUS
<1>2. ASSUME NEW k \in Nat, k \in S
      PROVE  k + 1 \in S
  <2> SUFFICES ASSUME k + 1 \in 1..m PROVE f[k + 1] = g[k + 1]
    OBVIOUS
  <2>1. k + 1 \in 1..n
    OBVIOUS
  <2>2. f[k + 1] = FlatStep(f, p, k + 1) /\ g[k + 1] = FlatStep(g, q, k + 1)
    BY <2>1, FlattensAt
  <2>3. k + 1 # 1 => k \in 1..m /\ k + 1 - 1 = k
    OBVIOUS
  <2>4. QED
    BY <1>2, <2>2, <2>3 DEF FlatStep
<1>3. Nat \subseteq S
  <2> HIDE DEF S
  <2>1. QED
    BY <1>1, <1>2, SetInduction
<1>4. QED
  BY <1>3

\* Flattening sequences over T gives sequences over T.
LEMMA FlattensType ==
  ASSUME NEW T, NEW n \in Nat, NEW p, NEW f,
         \A i \in 1..n : p[i] \in Seq(T), Flattens(f, p, n)
  PROVE  \A i \in 1..n : f[i] \in Seq(T)
<1> DEFINE S == {k \in Nat : k \in 1..n => f[k] \in Seq(T)}
<1>1. 0 \in S
  OBVIOUS
<1>2. ASSUME NEW k \in Nat, k \in S
      PROVE  k + 1 \in S
  <2> SUFFICES ASSUME k + 1 \in 1..n PROVE f[k + 1] \in Seq(T)
    OBVIOUS
  <2>1. f[k + 1] = FlatStep(f, p, k + 1)
    BY FlattensAt
  <2>2. k + 1 # 1 => k \in 1..n /\ k + 1 - 1 = k
    OBVIOUS
  <2>3. QED
    BY <1>2, <2>1, <2>2 DEF FlatStep
<1>3. Nat \subseteq S
  <2> HIDE DEF S
  <2>1. QED
    BY <1>1, <1>2, SetInduction
<1>4. QED
  BY <1>3

\* What flattening one sequence more does.
Longer(g, m, f, n, q) == g[m] = f[n] \o q[m]

\* Flattening a longer sequence goes on where the prefix ended.
LEMMA FlattensExtend ==
  ASSUME NEW n \in Nat \ {0}, NEW m, m = n + 1, NEW p, NEW q, NEW f, NEW g,
         Flattens(f, p, n), Flattens(g, q, m),
         \A i \in 1..n : p[i] = q[i]
  PROVE  Longer(g, m, f, n, q)
<1>1. \A i \in 1..n : f[i] = g[i]
  <2>1. n <= m /\ n \in Nat /\ m \in Nat
    OBVIOUS
  <2>2. QED
    BY <2>1, FlattensAgree
<1>2. m \in 1..m /\ n \in 1..n /\ m # 1 /\ m - 1 = n
  OBVIOUS
<1>3. g[m] = FlatStep(g, q, m)
  BY <1>2, FlattensAt
<1>4. FlatStep(g, q, m) = g[m - 1] \o q[m]
  BY <1>2, Zenon DEF FlatStep
<1>5. QED
  BY <1>1, <1>2, <1>3, <1>4 DEF Longer

IsConcat(a, b, c) == a = b \o c

\* Flattening sequence by sequence.
LEMMA FlattenSeqExtend ==
  ASSUME NEW T, NEW n \in Nat, NEW m, m = n + 1, NEW p, NEW q,
         Len(p) = n, Len(q) = m, n = 0 => p = <<>>,
         \A i \in 1..n : p[i] = q[i], \A i \in 1..n : p[i] \in Seq(T), q[m] \in Seq(T)
  PROVE  FlattenSeq(p) \in Seq(T) /\ IsConcat(FlattenSeq(q), FlattenSeq(p), q[m])
<1>1. Len(q) \in Nat \ {0}
  OBVIOUS
<1>2. PICK g : Flattens(g, q, m) /\ FlattenSeq(q) = g[m]
  BY <1>1, FlattenSeqFlattens
<1>3. CASE n = 0
  <2>1. FlattenSeq(p) = <<>>
    BY <1>3 DEF FlattenSeq
  <2>2. g[m] = FlatStep(g, q, m)
    <3>1. m \in 1..m
      OBVIOUS
    <3>2. QED
      BY <1>2, <3>1, FlattensAt
  <2>3. FlattenSeq(q) = q[m]
    BY <1>2, <1>3, <2>2 DEF FlatStep
  <2>4. QED
    BY <2>1, <2>3 DEF IsConcat
<1>4. CASE n # 0
  <2>1. PICK f : Flattens(f, p, n) /\ FlattenSeq(p) = f[n]
    BY <1>4, FlattenSeqFlattens
  <2>2. n \in 1..n
    BY <1>4
  <2>3. f[n] \in Seq(T)
    BY <2>1, <2>2, FlattensType
  <2>4. g[m] = f[n] \o q[m]
    <3>1. Longer(g, m, f, n, q)
      BY <1>2, <1>4, <2>1, FlattensExtend
    <3>2. QED
      BY <3>1 DEF Longer
  <2>5. QED
    BY <1>2, <2>1, <2>3, <2>4 DEF IsConcat
<1>5. QED
  BY <1>3, <1>4

\* The parts of a sequence that is not empty.
LEMMA FrontLast ==
  ASSUME NEW T, NEW s \in Seq(T), s # <<>>
  PROVE  Front(s) \in Seq(T) /\ Last(s) \in T
<1>1. Len(s) \in Nat \ {0}
  BY EmptySeq
<1>2. PICK l : l = Len(s) - 1
  OBVIOUS
<1>3. 1 \in 1..(Len(s) + 1) /\ l \in (1 - 1)..Len(s) /\ Len(s) \in 1..Len(s)
  BY <1>1, <1>2
<1>4. IsPiece(SubSeq(s, 1, l), s, 1, l, T)
  BY <1>3, PieceIs
<1>5. QED
  BY <1>2, <1>3, <1>4 DEF Front, Last, IsPiece

\* Appending keeps the type and leaves something.
LEMMA AppendType ==
  ASSUME NEW T, NEW s \in Seq(T), NEW e \in T
  PROVE  Append(s, e) \in Seq(T) /\ Append(s, e) # <<>>
<1>1. Append(s, e) \in Seq(T)
  OBVIOUS
<1>2. Len(Append(s, e)) = Len(s) + 1 /\ Len(s) \in Nat
  OBVIOUS
<1>3. Len(<<>>) = 0
  BY EmptySeq
<1>4. QED
  BY <1>1, <1>2, <1>3

(* Sequences member by member.                                             *)

\* Induction over sequences: a set with <<>> that is closed under Append has all.
LEMMA SeqInduction ==
  ASSUME NEW T, NEW S, <<>> \in S, \A s \in Seq(T), e \in T : s \in S => Append(s, e) \in S
  PROVE  Seq(T) \subseteq S
<1> DEFINE N == {n \in Nat : \A s \in Seq(T) : Len(s) = n => s \in S}
<1>1. 0 \in N
  BY EmptySeq
<1>2. ASSUME NEW n \in Nat, n \in N
      PROVE  n + 1 \in N
  <2> SUFFICES ASSUME NEW s \in Seq(T), Len(s) = n + 1
               PROVE  s \in S
    OBVIOUS
  <2>1. s # <<>>
    BY <1>2, EmptySeq
  <2>2. PICK f \in Seq(T), e \in T : s = Append(f, e)
    BY <2>1, SequenceEmptyOrAppend
  <2>3. Len(f) = n
    <3>1. Len(s) = Len(f) + 1 /\ Len(f) \in Nat
      BY <2>2, AppendProperties
    <3>2. QED
      BY <1>2, <3>1
  <2>4. QED
    BY <1>2, <2>2, <2>3
<1>3. Nat \subseteq N
  <2> HIDE DEF N
  <2>1. QED
    BY <1>1, <1>2, SetInduction
<1>4. QED
  BY <1>3

\* A function on the places of a sequence is a sequence.
LEMMA IsSequence ==
  ASSUME NEW T, NEW n \in Nat, NEW p, DOMAIN p = 1..n, p \in [1..n -> T]
  PROVE  p \in Seq(T) /\ Len(p) = n
BY SeqDef

\* The front and the last of a sequence with one member more.
LEMMA FrontOfAppend ==
  ASSUME NEW T, NEW s \in Seq(T), NEW e \in T
  PROVE  Front(Append(s, e)) = s /\ Last(Append(s, e)) = e
<1>1. PICK r : r = Append(s, e)
  OBVIOUS
<1>2. PICK n : n = Len(s)
  OBVIOUS
<1>3. /\ r \in Seq(T) /\ n \in Nat /\ Len(r) = n + 1 /\ r[n + 1] = e
      /\ \A i \in 1..n : r[i] = s[i]
  BY <1>1, <1>2, AppendProperties
<1>4. Last(r) = e
  BY <1>3 DEF Last
<1>5. Front(r) = SubSeq(r, 1, n)
  BY <1>3 DEF Front
<1>6. IsPiece(SubSeq(r, 1, n), r, 1, n, T)
  <2>1. 1 \in 1..(Len(r) + 1) /\ n \in (1 - 1)..Len(r)
    BY <1>3
  <2>2. QED
    BY <1>3, <2>1, PieceIs
<1>7. PICK f : f = SubSeq(r, 1, n)
  OBVIOUS
<1>8. f \in Seq(T) /\ Len(f) = n /\ \A i \in 1..n : f[i] = r[i]
  <2>1. n - 1 + 1 = n /\ \A i \in 1..n : 1 + i - 1 = i
    BY <1>3
  <2>2. QED
    BY <1>6, <1>7, <2>1 DEF IsPiece
<1>9. f = s
  <2>1. Len(f) = Len(s) /\ \A i \in 1..Len(f) : f[i] = s[i]
    BY <1>2, <1>3, <1>8
  <2>2. QED
    BY <1>8, <2>1, SeqEqual
<1>10. QED
  BY <1>1, <1>4, <1>5, <1>7, <1>9

\* A sequence with one member more at the end of another.
LEMMA ConcatAppend ==
  ASSUME NEW T, NEW a \in Seq(T), NEW b \in Seq(T), NEW e \in T
  PROVE  IsConcat(Append(a \o b, e), a, Append(b, e))
<1>1. Append(b, e) = b \o <<e>> /\ <<e>> \in Seq(T) /\ a \o b \in Seq(T)
  BY AppendIsConcat
<1>2. Append(a \o b, e) = (a \o b) \o <<e>>
  BY <1>1, AppendIsConcat
<1>3. (a \o b) \o <<e>> = a \o (b \o <<e>>)
  BY <1>1, ConcatAssociative
<1>4. QED
  BY <1>1, <1>2, <1>3 DEF IsConcat

\* Flattening sequences of T gives a sequence of T.
LEMMA FlattenSeqType ==
  ASSUME NEW T, NEW p \in Seq(Seq(T))
  PROVE  FlattenSeq(p) \in Seq(T)
<1>1. CASE Len(p) = 0
  <2>1. p = <<>>
    BY <1>1, EmptySeq
  <2>2. QED
    BY <1>1, <2>1 DEF FlattenSeq
<1>2. CASE Len(p) # 0
  <2>1. Len(p) \in Nat \ {0} /\ Len(p) \in 1..Len(p) /\ \A i \in 1..Len(p) : p[i] \in Seq(T)
    BY <1>2
  <2>2. PICK f : Flattens(f, p, Len(p)) /\ FlattenSeq(p) = f[Len(p)]
    BY <2>1, FlattenSeqFlattens
  <2>3. \A i \in 1..Len(p) : f[i] \in Seq(T)
    BY <2>1, <2>2, FlattensType
  <2>4. QED
    BY <2>1, <2>2, <2>3
<1>3. QED
  BY <1>1, <1>2

-----------------------------------------------------------------------------
(* What is kept of a sequence.                                             *)

Keeps(e, S)   == IF e \in S THEN <<e>> ELSE <<>>
KeptOf(s, S)  == [i \in DOMAIN s |-> Keeps(s[i], S)]

\* Kept is the elements of S, each as a sequence, flattened.
LEMMA KeptIs == \A s, S : Kept(s, S) = FlattenSeq(KeptOf(s, S))
BY DEF Kept, KeptOf, Keeps

\* One element is kept or left out.
LEMMA KeepsType ==
  ASSUME NEW T, NEW e \in T, NEW S
  PROVE  Keeps(e, S) \in Seq(S \cap T)
<1>1. CASE e \in S
  <2>1. e \in S \cap T
    BY <1>1
  <2>2. <<e>> \in Seq(S \cap T)
    BY <2>1
  <2>3. QED
    BY <1>1, <2>2 DEF Keeps
<1>2. CASE e \notin S
  <2>1. <<>> \in Seq(S \cap T)
    BY EmptySeq
  <2>2. QED
    BY <1>2, <2>1 DEF Keeps
<1>3. QED
  BY <1>1, <1>2

\* Element by element, what is kept.
LEMMA KeptOfType ==
  ASSUME NEW T, NEW s \in Seq(T), NEW S
  PROVE  KeptOf(s, S) \in Seq(Seq(S \cap T)) /\ Len(KeptOf(s, S)) = Len(s)
<1>1. Len(s) \in Nat /\ DOMAIN s = 1..Len(s) /\ \A i \in 1..Len(s) : s[i] \in T
  OBVIOUS
<1>2. PICK p : p = KeptOf(s, S)
  OBVIOUS
<1>3. DOMAIN p = 1..Len(s) /\ \A i \in 1..Len(s) : p[i] \in Seq(S \cap T)
  BY <1>1, <1>2, KeepsType DEF KeptOf
<1>4. p \in [1..Len(s) -> Seq(S \cap T)]
  BY <1>1, <1>2, <1>3 DEF KeptOf
<1>5. QED
  BY <1>1, <1>2, <1>3, <1>4, IsSequence

\* What is kept of a sequence of T is in T and in S.
LEMMA KeptType ==
  ASSUME NEW T, NEW s \in Seq(T), NEW S
  PROVE  Kept(s, S) \in Seq(S \cap T)
BY KeptIs, KeptOfType, FlattenSeqType

\* Of nothing, nothing is kept.
LEMMA KeptNone == ASSUME NEW S PROVE Kept(<<>>, S) = <<>>
BY DEF Kept, FlattenSeq

\* Keeping goes element by element.
LEMMA KeptAppend ==
  ASSUME NEW T, NEW s \in Seq(T), NEW e \in T, NEW S
  PROVE  IsConcat(Kept(Append(s, e), S), Kept(s, S), Keeps(e, S))
<1>1. PICK r : r = Append(s, e)
  OBVIOUS
<1>2. PICK n, m : n = Len(s) /\ m = n + 1
  OBVIOUS
<1>3. /\ r \in Seq(T) /\ n \in Nat /\ Len(r) = m /\ r[m] = e /\ m \in 1..m
      /\ DOMAIN r = 1..m /\ DOMAIN s = 1..n
      /\ \A i \in 1..n : i \in 1..m /\ r[i] = s[i]
  BY <1>1, <1>2, AppendProperties
<1>4. PICK p, q : p = KeptOf(s, S) /\ q = KeptOf(r, S)
  OBVIOUS
<1>5. p \in Seq(Seq(S \cap T)) /\ Len(p) = n /\ Len(q) = m
  BY <1>2, <1>3, <1>4, KeptOfType
<1>6. /\ \A i \in 1..n : p[i] = q[i]
      /\ q[m] = Keeps(e, S)
  BY <1>3, <1>4 DEF KeptOf
<1>7. q[m] \in Seq(S \cap T) /\ \A i \in 1..n : p[i] \in Seq(S \cap T)
  <2>1. Keeps(e, S) \in Seq(S \cap T)
    BY KeepsType
  <2>2. QED
    BY <1>5, <1>6, <2>1
<1>8. n = 0 => p = <<>>
  BY <1>5, EmptySeq
<1>9. IsConcat(FlattenSeq(q), FlattenSeq(p), q[m])
  BY <1>2, <1>3, <1>5, <1>6, <1>7, <1>8, FlattenSeqExtend
<1>10. QED
  BY <1>1, <1>4, <1>6, <1>9, KeptIs

\* Keeping distributes over concatenation.
LEMMA KeptConcat ==
  ASSUME NEW T, NEW a \in Seq(T), NEW b \in Seq(T), NEW S
  PROVE  IsConcat(Kept(a \o b, S), Kept(a, S), Kept(b, S))
<1> DEFINE G == {s \in Seq(T) : IsConcat(Kept(a \o s, S), Kept(a, S), Kept(s, S))}
<1>1. <<>> \in G
  <2>1. a \o <<>> = a /\ <<>> \in Seq(T) /\ Kept(a, S) \in Seq(S \cap T)
    BY ConcatEmptySeq, KeptType
  <2>2. Kept(a, S) \o <<>> = Kept(a, S)
    BY <2>1, ConcatEmptySeq
  <2>3. QED
    BY <2>1, <2>2, KeptNone DEF IsConcat
<1>2. ASSUME NEW s \in Seq(T), NEW e \in T, s \in G
      PROVE  Append(s, e) \in G
  <2>1. PICK r, x : r = Append(s, e) /\ x = a \o s
    OBVIOUS
  <2>2. r \in Seq(T) /\ x \in Seq(T) /\ a \o r = Append(x, e)
    BY <2>1, ConcatAppend DEF IsConcat
  <2>3. PICK ka, ks, k : ka = Kept(a, S) /\ ks = Kept(s, S) /\ k = Keeps(e, S)
    OBVIOUS
  <2>4. /\ ka \in Seq(S \cap T) /\ ks \in Seq(S \cap T)
        /\ k \in Seq(S \cap T)
    BY <2>3, KeptType, KeepsType
  <2>5. Kept(x, S) = ka \o ks
    BY <1>2, <2>1, <2>3 DEF IsConcat
  <2>6. Kept(Append(x, e), S) = (ka \o ks) \o k
    BY <2>2, <2>3, <2>5, KeptAppend DEF IsConcat
  <2>7. Kept(r, S) = ks \o k
    BY <2>1, <2>3, KeptAppend DEF IsConcat
  <2>8. (ka \o ks) \o k = ka \o (ks \o k)
    BY <2>4, ConcatAssociative
  <2>9. Kept(a \o r, S) = Kept(a, S) \o Kept(r, S)
    BY <2>2, <2>3, <2>6, <2>7, <2>8
  <2>10. QED
    BY <2>1, <2>2, <2>9 DEF IsConcat
<1>3. Seq(T) \subseteq G
  <2> HIDE DEF G
  <2>1. QED
    BY <1>1, <1>2, SeqInduction
<1>4. QED
  BY <1>3

\* Sets that agree on the members keep the same.
LEMMA KeptSame ==
  ASSUME NEW s, NEW S, NEW R, \A i \in DOMAIN s : s[i] \in S <=> s[i] \in R
  PROVE  Kept(s, S) = Kept(s, R)
BY DEF Kept

-----------------------------------------------------------------------------
(* Texts joined with a character.                                          *)

JoinPart(parts, c, i) == IF i = 1 THEN parts[i] ELSE <<c>> \o parts[i]
JoinParts(parts, c)   == [i \in DOMAIN parts |-> JoinPart(parts, c, i)]

\* Joining is flattening the parts with their separators.
LEMMA JoinedByIs == \A parts, c : JoinedBy(parts, c) = FlattenSeq(JoinParts(parts, c))
BY DEF JoinedBy, JoinParts, JoinPart

\* The parts with their separators are texts.
LEMMA JoinPartsType ==
  ASSUME NEW T, NEW c \in T, NEW parts \in Seq(Seq(T))
  PROVE  JoinParts(parts, c) \in Seq(Seq(T)) /\ Len(JoinParts(parts, c)) = Len(parts)
<1>1. Len(parts) \in Nat /\ DOMAIN parts = 1..Len(parts) /\ \A i \in 1..Len(parts) : parts[i] \in Seq(T)
  OBVIOUS
<1>2. ASSUME NEW i \in 1..Len(parts)
      PROVE  JoinPart(parts, c, i) \in Seq(T)
  <2>1. <<c>> \in Seq(T) /\ parts[i] \in Seq(T)
    BY <1>1
  <2>2. <<c>> \o parts[i] \in Seq(T)
    BY <2>1, ConcatProperties
  <2>3. QED
    BY <2>1, <2>2 DEF JoinPart
<1>3. PICK p : p = JoinParts(parts, c)
  OBVIOUS
<1>4. DOMAIN p = 1..Len(parts) /\ p \in [1..Len(parts) -> Seq(T)]
  BY <1>1, <1>2, <1>3 DEF JoinParts
<1>5. QED
  BY <1>1, <1>3, <1>4, IsSequence

\* Joining texts with a character gives a text.
LEMMA JoinedByType ==
  ASSUME NEW T, NEW c \in T, NEW parts \in Seq(Seq(T))
  PROVE  JoinedBy(parts, c) \in Seq(T)
BY JoinedByIs, JoinPartsType, FlattenSeqType

\* Joining nothing gives nothing.
LEMMA JoinedByNone == ASSUME NEW c PROVE JoinedBy(<<>>, c) = <<>>
BY DEF JoinedBy, FlattenSeq

\* One text, and one text more.
JoinedMore(r, j, c, x, first) == IF first THEN r = x ELSE r = j \o (<<c>> \o x)

\* A part more: the separator, unless it is the first, and the part.
LEMMA JoinedByAppend ==
  ASSUME NEW T, NEW c \in T, NEW parts \in Seq(Seq(T)), NEW x \in Seq(T)
  PROVE  JoinedMore(JoinedBy(Append(parts, x), c), JoinedBy(parts, c), c, x, parts = <<>>)
<1>1. PICK r : r = Append(parts, x)
  OBVIOUS
<1>2. PICK n, m : n = Len(parts) /\ m = n + 1
  OBVIOUS
<1>3. /\ r \in Seq(Seq(T)) /\ n \in Nat /\ Len(r) = m /\ r[m] = x /\ m \in 1..m
      /\ DOMAIN r = 1..m /\ DOMAIN parts = 1..n
      /\ \A i \in 1..n : i \in 1..m /\ r[i] = parts[i]
      /\ n = 0 <=> parts = <<>>
  <2>1. r \in Seq(Seq(T)) /\ n \in Nat /\ Len(r) = m /\ r[m] = x /\ \A i \in 1..n : r[i] = parts[i]
    BY <1>1, <1>2, AppendProperties
  <2>2. n = 0 <=> parts = <<>>
    BY <1>2, <2>1, EmptySeq
  <2>3. QED
    BY <1>2, <2>1, <2>2
<1>4. PICK p, q : p = JoinParts(parts, c) /\ q = JoinParts(r, c)
  OBVIOUS
<1>5. p \in Seq(Seq(T)) /\ Len(p) = n /\ q \in Seq(Seq(T)) /\ Len(q) = m
  BY <1>2, <1>3, <1>4, JoinPartsType
<1>6. /\ \A i \in 1..n : p[i] = q[i]
      /\ q[m] = IF m = 1 THEN x ELSE <<c>> \o x
  BY <1>3, <1>4 DEF JoinParts, JoinPart
<1>7. q[m] \in Seq(T) /\ \A i \in 1..n : p[i] \in Seq(T)
  BY <1>3, <1>5
<1>8. n = 0 => p = <<>>
  BY <1>5, EmptySeq
<1>9. IsConcat(FlattenSeq(q), FlattenSeq(p), q[m]) /\ FlattenSeq(p) \in Seq(T)
  BY <1>2, <1>3, <1>5, <1>6, <1>7, <1>8, FlattenSeqExtend
<1>10. CASE parts = <<>>
  <2>1. p = <<>> /\ q[m] = x
    BY <1>2, <1>3, <1>6, <1>8, <1>10
  <2>2. FlattenSeq(p) = <<>>
    BY <2>1 DEF FlattenSeq
  <2>3. FlattenSeq(q) = <<>> \o x
    BY <1>9, <2>1, <2>2 DEF IsConcat
  <2>4. <<>> \o x = x
    BY ConcatEmptySeq
  <2>5. QED
    BY <1>1, <1>4, <1>10, <2>3, <2>4, JoinedByIs DEF JoinedMore
<1>11. CASE parts # <<>>
  <2>1. m # 1
    BY <1>2, <1>3, <1>11
  <2>2. FlattenSeq(q) = FlattenSeq(p) \o (<<c>> \o x)
    BY <1>6, <1>9, <2>1 DEF IsConcat
  <2>3. QED
    BY <1>1, <1>4, <1>11, <2>2, JoinedByIs DEF JoinedMore
<1>12. QED
  BY <1>10, <1>11

-----------------------------------------------------------------------------
(* Texts split at characters.                                              *)

SplitStep(f, s, seps, k) == IF k = 0 THEN <<<<>>>> ELSE Parted(f[k - 1], s[k], seps)
Splits(f, s, seps, n)    == f = [k \in 0..n |-> SplitStep(f, s, seps, k)]

\* The splitting function at a place.
LEMMA SplitsAt ==
  ASSUME NEW f, NEW s, NEW seps, NEW n, Splits(f, s, seps, n), NEW k \in 0..n
  PROVE  f[k] = SplitStep(f, s, seps, k)
BY DEF Splits

\* The recursive function of SplitAt exists.
LEMMA SplitsExists ==
  ASSUME NEW s, NEW seps, NEW n \in Nat
  PROVE  \E f : Splits(f, s, seps, n)
<1> DEFINE S == {m \in Nat : \E f : Splits(f, s, seps, m)}
<1>1. 0 \in S
  <2>1. Splits([k \in 0..0 |-> <<<<>>>>], s, seps, 0)
    BY DEF Splits, SplitStep
  <2>2. QED
    BY <2>1
<1>2. ASSUME NEW m \in Nat, m \in S
      PROVE  m + 1 \in S
  <2>1. PICK f : Splits(f, s, seps, m)
    BY <1>2
  <2> DEFINE g == [k \in 0..(m + 1) |-> SplitStep(f, s, seps, k)]
  <2>2. \A k \in 0..m : k \in 0..(m + 1) /\ f[k] = g[k]
    BY <2>1, SplitsAt
  <2>3. \A k \in 0..(m + 1) : SplitStep(f, s, seps, k) = SplitStep(g, s, seps, k)
    <3> HIDE DEF g
    <3>1. \A k \in 0..(m + 1) : k # 0 => k - 1 \in 0..m
      OBVIOUS
    <3>2. QED
      BY <2>2, <3>1 DEF SplitStep
  <2>4. Splits(g, s, seps, m + 1)
    BY <2>3 DEF Splits
  <2>5. QED
    BY <2>4
<1>3. Nat \subseteq S
  <2> HIDE DEF S
  <2>1. QED
    BY <1>1, <1>2, SetInduction
<1>4. QED
  BY <1>3

\* SplitAt is the last value of its recursive function.
LEMMA SplitAtSplits ==
  ASSUME NEW s, NEW seps, Len(s) \in Nat
  PROVE  \E f : Splits(f, s, seps, Len(s)) /\ SplitAt(s, seps) = f[Len(s)]
<1>1. \E f : Splits(f, s, seps, Len(s))
  BY SplitsExists
<1> DEFINE f == CHOOSE f : Splits(f, s, seps, Len(s))
<1>2. Splits(f, s, seps, Len(s))
  BY <1>1
<1>3. SplitAt(s, seps) = f[Len(s)]
  BY DEF SplitAt, Splits, SplitStep
<1>4. QED
  BY <1>2, <1>3

\* It depends on the characters up to n only.
AgreeTo(n, f, g) == \A i \in 0..n : f[i] = g[i]

\* What has been split so far does not depend on what follows.
LEMMA SplitsAgree ==
  ASSUME NEW s, NEW r, NEW seps, NEW m \in Nat, NEW n \in Nat, m <= n, NEW f, NEW g,
         Splits(f, s, seps, m), Splits(g, r, seps, n),
         \A i \in 1..m : s[i] = r[i]
  PROVE  AgreeTo(m, f, g)
<1> DEFINE S == {k \in Nat : k \in 0..m => f[k] = g[k]}
<1>1. 0 \in S
  <2>1. 0 \in 0..m /\ 0 \in 0..n
    OBVIOUS
  <2>2. f[0] = SplitStep(f, s, seps, 0) /\ g[0] = SplitStep(g, r, seps, 0)
    BY <2>1, SplitsAt
  <2>3. QED
    BY <2>2 DEF SplitStep
<1>2. ASSUME NEW k \in Nat, k \in S
      PROVE  k + 1 \in S
  <2> SUFFICES ASSUME k + 1 \in 0..m PROVE f[k + 1] = g[k + 1]
    OBVIOUS
  <2>1. k + 1 \in 0..n /\ k \in 0..m /\ k + 1 \in 1..m /\ k + 1 - 1 = k /\ k + 1 # 0
    OBVIOUS
  <2>2. f[k + 1] = SplitStep(f, s, seps, k + 1) /\ g[k + 1] = SplitStep(g, r, seps, k + 1)
    BY <2>1, SplitsAt
  <2>3. f[k] = g[k] /\ s[k + 1] = r[k + 1]
    BY <1>2, <2>1
  <2>4. QED
    BY <2>1, <2>2, <2>3 DEF SplitStep
<1>3. Nat \subseteq S
  <2> HIDE DEF S
  <2>1. QED
    BY <1>1, <1>2, SetInduction
<1>4. QED
  BY <1>3 DEF AgreeTo

\* The empty text is one empty part.
LEMMA SplitAtNone == ASSUME NEW seps PROVE SplitAt(<<>>, seps) = <<<<>>>>
<1>1. Len(<<>>) = 0 /\ 0 \in 0..0
  OBVIOUS
<1>2. PICK f : Splits(f, <<>>, seps, 0) /\ SplitAt(<<>>, seps) = f[0]
  BY <1>1, SplitAtSplits
<1>3. f[0] = SplitStep(f, <<>>, seps, 0)
  BY <1>1, <1>2, SplitsAt
<1>4. QED
  BY <1>2, <1>3 DEF SplitStep

\* A character more lengthens the last part or begins a new one.
LEMMA SplitAtAppend ==
  ASSUME NEW T, NEW s \in Seq(T), NEW e \in T, NEW seps
  PROVE  SplitAt(Append(s, e), seps) = Parted(SplitAt(s, seps), e, seps)
<1>1. PICK r : r = Append(s, e)
  OBVIOUS
<1>2. PICK n, m : n = Len(s) /\ m = n + 1
  OBVIOUS
<1>3. /\ n \in Nat /\ Len(r) = m /\ m \in Nat /\ r[m] = e /\ n <= m
      /\ \A i \in 1..n : s[i] = r[i]
  BY <1>1, <1>2, AppendProperties
<1>4. PICK f : Splits(f, s, seps, n) /\ SplitAt(s, seps) = f[n]
  BY <1>2, <1>3, SplitAtSplits
<1>5. PICK g : Splits(g, r, seps, m) /\ SplitAt(r, seps) = g[m]
  BY <1>3, SplitAtSplits
<1>6. n \in 0..n /\ m \in 0..m /\ m # 0 /\ m - 1 = n
  BY <1>2, <1>3
<1>7. f[n] = g[n]
  <2>1. AgreeTo(n, f, g)
    BY <1>3, <1>4, <1>5, SplitsAgree
  <2>2. QED
    BY <1>6, <2>1 DEF AgreeTo
<1>8. g[m] = SplitStep(g, r, seps, m)
  BY <1>5, <1>6, SplitsAt
<1>9. SplitStep(g, r, seps, m) = Parted(g[n], e, seps)
  BY <1>3, <1>6 DEF SplitStep
<1>10. QED
  BY <1>1, <1>4, <1>5, <1>7, <1>8, <1>9

\* Splitting on: a new part, or a longer last one.
PartsInto(x, P, l, e, seps) ==
  x = IF e \in seps THEN Append(Append(P, l), <<>>) ELSE Append(P, Append(l, e))

\* Parted, on parts given as a front and a last one.
LEMMA PartedIs ==
  ASSUME NEW T, NEW P \in Seq(T), NEW l \in T, NEW e, NEW seps
  PROVE  PartsInto(Parted(Append(P, l), e, seps), P, l, e, seps)
BY FrontOfAppend DEF Parted, PartsInto

\* The parts hold no separator.
LEMMA SplitAtType ==
  ASSUME NEW T, NEW s \in Seq(T), NEW seps
  PROVE  SplitAt(s, seps) \in Seq(Seq(T \ seps)) /\ SplitAt(s, seps) # <<>>
<1> DEFINE U == Seq(T \ seps)
           G == {t \in Seq(T) : SplitAt(t, seps) \in Seq(U) /\ SplitAt(t, seps) # <<>>}
<1>1. <<>> \in G
  <2>1. <<>> \in U
    BY EmptySeq
  <2> HIDE DEF U
  <2>2. Append(<<>>, <<>>) \in Seq(U) /\ Append(<<>>, <<>>) # <<>>
    BY <2>1, EmptySeq, AppendType
  <2>3. Append(<<>>, <<>>) = <<<<>>>>
    OBVIOUS
  <2>4. QED
    BY <2>2, <2>3, EmptySeq, SplitAtNone
<1>2. ASSUME NEW t \in Seq(T), NEW e \in T, t \in G
      PROVE  Append(t, e) \in G
  <2> HIDE DEF U
  <2>1. PICK A : A = SplitAt(t, seps)
    OBVIOUS
  <2>2. PICK P \in Seq(U), l \in U : A = Append(P, l)
    BY <1>2, <2>1, SequenceEmptyOrAppend
  <2>3. PICK B : B = SplitAt(Append(t, e), seps)
    OBVIOUS
  <2>4. B = IF e \in seps THEN Append(A, <<>>) ELSE Append(P, Append(l, e))
    <3>1. B = Parted(A, e, seps)
      BY <2>1, <2>3, SplitAtAppend
    <3>2. PartsInto(Parted(Append(P, l), e, seps), P, l, e, seps)
      BY PartedIs
    <3>3. QED
      BY <2>2, <3>1, <3>2 DEF PartsInto
  <2>5. CASE e \in seps
    <3>1. <<>> \in U /\ A \in Seq(U)
      BY <1>2, <2>1, EmptySeq DEF U
    <3>2. B \in Seq(U) /\ B # <<>>
      BY <2>4, <2>5, <3>1, AppendType
    <3>3. Append(t, e) \in Seq(T)
      BY AppendType
    <3>4. QED
      BY <2>3, <3>2, <3>3
  <2>6. CASE e \notin seps
    <3>1. Append(l, e) \in U
      BY <2>6, AppendType DEF U
    <3>2. B \in Seq(U) /\ B # <<>>
      BY <2>4, <2>6, <3>1, AppendType
    <3>3. Append(t, e) \in Seq(T)
      BY AppendType
    <3>4. QED
      BY <2>3, <3>2, <3>3
  <2>7. QED
    BY <2>5, <2>6
<1>3. Seq(T) \subseteq G
  <2> HIDE DEF G
  <2>1. QED
    BY <1>1, <1>2, SeqInduction
<1>4. QED
  BY <1>3

\* A text without separators is one part.
LEMMA SplitAtSolid ==
  ASSUME NEW T, NEW seps, NEW l \in Seq(T \ seps)
  PROVE  SplitAt(l, seps) = <<l>>
<1> DEFINE G == {t \in Seq(T \ seps) : SplitAt(t, seps) = <<t>>}
<1>1. <<>> \in G
  BY EmptySeq, SplitAtNone
<1>2. ASSUME NEW t \in Seq(T \ seps), NEW e \in T \ seps, t \in G
      PROVE  Append(t, e) \in G
  <2>1. <<t>> = Append(<<>>, t) /\ <<>> \in Seq(Seq(T \ seps))
    OBVIOUS
  <2>2. SplitAt(Append(t, e), seps) = Parted(SplitAt(t, seps), e, seps)
    BY SplitAtAppend
  <2>3. SplitAt(t, seps) = Append(<<>>, t)
    BY <1>2, <2>1
  <2>4. Parted(Append(<<>>, t), e, seps) = Append(<<>>, Append(t, e))
    <3>1. PICK P : P = <<>> /\ P \in Seq(Seq(T \ seps))
      BY <2>1
    <3>2. PartsInto(Parted(Append(P, t), e, seps), P, t, e, seps)
      BY <3>1, PartedIs
    <3>3. e \notin seps
      OBVIOUS
    <3>4. QED
      BY <3>1, <3>2, <3>3 DEF PartsInto
  <2>5. Append(t, e) \in Seq(T \ seps)
    BY AppendType
  <2>6. Append(<<>>, Append(t, e)) = <<Append(t, e)>>
    OBVIOUS
  <2>7. QED
    BY <2>2, <2>3, <2>4, <2>5, <2>6
<1>3. Seq(T \ seps) \subseteq G
  <2> HIDE DEF G
  <2>1. QED
    BY <1>1, <1>2, SeqInduction
<1>4. QED
  BY <1>3

\* Splitting two texts with a separator between them.
Between(x, a, c, b) == x = Append(a, c) \o b

\* Splitting at a separator: the parts of what is before it, then of what is after.
LEMMA SplitAtConcat ==
  ASSUME NEW T, NEW a \in Seq(T), NEW seps, NEW c \in T, c \in seps, NEW b \in Seq(T),
         NEW x, Between(x, a, c, b)
  PROVE  IsConcat(SplitAt(x, seps), SplitAt(a, seps), SplitAt(b, seps))
<1>1. PICK A, z : A = SplitAt(a, seps) /\ z = Append(a, c)
  OBVIOUS
<1> DEFINE U == Seq(T \ seps)
           G == {t \in Seq(T) : IsConcat(SplitAt(z \o t, seps), A, SplitAt(t, seps))}
<1>2. A \in Seq(U) /\ A # <<>> /\ z \in Seq(T)
  BY <1>1, SplitAtType, AppendType
<1>3. <<>> \in G
  <2>1. z \o <<>> = z /\ <<>> \in Seq(T) /\ <<>> \in U
    BY <1>2, ConcatEmptySeq, EmptySeq
  <2> HIDE DEF U
  <2>2. PICK P \in Seq(U), l \in U : A = Append(P, l)
    BY <1>2, SequenceEmptyOrAppend
  <2>3. SplitAt(z, seps) = Parted(A, c, seps)
    BY <1>1, SplitAtAppend
  <2>4. PartsInto(Parted(Append(P, l), c, seps), P, l, c, seps)
    BY PartedIs
  <2>5. SplitAt(z, seps) = Append(A, <<>>)
    BY <2>2, <2>3, <2>4 DEF PartsInto
  <2>6. Append(A, <<>>) = A \o <<<<>>>>
    BY <1>2, <2>1, AppendIsConcat
  <2>7. QED
    BY <2>1, <2>5, <2>6, SplitAtNone DEF IsConcat
<1>4. ASSUME NEW t \in Seq(T), NEW e \in T, t \in G
      PROVE  Append(t, e) \in G
  <2>1. PICK r, y, B : r = Append(t, e) /\ y = z \o t /\ B = SplitAt(t, seps)
    OBVIOUS
  <2>2. r \in Seq(T) /\ y \in Seq(T) /\ z \o r = Append(y, e) /\ B \in Seq(U) /\ B # <<>>
    <3>1. r \in Seq(T) /\ y \in Seq(T) /\ z \o r = Append(y, e)
      <4>1. IsConcat(Append(z \o t, e), z, Append(t, e))
        BY <1>2, ConcatAppend
      <4>2. Append(t, e) \in Seq(T) /\ z \o t \in Seq(T)
        BY <1>2, AppendType, ConcatProperties
      <4>3. QED
        BY <2>1, <4>1, <4>2 DEF IsConcat
    <3>2. B \in Seq(U) /\ B # <<>>
      BY <2>1, SplitAtType
    <3>3. QED
      BY <3>1, <3>2
  <2>3. SplitAt(y, seps) = A \o B
    BY <1>4, <2>1 DEF IsConcat
  <2> HIDE DEF U
  <2>4. PICK P \in Seq(U), l \in U : B = Append(P, l)
    BY <2>2, SequenceEmptyOrAppend
  <2>5. PICK Q : Q = A \o P
    OBVIOUS
  <2>6. Q \in Seq(U) /\ A \o B = Append(Q, l)
    <3>1. IsConcat(Append(A \o P, l), A, Append(P, l))
      BY <1>2, ConcatAppend
    <3>2. Q \in Seq(U)
      BY <1>2, <2>5, ConcatProperties
    <3>3. QED
      BY <2>4, <2>5, <3>1, <3>2 DEF IsConcat
  <2>7. SplitAt(Append(y, e), seps) = Parted(Append(Q, l), e, seps)
    BY <2>2, <2>3, <2>6, SplitAtAppend
  <2>8. SplitAt(r, seps) = Parted(Append(P, l), e, seps)
    BY <2>1, <2>4, SplitAtAppend
  <2>9. PartsInto(Parted(Append(Q, l), e, seps), Q, l, e, seps)
    BY <2>6, PartedIs
  <2>10. PartsInto(Parted(Append(P, l), e, seps), P, l, e, seps)
    BY PartedIs
  <2>11. CASE e \in seps
    <3>1. IsConcat(Append(A \o B, <<>>), A, Append(B, <<>>))
      <4>1. <<>> \in U
        BY EmptySeq DEF U
      <4>2. QED
        BY <1>2, <2>2, <4>1, ConcatAppend
    <3>2. QED
      BY <2>1, <2>2, <2>4, <2>6, <2>7, <2>8, <2>9, <2>10, <2>11, <3>1 DEF IsConcat, PartsInto
  <2>12. CASE e \notin seps
    <3>1. PICK k : k = Append(l, e)
      OBVIOUS
    <3>2. k \in U
      BY <2>12, <3>1, AppendType DEF U
    <3>3. IsConcat(Append(A \o P, k), A, Append(P, k))
      BY <1>2, <3>2, ConcatAppend
    <3>4. QED
      BY <2>1, <2>2, <2>5, <2>7, <2>8, <2>9, <2>10, <2>12, <3>1, <3>3 DEF IsConcat, PartsInto
  <2>13. QED
    BY <2>11, <2>12
<1>5. Seq(T) \subseteq G
  <2> HIDE DEF G
  <2>1. QED
    BY <1>3, <1>4, SeqInduction
<1>6. QED
  BY <1>1, <1>5 DEF Between

\* What is split and joined again is the text.
LEMMA JoinedSplit ==
  ASSUME NEW T, NEW c \in T, NEW s \in Seq(T)
  PROVE  JoinedBy(SplitAt(s, {c}), c) = s
<1> DEFINE G == {t \in Seq(T) : JoinedBy(SplitAt(t, {c}), c) = t}
           U == Seq(T)
<1>1. <<>> \in G
  <2>1. JoinedMore(JoinedBy(Append(<<>>, <<>>), c), JoinedBy(<<>>, c), c, <<>>, <<>> = <<>>)
    <3>1. PICK e : e = <<>> /\ e \in Seq(Seq(T)) /\ e \in Seq(T)
      BY EmptySeq
    <3>2. JoinedMore(JoinedBy(Append(e, e), c), JoinedBy(e, c), c, e, e = <<>>)
      BY <3>1, JoinedByAppend
    <3>3. QED
      BY <3>1, <3>2
  <2>2. Append(<<>>, <<>>) = <<<<>>>>
    OBVIOUS
  <2>3. QED
    BY <2>1, <2>2, EmptySeq, SplitAtNone DEF JoinedMore
<1>2. ASSUME NEW t \in Seq(T), NEW e \in T, t \in G
      PROVE  Append(t, e) \in G
  <2>1. PICK A : A = SplitAt(t, {c})
    OBVIOUS
  <2>2. A \in Seq(U) /\ A # <<>>
    <3>1. A \in Seq(Seq(T \ {c})) /\ A # <<>>
      BY <2>1, SplitAtType
    <3>2. Seq(T \ {c}) \subseteq Seq(T)
      <4>1. T \ {c} \subseteq T
        OBVIOUS
      <4>2. QED
        BY <4>1, SeqMonotonic
    <3>3. QED
      BY <3>1, <3>2, SeqMonotonic
  <2> HIDE DEF U
  <2>3. PICK P \in Seq(U), l \in U : A = Append(P, l)
    BY <2>2, SequenceEmptyOrAppend
  <2>4. PICK B : B = SplitAt(Append(t, e), {c})
    OBVIOUS
  <2>5. B = IF e = c THEN Append(A, <<>>) ELSE Append(P, Append(l, e))
    <3>1. B = Parted(A, e, {c})
      BY <2>1, <2>4, SplitAtAppend
    <3>2. PartsInto(Parted(Append(P, l), e, {c}), P, l, e, {c})
      BY PartedIs
    <3>3. QED
      BY <2>3, <3>1, <3>2 DEF PartsInto
  <2>6. JoinedBy(A, c) = t
    BY <1>2, <2>1
  <2>7. ASSUME e = c
        PROVE  JoinedBy(B, c) = Append(t, e)
    <3>1. PICK x : x = <<>> /\ x \in Seq(T)
      BY EmptySeq
    <3>2. JoinedMore(JoinedBy(Append(A, x), c), JoinedBy(A, c), c, x, A = <<>>)
      BY <2>2, <3>1, JoinedByAppend DEF U
    <3>3. JoinedBy(B, c) = t \o (<<c>> \o x)
      BY <2>2, <2>5, <2>6, <2>7, <3>1, <3>2 DEF JoinedMore
    <3>4. <<c>> \o x = <<c>>
      BY <3>1, ConcatEmptySeq
    <3>5. Append(t, c) = t \o <<c>>
      BY AppendIsConcat
    <3>6. QED
      BY <2>7, <3>3, <3>4, <3>5
  <2>8. ASSUME e # c
        PROVE  JoinedBy(B, c) = Append(t, e)
    <3>1. PICK k : k = Append(l, e)
      OBVIOUS
    <3>2. k \in Seq(T) /\ l \in Seq(T) /\ P \in Seq(Seq(T))
      BY <3>1, AppendType DEF U
    <3>3. JoinedMore(JoinedBy(Append(P, l), c), JoinedBy(P, c), c, l, P = <<>>)
      BY <3>2, JoinedByAppend
    <3>4. JoinedMore(JoinedBy(Append(P, k), c), JoinedBy(P, c), c, k, P = <<>>)
      BY <3>2, JoinedByAppend
    <3>5. CASE P = <<>>
      BY <2>3, <2>5, <2>6, <2>8, <3>1, <3>3, <3>4, <3>5 DEF JoinedMore
    <3>6. CASE P # <<>>
      <4>1. PICK j, w : j = JoinedBy(P, c) /\ w = <<c>> \o l
        OBVIOUS
      <4>2. j \in Seq(T) /\ w \in Seq(T)
        BY <3>2, <4>1, JoinedByType, ConcatProperties
      <4>3. t = j \o w /\ JoinedBy(B, c) = j \o (<<c>> \o k)
        BY <2>3, <2>5, <2>6, <2>8, <3>1, <3>3, <3>4, <3>6, <4>1 DEF JoinedMore
      <4>4. IsConcat(Append(<<c>> \o l, e), <<c>>, Append(l, e))
        <5>1. PICK o : o = <<c>> /\ o \in Seq(T)
          <6>1. <<c>> \in Seq(T)
            OBVIOUS
          <6>2. QED
            BY <6>1
        <5>2. IsConcat(Append(o \o l, e), o, Append(l, e))
          BY <3>2, <5>1, ConcatAppend
        <5>3. QED
          BY <5>1, <5>2
      <4>5. IsConcat(Append(j \o w, e), j, Append(w, e))
        BY <4>2, ConcatAppend
      <4>6. QED
        BY <3>1, <4>1, <4>3, <4>4, <4>5 DEF IsConcat
    <3>7. QED
      BY <3>5, <3>6
  <2>9. QED
    BY <2>4, <2>7, <2>8, AppendType
<1>3. Seq(T) \subseteq G
  <2> HIDE DEF G
  <2>1. QED
    BY <1>1, <1>2, SeqInduction
<1>4. QED
  BY <1>3

\* And what is joined and split again is the lines.
LEMMA SplitJoined ==
  ASSUME NEW T, NEW c \in T, NEW ls \in Seq(Seq(T \ {c})), ls # <<>>
  PROVE  SplitAt(JoinedBy(ls, c), {c}) = ls
<1> DEFINE U == Seq(T \ {c})
           G == {ms \in Seq(U) : ms # <<>> => SplitAt(JoinedBy(ms, c), {c}) = ms}
<1>0. U \subseteq Seq(T)
  <2>1. T \ {c} \subseteq T
    OBVIOUS
  <2>2. QED
    BY <2>1, SeqMonotonic
<1>1. <<>> \in G
  BY EmptySeq
<1>2. ASSUME NEW ms \in Seq(U), NEW l \in U, ms \in G
      PROVE  Append(ms, l) \in G
  <2>1. PICK r : r = Append(ms, l)
    OBVIOUS
  <2>2. SplitAt(l, {c}) = <<l>>
    BY SplitAtSolid
  <2>3. l \in Seq(T) /\ ms \in Seq(Seq(T)) /\ r \in Seq(U)
    <3> HIDE DEF U
    <3>1. l \in Seq(T) /\ ms \in Seq(Seq(T))
      BY <1>0, SeqMonotonic
    <3>2. r \in Seq(U)
      BY <2>1, AppendType
    <3>3. QED
      BY <3>1, <3>2
  <2>4. PICK j, k : j = JoinedBy(ms, c) /\ k = JoinedBy(r, c)
    OBVIOUS
  <2>5. JoinedMore(k, j, c, l, ms = <<>>)
    BY <2>1, <2>3, <2>4, JoinedByAppend
  <2>6. CASE ms = <<>>
    <3>1. k = l /\ r = <<l>>
      BY <2>1, <2>5, <2>6 DEF JoinedMore
    <3>2. QED
      BY <2>1, <2>2, <2>3, <2>4, <3>1
  <2>7. CASE ms # <<>>
    <3>1. j \in Seq(T) /\ <<c>> \in Seq(T)
      BY <2>3, <2>4, JoinedByType
    <3>2. k = j \o (<<c>> \o l)
      BY <2>5, <2>7 DEF JoinedMore
    <3>3. j \o (<<c>> \o l) = (j \o <<c>>) \o l
      <4>1. PICK o : o = <<c>> /\ o \in Seq(T)
        BY <3>1
      <4>2. (j \o o) \o l = j \o (o \o l)
        BY <2>3, <3>1, <4>1, ConcatAssociative
      <4>3. QED
        BY <4>1, <4>2
    <3>4. Append(j, c) = j \o <<c>>
      BY <3>1, AppendIsConcat
    <3>5. Between(k, j, c, l)
      BY <3>2, <3>3, <3>4 DEF Between
    <3>6. IsConcat(SplitAt(k, {c}), SplitAt(j, {c}), SplitAt(l, {c}))
      <4>1. c \in {c}
        OBVIOUS
      <4>2. QED
        BY <2>3, <3>1, <3>5, <4>1, SplitAtConcat
    <3>7. SplitAt(j, {c}) = ms
      BY <1>2, <2>4, <2>7
    <3>8. ms \o <<l>> = Append(ms, l)
      <4> HIDE DEF U
      <4>1. QED
        BY AppendIsConcat
    <3>9. SplitAt(k, {c}) = r
      BY <2>1, <2>2, <3>6, <3>7, <3>8 DEF IsConcat
    <3>10. QED
      BY <2>1, <2>3, <2>4, <3>9
  <2>8. QED
    BY <2>6, <2>7
<1>3. Seq(U) \subseteq G
  <2> HIDE DEF G, U
  <2>1. QED
    BY <1>1, <1>2, SeqInduction
<1>4. QED
  BY <1>3

-----------------------------------------------------------------------------
(* The words of a text.                                                    *)

\* The characters of a text, the ones the model names among them: the provers do not know
\* that a string between quotes is a string.
Char     == STRING \cup Blank \cup {"\\", "n"}
CharText == Seq(Char)

SolidWord == Seq(Char \ Blank) \ {<<>>}

\* Blanks are characters.
LEMMA BlankChars == Blank \subseteq Char
BY DEF Char

\* One element is a sequence.
LEMMA OneOf == ASSUME NEW T, NEW c \in T PROVE <<c>> \in Seq(T)
OBVIOUS

\* The words are the parts between blanks that are not empty.
LEMMA WordsAre ==
  ASSUME NEW s \in CharText
  PROVE  Words(s) = Kept(SplitAt(s, Blank), SolidWord)
<1>1. PICK p : p = SplitAt(s, Blank)
  OBVIOUS
<1>2. p \in Seq(Seq(Char \ Blank))
  BY <1>1, SplitAtType DEF CharText
<1>3. ASSUME NEW i \in DOMAIN p
      PROVE  p[i] \in Range(p) \ {<<>>} <=> p[i] \in SolidWord
  <2>1. p[i] \in Range(p)
    BY DEF Range
  <2>2. p[i] \in Seq(Char \ Blank)
    <3>1. DOMAIN p = 1..Len(p)
      BY <1>2, LenProperties
    <3>2. QED
      BY <1>2, <3>1, ElementOfSeq
  <2>3. QED
    BY <2>1, <2>2 DEF SolidWord
<1>4. Kept(p, Range(p) \ {<<>>}) = Kept(p, SolidWord)
  BY <1>3, KeptSame
<1>5. QED
  BY <1>1, <1>4 DEF Words

\* A word is not empty and has no blank.
LEMMA WordsType ==
  ASSUME NEW s \in CharText
  PROVE  Words(s) \in Seq(SolidWord)
<1>1. PICK p : p = SplitAt(s, Blank) /\ p \in Seq(Seq(Char \ Blank))
  BY SplitAtType DEF CharText
<1>2. Kept(p, SolidWord) \in Seq(SolidWord \cap Seq(Char \ Blank))
  BY <1>1, KeptType
<1>3. SolidWord \cap Seq(Char \ Blank) = SolidWord
  BY DEF SolidWord
<1>4. QED
  BY <1>1, <1>2, <1>3, WordsAre

\* The empty text has no words.
LEMMA WordsNone == Words(<<>>) = <<>>
<1>1. <<>> \in CharText
  BY EmptySeq DEF CharText
<1>2. Words(<<>>) = Kept(<<<<>>>>, SolidWord)
  BY <1>1, WordsAre, SplitAtNone
<1>3. PICK e : e = <<>> /\ e \in Seq({<<>>}) /\ e \in {<<>>}
  BY EmptySeq
<1>4. IsConcat(Kept(Append(e, e), SolidWord), Kept(e, SolidWord), Keeps(e, SolidWord))
  BY <1>3, KeptAppend
<1>5. Append(e, e) = <<<<>>>> /\ Kept(e, SolidWord) = <<>> /\ Keeps(e, SolidWord) = <<>>
  BY <1>3, KeptNone DEF Keeps, SolidWord
<1>6. Kept(<<<<>>>>, SolidWord) = <<>> \o <<>>
  BY <1>4, <1>5 DEF IsConcat
<1>7. <<>> \o <<>> = <<>>
  BY <1>3, ConcatEmptySeq
<1>8. QED
  BY <1>2, <1>6, <1>7

\* A solid text is a word.
LEMMA WordsSolid ==
  ASSUME NEW w \in SolidWord
  PROVE  Words(w) = <<w>>
<1>1. w \in Seq(Char \ Blank) /\ w # <<>>
  BY DEF SolidWord
<1>2. w \in CharText
  <2>1. Char \ Blank \subseteq Char
    OBVIOUS
  <2>2. QED
    BY <1>1, <2>1, SeqMonotonic DEF CharText
<1>3. Words(w) = Kept(<<w>>, SolidWord)
  BY <1>1, <1>2, WordsAre, SplitAtSolid
<1>4. PICK e : e = <<>> /\ e \in Seq(SolidWord)
  BY EmptySeq
<1>5. IsConcat(Kept(Append(e, w), SolidWord), Kept(e, SolidWord), Keeps(w, SolidWord))
  BY <1>4, KeptAppend
<1>6. Append(e, w) = <<w>> /\ Kept(e, SolidWord) = <<>> /\ Keeps(w, SolidWord) = <<w>>
  BY <1>4, KeptNone DEF Keeps
<1>7. <<>> \o <<w>> = <<w>>
  OBVIOUS
<1>8. QED
  BY <1>3, <1>5, <1>6, <1>7 DEF IsConcat

\* Words on both sides of a blank.
LEMMA WordsConcat ==
  ASSUME NEW a \in CharText, NEW c \in Blank, NEW b \in CharText, NEW x, Between(x, a, c, b)
  PROVE  IsConcat(Words(x), Words(a), Words(b))
<1>1. c \in Char
  BY BlankChars
<1>2. x \in CharText
  BY <1>1, AppendType, ConcatProperties DEF Between, CharText
<1>3. PICK X, A, B : X = SplitAt(x, Blank) /\ A = SplitAt(a, Blank) /\ B = SplitAt(b, Blank)
  OBVIOUS
<1>4. IsConcat(X, A, B)
  BY <1>1, <1>3, SplitAtConcat DEF CharText
<1>5. A \in Seq(Seq(Char \ Blank)) /\ B \in Seq(Seq(Char \ Blank))
  BY <1>3, SplitAtType DEF CharText
<1>6. IsConcat(Kept(A \o B, SolidWord), Kept(A, SolidWord), Kept(B, SolidWord))
  BY <1>5, KeptConcat
<1>7. QED
  BY <1>2, <1>3, <1>4, <1>6, WordsAre DEF IsConcat

\* Blanks at either end add no words.
LEMMA WordsLead ==
  ASSUME NEW a \in Seq(Blank), NEW b \in CharText
  PROVE  Words(a \o b) = Words(b)
<1> DEFINE G == {s \in Seq(Blank) : \A t \in CharText : Words(s \o t) = Words(t)}
<1>1. <<>> \in G
  BY EmptySeq, ConcatEmptySeq DEF CharText
<1>2. ASSUME NEW s \in Seq(Blank), NEW c \in Blank, s \in G
      PROVE  Append(s, c) \in G
  <2>1. c \in Char /\ Blank \subseteq Char
    BY BlankChars
  <2>2. ASSUME NEW t \in CharText
        PROVE  Words(Append(s, c) \o t) = Words(t)
    <3>1. PICK e, o, x : e = <<>> /\ o = <<c>> /\ x = Append(e, c) \o t
      OBVIOUS
    <3>2. e \in CharText /\ o \in CharText /\ Append(e, c) = o /\ s \in CharText
      <4>1. e \in CharText /\ o \in CharText
        <5>1. <<c>> \in Seq(Char)
          BY <2>1, OneOf
        <5>2. QED
          BY <3>1, <5>1, EmptySeq DEF CharText
      <4>2. Append(e, c) = o
        BY <3>1
      <4>3. s \in CharText
        BY <2>1, SeqMonotonic DEF CharText
      <4>4. QED
        BY <4>1, <4>2, <4>3
    <3>3. IsConcat(Words(x), Words(e), Words(t))
      BY <3>1, <3>2, WordsConcat DEF Between
    <3>4. Words(x) = Words(t)
      <4>1. Words(t) \in Seq(SolidWord)
        BY WordsType
      <4>2. <<>> \o Words(t) = Words(t)
        BY <4>1, ConcatEmptySeq
      <4>3. QED
        BY <3>1, <3>3, <4>2, WordsNone DEF IsConcat
    <3>5. x = o \o t /\ x \in CharText
      BY <3>1, <3>2, ConcatProperties DEF CharText
    <3>6. Append(s, c) = s \o o
      BY <3>1, AppendIsConcat
    <3>7. (s \o o) \o t = s \o (o \o t)
      <4>1. s \in Seq(Char) /\ o \in Seq(Char) /\ t \in Seq(Char)
        BY <3>2 DEF CharText
      <4>2. QED
        BY <4>1, ConcatAssociative
    <3>8. Words(s \o x) = Words(x)
      BY <1>2, <3>5
    <3>9. QED
      BY <3>4, <3>5, <3>6, <3>7, <3>8
  <2>3. QED
    BY <2>2, AppendType
<1>3. Seq(Blank) \subseteq G
  <2> HIDE DEF G
  <2>1. QED
    BY <1>1, <1>2, SeqInduction
<1>4. QED
  BY <1>3

\* Blanks at the end change no word.
LEMMA WordsTail ==
  ASSUME NEW a \in Seq(Blank), NEW b \in CharText
  PROVE  Words(b \o a) = Words(b)
<1> DEFINE G == {s \in Seq(Blank) : Words(b \o s) = Words(b)}
<1>1. <<>> \in G
  BY EmptySeq, ConcatEmptySeq DEF CharText
<1>2. ASSUME NEW s \in Seq(Blank), NEW c \in Blank, s \in G
      PROVE  Append(s, c) \in G
  <2>1. c \in Char /\ Blank \subseteq Char
    BY BlankChars
  <2>2. s \in CharText
    BY <2>1, SeqMonotonic DEF CharText
  <2>3. PICK e, y, x : e = <<>> /\ y = b \o s /\ x = Append(y, c) \o e
    OBVIOUS
  <2>4. e \in CharText /\ y \in CharText
    BY <2>2, <2>3, EmptySeq, ConcatProperties DEF CharText
  <2>5. IsConcat(Words(x), Words(y), Words(e))
    BY <2>3, <2>4, WordsConcat DEF Between
  <2>6. Words(x) = Words(y)
    <3>1. Words(y) \in Seq(SolidWord)
      BY <2>4, WordsType
    <3>2. Words(y) \o <<>> = Words(y)
      BY <3>1, ConcatEmptySeq
    <3>3. QED
      BY <2>3, <2>5, <3>2, WordsNone DEF IsConcat
  <2>7. x = Append(y, c)
    <3>1. Append(y, c) \in Seq(Char)
      BY <2>1, <2>4, AppendType DEF CharText
    <3>2. QED
      BY <2>3, <3>1, ConcatEmptySeq
  <2>8. IsConcat(Append(b \o s, c), b, Append(s, c))
    BY <2>1, <2>2, ConcatAppend DEF CharText
  <2>9. QED
    BY <1>2, <2>3, <2>6, <2>7, <2>8, AppendType DEF IsConcat
<1>3. Seq(Blank) \subseteq G
  <2> HIDE DEF G
  <2>1. QED
    BY <1>1, <1>2, SeqInduction
<1>4. QED
  BY <1>3

-----------------------------------------------------------------------------
(* The words of a text trimmed, and of lines joined.                       *)

\* A piece of a text, and one that is blank.
LEMMA PieceType ==
  ASSUME NEW T, NEW s \in Seq(T), NEW a \in 1..(Len(s) + 1), NEW b \in (a - 1)..Len(s)
  PROVE  SubSeq(s, a, b) \in Seq(T)
BY PieceIs DEF IsPiece

\* A piece that has only blanks.
LEMMA BlankPiece ==
  ASSUME NEW T, NEW s \in Seq(T), NEW a \in 1..(Len(s) + 1), NEW b \in (a - 1)..Len(s),
         \A i \in a..b : s[i] \in Blank
  PROVE  SubSeq(s, a, b) \in Seq(Blank)
<1>1. a \in Int /\ b \in Int
  OBVIOUS
<1>2. QED
  BY <1>1, SubSeqProperties

\* A text that has its blank beginning and end taken off.
LEMMA TrimIs ==
  ASSUME NEW T, NEW s \in Seq(T)
  PROVE  /\ Trim(s) \in Seq(T)
         /\ \E a, b \in Seq(Blank) : s = a \o (Trim(s) \o b)
<1>1. Trim(s) = IF Solid(s) = {} THEN <<>> ELSE SubSeq(s, Min(Solid(s)), Max(Solid(s)))
  BY DEF Trim, Solid
<1>2. PICK n, o : n = Len(s) /\ o = Solid(s)
  OBVIOUS
<1>3. /\ n \in Nat /\ o \subseteq 1..n /\ \A i : i \in o <=> i \in 1..n /\ s[i] \notin Blank
      /\ o # {} => /\ Min(o) \in o /\ Max(o) \in o
                   /\ \A i \in o : Min(o) <= i /\ i <= Max(o)
  BY <1>2, SolidPlaces
<1>4. CASE o = {}
  <2>1. \A i \in 1..n : s[i] \in Blank
    BY <1>3, <1>4
  <2>2. SubSeq(s, 1, n) = s
    BY <1>2, SubSeqFull
  <2>3. s \in Seq(Blank)
    <3>1. 1 \in 1..(Len(s) + 1) /\ n \in (1 - 1)..Len(s)
      BY <1>2, <1>3
    <3>2. QED
      BY <2>1, <2>2, <3>1, BlankPiece
  <2>4. Trim(s) = <<>>
    BY <1>1, <1>2, <1>4
  <2>5. PICK e : e = <<>>
    OBVIOUS
  <2>6. e \in Seq(Blank) /\ e \in Seq(T) /\ e \o s = s /\ e \o e = e /\ s \o e = s
    BY <2>3, <2>5, EmptySeq, ConcatEmptySeq
  <2>7. s = s \o (Trim(s) \o e)
    BY <2>4, <2>5, <2>6
  <2>8. QED
    BY <2>3, <2>4, <2>5, <2>6, <2>7
<1>5. CASE o # {}
  <2>1. PICK m, p : m = Min(o) /\ p = Max(o)
    OBVIOUS
  <2>2. /\ m \in 1..n /\ p \in 1..n /\ m <= p
        /\ \A i \in 1..n : i < m \/ i > p => s[i] \in Blank
    BY <1>3, <1>5, <2>1
  <2>3. PICK x, y, z : x = SubSeq(s, 1, m - 1) /\ y = SubSeq(s, m, p) /\ z = SubSeq(s, p + 1, n)
    OBVIOUS
  <2>4. /\ 1 \in 1..(Len(s) + 1) /\ m - 1 \in (1 - 1)..Len(s)
        /\ m \in 1..(Len(s) + 1) /\ p \in (m - 1)..Len(s)
        /\ p + 1 \in 1..(Len(s) + 1) /\ n \in (p + 1 - 1)..Len(s)
        /\ n \in p..Len(s) /\ m - 1 + 1 = m /\ n \in (m - 1)..Len(s)
    BY <1>2, <1>3, <2>2
  <2>5. x \in Seq(Blank)
    <3>1. \A i \in 1..(m - 1) : s[i] \in Blank
      BY <1>3, <2>2
    <3>2. QED
      BY <2>3, <2>4, <3>1, BlankPiece
  <2>6. z \in Seq(Blank)
    <3>1. \A i \in (p + 1)..n : s[i] \in Blank
      BY <1>3, <2>2
    <3>2. QED
      BY <2>3, <2>4, <3>1, BlankPiece
  <2>7. y \in Seq(T)
    BY <2>3, <2>4, PieceType
  <2>8. y \o z = SubSeq(s, m, n)
    BY <2>3, <2>4, ConcatAdjacentSubSeq
  <2>9. x \o SubSeq(s, m, n) = SubSeq(s, 1, n)
    <3>1. SubSeq(s, 1, m - 1) \o SubSeq(s, m - 1 + 1, n) = SubSeq(s, 1, n)
      BY <2>4, ConcatAdjacentSubSeq
    <3>2. QED
      BY <2>3, <2>4, <3>1
  <2>10. SubSeq(s, 1, n) = s
    BY <1>2, SubSeqFull
  <2>11. Trim(s) = y
    BY <1>1, <1>2, <1>5, <2>1, <2>3
  <2>12. QED
    BY <2>5, <2>6, <2>7, <2>8, <2>9, <2>10, <2>11
<1>6. QED
  BY <1>4, <1>5

\* Blanks are a text.
LEMMA BlankText == Seq(Blank) \subseteq CharText
BY BlankChars, SeqMonotonic DEF CharText

\* Trimming keeps the words.
LEMMA WordsTrim ==
  ASSUME NEW s \in CharText
  PROVE  Words(Trim(s)) = Words(s)
<1>1. s \in Seq(Char)
  BY DEF CharText
<1>2. PICK t : t = Trim(s)
  OBVIOUS
<1>3. t \in Seq(Char) /\ \E a, b \in Seq(Blank) : s = a \o (t \o b)
  BY <1>1, <1>2, TrimIs
<1>4. PICK a, b \in Seq(Blank) : s = a \o (t \o b)
  BY <1>3
<1>5. t \in CharText /\ t \o b \in CharText
  <2>1. b \in Seq(Char)
    BY BlankText DEF CharText
  <2>2. QED
    BY <1>3, <2>1, ConcatProperties DEF CharText
<1>6. Words(t \o b) = Words(t)
  BY <1>5, WordsTail
<1>7. Words(a \o (t \o b)) = Words(t \o b)
  BY <1>5, WordsLead
<1>8. QED
  BY <1>2, <1>4, <1>6, <1>7

\* The words of lines, line after line.
WordsEach(ls) == [i \in DOMAIN ls |-> Words(ls[i])]
WordsOf(ls)   == FlattenSeq(WordsEach(ls))

\* The words of each line.
LEMMA WordsEachType ==
  ASSUME NEW ls \in Seq(CharText)
  PROVE  WordsEach(ls) \in Seq(Seq(SolidWord)) /\ Len(WordsEach(ls)) = Len(ls)
<1>1. Len(ls) \in Nat /\ DOMAIN ls = 1..Len(ls) /\ \A i \in 1..Len(ls) : ls[i] \in CharText
  OBVIOUS
<1>2. PICK p : p = WordsEach(ls)
  OBVIOUS
<1>3. \A i \in 1..Len(ls) : Words(ls[i]) \in Seq(SolidWord)
  BY <1>1, WordsType
<1>4. DOMAIN p = 1..Len(ls) /\ p \in [1..Len(ls) -> Seq(SolidWord)]
  BY <1>1, <1>2, <1>3 DEF WordsEach
<1>5. QED
  BY <1>1, <1>2, <1>4, IsSequence

\* The words of several lines are words.
LEMMA WordsOfType ==
  ASSUME NEW ls \in Seq(CharText)
  PROVE  WordsOf(ls) \in Seq(SolidWord)
BY WordsEachType, FlattenSeqType DEF WordsOf

\* No lines, no words.
LEMMA WordsOfNone == WordsOf(<<>>) = <<>>
BY DEF WordsOf, WordsEach, FlattenSeq

\* A line more adds its words at the end.
LEMMA WordsOfAppend ==
  ASSUME NEW ls \in Seq(CharText), NEW x \in CharText
  PROVE  IsConcat(WordsOf(Append(ls, x)), WordsOf(ls), Words(x))
<1>1. PICK r : r = Append(ls, x)
  OBVIOUS
<1>2. PICK n, m : n = Len(ls) /\ m = n + 1
  OBVIOUS
<1>3. /\ r \in Seq(CharText) /\ n \in Nat /\ Len(r) = m /\ r[m] = x /\ m \in 1..m
      /\ DOMAIN r = 1..m /\ DOMAIN ls = 1..n
      /\ \A i \in 1..n : i \in 1..m /\ r[i] = ls[i]
  BY <1>1, <1>2, AppendProperties
<1>4. PICK p, q : p = WordsEach(ls) /\ q = WordsEach(r)
  OBVIOUS
<1>5. p \in Seq(Seq(SolidWord)) /\ Len(p) = n /\ q \in Seq(Seq(SolidWord)) /\ Len(q) = m
  BY <1>2, <1>3, <1>4, WordsEachType
<1>6. /\ \A i \in 1..n : p[i] = q[i]
      /\ q[m] = Words(x)
  BY <1>3, <1>4 DEF WordsEach
<1>7. q[m] \in Seq(SolidWord) /\ \A i \in 1..n : p[i] \in Seq(SolidWord)
  BY <1>3, <1>5
<1>8. n = 0 => p = <<>>
  BY <1>5, EmptySeq
<1>9. IsConcat(FlattenSeq(q), FlattenSeq(p), q[m])
  BY <1>2, <1>3, <1>5, <1>6, <1>7, <1>8, FlattenSeqExtend
<1>10. QED
  BY <1>1, <1>4, <1>6, <1>9 DEF WordsOf

\* The words of lines joined with a blank.
LEMMA WordsJoined ==
  ASSUME NEW c \in Blank, NEW ls \in Seq(CharText)
  PROVE  JoinedBy(ls, c) \in CharText /\ Words(JoinedBy(ls, c)) = WordsOf(ls)
<1> DEFINE G == {ms \in Seq(CharText) : Words(JoinedBy(ms, c)) = WordsOf(ms)}
<1>0. c \in Char
  BY BlankChars
<1>1. <<>> \in G
  BY EmptySeq, JoinedByNone, WordsNone, WordsOfNone
<1>2. ASSUME NEW ms \in Seq(CharText), NEW x \in CharText, ms \in G
      PROVE  Append(ms, x) \in G
  <2>1. PICK r, j : r = JoinedBy(Append(ms, x), c) /\ j = JoinedBy(ms, c)
    OBVIOUS
  <2>2. JoinedMore(r, j, c, x, ms = <<>>)
    BY <1>0, <2>1, JoinedByAppend DEF CharText
  <2>3. j \in CharText
    BY <1>0, <2>1, JoinedByType DEF CharText
  <2>4. IsConcat(WordsOf(Append(ms, x)), WordsOf(ms), Words(x))
    BY WordsOfAppend
  <2>5. CASE ms = <<>>
    <3>1. r = x
      BY <2>2, <2>5 DEF JoinedMore
    <3>2. Words(x) \in Seq(SolidWord)
      BY WordsType
    <3>3. <<>> \o Words(x) = Words(x)
      BY <3>2, ConcatEmptySeq
    <3>4. Words(r) = WordsOf(Append(ms, x))
      BY <2>4, <2>5, <3>1, <3>3, WordsOfNone DEF IsConcat
    <3>5. QED
      BY <2>1, <3>4, AppendType
  <2>6. CASE ms # <<>>
    <3>1. r = j \o (<<c>> \o x)
      BY <2>2, <2>6 DEF JoinedMore
    <3>2. PICK o : o = <<c>> /\ o \in Seq(Char)
      BY <1>0, OneOf
    <3>3. j \in Seq(Char) /\ x \in Seq(Char)
      BY <2>3 DEF CharText
    <3>4. (j \o o) \o x = j \o (o \o x)
      BY <3>2, <3>3, ConcatAssociative
    <3>5. j \o <<c>> = Append(j, c)
      BY <1>0, <3>3, AppendIsConcat
    <3>6. Between(r, j, c, x)
      BY <3>1, <3>2, <3>4, <3>5 DEF Between
    <3>7. IsConcat(Words(r), Words(j), Words(x))
      BY <2>3, <3>6, WordsConcat
    <3>8. Words(r) = WordsOf(Append(ms, x))
      BY <1>2, <2>1, <2>4, <3>7 DEF IsConcat
    <3>9. QED
      BY <2>1, <3>8, AppendType
  <2>7. QED
    BY <2>5, <2>6
<1>3. Seq(CharText) \subseteq G
  <2> HIDE DEF G
  <2>1. QED
    BY <1>1, <1>2, SeqInduction
<1>4. JoinedBy(ls, c) \in CharText
  BY <1>0, JoinedByType DEF CharText
<1>5. QED
  BY <1>3, <1>4

\* Lines that have the same words, one by one, have them together.
LEMMA WordsSame ==
  ASSUME NEW ls, NEW ms, DOMAIN ls = DOMAIN ms, \A i \in DOMAIN ls : Words(ls[i]) = Words(ms[i])
  PROVE  WordsOf(ls) = WordsOf(ms)
BY DEF WordsOf, WordsEach

\* Words are their own words.
LEMMA WordsOfWords ==
  ASSUME NEW ws \in Seq(SolidWord)
  PROVE  ws \in Seq(CharText) /\ WordsOf(ws) = ws
<1> DEFINE G == {vs \in Seq(SolidWord) : WordsOf(vs) = vs}
<1>0. SolidWord \subseteq CharText
  <2>1. Char \ Blank \subseteq Char
    OBVIOUS
  <2>2. Seq(Char \ Blank) \subseteq Seq(Char)
    BY <2>1, SeqMonotonic
  <2>3. QED
    BY <2>2 DEF SolidWord, CharText
<1>00. Seq(SolidWord) \subseteq Seq(CharText)
  BY <1>0, SeqMonotonic
<1>1. <<>> \in G
  BY EmptySeq, WordsOfNone
<1>2. ASSUME NEW vs \in Seq(SolidWord), NEW w \in SolidWord, vs \in G
      PROVE  Append(vs, w) \in G
  <2>1. IsConcat(WordsOf(Append(vs, w)), WordsOf(vs), Words(w))
    BY <1>0, <1>00, WordsOfAppend
  <2>2. Words(w) = <<w>>
    BY WordsSolid
  <2>3. Append(vs, w) = vs \o <<w>>
    BY AppendIsConcat
  <2>4. Append(vs, w) \in Seq(SolidWord)
    BY AppendType
  <2>5. QED
    BY <1>2, <2>1, <2>2, <2>3, <2>4 DEF IsConcat
<1>3. Seq(SolidWord) \subseteq G
  <2> HIDE DEF G
  <2>1. QED
    BY <1>1, <1>2, SeqInduction
<1>4. QED
  BY <1>00, <1>3

\* Joining the words with single spaces (strings.Join(strings.Fields(s), " ")) keeps them.
LEMMA WordsSqueezed ==
  ASSUME NEW s \in CharText
  PROVE  Words(Squeezed(s)) = Words(s)
<1>1. PICK ws : ws = Words(s) /\ ws \in Seq(SolidWord)
  BY WordsType
<1>2. ws \in Seq(CharText) /\ WordsOf(ws) = ws
  BY <1>1, WordsOfWords
<1>3. PICK c : c = " " /\ c \in Blank
  BY DEF Blank
<1>4. Words(JoinedBy(ws, c)) = WordsOf(ws)
  BY <1>2, <1>3, WordsJoined
<1>5. QED
  BY <1>1, <1>2, <1>3, <1>4 DEF Squeezed

\* The lines of a text.
Line == Seq(Char \ {NL})

\* Lines are texts.
LEMMA LineText == Line \subseteq CharText /\ Seq(Line) \subseteq Seq(CharText)
<1>1. Char \ {NL} \subseteq Char
  OBVIOUS
<1>2. Line \subseteq CharText
  BY <1>1, SeqMonotonic DEF Line, CharText
<1>3. QED
  BY <1>2, SeqMonotonic

\* A text has lines, at least one.
LEMMA LinesType ==
  ASSUME NEW s \in CharText
  PROVE  Lines(s) \in Seq(Line) /\ Lines(s) # <<>>
BY SplitAtType DEF Lines, Line, CharText

\* The newline is a blank character.
LEMMA NewLine == NL \in Blank /\ NL \in Char
BY BlankChars DEF Blank

\* The words of a text are those of its lines, one line after the other.
LEMMA WordsOfLines ==
  ASSUME NEW s \in CharText
  PROVE  WordsOf(Lines(s)) = Words(s)
<1>1. PICK ls : ls = Lines(s) /\ ls \in Seq(Line)
  BY LinesType
<1>2. JoinedBy(ls, NL) = s
  BY <1>1, NewLine, JoinedSplit DEF Lines, CharText
<1>3. ls \in Seq(CharText)
  BY <1>1, LineText
<1>4. Words(JoinedBy(ls, NL)) = WordsOf(ls)
  BY <1>3, NewLine, WordsJoined
<1>5. QED
  BY <1>1, <1>2, <1>4

-----------------------------------------------------------------------------
(* Lines trimmed and dedented have the words they had.                     *)

\* Dropping the last line, when it is empty, keeps the words.
LEMMA NoLastBlankWords ==
  ASSUME NEW ls \in Seq(Line), ls # <<>>
  PROVE  NoLastBlank(ls) \in Seq(Line) /\ WordsOf(NoLastBlank(ls)) = WordsOf(ls)
<1>1. PICK f \in Seq(Line), e \in Line : ls = Append(f, e)
  BY SequenceEmptyOrAppend
<1>2. Front(ls) = f /\ Last(ls) = e
  BY <1>1, FrontOfAppend
<1>3. CASE e = <<>>
  <2>1. NoLastBlank(ls) = f
    BY <1>2, <1>3 DEF NoLastBlank
  <2>2. f \in Seq(CharText) /\ e \in CharText
    BY LineText
  <2>3. IsConcat(WordsOf(Append(f, e)), WordsOf(f), Words(e))
    BY <2>2, WordsOfAppend
  <2>4. WordsOf(f) \in Seq(SolidWord)
    BY <2>2, WordsOfType
  <2>5. WordsOf(f) \o <<>> = WordsOf(f)
    BY <2>4, ConcatEmptySeq
  <2>6. QED
    BY <1>1, <1>3, <2>1, <2>3, <2>5, WordsNone DEF IsConcat
<1>4. CASE e # <<>>
  BY <1>2, <1>4 DEF NoLastBlank
<1>5. QED
  BY <1>3, <1>4

\* Trimming every line keeps the words.
LEMMA WordsOfTrimmed ==
  ASSUME NEW ls \in Seq(CharText)
  PROVE  WordsOf(Trimmed(ls)) = WordsOf(ls)
<1>1. DOMAIN ls = 1..Len(ls) /\ \A i \in 1..Len(ls) : ls[i] \in CharText
  OBVIOUS
<1>2. PICK ms : ms = Trimmed(ls)
  OBVIOUS
<1>3. DOMAIN ms = DOMAIN ls /\ \A i \in DOMAIN ls : ms[i] = Trim(ls[i])
  BY <1>2 DEF Trimmed
<1>4. \A i \in DOMAIN ls : Words(ms[i]) = Words(ls[i])
  BY <1>1, <1>3, WordsTrim
<1>5. QED
  BY <1>2, <1>3, <1>4, WordsSame

\* A text without the first k characters, which are blank.
LEMMA WordsIndented ==
  ASSUME NEW s \in CharText, NEW k \in 0..Len(s), \A i \in 1..k : s[i] \in Blank
  PROVE  SubSeq(s, k + 1, Len(s)) \in CharText /\ Words(SubSeq(s, k + 1, Len(s))) = Words(s)
<1>1. PICK n : n = Len(s)
  OBVIOUS
<1>2. s \in Seq(Char) /\ n \in Nat /\ k \in 0..n
  BY <1>1 DEF CharText
<1>3. /\ 1 \in 1..(n + 1) /\ k \in (1 - 1)..n /\ n \in k..n
      /\ k + 1 \in 1..(n + 1) /\ n \in (k + 1 - 1)..n
  BY <1>2
<1>4. PICK x, y : x = SubSeq(s, 1, k) /\ y = SubSeq(s, k + 1, n)
  OBVIOUS
<1>5. x \in Seq(Blank)
  BY <1>1, <1>2, <1>3, <1>4, BlankPiece
<1>6. y \in CharText
  BY <1>1, <1>2, <1>3, <1>4, PieceType DEF CharText
<1>7. x \o y = SubSeq(s, 1, n)
  BY <1>1, <1>2, <1>3, <1>4, ConcatAdjacentSubSeq
<1>8. SubSeq(s, 1, n) = s
  BY <1>1, <1>2, SubSeqFull
<1>9. Words(x \o y) = Words(y)
  BY <1>5, <1>6, WordsLead
<1>10. QED
  BY <1>1, <1>4, <1>6, <1>7, <1>8, <1>9

\* The blanks a line begins with, of a line that has more.
IndentOf(l) == Min({k \in DOMAIN l : l[k] \notin Blank}) - 1

\* The indentation of a line is blanks within the line.
LEMMA IndentIs ==
  ASSUME NEW s \in CharText, Trim(s) # <<>>
  PROVE  IndentOf(s) \in 0..Len(s) /\ \A i \in 1..IndentOf(s) : s[i] \in Blank
<1>1. PICK n, o : n = Len(s) /\ o = Solid(s)
  OBVIOUS
<1>2. o # {}
  BY <1>1 DEF Trim, Solid
<1>3. s \in Seq(Char)
  BY DEF CharText
<1>4. /\ n \in Nat /\ o \subseteq 1..n /\ \A i : i \in o <=> i \in 1..n /\ s[i] \notin Blank
      /\ Min(o) \in o /\ \A i \in o : Min(o) <= i
  BY <1>1, <1>2, <1>3, SolidPlaces
<1>5. PICK m : m = Min(o) - 1
  OBVIOUS
<1>6. m \in 0..n /\ \A i \in 1..m : s[i] \in Blank
  BY <1>4, <1>5
<1>7. IndentOf(s) = m
  BY <1>1, <1>5 DEF IndentOf, Solid
<1>8. QED
  BY <1>1, <1>6, <1>7

\* Taking the common indentation away keeps the words.
LEMMA WordsDedented ==
  ASSUME NEW s \in CharText
  PROVE  Words(Dedented(s)) = Words(s)
<1>1. PICK ls : ls = Lines(s) /\ ls \in Seq(Line)
  BY LinesType
<1>2. ls \in Seq(CharText) /\ DOMAIN ls = 1..Len(ls) /\ \A i \in DOMAIN ls : ls[i] \in CharText
  BY <1>1, LineText
<1>3. PICK solid : solid = {i \in DOMAIN ls : Trim(ls[i]) # <<>>}
  OBVIOUS
<1>4. PICK least : least = IF solid = {} THEN 0 ELSE Min({IndentOf(ls[i]) : i \in solid})
  OBVIOUS
<1>5. PICK ds : ds = [i \in DOMAIN ls |->
                       IF i \in solid THEN SubSeq(ls[i], least + 1, Len(ls[i])) ELSE ls[i]]
  OBVIOUS
<1>6. Dedented(s) = Joined(ds)
  BY <1>1, <1>3, <1>4, <1>5 DEF Dedented, IndentOf
<1>7. ASSUME NEW i \in solid
      PROVE  ds[i] \in CharText /\ Words(ds[i]) = Words(ls[i])
  <2>1. PICK l : l = ls[i] /\ l \in CharText /\ Trim(l) # <<>>
    BY <1>2, <1>3
  <2>2. IndentOf(l) \in 0..Len(l) /\ \A j \in 1..IndentOf(l) : l[j] \in Blank
    BY <2>1, IndentIs
  <2>3. PICK D : D = {IndentOf(ls[j]) : j \in solid}
    OBVIOUS
  <2>4. D # {} /\ IndentOf(l) \in D /\ least = Min(D)
    BY <1>4, <2>1, <2>3
  <2>5. D \subseteq Nat
    <3>1. \A j \in solid : ls[j] \in CharText /\ Trim(ls[j]) # <<>>
      BY <1>2, <1>3
    <3>2. \A j \in solid : IndentOf(ls[j]) \in Nat
      BY <3>1, IndentIs
    <3>3. QED
      BY <2>3, <3>2
  <2>6. least \in D /\ least <= IndentOf(l)
    BY <2>4, <2>5, LeastPlace
  <2>7. least \in 0..Len(l) /\ \A j \in 1..least : l[j] \in Blank
    BY <2>2, <2>5, <2>6
  <2>8. PICK d : d = SubSeq(l, least + 1, Len(l))
    OBVIOUS
  <2>9. d \in CharText /\ Words(d) = Words(l)
    BY <2>1, <2>7, <2>8, WordsIndented
  <2>10. ds[i] = d
    BY <1>3, <1>5, <2>1, <2>8
  <2>11. QED
    BY <2>1, <2>9, <2>10
<1>8. ASSUME NEW i \in DOMAIN ls
      PROVE  ds[i] \in CharText /\ Words(ds[i]) = Words(ls[i])
  <2>1. CASE i \in solid
    BY <1>7, <2>1
  <2>2. CASE i \notin solid
    BY <1>2, <1>5, <2>2
  <2>3. QED
    BY <2>1, <2>2
<1>9. ds \in Seq(CharText) /\ DOMAIN ds = DOMAIN ls
  <2>1. Len(ls) \in Nat /\ DOMAIN ds = 1..Len(ls)
    BY <1>1, <1>2, <1>5
  <2>2. ds \in [1..Len(ls) -> CharText]
    BY <1>2, <1>5, <1>8, <2>1
  <2>3. QED
    BY <1>2, <2>1, <2>2, IsSequence
<1>10. Words(JoinedBy(ds, NL)) = WordsOf(ds)
  BY <1>9, NewLine, WordsJoined
<1>11. WordsOf(ds) = WordsOf(ls)
  BY <1>8, <1>9, WordsSame
<1>12. QED
  BY <1>1, <1>6, <1>10, <1>11, WordsOfLines DEF Joined

-----------------------------------------------------------------------------
(* Texts built from their ends.                                            *)

\* Induction from the end of a text to its start.
LEMMA DownInduction ==
  ASSUME NEW n \in Nat, NEW S, n + 1 \in S,
         \A i \in 1..n : (\A j \in (i + 1)..(n + 1) : j \in S) => i \in S
  PROVE  1..(n + 1) \subseteq S
<1> DEFINE T == {k \in Nat : n + 1 - k \in (1..(n + 1)) \ S}
<1>1. SUFFICES ASSUME NEW x \in (1..(n + 1)) \ S
               PROVE  FALSE
  OBVIOUS
<1>2. n + 1 - x \in Nat /\ n + 1 - (n + 1 - x) = x
  OBVIOUS
<1>3. T # {}
  BY <1>2
<1>4. PICK k \in T : \A j \in T : k <= j
  <2> HIDE DEF T
  <2>1. T \subseteq Nat
    BY DEF T
  <2>2. QED
    BY <1>3, <2>1, LeastNatural
<1>5. PICK i : i = n + 1 - k
  OBVIOUS
<1>6. i \in 1..n /\ i \notin S
  BY <1>4, <1>5
<1>7. ASSUME NEW j \in (i + 1)..(n + 1), j \notin S
      PROVE  FALSE
  <2>1. PICK m : m = n + 1 - j
    OBVIOUS
  <2>2. m \in Nat /\ n + 1 - m = j /\ m < k /\ j \in 1..(n + 1)
    BY <1>4, <1>5, <1>6, <2>1
  <2>3. m \in T
    BY <1>7, <2>2
  <2>4. QED
    BY <1>4, <2>2, <2>3
<1>8. QED
  BY <1>6, <1>7

\* At each place a text, and what is built from a later place.
TailStep(f, pre, next, last, n, i)  == IF i > n THEN last ELSE pre[i] \o f[next[i]]
Tails(f, pre, next, last, n, a)     ==
  f = [i \in a..(n + 1) |-> TailStep(f, pre, next, last, n, i)]
Later(next, n)                      == \A i \in 1..n : next[i] \in (i + 1)..(n + 1)

\* A function defined from the end, at a place.
LEMMA TailsAt ==
  ASSUME NEW f, NEW pre, NEW next, NEW last, NEW n, NEW a, Tails(f, pre, next, last, n, a),
         NEW i \in a..(n + 1)
  PROVE  f[i] = TailStep(f, pre, next, last, n, i)
BY DEF Tails

\* A function defined from the end, each place by a later one, exists.
LEMMA TailsExist ==
  ASSUME NEW pre, NEW next, NEW last, NEW n \in Nat, Later(next, n)
  PROVE  \E f : Tails(f, pre, next, last, n, 1)
<1> DEFINE S == {a \in 1..(n + 1) : \E f : Tails(f, pre, next, last, n, a)}
<1>1. n + 1 \in S
  <2>1. Tails([i \in (n + 1)..(n + 1) |-> last], pre, next, last, n, n + 1)
    <3>1. \A i \in (n + 1)..(n + 1) : i > n
      OBVIOUS
    <3>2. QED
      BY <3>1 DEF Tails, TailStep
  <2>2. QED
    BY <2>1
<1>2. ASSUME NEW i \in 1..n, \A j \in (i + 1)..(n + 1) : j \in S
      PROVE  i \in S
  <2>1. i + 1 \in (i + 1)..(n + 1)
    OBVIOUS
  <2>2. PICK f : Tails(f, pre, next, last, n, i + 1)
    BY <1>2, <2>1
  <2> DEFINE g == [j \in i..(n + 1) |-> TailStep(f, pre, next, last, n, j)]
  <2>3. \A j \in (i + 1)..(n + 1) : j \in i..(n + 1) /\ f[j] = g[j]
    BY <2>2, TailsAt
  <2>4. \A j \in i..(n + 1) : TailStep(f, pre, next, last, n, j) = TailStep(g, pre, next, last, n, j)
    <3> HIDE DEF g
    <3>1. \A j \in i..(n + 1) : ~(j > n) => next[j] \in (i + 1)..(n + 1)
      <4>1. \A j \in i..(n + 1) : ~(j > n) => j \in 1..n /\ i <= j
        OBVIOUS
      <4>2. \A j \in 1..n : next[j] \in (j + 1)..(n + 1)
        BY DEF Later
      <4>3. QED
        BY <4>1, <4>2
    <3>2. QED
      BY <2>3, <3>1 DEF TailStep
  <2>5. Tails(g, pre, next, last, n, i)
    BY <2>4 DEF Tails
  <2>6. i \in 1..(n + 1)
    OBVIOUS
  <2>7. QED
    BY <2>5, <2>6
<1>3. 1..(n + 1) \subseteq S
  <2> HIDE DEF S
  <2>1. QED
    BY <1>1, <1>2, DownInduction
<1>4. 1 \in 1..(n + 1)
  OBVIOUS
<1>5. QED
  BY <1>3, <1>4

\* When every piece is a text, so is every tail.
LEMMA TailsType ==
  ASSUME NEW T, NEW pre, NEW next, NEW last \in Seq(T), NEW n \in Nat, Later(next, n),
         \A i \in 1..n : pre[i] \in Seq(T), NEW f, Tails(f, pre, next, last, n, 1)
  PROVE  \A i \in 1..(n + 1) : f[i] \in Seq(T)
<1> DEFINE S == {i \in 1..(n + 1) : f[i] \in Seq(T)}
<1>1. n + 1 \in S
  <2>1. n + 1 \in 1..(n + 1) /\ n + 1 > n
    OBVIOUS
  <2>2. f[n + 1] = TailStep(f, pre, next, last, n, n + 1)
    BY <2>1, TailsAt
  <2>3. f[n + 1] = last
    BY <2>1, <2>2 DEF TailStep
  <2>4. QED
    BY <2>1, <2>3
<1>2. ASSUME NEW i \in 1..n, \A j \in (i + 1)..(n + 1) : j \in S
      PROVE  i \in S
  <2>1. i \in 1..(n + 1) /\ ~(i > n)
    OBVIOUS
  <2>2. f[i] = TailStep(f, pre, next, last, n, i)
    BY <2>1, TailsAt
  <2>3. f[i] = pre[i] \o f[next[i]]
    BY <2>1, <2>2 DEF TailStep
  <2>4. next[i] \in (i + 1)..(n + 1)
    BY DEF Later
  <2>5. pre[i] \in Seq(T) /\ f[next[i]] \in Seq(T)
    BY <1>2, <2>4
  <2>6. pre[i] \o f[next[i]] \in Seq(T)
    BY <2>5, ConcatProperties
  <2>7. QED
    BY <2>1, <2>3, <2>6
<1>3. 1..(n + 1) \subseteq S
  <2> HIDE DEF S
  <2>1. QED
    BY <1>1, <1>2, DownInduction
<1>4. QED
  BY <1>3

\* A backslash and what it escapes.
Escaped(s, i)    == s[i] = "\\" /\ i < Len(s) /\ s[i + 1] \in DOMAIN Escapes
PlainStep(f, s, i) ==
  IF i > Len(s) THEN <<>>
  ELSE IF Escaped(s, i) THEN <<Escapes[s[i + 1]]>> \o f[i + 2] ELSE <<s[i]>> \o f[i + 1]
Plain(f, s)      == f = [i \in 1..(Len(s) + 1) |-> PlainStep(f, s, i)]
PlainPart(s)     == [i \in 1..Len(s) |-> IF Escaped(s, i) THEN <<Escapes[s[i + 1]]>> ELSE <<s[i]>>]
PlainNext(s)     == [i \in 1..Len(s) |-> IF Escaped(s, i) THEN i + 2 ELSE i + 1]

\* Unescaping is defined from the end: a place by a later one.
LEMMA PlainTails ==
  ASSUME NEW s \in CharText, NEW f
  PROVE  Plain(f, s) <=> Tails(f, PlainPart(s), PlainNext(s), <<>>, Len(s), 1)
<1>1. Len(s) \in Nat
  BY DEF CharText
<1>2. ASSUME NEW i \in 1..(Len(s) + 1)
      PROVE  PlainStep(f, s, i) = TailStep(f, PlainPart(s), PlainNext(s), <<>>, Len(s), i)
  <2>1. CASE i > Len(s)
    BY <2>1 DEF PlainStep, TailStep
  <2>2. CASE ~(i > Len(s))
    <3>1. i \in 1..Len(s)
      BY <1>1, <2>2
    <3>2. /\ PlainPart(s)[i] = IF Escaped(s, i) THEN <<Escapes[s[i + 1]]>> ELSE <<s[i]>>
          /\ PlainNext(s)[i] = IF Escaped(s, i) THEN i + 2 ELSE i + 1
      BY <3>1 DEF PlainPart, PlainNext
    <3>3. TailStep(f, PlainPart(s), PlainNext(s), <<>>, Len(s), i)
            = PlainPart(s)[i] \o f[PlainNext(s)[i]]
      BY <2>2 DEF TailStep
    <3>4. CASE Escaped(s, i)
      BY <2>2, <3>2, <3>3, <3>4 DEF PlainStep
    <3>5. CASE ~Escaped(s, i)
      BY <2>2, <3>2, <3>3, <3>5 DEF PlainStep
    <3>6. QED
      BY <3>4, <3>5
  <2>3. QED
    BY <2>1, <2>2
<1>3. QED
  BY <1>2, Zenon DEF Plain, Tails

\* Unescaping a text gives a text.
LEMMA UnescapedType ==
  ASSUME NEW s \in CharText
  PROVE  Unescaped(s) \in CharText
<1>1. PICK n : n = Len(s)
  OBVIOUS
<1>2. n \in Nat /\ \A i \in 1..n : s[i] \in Char
  BY <1>1 DEF CharText
<1>3. PICK pre, next : pre = PlainPart(s) /\ next = PlainNext(s)
  OBVIOUS
<1>4. \A i \in 1..n : pre[i] = (IF Escaped(s, i) THEN <<Escapes[s[i + 1]]>> ELSE <<s[i]>>)
                      /\ next[i] = (IF Escaped(s, i) THEN i + 2 ELSE i + 1)
  BY <1>1, <1>3 DEF PlainPart, PlainNext
<1>5. \A c \in DOMAIN Escapes : Escapes[c] \in Char
  <2>1. "\\" \in Char /\ NL \in Char
    BY NewLine DEF Char
  <2>2. QED
    BY <2>1 DEF Escapes
<1>6. \A i \in 1..n : pre[i] \in Seq(Char)
  <2>1. SUFFICES ASSUME NEW i \in 1..n
                 PROVE  pre[i] \in Seq(Char)
    OBVIOUS
  <2>2. CASE Escaped(s, i)
    <3>1. PICK c : c = Escapes[s[i + 1]] /\ c \in Char
      BY <1>5, <2>2 DEF Escaped
    <3>2. QED
      BY <1>4, <2>2, <3>1, OneOf
  <2>3. CASE ~Escaped(s, i)
    <3>1. <<s[i]>> \in Seq(Char)
      BY <1>2, OneOf
    <3>2. QED
      BY <1>4, <2>3, <3>1
  <2>4. QED
    BY <2>2, <2>3
<1>7. Later(next, n)
  <2>1. SUFFICES ASSUME NEW i \in 1..n
                 PROVE  next[i] \in (i + 1)..(n + 1)
    BY DEF Later
  <2>2. CASE Escaped(s, i)
    <3>1. i < n /\ next[i] = i + 2
      BY <1>1, <1>4, <2>2 DEF Escaped
    <3>2. QED
      BY <1>2, <3>1
  <2>3. CASE ~Escaped(s, i)
    <3>1. next[i] = i + 1
      BY <1>4, <2>3
    <3>2. QED
      BY <1>2, <3>1
  <2>4. QED
    BY <2>2, <2>3
<1>8. \E f : Plain(f, s)
  BY <1>1, <1>2, <1>3, <1>7, TailsExist, PlainTails
<1> DEFINE from == CHOOSE f : Plain(f, s)
<1>9. Plain(from, s)
  BY <1>8
<1>10. Unescaped(s) = from[1]
  BY DEF Unescaped, Plain, PlainStep, Escaped
<1> HIDE DEF from
<1>11. Tails(from, pre, next, <<>>, n, 1)
  BY <1>1, <1>3, <1>9, PlainTails
<1>12. <<>> \in Seq(Char)
  BY EmptySeq
<1>13. \A i \in 1..(n + 1) : from[i] \in Seq(Char)
  BY <1>2, <1>6, <1>7, <1>11, <1>12, TailsType
<1>14. 1 \in 1..(n + 1)
  BY <1>2
<1>15. QED
  BY <1>10, <1>13, <1>14 DEF CharText

\* What ReplaceAll makes of a text from a place on.
AllStep(f, s, c, new, i) ==
  IF c = <<>> THEN new \o IF i > Len(s) THEN <<>> ELSE <<s[i]>> \o f[i + 1]
  ELSE IF i > Len(s) THEN <<>>
  ELSE IF i \in Occurrences(s, c) THEN new \o f[i + Len(c)]
  ELSE <<s[i]>> \o f[i + 1]
AllOf(f, s, c, new) == f = [i \in 1..(Len(s) + 1) |-> AllStep(f, s, c, new, i)]
EmptyPart(s, new)   == [i \in 1..Len(s) |-> new \o <<s[i]>>]
EmptyNext(s)        == [i \in 1..Len(s) |-> i + 1]
AllPart(s, c, new)  == [i \in 1..Len(s) |-> IF i \in Occurrences(s, c) THEN new ELSE <<s[i]>>]
AllNext(s, c)       == [i \in 1..Len(s) |-> IF i \in Occurrences(s, c) THEN i + Len(c) ELSE i + 1]

\* Replacing every occurrence is defined from the end as well.
LEMMA AllTails ==
  ASSUME NEW s \in CharText, NEW c, c # <<>>, NEW new, NEW f
  PROVE  AllOf(f, s, c, new) <=> Tails(f, AllPart(s, c, new), AllNext(s, c), <<>>, Len(s), 1)
<1>1. Len(s) \in Nat
  BY DEF CharText
<1>2. ASSUME NEW i \in 1..(Len(s) + 1)
      PROVE  AllStep(f, s, c, new, i) = TailStep(f, AllPart(s, c, new), AllNext(s, c), <<>>, Len(s), i)
  <2>1. CASE i > Len(s)
    BY <2>1 DEF AllStep, TailStep
  <2>2. CASE ~(i > Len(s))
    <3>1. i \in 1..Len(s)
      BY <1>1, <2>2
    <3>2. /\ AllPart(s, c, new)[i] = IF i \in Occurrences(s, c) THEN new ELSE <<s[i]>>
          /\ AllNext(s, c)[i] = IF i \in Occurrences(s, c) THEN i + Len(c) ELSE i + 1
      BY <3>1 DEF AllPart, AllNext
    <3>3. TailStep(f, AllPart(s, c, new), AllNext(s, c), <<>>, Len(s), i)
            = AllPart(s, c, new)[i] \o f[AllNext(s, c)[i]]
      BY <2>2 DEF TailStep
    <3>4. CASE i \in Occurrences(s, c)
      BY <2>2, <3>2, <3>3, <3>4 DEF AllStep
    <3>5. CASE i \notin Occurrences(s, c)
      BY <2>2, <3>2, <3>3, <3>5 DEF AllStep
    <3>6. QED
      BY <3>4, <3>5
  <2>3. QED
    BY <2>1, <2>2
<1>3. QED
  BY <1>2, Zenon DEF AllOf, Tails

\* Replacing every occurrence of a text gives a text.
LEMMA ReplacedAllSome ==
  ASSUME NEW s \in CharText, NEW c \in CharText, c # <<>>, NEW new \in CharText
  PROVE  ReplacedAll(s, c, new) \in CharText
<1>1. PICK n, o : n = Len(s) /\ o = Occurrences(s, c)
  OBVIOUS
<1>2. n \in Nat /\ Len(c) \in Nat \ {0} /\ \A i \in 1..n : s[i] \in Char
  BY <1>1, EmptySeq DEF CharText
<1>3. PICK pre, next : pre = AllPart(s, c, new) /\ next = AllNext(s, c)
  OBVIOUS
<1>4. \A i \in 1..n : pre[i] = (IF i \in o THEN new ELSE <<s[i]>>)
                      /\ next[i] = (IF i \in o THEN i + Len(c) ELSE i + 1)
  BY <1>1, <1>3 DEF AllPart, AllNext
<1>6. \A i \in 1..n : pre[i] \in Seq(Char)
  <2>1. SUFFICES ASSUME NEW i \in 1..n
                 PROVE  pre[i] \in Seq(Char)
    OBVIOUS
  <2>2. <<s[i]>> \in Seq(Char) /\ new \in Seq(Char)
    BY <1>2, OneOf DEF CharText
  <2>3. QED
    BY <1>4, <2>2
<1>7. Later(next, n)
  <2>1. SUFFICES ASSUME NEW i \in 1..n
                 PROVE  next[i] \in (i + 1)..(n + 1)
    BY DEF Later
  <2>2. CASE i \in o
    <3>1. PICK l : l = Len(c) /\ l \in Nat \ {0}
      BY <1>2
    <3>2. i + l <= n + 1
      BY <1>1, <1>2, <2>2, <3>1 DEF Occurrences
    <3>3. next[i] = i + l
      BY <1>4, <2>2, <3>1
    <3>4. QED
      BY <1>2, <3>1, <3>2, <3>3
  <2>3. CASE i \notin o
    <3>1. next[i] = i + 1
      BY <1>4, <2>3
    <3>2. QED
      BY <1>2, <3>1
  <2>4. QED
    BY <2>2, <2>3
<1>8. \E f : AllOf(f, s, c, new)
  BY <1>1, <1>2, <1>3, <1>7, TailsExist, AllTails
<1> DEFINE from == CHOOSE f : AllOf(f, s, c, new)
<1>9. AllOf(from, s, c, new)
  BY <1>8
<1>10. ReplacedAll(s, c, new) = from[1]
  BY DEF ReplacedAll, AllOf, AllStep
<1> HIDE DEF from
<1>11. Tails(from, pre, next, <<>>, n, 1)
  BY <1>1, <1>3, <1>9, AllTails
<1>12. <<>> \in Seq(Char)
  BY EmptySeq
<1>13. \A i \in 1..(n + 1) : from[i] \in Seq(Char)
  BY <1>2, <1>6, <1>7, <1>11, <1>12, TailsType
<1>14. 1 \in 1..(n + 1)
  BY <1>2
<1>15. QED
  BY <1>10, <1>13, <1>14 DEF CharText

\* So does strings.ReplaceAll of the empty text, which puts new between characters.
LEMMA ReplacedAllNone ==
  ASSUME NEW s \in CharText, NEW new \in CharText
  PROVE  ReplacedAll(s, <<>>, new) \in CharText
<1>1. PICK n, c : n = Len(s) /\ c = <<>>
  OBVIOUS
<1>2. n \in Nat /\ new \in Seq(Char) /\ \A i \in 1..n : <<s[i]>> \in Seq(Char)
  BY <1>1, OneOf DEF CharText
<1>3. PICK pre, next, last : pre = EmptyPart(s, new) /\ next = EmptyNext(s) /\ last = new \o <<>>
  OBVIOUS
<1>4. \A i \in 1..n : pre[i] = new \o <<s[i]>> /\ next[i] = i + 1
  BY <1>1, <1>3 DEF EmptyPart, EmptyNext
<1>5. last \in Seq(Char) /\ \A i \in 1..n : pre[i] \in Seq(Char)
  <2>1. ASSUME NEW x \in Seq(Char)
        PROVE  new \o x \in Seq(Char)
    <3>1. new \in Seq(Char)
      BY <1>2
    <3>2. QED
      BY <3>1, ConcatProperties
  <2>2. <<>> \in Seq(Char)
    BY EmptySeq
  <2>3. last \in Seq(Char)
    BY <1>3, <2>1, <2>2
  <2>4. ASSUME NEW i \in 1..n
        PROVE  pre[i] \in Seq(Char)
    <3>1. PICK x : x = <<s[i]>> /\ x \in Seq(Char)
      BY <1>2
    <3>2. QED
      BY <1>4, <2>1, <3>1
  <2>5. QED
    BY <2>3, <2>4
<1>6. Later(next, n)
  <2>1. \A i \in 1..n : i + 1 \in (i + 1)..(n + 1)
    BY <1>2
  <2>2. \A i \in 1..n : next[i] = i + 1
    BY <1>4
  <2>3. QED
    BY <2>1, <2>2 DEF Later
<1>7. PICK f : Tails(f, pre, next, last, n, 1)
  BY <1>2, <1>6, TailsExist
<1>8. \A i \in 1..(n + 1) : f[i] \in Seq(Char)
  BY <1>2, <1>5, <1>6, <1>7, TailsType
<1>9. ASSUME NEW i \in 1..(n + 1)
      PROVE  TailStep(f, pre, next, last, n, i) = AllStep(f, s, c, new, i)
  <2>1. CASE i > n
    BY <1>1, <1>3, <2>1 DEF TailStep, AllStep
  <2>2. CASE ~(i > n)
    <3>1. i \in 1..n /\ i + 1 \in 1..(n + 1)
      BY <1>2, <2>2
    <3>2. PICK o, g : o = <<s[i]>> /\ g = f[i + 1] /\ o \in Seq(Char) /\ g \in Seq(Char)
      BY <1>2, <1>8, <3>1
    <3>3. (new \o o) \o g = new \o (o \o g)
      <4>1. new \in Seq(Char) /\ o \in Seq(Char) /\ g \in Seq(Char)
        BY <1>2, <3>2
      <4>2. QED
        BY <4>1, ConcatAssociative
    <3>4. TailStep(f, pre, next, last, n, i) = (new \o o) \o g
      BY <1>4, <2>2, <3>1, <3>2 DEF TailStep
    <3>5. AllStep(f, s, c, new, i) = new \o (o \o g)
      BY <1>1, <2>2, <3>2 DEF AllStep
    <3>6. QED
      BY <3>3, <3>4, <3>5
  <2>3. QED
    BY <2>1, <2>2
<1>10. AllOf(f, s, c, new)
  BY <1>1, <1>7, <1>9, Zenon DEF AllOf, Tails
<1> DEFINE from == CHOOSE g : AllOf(g, s, c, new)
<1>11. AllOf(from, s, c, new)
  BY <1>10
<1>12. ReplacedAll(s, c, new) = from[1]
  BY DEF ReplacedAll, AllOf, AllStep
<1> HIDE DEF from
<1>13. \A i \in 1..(n + 1) : from[i] = AllStep(from, s, c, new, i)
  BY <1>1, <1>11 DEF AllOf
<1> DEFINE S == {i \in 1..(n + 1) : from[i] \in Seq(Char)}
<1>14. n + 1 \in S
  <2>1. n + 1 \in 1..(n + 1) /\ n + 1 > n
    BY <1>2
  <2>2. AllStep(from, s, c, new, n + 1) = new \o <<>>
    BY <1>1, <2>1 DEF AllStep
  <2>3. QED
    BY <1>3, <1>5, <1>13, <2>1, <2>2
<1>15. ASSUME NEW i \in 1..n, \A j \in (i + 1)..(n + 1) : j \in S
       PROVE  i \in S
  <2>1. i \in 1..(n + 1) /\ ~(i > n) /\ i + 1 \in (i + 1)..(n + 1)
    BY <1>2
  <2>2. PICK o, g : o = <<s[i]>> /\ g = from[i + 1] /\ o \in Seq(Char) /\ g \in Seq(Char)
    BY <1>2, <1>15, <2>1
  <2>3. AllStep(from, s, c, new, i) = new \o (o \o g)
    BY <1>1, <2>1, <2>2 DEF AllStep
  <2>4. o \o g \in Seq(Char)
    BY <2>2, ConcatProperties
  <2>5. new \o (o \o g) \in Seq(Char)
    BY <1>2, <2>4, ConcatProperties
  <2>6. QED
    BY <1>13, <2>1, <2>3, <2>5
<1>16. 1..(n + 1) \subseteq S
  <2> HIDE DEF S
  <2>1. QED
    BY <1>2, <1>14, <1>15, DownInduction
<1>17. 1 \in 1..(n + 1)
  BY <1>2
<1>18. QED
  BY <1>1, <1>12, <1>16, <1>17 DEF CharText

\* Replacing one occurrence gives a text.
LEMMA ReplacedOnceType ==
  ASSUME NEW s \in CharText, NEW c \in CharText, NEW new \in CharText, HasText(s, c)
  PROVE  ReplacedOnce(s, c, new) \in CharText
<1>1. PICK n, l, o : n = Len(s) /\ l = Len(c) /\ o = Occurrences(s, c)
  OBVIOUS
<1>2. s \in Seq(Char) /\ new \in Seq(Char) /\ n \in Nat /\ l \in Nat
  BY <1>1 DEF CharText
<1>3. o # {} /\ o \subseteq Nat /\ \A i \in o : i \in 1..(n + 1 - l)
  BY <1>1, <1>2 DEF HasText, Occurrences
<1>4. PICK i : i = Min(o) /\ i \in 1..(n + 1 - l)
  BY <1>3, LeastPlace
<1>5. PICK a, b : a = SubSeq(s, 1, i - 1) /\ b = SubSeq(s, i + l, n)
  OBVIOUS
<1>6. a \in Seq(Char)
  <2>1. 1 \in 1..(Len(s) + 1) /\ i - 1 \in (1 - 1)..Len(s)
    BY <1>1, <1>2, <1>4
  <2>2. QED
    BY <1>2, <1>5, <2>1, PieceType
<1>7. b \in Seq(Char)
  <2>1. i + l \in 1..(Len(s) + 1) /\ n \in (i + l - 1)..Len(s)
    BY <1>1, <1>2, <1>4
  <2>2. QED
    BY <1>2, <1>5, <2>1, PieceType
<1>8. a \o new \in Seq(Char)
  BY <1>2, <1>6, ConcatProperties
<1>9. (a \o new) \o b \in Seq(Char)
  BY <1>7, <1>8, ConcatProperties
<1>10. QED
  BY <1>1, <1>4, <1>5, <1>9 DEF ReplacedOnce, CharText

-----------------------------------------------------------------------------
(* What the matchers offer is like old_string.                             *)

AlikeTexts(find) == {m \in CharText : Alike(m, find)}

\* A text with the words of the one asked for is like it.
LEMMA SameWordsAlike ==
  ASSUME NEW m \in CharText, NEW find, Words(m) = Words(find)
  PROVE  m \in AlikeTexts(find)
BY DEF AlikeTexts, Alike

\* A matcher that offers at most one text.
LEMMA OneOffered ==
  ASSUME NEW G, NEW s, NEW t \in G
  PROVE  Offered(s, t) \in Seq(G)
<1>1. <<t>> \in Seq(G) /\ <<>> \in Seq(G)
  BY OneOf, EmptySeq
<1>2. QED
  BY <1>1 DEF Offered

\* What is kept is of the kind that S selects.
LEMMA KeptInto ==
  ASSUME NEW T, NEW s \in Seq(T), NEW S, NEW G, \A e \in T : e \in S => e \in G
  PROVE  Kept(s, S) \in Seq(G)
<1>1. Kept(s, S) \in Seq(S \cap T)
  BY KeptType
<1>2. S \cap T \subseteq G
  OBVIOUS
<1>3. QED
  BY <1>1, <1>2, SeqMonotonic

\* Blocks of one kind, each joined.
LEMMA JoinedAllInto ==
  ASSUME NEW K, NEW blocks \in Seq(K), NEW G, \A b \in K : Joined(b) \in G
  PROVE  JoinedAll(blocks) \in Seq(G)
<1>1. Len(blocks) \in Nat /\ DOMAIN blocks = 1..Len(blocks) /\ \A i \in 1..Len(blocks) : blocks[i] \in K
  OBVIOUS
<1>2. PICK js : js = JoinedAll(blocks)
  OBVIOUS
<1>3. DOMAIN js = 1..Len(blocks) /\ js \in [1..Len(blocks) -> G]
  BY <1>1, <1>2 DEF JoinedAll
<1>4. QED
  BY <1>1, <1>2, <1>3, IsSequence

\* Joined lines are a text with the words of the lines.
LEMMA JoinedLines ==
  ASSUME NEW b \in Seq(Line)
  PROVE  Joined(b) \in CharText /\ Words(Joined(b)) = WordsOf(b)
BY LineText, NewLine, WordsJoined DEF Joined

\* Blocks of n lines are lines of the file.
LEMMA BlocksType ==
  ASSUME NEW lines \in Seq(Line), NEW n \in Nat
  PROVE  Blocks(lines, n) \in Seq(Seq(Line))
<1>1. Len(lines) \in Nat
  OBVIOUS
<1>2. CASE n > Len(lines)
  BY <1>2, EmptySeq DEF Blocks
<1>3. CASE ~(n > Len(lines))
  <2>1. PICK l : l = Len(lines) + 1 - n /\ l \in Nat
    BY <1>1, <1>3
  <2>2. PICK bs : bs = Blocks(lines, n)
    OBVIOUS
  <2>3. bs = [i \in 1..l |-> SubSeq(lines, i, i + n - 1)]
    BY <1>3, <2>1, <2>2 DEF Blocks
  <2>4. ASSUME NEW i \in 1..l
        PROVE  SubSeq(lines, i, i + n - 1) \in Seq(Line)
    <3>1. i \in 1..(Len(lines) + 1) /\ i + n - 1 \in (i - 1)..Len(lines)
      BY <1>1, <1>3, <2>1
    <3>2. QED
      BY <3>1, PieceType
  <2>5. DOMAIN bs = 1..l /\ bs \in [1..l -> Seq(Line)]
    BY <2>3, <2>4
  <2>6. QED
    BY <2>1, <2>2, <2>5, IsSequence
<1>4. QED
  BY <1>2, <1>3

\* The blocks as long as the text asked for, as texts.
LEMMA BlocksAsType ==
  ASSUME NEW s \in CharText, NEW find \in CharText
  PROVE  BlocksAs(s, find) \in Seq(CharText)
<1>1. Lines(s) \in Seq(Line) /\ Lines(find) \in Seq(Line)
  BY LinesType
<1>2. Len(Lines(find)) \in Nat
  BY <1>1
<1>3. Blocks(Lines(s), Len(Lines(find))) \in Seq(Seq(Line))
  BY <1>1, <1>2, BlocksType
<1>4. \A b \in Seq(Line) : Joined(b) \in CharText
  BY JoinedLines
<1>5. QED
  BY <1>3, <1>4, JoinedAllInto DEF BlocksAs

\* Simple, MultiOccurrence.
LEMMA SimpleAlike ==
  ASSUME NEW s, NEW find \in CharText
  PROVE  Simple(s, find) \in Seq(AlikeTexts(find)) /\ MultiOccurrence(s, find) \in Seq(AlikeTexts(find))
<1>1. find \in AlikeTexts(find)
  BY SameWordsAlike
<1>2. QED
  BY <1>1, OneOf, OneOffered DEF Simple, MultiOccurrence

\* LineTrimmed: line by line the words are the same.
LEMMA LineTrimmedAlike ==
  ASSUME NEW s \in CharText, NEW find \in CharText
  PROVE  LineTrimmed(s, find) \in Seq(AlikeTexts(find))
<1>1. PICK lines, wanted : lines = Lines(s) /\ wanted = NoLastBlank(Lines(find))
  OBVIOUS
<1>2. /\ lines \in Seq(Line) /\ wanted \in Seq(Line) /\ WordsOf(wanted) = Words(find)
  <2>1. lines \in Seq(Line) /\ Lines(find) \in Seq(Line) /\ Lines(find) # <<>>
    BY <1>1, LinesType
  <2>2. wanted \in Seq(Line) /\ WordsOf(wanted) = WordsOf(Lines(find))
    BY <1>1, <2>1, NoLastBlankWords
  <2>3. QED
    BY <2>1, <2>2, WordsOfLines
<1>3. CASE wanted = <<>>
  BY <1>1, <1>3, EmptySeq DEF LineTrimmed, BlocksLike
<1>4. CASE wanted # <<>>
  <2>1. PICK bs : bs = Blocks(lines, Len(wanted)) /\ bs \in Seq(Seq(Line))
    BY <1>2, BlocksType
  <2>2. PICK S : S = {b \in Range(bs) : Trimmed(b) = Trimmed(wanted)}
    OBVIOUS
  <2>3. LineTrimmed(s, find) = JoinedAll(Kept(bs, S))
    BY <1>1, <1>4, <2>1, <2>2 DEF LineTrimmed, BlocksLike
  <2> DEFINE K == {b \in Seq(Line) : WordsOf(b) = WordsOf(wanted)}
  <2>4. \A b \in Seq(Line) : b \in S => b \in K
    <3>1. SUFFICES ASSUME NEW b \in Seq(Line), b \in S
                   PROVE  WordsOf(b) = WordsOf(wanted)
      OBVIOUS
    <3>2. Trimmed(b) = Trimmed(wanted)
      BY <2>2, <3>1
    <3>3. b \in Seq(CharText) /\ wanted \in Seq(CharText)
      BY <1>2, LineText
    <3>4. WordsOf(Trimmed(b)) = WordsOf(b) /\ WordsOf(Trimmed(wanted)) = WordsOf(wanted)
      BY <3>3, WordsOfTrimmed
    <3>5. QED
      BY <3>2, <3>4
  <2>5. \A b \in K : Joined(b) \in AlikeTexts(find)
    BY <1>2, JoinedLines, SameWordsAlike
  <2> HIDE DEF K
  <2>6. Kept(bs, S) \in Seq(K)
    BY <2>1, <2>4, KeptInto
  <2>7. QED
    BY <2>3, <2>5, <2>6, JoinedAllInto
<1>5. QED
  BY <1>3, <1>4

\* The blocks of matchers that go by the first and the last line.
AnchoredBlocks(wanted) ==
  {b \in Seq(Line) : /\ Len(b) >= 3 /\ Trim(b[1]) = Trim(Head(wanted))
                     /\ Trim(b[Len(b)]) = Trim(Last(wanted))}
ClosesAt(lines, wanted, i) == {j \in i+2..Len(lines) : Trim(lines[j]) = Trim(Last(wanted))}
OpensAt(lines, wanted)     ==
  {i \in DOMAIN lines : Trim(lines[i]) = Trim(Head(wanted)) /\ ClosesAt(lines, wanted, i) # {}}

\* blockAnchor offers blocks that begin and end as the text asked for.
LEMMA AnchoredIs ==
  ASSUME NEW lines \in Seq(Line), NEW wanted
  PROVE  Anchored(lines, wanted) \in Seq(AnchoredBlocks(wanted))
<1>1. PICK n, o : n = Len(lines) /\ o = OpensAt(lines, wanted)
  OBVIOUS
<1>2. n \in Nat /\ DOMAIN lines = 1..n /\ o \subseteq 1..n
  BY <1>1 DEF OpensAt
<1>3. PICK all : all = [i \in DOMAIN lines |-> i]
  OBVIOUS
<1>4. all \in Seq(1..n)
  BY <1>2, <1>3, IsSequence
<1>5. PICK from : from = Kept(all, o)
  OBVIOUS
<1>6. from \in Seq(o)
  BY <1>4, <1>5, KeptInto
<1>7. Len(from) \in Nat /\ DOMAIN from = 1..Len(from) /\ \A k \in 1..Len(from) : from[k] \in o
  BY <1>6
<1>8. PICK r : r = Anchored(lines, wanted)
  OBVIOUS
<1>9. r = [k \in DOMAIN from |-> SubSeq(lines, from[k], Min(ClosesAt(lines, wanted, from[k])))]
  BY <1>1, <1>3, <1>5, <1>8 DEF Anchored, ClosesAt, OpensAt
<1>10. ASSUME NEW a \in o
       PROVE  SubSeq(lines, a, Min(ClosesAt(lines, wanted, a))) \in AnchoredBlocks(wanted)
  <2>1. PICK C, z : C = ClosesAt(lines, wanted, a) /\ z = Min(C)
    OBVIOUS
  <2>2. /\ a \in 1..n /\ Trim(lines[a]) = Trim(Head(wanted)) /\ C # {} /\ C \subseteq Nat
        /\ \A j \in C : j \in (a + 2)..n /\ Trim(lines[j]) = Trim(Last(wanted))
    BY <1>1, <1>2, <2>1 DEF OpensAt, ClosesAt
  <2>3. z \in (a + 2)..n /\ Trim(lines[z]) = Trim(Last(wanted))
    BY <2>1, <2>2, LeastPlace
  <2>4. PICK b, l : b = SubSeq(lines, a, z) /\ l = z - a + 1
    OBVIOUS
  <2>5. IsPiece(b, lines, a, z, Line)
    <3>1. a \in 1..(Len(lines) + 1) /\ z \in (a - 1)..Len(lines)
      BY <1>1, <1>2, <2>2, <2>3
    <3>2. QED
      BY <2>4, <3>1, PieceIs
  <2>6. b \in Seq(Line) /\ Len(b) = l /\ \A k \in 1..l : b[k] = lines[a + k - 1]
    BY <2>4, <2>5 DEF IsPiece
  <2>7. l >= 3 /\ 1 \in 1..l /\ l \in 1..l /\ a + 1 - 1 = a /\ a + l - 1 = z
    BY <1>2, <2>2, <2>3, <2>4
  <2>8. b[1] = lines[a] /\ b[l] = lines[z]
    BY <2>6, <2>7
  <2>9. b \in AnchoredBlocks(wanted)
    BY <2>2, <2>3, <2>6, <2>7, <2>8 DEF AnchoredBlocks
  <2>10. QED
    BY <2>1, <2>4, <2>9
<1>11. DOMAIN r = 1..Len(from) /\ r \in [1..Len(from) -> AnchoredBlocks(wanted)]
  BY <1>7, <1>9, <1>10
<1>12. QED
  BY <1>7, <1>8, <1>11, IsSequence

\* Dropping a last blank line leaves the first line.
LEMMA HeadOfWanted ==
  ASSUME NEW ls \in Seq(Line), ls # <<>>, Len(NoLastBlank(ls)) >= 3
  PROVE  Head(NoLastBlank(ls)) = Head(ls)
<1>1. PICK f \in Seq(Line), e \in Line : ls = Append(f, e)
  BY SequenceEmptyOrAppend
<1>2. Front(ls) = f
  BY <1>1, FrontOfAppend
<1>3. NoLastBlank(ls) = f \/ NoLastBlank(ls) = ls
  BY <1>2 DEF NoLastBlank
<1>4. CASE NoLastBlank(ls) = f
  <2>1. Len(f) \in Nat /\ 1 \in 1..Len(f)
    BY <1>4
  <2>2. ls[1] = f[1]
    BY <1>1, <2>1, AppendProperties
  <2>3. Head(f) = f[1] /\ Head(ls) = ls[1]
    BY DEF Head
  <2>4. QED
    BY <1>4, <2>2, <2>3
<1>5. QED
  BY <1>3, <1>4

\* A block so anchored is like the text asked for.
LEMMA AnchoredAlike ==
  ASSUME NEW find \in CharText, NEW wanted, wanted = NoLastBlank(Lines(find)), Len(wanted) >= 3,
         NEW b \in AnchoredBlocks(wanted)
  PROVE  Joined(b) \in AlikeTexts(find)
<1>1. b \in Seq(Line) /\ Len(b) >= 3 /\ Trim(b[1]) = Trim(Head(wanted)) /\ Trim(b[Len(b)]) = Trim(Last(wanted))
  BY DEF AnchoredBlocks
<1>2. b # <<>>
  BY <1>1, EmptySeq
<1>3. PICK m : m = Joined(b) /\ m \in CharText
  BY <1>1, JoinedLines
<1>4. Lines(m) = b
  BY <1>1, <1>2, <1>3, NewLine, SplitJoined DEF Lines, Joined, Line
<1>5. Head(wanted) = Head(Lines(find))
  <2>1. Lines(find) \in Seq(Line) /\ Lines(find) # <<>>
    BY LinesType
  <2>2. QED
    BY <2>1, HeadOfWanted
<1>6. Head(b) = b[1] /\ Last(b) = b[Len(b)]
  BY DEF Head, Last
<1>7. Alike(m, find)
  BY <1>1, <1>4, <1>5, <1>6 DEF Alike
<1>8. QED
  BY <1>3, <1>7 DEF AlikeTexts

\* BlockAnchor: the first of the most similar blocks.
LEMMA BlockAnchorAlike ==
  ASSUME NEW s \in CharText, NEW find \in CharText
  PROVE  BlockAnchor(s, find) \in Seq(AlikeTexts(find))
<1>1. PICK lines, wanted : lines = Lines(s) /\ wanted = NoLastBlank(Lines(find))
  OBVIOUS
<1>2. lines \in Seq(Line) /\ wanted \in Seq(Line)
  <2>1. lines \in Seq(Line) /\ Lines(find) \in Seq(Line) /\ Lines(find) # <<>>
    BY <1>1, LinesType
  <2>2. QED
    BY <1>1, <2>1, NoLastBlankWords
<1>3. CASE Len(wanted) < 3
  BY <1>1, <1>3, EmptySeq DEF BlockAnchor, AnchoredLike
<1>4. CASE ~(Len(wanted) < 3)
  <2>1. Len(wanted) >= 3
    BY <1>2, <1>4
  <2> DEFINE K == AnchoredBlocks(wanted)
  <2>2. PICK S : AnchoredNear(lines, wanted) = Kept(Anchored(lines, wanted), S)
    BY DEF AnchoredNear
  <2>3. Anchored(lines, wanted) \in Seq(K)
    BY <1>2, AnchoredIs
  <2>4. \A b \in K : Joined(b) \in AlikeTexts(find)
    BY <1>1, <2>1, AnchoredAlike
  <2> HIDE DEF K
  <2>5. PICK bs : bs = AnchoredNear(lines, wanted) /\ bs \in Seq(K)
    BY <2>2, <2>3, KeptInto
  <2>6. DOMAIN bs = 1..Len(bs) /\ \A i \in 1..Len(bs) : bs[i] \in K
    BY <2>5
  <2>7. PICK sim : sim = [i \in DOMAIN bs |-> MidSimilarity(bs[i], wanted)]
    OBVIOUS
  <2>8. PICK best : /\ best \subseteq DOMAIN bs
                    /\ MostSimilar(bs, sim) = IF best = {} THEN <<>> ELSE <<Joined(bs[Min(best)])>>
    <3> DEFINE B == {i \in DOMAIN bs : /\ \A j \in DOMAIN bs : sim[i][1] * sim[j][2] >= sim[j][1] * sim[i][2]
                                       /\ 100 * sim[i][1] >= 65 * sim[i][2]}
    <3>1. MostSimilar(bs, sim) = IF B = {} THEN <<>> ELSE <<Joined(bs[Min(B)])>>
      BY DEF MostSimilar
    <3>2. B \subseteq DOMAIN bs
      OBVIOUS
    <3> HIDE DEF B
    <3>3. QED
      BY <3>1, <3>2
  <2>9. BlockAnchor(s, find) = MostSimilar(bs, sim)
    BY <1>1, <1>4, <2>5, <2>7 DEF BlockAnchor, AnchoredLike, Similar
  <2>10. CASE best = {}
    BY <2>8, <2>9, <2>10, EmptySeq
  <2>11. CASE best # {}
    <3>1. best \subseteq Nat
      BY <2>6, <2>8
    <3>2. Min(best) \in DOMAIN bs
      BY <2>8, <2>11, <3>1, LeastPlace
    <3>3. PICK j : j = Joined(bs[Min(best)]) /\ j \in AlikeTexts(find)
      BY <2>4, <2>6, <3>2
    <3>4. QED
      BY <2>8, <2>9, <2>11, <3>3, OneOf
  <2>12. QED
    BY <2>10, <2>11
<1>5. QED
  BY <1>3, <1>4

\* ContextAware: the first block close enough.
LEMMA ContextAwareAlike ==
  ASSUME NEW s \in CharText, NEW find \in CharText
  PROVE  ContextAware(s, find) \in Seq(AlikeTexts(find))
<1>1. PICK lines, wanted : lines = Lines(s) /\ wanted = NoLastBlank(Lines(find))
  OBVIOUS
<1>2. lines \in Seq(Line) /\ wanted \in Seq(Line)
  <2>1. lines \in Seq(Line) /\ Lines(find) \in Seq(Line) /\ Lines(find) # <<>>
    BY <1>1, LinesType
  <2>2. QED
    BY <1>1, <2>1, NoLastBlankWords
<1>3. PICK close, S : /\ close = Kept(Anchored(lines, wanted), S)
                      /\ ContextAware(s, find) = IF Len(wanted) < 3 \/ close = <<>> THEN <<>>
                                                 ELSE <<Joined(Head(close))>>
  BY <1>1 DEF ContextAware
<1>4. CASE Len(wanted) < 3 \/ close = <<>>
  BY <1>3, <1>4, EmptySeq
<1>5. CASE ~(Len(wanted) < 3 \/ close = <<>>)
  <2>1. Len(wanted) >= 3
    BY <1>2, <1>5
  <2> DEFINE K == AnchoredBlocks(wanted)
  <2>2. Anchored(lines, wanted) \in Seq(K)
    BY <1>2, AnchoredIs
  <2>3. \A b \in K : Joined(b) \in AlikeTexts(find)
    BY <1>1, <2>1, AnchoredAlike
  <2> HIDE DEF K
  <2>4. close \in Seq(K)
    BY <1>3, <2>2, KeptInto
  <2>5. Head(close) \in K
    BY <1>5, <2>4, HeadTailProperties
  <2>6. PICK j : j = Joined(Head(close)) /\ j \in AlikeTexts(find)
    BY <2>3, <2>5
  <2>7. QED
    BY <1>3, <1>5, <2>6, OneOf
<1>6. QED
  BY <1>4, <1>5

\* SpaceNormalized: lines, parts of them and blocks with find's words.
Ends(line, find, i)  == {j \in i..Len(line) : /\ line[i] \notin Blank /\ line[j] \notin Blank
                                              /\ Words(SubSeq(line, i, j)) = Words(find)}
Begins(line, find)   == {i \in DOMAIN line : Ends(line, find, i) # {}}

\* The substring of a line that whitespaceNormalized offers has the words asked for.
LEMMA FirstWordsAlike ==
  ASSUME NEW line \in CharText, NEW find
  PROVE  FirstWords(line, find) \in Seq(AlikeTexts(find))
<1>1. PICK B : B = Begins(line, find)
  OBVIOUS
<1>2. FirstWords(line, find)
        = IF B = {} THEN <<>> ELSE <<SubSeq(line, Min(B), Min(Ends(line, find, Min(B))))>>
  BY <1>1 DEF FirstWords, Begins, Ends
<1>3. PICK n : n = Len(line)
  OBVIOUS
<1>4. n \in Nat /\ line \in Seq(Char) /\ DOMAIN line = 1..n
  BY <1>3 DEF CharText
<1>5. CASE B = {}
  BY <1>2, <1>5, EmptySeq
<1>6. CASE B # {}
  <2>1. B \subseteq 1..n /\ \A i \in B : Ends(line, find, i) # {}
    BY <1>1, <1>4 DEF Begins
  <2>2. PICK i : i = Min(B)
    OBVIOUS
  <2>3. i \in B
    <3>1. B \subseteq Nat
      BY <1>4, <2>1
    <3>2. QED
      BY <1>6, <2>2, <3>1, LeastPlace
  <2>4. PICK E, j : E = Ends(line, find, i) /\ j = Min(E)
    OBVIOUS
  <2>5. E # {} /\ i \in 1..n /\ \A k \in E : k \in i..n /\ Words(SubSeq(line, i, k)) = Words(find)
    BY <1>3, <2>1, <2>3, <2>4 DEF Ends
  <2>6. j \in E
    <3>1. E \subseteq Nat
      BY <1>4, <2>5
    <3>2. QED
      BY <2>4, <2>5, <3>1, LeastPlace
  <2>7. j \in i..n /\ Words(SubSeq(line, i, j)) = Words(find)
    BY <2>5, <2>6
  <2>8. PICK m : m = SubSeq(line, i, j)
    OBVIOUS
  <2>9. m \in CharText
    <3>1. i \in 1..(Len(line) + 1) /\ j \in (i - 1)..Len(line)
      BY <1>3, <1>4, <2>5, <2>7
    <3>2. QED
      BY <1>4, <2>8, <3>1, PieceType DEF CharText
  <2>10. m \in AlikeTexts(find)
    BY <2>7, <2>8, <2>9, SameWordsAlike
  <2>11. <<m>> \in Seq(AlikeTexts(find))
    BY <2>10, OneOf
  <2>12. QED
    BY <1>2, <1>6, <2>2, <2>4, <2>8, <2>11
<1>7. QED
  BY <1>5, <1>6

\* Equal when squeezed: the same words.
LEMMA SqueezedAlike ==
  ASSUME NEW m \in CharText, NEW find \in CharText, Squeezed(m) = Squeezed(find)
  PROVE  m \in AlikeTexts(find)
<1>1. Words(Squeezed(m)) = Words(m) /\ Words(Squeezed(find)) = Words(find)
  BY WordsSqueezed
<1>2. QED
  BY <1>1, SameWordsAlike

OfLine(line, find) ==
  IF Squeezed(line) = Squeezed(find) THEN <<line>>
  ELSE IF HasText(Squeezed(line), Squeezed(find)) /\ Words(find) # <<>>
  THEN FirstWords(line, find)
  ELSE <<>>
OfLines(lines, find) == [i \in DOMAIN lines |-> OfLine(lines[i], find)]

\* What whitespaceNormalized offers of single lines.
LEMMA OfLinesAlike ==
  ASSUME NEW lines \in Seq(Line), NEW find \in CharText
  PROVE  FlattenSeq(OfLines(lines, find)) \in Seq(AlikeTexts(find))
<1>1. /\ Len(lines) \in Nat /\ DOMAIN lines = 1..Len(lines)
      /\ \A i \in 1..Len(lines) : lines[i] \in CharText
  BY LineText
<1>2. ASSUME NEW l \in CharText
      PROVE  OfLine(l, find) \in Seq(AlikeTexts(find))
  <2>1. FirstWords(l, find) \in Seq(AlikeTexts(find)) /\ <<>> \in Seq(AlikeTexts(find))
    BY FirstWordsAlike, EmptySeq
  <2>2. Squeezed(l) = Squeezed(find) => <<l>> \in Seq(AlikeTexts(find))
    BY SqueezedAlike, OneOf
  <2>3. QED
    BY <2>1, <2>2 DEF OfLine
<1>3. PICK p : p = OfLines(lines, find)
  OBVIOUS
<1>4. DOMAIN p = 1..Len(lines) /\ p \in [1..Len(lines) -> Seq(AlikeTexts(find))]
  BY <1>1, <1>2, <1>3 DEF OfLines
<1>5. p \in Seq(Seq(AlikeTexts(find)))
  BY <1>1, <1>4, IsSequence
<1>6. QED
  BY <1>3, <1>5, FlattenSeqType

\* whitespaceNormalized offers texts with the words asked for.
LEMMA SpaceNormalizedAlike ==
  ASSUME NEW s \in CharText, NEW find \in CharText
  PROVE  SpaceNormalized(s, find) \in Seq(AlikeTexts(find))
<1>1. PICK lines : lines = Lines(s) /\ lines \in Seq(Line)
  BY LinesType
<1>2. PICK inLines : inLines = FlattenSeq(OfLines(lines, find))
  OBVIOUS
<1>3. inLines \in Seq(AlikeTexts(find))
  BY <1>1, <1>2, OfLinesAlike
<1>4. PICK S : S = {b \in Range(BlocksAs(s, find)) : Squeezed(b) = Squeezed(find)}
  OBVIOUS
<1>5. PICK k : k = Kept(BlocksAs(s, find), S)
  OBVIOUS
<1>6. k \in Seq(AlikeTexts(find))
  <2>1. \A m \in CharText : m \in S => m \in AlikeTexts(find)
    BY <1>4, SqueezedAlike
  <2>2. QED
    BY <1>5, <2>1, BlocksAsType, KeptInto
<1>7. SpaceNormalized(s, find) = IF Len(Lines(find)) = 1 THEN inLines ELSE inLines \o k
  BY <1>1, <1>2, <1>4, <1>5 DEF SpaceNormalized, OfLines, OfLine
<1>8. inLines \o k \in Seq(AlikeTexts(find))
  BY <1>3, <1>6, ConcatProperties
<1>9. QED
  BY <1>3, <1>7, <1>8

\* indentationFlexible offers blocks equal up to indentation: the same words.
LEMMA IndentationFlexibleAlike ==
  ASSUME NEW s \in CharText, NEW find \in CharText
  PROVE  IndentationFlexible(s, find) \in Seq(AlikeTexts(find))
<1>1. PICK S : S = {b \in Range(BlocksAs(s, find)) : Dedented(b) = Dedented(find)}
  OBVIOUS
<1>2. ASSUME NEW m \in CharText, m \in S
      PROVE  m \in AlikeTexts(find)
  <2>1. Dedented(m) = Dedented(find)
    BY <1>1, <1>2
  <2>2. Words(Dedented(m)) = Words(m) /\ Words(Dedented(find)) = Words(find)
    BY WordsDedented
  <2>3. QED
    BY <2>1, <2>2, SameWordsAlike
<1>3. Kept(BlocksAs(s, find), S) \in Seq(AlikeTexts(find))
  BY <1>2, BlocksAsType, KeptInto
<1>4. QED
  BY <1>1, <1>3 DEF IndentationFlexible

\* escapeNormalized offers the text asked for unescaped, or blocks that unescape to it.
LEMMA EscapeNormalizedAlike ==
  ASSUME NEW s \in CharText, NEW find \in CharText
  PROVE  EscapeNormalized(s, find) \in Seq(AlikeTexts(find))
<1>1. PICK u : u = Unescaped(find) /\ u \in CharText
  BY UnescapedType
<1>2. PICK S : S = {b \in Range(BlocksAs(s, u)) : Unescaped(b) = u}
  OBVIOUS
<1>3. PICK o, k : o = Offered(s, u) /\ k = Kept(BlocksAs(s, u), S)
  OBVIOUS
<1>4. o \in Seq(AlikeTexts(find))
  <2>1. u \in AlikeTexts(find)
    BY <1>1 DEF AlikeTexts, Alike
  <2>2. QED
    BY <1>3, <2>1, OneOffered
<1>5. k \in Seq(AlikeTexts(find))
  <2>1. \A m \in CharText : m \in S => m \in AlikeTexts(find)
    BY <1>1, <1>2 DEF AlikeTexts, Alike
  <2>2. QED
    BY <1>1, <1>3, <2>1, BlocksAsType, KeptInto
<1>6. EscapeNormalized(s, find) = o \o k
  BY <1>1, <1>2, <1>3 DEF EscapeNormalized
<1>7. QED
  BY <1>4, <1>5, <1>6, ConcatProperties

\* trimmedBoundary offers texts equal up to blanks at their ends.
LEMMA TrimmedBoundaryAlike ==
  ASSUME NEW s \in CharText, NEW find \in CharText
  PROVE  TrimmedBoundary(s, find) \in Seq(AlikeTexts(find))
<1>1. PICK t : t = Trim(find) /\ t \in CharText
  BY TrimIs DEF CharText
<1>2. PICK S : S = {b \in Range(BlocksAs(s, find)) : Trim(b) = t}
  OBVIOUS
<1>3. PICK o, k : o = Offered(s, t) /\ k = Kept(BlocksAs(s, find), S)
  OBVIOUS
<1>4. Words(t) = Words(find)
  BY <1>1, WordsTrim
<1>5. o \in Seq(AlikeTexts(find))
  BY <1>1, <1>3, <1>4, SameWordsAlike, OneOffered
<1>6. k \in Seq(AlikeTexts(find))
  <2>1. ASSUME NEW m \in CharText, m \in S
        PROVE  m \in AlikeTexts(find)
    <3>1. Trim(m) = t
      BY <1>2, <2>1
    <3>2. Words(t) = Words(m)
      BY <3>1, WordsTrim
    <3>3. QED
      BY <1>4, <3>2, SameWordsAlike
  <2>2. QED
    BY <1>3, <2>1, BlocksAsType, KeptInto
<1>7. TrimmedBoundary(s, find) = IF t = find THEN <<>> ELSE o \o k
  BY <1>1, <1>2, <1>3 DEF TrimmedBoundary
<1>8. o \o k \in Seq(AlikeTexts(find)) /\ <<>> \in Seq(AlikeTexts(find))
  BY <1>5, <1>6, ConcatProperties, EmptySeq
<1>9. QED
  BY <1>7, <1>8

\* Whatever matcher offers it: what is offered is like old_string.
LEMMA StrategiesAlike ==
  ASSUME NEW s \in CharText, NEW find \in CharText, NEW k \in 1..9
  PROVE  Strategies(s, find)[k] \in Seq(AlikeTexts(find))
<1>1. k = 1 \/ k = 2 \/ k = 3 \/ k = 4 \/ k = 5 \/ k = 6 \/ k = 7 \/ k = 8 \/ k = 9
  OBVIOUS
<1>2. /\ Simple(s, find) \in Seq(AlikeTexts(find)) /\ LineTrimmed(s, find) \in Seq(AlikeTexts(find))
      /\ BlockAnchor(s, find) \in Seq(AlikeTexts(find))
      /\ SpaceNormalized(s, find) \in Seq(AlikeTexts(find))
      /\ IndentationFlexible(s, find) \in Seq(AlikeTexts(find))
      /\ EscapeNormalized(s, find) \in Seq(AlikeTexts(find))
      /\ TrimmedBoundary(s, find) \in Seq(AlikeTexts(find))
      /\ ContextAware(s, find) \in Seq(AlikeTexts(find))
      /\ MultiOccurrence(s, find) \in Seq(AlikeTexts(find))
  BY SimpleAlike, LineTrimmedAlike, BlockAnchorAlike, SpaceNormalizedAlike,
     IndentationFlexibleAlike, EscapeNormalizedAlike, TrimmedBoundaryAlike, ContextAwareAlike
<1>3. QED
  BY <1>1, <1>2 DEF Strategies

-----------------------------------------------------------------------------
(* Whatever texts the matchers offer.                                      *)

\* Places of candidates are numbers.
LEMMA PlacesAreNatural ==
  /\ \A s, candidates : Found(s, candidates) \subseteq Nat
  /\ \A s, find, all, candidates : Deciding(s, find, all, candidates) \subseteq Nat
BY DEF Found, Deciding

\* What Replace answers without an error: that a candidate decided, and was replaced.
ReplacesBy(reply, s, find, new, all, c) ==
  /\ ~Disproportionate(c, find) /\ HasText(s, c) /\ (all \/ Unique(s, c))
  /\ reply = Settled(s, find, new, all, c)

\* c is a text some matcher offers.
IsOffered(c, s, find) ==
  \E k \in 1..9 : \E i \in 1..Len(Strategies(s, find)[k]) : c = Strategies(s, find)[k][i]

\* A place of a text, and the only one.
LEMMA OnePlace ==
  ASSUME NEW s, NEW c, HasText(s, c), Unique(s, c)
  PROVE  \E i : /\ i \in Occurrences(s, c) /\ OnlyAt(i, s, c)
                /\ Min(Occurrences(s, c)) = i
<1> DEFINE places == Occurrences(s, c)
<1>1. places # {} /\ \A i, j \in places : i = j
  BY DEF HasText, Unique
<1>2. Min(places) = CHOOSE x \in places : \A y \in places : x <= y
  BY DEF Min
<1>3. places \subseteq Int
  BY DEF Occurrences
<1> HIDE DEF places
<1>4. PICK i : i \in places
  BY <1>1
<1>5. places = {i} /\ i <= i
  <2>1. \A x : x \in places <=> x = i
    BY <1>1, <1>4
  <2>2. i <= i
    BY <1>3, <1>4
  <2>3. QED
    BY <2>1, <2>2
<1>6. Min(places) \in places
  BY <1>2, <1>5
<1>7. Min(places) = i
  BY <1>5, <1>6
<1>8. QED
  BY <1>4, <1>5, <1>7 DEF OnlyAt, places

\* A successful Replace takes one candidate that a matcher offered, and old_string
\* itself where that is in the file once.
LEMMA ReplaceDecides ==
  ASSUME NEW s, NEW find, NEW new, NEW all, Replace(s, find, new, all).error = "none"
  PROVE  \E c : /\ ReplacesBy(Replace(s, find, new, all), s, find, new, all, c)
                /\ IsOffered(c, s, find)
                /\ HasText(s, find) /\ Unique(s, find) => c = find
<1> DEFINE offers == Strategies(s, find)
           usable == {k \in DOMAIN offers : Deciding(s, find, all, offers[k]) # {}}
           winner == offers[Min(usable)]
           able   == Deciding(s, find, all, winner)
           c == winner[Min(able)]
<1>1. usable # {} /\ Replace(s, find, new, all) = Settled(s, find, new, all, c)
  BY DEF Replace, Answer
<1>2. DOMAIN offers = 1..9 /\ offers[1] = <<find>>
  BY DEF Strategies, Simple
<1>3. /\ usable \subseteq 1..9
      /\ \A k \in usable : Deciding(s, find, all, offers[k]) # {}
      /\ Deciding(s, find, all, <<find>>) # {} => 1 \in usable
  <2> HIDE DEF offers
  <2>1. 1 \in 1..9
    OBVIOUS
  <2>2. QED
    BY <1>2, <2>1
<1> HIDE DEF offers, usable
<1>4. Min(usable) \in usable /\ \A k \in usable : Min(usable) <= k
  <2>1. usable \subseteq Nat
    BY <1>3
  <2>2. QED
    BY <1>1, <2>1, LeastPlace
<1>5. able # {} /\ able \subseteq Nat
  BY <1>3, <1>4, PlacesAreNatural
<1>6. /\ \A i \in able : HasText(s, winner[i])
      /\ \A i \in able : Disproportionate(winner[i], find) \/ all \/ Unique(s, winner[i])
  <2> HIDE DEF winner
  <2>1. QED
    BY DEF Deciding, Found
<1> HIDE DEF able
<1>7. Min(able) \in able
  BY <1>5, LeastPlace
<1>8. HasText(s, c) /\ (Disproportionate(c, find) \/ all \/ Unique(s, c))
  BY <1>6, <1>7
<1>12. IsOffered(c, s, find)
  <2>1. Min(usable) \in 1..9
    BY <1>3, <1>4
  <2>2. Min(able) \in 1..Len(winner)
    BY <1>7 DEF able, Deciding, Found
  <2>3. PICK k, i : k = Min(usable) /\ i = Min(able)
    OBVIOUS
  <2>4. k \in 1..9 /\ i \in 1..Len(Strategies(s, find)[k]) /\ c = Strategies(s, find)[k][i]
    BY <2>1, <2>2, <2>3 DEF offers
  <2>5. QED
    BY <2>4 DEF IsOffered
<1> HIDE DEF c
<1>9. ~Disproportionate(c, find)
  <2>1. SUFFICES ASSUME Disproportionate(c, find)
                 PROVE  FALSE
    OBVIOUS
  <2>2. Settled(s, find, new, all, c) = Answer(s, "not found", <<>>)
    BY <2>1 DEF Settled
  <2>3. Replace(s, find, new, all).error = Answer(s, "not found", <<>>).error
    BY <1>1, <2>2
  <2>4. Answer(s, "not found", <<>>).error = "not found"
    BY DEF Answer
  <2>5. QED
    BY <2>3, <2>4
<1>10. ASSUME HasText(s, find), Unique(s, find)
       PROVE  c = find
  <2>1. 1 \in 1..1 /\ Len(<<find>>) = 1 /\ <<find>>[1] = find
    OBVIOUS
  <2>2. 1 \in Deciding(s, find, all, <<find>>)
    BY <1>10, <2>1 DEF Deciding, Found
  <2>3. Min(usable) <= 1 /\ Min(usable) \in 1..9
    BY <1>3, <1>4, <2>2
  <2>4. Min(usable) = 1
    BY <2>3
  <2>5. winner = <<find>>
    BY <1>2, <2>4
  <2>6. able \subseteq {1}
    <3>1. \A i \in Deciding(s, find, all, <<find>>) : i \in 1..Len(<<find>>)
      BY DEF Deciding, Found
    <3>2. \A i \in 1..1 : i = 1
      OBVIOUS
    <3>3. QED
      BY <2>1, <2>5, <3>1, <3>2 DEF able
  <2>7. Min(able) = 1
    BY <1>7, <2>6
  <2>8. QED
    BY <2>1, <2>5, <2>7 DEF c
<1>11. QED
  BY <1>1, <1>8, <1>9, <1>10, <1>12 DEF ReplacesBy

\* An edit replaces one text and nothing else, whatever the matchers offer; and
\* old_string itself where it is there once (Replace's cascade, index = LastIndex).
THEOREM EditsTouchOneText == EditSpec => []OneTextReplaced
<1>1. EditInit => OneTextReplaced
  BY DEF EditInit, OneTextReplaced
<1>2. OneTextReplaced /\ UNCHANGED editVars => OneTextReplaced'
  BY DEF OneTextReplaced, editVars
<1>3. ASSUME NEW old \in OldTexts, NEW new \in NewTexts, NEW all \in BOOLEAN, Edit(old, new, all)
      PROVE  OneTextReplaced'
  <2>1. PICK reply : /\ reply \in {IF old = new THEN Answer(content, "identical", <<>>)
                                     ELSE Replace(content, old, new, all),
                                     Answer(content, "failed", <<>>)}
                      /\ content' = reply.text
                      /\ edit' = [before |-> content, old |-> old, new |-> new, all |-> all,
                                  answer |-> reply]
    BY <1>3 DEF Edit
  <2>2. SUFFICES ASSUME reply.error = "none", ~all
                 PROVE  OneTextReplaced'
    BY <2>1 DEF OneTextReplaced
  <2>3. reply = Replace(content, old, new, all)
    BY <2>1, <2>2 DEF Answer
  <2>4. PICK c : /\ ReplacesBy(reply, content, old, new, all, c)
                 /\ HasText(content, old) /\ Unique(content, old) => c = old
    BY <2>2, <2>3, ReplaceDecides
  <2>5. /\ reply.match = c /\ reply.text = ReplacedOnce(content, c, new)
        /\ HasText(content, c) /\ Unique(content, c)
    BY <2>2, <2>4 DEF ReplacesBy, Settled, Answer
  <2>6. PICK i : i \in Occurrences(content, c) /\ OnlyAt(i, content, c)
                 /\ Min(Occurrences(content, c)) = i
    BY <2>5, OnePlace
  <2>8. content' = SubSeq(content, 1, i - 1) \o new \o SubSeq(content, i + Len(c), Len(content))
    BY <2>1, <2>5, <2>6 DEF ReplacedOnce
  <2>9. \A j \in Occurrences(content, old) : OnlyAt(j, content, old) => c = old
    <3>1. SUFFICES ASSUME NEW j \in Occurrences(content, old), OnlyAt(j, content, old)
                   PROVE  c = old
      OBVIOUS
    <3>2. HasText(content, old) /\ Unique(content, old)
      BY <3>1 DEF HasText, Unique, OnlyAt
    <3>3. QED
      BY <2>4, <3>2
  <2>10. edit'.before = content /\ edit'.new = new /\ edit'.old = old /\ edit'.answer.match = c
    BY <2>1, <2>5
  <2>11. QED
    BY <2>6, <2>8, <2>9, <2>10 DEF OneTextReplaced
<1>4. OneTextReplaced /\ [EditNext]_editVars => OneTextReplaced'
  BY <1>2, <1>3 DEF EditNext
<1>5. QED
  BY <1>1, <1>4, PTL DEF EditSpec

\* What the matchers offer of texts is text, and so is what they leave.
LEMMA OfferedAlike ==
  ASSUME NEW s \in CharText, NEW find \in CharText, NEW c, IsOffered(c, s, find)
  PROVE  c \in CharText /\ Alike(c, find)
<1>1. PICK k \in 1..9 : \E i \in 1..Len(Strategies(s, find)[k]) : c = Strategies(s, find)[k][i]
  BY DEF IsOffered
<1>2. PICK o : o = Strategies(s, find)[k]
  OBVIOUS
<1>3. o \in Seq(AlikeTexts(find))
  BY <1>2, StrategiesAlike
<1>4. PICK i \in 1..Len(o) : c = o[i]
  BY <1>1, <1>2
<1>5. c \in AlikeTexts(find)
  BY <1>3, <1>4
<1>6. QED
  BY <1>5 DEF AlikeTexts

\* Replacing every occurrence gives a text, whatever is replaced.
LEMMA ReplacedAllType ==
  ASSUME NEW s \in CharText, NEW c \in CharText, NEW new \in CharText
  PROVE  ReplacedAll(s, c, new) \in CharText
<1>1. CASE c = <<>>
  BY <1>1, ReplacedAllNone
<1>2. CASE c # <<>>
  BY <1>2, ReplacedAllSome
<1>3. QED
  BY <1>1, <1>2

\* A Replace that fails changes nothing.
LEMMA ReplaceFails ==
  ASSUME NEW s, NEW find, NEW new, NEW all, Replace(s, find, new, all).error # "none"
  PROVE  Replace(s, find, new, all).text = s
<1>1. ASSUME NEW c, Settled(s, find, new, all, c).error # "none"
      PROVE  Settled(s, find, new, all, c).text = s
  BY <1>1 DEF Settled, Answer
<1>2. \/ \E c : Replace(s, find, new, all) = Settled(s, find, new, all, c)
      \/ \E e : Replace(s, find, new, all) = Answer(s, e, <<>>)
  BY DEF Replace
<1>3. \A e : Answer(s, e, <<>>).text = s
  BY DEF Answer
<1>4. QED
  BY <1>1, <1>2, <1>3

\* Replace gives a text.
LEMMA ReplaceType ==
  ASSUME NEW s \in CharText, NEW find \in CharText, NEW new \in CharText, NEW all \in BOOLEAN
  PROVE  Replace(s, find, new, all).text \in CharText
<1>1. PICK r : r = Replace(s, find, new, all)
  OBVIOUS
<1>2. CASE r.error # "none"
  BY <1>1, <1>2, ReplaceFails
<1>3. CASE r.error = "none"
  <2>1. PICK c : ReplacesBy(r, s, find, new, all, c) /\ IsOffered(c, s, find)
    BY <1>1, <1>3, ReplaceDecides
  <2>2. c \in CharText /\ HasText(s, c)
    BY <2>1, OfferedAlike DEF ReplacesBy
  <2>3. r.text = ReplacedAll(s, c, new) \/ r.text = ReplacedOnce(s, c, new)
    BY <2>1 DEF ReplacesBy, Settled, Answer
  <2>4. ReplacedAll(s, c, new) \in CharText /\ ReplacedOnce(s, c, new) \in CharText
    BY <2>2, ReplacedAllType, ReplacedOnceType
  <2>5. QED
    BY <1>1, <2>3, <2>4
<1>4. QED
  BY <1>2, <1>3

\* The file is text, and what the last edit replaced is like what it was asked to.
EditsAreText ==
  /\ content \in CharText
  /\ edit.answer.error = "none" /\ ~edit.all /\ edit.old # <<>> => Alike(edit.answer.match, edit.old)

\* The file stays a text, and what an edit replaced was like what was asked for.
LEMMA EditsStayText == EditSpec => []EditsAreText
<1>0. EditFiles \subseteq CharText /\ OldTexts \subseteq CharText /\ NewTexts \subseteq CharText
  <2>1. STRING \subseteq Char
    BY DEF Char
  <2>2. Seq(STRING) \subseteq CharText
    BY <2>1, SeqMonotonic DEF CharText
  <2>3. QED
    BY <2>2, EditAssumption
<1>1. EditInit => EditsAreText
  BY <1>0 DEF EditInit, EditsAreText
<1>2. EditsAreText /\ UNCHANGED editVars => EditsAreText'
  BY DEF EditsAreText, editVars
<1>3. ASSUME EditsAreText, NEW old \in OldTexts, NEW new \in NewTexts, NEW all \in BOOLEAN,
             Edit(old, new, all)
      PROVE  EditsAreText'
  <2>1. PICK reply : /\ reply \in {IF old = new THEN Answer(content, "identical", <<>>)
                                     ELSE Replace(content, old, new, all),
                                     Answer(content, "failed", <<>>)}
                      /\ content' = reply.text
                      /\ edit' = [before |-> content, old |-> old, new |-> new, all |-> all,
                                  answer |-> reply]
    BY <1>3 DEF Edit
  <2>2. content \in CharText /\ old \in CharText /\ new \in CharText
    BY <1>0, <1>3 DEF EditsAreText
  <2>3. CASE reply = Replace(content, old, new, all)
    <3>1. content' \in CharText
      BY <2>1, <2>2, <2>3, ReplaceType
    <3>2. ASSUME reply.error = "none", ~all
          PROVE  Alike(reply.match, old)
      <4>1. PICK c : ReplacesBy(reply, content, old, new, all, c) /\ IsOffered(c, content, old)
        BY <2>3, <3>2, ReplaceDecides
      <4>2. reply.match = c
        BY <4>1 DEF ReplacesBy, Settled, Answer
      <4>3. QED
        BY <2>2, <4>1, <4>2, OfferedAlike
    <3>3. edit'.answer = reply /\ edit'.all = all /\ edit'.old = old
      BY <2>1
    <3>4. QED
      BY <3>1, <3>2, <3>3 DEF EditsAreText
  <2>4. CASE \E e \in {"identical", "failed"} : reply = Answer(content, e, <<>>)
    <3>1. reply.text = content /\ reply.error # "none"
      BY <2>4 DEF Answer
    <3>2. edit'.answer = reply
      BY <2>1
    <3>3. QED
      BY <2>1, <2>2, <3>1, <3>2 DEF EditsAreText
  <2>5. QED
    BY <2>1, <2>3, <2>4
<1>4. EditsAreText /\ [EditNext]_editVars => EditsAreText'
  BY <1>2, <1>3 DEF EditNext
<1>5. QED
  BY <1>1, <1>4, PTL DEF EditSpec

\* What an edit replaces is old_string up to blanks and escapes, or a block that begins and
\* ends with its lines: for every file and old_string, whichever of the matchers offers it.
THEOREM EditsAreAsAsked == EditSpec => []EditsOnePlace
<1>1. OneTextReplaced /\ EditsAreText => EditsOnePlace
  BY DEF EditsOnePlace, EditsAreText
<1>2. QED
  BY <1>1, EditsTouchOneText, EditsStayText, PTL
=============================================================================
