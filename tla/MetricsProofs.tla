---------------------------- MODULE MetricsProofs ----------------------------
(***************************************************************************)
(* Theorems about Metrics: each aggregator reports its statistic of        *)
(* exactly the values that came after it was registered; a series keeps    *)
(* the last values that were pushed into it; and a report reads past the   *)
(* end of a series only before it has received anything for its last       *)
(* aggregator.                                                             *)
(*                                                                         *)
(* The proof has two inductive invariants.  IInv says of each ring buffer  *)
(* what it holds of all that was pushed since it was started over.  SInv   *)
(* adds what each aggregator holds of the values it was given (Summary);   *)
(* of a median, that its two halves are ordered, of equal length or        *)
(* nearly, and hold together the values given and the two limits they      *)
(* started with (HalvesHold).                                              *)
(*                                                                         *)
(* Halves are compared with the values by how many of them are up to a     *)
(* number (CountUpTo), so that no order among equal values has to be       *)
(* followed.  What the sequences of any length add up to is proved by      *)
(* induction over a set of numbers (InductionOnSet).                       *)
(***************************************************************************)
EXTENDS MetricsProps, SequenceTheorems, FiniteSetTheorems, WellFoundedInduction, TLAPS

-----------------------------------------------------------------------------
(* Sequences of whatever elements *)

Listed(s) == s \in Seq(Range(s))

LEMMA ListedIsTable ==
    ASSUME NEW s, Listed(s)
    PROVE  /\ Len(s) \in Nat /\ DOMAIN s = 1 .. Len(s)
           /\ s = [i \in 1 .. Len(s) |-> s[i]]
BY LenProperties DEF Listed

LEMMA TableIsListed ==
    ASSUME NEW n \in Nat, NEW s, s = [i \in 1 .. n |-> s[i]]
    PROVE  Listed(s) /\ Len(s) = n /\ DOMAIN s = 1 .. n
<1>1. DOMAIN s = 1 .. n
  OBVIOUS
<1>2. s \in [1 .. n -> Range(s)]
  BY <1>1 DEF Range
<1>3. s \in Seq(Range(s))
  BY <1>2, SeqDef
<1>. QED
  BY <1>1, <1>3, LenProperties DEF Listed

LEMMA Appended ==
    ASSUME NEW s, Listed(s), NEW e
    PROVE  /\ Listed(Append(s, e))
           /\ Len(Append(s, e)) = Len(s) + 1
           /\ \A i \in 1 .. Len(s) : Append(s, e)[i] = s[i]
           /\ Append(s, e)[Len(s) + 1] = e
<1>. DEFINE S == Range(s) \cup {e}
            t == Append(s, e)
<1>1. s \in Seq(S)
  BY SeqMonotonic DEF Listed
<1>2. /\ t \in Seq(S)
      /\ Len(t) = Len(s) + 1
      /\ \A i \in 1 .. Len(s) : t[i] = s[i]
      /\ t[Len(s) + 1] = e
  BY <1>1, AppendProperties
<1>3. Len(t) \in Nat /\ t = [i \in 1 .. Len(t) |-> t[i]]
  BY <1>2, LenProperties
<1>4. Listed(t)
  <2>. HIDE DEF t
  <2>. QED
    BY <1>3, TableIsListed
<1>. QED
  BY <1>2, <1>4

LEMMA LesserIsOne ==
    ASSUME NEW a \in Nat, NEW b \in Nat
    PROVE  Lesser(a, b) \in Nat /\ Lesser(a, b) <= a /\ Lesser(a, b) <= b
BY DEF Lesser

\* The last n elements of a sequence.
LEMMA LastOfProperties ==
    ASSUME NEW s, Listed(s), NEW n \in Nat, n <= Len(s)
    PROVE  /\ LastOf(s, n) = [j \in 1 .. n |-> s[Len(s) - n + j]]
           /\ DOMAIN LastOf(s, n) = 1 .. n /\ Len(LastOf(s, n)) = n
<1>. DEFINE t == SubSeq(s, Len(s) - n + 1, Len(s))
<1>1. Len(s) \in Nat /\ DOMAIN s = 1 .. Len(s)
  BY ListedIsTable
<1>2. \A i \in Len(s) - n + 1 .. Len(s) : s[i] \in Range(s)
  BY <1>1 DEF Range
<1>3. /\ t \in Seq(Range(s))
      /\ Len(t) = IF Len(s) - n + 1 <= Len(s) THEN Len(s) - (Len(s) - n + 1) + 1 ELSE 0
      /\ \A i \in 1 .. Len(s) - (Len(s) - n + 1) + 1 : t[i] = s[Len(s) - n + 1 + i - 1]
  <2>. HIDE DEF t
  <2>1. Len(s) - n + 1 \in Int /\ Len(s) \in Int
    BY <1>1
  <2>. QED
    BY <1>2, <2>1, SubSeqProperties DEF t
<1>4. Len(t) = n
  BY <1>1, <1>3
<1>5. t = [i \in 1 .. n |-> t[i]]
  BY <1>3, <1>4, LenProperties
<1>6. \A i \in 1 .. n : t[i] = s[Len(s) - n + i]
  <2>. TAKE i \in 1 .. n
  <2>1. /\ i \in 1 .. Len(s) - (Len(s) - n + 1) + 1
        /\ Len(s) - n + 1 + i - 1 = Len(s) - n + i
    BY <1>1
  <2>. HIDE DEF t
  <2>. QED
    BY <1>3, <2>1
<1>. HIDE DEF t
<1>7. t = [i \in 1 .. n |-> s[Len(s) - n + i]]
  BY <1>5, <1>6
<1>. QED
  BY <1>4, <1>7 DEF LastOf, t

-----------------------------------------------------------------------------
(* Induction over a set of numbers *)

LEMMA LeastElement ==
    ASSUME NEW D, D \subseteq Nat, D # {}
    PROVE  \E d \in D : \A e \in D : d <= e
<1> DEFINE R == OpToRel(<, Nat)
<1>1. IsWellFoundedOn(R, Nat)
  BY NatLessThanWellFounded
<1> HIDE DEF R
<1>2. PICK d \in D : \A e \in D : <<e, d>> \notin R
  BY <1>1, WFMin
<1>3. \A e \in D : ~(e < d)
  <2> TAKE e \in D
  <2>1. <<e, d>> \in Nat \X Nat
    OBVIOUS
  <2>2. e < d => <<e, d>> \in R
    BY <2>1 DEF R, OpToRel
  <2> QED
    BY <1>2, <2>2
<1>4. \A e \in D : e \in Nat /\ d \in Nat
  OBVIOUS
<1> QED
  BY <1>3, <1>4

LEMMA InductionOnSet ==
    ASSUME NEW S, 0 \in S, \A n \in Nat : n \in S => n + 1 \in S
    PROVE  Nat \subseteq S
<1> SUFFICES ASSUME ~(Nat \subseteq S) PROVE FALSE
  OBVIOUS
<1>1. Nat \ S # {} /\ Nat \ S \subseteq Nat
  OBVIOUS
<1>2. PICK d \in Nat \ S : \A e \in Nat \ S : d <= e
  BY <1>1, LeastElement
<1>3. d # 0
  BY <1>2
<1>4. d - 1 \in Nat /\ (d - 1) + 1 = d
  BY <1>2, <1>3
<1>5. d - 1 \in S
  BY <1>2, <1>4
<1> QED
  BY <1>2, <1>4, <1>5

-----------------------------------------------------------------------------
(* Counting *)

\* The positions of the values up to v, and how many there are.
UpTo(s, v) == {j \in 1 .. Len(s) : s[j] <= v}

CountUpTo(s, v) == Cardinality(UpTo(s, v))

LEMMA IntervalSize ==
    ASSUME NEW n \in Nat
    PROVE  IsFiniteSet(1 .. n) /\ Cardinality(1 .. n) = n
<1>1. /\ IsFiniteSet(1 .. n)
      /\ Cardinality(1 .. n) = IF 1 > n THEN 0 ELSE n - 1 + 1
  BY FS_Interval
<1> QED
  BY <1>1

LEMMA CountIsBounded ==
    ASSUME NEW s \in Seq(Int), NEW v \in Int
    PROVE  IsFiniteSet(UpTo(s, v)) /\ CountUpTo(s, v) \in 0 .. Len(s)
<1>1. Len(s) \in Nat
  OBVIOUS
<1>2. IsFiniteSet(1 .. Len(s)) /\ Cardinality(1 .. Len(s)) = Len(s)
  BY <1>1, IntervalSize
<1>3. UpTo(s, v) \in SUBSET (1 .. Len(s))
  BY DEF UpTo
<1>4. IsFiniteSet(UpTo(s, v)) /\ Cardinality(UpTo(s, v)) <= Len(s)
  BY <1>2, <1>3, FS_Subset
<1> QED
  BY <1>1, <1>4, FS_CardinalityType DEF CountUpTo

LEMMA CountNone ==
    ASSUME NEW s, NEW v, \A j \in 1 .. Len(s) : ~(s[j] <= v)
    PROVE  CountUpTo(s, v) = 0
<1>1. UpTo(s, v) = {}
  BY DEF UpTo
<1> QED
  BY <1>1, FS_EmptySet DEF CountUpTo

LEMMA CountAll ==
    ASSUME NEW s \in Seq(Int), NEW v \in Int, \A j \in 1 .. Len(s) : s[j] <= v
    PROVE  CountUpTo(s, v) = Len(s)
<1>1. UpTo(s, v) = 1 .. Len(s) /\ Len(s) \in Nat
  BY DEF UpTo
<1> QED
  BY <1>1, IntervalSize DEF CountUpTo

LEMMA CountMonotone ==
    ASSUME NEW s \in Seq(Int), NEW v \in Int, NEW w \in Int, v <= w
    PROVE  CountUpTo(s, v) <= CountUpTo(s, w)
<1>1. \A j \in 1 .. Len(s) : s[j] \in Int
  OBVIOUS
<1>2. UpTo(s, v) \in SUBSET UpTo(s, w)
  BY <1>1 DEF UpTo
<1>3. IsFiniteSet(UpTo(s, w))
  BY CountIsBounded
<1> QED
  BY <1>2, <1>3, FS_Subset DEF CountUpTo

\* A value that is above v is not counted: one less at most.
LEMMA CountWithout ==
    ASSUME NEW s \in Seq(Int), NEW v \in Int, NEW k \in 1 .. Len(s), s[k] > v
    PROVE  CountUpTo(s, v) <= Len(s) - 1
<1>1. Len(s) \in Nat
  OBVIOUS
<1>1a. IsFiniteSet(1 .. Len(s)) /\ Cardinality(1 .. Len(s)) = Len(s)
  BY <1>1, IntervalSize
<1>2. /\ IsFiniteSet((1 .. Len(s)) \ {k})
      /\ Cardinality((1 .. Len(s)) \ {k}) = Len(s) - 1
  BY <1>1a, FS_RemoveElement
<1>3. UpTo(s, v) \in SUBSET ((1 .. Len(s)) \ {k})
  <2>1. s[k] \in Int
    OBVIOUS
  <2> QED
    BY <2>1 DEF UpTo
<1> QED
  BY <1>2, <1>3, FS_Subset DEF CountUpTo

LEMMA CountAppended ==
    ASSUME NEW s \in Seq(Int), NEW x \in Int, NEW v \in Int
    PROVE  CountUpTo(Append(s, x), v) = CountUpTo(s, v) + (IF x <= v THEN 1 ELSE 0)
<1> DEFINE t == Append(s, x)
<1>1. Len(s) \in Nat
  OBVIOUS
<1>2. /\ Len(t) = Len(s) + 1
      /\ \A j \in 1 .. Len(s) : t[j] = s[j]
      /\ t[Len(s) + 1] = x
  BY AppendProperties
<1> HIDE DEF t
<1>3. 1 .. Len(t) = (1 .. Len(s)) \cup {Len(s) + 1}
  BY <1>1, <1>2
<1>4. UpTo(t, v) = IF x <= v THEN UpTo(s, v) \cup {Len(s) + 1} ELSE UpTo(s, v)
  <2>1. CASE x <= v
    <3>1. UpTo(t, v) = UpTo(s, v) \cup {Len(s) + 1}
      BY <1>2, <1>3, <2>1 DEF UpTo
    <3> QED
      BY <2>1, <3>1
  <2>2. CASE ~(x <= v)
    <3>1. UpTo(t, v) = UpTo(s, v)
      BY <1>2, <1>3, <2>2 DEF UpTo
    <3> QED
      BY <2>2, <3>1
  <2> QED
    BY <2>1, <2>2
<1>5. Len(s) + 1 \notin UpTo(s, v)
  BY <1>1 DEF UpTo
<1>6. IsFiniteSet(UpTo(s, v)) /\ CountUpTo(s, v) \in Nat
  BY CountIsBounded
<1>7. Cardinality(UpTo(s, v) \cup {Len(s) + 1}) = Cardinality(UpTo(s, v)) + 1
  BY <1>5, <1>6, FS_AddElement
<1> QED
  BY <1>4, <1>6, <1>7 DEF CountUpTo, t

LEMMA CountJoinedEmpty ==
    ASSUME NEW s \in Seq(Int), NEW v \in Int
    PROVE  CountUpTo(s \o << >>, v) = CountUpTo(s, v) + CountUpTo(<< >>, v)
<1>1. CountUpTo(<< >>, v) = 0
  BY CountNone
<1>2. s \o << >> = s
  BY ConcatEmptySeq
<1>3. Len(s) \in Nat
  OBVIOUS
<1>3a. CountUpTo(s, v) \in 0 .. Len(s)
  BY CountIsBounded
<1>4. CountUpTo(s \o << >>, v) = CountUpTo(s, v)
  BY <1>2
<1> QED
  BY <1>1, <1>3, <1>3a, <1>4

LEMMA CountJoinedAppended ==
    ASSUME NEW s \in Seq(Int), NEW u \in Seq(Int), NEW x \in Int, NEW v \in Int,
           CountUpTo(s \o u, v) = CountUpTo(s, v) + CountUpTo(u, v)
    PROVE  CountUpTo(s \o Append(u, x), v) = CountUpTo(s, v) + CountUpTo(Append(u, x), v)
<1>1. s \o Append(u, x) = Append(s \o u, x)
  OBVIOUS
<1>2. s \o u \in Seq(Int)
  OBVIOUS
<1>3. Len(s) \in Nat /\ Len(u) \in Nat
  OBVIOUS
<1>3a. CountUpTo(s, v) \in 0 .. Len(s)
  BY CountIsBounded
<1>3b. CountUpTo(u, v) \in 0 .. Len(u)
  BY CountIsBounded
<1>4. CountUpTo(Append(u, x), v) = CountUpTo(u, v) + (IF x <= v THEN 1 ELSE 0)
  BY CountAppended
<1>5. CountUpTo(Append(s \o u, x), v) = CountUpTo(s \o u, v) + (IF x <= v THEN 1 ELSE 0)
  BY <1>2, CountAppended
<1>6. CountUpTo(s \o Append(u, x), v) = CountUpTo(Append(s \o u, x), v)
  BY <1>1
<1>7. PICK a, b, c : a = CountUpTo(s, v) /\ b = CountUpTo(u, v) /\ c = CountUpTo(s \o u, v)
  OBVIOUS
<1> QED
  BY <1>3, <1>3a, <1>3b, <1>4, <1>5, <1>6, <1>7

LEMMA CountJoined ==
    ASSUME NEW s \in Seq(Int), NEW u \in Seq(Int), NEW v \in Int
    PROVE  CountUpTo(s \o u, v) = CountUpTo(s, v) + CountUpTo(u, v)
<1> DEFINE Adds(t) == CountUpTo(s \o t, v) = CountUpTo(s, v) + CountUpTo(t, v)
           S == {n \in Nat : n <= Len(u) => Adds(SubSeq(u, 1, n))}
<1>1. Len(u) \in Nat
  OBVIOUS
<1>2. Adds(SubSeq(u, 1, 0))
  <2>1. SubSeq(u, 1, 0) = << >>
    BY SubSeqEmpty
  <2>2. Adds(<< >>)
    BY CountJoinedEmpty
  <2> HIDE DEF Adds
  <2> QED
    BY <2>1, <2>2
<1>3. ASSUME NEW n \in Nat, n + 1 <= Len(u), Adds(SubSeq(u, 1, n))
      PROVE  Adds(SubSeq(u, 1, n + 1))
  <2>1. PICK t : t = SubSeq(u, 1, n)
    OBVIOUS
  <2>2. n + 1 \in 1 .. Len(u) /\ n \in 0 .. Len(u) /\ u[n + 1] \in Int
    BY <1>1, <1>3
  <2>3. t \in Seq(Int)
    BY <2>1, <2>2
  <2>4. SubSeq(u, 1, n + 1) = Append(t, u[n + 1])
    <3>1. SubSeq(u, 1, n + 1) = SubSeq(u, 1, (n + 1) - 1) \o <<u[n + 1]>>
      BY <2>2, SubSeqRecursiveSecond
    <3>2. Append(t, u[n + 1]) = t \o <<u[n + 1]>>
      BY <2>2, <2>3, AppendIsConcat
    <3>3. (n + 1) - 1 = n
      OBVIOUS
    <3> QED
      BY <2>1, <3>1, <3>2, <3>3
  <2>5. Adds(Append(t, u[n + 1]))
    BY <1>3, <2>1, <2>2, <2>3, CountJoinedAppended, ZenonT(60)
  <2> HIDE DEF Adds
  <2> QED
    BY <2>4, <2>5
<1>4. Nat \subseteq S
  <2> HIDE DEF Adds
  <2>1. 0 \in S
    BY <1>2
  <2>2. ASSUME NEW n \in Nat, n \in S PROVE n + 1 \in S
    BY <1>1, <1>3, <2>2
  <2> HIDE DEF S
  <2> QED
    BY <2>1, <2>2, InductionOnSet
<1>5. SubSeq(u, 1, Len(u)) = u
  BY SubSeqFull
<1>6. Adds(SubSeq(u, 1, Len(u)))
  <2> HIDE DEF Adds
  <2> QED
    BY <1>1, <1>4
<1>7. Adds(u)
  <2> HIDE DEF Adds
  <2> QED
    BY <1>5, <1>6
<1> QED
  BY <1>7

-----------------------------------------------------------------------------
(* Totals *)

\* A function that the recursion of Total describes up to the m-th value.
Sums(s, g, m) == g = [n \in 0 .. m |-> IF n = 0 THEN 0 ELSE g[n - 1] + s[n]]

LEMMA SumsExist ==
    ASSUME NEW s, NEW L \in Nat
    PROVE  \E g : Sums(s, g, L)
<1> DEFINE S == {m \in Nat : \E g : Sums(s, g, m)}
<1>1. 0 \in S
  <2> DEFINE g == [n \in 0 .. 0 |-> 0]
  <2>1. Sums(s, g, 0)
    BY DEF Sums
  <2> QED
    BY <2>1
<1>2. ASSUME NEW m \in Nat, m \in S PROVE m + 1 \in S
  <2>1. PICK g : Sums(s, g, m)
    BY <1>2
  <2> DEFINE next == g[m] + s[m + 1]
             h    == [n \in 0 .. m + 1 |-> IF n = m + 1 THEN next ELSE g[n]]
             h1   == [n \in 0 .. m + 1 |-> IF n = 0 THEN 0 ELSE h[n - 1] + s[n]]
  <2>2. ASSUME NEW n \in 0 .. m + 1
        PROVE  h[n] = IF n = 0 THEN 0 ELSE h[n - 1] + s[n]
    <3>1. CASE n = 0
      BY <2>1, <3>1 DEF Sums
    <3>2. CASE n = m + 1
      <4>1. h[n] = next /\ n # 0 /\ n - 1 = m
        BY <3>2
      <4>2. h[n - 1] = g[m]
        BY <4>1
      <4> QED
        BY <3>2, <4>1, <4>2
    <3>3. CASE n # 0 /\ n # m + 1
      <4>1. n \in 1 .. m /\ n - 1 \in 0 .. m
        BY <3>3
      <4>2. h[n] = g[n] /\ h[n - 1] = g[n - 1]
        BY <4>1
      <4>3. g[n] = g[n - 1] + s[n]
        BY <2>1, <4>1 DEF Sums
      <4> QED
        BY <3>3, <4>2, <4>3
    <3> QED
      BY <3>1, <3>2, <3>3
  <2> HIDE DEF next
  <2>3. h = h1
    BY <2>2, Zenon
  <2>4. Sums(s, h, m + 1)
    BY <2>3 DEF Sums
  <2> QED
    BY <2>4
<1>3. Nat \subseteq S
  <2> HIDE DEF S
  <2> QED
    BY <1>1, <1>2, InductionOnSet
<1> QED
  BY <1>3

LEMMA TotalIsASum ==
    ASSUME NEW s, Len(s) \in Nat
    PROVE  \E g : Sums(s, g, Len(s)) /\ Total(s) = g[Len(s)]
<1>1. PICK c : c = CHOOSE g : Sums(s, g, Len(s))
  OBVIOUS
<1>2. Sums(s, c, Len(s))
  BY <1>1, SumsExist
<1>3. Total(s) = c[Len(s)]
  BY <1>1 DEF Total, Sums
<1> QED
  BY <1>2, <1>3

\* Two sums of the same values are the same number.
LEMMA SumsAgree ==
    ASSUME NEW s \in Seq(Int), NEW t, NEW g, NEW h, NEW k \in Nat, Len(s) <= k,
           Sums(s, g, Len(s)), Sums(t, h, k), \A i \in 1 .. Len(s) : t[i] = s[i]
    PROVE  \A n \in 0 .. Len(s) : g[n] = h[n] /\ g[n] \in Int
<1> DEFINE S == {n \in Nat : n <= Len(s) => g[n] = h[n] /\ g[n] \in Int}
<1>1. Len(s) \in Nat
  OBVIOUS
<1>2. 0 \in S
  BY <1>1 DEF Sums
<1>3. ASSUME NEW n \in Nat, n \in S PROVE n + 1 \in S
  <2> SUFFICES ASSUME n + 1 <= Len(s) PROVE g[n + 1] = h[n + 1] /\ g[n + 1] \in Int
    OBVIOUS
  <2>1. n + 1 \in 1 .. Len(s) /\ n + 1 \in 0 .. k /\ n + 1 \in 0 .. Len(s) /\ (n + 1) - 1 = n
    BY <1>1
  <2>2. g[n + 1] = g[n] + s[n + 1]
    BY <2>1 DEF Sums
  <2>3. h[n + 1] = h[n] + t[n + 1]
    BY <2>1 DEF Sums
  <2>4. t[n + 1] = s[n + 1] /\ s[n + 1] \in Int
    BY <2>1
  <2>5. g[n] = h[n] /\ g[n] \in Int
    BY <1>1, <1>3, <2>1
  <2> QED
    BY <2>2, <2>3, <2>4, <2>5
<1>4. Nat \subseteq S
  <2> HIDE DEF S
  <2> QED
    BY <1>2, <1>3, InductionOnSet
<1> QED
  BY <1>1, <1>4

LEMMA TotalOfNone == Total(<< >>) = 0
<1>1. Len(<< >>) = 0
  OBVIOUS
<1>2. PICK g : Sums(<< >>, g, 0) /\ Total(<< >>) = g[0]
  BY <1>1, TotalIsASum
<1> QED
  BY <1>2 DEF Sums

LEMMA TotalAppended ==
    ASSUME NEW s \in Seq(Int), NEW x \in Int
    PROVE  Total(Append(s, x)) = Total(s) + x /\ Total(s) \in Int
<1>1. PICK t : t = Append(s, x)
  OBVIOUS
<1>2. /\ Len(s) \in Nat /\ Len(t) = Len(s) + 1 /\ Len(t) \in Nat
      /\ \A i \in 1 .. Len(s) : t[i] = s[i]
      /\ t[Len(s) + 1] = x
  BY <1>1, AppendProperties
<1>3. PICK g : Sums(s, g, Len(s)) /\ Total(s) = g[Len(s)]
  BY <1>2, TotalIsASum
<1>4. PICK h : Sums(t, h, Len(t)) /\ Total(t) = h[Len(t)]
  BY <1>2, TotalIsASum
<1>5. g[Len(s)] = h[Len(s)] /\ g[Len(s)] \in Int
  <2>1. PICK k : k = Len(t)
    OBVIOUS
  <2>2. k \in Nat /\ Len(s) <= k /\ Sums(t, h, k)
    BY <1>2, <1>4, <2>1
  <2>3. \A n \in 0 .. Len(s) : g[n] = h[n] /\ g[n] \in Int
    BY <1>2, <1>3, <2>2, SumsAgree
  <2> QED
    BY <1>2, <2>3
<1>6. h[Len(t)] = h[Len(s)] + x
  <2>1. Len(t) \in 0 .. Len(t) /\ Len(t) # 0 /\ Len(t) - 1 = Len(s)
    BY <1>2
  <2>2. h[Len(t)] = h[Len(t) - 1] + t[Len(t)]
    BY <1>4, <2>1 DEF Sums
  <2> QED
    BY <1>2, <2>1, <2>2
<1> QED
  BY <1>1, <1>3, <1>4, <1>5, <1>6

-----------------------------------------------------------------------------
(* Priority queues *)

Sorted(q) == \A i, j \in 1 .. Len(q) : i <= j => q[i] <= q[j]

\* In a sorted queue the values up to v come first.
LEMMA SmallOnesFirst ==
    ASSUME NEW q \in Seq(Int), Sorted(q), NEW v \in Int
    PROVE  UpTo(q, v) = 1 .. CountUpTo(q, v)
<1> DEFINE D == {j \in 1 .. Len(q) : q[j] > v}
<1>1. Len(q) \in Nat /\ \A j \in 1 .. Len(q) : q[j] \in Int
  OBVIOUS
<1>2. CASE D = {}
  <2>1. \A j \in 1 .. Len(q) : q[j] <= v
    BY <1>1, <1>2
  <2>2. UpTo(q, v) = 1 .. Len(q)
    BY <2>1 DEF UpTo
  <2>3. CountUpTo(q, v) = Len(q)
    BY <2>1, CountAll
  <2> QED
    BY <2>2, <2>3
<1>3. CASE D # {}
  <2>1. D \subseteq Nat
    BY <1>1
  <2>2. PICK d \in D : \A e \in D : d <= e
    <3> HIDE DEF D
    <3> QED
      BY <1>3, <2>1, LeastElement
  <2>3. d \in 1 .. Len(q) /\ q[d] > v
    OBVIOUS
  <2>4. UpTo(q, v) = 1 .. d - 1
    <3>1. ASSUME NEW j \in 1 .. Len(q), j < d
          PROVE  q[j] <= v
      <4>1. j \notin D
        BY <1>1, <2>2, <2>3, <3>1
      <4> QED
        BY <1>1, <4>1
    <3>2. ASSUME NEW j \in 1 .. Len(q), d <= j
          PROVE  ~(q[j] <= v)
      <4>1. q[d] <= q[j]
        BY <2>3, <3>2 DEF Sorted
      <4>2. q[d] \in Int /\ q[j] \in Int
        BY <1>1, <2>3
      <4> QED
        BY <2>3, <4>1, <4>2
    <3> QED
      BY <1>1, <2>3, <3>1, <3>2 DEF UpTo
  <2>5. d - 1 \in Nat
    BY <1>1, <2>3
  <2>6. Cardinality(1 .. d - 1) = d - 1
    BY <2>5, IntervalSize
  <2> QED
    BY <2>4, <2>6 DEF CountUpTo
<1> QED
  BY <1>2, <1>3

\* The i-th of a queue where x was put after the c-th.
PutAfter(y, q, x, c) ==
    /\ y \in Seq(Int) /\ Len(y) = Len(q) + 1
    /\ \A i \in 1 .. Len(q) + 1 :
         y[i] = IF i <= c THEN q[i] ELSE IF i = c + 1 THEN x ELSE q[i - 1]

LEMMA PushPuts ==
    ASSUME NEW q \in Seq(Int), NEW x \in Int
    PROVE  /\ PutAfter(Push(q, x), q, x, CountUpTo(q, x))
           /\ \A v \in Int :
                CountUpTo(Push(q, x), v) = CountUpTo(q, v) + (IF x <= v THEN 1 ELSE 0)
<1>1. PICK c : c = CountUpTo(q, x)
  OBVIOUS
<1>2. Len(q) \in Nat /\ c \in 0 .. Len(q)
  <2>1. Len(q) \in Nat
    OBVIOUS
  <2> QED
    BY <1>1, <2>1, CountIsBounded
<1>3. PICK a, b : a = SubSeq(q, 1, c) /\ b = SubSeq(q, c + 1, Len(q))
  OBVIOUS
<1>4. a \in Seq(Int) /\ Len(a) = c /\ \A i \in 1 .. c : a[i] = q[i]
  <2>1. c \in Int /\ \A i \in 1 .. c : q[i] \in Int
    BY <1>2
  <2>2. /\ SubSeq(q, 1, c) \in Seq(Int)
        /\ Len(SubSeq(q, 1, c)) = IF 1 <= c THEN c - 1 + 1 ELSE 0
        /\ \A i \in 1 .. c - 1 + 1 : SubSeq(q, 1, c)[i] = q[1 + i - 1]
    BY <2>1, SubSeqProperties
  <2>3. a \in Seq(Int) /\ Len(a) = IF 1 <= c THEN c - 1 + 1 ELSE 0
    BY <1>3, <2>2
  <2>4. c - 1 + 1 = c
    BY <1>2
  <2>5. \A i \in 1 .. c : a[i] = q[1 + i - 1]
    BY <1>3, <2>2, <2>4
  <2>6. \A i \in 1 .. c : 1 + i - 1 = i
    BY <1>2
  <2> QED
    BY <1>2, <2>3, <2>5, <2>6
<1>5. b \in Seq(Int) /\ Len(b) = Len(q) - c /\ \A i \in 1 .. Len(q) - c : b[i] = q[c + i]
  <2>1. c + 1 \in Int /\ Len(q) \in Int /\ \A i \in c + 1 .. Len(q) : q[i] \in Int
    BY <1>2
  <2>2. /\ SubSeq(q, c + 1, Len(q)) \in Seq(Int)
        /\ Len(SubSeq(q, c + 1, Len(q)))
             = IF c + 1 <= Len(q) THEN Len(q) - (c + 1) + 1 ELSE 0
        /\ \A i \in 1 .. Len(q) - (c + 1) + 1 :
             SubSeq(q, c + 1, Len(q))[i] = q[c + 1 + i - 1]
    BY <2>1, SubSeqProperties
  <2>3. b \in Seq(Int) /\ Len(b) = IF c + 1 <= Len(q) THEN Len(q) - (c + 1) + 1 ELSE 0
    BY <1>3, <2>2
  <2>4. Len(q) - (c + 1) + 1 = Len(q) - c
    BY <1>2
  <2>5. \A i \in 1 .. Len(q) - c : b[i] = q[c + 1 + i - 1]
    BY <1>3, <2>2, <2>4
  <2>6. \A i \in 1 .. Len(q) - c : c + 1 + i - 1 = c + i
    BY <1>2
  <2>7. Len(b) = Len(q) - c
    <3>1. CASE c = Len(q)
      <4>1. ~(c + 1 <= Len(q)) /\ Len(q) - c = 0
        BY <1>2, <3>1
      <4> QED
        BY <2>3, <4>1
    <3>2. CASE c + 1 <= Len(q)
      BY <2>3, <2>4, <3>2
    <3> QED
      BY <1>2, <3>1, <3>2
  <2>8. \A i \in 1 .. Len(q) - c : b[i] = q[c + i]
    BY <2>5, <2>6
  <2> QED
    BY <2>3, <2>7, <2>8
<1>6. PICK y : y = Push(q, x)
  OBVIOUS
<1>7. y = a \o <<x>> \o b
  <2>1. {i \in DOMAIN q : q[i] <= x} = UpTo(q, x)
    <3>1. DOMAIN q = 1 .. Len(q)
      OBVIOUS
    <3> QED
      BY <3>1 DEF UpTo
  <2>2. y = InsertAt(q, c + 1, x)
    BY <1>1, <1>6, <2>1 DEF Push, CountUpTo
  <2>3. (c + 1) - 1 = c
    BY <1>2
  <2> QED
    BY <1>3, <2>2, <2>3 DEF InsertAt
<1>8. PICK d : d = Append(a, x)
  OBVIOUS
<1>9. y = d \o b
  <2>1. d = a \o <<x>>
    BY <1>4, <1>8, AppendIsConcat
  <2> QED
    BY <1>7, <2>1
<1>10. /\ d \in Seq(Int) /\ Len(d) = c + 1
       /\ \A i \in 1 .. c : d[i] = q[i]
       /\ d[c + 1] = x
  <2>1. /\ Append(a, x) \in Seq(Int) /\ Len(Append(a, x)) = Len(a) + 1
        /\ \A i \in 1 .. Len(a) : Append(a, x)[i] = a[i]
        /\ Append(a, x)[Len(a) + 1] = x
    BY <1>4, AppendProperties
  <2> QED
    BY <1>4, <1>8, <2>1
<1>11. /\ y \in Seq(Int) /\ Len(y) = Len(d) + Len(b)
       /\ \A i \in 1 .. Len(d) + Len(b) :
            y[i] = IF i <= Len(d) THEN d[i] ELSE b[i - Len(d)]
  BY <1>5, <1>9, <1>10, ConcatProperties
<1>12. PutAfter(y, q, x, c)
  <2>1. Len(y) = Len(q) + 1 /\ Len(d) + Len(b) = Len(q) + 1
    BY <1>2, <1>5, <1>10, <1>11
  <2>2. ASSUME NEW i \in 1 .. Len(q) + 1
        PROVE  y[i] = IF i <= c THEN q[i] ELSE IF i = c + 1 THEN x ELSE q[i - 1]
    <3>1. y[i] = IF i <= c + 1 THEN d[i] ELSE b[i - (c + 1)]
      BY <1>10, <1>11, <2>1
    <3>2. CASE i <= c
      BY <1>2, <1>10, <3>1, <3>2
    <3>3. CASE i = c + 1
      BY <1>2, <1>10, <3>1, <3>3
    <3>4. CASE i > c + 1
      <4>1. i - (c + 1) \in 1 .. Len(q) - c /\ c + (i - (c + 1)) = i - 1
        BY <1>2, <3>4
      <4>2. b[i - (c + 1)] = q[c + (i - (c + 1))]
        BY <1>5, <4>1
      <4> QED
        BY <1>2, <3>1, <3>4, <4>1, <4>2
    <3> QED
      BY <1>2, <3>2, <3>3, <3>4
  <2> QED
    BY <1>11, <2>1, <2>2 DEF PutAfter
<1>13. ASSUME NEW v \in Int
       PROVE  CountUpTo(y, v) = CountUpTo(q, v) + (IF x <= v THEN 1 ELSE 0)
  <2>1. CountUpTo(y, v) = CountUpTo(d, v) + CountUpTo(b, v)
    BY <1>5, <1>9, <1>10, CountJoined
  <2>2. CountUpTo(d, v) = CountUpTo(a, v) + (IF x <= v THEN 1 ELSE 0)
    BY <1>4, <1>8, CountAppended
  <2>3. q = a \o b
    <3>1. 1 \in 1 .. Len(q) + 1 /\ c \in 1 - 1 .. Len(q) /\ Len(q) \in c .. Len(q)
      BY <1>2
    <3>2. SubSeq(q, 1, c) \o SubSeq(q, c + 1, Len(q)) = SubSeq(q, 1, Len(q))
      BY <3>1, ConcatAdjacentSubSeq
    <3>3. SubSeq(q, 1, Len(q)) = q
      BY SubSeqFull
    <3> QED
      BY <1>3, <3>2, <3>3
  <2>4. CountUpTo(q, v) = CountUpTo(a, v) + CountUpTo(b, v)
    BY <1>4, <1>5, <2>3, CountJoined
  <2>5. CountUpTo(a, v) \in 0 .. Len(a)
    BY <1>4, CountIsBounded
  <2>6. CountUpTo(b, v) \in 0 .. Len(b)
    BY <1>5, CountIsBounded
  <2>7. CountUpTo(a, v) \in Nat /\ CountUpTo(b, v) \in Nat
    BY <2>5, <2>6
  <2> QED
    BY <2>1, <2>2, <2>4, <2>7
<1> QED
  BY <1>1, <1>6, <1>12, <1>13

\* y is q with the value x at the place its order gives it.
PushedInto(y, q, x) ==
    /\ y \in Seq(Int) /\ Len(y) = Len(q) + 1 /\ Sorted(y)
    /\ \A i \in 1 .. Len(q) + 1 : y[i] = x \/ \E j \in 1 .. Len(q) : y[i] = q[j]
    /\ \A v \in Int : CountUpTo(y, v) = CountUpTo(q, v) + (IF x <= v THEN 1 ELSE 0)

LEMMA PushProperties ==
    ASSUME NEW q \in Seq(Int), Sorted(q), NEW x \in Int
    PROVE  PushedInto(Push(q, x), q, x)
<1>1. PICK y : y = Push(q, x)
  OBVIOUS
<1>2. PICK c : c = CountUpTo(q, x)
  OBVIOUS
<1>3. Len(q) \in Nat /\ \A i \in 1 .. Len(q) : q[i] \in Int
  OBVIOUS
<1>4. c \in 0 .. Len(q) /\ c \in Nat
  <2>1. c \in 0 .. Len(q)
    BY <1>2, CountIsBounded
  <2> QED
    BY <1>3, <2>1
<1>5. /\ PutAfter(y, q, x, c)
      /\ \A v \in Int : CountUpTo(y, v) = CountUpTo(q, v) + (IF x <= v THEN 1 ELSE 0)
  BY <1>1, <1>2, PushPuts
<1>6. \A i \in 1 .. Len(q) : (i <= c => q[i] <= x) /\ (i > c => x <= q[i])
  <2>1. UpTo(q, x) = 1 .. c
    BY <1>2, SmallOnesFirst
  <2> TAKE i \in 1 .. Len(q)
  <2>2. i <= c => i \in UpTo(q, x)
    BY <1>4, <2>1
  <2>3. i > c => i \notin UpTo(q, x)
    BY <1>4, <2>1
  <2>4. q[i] \in Int
    OBVIOUS
  <2> QED
    BY <2>2, <2>3, <2>4 DEF UpTo
<1>7. \A i \in 1 .. Len(q) + 1 : y[i] = x \/ \E j \in 1 .. Len(q) : y[i] = q[j]
  <2> TAKE i \in 1 .. Len(q) + 1
  <2>1. CASE i <= c
    BY <1>3, <1>4, <1>5, <2>1 DEF PutAfter
  <2>2. CASE i = c + 1
    BY <1>3, <1>4, <1>5, <2>2 DEF PutAfter
  <2>3. CASE i > c + 1
    <3>1. i - 1 \in 1 .. Len(q) /\ ~(i <= c) /\ i # c + 1
      BY <1>3, <1>4, <2>3
    <3> QED
      BY <1>5, <3>1 DEF PutAfter
  <2> QED
    BY <1>3, <1>4, <2>1, <2>2, <2>3
<1>8. Sorted(y)
  <2> SUFFICES ASSUME NEW i \in 1 .. Len(q) + 1, NEW j \in 1 .. Len(q) + 1, i <= j
               PROVE  y[i] <= y[j]
    BY <1>5 DEF PutAfter, Sorted
  <2>1. /\ y[i] = IF i <= c THEN q[i] ELSE IF i = c + 1 THEN x ELSE q[i - 1]
        /\ y[j] = IF j <= c THEN q[j] ELSE IF j = c + 1 THEN x ELSE q[j - 1]
    BY <1>5 DEF PutAfter
  <2>2. CASE j <= c
    <3>1. i \in 1 .. Len(q) /\ j \in 1 .. Len(q) /\ i <= c
      BY <1>3, <1>4, <2>2
    <3> QED
      BY <2>1, <2>2, <3>1 DEF Sorted
  <2>3. CASE j = c + 1
    <3>1. ~(j <= c) /\ y[j] = x
      BY <1>4, <2>1, <2>3
    <3>2. CASE i <= c
      <4>1. i \in 1 .. Len(q)
        BY <1>4, <1>3, <3>2
      <4> QED
        BY <1>6, <2>1, <3>1, <3>2, <4>1
    <3>3. CASE i = c + 1
      BY <2>3, <3>1, <3>3
    <3> QED
      BY <1>4, <2>3, <3>2, <3>3
  <2>4. CASE j > c + 1
    <3>1. j - 1 \in 1 .. Len(q) /\ y[j] = q[j - 1] /\ j - 1 > c
      BY <1>3, <1>4, <2>1, <2>4
    <3>2. CASE i <= c
      <4>1. i \in 1 .. Len(q) /\ i <= j - 1
        BY <1>3, <1>4, <3>1, <3>2
      <4>2. q[i] <= q[j - 1]
        BY <3>1, <4>1 DEF Sorted
      <4> QED
        BY <2>1, <3>1, <3>2, <4>2
    <3>3. CASE i = c + 1
      <4>1. y[i] = x
        BY <1>4, <2>1, <3>3
      <4> QED
        BY <1>6, <3>1, <4>1
    <3>4. CASE i > c + 1
      <4>1. i - 1 \in 1 .. Len(q) /\ i - 1 <= j - 1 /\ y[i] = q[i - 1]
        BY <1>3, <1>4, <2>1, <3>4
      <4>2. q[i - 1] <= q[j - 1]
        BY <3>1, <4>1 DEF Sorted
      <4> QED
        BY <3>1, <4>1, <4>2
    <3> QED
      BY <1>4, <3>2, <3>3, <3>4
  <2> QED
    BY <1>4, <2>2, <2>3, <2>4
<1>9. PushedInto(y, q, x)
  BY <1>5, <1>7, <1>8 DEF PutAfter, PushedInto
<1> QED
  BY <1>1, <1>9

-----------------------------------------------------------------------------
(* The two halves of the median *)

Ordered(less, more) ==
    /\ less \in Seq(Int) /\ more \in Seq(Int)
    /\ Sorted(less) /\ Sorted(more)
    /\ \A i \in 1 .. Len(less), j \in 1 .. Len(more) : less[i] <= more[j]

CountInBoth(less, more, v) == CountUpTo(less, v) + CountUpTo(more, v)

LEMMA LastIsTaken ==
    ASSUME NEW q \in Seq(Int), Sorted(q), Len(q) # 0
    PROVE  /\ Last(q) \in Int /\ Last(q) = q[Len(q)] /\ Len(q) \in 1 .. Len(q)
           /\ Front(q) \in Seq(Int) /\ Len(Front(q)) = Len(q) - 1 /\ Sorted(Front(q))
           /\ \A i \in 1 .. Len(q) - 1 : Front(q)[i] = q[i]
           /\ \A v \in Int :
                CountUpTo(q, v) = CountUpTo(Front(q), v) + (IF Last(q) <= v THEN 1 ELSE 0)
<1>1. Len(q) \in Nat
  OBVIOUS
<1>2. Len(q) \in 1 .. Len(q)
  BY <1>1
<1>3. PICK n : n = Len(q) - 1
  OBVIOUS
<1>4. n \in Nat /\ Len(q) = n + 1
  BY <1>1, <1>3
<1>5. PICK f : f = SubSeq(q, 1, n)
  OBVIOUS
<1>6. f = Front(q)
  BY <1>3, <1>5 DEF Front
<1>7. f \in Seq(Int) /\ Len(f) = n /\ \A i \in 1 .. n : f[i] = q[i]
  <2>1. n \in Int /\ \A i \in 1 .. n : q[i] \in Int
    BY <1>4
  <2>2. /\ SubSeq(q, 1, n) \in Seq(Int)
        /\ Len(SubSeq(q, 1, n)) = IF 1 <= n THEN n - 1 + 1 ELSE 0
        /\ \A i \in 1 .. n - 1 + 1 : SubSeq(q, 1, n)[i] = q[1 + i - 1]
    BY <2>1, SubSeqProperties
  <2>3. f \in Seq(Int) /\ Len(f) = IF 1 <= n THEN n - 1 + 1 ELSE 0
    BY <1>5, <2>2
  <2>4. n - 1 + 1 = n
    BY <1>4
  <2>5. \A i \in 1 .. n : f[i] = q[1 + i - 1]
    BY <1>5, <2>2, <2>4
  <2>6. \A i \in 1 .. n : 1 + i - 1 = i
    BY <1>4
  <2> QED
    BY <1>4, <2>3, <2>5, <2>6
<1>8. Last(q) = q[Len(q)] /\ q[Len(q)] \in Int
  BY <1>2 DEF Last
<1>9. q = Append(f, q[Len(q)])
  <2>1. Len(q) \in 1 .. Len(q) /\ 1 \in 1 .. Len(q)
    BY <1>1, <1>2
  <2>2. SubSeq(q, 1, Len(q)) = SubSeq(q, 1, Len(q) - 1) \o <<q[Len(q)]>>
    BY <2>1, SubSeqRecursiveSecond
  <2>3. SubSeq(q, 1, Len(q)) = q
    BY SubSeqFull
  <2>4. Append(f, q[Len(q)]) = f \o <<q[Len(q)]>>
    BY <1>7, <1>8, AppendIsConcat
  <2> QED
    BY <1>3, <1>5, <2>2, <2>3, <2>4
<1>10. Sorted(f)
  <2>1. \A i \in 1 .. n : i \in 1 .. Len(q)
    BY <1>4
  <2> QED
    BY <1>7, <2>1 DEF Sorted
<1>11. ASSUME NEW v \in Int
       PROVE  CountUpTo(q, v) = CountUpTo(f, v) + (IF Last(q) <= v THEN 1 ELSE 0)
  <2>1. PICK w : w = q[Len(q)]
    OBVIOUS
  <2>2. CountUpTo(Append(f, w), v) = CountUpTo(f, v) + (IF w <= v THEN 1 ELSE 0)
    BY <1>7, <1>8, <2>1, CountAppended
  <2> QED
    BY <1>8, <1>9, <2>1, <2>2
<1> QED
  BY <1>2, <1>3, <1>6, <1>7, <1>8, <1>10, <1>11

LEMMA HeadIsTaken ==
    ASSUME NEW q \in Seq(Int), Sorted(q), Len(q) # 0
    PROVE  /\ Head(q) \in Int /\ Head(q) = q[1] /\ 1 \in 1 .. Len(q)
           /\ Tail(q) \in Seq(Int) /\ Len(Tail(q)) = Len(q) - 1 /\ Sorted(Tail(q))
           /\ \A i \in 1 .. Len(q) - 1 : Tail(q)[i] = q[i + 1]
           /\ \A v \in Int :
                CountUpTo(q, v) = CountUpTo(Tail(q), v) + (IF Head(q) <= v THEN 1 ELSE 0)
<1>1. Len(q) \in Nat /\ Len(q) > 0 /\ q # << >>
  OBVIOUS
<1>2. 1 \in 1 .. Len(q) /\ Len(q) - 1 \in Nat
  BY <1>1
<1>3. PICK t, x : t = Tail(q) /\ x = Head(q)
  OBVIOUS
<1>4. /\ x \in Int /\ x = q[1]
      /\ t \in Seq(Int) /\ Len(t) = Len(q) - 1
      /\ \A i \in 1 .. Len(q) - 1 : t[i] = q[i + 1]
  <2>1. /\ Head(q) \in Int /\ Tail(q) \in Seq(Int)
        /\ Len(Tail(q)) = Len(q) - 1
        /\ \A i \in 1 .. Len(Tail(q)) : Tail(q)[i] = q[i + 1]
    BY <1>1, HeadTailProperties
  <2>2. Head(q) = q[1]
    OBVIOUS
  <2> QED
    BY <1>3, <2>1, <2>2
<1>5. Sorted(t)
  <2> SUFFICES ASSUME NEW i \in 1 .. Len(q) - 1, NEW j \in 1 .. Len(q) - 1, i <= j
               PROVE  t[i] <= t[j]
    BY <1>4 DEF Sorted
  <2>1. i + 1 \in 1 .. Len(q) /\ j + 1 \in 1 .. Len(q) /\ i + 1 <= j + 1
    BY <1>1
  <2> QED
    BY <1>4, <2>1 DEF Sorted
<1>6. ASSUME NEW v \in Int
      PROVE  CountUpTo(q, v) = CountUpTo(t, v) + (IF x <= v THEN 1 ELSE 0)
  <2>1. PICK e : e = Append(<< >>, x)
    OBVIOUS
  <2>2. << >> \in Seq(Int)
    OBVIOUS
  <2>3. e \in Seq(Int) /\ e = <<x>>
    BY <1>4, <2>1
  <2>4. q = e \o t
    <3>1. q = <<x>> \o t
      <4>1. 1 \in 1 .. Len(q) /\ Len(q) \in 1 .. Len(q)
        BY <1>1
      <4>2. SubSeq(q, 1, Len(q)) = <<q[1]>> \o SubSeq(q, 1 + 1, Len(q))
        BY <4>1, SubSeqRecursiveFirst
      <4>3. SubSeq(q, 1, Len(q)) = q
        BY SubSeqFull
      <4>4. Tail(q) = SubSeq(q, 2, Len(q))
        BY <1>1, TailIsSubSeq
      <4>5. 1 + 1 = 2
        OBVIOUS
      <4> QED
        BY <1>3, <1>4, <4>2, <4>3, <4>4, <4>5
    <3> QED
      BY <2>3, <3>1
  <2>5. CountUpTo(q, v) = CountUpTo(e, v) + CountUpTo(t, v)
    <3>1. CountUpTo(e \o t, v) = CountUpTo(e, v) + CountUpTo(t, v)
      BY <1>4, <2>3, CountJoined
    <3> QED
      BY <2>4, <3>1
  <2>6. CountUpTo(e, v) = CountUpTo(<< >>, v) + (IF x <= v THEN 1 ELSE 0)
    BY <1>4, <2>1, <2>2, CountAppended
  <2>7. CountUpTo(<< >>, v) = 0
    BY CountNone
  <2>8. CountUpTo(t, v) \in 0 .. Len(t)
    BY <1>4, CountIsBounded
  <2>9. CountUpTo(t, v) \in Nat
    BY <1>2, <1>4, <2>8
  <2> QED
    BY <2>5, <2>6, <2>7, <2>9
<1> QED
  BY <1>2, <1>3, <1>4, <1>5, <1>6

LEMMA TopGoesDown ==
    ASSUME NEW less, NEW more, Ordered(less, more), Len(more) # 0
    PROVE  LET h == TopDown(less, more)
           IN  /\ Ordered(h[1], h[2])
               /\ Len(h[1]) = Len(less) + 1 /\ Len(h[2]) = Len(more) - 1
               /\ \A v \in Int : CountInBoth(h[1], h[2], v) = CountInBoth(less, more, v)
<1> USE DEF Ordered
<1>1. PICK a, b, x : a = Push(less, x) /\ b = Tail(more) /\ x = Head(more)
  OBVIOUS
<1>2. TopDown(less, more)[1] = a /\ TopDown(less, more)[2] = b
  BY <1>1 DEF TopDown
<1>3. /\ x \in Int /\ x = more[1] /\ 1 \in 1 .. Len(more)
      /\ b \in Seq(Int) /\ Len(b) = Len(more) - 1 /\ Sorted(b)
      /\ \A i \in 1 .. Len(more) - 1 : b[i] = more[i + 1]
      /\ \A v \in Int : CountUpTo(more, v) = CountUpTo(b, v) + (IF x <= v THEN 1 ELSE 0)
  BY <1>1, HeadIsTaken
<1>4. /\ a \in Seq(Int) /\ Len(a) = Len(less) + 1 /\ Sorted(a)
      /\ \A i \in 1 .. Len(less) + 1 : a[i] = x \/ \E j \in 1 .. Len(less) : a[i] = less[j]
      /\ \A v \in Int : CountUpTo(a, v) = CountUpTo(less, v) + (IF x <= v THEN 1 ELSE 0)
  <2>1. less \in Seq(Int) /\ Sorted(less) /\ x \in Int
    BY <1>3
  <2>2. PushedInto(a, less, x)
    BY <1>1, <2>1, PushProperties
  <2> QED
    BY <2>2 DEF PushedInto
<1>5. Len(more) \in Nat
  OBVIOUS
<1>6. \A i \in 1 .. Len(a), j \in 1 .. Len(b) : a[i] <= b[j]
  <2> TAKE i \in 1 .. Len(a), j \in 1 .. Len(b)
  <2>1. j + 1 \in 1 .. Len(more) /\ b[j] = more[j + 1] /\ 1 <= j + 1
    BY <1>3, <1>5
  <2>2. CASE a[i] = x
    <3>1. more[1] <= more[j + 1]
      BY <1>3, <2>1 DEF Sorted
    <3> QED
      BY <1>3, <2>1, <2>2, <3>1
  <2>3. CASE \E k \in 1 .. Len(less) : a[i] = less[k]
    BY <2>1, <2>3
  <2> QED
    BY <1>4, <2>2, <2>3
<1>7. ASSUME NEW v \in Int
      PROVE  CountInBoth(a, b, v) = CountInBoth(less, more, v)
  <2>1. CountUpTo(less, v) \in 0 .. Len(less)
    BY CountIsBounded
  <2>2. CountUpTo(b, v) \in 0 .. Len(b)
    BY <1>3, CountIsBounded
  <2>3. PICK k, l, d : k = CountUpTo(less, v) /\ l = CountUpTo(b, v)
                        /\ d = IF x <= v THEN 1 ELSE 0
    OBVIOUS
  <2>4. k \in Nat /\ l \in Nat /\ d \in Nat
    BY <1>3, <1>4, <2>1, <2>2, <2>3
  <2>5. CountUpTo(more, v) = l + d /\ CountUpTo(a, v) = k + d
    BY <1>3, <1>4, <2>3
  <2> QED
    BY <2>3, <2>4, <2>5 DEF CountInBoth
<1> QED
  BY <1>2, <1>3, <1>4, <1>6, <1>7

LEMMA TopGoesUp ==
    ASSUME NEW less, NEW more, Ordered(less, more), Len(less) # 0
    PROVE  LET h == TopUp(less, more)
           IN  /\ Ordered(h[1], h[2])
               /\ Len(h[1]) = Len(less) - 1 /\ Len(h[2]) = Len(more) + 1
               /\ \A v \in Int : CountInBoth(h[1], h[2], v) = CountInBoth(less, more, v)
<1> USE DEF Ordered
<1>1. PICK a, b, x : a = Front(less) /\ b = Push(more, x) /\ x = Last(less)
  OBVIOUS
<1>2. TopUp(less, more)[1] = a /\ TopUp(less, more)[2] = b
  BY <1>1 DEF TopUp
<1>3. /\ x \in Int /\ x = less[Len(less)] /\ Len(less) \in 1 .. Len(less)
      /\ a \in Seq(Int) /\ Len(a) = Len(less) - 1 /\ Sorted(a)
      /\ \A i \in 1 .. Len(less) - 1 : a[i] = less[i]
      /\ \A v \in Int : CountUpTo(less, v) = CountUpTo(a, v) + (IF x <= v THEN 1 ELSE 0)
  BY <1>1, LastIsTaken
<1>4. /\ b \in Seq(Int) /\ Len(b) = Len(more) + 1 /\ Sorted(b)
      /\ \A i \in 1 .. Len(more) + 1 : b[i] = x \/ \E j \in 1 .. Len(more) : b[i] = more[j]
      /\ \A v \in Int : CountUpTo(b, v) = CountUpTo(more, v) + (IF x <= v THEN 1 ELSE 0)
  <2>1. more \in Seq(Int) /\ Sorted(more) /\ x \in Int
    BY <1>3
  <2>2. PushedInto(b, more, x)
    BY <1>1, <2>1, PushProperties
  <2> QED
    BY <2>2 DEF PushedInto
<1>5. Len(less) \in Nat
  OBVIOUS
<1>6. \A i \in 1 .. Len(a), j \in 1 .. Len(b) : a[i] <= b[j]
  <2> TAKE i \in 1 .. Len(a), j \in 1 .. Len(b)
  <2>1. i \in 1 .. Len(less) /\ a[i] = less[i] /\ i <= Len(less)
    BY <1>3, <1>5
  <2>2. CASE b[j] = x
    <3>1. less[i] <= less[Len(less)]
      BY <1>3, <2>1 DEF Sorted
    <3> QED
      BY <1>3, <2>1, <2>2, <3>1
  <2>3. CASE \E k \in 1 .. Len(more) : b[j] = more[k]
    BY <2>1, <2>3
  <2> QED
    BY <1>4, <2>2, <2>3
<1>7. ASSUME NEW v \in Int
      PROVE  CountInBoth(a, b, v) = CountInBoth(less, more, v)
  <2>1. CountUpTo(a, v) \in 0 .. Len(a)
    BY <1>3, CountIsBounded
  <2>2. CountUpTo(more, v) \in 0 .. Len(more)
    BY CountIsBounded
  <2>3. PICK k, l, d : k = CountUpTo(a, v) /\ l = CountUpTo(more, v)
                        /\ d = IF x <= v THEN 1 ELSE 0
    OBVIOUS
  <2>4. k \in Nat /\ l \in Nat /\ d \in Nat
    BY <1>3, <1>4, <2>1, <2>2, <2>3
  <2>5. CountUpTo(less, v) = k + d /\ CountUpTo(b, v) = l + d
    BY <1>3, <1>4, <2>3
  <2> QED
    BY <2>3, <2>4, <2>5 DEF CountInBoth
<1> QED
  BY <1>2, <1>3, <1>4, <1>6, <1>7

\* A function that the recursion of MoveTops describes.
Turns(h, less, more, half, n) ==
    h = [k \in 0 .. n |->
            IF k = 0 THEN <<less, more>>
            ELSE IF half >= Len(less) THEN TopDown(h[k - 1][1], h[k - 1][2])
                                      ELSE TopUp(h[k - 1][1], h[k - 1][2])]

LEMMA NoTurn ==
    ASSUME NEW less, NEW more, Len(less) \in Nat
    PROVE  MoveTops(less, more, Len(less)) = <<less, more>>
<1> DEFINE g == [k \in 0 .. 0 |-> <<less, more>>]
<1>1. Turns(g, less, more, Len(less), 0)
  <2>1. \A k \in 0 .. 0 : k = 0
    OBVIOUS
  <2> QED
    BY <2>1 DEF Turns
<1>2. PICK c : c = CHOOSE h : Turns(h, less, more, Len(less), 0)
  OBVIOUS
<1>3. Turns(c, less, more, Len(less), 0)
  BY <1>1, <1>2
<1>4. c[0] = <<less, more>>
  <2>1. 0 \in 0 .. 0
    OBVIOUS
  <2> QED
    BY <1>3, <2>1 DEF Turns
<1>5. Len(less) - Len(less) = 0 /\ Len(less) >= Len(less)
  OBVIOUS
<1>6. MoveTops(less, more, Len(less)) = c[0]
  BY <1>2, <1>5 DEF MoveTops, Turns
<1> QED
  BY <1>4, <1>6

LEMMA OneTurn ==
    ASSUME NEW less, NEW more, Len(less) \in Nat, NEW half \in Nat,
           half = Len(less) + 1 \/ half = Len(less) - 1
    PROVE  MoveTops(less, more, half) = IF half >= Len(less) THEN TopDown(less, more)
                                                             ELSE TopUp(less, more)
<1>1. PICK next : next = IF half >= Len(less) THEN TopDown(less, more) ELSE TopUp(less, more)
  OBVIOUS
<1> DEFINE g  == [k \in 0 .. 1 |-> IF k = 0 THEN <<less, more>> ELSE next]
           g1 == [k \in 0 .. 1 |->
                    IF k = 0 THEN <<less, more>>
                    ELSE IF half >= Len(less) THEN TopDown(g[k - 1][1], g[k - 1][2])
                                              ELSE TopUp(g[k - 1][1], g[k - 1][2])]
<1>2. ASSUME NEW k \in 0 .. 1
      PROVE  g[k] = g1[k]
  <2>1. CASE k = 0
    BY <2>1
  <2>2. CASE k # 0
    <3>1. k - 1 = 0 /\ 0 \in 0 .. 1
      BY <2>2
    <3>2. g[k - 1][1] = less /\ g[k - 1][2] = more
      BY <3>1
    <3>3. g1[k] = IF half >= Len(less) THEN TopDown(less, more) ELSE TopUp(less, more)
      <4> HIDE DEF g
      <4> QED
        BY <2>2, <3>2
    <3> QED
      BY <1>1, <2>2, <3>3
  <2> QED
    BY <2>1, <2>2
<1>3. g = g1
  BY <1>2
<1>4. Turns(g, less, more, half, 1)
  <2> HIDE DEF g
  <2> QED
    BY <1>3 DEF Turns
<1>5. PICK c : c = CHOOSE h : Turns(h, less, more, half, 1)
  OBVIOUS
<1>6. Turns(c, less, more, half, 1)
  <2> HIDE DEF g
  <2> QED
    BY <1>4, <1>5
<1>7. c[0] = <<less, more>>
  <2>1. 0 \in 0 .. 1
    OBVIOUS
  <2> QED
    BY <1>6, <2>1 DEF Turns
<1>8. c[1] = next
  <2>1. 1 \in 0 .. 1 /\ 1 # 0 /\ 1 - 1 = 0
    OBVIOUS
  <2>2. c[1] = IF half >= Len(less) THEN TopDown(c[1 - 1][1], c[1 - 1][2])
                                    ELSE TopUp(c[1 - 1][1], c[1 - 1][2])
    BY <1>6, <2>1 DEF Turns
  <2>3. c[1 - 1][1] = less /\ c[1 - 1][2] = more
    BY <1>7, <2>1
  <2> QED
    BY <1>1, <2>2, <2>3
<1>9. (IF half >= Len(less) THEN half - Len(less) ELSE Len(less) - half) = 1
  OBVIOUS
<1>10. MoveTops(less, more, half) = c[1]
  BY <1>5, <1>9 DEF MoveTops, Turns
<1> QED
  BY <1>1, <1>8, <1>10

\* What is left when both loops are done: the same values, half of them in each.
Halved(h, less, more) ==
    /\ Ordered(h[1], h[2])
    /\ Len(h[1]) + Len(h[2]) = Len(less) + Len(more)
    /\ Len(h[1]) = Len(h[2]) \/ Len(h[1]) = Len(h[2]) + 1
    /\ \A v \in Int : CountInBoth(h[1], h[2], v) = CountInBoth(less, more, v)

LEMMA BalancedHalves ==
    ASSUME NEW less, NEW more, Ordered(less, more), Len(less) > 0, Len(more) > 0,
           Len(less) - Len(more) \in -1 .. 2
    PROVE  Halved(Balanced(less, more), less, more)
<1>1. PICK k, l : k = Len(less) /\ l = Len(more)
  OBVIOUS
<1>2. k \in Nat \ {0} /\ l \in Nat \ {0} /\ k - l \in -1 .. 2
  BY <1>1 DEF Ordered
<1>3. PICK half : half = (k + l + 1) \div 2
  OBVIOUS
<1>4. Balanced(less, more) = MoveTops(less, more, half)
  BY <1>1, <1>3 DEF Balanced
<1>5. PICK h : h = Balanced(less, more)
  OBVIOUS
<1>6. CASE k = l \/ k = l + 1
  <2>1. half = k
    BY <1>2, <1>3, <1>6
  <2>2. h = <<less, more>>
    BY <1>1, <1>2, <1>4, <1>5, <2>1, NoTurn
  <2>3. h[1] = less /\ h[2] = more
    BY <2>2
  <2> QED
    BY <1>1, <1>5, <1>6, <2>3 DEF Halved
<1>7. CASE k = l - 1
  <2>1. half = k + 1 /\ half \in Nat /\ half >= k
    BY <1>2, <1>3, <1>7
  <2>2. h = TopDown(less, more)
    BY <1>1, <1>2, <1>4, <1>5, <2>1, OneTurn
  <2>3. /\ Ordered(h[1], h[2])
        /\ Len(h[1]) = k + 1 /\ Len(h[2]) = l - 1
        /\ \A v \in Int : CountInBoth(h[1], h[2], v) = CountInBoth(less, more, v)
    BY <1>1, <1>2, <2>2, TopGoesDown
  <2> QED
    BY <1>1, <1>2, <1>5, <1>7, <2>3 DEF Halved
<1>8. CASE k = l + 2
  <2>1. half = k - 1 /\ half \in Nat /\ ~(half >= k)
    BY <1>2, <1>3, <1>8
  <2>2. h = TopUp(less, more)
    BY <1>1, <1>2, <1>4, <1>5, <2>1, OneTurn
  <2>3. /\ Ordered(h[1], h[2])
        /\ Len(h[1]) = k - 1 /\ Len(h[2]) = l + 1
        /\ \A v \in Int : CountInBoth(h[1], h[2], v) = CountInBoth(less, more, v)
    BY <1>1, <1>2, <2>2, TopGoesUp
  <2> QED
    BY <1>1, <1>2, <1>5, <1>8, <2>3 DEF Halved
<1> QED
  BY <1>2, <1>6, <1>7, <1>8

\* The values a metric receives lie between the limits, which the halves start with.
Inner == Lowest + 1 .. Highest - 1

\* What the halves of a median hold of the values s it was given.
HalvesHold(less, more, s) ==
    /\ Ordered(less, more)
    /\ Len(less) + Len(more) = Len(s) + 2
    /\ Len(less) = Len(more) \/ Len(less) = Len(more) + 1
    /\ \A v \in Int :
         CountInBoth(less, more, v)
            = CountUpTo(s, v) + (IF Lowest <= v THEN 1 ELSE 0)
                              + (IF Highest - 1 <= v THEN 1 ELSE 0)

LEMMA HalvesStart == HalvesHold(<<Lowest>>, <<Highest - 1>>, << >>)
<1>0. Lowest \in Int /\ Highest - 1 \in Int /\ Lowest <= Highest - 1
  BY LimitsAssumption
<1>1. PICK a, b : a = Lowest /\ b = Highest - 1
  OBVIOUS
<1>2. a \in Int /\ b \in Int /\ a <= b
  BY <1>0, <1>1
<1>3. PICK less, more : less = Append(<< >>, a) /\ more = Append(<< >>, b)
  OBVIOUS
<1>4. << >> \in Seq(Int) /\ Len(<< >>) = 0
  OBVIOUS
<1>5. /\ less \in Seq(Int) /\ Len(less) = 1 /\ less[1] = a
      /\ more \in Seq(Int) /\ Len(more) = 1 /\ more[1] = b
  BY <1>2, <1>3
<1>6. Ordered(less, more)
  <2>1. \A i \in 1 .. 1 : i = 1
    OBVIOUS
  <2> QED
    BY <1>2, <1>5, <2>1 DEF Ordered, Sorted
<1>7. ASSUME NEW v \in Int
      PROVE  CountInBoth(less, more, v)
                = CountUpTo(<< >>, v) + (IF a <= v THEN 1 ELSE 0) + (IF b <= v THEN 1 ELSE 0)
  <2>1. CountUpTo(<< >>, v) = 0
    BY CountNone
  <2>2. CountUpTo(less, v) = CountUpTo(<< >>, v) + (IF a <= v THEN 1 ELSE 0)
    BY <1>2, <1>3, <1>4, CountAppended
  <2>3. CountUpTo(more, v) = CountUpTo(<< >>, v) + (IF b <= v THEN 1 ELSE 0)
    BY <1>2, <1>3, <1>4, CountAppended
  <2> QED
    BY <2>1, <2>2, <2>3 DEF CountInBoth
<1>8. less = <<a>> /\ more = <<b>>
  BY <1>2, <1>3
<1>9. HalvesHold(less, more, << >>)
  BY <1>1, <1>4, <1>5, <1>6, <1>7 DEF HalvesHold
<1> QED
  BY <1>1, <1>8, <1>9

LEMMA HalvesTake ==
    ASSUME NEW a, NEW s \in Seq(Int), HalvesHold(a.less, a.more, s), NEW m \in Int
    PROVE  HalvesHold(Halves(a, m)[1], Halves(a, m)[2], Append(s, m))
<1>1. PICK less, more : less = a.less /\ more = a.more
  OBVIOUS
<1>2. PICK t : t = Append(s, m)
  OBVIOUS
<1>3. /\ less \in Seq(Int) /\ more \in Seq(Int) /\ Sorted(less) /\ Sorted(more)
      /\ \A i \in 1 .. Len(less), j \in 1 .. Len(more) : less[i] <= more[j]
  BY <1>1 DEF HalvesHold, Ordered
<1>4. /\ Len(less) + Len(more) = Len(s) + 2
      /\ Len(less) = Len(more) \/ Len(less) = Len(more) + 1
      /\ \A v \in Int :
           CountInBoth(less, more, v)
              = CountUpTo(s, v) + (IF Lowest <= v THEN 1 ELSE 0)
                                + (IF Highest - 1 <= v THEN 1 ELSE 0)
  BY <1>1 DEF HalvesHold
<1>5. Len(less) \in Nat \ {0} /\ Len(more) \in Nat \ {0} /\ Len(s) \in Nat
  <2>1. Len(less) \in Nat /\ Len(more) \in Nat /\ Len(s) \in Nat
    BY <1>3
  <2> QED
    BY <1>4, <2>1
<1>6. Len(t) = Len(s) + 1
  BY <1>2
<1>7. \A v \in Int : CountUpTo(t, v) = CountUpTo(s, v) + (IF m <= v THEN 1 ELSE 0)
  BY <1>2, CountAppended
<1>8. PICK h : h = Halves(a, m)
  OBVIOUS
<1>9. Len(less) # 0 /\ Len(less) \in 1 .. Len(less)
  BY <1>5
<1>10. Last(less) = less[Len(less)] /\ less[Len(less)] \in Int
  BY <1>3, <1>9, LastIsTaken
\* Whatever half takes m.
<1>11. ASSUME NEW c, NEW d, Halved(h, c, d), Len(c) + Len(d) = Len(less) + Len(more) + 1,
              \A v \in Int : CountInBoth(c, d, v)
                                = CountInBoth(less, more, v) + (IF m <= v THEN 1 ELSE 0)
       PROVE  HalvesHold(h[1], h[2], t)
  <2>1. ASSUME NEW v \in Int
        PROVE  CountInBoth(h[1], h[2], v)
                  = CountUpTo(t, v) + (IF Lowest <= v THEN 1 ELSE 0)
                                    + (IF Highest - 1 <= v THEN 1 ELSE 0)
    <3>1. PICK n, i, j, k : /\ n = CountUpTo(s, v) /\ i = (IF m <= v THEN 1 ELSE 0)
                            /\ j = (IF Lowest <= v THEN 1 ELSE 0)
                            /\ k = (IF Highest - 1 <= v THEN 1 ELSE 0)
      OBVIOUS
    <3>2. n \in 0 .. Len(s)
      BY <3>1, CountIsBounded
    <3>3. n \in Int /\ i \in Int /\ j \in Int /\ k \in Int
      BY <3>1, <3>2
    <3>4. CountInBoth(h[1], h[2], v) = CountInBoth(c, d, v)
      BY <1>11 DEF Halved
    <3>5. CountInBoth(c, d, v) = CountInBoth(less, more, v) + i
      BY <1>11, <3>1
    <3>6. CountInBoth(less, more, v) = n + j + k
      BY <1>4, <3>1
    <3>7. CountUpTo(t, v) = n + i
      BY <1>7, <3>1
    <3>8. n + j + k + i = n + i + j + k
      BY <3>3
    <3> QED
      BY <3>1, <3>4, <3>5, <3>6, <3>7, <3>8
  <2>2. Len(h[1]) + Len(h[2]) = Len(t) + 2
    <3>1. Len(h[1]) + Len(h[2]) = Len(c) + Len(d)
      BY <1>11 DEF Halved
    <3>2. Len(h[1]) + Len(h[2]) = Len(s) + 2 + 1
      BY <1>4, <1>11, <3>1
    <3>3. PICK n : n = Len(s)
      OBVIOUS
    <3>4. n \in Nat /\ n + 2 + 1 = n + 1 + 2
      BY <1>5, <3>3
    <3> QED
      BY <1>6, <3>2, <3>3, <3>4
  <2> QED
    BY <1>11, <2>1, <2>2 DEF HalvesHold, Halved
<1>12. CASE m <= Last(less)
  <2>1. PICK c : c = Push(less, m)
    OBVIOUS
  <2>2. h = Balanced(c, more)
    BY <1>1, <1>8, <1>12, <2>1 DEF Halves
  <2>3. /\ c \in Seq(Int) /\ Len(c) = Len(less) + 1 /\ Sorted(c)
        /\ \A i \in 1 .. Len(less) + 1 : c[i] = m \/ \E j \in 1 .. Len(less) : c[i] = less[j]
        /\ \A v \in Int : CountUpTo(c, v) = CountUpTo(less, v) + (IF m <= v THEN 1 ELSE 0)
    <3>1. PushedInto(c, less, m)
      BY <1>3, <2>1, PushProperties
    <3> QED
      BY <3>1 DEF PushedInto
  <2>4. \A i \in 1 .. Len(c), j \in 1 .. Len(more) : c[i] <= more[j]
    <3> TAKE i \in 1 .. Len(c), j \in 1 .. Len(more)
    <3>1. more[j] \in Int /\ less[Len(less)] <= more[j]
      BY <1>3, <1>9
    <3>2. CASE c[i] = m
      BY <1>10, <1>12, <3>1, <3>2
    <3>3. CASE \E k \in 1 .. Len(less) : c[i] = less[k]
      BY <1>3, <3>3
    <3> QED
      BY <2>3, <3>2, <3>3
  <2>5. Ordered(c, more)
    BY <1>3, <2>3, <2>4 DEF Ordered
  <2>6. Len(c) > 0 /\ Len(more) > 0 /\ Len(c) - Len(more) \in -1 .. 2
    <3>1. PICK k, l : k = Len(less) /\ l = Len(more)
      OBVIOUS
    <3>2. k \in Nat \ {0} /\ l \in Nat \ {0} /\ (k = l \/ k = l + 1)
      BY <1>4, <1>5, <3>1
    <3>3. k + 1 > 0 /\ l > 0 /\ (k + 1) - l \in -1 .. 2
      BY <3>2
    <3> QED
      BY <2>3, <3>1, <3>3
  <2>7. Halved(h, c, more)
    BY <2>2, <2>5, <2>6, BalancedHalves
  <2>8. Len(c) + Len(more) = Len(less) + Len(more) + 1
    BY <1>5, <2>3
  <2>9. ASSUME NEW v \in Int
        PROVE  CountInBoth(c, more, v)
                  = CountInBoth(less, more, v) + (IF m <= v THEN 1 ELSE 0)
    <3>1. PICK n, k, i : /\ n = CountUpTo(less, v) /\ k = CountUpTo(more, v)
                         /\ i = (IF m <= v THEN 1 ELSE 0)
      OBVIOUS
    <3>2. n \in 0 .. Len(less)
      BY <1>3, <3>1, CountIsBounded
    <3>3. k \in 0 .. Len(more)
      BY <1>3, <3>1, CountIsBounded
    <3>4. i \in Int /\ CountUpTo(c, v) = n + i
      BY <2>3, <3>1
    <3> QED
      BY <3>1, <3>2, <3>3, <3>4 DEF CountInBoth
  <2>10. HalvesHold(h[1], h[2], t)
    BY <1>11, <2>7, <2>8, <2>9
  <2> QED
    BY <1>2, <1>8, <2>10
<1>13. CASE ~(m <= Last(less))
  <2>1. PICK d : d = Push(more, m)
    OBVIOUS
  <2>2. h = Balanced(less, d)
    BY <1>1, <1>8, <1>13, <2>1 DEF Halves
  <2>3. /\ d \in Seq(Int) /\ Len(d) = Len(more) + 1 /\ Sorted(d)
        /\ \A i \in 1 .. Len(more) + 1 : d[i] = m \/ \E j \in 1 .. Len(more) : d[i] = more[j]
        /\ \A v \in Int : CountUpTo(d, v) = CountUpTo(more, v) + (IF m <= v THEN 1 ELSE 0)
    <3>1. PushedInto(d, more, m)
      BY <1>3, <2>1, PushProperties
    <3> QED
      BY <3>1 DEF PushedInto
  <2>4. \A i \in 1 .. Len(less), j \in 1 .. Len(d) : less[i] <= d[j]
    <3> TAKE i \in 1 .. Len(less), j \in 1 .. Len(d)
    <3>1. less[i] \in Int /\ less[i] <= less[Len(less)]
      <4>1. less[i] \in Int /\ i <= Len(less)
        BY <1>3, <1>5
      <4> QED
        BY <1>3, <1>9, <4>1 DEF Sorted
    <3>2. CASE d[j] = m
      BY <1>10, <1>13, <3>1, <3>2
    <3>3. CASE \E k \in 1 .. Len(more) : d[j] = more[k]
      BY <1>3, <3>3
    <3> QED
      BY <2>3, <3>2, <3>3
  <2>5. Ordered(less, d)
    BY <1>3, <2>3, <2>4 DEF Ordered
  <2>6. Len(less) > 0 /\ Len(d) > 0 /\ Len(less) - Len(d) \in -1 .. 2
    BY <1>4, <1>5, <2>3
  <2>7. Halved(h, less, d)
    BY <2>2, <2>5, <2>6, BalancedHalves
  <2>8. Len(less) + Len(d) = Len(less) + Len(more) + 1
    BY <1>5, <2>3
  <2>9. ASSUME NEW v \in Int
        PROVE  CountInBoth(less, d, v)
                  = CountInBoth(less, more, v) + (IF m <= v THEN 1 ELSE 0)
    <3>1. PICK n, k, i : /\ n = CountUpTo(less, v) /\ k = CountUpTo(more, v)
                         /\ i = (IF m <= v THEN 1 ELSE 0)
      OBVIOUS
    <3>2. n \in 0 .. Len(less)
      BY <1>3, <3>1, CountIsBounded
    <3>3. k \in 0 .. Len(more)
      BY <1>3, <3>1, CountIsBounded
    <3>4. i \in Int /\ CountUpTo(d, v) = k + i
      BY <2>3, <3>1
    <3> QED
      BY <3>1, <3>2, <3>3, <3>4 DEF CountInBoth
  <2>10. HalvesHold(h[1], h[2], t)
    BY <1>11, <2>7, <2>8, <2>9
  <2> QED
    BY <1>2, <1>8, <2>10
<1> QED
  BY <1>12, <1>13

\* The top of the smaller half is the lower median of the values given.
LEMMA TopIsTheMedian ==
    ASSUME NEW less, NEW more, NEW s \in Seq(Int), HalvesHold(less, more, s),
           \A j \in 1 .. Len(s) : s[j] \in Inner, s # << >>
    PROVE  Last(less) = LowerMedian(s)
<1>1. /\ less \in Seq(Int) /\ more \in Seq(Int) /\ Sorted(less) /\ Sorted(more)
      /\ \A i \in 1 .. Len(less), j \in 1 .. Len(more) : less[i] <= more[j]
  BY DEF HalvesHold, Ordered
<1>2. PICK n, k, half : n = Len(s) /\ k = Len(less) /\ half = (n + 1) \div 2
  OBVIOUS
<1>3. n \in Nat \ {0} /\ k \in Nat /\ Len(more) \in Nat
  BY <1>1, <1>2, EmptySeq
<1>4. k + Len(more) = n + 2 /\ (k = Len(more) \/ k = Len(more) + 1)
  BY <1>2 DEF HalvesHold
<1>5. k = half + 1 /\ half \in Nat \ {0} /\ half <= n
  <2>1. PICK l : l = Len(more)
    OBVIOUS
  <2>2. l \in Nat /\ k + l = n + 2 /\ (k = l \/ k = l + 1)
    BY <1>3, <1>4, <2>1
  <2>3. CASE k = l
    BY <1>2, <1>3, <2>2, <2>3
  <2>4. CASE k = l + 1
    BY <1>2, <1>3, <2>2, <2>4
  <2> QED
    BY <2>2, <2>3, <2>4
<1>6. PICK w : w = less[k]
  OBVIOUS
<1>7. w \in Int /\ Last(less) = w /\ k \in 1 .. k
  <2>1. k \in 1 .. k
    BY <1>5
  <2>2. less[k] \in Int
    BY <1>1, <1>2, <2>1, ElementOfSeq
  <2> QED
    BY <1>2, <1>6, <2>1, <2>2 DEF Last
<1>8. PICK low, high : low = Lowest /\ high = Highest - 1
  OBVIOUS
<1>9. low \in Int /\ high \in Int /\ low < high
  <2>1. Lowest \in Int /\ Highest \in Int /\ Lowest < 0 /\ Highest > 0
    BY LimitsAssumption
  <2> QED
    BY <1>8, <2>1
<1>10. \A j \in 1 .. n : s[j] \in Int /\ low < s[j] /\ s[j] <= high
  <2> TAKE j \in 1 .. n
  <2>1. s[j] \in Lowest + 1 .. Highest - 1
    BY <1>2 DEF Inner
  <2>2. s[j] \in low + 1 .. high
    BY <1>8, <2>1
  <2> QED
    BY <1>9, <2>2
<1>11. \A v \in Int : CountInBoth(less, more, v)
                         = CountUpTo(s, v) + (IF low <= v THEN 1 ELSE 0)
                                           + (IF high <= v THEN 1 ELSE 0)
  BY <1>8 DEF HalvesHold
\* The smaller half is not above its top, the larger one is not below it.
<1>12. /\ CountUpTo(s, w) + (IF low <= w THEN 1 ELSE 0) + (IF high <= w THEN 1 ELSE 0)
            >= half + 1
  <2>1. CountUpTo(less, w) = k
    <3>1. \A j \in 1 .. Len(less) : less[j] <= w
      <4> TAKE j \in 1 .. Len(less)
      <4>1. j <= k /\ k \in 1 .. Len(less)
        BY <1>2, <1>3, <1>7
      <4> QED
        BY <1>1, <1>6, <4>1 DEF Sorted
    <3> QED
      BY <1>1, <1>2, <1>7, <3>1, CountAll
  <2>2. CountUpTo(more, w) \in 0 .. Len(more)
    BY <1>1, <1>7, CountIsBounded
  <2>3. CountInBoth(less, more, w) >= k
    BY <1>3, <2>1, <2>2 DEF CountInBoth
  <2>4. CountInBoth(less, more, w)
           = CountUpTo(s, w) + (IF low <= w THEN 1 ELSE 0) + (IF high <= w THEN 1 ELSE 0)
    BY <1>7, <1>11
  <2> QED
    BY <1>5, <2>3, <2>4
<1>13. /\ CountUpTo(s, w - 1) + (IF low <= w - 1 THEN 1 ELSE 0)
                              + (IF high <= w - 1 THEN 1 ELSE 0) <= half
  <2>1. w - 1 \in Int
    BY <1>7
  <2>2. CountUpTo(less, w - 1) <= k - 1
    <3>1. k \in 1 .. Len(less) /\ less[k] > w - 1
      BY <1>2, <1>6, <1>7
    <3> QED
      BY <1>1, <1>2, <2>1, <3>1, CountWithout
  <2>3. CountUpTo(more, w - 1) = 0
    <3>1. \A j \in 1 .. Len(more) : ~(more[j] <= w - 1)
      <4> TAKE j \in 1 .. Len(more)
      <4>1. more[j] \in Int
        BY <1>1
      <4>2. less[k] <= more[j]
        BY <1>1, <1>2, <1>7
      <4> QED
        BY <1>6, <1>7, <4>1, <4>2
    <3> QED
      BY <3>1, CountNone
  <2>4. CountUpTo(less, w - 1) \in 0 .. Len(less)
    BY <1>1, <2>1, CountIsBounded
  <2>5. CountInBoth(less, more, w - 1) <= half
    BY <1>2, <1>3, <1>5, <2>2, <2>3, <2>4 DEF CountInBoth
  <2>6. CountInBoth(less, more, w - 1)
           = CountUpTo(s, w - 1) + (IF low <= w - 1 THEN 1 ELSE 0)
                                 + (IF high <= w - 1 THEN 1 ELSE 0)
    BY <2>1, <1>11
  <2> QED
    BY <2>5, <2>6
<1>14. PICK c, d : c = CountUpTo(s, w) /\ d = CountUpTo(s, w - 1)
  OBVIOUS
<1>15. c \in 0 .. n /\ d \in 0 .. n
  <2>1. w - 1 \in Int
    BY <1>7
  <2>2. c \in 0 .. n
    BY <1>2, <1>7, <1>14, CountIsBounded
  <2>3. d \in 0 .. n
    BY <1>2, <1>14, <2>1, CountIsBounded
  <2> QED
    BY <2>2, <2>3
<1>16. low < w
  <2> SUFFICES ASSUME w <= low PROVE FALSE
    BY <1>7, <1>9
  <2>1. \A j \in 1 .. Len(s) : ~(s[j] <= w)
    BY <1>2, <1>7, <1>9, <1>10
  <2>2. c = 0
    BY <1>14, <2>1, CountNone
  <2>3. ~(high <= w)
    BY <1>7, <1>9
  <2>4. PICK i : i = IF low <= w THEN 1 ELSE 0
    OBVIOUS
  <2>5. i \in 0 .. 1
    BY <2>4
  <2>6. c + i + 0 >= half + 1
    BY <1>12, <1>14, <2>3, <2>4
  <2> QED
    BY <1>5, <2>2, <2>5, <2>6
<1>17. d < half
  <2>1. low <= w - 1
    BY <1>7, <1>9, <1>16
  <2>2. d + 1 + (IF high <= w - 1 THEN 1 ELSE 0) <= half
    BY <1>13, <1>14, <2>1
  <2> QED
    BY <1>5, <1>15, <2>2
<1>18. c >= half
  <2>1. c + 1 + (IF high <= w THEN 1 ELSE 0) >= half + 1
    <3>1. low <= w
      BY <1>7, <1>9, <1>16
    <3> QED
      BY <1>12, <1>14, <3>1
  <2>2. CASE ~(high <= w)
    BY <1>5, <1>15, <2>1, <2>2
  <2>3. CASE high <= w
    <3>1. \A j \in 1 .. Len(s) : s[j] <= w
      BY <1>2, <1>7, <1>9, <1>10, <2>3
    <3>2. c = n
      BY <1>2, <1>7, <1>14, <3>1, CountAll
    <3> QED
      BY <1>5, <1>3, <3>2
  <2> QED
    BY <2>2, <2>3
<1>19. w \in Range(s)
  <2> SUFFICES ASSUME w \notin Range(s) PROVE FALSE
    OBVIOUS
  <2>1. \A j \in 1 .. Len(s) : s[j] \in Range(s)
    BY DEF Range
  <2>2. \A j \in 1 .. Len(s) : s[j] <= w <=> s[j] <= w - 1
    <3> TAKE j \in 1 .. Len(s)
    <3>1. s[j] \in Int /\ s[j] # w
      BY <2>1
    <3> QED
      BY <1>7, <3>1
  <2>3. UpTo(s, w) = UpTo(s, w - 1)
    BY <2>2 DEF UpTo
  <2>4. c = d
    BY <1>14, <2>3 DEF CountUpTo
  <2> QED
    BY <1>5, <1>15, <1>17, <1>18, <2>4
<1>20. \A v \in Int : /\ {j \in DOMAIN s : s[j] < v} = UpTo(s, v - 1)
                      /\ {j \in DOMAIN s : s[j] <= v} = UpTo(s, v)
  <2> TAKE v \in Int
  <2>1. DOMAIN s = 1 .. Len(s)
    OBVIOUS
  <2>2. \A j \in 1 .. Len(s) : s[j] < v <=> s[j] <= v - 1
    <3> TAKE j \in 1 .. Len(s)
    <3>1. s[j] \in Int
      OBVIOUS
    <3> QED
      BY <3>1
  <2> QED
    BY <2>1, <2>2 DEF UpTo
<1> DEFINE IsMedian(v) == /\ Cardinality({j \in DOMAIN s : s[j] < v}) < half
                          /\ Cardinality({j \in DOMAIN s : s[j] <= v}) >= half
<1>21. Range(s) \subseteq Int
  BY RangeOfSeq
<1>22. \A v \in Range(s) : IsMedian(v) <=> CountUpTo(s, v - 1) < half /\ CountUpTo(s, v) >= half
  BY <1>20, <1>21 DEF CountUpTo
<1>23. IsMedian(w)
  <2> HIDE DEF IsMedian
  <2> QED
    BY <1>14, <1>17, <1>18, <1>19, <1>22
<1>24. ASSUME NEW v \in Range(s), IsMedian(v) PROVE v = w
  <2>1. v \in Int /\ v - 1 \in Int /\ w - 1 \in Int
    BY <1>7, <1>21
  <2>2. CountUpTo(s, v - 1) < half /\ CountUpTo(s, v) >= half
    <3> HIDE DEF IsMedian
    <3> QED
      BY <1>22, <1>24
  <2>3. CountUpTo(s, v - 1) \in 0 .. n
    BY <1>2, <2>1, CountIsBounded
  <2>4. CountUpTo(s, v) \in 0 .. n
    BY <1>2, <2>1, CountIsBounded
  <2>5. CASE v < w
    <3>1. v <= w - 1
      BY <1>7, <2>1, <2>5
    <3>2. CountUpTo(s, v) <= d
      BY <1>14, <2>1, <3>1, CountMonotone
    <3> QED
      BY <1>5, <1>15, <1>17, <2>2, <2>4, <3>2
  <2>6. CASE w < v
    <3>1. w <= v - 1
      BY <1>7, <2>1, <2>6
    <3>2. c <= CountUpTo(s, v - 1)
      BY <1>7, <1>14, <2>1, <3>1, CountMonotone
    <3> QED
      BY <1>5, <1>15, <1>18, <2>2, <2>3, <3>2
  <2> QED
    BY <1>7, <2>1, <2>5, <2>6
<1>25. LowerMedian(s) = CHOOSE v \in Range(s) : IsMedian(v)
  BY <1>2 DEF LowerMedian
<1>26. PICK med : med = CHOOSE v \in Range(s) : IsMedian(v)
  OBVIOUS
<1> HIDE DEF IsMedian
<1>27. med \in Range(s) /\ IsMedian(med)
  BY <1>19, <1>23, <1>26
<1> QED
  BY <1>7, <1>24, <1>25, <1>26, <1>27

\* Before the first value the top is the limit that the smaller half starts from.
LEMMA TopAtTheStart ==
    ASSUME NEW less, NEW more, NEW s, s = << >>, HalvesHold(less, more, s)
    PROVE  Last(less) = Lowest
<1>1. /\ less \in Seq(Int) /\ more \in Seq(Int)
      /\ \A i \in 1 .. Len(less), j \in 1 .. Len(more) : less[i] <= more[j]
  BY DEF HalvesHold, Ordered
<1>2. Len(less) = 1 /\ Len(more) = 1
  <2>1. PICK k, l : k = Len(less) /\ l = Len(more)
    OBVIOUS
  <2>2. Len(s) = 0
    OBVIOUS
  <2>3. k \in Nat /\ l \in Nat
    BY <1>1, <2>1
  <2>4. k + l = 0 + 2 /\ (k = l \/ k = l + 1)
    BY <2>1, <2>2 DEF HalvesHold
  <2> QED
    BY <2>1, <2>3, <2>4
<1>3. PICK a, b : a = less[1] /\ b = more[1]
  OBVIOUS
<1>4. a \in Int /\ b \in Int /\ a <= b /\ Last(less) = a
  <2>1. 1 \in 1 .. Len(less) /\ 1 \in 1 .. Len(more)
    BY <1>2
  <2> QED
    BY <1>1, <1>2, <1>3, <2>1 DEF Last
<1>5. Lowest \in Int /\ Highest - 1 \in Int /\ Lowest < Highest - 1
  <2>1. Lowest \in Int /\ Highest \in Int /\ Lowest < 0 /\ Highest > 0
    BY LimitsAssumption
  <2> QED
    BY <2>1
<1>6. \A v \in Int : CountUpTo(less, v) = (IF a <= v THEN 1 ELSE 0)
  <2> TAKE v \in Int
  <2>1. \A j \in 1 .. Len(less) : less[j] = a
    <3>1. \A j \in 1 .. 1 : j = 1
      OBVIOUS
    <3> QED
      BY <1>2, <1>3, <3>1
  <2>2. CASE a <= v
    BY <1>1, <1>2, <2>1, <2>2, CountAll
  <2>3. CASE ~(a <= v)
    BY <2>1, <2>3, CountNone
  <2> QED
    BY <2>2, <2>3
<1>7. \A v \in Int : CountUpTo(more, v) = (IF b <= v THEN 1 ELSE 0)
  <2> TAKE v \in Int
  <2>1. \A j \in 1 .. Len(more) : more[j] = b
    <3>1. \A j \in 1 .. 1 : j = 1
      OBVIOUS
    <3> QED
      BY <1>2, <1>3, <3>1
  <2>2. CASE b <= v
    BY <1>1, <1>2, <2>1, <2>2, CountAll
  <2>3. CASE ~(b <= v)
    BY <2>1, <2>3, CountNone
  <2> QED
    BY <2>2, <2>3
<1>8. \A v \in Int : (IF a <= v THEN 1 ELSE 0) + (IF b <= v THEN 1 ELSE 0)
                       = (IF Lowest <= v THEN 1 ELSE 0) + (IF Highest - 1 <= v THEN 1 ELSE 0)
  <2> TAKE v \in Int
  <2>1. CountUpTo(s, v) = 0
    BY CountNone
  <2>2. CountInBoth(less, more, v)
           = CountUpTo(s, v) + (IF Lowest <= v THEN 1 ELSE 0)
                             + (IF Highest - 1 <= v THEN 1 ELSE 0)
    BY DEF HalvesHold
  <2> QED
    BY <1>6, <1>7, <2>1, <2>2 DEF CountInBoth
<1>9. a = Lowest
  <2>1. CASE a < Lowest
    <3>1. ~(Lowest <= a) /\ ~(Highest - 1 <= a)
      BY <1>4, <1>5, <2>1
    <3>2. (IF a <= a THEN 1 ELSE 0) + (IF b <= a THEN 1 ELSE 0) = 0
      BY <1>4, <1>8, <3>1
    <3> QED
      BY <1>4, <3>2
  <2>2. CASE Lowest < a
    <3>1. ~(a <= Lowest) /\ ~(b <= Lowest)
      BY <1>4, <1>5, <2>2
    <3>2. 0 = (IF Lowest <= Lowest THEN 1 ELSE 0) + (IF Highest - 1 <= Lowest THEN 1 ELSE 0)
      BY <1>5, <1>8, <3>1
    <3> QED
      BY <1>5, <3>2
  <2> QED
    BY <1>4, <1>5, <2>1, <2>2
<1> QED
  BY <1>4, <1>9

-----------------------------------------------------------------------------
(* The ring buffer *)

\* Where the j-th of the oldest values is: copy() starts there for j = 1.
Position(next, fill, capacity, j) ==
    IF next - (fill - j + 1) >= 0 THEN next - (fill - j + 1)
    ELSE capacity + (next - (fill - j + 1))

\* What a ring buffer of this capacity holds when s was pushed into it.
Keeps(ca, s, capacity) ==
    /\ DOMAIN ca = {"capacity", "array", "next", "fill_count"}
    /\ ca.capacity = capacity
    /\ DOMAIN ca.array = 0 .. capacity - 1
    /\ ca.next \in 0 .. capacity - 1
    /\ ca.fill_count = Lesser(capacity, Len(s))
    /\ \A j \in 1 .. ca.fill_count :
         ca.array[Position(ca.next, ca.fill_count, capacity, j)] = s[Len(s) - ca.fill_count + j]

LEMMA NewArrayIsEmpty ==
    ASSUME NEW capacity \in Nat \ {0}, NEW blank, NEW s, Len(s) = 0
    PROVE  Keeps(NewArray(capacity, blank), s, capacity)
BY DEF Keeps, NewArray, Lesser

LEMMA WrapsAround ==
    ASSUME NEW n \in Nat \ {0}, NEW p \in 0 .. n - 1
    PROVE  (p + 1) % n = IF p + 1 = n THEN 0 ELSE p + 1
OBVIOUS

\* A push takes the next free position p, which is none of those that stay.
Moves(n, p, f, q, g) ==
    /\ Position(q, g, n, g) = p
    /\ \A j \in 1 .. g - 1 :
         /\ j + f - g + 1 \in 1 .. f
         /\ Position(q, g, n, j) = Position(p, f, n, j + f - g + 1)
         /\ Position(q, g, n, j) \in 0 .. n - 1
         /\ Position(q, g, n, j) # p

LEMMA PositionsMove ==
    ASSUME NEW n \in Nat \ {0}, NEW p \in 0 .. n - 1, NEW f \in 0 .. n,
           NEW q \in Nat, q = IF p + 1 = n THEN 0 ELSE p + 1,
           NEW g \in Nat, g = IF f < n THEN f + 1 ELSE f
    PROVE  Moves(n, p, f, q, g)
<1>1. Position(q, g, n, g) = p
  BY DEF Position
<1>2. ASSUME NEW j \in 1 .. g - 1
      PROVE  /\ j + f - g + 1 \in 1 .. f
             /\ Position(q, g, n, j) = Position(p, f, n, j + f - g + 1)
             /\ Position(q, g, n, j) \in 0 .. n - 1
             /\ Position(q, g, n, j) # p
  <2>1. CASE f < n
    BY <2>1 DEF Position
  <2>2. CASE f = n
    BY <2>2 DEF Position
  <2>. QED
    BY <2>1, <2>2
<1>. QED
  BY <1>1, <1>2 DEF Moves

LEMMA PushKeeps ==
    ASSUME NEW capacity \in Nat \ {0}, NEW ca, NEW s, NEW s1, NEW t,
           Keeps(ca, s, capacity), Len(s) \in Nat, Len(s1) = Len(s) + 1,
           \A i \in 1 .. Len(s) : s1[i] = s[i], s1[Len(s) + 1] = t
    PROVE  Keeps(PushBack(ca, t), s1, capacity)
<1>. DEFINE cb == PushBack(ca, t)
<1>1. PICK p, f, q, g : p = ca.next /\ f = ca.fill_count /\ q = cb.next /\ g = cb.fill_count
  OBVIOUS
<1>2. /\ DOMAIN cb = {"capacity", "array", "next", "fill_count"}
      /\ cb.capacity = capacity
      /\ cb.array = [ca.array EXCEPT ![p] = t]
      /\ q = (p + 1) % capacity
      /\ g = IF f < capacity THEN f + 1 ELSE f
  BY <1>1 DEF PushBack, Keeps
<1>3. p \in 0 .. capacity - 1 /\ f \in 0 .. capacity /\ f <= Len(s)
  BY <1>1 DEF Keeps, Lesser
<1>4. q = IF p + 1 = capacity THEN 0 ELSE p + 1
  BY <1>2, <1>3, WrapsAround
<1>5. g = Lesser(capacity, Len(s1)) /\ g \in 1 .. capacity
  BY <1>1, <1>2, <1>3 DEF Keeps, Lesser
<1>. HIDE DEF cb
<1>5a. Moves(capacity, p, f, q, g)
  <2>1. g = IF f < capacity THEN f + 1 ELSE f
    BY <1>2
  <2>2. q \in Nat /\ g \in Nat
    BY <1>3, <1>4, <2>1
  <2>. QED
    BY <1>3, <1>4, <2>1, <2>2, PositionsMove
<1>6. ASSUME NEW j \in 1 .. g
      PROVE  cb.array[Position(q, g, capacity, j)] = s1[Len(s1) - g + j]
  <2>1. CASE j = g
    <3>1. Position(q, g, capacity, j) = p
      BY <1>5a, <2>1 DEF Moves
    <3>2. cb.array[p] = t
      BY <1>2, <1>3 DEF Keeps
    <3>3. Len(s1) - g + j = Len(s) + 1
      BY <1>5, <2>1
    <3>. QED
      BY <3>1, <3>2, <3>3
  <2>2. CASE j < g
    <3>1. PICK i : i = j + f - g + 1
      OBVIOUS
    <3>2. PICK r : r = Position(q, g, capacity, j)
      OBVIOUS
    <3>3. j \in 1 .. g - 1
      BY <1>5, <2>2
    <3>4. i \in 1 .. f /\ r = Position(p, f, capacity, i) /\ r \in 0 .. capacity - 1 /\ r # p
      BY <1>5a, <3>1, <3>2, <3>3 DEF Moves
    <3>5. /\ Len(s1) - g + j = Len(s) - f + i
          /\ Len(s) - f + i \in 1 .. Len(s)
      BY <1>2, <1>3, <3>1, <3>4
    <3>6. cb.array[r] = ca.array[r]
      BY <1>2, <3>4 DEF Keeps
    <3>7. ca.array[r] = s[Len(s) - f + i]
      BY <1>1, <3>4 DEF Keeps
    <3>. QED
      BY <3>2, <3>5, <3>6, <3>7
  <2>. QED
    BY <1>5, <2>1, <2>2
<1>7. DOMAIN cb.array = 0 .. capacity - 1 /\ q \in 0 .. capacity - 1
  BY <1>2, <1>3, <1>4 DEF Keeps
<1>8. Keeps(cb, s1, capacity)
  BY <1>1, <1>2, <1>5, <1>6, <1>7 DEF Keeps
<1>. QED
  BY <1>8 DEF cb

\* copy() of the ring buffer.
LEMMA CopiedKeepsTheLast ==
    ASSUME NEW capacity \in Nat \ {0}, NEW ca, NEW s, Listed(s), Keeps(ca, s, capacity)
    PROVE  Copied(ca) = LastOf(s, Lesser(capacity, Len(s)))
<1>1. Len(s) \in Nat
  BY ListedIsTable
<1>2. PICK f : f = Lesser(capacity, Len(s))
  OBVIOUS
<1>3. f \in Nat /\ f <= Len(s)
  BY <1>1, <1>2, LesserIsOne
<1>4. LastOf(s, f) = [j \in 1 .. f |-> s[Len(s) - f + j]]
  BY <1>3, LastOfProperties
<1>5. Copied(ca) = [j \in 1 .. f |-> ca.array[Position(ca.next, f, capacity, j)]]
  BY <1>2 DEF Copied, Position, Keeps
<1>6. \A j \in 1 .. f : ca.array[Position(ca.next, f, capacity, j)] = s[Len(s) - f + j]
  BY <1>2 DEF Keeps
<1>7. [j \in 1 .. f |-> ca.array[Position(ca.next, f, capacity, j)]]
        = [j \in 1 .. f |-> s[Len(s) - f + j]]
  BY <1>6
<1>. QED
  BY <1>2, <1>4, <1>5, <1>7

LEMMA WrapsOnce ==
    ASSUME NEW n \in Nat \ {0}, NEW a \in 0 .. 2 * n - 1
    PROVE  a % n = IF a < n THEN a ELSE a - n
OBVIOUS

\* operator[] of the ring buffer.
LEMMA AtReadsTheCopy ==
    ASSUME NEW capacity \in Nat \ {0}, NEW ca, NEW s, Len(s) \in Nat,
           Keeps(ca, s, capacity), NEW i \in 0 .. ca.fill_count - 1
    PROVE  At(ca, i) = Copied(ca)[i + 1]
<1>1. PICK p, f : p = ca.next /\ f = ca.fill_count
  OBVIOUS
<1>2. /\ ca.capacity = capacity
      /\ p \in 0 .. capacity - 1 /\ f \in 0 .. capacity
  BY <1>1 DEF Keeps, Lesser
<1>3. Copied(ca)[i + 1] = ca.array[Position(p, f, capacity, i + 1)]
  BY <1>1, <1>2 DEF Copied, Position
<1>4. CASE p - f >= 0
  <2>1. At(ca, i) = ca.array[p - f + i]
    BY <1>1, <1>4 DEF At
  <2>2. Position(p, f, capacity, i + 1) = p - f + i
    BY <1>1, <1>2, <1>4, SMTT(30) DEF Position
  <2>. QED
    BY <1>3, <2>1, <2>2
<1>5. CASE p - f < 0
  <2>1. PICK a : a = p - f + capacity + i
    OBVIOUS
  <2>2. a \in 0 .. 2 * capacity - 1
    BY <1>1, <1>2, <1>5, <2>1, SMTT(30)
  <2>3. a % capacity = IF a < capacity THEN a ELSE a - capacity
    BY <2>2, WrapsOnce
  <2>4. Position(p, f, capacity, i + 1) = IF a < capacity THEN a ELSE a - capacity
    BY <1>1, <1>2, <1>5, <2>1, SMTT(30) DEF Position
  <2>5. At(ca, i) = ca.array[a % capacity]
    BY <1>1, <1>2, <1>5, <2>1 DEF At
  <2>. QED
    BY <1>3, <2>3, <2>4, <2>5
<1>. QED
  BY <1>2, <1>4, <1>5
-----------------------------------------------------------------------------
(* Aggregators *)

\* The timer of a rate runs as long as there is the aggregator.
Aggregator(a) ==
    /\ "kind" \in DOMAIN a /\ a.kind \in Kinds
    /\ a.kind = "average_per_second" => "timing" \in DOMAIN a /\ a.timing = TRUE

LEMMA NewAggregatorIsOne ==
    ASSUME NEW kind \in Kinds, NEW t
    PROVE  Aggregator(NewAggregator(kind, t))
BY DEF NewAggregator, Aggregator, Kinds

LEMMA InvolveKeepsAggregator ==
    ASSUME NEW a, Aggregator(a), NEW m, NEW t
    PROVE  Aggregator(Involve(a, m, t))
<1>1. CASE a.kind = "increment"
  BY <1>1 DEF Involve, Aggregator
<1>2. CASE a.kind = "sum"
  BY <1>2 DEF Involve, Aggregator
<1>3. CASE a.kind = "max"
  BY <1>3 DEF Involve, Aggregator
<1>4. CASE a.kind = "min"
  BY <1>4 DEF Involve, Aggregator
<1>5. CASE a.kind = "average"
  BY <1>5 DEF Involve, Aggregator
<1>6. CASE a.kind = "median"
  BY <1>6 DEF Involve, Aggregator
<1>7. CASE a.kind = "average_per_second"
  BY <1>7 DEF Involve, InvolveRate, Aggregator
<1>. QED
  BY <1>1, <1>2, <1>3, <1>4, <1>5, <1>6, <1>7 DEF Aggregator, Kinds

Aggregators(aggs) == Listed(aggs) /\ \A i \in 1 .. Len(aggs) : Aggregator(aggs[i])

\* Every aggregator is involved: the && of receive() is never cut short.
LEMMA AllAreInvolved ==
    ASSUME NEW aggs, Aggregators(aggs), NEW m
    PROVE  /\ AllInvolved(aggs, m) = [i \in 1 .. Len(aggs) |-> Involve(aggs[i], m, now)]
           /\ Aggregators(AllInvolved(aggs, m))
           /\ Len(AllInvolved(aggs, m)) = Len(aggs)
<1>1. Len(aggs) \in Nat /\ DOMAIN aggs = 1 .. Len(aggs)
  BY ListedIsTable DEF Aggregators
<1>2. \A i \in 1 .. Len(aggs) : Involved(aggs[i])
  BY DEF Aggregators, Aggregator, Involved
<1>3. AllInvolved(aggs, m) = [i \in 1 .. Len(aggs) |-> Involve(aggs[i], m, now)]
  <2>1. ASSUME NEW i \in 1 .. Len(aggs), NEW j \in 1 .. i - 1
        PROVE  Involved(aggs[j])
    BY <1>1, <1>2
  <2>. QED
    BY <1>1, <2>1 DEF AllInvolved
<1>4. PICK b : b = AllInvolved(aggs, m)
  OBVIOUS
<1>5. b = [i \in 1 .. Len(aggs) |-> b[i]]
  BY <1>3, <1>4
<1>6. Listed(b) /\ Len(b) = Len(aggs)
  BY <1>1, <1>5, TableIsListed
<1>7. \A i \in 1 .. Len(aggs) : Aggregator(b[i])
  BY <1>3, <1>4, InvolveKeepsAggregator DEF Aggregators
<1>. QED
  BY <1>3, <1>4, <1>6, <1>7 DEF Aggregators

LEMMA ReportHasOneOfEach ==
    ASSUME NEW aggs, Aggregators(aggs)
    PROVE  /\ Listed(PointReport(aggs)) /\ Len(PointReport(aggs)) = Len(aggs)
           /\ DOMAIN PointReport(aggs) = 1 .. Len(aggs)
<1>1. Len(aggs) \in Nat /\ DOMAIN aggs = 1 .. Len(aggs)
  BY ListedIsTable DEF Aggregators
<1>2. PICK row : row = PointReport(aggs)
  OBVIOUS
<1>3. row = [i \in 1 .. Len(aggs) |-> row[i]]
  BY <1>1, <1>2 DEF PointReport
<1>. QED
  BY <1>1, <1>2, <1>3, TableIsListed

-----------------------------------------------------------------------------
(* One aggregator *)

\* What the maximum and the minimum are of the values s, beside the limit they start from.
Greatest(v, s) == v \in Range(s) \cup {Lowest} /\ \A w \in Range(s) : v >= w
Least(v, s)    == v \in Range(s) \cup {Highest} /\ \A w \in Range(s) : v <= w

\* The time a rate is over when the last of the values s came at `ended`.
Lasted(s, begun, ended) == IF s = << >> THEN 0 ELSE ended - begun

\* What an aggregator that was registered at `begun` has made of the values s.
Summary(a, s, begun, ended) ==
    \/ a = [kind |-> "increment", count |-> Len(s) - CountUpTo(s, 0) - CountUpTo(s, 0)]
    \/ a = [kind |-> "sum", sum |-> Total(s)]
    \/ \E v : Greatest(v, s) /\ a = [kind |-> "max", max |-> v]
    \/ \E v : Least(v, s) /\ a = [kind |-> "min", min |-> v]
    \/ a = [kind |-> "average", sum |-> Total(s), count |-> Len(s)]
    \/ \E less, more : /\ HalvesHold(less, more, s)
                       /\ a = [kind |-> "median", less |-> less, more |-> more]
    \/ a = [kind |-> "average_per_second", timing |-> TRUE,
            then |-> begun + Lasted(s, begun, ended), duration |-> Lasted(s, begun, ended),
            count |-> Total(s)]

LEMMA NewSummary ==
    ASSUME NEW kind \in Kinds, NEW time \in Int, NEW ended
    PROVE  Summary(NewAggregator(kind, time), << >>, time, ended)
<1>1. PICK a : a = NewAggregator(kind, time)
  OBVIOUS
<1>2. /\ << >> \in Seq(Int) /\ Len(<< >>) = 0 /\ Range(<< >>) = {}
      /\ CountUpTo(<< >>, 0) = 0 /\ Total(<< >>) = 0
  <2>1. CountUpTo(<< >>, 0) = 0
    BY CountNone
  <2>2. Range(<< >>) = {}
    BY DEF Range
  <2> QED
    BY <2>1, <2>2, TotalOfNone
<1>3. CASE kind = "increment"
  <2>1. a = [kind |-> "increment", count |-> 0]
    BY <1>1, <1>3 DEF NewAggregator
  <2>2. Len(<< >>) - CountUpTo(<< >>, 0) - CountUpTo(<< >>, 0) = 0
    BY <1>2
  <2> QED
    BY <1>1, <2>1, <2>2 DEF Summary
<1>4. CASE kind = "sum"
  <2>1. a = [kind |-> "sum", sum |-> 0]
    BY <1>1, <1>4 DEF NewAggregator
  <2> QED
    BY <1>1, <1>2, <2>1 DEF Summary
<1>5. CASE kind = "max"
  <2>1. a = [kind |-> "max", max |-> Lowest]
    BY <1>1, <1>5 DEF NewAggregator
  <2>2. Greatest(Lowest, << >>)
    BY <1>2 DEF Greatest
  <2> QED
    BY <1>1, <2>1, <2>2 DEF Summary
<1>6. CASE kind = "min"
  <2>1. a = [kind |-> "min", min |-> Highest]
    BY <1>1, <1>6 DEF NewAggregator
  <2>2. Least(Highest, << >>)
    BY <1>2 DEF Least
  <2> QED
    BY <1>1, <2>1, <2>2 DEF Summary
<1>7. CASE kind = "average"
  <2>1. a = [kind |-> "average", sum |-> 0, count |-> 0]
    BY <1>1, <1>7 DEF NewAggregator
  <2> QED
    BY <1>1, <1>2, <2>1 DEF Summary
<1>8. CASE kind = "median"
  <2>1. a = [kind |-> "median", less |-> <<Lowest>>, more |-> <<Highest - 1>>]
    BY <1>1, <1>8 DEF NewAggregator
  <2> QED
    BY <1>1, <2>1, HalvesStart DEF Summary
<1>9. CASE kind = "average_per_second"
  <2>1. a = [kind |-> "average_per_second", timing |-> TRUE, then |-> time,
             duration |-> 0, count |-> 0]
    BY <1>1, <1>9 DEF NewAggregator
  <2>2. Lasted(<< >>, time, ended) = 0
    BY DEF Lasted
  <2>3. time + 0 = time
    OBVIOUS
  <2> QED
    BY <1>1, <1>2, <2>1, <2>2, <2>3 DEF Summary
<1> QED
  BY <1>3, <1>4, <1>5, <1>6, <1>7, <1>8, <1>9 DEF Kinds

LEMMA RangeAppended ==
    ASSUME NEW s \in Seq(Int), NEW x \in Int
    PROVE  Range(Append(s, x)) = Range(s) \cup {x} /\ Range(s) \subseteq Int
<1>1. <<x>> \in Seq(Int) /\ Append(s, x) = s \o <<x>>
  BY AppendIsConcat
<1>2. Range(<<x>>) = {x}
  BY DEF Range
<1>3. Range(s \o <<x>>) = Range(s) \cup Range(<<x>>)
  BY <1>1, RangeConcatenation, ZenonT(60)
<1> QED
  BY <1>1, <1>2, <1>3, RangeOfSeq

LEMMA SummaryInvolves ==
    ASSUME NEW a, NEW s \in Seq(Int), NEW begun \in Int, NEW ended, s # << >> => ended \in Int,
           NEW m \in Int, NEW time \in Int, Summary(a, s, begun, ended)
    PROVE  Summary(Involve(a, m, time), Append(s, m), begun, time)
<1>1. PICK b, t : b = Involve(a, m, time) /\ t = Append(s, m)
  OBVIOUS
<1>2. Len(t) = Len(s) + 1 /\ Len(s) \in Nat /\ t # << >>
  <2>1. Append(s, m) # << >> /\ Len(Append(s, m)) = Len(s) + 1
    BY AppendProperties, SMTT(30)
  <2> QED
    BY <1>1, <2>1
<1>3. Total(t) = Total(s) + m /\ Total(s) \in Int
  BY <1>1, TotalAppended
<1>4. Range(t) = Range(s) \cup {m} /\ Range(s) \subseteq Int
  BY <1>1, RangeAppended
<1>5. CASE a = [kind |-> "increment", count |-> Len(s) - CountUpTo(s, 0) - CountUpTo(s, 0)]
  <2>1. PICK n, c : n = Len(s) /\ c = CountUpTo(s, 0)
    OBVIOUS
  <2>2. c \in 0 .. n /\ n \in Nat
    BY <1>2, <2>1, CountIsBounded
  <2>3. CountUpTo(t, 0) = c + (IF m <= 0 THEN 1 ELSE 0)
    BY <1>1, <2>1, CountAppended
  <2>4. a.kind = "increment" /\ a = [kind |-> "increment", count |-> n - c - c]
    BY <1>5, <2>1
  <2>5. b = [a EXCEPT !.count = IF m > 0 THEN @ + 1 ELSE @ - 1]
    BY <1>1, <2>4 DEF Involve
  <2>6. b = [kind |-> "increment", count |-> IF m > 0 THEN n - c - c + 1 ELSE n - c - c - 1]
    BY <2>4, <2>5
  <2>7. (IF m > 0 THEN n - c - c + 1 ELSE n - c - c - 1)
           = (n + 1) - CountUpTo(t, 0) - CountUpTo(t, 0)
    <3>1. CASE m > 0
      BY <2>2, <2>3, <3>1
    <3>2. CASE ~(m > 0)
      <4>1. CountUpTo(t, 0) = c + 1
        BY <2>3, <3>2
      <4> QED
        BY <2>2, <3>2, <4>1
    <3> QED
      BY <3>1, <3>2
  <2>8. b = [kind |-> "increment", count |-> Len(t) - CountUpTo(t, 0) - CountUpTo(t, 0)]
    BY <1>2, <2>1, <2>6, <2>7
  <2> QED
    BY <1>1, <2>8 DEF Summary
<1>6. CASE a = [kind |-> "sum", sum |-> Total(s)]
  <2>1. b = [a EXCEPT !.sum = @ + m]
    BY <1>1, <1>6 DEF Involve
  <2>2. b = [kind |-> "sum", sum |-> Total(t)]
    BY <1>3, <1>6, <2>1
  <2> QED
    BY <1>1, <2>2 DEF Summary
<1>7. ASSUME NEW v, Greatest(v, s), a = [kind |-> "max", max |-> v]
      PROVE  Summary(b, t, begun, time)
  <2>1. b = [a EXCEPT !.max = IF m > @ THEN m ELSE @]
    BY <1>1, <1>7 DEF Involve
  <2>2. b = [kind |-> "max", max |-> IF m > v THEN m ELSE v]
    BY <1>7, <2>1
  <2>3. v \in Int
    BY <1>4, <1>7, LimitsAssumption DEF Greatest
  <2>4. Greatest(IF m > v THEN m ELSE v, t)
    <3>1. CASE m > v
      <4>1. \A w \in Range(s) : m >= w
        BY <1>4, <1>7, <2>3, <3>1 DEF Greatest
      <4> QED
        BY <1>4, <3>1, <4>1 DEF Greatest
    <3>2. CASE ~(m > v)
      <4>1. v >= m
        BY <2>3, <3>2
      <4> QED
        BY <1>4, <1>7, <3>2, <4>1 DEF Greatest
    <3> QED
      BY <3>1, <3>2
  <2> QED
    BY <2>2, <2>4 DEF Summary
<1>8. ASSUME NEW v, Least(v, s), a = [kind |-> "min", min |-> v]
      PROVE  Summary(b, t, begun, time)
  <2>1. b = [a EXCEPT !.min = IF m < @ THEN m ELSE @]
    BY <1>1, <1>8 DEF Involve
  <2>2. b = [kind |-> "min", min |-> IF m < v THEN m ELSE v]
    BY <1>8, <2>1
  <2>3. v \in Int
    BY <1>4, <1>8, LimitsAssumption DEF Least
  <2>4. Least(IF m < v THEN m ELSE v, t)
    <3>1. CASE m < v
      <4>1. \A w \in Range(s) : m <= w
        BY <1>4, <1>8, <2>3, <3>1 DEF Least
      <4> QED
        BY <1>4, <3>1, <4>1 DEF Least
    <3>2. CASE ~(m < v)
      <4>1. v <= m
        BY <2>3, <3>2
      <4> QED
        BY <1>4, <1>8, <3>2, <4>1 DEF Least
    <3> QED
      BY <3>1, <3>2
  <2> QED
    BY <2>2, <2>4 DEF Summary
<1>9. CASE a = [kind |-> "average", sum |-> Total(s), count |-> Len(s)]
  <2>1. b = [a EXCEPT !.sum = @ + m, !.count = @ + 1]
    BY <1>1, <1>9 DEF Involve
  <2>2. b = [kind |-> "average", sum |-> Total(t), count |-> Len(t)]
    BY <1>2, <1>3, <1>9, <2>1
  <2> QED
    BY <1>1, <2>2 DEF Summary
<1>10. ASSUME NEW less, NEW more, HalvesHold(less, more, s),
              a = [kind |-> "median", less |-> less, more |-> more]
       PROVE  Summary(b, t, begun, time)
  <2>1. PICK h : h = Halves(a, m)
    OBVIOUS
  <2>2. a.kind = "median" /\ a.less = less /\ a.more = more
    BY <1>10
  <2>3. HalvesHold(h[1], h[2], t)
    BY <1>1, <1>10, <2>1, <2>2, HalvesTake
  <2>4. b = [a EXCEPT !.less = h[1], !.more = h[2]]
    BY <1>1, <2>1, <2>2 DEF Involve
  <2>5. b = [kind |-> "median", less |-> h[1], more |-> h[2]]
    BY <1>10, <2>4
  <2> QED
    BY <2>3, <2>5 DEF Summary
<1>11. CASE a = [kind |-> "average_per_second", timing |-> TRUE,
                 then |-> begun + Lasted(s, begun, ended), duration |-> Lasted(s, begun, ended),
                 count |-> Total(s)]
  <2>1. PICK d : d = Lasted(s, begun, ended)
    OBVIOUS
  <2>2. d \in Int
    BY <2>1 DEF Lasted
  <2>3. a = [kind |-> "average_per_second", timing |-> TRUE, then |-> begun + d,
             duration |-> d, count |-> Total(s)]
    BY <1>11, <2>1
  <2>4. b = [a EXCEPT !.duration = @ + (time - a.then), !.count = @ + m, !.then = time]
    BY <1>1, <2>3 DEF Involve, InvolveRate
  <2>5. b = [kind |-> "average_per_second", timing |-> TRUE, then |-> time,
             duration |-> d + (time - (begun + d)), count |-> Total(t)]
    BY <1>3, <2>3, <2>4
  <2>6. d + (time - (begun + d)) = time - begun /\ begun + (time - begun) = time
    BY <2>2
  <2>7. Lasted(t, begun, time) = time - begun
    BY <1>2 DEF Lasted
  <2> QED
    BY <1>1, <2>5, <2>6, <2>7 DEF Summary
<1>12. Summary(b, t, begun, time)
  BY <1>1, <1>5, <1>6, <1>7, <1>8, <1>9, <1>10, <1>11 DEF Summary
<1> QED
  BY <1>1, <1>12

LEMMA CountAbove ==
    ASSUME NEW s \in Seq(Int)
    PROVE  /\ Cardinality({j \in DOMAIN s : s[j] <= 0}) = CountUpTo(s, 0)
           /\ Cardinality({j \in DOMAIN s : s[j] > 0}) = Len(s) - CountUpTo(s, 0)
<1>1. DOMAIN s = 1 .. Len(s) /\ Len(s) \in Nat /\ \A j \in 1 .. Len(s) : s[j] \in Int
  OBVIOUS
<1>2. {j \in DOMAIN s : s[j] <= 0} = UpTo(s, 0)
  BY <1>1 DEF UpTo
<1>3. {j \in DOMAIN s : s[j] > 0} = (1 .. Len(s)) \ UpTo(s, 0)
  BY <1>1 DEF UpTo
<1>4. IsFiniteSet(1 .. Len(s)) /\ Cardinality(1 .. Len(s)) = Len(s)
  BY <1>1, IntervalSize
<1>5. (1 .. Len(s)) \cap UpTo(s, 0) = UpTo(s, 0)
  BY DEF UpTo
<1>6. Cardinality((1 .. Len(s)) \ UpTo(s, 0))
         = Cardinality(1 .. Len(s)) - Cardinality((1 .. Len(s)) \cap UpTo(s, 0))
  BY <1>4, FS_Difference
<1> QED
  BY <1>2, <1>3, <1>4, <1>5, <1>6 DEF CountUpTo

\* What get_val() returns is the statistic of the values, and it returns nothing exactly
\* when there is none.
LEMMA SummaryIsCorrect ==
    ASSUME NEW a, NEW s \in Seq(Int), NEW begun \in Int, NEW ended, s # << >> => ended \in Int,
           \A j \in 1 .. Len(s) : s[j] \in Inner, Summary(a, s, begun, ended),
           NEW sec, sec = Lasted(s, begun, ended) \div Second
    PROVE  /\ HasValue(a) <=> /\ a.kind = "average" => s # << >>
                              /\ a.kind = "average_per_second" => sec # 0
           /\ HasValue(a) => Value(a) = Expected(a.kind, s, sec)
<1>1. Range(s) \subseteq Int /\ \A w \in Range(s) : Lowest < w /\ w < Highest
  <2>1. \A w \in Range(s) : w \in Inner /\ w \in Int
    BY RangeEquality, RangeOfSeq
  <2> QED
    BY <2>1, LimitsAssumption DEF Inner
<1>2. CASE a = [kind |-> "increment", count |-> Len(s) - CountUpTo(s, 0) - CountUpTo(s, 0)]
  <2>1. a.kind = "increment" /\ HasValue(a)
    BY <1>2 DEF HasValue
  <2>2. Value(a) = Len(s) - CountUpTo(s, 0) - CountUpTo(s, 0)
    BY <1>2 DEF Value
  <2>3. Expected("increment", s, sec) = Cardinality({j \in DOMAIN s : s[j] > 0})
                                          - Cardinality({j \in DOMAIN s : s[j] <= 0})
    BY DEF Expected
  <2> QED
    BY <2>1, <2>2, <2>3, CountAbove
<1>3. CASE a = [kind |-> "sum", sum |-> Total(s)]
  <2>1. a.kind = "sum" /\ HasValue(a)
    BY <1>3 DEF HasValue
  <2>2. Value(a) = Total(s)
    BY <1>3 DEF Value
  <2>3. Expected("sum", s, sec) = Total(s)
    BY DEF Expected
  <2> QED
    BY <2>1, <2>2, <2>3
<1>4. ASSUME NEW v, Greatest(v, s), a = [kind |-> "max", max |-> v]
      PROVE  /\ a.kind = "max" /\ HasValue(a)
             /\ Value(a) = Expected(a.kind, s, sec)
  <2>1. a.kind = "max" /\ HasValue(a)
    BY <1>4 DEF HasValue
  <2>2. Value(a) = v
    BY <1>4 DEF Value
  <2>3. Expected("max", s, sec)
           = CHOOSE u \in Range(s) \cup {Lowest} : \A w \in Range(s) : u >= w
    BY DEF Expected
  <2>4. ASSUME NEW u, Greatest(u, s) PROVE u = v
    <3>1. u \in Int /\ v \in Int
      BY <1>1, <1>4, <2>4, LimitsAssumption DEF Greatest
    <3>2. u \in Range(s) => v >= u
      BY <1>4 DEF Greatest
    <3>3. v \in Range(s) => u >= v
      BY <2>4 DEF Greatest
    <3>4. u = Lowest \/ u \in Range(s)
      BY <2>4 DEF Greatest
    <3>5. v = Lowest \/ v \in Range(s)
      BY <1>4 DEF Greatest
    <3>6. Lowest \in Int
      BY LimitsAssumption
    <3> QED
      BY <1>1, <3>1, <3>2, <3>3, <3>4, <3>5, <3>6
  <2>5. PICK c : c = CHOOSE u \in Range(s) \cup {Lowest} : \A w \in Range(s) : u >= w
    OBVIOUS
  <2>6. Greatest(c, s)
    BY <1>4, <2>5 DEF Greatest
  <2> QED
    BY <2>1, <2>2, <2>3, <2>4, <2>5, <2>6
<1>5. ASSUME NEW v, Least(v, s), a = [kind |-> "min", min |-> v]
      PROVE  /\ a.kind = "min" /\ HasValue(a)
             /\ Value(a) = Expected(a.kind, s, sec)
  <2>1. a.kind = "min" /\ HasValue(a)
    BY <1>5 DEF HasValue
  <2>2. Value(a) = v
    BY <1>5 DEF Value
  <2>3. Expected("min", s, sec)
           = CHOOSE u \in Range(s) \cup {Highest} : \A w \in Range(s) : u <= w
    BY DEF Expected
  <2>4. ASSUME NEW u, Least(u, s) PROVE u = v
    <3>1. u \in Int /\ v \in Int
      BY <1>1, <1>5, <2>4, LimitsAssumption DEF Least
    <3>2. u \in Range(s) => v <= u
      BY <1>5 DEF Least
    <3>3. v \in Range(s) => u <= v
      BY <2>4 DEF Least
    <3>4. u = Highest \/ u \in Range(s)
      BY <2>4 DEF Least
    <3>5. v = Highest \/ v \in Range(s)
      BY <1>5 DEF Least
    <3>6. Highest \in Int
      BY LimitsAssumption
    <3> QED
      BY <1>1, <3>1, <3>2, <3>3, <3>4, <3>5, <3>6
  <2>5. PICK c : c = CHOOSE u \in Range(s) \cup {Highest} : \A w \in Range(s) : u <= w
    OBVIOUS
  <2>6. Least(c, s)
    BY <1>5, <2>5 DEF Least
  <2> QED
    BY <2>1, <2>2, <2>3, <2>4, <2>5, <2>6
<1>6. CASE a = [kind |-> "average", sum |-> Total(s), count |-> Len(s)]
  <2>1. a.kind = "average" /\ (HasValue(a) <=> Len(s) # 0)
    BY <1>6 DEF HasValue
  <2>2. Len(s) # 0 <=> s # << >>
    BY EmptySeq
  <2>3. Value(a) = Quotient(Total(s), Len(s))
    BY <1>6 DEF Value
  <2>4. Expected("average", s, sec) = Quotient(Total(s), Len(s))
    BY DEF Expected
  <2> QED
    BY <2>1, <2>2, <2>3, <2>4
<1>7. ASSUME NEW less, NEW more, HalvesHold(less, more, s),
             a = [kind |-> "median", less |-> less, more |-> more]
      PROVE  /\ a.kind = "median" /\ HasValue(a)
             /\ Value(a) = Expected(a.kind, s, sec)
  <2>1. a.kind = "median" /\ HasValue(a)
    BY <1>7 DEF HasValue
  <2>2. Value(a) = Last(less)
    BY <1>7 DEF Value
  <2>3. Expected("median", s, sec) = IF s = << >> THEN Lowest ELSE LowerMedian(s)
    BY DEF Expected
  <2>4. CASE s # << >>
    <3>1. Last(less) = LowerMedian(s)
      BY <1>7, <2>4, TopIsTheMedian
    <3> QED
      BY <2>1, <2>2, <2>3, <2>4, <3>1
  <2>5. CASE s = << >>
    <3>1. Last(less) = Lowest
      BY <1>7, <2>5, TopAtTheStart
    <3> QED
      BY <2>1, <2>2, <2>3, <2>5, <3>1
  <2> QED
    BY <2>4, <2>5
<1>8. CASE a = [kind |-> "average_per_second", timing |-> TRUE,
                then |-> begun + Lasted(s, begun, ended), duration |-> Lasted(s, begun, ended),
                count |-> Total(s)]
  <2>1. a.kind = "average_per_second" /\ a.duration \div Second = sec
    BY <1>8
  <2>2. HasValue(a) <=> sec # 0
    BY <2>1 DEF HasValue
  <2>3. Value(a) = Quotient(Total(s), sec)
    BY <1>8, <2>1 DEF Value
  <2>4. Expected("average_per_second", s, sec) = Quotient(Total(s), sec)
    BY DEF Expected
  <2> QED
    BY <2>1, <2>2, <2>3, <2>4
<1>9. CASE \E v : Greatest(v, s) /\ a = [kind |-> "max", max |-> v]
  BY <1>4, <1>9
<1>10. CASE \E v : Least(v, s) /\ a = [kind |-> "min", min |-> v]
  BY <1>5, <1>10
<1>11. CASE \E less, more : /\ HalvesHold(less, more, s)
                            /\ a = [kind |-> "median", less |-> less, more |-> more]
  BY <1>7, <1>11
<1> QED
  BY <1>2, <1>3, <1>6, <1>8, <1>9, <1>10, <1>11 DEF Summary

-----------------------------------------------------------------------------
(* One metric *)

Fields == {"name", "aggs", "capacity", "data", "ts", "received", "rows", "since"}

Metric(x) ==
    /\ DOMAIN x = Fields
    /\ x.name \in Names /\ x.capacity \in Nat
    /\ Aggregators(x.aggs)
    /\ Listed(x.since) /\ Len(x.since) = Len(x.aggs)
    /\ Listed(x.data) /\ Len(x.data) <= Len(x.aggs)
    /\ Listed(x.received)
    /\ Listed(x.rows) /\ Len(x.rows) = Len(x.received)
    /\ x.capacity = 0 => x.data = << >> /\ x.ts = NewArray(0, 0)

Times(x) == [r \in 1 .. Len(x.received) |-> x.received[r].time]

\* What the i-th aggregator had in the rows after the m-th.
Pushed(x, m, i) == [r \in 1 .. Len(x.rows) - m |-> x.rows[m + r][i]]

\* The arrays were started over for the row after the m-th, when there was one value
\* more in it, or never.
StartedAfter(x, m) ==
    /\ m = Len(x.rows) => m = 0
    /\ \A r \in 1 .. m : Len(x.rows[r]) < Len(x.data)
    /\ \A r \in m + 1 .. Len(x.rows) : Len(x.rows[r]) = Len(x.data)
    /\ \A i \in 1 .. Len(x.data) : Keeps(x.data[i], Pushed(x, m, i), x.capacity)

Series(x) ==
    x.capacity # 0 =>
        /\ Keeps(x.ts, Times(x), x.capacity)
        /\ \E m \in 0 .. Len(x.rows) : StartedAfter(x, m)

\* An array is missing only before the metric has received anything for its aggregator.
Early(x) ==
    ~InRange(x) => \E i \in 1 .. Len(x.since) : x.since[i].received = Len(x.received)

Good(x) == Metric(x) /\ Series(x) /\ Early(x)

\* The receiving metric, field by field.
LEMMA ReceivedFields ==
    ASSUME NEW x, DOMAIN x = Fields, NEW m
    PROVE  LET y   == Received(x, m)
               row == PointReport(y.aggs)
           IN  /\ DOMAIN y = Fields
               /\ y.name = x.name /\ y.capacity = x.capacity /\ y.since = x.since
               /\ y.aggs = AllInvolved(x.aggs, m)
               /\ y.received = Append(x.received, [value |-> m, time |-> now])
               /\ y.rows = Append(x.rows, row)
               /\ x.capacity = 0 => y.data = x.data /\ y.ts = x.ts
               /\ x.capacity # 0 =>
                    /\ y.data = [i \in DOMAIN row |->
                                   PushBack(Arrays(x, Len(row))[i], row[i])]
                    /\ y.ts = PushBack(x.ts, now)
BY DEF Received, Fields

LEMMA ReceivedIsMetric ==
    ASSUME NEW x, Metric(x), NEW m
    PROVE  /\ Metric(Received(x, m))
           /\ x.capacity # 0 => Len(Received(x, m).data) = Len(Received(x, m).aggs)
<1>1. PICK y : y = Received(x, m)
  OBVIOUS
<1>2. PICK row : row = PointReport(y.aggs)
  OBVIOUS
<1>3. /\ DOMAIN y = Fields
      /\ y.name = x.name /\ y.capacity = x.capacity /\ y.since = x.since
      /\ y.aggs = AllInvolved(x.aggs, m)
      /\ y.received = Append(x.received, [value |-> m, time |-> now])
      /\ y.rows = Append(x.rows, row)
      /\ x.capacity = 0 => y.data = x.data /\ y.ts = x.ts
      /\ x.capacity # 0 =>
           y.data = [i \in DOMAIN row |-> PushBack(Arrays(x, Len(row))[i], row[i])]
  BY <1>1, <1>2, ReceivedFields DEF Metric
<1>4. Aggregators(y.aggs) /\ Len(y.aggs) = Len(x.aggs)
  BY <1>3, AllAreInvolved DEF Metric
<1>5. DOMAIN row = 1 .. Len(y.aggs)
  BY <1>2, <1>4, ReportHasOneOfEach
<1>6. /\ Listed(y.received) /\ Len(y.received) = Len(x.received) + 1
      /\ Listed(y.rows) /\ Len(y.rows) = Len(x.rows) + 1
  BY <1>3, Appended DEF Metric
<1>7. Len(y.aggs) \in Nat
  BY <1>4, ListedIsTable DEF Aggregators
<1>8. x.capacity # 0 => Listed(y.data) /\ Len(y.data) = Len(y.aggs)
  <2>. HAVE x.capacity # 0
  <2>1. PICK d : d = y.data
    OBVIOUS
  <2>2. d = [i \in 1 .. Len(y.aggs) |-> d[i]]
    BY <1>3, <1>5, <2>1
  <2>. QED
    BY <1>7, <2>1, <2>2, TableIsListed
<1>9. Metric(y)
  <2>1. CASE x.capacity = 0
    BY <1>3, <1>4, <1>6, <2>1 DEF Metric
  <2>2. CASE x.capacity # 0
    BY <1>3, <1>4, <1>6, <1>7, <1>8, <2>2 DEF Metric
  <2>. QED
    BY <2>1, <2>2
<1>. QED
  BY <1>1, <1>8, <1>9

LEMMA TimesListed ==
    ASSUME NEW x, Len(x.received) \in Nat
    PROVE  Len(Times(x)) = Len(x.received) /\ Listed(Times(x))
<1>1. PICK t : t = Times(x)
  OBVIOUS
<1>2. t = [r \in 1 .. Len(x.received) |-> t[r]]
  BY <1>1 DEF Times
<1>. QED
  BY <1>1, <1>2, TableIsListed

LEMMA PushedListed ==
    ASSUME NEW x, Len(x.rows) \in Nat, NEW m \in 0 .. Len(x.rows), NEW i
    PROVE  Len(Pushed(x, m, i)) = Len(x.rows) - m /\ Listed(Pushed(x, m, i))
<1>1. PICK t : t = Pushed(x, m, i)
  OBVIOUS
<1>2. t = [r \in 1 .. Len(x.rows) - m |-> t[r]]
  BY <1>1 DEF Pushed
<1>3. Len(x.rows) - m \in Nat
  OBVIOUS
<1>. QED
  BY <1>1, <1>2, <1>3, TableIsListed

LEMMA TimesKept ==
    ASSUME NEW x, NEW y, NEW m, Metric(x), x.capacity # 0,
           Keeps(x.ts, Times(x), x.capacity), y.ts = PushBack(x.ts, now),
           y.received = Append(x.received, [value |-> m, time |-> now])
    PROVE  Keeps(y.ts, Times(y), x.capacity)
<1>1. Len(x.received) \in Nat
  BY ListedIsTable DEF Metric
<1>2. /\ Len(y.received) = Len(x.received) + 1
      /\ \A r \in 1 .. Len(x.received) : y.received[r] = x.received[r]
      /\ y.received[Len(x.received) + 1] = [value |-> m, time |-> now]
  BY Appended DEF Metric
<1>3. PICK s, t, w, ca : s = Times(x) /\ t = Times(y) /\ w = now /\ ca = x.ts
  OBVIOUS
<1>4. Len(s) = Len(x.received) /\ Len(t) = Len(s) + 1
  BY <1>1, <1>2, <1>3, TimesListed
<1>5. \A r \in 1 .. Len(s) : t[r] = s[r]
  BY <1>1, <1>2, <1>3, <1>4 DEF Times
<1>6. t[Len(s) + 1] = w
  BY <1>1, <1>2, <1>3, <1>4 DEF Times
<1>7. x.capacity \in Nat \ {0} /\ Keeps(ca, s, x.capacity)
  BY <1>3 DEF Metric
<1>8. Len(s) \in Nat
  BY <1>1, <1>4
<1>9. Keeps(PushBack(ca, w), t, x.capacity)
  BY <1>8, <1>4, <1>5, <1>6, <1>7, PushKeeps
<1>. QED
  BY <1>3, <1>9

\* The row that is pushed, with the arrays it is pushed into.
LEMMA RowKept ==
    ASSUME NEW x, NEW y, NEW row, NEW n \in Nat, Metric(x), x.capacity # 0,
           NEW arrays, NEW m \in 0 .. Len(x.rows),
           DOMAIN row = 1 .. n, y.rows = Append(x.rows, row),
           \A i \in 1 .. n : y.data[i] = PushBack(arrays[i], row[i]),
           \A i \in 1 .. n : Keeps(arrays[i], Pushed(x, m, i), x.capacity)
    PROVE  \A i \in 1 .. n : Keeps(y.data[i], Pushed(y, m, i), x.capacity)
<1>1. Len(x.rows) \in Nat
  BY ListedIsTable DEF Metric
<1>2. /\ Len(y.rows) = Len(x.rows) + 1
      /\ \A r \in 1 .. Len(x.rows) : y.rows[r] = x.rows[r]
      /\ y.rows[Len(x.rows) + 1] = row
  BY Appended DEF Metric
<1>. TAKE i \in 1 .. n
<1>3. PICK s, t, ca, w : /\ s = Pushed(x, m, i) /\ t = Pushed(y, m, i)
                         /\ ca = arrays[i] /\ w = row[i]
  OBVIOUS
<1>4. Len(s) = Len(x.rows) - m /\ Len(s) \in Nat
  <2>1. Len(Pushed(x, m, i)) = Len(x.rows) - m
    BY <1>1, PushedListed
  <2>. QED
    BY <1>1, <1>3, <2>1
<1>5. Len(t) = Len(s) + 1
  <2>1. Len(y.rows) \in Nat /\ m \in 0 .. Len(y.rows)
    BY <1>1, <1>2
  <2>2. Len(t) = Len(y.rows) - m
    BY <1>3, <2>1, PushedListed
  <2>. QED
    BY <1>1, <1>2, <1>4, <2>2
<1>6. \A r \in 1 .. Len(s) : t[r] = s[r]
  BY <1>1, <1>2, <1>3, <1>4 DEF Pushed
<1>7. t[Len(s) + 1] = w
  BY <1>1, <1>2, <1>3, <1>4 DEF Pushed
<1>8. x.capacity \in Nat \ {0} /\ Keeps(ca, s, x.capacity)
  BY <1>3 DEF Metric
<1>9. Keeps(PushBack(ca, w), t, x.capacity)
  BY <1>4, <1>5, <1>6, <1>7, <1>8, PushKeeps
<1>. QED
  BY <1>3, <1>9

LEMMA ReceivedIsSeries ==
    ASSUME NEW x, Metric(x), Series(x), NEW v
    PROVE  Series(Received(x, v))
<1>1. PICK y : y = Received(x, v)
  OBVIOUS
<1>2. PICK row : row = PointReport(y.aggs)
  OBVIOUS
<1>3. /\ y.capacity = x.capacity
      /\ y.aggs = AllInvolved(x.aggs, v)
      /\ y.received = Append(x.received, [value |-> v, time |-> now])
      /\ y.rows = Append(x.rows, row)
      /\ x.capacity # 0 =>
           /\ y.data = [i \in DOMAIN row |-> PushBack(Arrays(x, Len(row))[i], row[i])]
           /\ y.ts = PushBack(x.ts, now)
  BY <1>1, <1>2, ReceivedFields, SMTT(30) DEF Metric
<1>. SUFFICES ASSUME x.capacity # 0
              PROVE  /\ Keeps(y.ts, Times(y), x.capacity)
                     /\ \E m \in 0 .. Len(y.rows) : StartedAfter(y, m)
  BY <1>1, <1>3 DEF Series
<1>4. Keeps(y.ts, Times(y), x.capacity)
  BY <1>3, TimesKept DEF Series
<1>5. PICK n : n = Len(x.aggs)
  OBVIOUS
<1>6. /\ n \in Nat /\ Len(x.data) \in Nat /\ Len(x.data) <= n /\ Len(x.rows) \in Nat
      /\ x.capacity \in Nat \ {0}
  BY <1>5, ListedIsTable DEF Metric, Aggregators
<1>7. Len(row) = n /\ DOMAIN row = 1 .. n
  BY <1>2, <1>3, <1>5, AllAreInvolved, ReportHasOneOfEach DEF Metric
<1>8. /\ Len(y.rows) = Len(x.rows) + 1
      /\ \A r \in 1 .. Len(x.rows) : y.rows[r] = x.rows[r]
      /\ y.rows[Len(x.rows) + 1] = row
  BY <1>3, Appended DEF Metric
<1>9. PICK arrays : arrays = Arrays(x, n)
  OBVIOUS
<1>10. y.data = [i \in 1 .. n |-> PushBack(arrays[i], row[i])]
  BY <1>3, <1>7, <1>9
<1>11. Len(y.data) = n
  <2>1. PICK d : d = y.data
    OBVIOUS
  <2>2. d = [i \in 1 .. n |-> d[i]]
    BY <1>10, <2>1
  <2>. QED
    BY <1>6, <2>1, <2>2, TableIsListed
<1>12. PICK k \in 0 .. Len(x.rows) : StartedAfter(x, k)
  BY DEF Series
<1>13. CASE Len(x.data) = n
  <2>1. \A i \in 1 .. n : Keeps(arrays[i], Pushed(x, k, i), x.capacity)
    BY <1>9, <1>12, <1>13 DEF Arrays, StartedAfter
  <2>2. \A i \in 1 .. n : Keeps(y.data[i], Pushed(y, k, i), x.capacity)
    <3>1. \A i \in 1 .. n : y.data[i] = PushBack(arrays[i], row[i])
      BY <1>10
    <3>. QED
      BY <1>3, <1>6, <1>7, <2>1, <3>1, RowKept
  <2>3. \A r \in 1 .. k : Len(y.rows[r]) < n
    BY <1>6, <1>8, <1>12, <1>13, SMTT(30) DEF StartedAfter
  <2>4. \A r \in k + 1 .. Len(y.rows) : Len(y.rows[r]) = n
    <3>. TAKE r \in k + 1 .. Len(y.rows)
    <3>1. CASE r = Len(x.rows) + 1
      BY <1>7, <1>8, <3>1
    <3>2. CASE r # Len(x.rows) + 1
      <4>1. r \in k + 1 .. Len(x.rows) /\ r \in 1 .. Len(x.rows)
        BY <1>6, <1>8, <3>2
      <4>2. Len(x.rows[r]) = n
        BY <1>12, <1>13, <4>1 DEF StartedAfter
      <4>. QED
        BY <1>8, <4>1, <4>2
    <3>. QED
      BY <3>1, <3>2
  <2>5. k \in 0 .. Len(y.rows) /\ k # Len(y.rows)
    BY <1>6, <1>8
  <2>6. StartedAfter(y, k)
    BY <1>3, <1>11, <2>2, <2>3, <2>4, <2>5 DEF StartedAfter
  <2>. QED
    BY <1>4, <2>5, <2>6
<1>14. CASE Len(x.data) # n
  <2>. DEFINE l == Len(x.rows)
  <2>1. \A i \in 1 .. n : arrays[i] = NewArray(x.capacity, 0)
    BY <1>9, <1>14 DEF Arrays
  <2>2. \A i \in 1 .. n : Keeps(arrays[i], Pushed(x, l, i), x.capacity)
    <3>. TAKE i \in 1 .. n
    <3>1. Len(Pushed(x, l, i)) = 0
      BY <1>6, PushedListed
    <3>. QED
      BY <1>6, <2>1, <3>1, NewArrayIsEmpty
  <2>3. \A i \in 1 .. n : Keeps(y.data[i], Pushed(y, l, i), x.capacity)
    <3>1. \A i \in 1 .. n : y.data[i] = PushBack(arrays[i], row[i])
      BY <1>10
    <3>2. l \in 0 .. Len(x.rows)
      BY <1>6
    <3>. QED
      BY <1>3, <1>6, <1>7, <2>2, <3>1, <3>2, RowKept, ZenonT(60)
  <2>4. \A r \in 1 .. l : Len(y.rows[r]) < n
    <3>. TAKE r \in 1 .. l
    <3>1. Len(y.rows[r]) = Len(x.rows[r])
      BY <1>6, <1>8
    <3>2. Len(x.rows[r]) < Len(x.data) \/ Len(x.rows[r]) = Len(x.data)
      BY <1>6, <1>12 DEF StartedAfter
    <3>. QED
      BY <1>6, <1>14, <3>1, <3>2
  <2>5. \A r \in l + 1 .. Len(y.rows) : Len(y.rows[r]) = n
    BY <1>6, <1>7, <1>8
  <2>6. l \in 0 .. Len(y.rows) /\ l # Len(y.rows)
    BY <1>6, <1>8
  <2>7. StartedAfter(y, l)
    BY <1>3, <1>11, <2>3, <2>4, <2>5, <2>6 DEF StartedAfter
  <2>. QED
    BY <1>4, <2>6, <2>7
<1>. QED
  BY <1>13, <1>14

LEMMA ReceivedIsGood ==
    ASSUME NEW x, Good(x), NEW v
    PROVE  Good(Received(x, v))
<1>1. Metric(Received(x, v)) /\ Series(Received(x, v))
  BY ReceivedIsMetric, ReceivedIsSeries DEF Good
<1>2. PICK y : y = Received(x, v)
  OBVIOUS
<1>3. Metric(y) /\ y.capacity = x.capacity
  BY <1>1, <1>2, ReceivedFields DEF Good, Metric
<1>4. x.capacity # 0 => Len(y.data) = Len(y.aggs)
  BY <1>2, ReceivedIsMetric DEF Good
<1>5. Len(y.aggs) \in Nat
  BY <1>3, ListedIsTable DEF Metric, Aggregators
<1>6. InRange(y)
  BY <1>3, <1>4, <1>5 DEF InRange
<1>. QED
  BY <1>1, <1>2, <1>6 DEF Good, Early

\* What build() makes of a plan.
LEMMA BuiltIsGood ==
    ASSUME NEW plan \in Plans, NEW x,
           x = [name     |-> plan.name,
                aggs     |-> [i \in DOMAIN plan.kinds |-> NewAggregator(plan.kinds[i], now)],
                capacity |-> plan.capacity,
                data     |-> << >>,
                ts       |-> NewArray(plan.capacity, 0),
                received |-> << >>, rows |-> << >>,
                since    |-> [i \in DOMAIN plan.kinds |-> [received |-> 0, time |-> now]]]
    PROVE  Good(x)
<1>1. plan.name \in Names /\ plan.kinds \in Seq(Kinds) /\ plan.capacity \in Nat
  BY PlansAssumption
<1>2. PICK n : n = Len(plan.kinds)
  OBVIOUS
<1>3. n \in Nat /\ DOMAIN plan.kinds = 1 .. n /\ \A i \in 1 .. n : plan.kinds[i] \in Kinds
  BY <1>1, <1>2, LenProperties, ElementOfSeq
<1>4. PICK aggs : aggs = x.aggs
  OBVIOUS
<1>5. PICK since : since = x.since
  OBVIOUS
<1>6. aggs = [i \in 1 .. n |-> NewAggregator(plan.kinds[i], now)]
  BY <1>3, <1>4
<1>7. since = [i \in 1 .. n |-> [received |-> 0, time |-> now]]
  BY <1>3, <1>5
<1>8. Listed(aggs) /\ Len(aggs) = n
  <2>1. aggs = [i \in 1 .. n |-> aggs[i]]
    BY <1>6
  <2>. QED
    BY <1>3, <2>1, TableIsListed
<1>9. Listed(since) /\ Len(since) = n
  <2>1. since = [i \in 1 .. n |-> since[i]]
    BY <1>7
  <2>. QED
    BY <1>3, <2>1, TableIsListed
<1>10. Aggregators(aggs)
  BY <1>3, <1>6, <1>8, NewAggregatorIsOne DEF Aggregators
<1>11. /\ DOMAIN x = Fields
       /\ x.name = plan.name /\ x.capacity = plan.capacity
       /\ x.data = << >> /\ x.received = << >> /\ x.rows = << >>
       /\ x.ts = NewArray(plan.capacity, 0)
  BY DEF Fields
<1>12. Listed(<< >>) /\ Len(<< >>) = 0
  BY EmptySeq DEF Listed
<1>13. Metric(x)
  <2>1. /\ Aggregators(x.aggs) /\ Listed(x.since) /\ Len(x.since) = Len(x.aggs)
        /\ Len(x.aggs) = n
    BY <1>4, <1>5, <1>8, <1>9, <1>10
  <2>2. /\ Listed(x.data) /\ Len(x.data) <= Len(x.aggs)
        /\ Listed(x.received) /\ Listed(x.rows) /\ Len(x.rows) = Len(x.received)
    BY <1>3, <1>11, <1>12, <2>1
  <2>3. x.capacity = 0 => x.data = << >> /\ x.ts = NewArray(0, 0)
    BY <1>11
  <2>. QED
    BY <1>1, <1>11, <2>1, <2>2, <2>3 DEF Metric
<1>14. Series(x)
  <2>. SUFFICES ASSUME x.capacity # 0
                PROVE  /\ Keeps(x.ts, Times(x), x.capacity)
                       /\ \E m \in 0 .. Len(x.rows) : StartedAfter(x, m)
    BY DEF Series
  <2>1. Len(Times(x)) = 0
    BY <1>11, <1>12, TimesListed
  <2>2. Keeps(x.ts, Times(x), x.capacity)
    BY <1>1, <1>11, <2>1, NewArrayIsEmpty
  <2>3. StartedAfter(x, 0)
    BY <1>11, <1>12 DEF StartedAfter
  <2>. QED
    BY <1>11, <1>12, <2>2, <2>3
<1>15. Early(x)
  <2>. SUFFICES ASSUME ~InRange(x)
                PROVE  \E i \in 1 .. Len(x.since) : x.since[i].received = Len(x.received)
    BY DEF Early
  <2>1. n > 0
    BY <1>3, <1>4, <1>8, <1>11, <1>12 DEF InRange
  <2>2. 1 \in 1 .. Len(x.since) /\ x.since[1].received = Len(x.received)
    BY <1>3, <1>5, <1>7, <1>9, <1>11, <1>12, <2>1
  <2>. QED
    BY <2>2
<1>. QED
  BY <1>13, <1>14, <1>15 DEF Good

LEMMA RegisteredIsGood ==
    ASSUME NEW x, Good(x), NEW kind \in LateKinds, NEW y,
           y = [x EXCEPT !.aggs  = Append(@, NewAggregator(kind, now)),
                         !.since = Append(@, [received |-> Len(x.received), time |-> now])]
    PROVE  Good(y)
<1>1. PICK a, s : a = NewAggregator(kind, now) /\ s = [received |-> Len(x.received), time |-> now]
  OBVIOUS
<1>2. /\ DOMAIN y = Fields
      /\ y.name = x.name /\ y.capacity = x.capacity /\ y.data = x.data /\ y.ts = x.ts
      /\ y.received = x.received /\ y.rows = x.rows
      /\ y.aggs = Append(x.aggs, a) /\ y.since = Append(x.since, s)
  BY <1>1 DEF Good, Metric, Fields
<1>3. Aggregator(a)
  BY <1>1, NewAggregatorIsOne, PlansAssumption
<1>4. /\ Listed(y.aggs) /\ Len(y.aggs) = Len(x.aggs) + 1
      /\ \A i \in 1 .. Len(x.aggs) : y.aggs[i] = x.aggs[i]
      /\ y.aggs[Len(x.aggs) + 1] = a
  BY <1>2, Appended DEF Good, Metric, Aggregators
<1>5. /\ Listed(y.since) /\ Len(y.since) = Len(x.since) + 1
      /\ y.since[Len(x.since) + 1] = s
  <2>1. Listed(x.since)
    BY DEF Good, Metric
  <2>2. /\ Listed(Append(x.since, s)) /\ Len(Append(x.since, s)) = Len(x.since) + 1
        /\ Append(x.since, s)[Len(x.since) + 1] = s
    BY <2>1, Appended
  <2>. QED
    BY <1>2, <2>2
<1>6. /\ Len(x.aggs) \in Nat /\ Len(x.data) \in Nat /\ Len(x.since) = Len(x.aggs)
      /\ Len(x.data) <= Len(x.aggs)
  BY ListedIsTable DEF Good, Metric, Aggregators
<1>7. Aggregators(y.aggs)
  <2>1. \A i \in 1 .. Len(x.aggs) : Aggregator(x.aggs[i])
    BY DEF Good, Metric, Aggregators
  <2>. QED
    BY <1>3, <1>4, <1>6, <2>1 DEF Aggregators
<1>8. Metric(y)
  BY <1>2, <1>4, <1>5, <1>6, <1>7 DEF Good, Metric
<1>9. Series(y)
  <2>1. Times(y) = Times(x) /\ \A m, i : Pushed(y, m, i) = Pushed(x, m, i)
    BY <1>2 DEF Times, Pushed
  <2>2. ASSUME NEW m, StartedAfter(x, m)
        PROVE  StartedAfter(y, m)
    BY <1>2, <2>1, <2>2 DEF StartedAfter
  <2>. QED
    BY <1>2, <2>1, <2>2 DEF Good, Series
<1>10. Early(y)
  <2>1. Len(y.since) \in 1 .. Len(y.since) /\ y.since[Len(y.since)] = s
    BY <1>5, <1>6
  <2>2. s.received = Len(y.received)
    BY <1>1, <1>2
  <2>. QED
    BY <2>1, <2>2 DEF Early
<1>. QED
  BY <1>8, <1>9, <1>10 DEF Good

-----------------------------------------------------------------------------
(* Every aggregator of every metric *)

\* When the last value came.
LastTime(x) == x.received[Len(x.received)].time

Summarised(x) ==
    /\ \A j \in 1 .. Len(x.received) :
         x.received[j].value \in Inner /\ x.received[j].time \in Int
    /\ \A i \in 1 .. Len(x.aggs) :
         /\ x.since[i].received \in 0 .. Len(x.received) /\ x.since[i].time \in Int
         /\ Summary(x.aggs[i], Given(x, i), x.since[i].time, LastTime(x))

LEMMA GivenIsASequence ==
    ASSUME NEW x, Listed(x.received), Summarised(x), NEW i \in 1 .. Len(x.aggs)
    PROVE  /\ Given(x, i) \in Seq(Int)
           /\ Len(Given(x, i)) = Len(x.received) - x.since[i].received
           /\ \A j \in 1 .. Len(Given(x, i)) : Given(x, i)[j] \in Inner
           /\ Given(x, i) # << >> => LastTime(x) \in Int
<1>1. PICK n, k, s : n = Len(x.received) /\ k = x.since[i].received /\ s = Given(x, i)
  OBVIOUS
<1>2. n \in Nat /\ k \in 0 .. n /\ n - k \in Nat
  BY <1>1, ListedIsTable DEF Summarised
<1>3. s = [j \in 1 .. n - k |-> x.received[k + j].value]
  BY <1>1 DEF Given
<1>4. \A j \in 1 .. n - k : s[j] \in Inner
  <2> TAKE j \in 1 .. n - k
  <2>1. k + j \in 1 .. n
    BY <1>2
  <2> QED
    BY <1>1, <1>3, <2>1 DEF Summarised
<1>5. Inner \subseteq Int
  BY LimitsAssumption DEF Inner
<1>6. s \in [1 .. n - k -> Int]
  BY <1>3, <1>4, <1>5
<1>7. s \in Seq(Int)
  BY <1>2, <1>6, SeqDef
<1>8. Len(s) = n - k
  <2>1. DOMAIN s = 1 .. n - k /\ DOMAIN s = 1 .. Len(s) /\ Len(s) \in Nat
    BY <1>6, <1>7, LenProperties
  <2> QED
    BY <1>2, <2>1
<1>9. s # << >> => LastTime(x) \in Int
  <2> HAVE s # << >>
  <2>1. Len(s) # 0
    BY <1>7, EmptySeq
  <2>2. n \in 1 .. n
    BY <1>2, <1>8, <2>1
  <2> QED
    BY <1>1, <2>2 DEF LastTime, Summarised
<1> QED
  BY <1>1, <1>4, <1>7, <1>8, <1>9

LEMMA ReceivedIsSummarised ==
    ASSUME NEW x, Metric(x), Summarised(x), NEW m \in Inner, now \in Int
    PROVE  Summarised(Received(x, m))
<1>1. PICK y : y = Received(x, m)
  OBVIOUS
<1>2. PICK n : n = Len(x.received)
  OBVIOUS
<1>3. /\ y.since = x.since
      /\ y.aggs = AllInvolved(x.aggs, m)
      /\ y.received = Append(x.received, [value |-> m, time |-> now])
  BY <1>1, ReceivedFields DEF Metric
<1>4. Listed(x.received) /\ n \in Nat
  BY <1>2, ListedIsTable DEF Metric
<1>5. /\ Listed(y.received) /\ Len(y.received) = n + 1
      /\ \A j \in 1 .. n : y.received[j] = x.received[j]
      /\ y.received[n + 1] = [value |-> m, time |-> now]
  BY <1>2, <1>3, <1>4, Appended
<1>6. /\ AllInvolved(x.aggs, m) = [i \in 1 .. Len(x.aggs) |-> Involve(x.aggs[i], m, now)]
      /\ Len(y.aggs) = Len(x.aggs)
  BY <1>3, AllAreInvolved DEF Metric
<1>7. m \in Int
  BY LimitsAssumption DEF Inner
<1>8. ASSUME NEW j \in 1 .. n + 1
      PROVE  y.received[j].value \in Inner /\ y.received[j].time \in Int
  <2>1. CASE j = n + 1
    BY <1>5, <2>1
  <2>2. CASE j # n + 1
    <3>1. j \in 1 .. n
      BY <1>4, <2>2
    <3> QED
      BY <1>2, <1>5, <3>1 DEF Summarised
  <2> QED
    BY <2>1, <2>2
<1>9. LastTime(y) = now
  BY <1>5 DEF LastTime
<1>10. ASSUME NEW i \in 1 .. Len(x.aggs)
       PROVE  /\ y.since[i].received \in 0 .. n + 1 /\ y.since[i].time \in Int
              /\ Summary(y.aggs[i], Given(y, i), y.since[i].time, LastTime(y))
  <2>1. PICK k, begun, s, a : /\ k = x.since[i].received /\ begun = x.since[i].time
                              /\ s = Given(x, i) /\ a = x.aggs[i]
    OBVIOUS
  <2>2. k \in 0 .. n /\ begun \in Int /\ Summary(a, s, begun, LastTime(x))
    BY <1>2, <2>1 DEF Summarised
  <2>3. s \in Seq(Int) /\ Len(s) = n - k /\ (s # << >> => LastTime(x) \in Int)
    BY <1>2, <1>4, <2>1, GivenIsASequence
  <2>4. Summary(Involve(a, m, now), Append(s, m), begun, now)
    BY <1>7, <2>2, <2>3, SummaryInvolves
  <2>5. Given(y, i) = Append(s, m)
    <3>1. PICK t : t = Append(s, m)
      OBVIOUS
    <3>2. /\ t \in Seq(Int) /\ Len(t) = n - k + 1
          /\ \A j \in 1 .. n - k : t[j] = s[j]
          /\ t[n - k + 1] = m
      <4>1. /\ Append(s, m) \in Seq(Int) /\ Len(Append(s, m)) = Len(s) + 1
            /\ \A j \in 1 .. Len(s) : Append(s, m)[j] = s[j]
            /\ Append(s, m)[Len(s) + 1] = m
        BY <1>7, <2>3, AppendProperties
      <4> QED
        BY <2>3, <3>1, <4>1
    <3>3. n - k + 1 = (n + 1) - k /\ n - k \in Nat
      BY <1>4, <2>2
    <3>4. Given(y, i) = [j \in 1 .. (n + 1) - k |-> y.received[k + j].value]
      BY <1>3, <1>5, <2>1 DEF Given
    <3>5. t = [j \in 1 .. (n + 1) - k |-> t[j]]
      BY <3>2, <3>3, LenProperties
    <3>6. \A j \in 1 .. (n + 1) - k : y.received[k + j].value = t[j]
      <4> TAKE j \in 1 .. (n + 1) - k
      <4>1. CASE j = n - k + 1
        <5>1. k + j = n + 1
          BY <1>4, <2>2, <4>1
        <5> QED
          BY <1>5, <3>2, <4>1, <5>1
      <4>2. CASE j # n - k + 1
        <5>1. j \in 1 .. n - k /\ k + j \in 1 .. n
          BY <1>4, <2>2, <4>2
        <5>2. s[j] = x.received[k + j].value
          BY <1>2, <2>1, <5>1 DEF Given
        <5> QED
          BY <1>5, <3>2, <5>1, <5>2
      <4> QED
        BY <4>1, <4>2
    <3>7. Given(y, i) = t
      BY <3>4, <3>5, <3>6
    <3> QED
      BY <3>1, <3>7
  <2>6. y.aggs[i] = Involve(a, m, now)
    BY <1>3, <1>6, <2>1
  <2>7. k \in 0 .. n + 1
    BY <1>4, <2>2
  <2> QED
    BY <1>3, <1>9, <2>1, <2>2, <2>4, <2>5, <2>6, <2>7
<1>11. Summarised(y)
  BY <1>5, <1>6, <1>8, <1>10 DEF Summarised
<1> QED
  BY <1>1, <1>11

LEMMA GivenNothing ==
    ASSUME NEW x, NEW i, Len(x.received) \in Nat, x.since[i].received = Len(x.received)
    PROVE  Given(x, i) = << >>
<1>1. Len(x.received) - x.since[i].received = 0
  OBVIOUS
<1>2. 1 .. 0 = {}
  OBVIOUS
<1>3. Given(x, i) = [j \in {} |-> x.received[x.since[i].received + j].value]
  BY <1>1, <1>2 DEF Given
<1>4. DOMAIN Given(x, i) = {}
  BY <1>3
<1> QED
  BY <1>3

LEMMA RegisteredIsSummarised ==
    ASSUME NEW x, Metric(x), Summarised(x), NEW kind \in LateKinds, now \in Int, NEW y,
           y = [x EXCEPT !.aggs  = Append(@, NewAggregator(kind, now)),
                         !.since = Append(@, [received |-> Len(x.received), time |-> now])]
    PROVE  Summarised(y)
<1>1. PICK a, s : a = NewAggregator(kind, now) /\ s = [received |-> Len(x.received), time |-> now]
  OBVIOUS
<1>2. /\ y.received = x.received
      /\ y.aggs = Append(x.aggs, a) /\ y.since = Append(x.since, s)
  BY <1>1 DEF Metric, Fields
<1>3. /\ Len(y.aggs) = Len(x.aggs) + 1
      /\ \A i \in 1 .. Len(x.aggs) : y.aggs[i] = x.aggs[i]
      /\ y.aggs[Len(x.aggs) + 1] = a
  BY <1>2, Appended DEF Metric, Aggregators
<1>4. /\ \A i \in 1 .. Len(x.aggs) : y.since[i] = x.since[i]
      /\ y.since[Len(x.aggs) + 1] = s
  BY <1>2, Appended DEF Metric
<1>5. Len(x.aggs) \in Nat /\ Len(x.received) \in Nat
  BY ListedIsTable DEF Metric, Aggregators
<1>6. LastTime(y) = LastTime(x)
  BY <1>2 DEF LastTime
<1>7. ASSUME NEW i \in 1 .. Len(x.aggs)
      PROVE  /\ y.since[i].received \in 0 .. Len(y.received) /\ y.since[i].time \in Int
             /\ Summary(y.aggs[i], Given(y, i), y.since[i].time, LastTime(y))
  <2>1. Given(y, i) = Given(x, i)
    <3>1. y.since[i].received = x.since[i].received /\ y.received = x.received
      BY <1>2, <1>4
    <3>2. PICK r, k : r = x.received /\ k = x.since[i].received
      OBVIOUS
    <3>3. Given(x, i) = [j \in 1 .. Len(r) - k |-> r[k + j].value]
      BY <3>2 DEF Given
    <3>4. Given(y, i) = [j \in 1 .. Len(r) - k |-> r[k + j].value]
      <4>1. r = y.received /\ k = y.since[i].received
        BY <3>1, <3>2
      <4> QED
        BY <4>1 DEF Given
    <3> QED
      BY <3>3, <3>4
  <2> QED
    BY <1>2, <1>3, <1>4, <1>6, <2>1 DEF Summarised
<1>8. ASSUME NEW i, i = Len(x.aggs) + 1
      PROVE  /\ y.since[i].received \in 0 .. Len(y.received) /\ y.since[i].time \in Int
             /\ Summary(y.aggs[i], Given(y, i), y.since[i].time, LastTime(y))
  <2>1. y.since[i].received = Len(y.received) /\ y.since[i].time = now
    <3>1. y.since[i] = s
      BY <1>4, <1>8
    <3>2. s.received = Len(x.received) /\ s.time = now
      BY <1>1
    <3> QED
      BY <1>2, <3>1, <3>2
  <2>2. Given(y, i) = << >>
    BY <1>2, <1>5, <2>1, GivenNothing
  <2>3. kind \in Kinds
    BY PlansAssumption
  <2>4. Summary(NewAggregator(kind, now), << >>, now, LastTime(y))
    BY <2>3, NewSummary
  <2>5. Len(y.received) \in 0 .. Len(y.received)
    BY <1>2, <1>5
  <2> QED
    BY <1>1, <1>3, <1>8, <2>1, <2>2, <2>4, <2>5
<1>9. \A i \in 1 .. Len(x.aggs) + 1 : i \in 1 .. Len(x.aggs) \/ i = Len(x.aggs) + 1
  BY <1>5
<1> QED
  BY <1>2, <1>3, <1>7, <1>8, <1>9 DEF Summarised

LEMMA BuiltIsSummarised ==
    ASSUME NEW plan \in Plans, now \in Int, NEW x,
           x = [name     |-> plan.name,
                aggs     |-> [i \in DOMAIN plan.kinds |-> NewAggregator(plan.kinds[i], now)],
                capacity |-> plan.capacity,
                data     |-> << >>,
                ts       |-> NewArray(plan.capacity, 0),
                received |-> << >>, rows |-> << >>,
                since    |-> [i \in DOMAIN plan.kinds |-> [received |-> 0, time |-> now]]]
    PROVE  Summarised(x)
<1>1. plan.kinds \in Seq(Kinds)
  BY PlansAssumption
<1>2. PICK n : n = Len(plan.kinds)
  OBVIOUS
<1>3. n \in Nat /\ DOMAIN plan.kinds = 1 .. n /\ \A i \in 1 .. n : plan.kinds[i] \in Kinds
  BY <1>1, <1>2, LenProperties, ElementOfSeq
<1>4. PICK aggs : aggs = x.aggs
  OBVIOUS
<1>5. aggs = [i \in 1 .. n |-> NewAggregator(plan.kinds[i], now)]
  BY <1>3, <1>4
<1>6. Len(aggs) = n
  <2>1. aggs = [i \in 1 .. n |-> aggs[i]]
    BY <1>5
  <2> QED
    BY <1>3, <2>1, TableIsListed
<1>7. x.received = << >> /\ Len(x.received) = 0
  OBVIOUS
<1>8. ASSUME NEW i \in 1 .. n
      PROVE  /\ x.since[i].received \in 0 .. Len(x.received) /\ x.since[i].time \in Int
             /\ Summary(x.aggs[i], Given(x, i), x.since[i].time, LastTime(x))
  <2>1. x.since[i] = [received |-> 0, time |-> now]
    BY <1>3
  <2>2. x.since[i].received = 0 /\ x.since[i].time = now
    BY <2>1
  <2>3. Given(x, i) = << >>
    BY <1>7, <2>2, GivenNothing
  <2>4. x.aggs[i] = NewAggregator(plan.kinds[i], now)
    BY <1>4, <1>5
  <2>5. Summary(NewAggregator(plan.kinds[i], now), << >>, now, LastTime(x))
    BY <1>3, NewSummary
  <2> QED
    BY <1>7, <2>2, <2>3, <2>4, <2>5
<1>9. \A j \in 1 .. Len(x.received) : FALSE
  BY <1>7
<1> QED
  BY <1>4, <1>6, <1>8, <1>9 DEF Summarised

-----------------------------------------------------------------------------
(* The program *)

MeasureRecords ==
    [name : Names \cup {None}, target : 0 .. Len(metrics), made : 0 .. Len(metrics),
     timing : BOOLEAN, then : 0 .. Horizon]

\* The inductive invariant.
IInv ==
    /\ Listed(metrics)
    /\ \A k \in 1 .. Len(metrics) : Good(metrics[k])
    /\ register \in [Names -> 0 .. Len(metrics)]
    /\ measure \in [Measures -> MeasureRecords]
    /\ undefined \in BOOLEAN /\ now \in 0 .. Horizon
    /\ OutOfRangeOnlyEarly

LEMMA InitIsGood == Init => IInv
<1>. SUFFICES ASSUME Init PROVE IInv
  OBVIOUS
<1>1. Listed(<< >>) /\ Len(<< >>) = 0
  BY EmptySeq DEF Listed
<1>2. now \in 0 .. Horizon
  BY PlansAssumption DEF Init
<1>3. register \in [Names -> 0 .. Len(metrics)]
  BY <1>1 DEF Init
<1>4. measure \in [Measures -> MeasureRecords]
  BY <1>1, PlansAssumption DEF Init, NewMeasure, MeasureRecords
<1>5. Listed(metrics) /\ \A k \in 1 .. Len(metrics) : Good(metrics[k])
  BY <1>1 DEF Init
<1>6. undefined \in BOOLEAN /\ OutOfRangeOnlyEarly
  BY DEF Init, OutOfRangeOnlyEarly
<1>. QED
  BY <1>2, <1>3, <1>4, <1>5, <1>6 DEF IInv

\* What a step leaves alone when it adds no metric and changes at most one of them.
LEMMA OneChanges ==
    ASSUME IInv, ~undefined, NEW k \in DOMAIN metrics, NEW y, Good(y),
           metrics' = [metrics EXCEPT ![k] = y]
    PROVE  /\ Listed(metrics') /\ Len(metrics') = Len(metrics)
           /\ \A j \in 1 .. Len(metrics') : Good(metrics'[j])
<1>1. Len(metrics) \in Nat /\ DOMAIN metrics = 1 .. Len(metrics)
  BY ListedIsTable DEF IInv
<1>2. PICK ms : ms = metrics'
  OBVIOUS
<1>3. ms = [j \in 1 .. Len(metrics) |-> IF j = k THEN y ELSE metrics[j]]
  BY <1>1, <1>2
<1>4. ms = [j \in 1 .. Len(metrics) |-> ms[j]]
  BY <1>3
<1>5. Listed(ms) /\ Len(ms) = Len(metrics)
  BY <1>1, <1>4, TableIsListed
<1>. QED
  BY <1>2, <1>3, <1>5 DEF IInv

LEMMA StepIsGood == IInv /\ [Next]_vars => IInv'
<1>. SUFFICES ASSUME IInv, [Next]_vars PROVE IInv'
  OBVIOUS
<1>. USE DEF IInv
<1>1. Len(metrics) \in Nat /\ DOMAIN metrics = 1 .. Len(metrics)
  BY ListedIsTable
<1>2. ASSUME NEW plan \in Plans, Build(plan) PROVE IInv'
  <2>1. PICK x : x = [name     |-> plan.name,
                aggs     |-> [i \in DOMAIN plan.kinds |-> NewAggregator(plan.kinds[i], now)],
                capacity |-> plan.capacity,
                data     |-> << >>,
                ts       |-> NewArray(plan.capacity, 0),
                received |-> << >>, rows |-> << >>,
                since    |-> [i \in DOMAIN plan.kinds |-> [received |-> 0, time |-> now]]]
    OBVIOUS
  <2>2. Good(x)
    BY <2>1, BuiltIsGood
  <2>3. metrics' = Append(metrics, x) /\ ~undefined
    BY <1>2, <2>1 DEF Build
  <2>4. /\ Listed(metrics') /\ Len(metrics') = Len(metrics) + 1
        /\ \A k \in 1 .. Len(metrics) : metrics'[k] = metrics[k]
        /\ metrics'[Len(metrics) + 1] = x
    BY <2>3, Appended
  <2>5. \A k \in 1 .. Len(metrics') : Good(metrics'[k])
    <3>. TAKE k \in 1 .. Len(metrics')
    <3>1. k \in 1 .. Len(metrics) \/ k = Len(metrics) + 1
      BY <1>1, <2>4
    <3>. QED
      BY <2>2, <2>4, <3>1
  <2>6. register' \in [Names -> 0 .. Len(metrics')]
    <3>1. plan.name \in Names
      BY PlansAssumption
    <3>. QED
      BY <1>1, <1>2, <2>4, <3>1 DEF Build
  <2>7. measure' \in [Measures -> MeasureRecords']
    BY <1>1, <1>2, <2>4 DEF Build, MeasureRecords
  <2>8. UNCHANGED <<undefined, now>> /\ ~undefined
    BY <1>2 DEF Build
  <2>. QED
    BY <2>4, <2>5, <2>6, <2>7, <2>8 DEF OutOfRangeOnlyEarly
<1>3. ASSUME NEW k \in DOMAIN metrics, NEW kind \in LateKinds, register_aggregator(k, kind)
      PROVE  IInv'
  <2>1. PICK y : y = [metrics[k] EXCEPT
              !.aggs  = Append(@, NewAggregator(kind, now)),
              !.since = Append(@, [received |-> Len(metrics[k].received), time |-> now])]
    OBVIOUS
  <2>2. Good(y)
    BY <1>1, <2>1, RegisteredIsGood
  <2>3. metrics' = [metrics EXCEPT ![k] = y] /\ ~undefined
    BY <1>3, <2>1 DEF register_aggregator
  <2>4. /\ Listed(metrics') /\ Len(metrics') = Len(metrics)
        /\ \A j \in 1 .. Len(metrics') : Good(metrics'[j])
    BY <2>2, <2>3, OneChanges
  <2>. QED
    BY <1>3, <2>4 DEF register_aggregator, OutOfRangeOnlyEarly, MeasureRecords
<1>4. ASSUME NEW k \in DOMAIN metrics, NEW v, ~undefined,
             metrics' = [metrics EXCEPT ![k] = Received(@, v)],
             measure' \in [Measures -> MeasureRecords],
             UNCHANGED <<register, undefined, now>>
      PROVE  IInv'
  <2>1. PICK y : y = Received(metrics[k], v)
    OBVIOUS
  <2>2. Good(y)
    BY <1>1, <2>1, ReceivedIsGood
  <2>3. metrics' = [metrics EXCEPT ![k] = y]
    BY <1>4, <2>1
  <2>4. /\ Listed(metrics') /\ Len(metrics') = Len(metrics)
        /\ \A j \in 1 .. Len(metrics') : Good(metrics'[j])
    BY <1>4, <2>2, <2>3, OneChanges
  <2>. QED
    BY <1>4, <2>4 DEF OutOfRangeOnlyEarly, MeasureRecords
<1>5. ASSUME NEW k \in DOMAIN metrics, NEW v \in Values, receive(k, v) PROVE IInv'
  BY <1>4, <1>5 DEF receive
<1>6. ASSUME NEW x \in Measures, NEW n \in Names, MakeMeasure(x, n) PROVE IInv'
  <2>1. measure' \in [Measures -> MeasureRecords]
    <3>1. register[n] \in 0 .. Len(metrics) /\ Len(metrics) \in 0 .. Len(metrics)
      BY <1>1
    <3>2. PICK y : y = [measure[x] EXCEPT !.name = n, !.target = register[n],
                                          !.made = Len(metrics)]
      OBVIOUS
    <3>3. y \in MeasureRecords
      BY <3>1, <3>2 DEF MeasureRecords
    <3>4. measure' = [measure EXCEPT ![x] = y]
      BY <1>6, <3>2 DEF MakeMeasure
    <3> QED
      BY <3>3, <3>4
  <2> QED
    BY <1>6, <2>1, ZenonT(60) DEF MakeMeasure, OutOfRangeOnlyEarly, MeasureRecords
<1>7. ASSUME NEW x \in Measures, start(x) PROVE IInv'
  BY <1>7 DEF start, OutOfRangeOnlyEarly, MeasureRecords
<1>8. ASSUME NEW x \in Measures, end(x) PROVE IInv'
  <2>1. measure' \in [Measures -> MeasureRecords] /\ measure[x].target \in 0 .. Len(metrics)
    BY <1>8 DEF end, MeasureRecords
  <2>2. CASE measure[x].target = 0
    BY <1>8, <2>1, <2>2 DEF end, OutOfRangeOnlyEarly, MeasureRecords
  <2>3. CASE measure[x].target # 0
    <3>1. measure[x].target \in DOMAIN metrics
      BY <1>1, <2>1, <2>3
    <3>. QED
      BY <1>4, <1>8, <2>1, <2>3, <3>1 DEF end
  <2>. QED
    BY <2>2, <2>3
<1>9. ASSUME NEW x \in Measures, cancel(x) PROVE IInv'
  BY <1>9 DEF cancel, OutOfRangeOnlyEarly, MeasureRecords
<1>10. ASSUME generate_stats_report PROVE IInv'
  <2>1. ASSUME NEW k \in Stored, ~InRange(metrics[k])
        PROVE  /\ metrics[k].capacity > 0
               /\ \E i \in DOMAIN metrics[k].since :
                    metrics[k].since[i].received = Len(metrics[k].received)
    <3>1. k \in 1 .. Len(metrics)
      BY <1>1 DEF Stored
    <3>2. DOMAIN metrics[k].since = 1 .. Len(metrics[k].since)
      BY <3>1, ListedIsTable DEF Good, Metric
    <3>3. Good(metrics[k])
      BY <3>1
    <3>4. metrics[k].capacity \in Nat /\ metrics[k].capacity # 0
      BY <2>1, <3>3 DEF Good, Metric, InRange
    <3>5. metrics[k].capacity > 0
      BY <3>4
    <3>. QED
      BY <2>1, <3>2, <3>3, <3>5 DEF Good, Early
  <2>2. UNCHANGED <<metrics, register, measure, now>>
    BY <1>10 DEF generate_stats_report
  <2>3. undefined' = (\E k \in Stored : ~InRange(metrics[k]))
    BY <1>10 DEF generate_stats_report
  <2>4. OutOfRangeOnlyEarly'
    <3>. SUFFICES ASSUME undefined'
                  PROVE  \E k \in Stored :
                           /\ metrics[k].capacity > 0
                           /\ \E i \in DOMAIN metrics[k].since :
                                metrics[k].since[i].received = Len(metrics[k].received)
      BY <2>2 DEF OutOfRangeOnlyEarly, Stored
    <3>. QED
      BY <2>1, <2>3
  <2>. QED
    BY <2>2, <2>3, <2>4 DEF MeasureRecords
<1>11. ASSUME Tick PROVE IInv'
  <2>1. now' \in 0 .. Horizon
    BY <1>11, PlansAssumption DEF Tick
  <2>. QED
    BY <1>11, <2>1 DEF Tick, OutOfRangeOnlyEarly, MeasureRecords
<1>12. CASE UNCHANGED vars
  BY <1>12 DEF vars, OutOfRangeOnlyEarly, Stored, MeasureRecords
<1>. QED
  BY <1>2, <1>3, <1>5, <1>6, <1>7, <1>8, <1>9, <1>10, <1>11, <1>12 DEF Next

LEMMA AlwaysGood == Spec => []IInv
BY InitIsGood, StepIsGood, PTL DEF Spec

\* The inductive invariant of the aggregators.
SInv ==
    /\ IInv
    /\ \A k \in 1 .. Len(metrics) : Summarised(metrics[k])
    /\ \A x \in Measures : measure[x].timing => measure[x].then <= now

LEMMA InitIsSummarised == Init => SInv
<1> SUFFICES ASSUME Init PROVE SInv
  OBVIOUS
<1>1. IInv
  BY InitIsGood
<1>2. \A k \in 1 .. Len(metrics) : FALSE
  <2>1. Len(metrics) = 0
    BY EmptySeq DEF Init
  <2> QED
    BY <2>1
<1>3. \A x \in Measures : ~measure[x].timing
  BY DEF Init, NewMeasure
<1> QED
  BY <1>1, <1>2, <1>3 DEF SInv

\* A metric that changes is summarised when the others were.
LEMMA OneIsSummarised ==
    ASSUME SInv, NEW k \in DOMAIN metrics, NEW y, Summarised(y),
           metrics' = [metrics EXCEPT ![k] = y]
    PROVE  \A j \in 1 .. Len(metrics') : Summarised(metrics'[j])
<1>1. Len(metrics) \in Nat /\ DOMAIN metrics = 1 .. Len(metrics)
  BY ListedIsTable DEF SInv, IInv
<1>2. PICK ms : ms = metrics'
  OBVIOUS
<1>3. ms = [j \in 1 .. Len(metrics) |-> IF j = k THEN y ELSE metrics[j]]
  BY <1>1, <1>2
<1>4. ms = [j \in 1 .. Len(metrics) |-> ms[j]]
  BY <1>3
<1>5. Len(ms) = Len(metrics)
  BY <1>1, <1>4, TableIsListed
<1> QED
  BY <1>2, <1>3, <1>5 DEF SInv

LEMMA StepIsSummarised == SInv /\ [Next]_vars => SInv'
<1> SUFFICES ASSUME SInv, [Next]_vars PROVE SInv'
  OBVIOUS
<1>1. /\ Len(metrics) \in Nat /\ DOMAIN metrics = 1 .. Len(metrics)
      /\ \A k \in 1 .. Len(metrics) : Metric(metrics[k]) /\ Summarised(metrics[k])
      /\ measure \in [Measures -> MeasureRecords]
      /\ now \in 0 .. Horizon
  BY ListedIsTable DEF SInv, IInv, Good
<1>2. IInv'
  BY StepIsGood DEF SInv
<1>3. Horizon \in Nat /\ 0 .. Horizon \subseteq Inner /\ now \in Int /\ Values \subseteq Inner
  BY <1>1, LimitsAssumption, PlansAssumption DEF Inner
<1> SUFFICES /\ \A k \in 1 .. Len(metrics') : Summarised(metrics'[k])
             /\ \A x \in Measures : measure'[x].timing => measure'[x].then <= now'
  BY <1>2 DEF SInv
<1> DEFINE Done == /\ \A k \in 1 .. Len(metrics') : Summarised(metrics'[k])
                   /\ \A x \in Measures : measure'[x].timing => measure'[x].then <= now'
<1>4. ASSUME NEW plan \in Plans, Build(plan) PROVE Done
  <2>1. PICK x : x = [name     |-> plan.name,
                aggs     |-> [i \in DOMAIN plan.kinds |-> NewAggregator(plan.kinds[i], now)],
                capacity |-> plan.capacity,
                data     |-> << >>,
                ts       |-> NewArray(plan.capacity, 0),
                received |-> << >>, rows |-> << >>,
                since    |-> [i \in DOMAIN plan.kinds |-> [received |-> 0, time |-> now]]]
    OBVIOUS
  <2>2. Summarised(x)
    BY <1>3, <2>1, BuiltIsSummarised
  <2>3. metrics' = Append(metrics, x)
    BY <1>4, <2>1 DEF Build
  <2>4. /\ Len(metrics') = Len(metrics) + 1
        /\ \A k \in 1 .. Len(metrics) : metrics'[k] = metrics[k]
        /\ metrics'[Len(metrics) + 1] = x
    BY <2>3, Appended DEF SInv, IInv
  <2>5. \A k \in 1 .. Len(metrics') : Summarised(metrics'[k])
    <3> TAKE k \in 1 .. Len(metrics')
    <3>1. k \in 1 .. Len(metrics) \/ k = Len(metrics) + 1
      BY <1>1, <2>4
    <3> QED
      BY <1>1, <2>2, <2>4, <3>1
  <2>6. measure' = measure /\ now' = now
    BY <1>4 DEF Build
  <2> QED
    BY <2>5, <2>6 DEF SInv
<1>5. ASSUME NEW k \in DOMAIN metrics, NEW kind \in LateKinds, register_aggregator(k, kind)
      PROVE  Done
  <2>1. PICK y : y = [metrics[k] EXCEPT
              !.aggs  = Append(@, NewAggregator(kind, now)),
              !.since = Append(@, [received |-> Len(metrics[k].received), time |-> now])]
    OBVIOUS
  <2>2. Summarised(y)
    BY <1>1, <1>3, <2>1, RegisteredIsSummarised
  <2>3. metrics' = [metrics EXCEPT ![k] = y] /\ measure' = measure /\ now' = now
    BY <1>5, <2>1 DEF register_aggregator
  <2>4. \A j \in 1 .. Len(metrics') : Summarised(metrics'[j])
    BY <2>2, <2>3, OneIsSummarised
  <2> QED
    BY <2>3, <2>4 DEF SInv
<1>6. ASSUME NEW k \in DOMAIN metrics, NEW v \in Inner,
             metrics' = [metrics EXCEPT ![k] = Received(@, v)]
      PROVE  \A j \in 1 .. Len(metrics') : Summarised(metrics'[j])
  <2>1. PICK y : y = Received(metrics[k], v)
    OBVIOUS
  <2>2. Summarised(y)
    BY <1>1, <1>3, <2>1, ReceivedIsSummarised
  <2>3. metrics' = [metrics EXCEPT ![k] = y]
    BY <1>6, <2>1
  <2> QED
    BY <2>2, <2>3, OneIsSummarised
<1>7. ASSUME NEW k \in DOMAIN metrics, NEW v \in Values, receive(k, v) PROVE Done
  <2>1. \A j \in 1 .. Len(metrics') : Summarised(metrics'[j])
    BY <1>3, <1>6, <1>7 DEF receive
  <2>2. measure' = measure /\ now' = now
    BY <1>7 DEF receive
  <2> QED
    BY <2>1, <2>2 DEF SInv
<1>8. ASSUME NEW x \in Measures, NEW n \in Names, MakeMeasure(x, n) PROVE Done
  <2>1. metrics' = metrics /\ now' = now
    BY <1>8 DEF MakeMeasure
  <2>2. measure' = [measure EXCEPT ![x].name = n, ![x].target = register[n],
                                   ![x].made = Len(metrics)]
    BY <1>8 DEF MakeMeasure
  <2>3. \A z \in Measures : /\ measure'[z].timing = measure[z].timing
                            /\ measure'[z].then = measure[z].then
    BY <1>1, <2>2 DEF MeasureRecords
  <2> QED
    BY <2>1, <2>3 DEF SInv
<1>9. ASSUME NEW x \in Measures, start(x) PROVE Done
  <2>1. metrics' = metrics /\ now' = now
    BY <1>9 DEF start
  <2>2. measure' = [measure EXCEPT ![x].timing = TRUE, ![x].then = now]
    BY <1>9 DEF start
  <2>3. \A z \in Measures : IF z = x THEN measure'[z].then = now
                                     ELSE measure'[z] = measure[z]
    BY <1>1, <2>2 DEF MeasureRecords
  <2>4. now <= now
    BY <1>3
  <2> QED
    BY <2>1, <2>3, <2>4 DEF SInv
<1>10. ASSUME NEW x \in Measures, end(x) PROVE Done
  <2>1. now' = now
    BY <1>10 DEF end
  <2>2. measure' = [measure EXCEPT ![x].timing = FALSE] /\ measure[x].timing
    BY <1>10 DEF end
  <2>3. \A z \in Measures : IF z = x THEN ~measure'[z].timing
                                     ELSE measure'[z] = measure[z]
    BY <1>1, <2>2 DEF MeasureRecords
  <2>4. \A z \in Measures : measure'[z].timing => measure'[z].then <= now'
    BY <2>1, <2>3 DEF SInv
  <2>5. measure[x].target \in 0 .. Len(metrics) /\ measure[x].then \in 0 .. Horizon
    BY <1>1 DEF MeasureRecords
  <2>6. CASE measure[x].target = 0
    <3>1. metrics' = metrics
      BY <1>10, <2>6 DEF end
    <3> QED
      BY <1>1, <2>4, <3>1
  <2>7. CASE measure[x].target # 0
    <3>1. measure[x].target \in DOMAIN metrics
      BY <1>1, <2>5, <2>7
    <3>2. now - measure[x].then \in Inner
      <4>1. measure[x].then <= now
        BY <2>2 DEF SInv
      <4>2. now - measure[x].then \in 0 .. Horizon
        BY <1>1, <1>3, <2>5, <4>1
      <4> QED
        BY <1>3, <4>2
    <3>3. metrics' = [metrics EXCEPT ![measure[x].target] = Received(@, now - measure[x].then)]
      BY <1>10, <2>7 DEF end
    <3>4. \A j \in 1 .. Len(metrics') : Summarised(metrics'[j])
      BY <1>6, <3>1, <3>2, <3>3
    <3> QED
      BY <2>4, <3>4
  <2> QED
    BY <2>6, <2>7
<1>11. ASSUME NEW x \in Measures, cancel(x) PROVE Done
  <2>1. metrics' = metrics /\ now' = now
    BY <1>11 DEF cancel
  <2>2. measure' = [measure EXCEPT ![x].timing = FALSE]
    BY <1>11 DEF cancel
  <2>3. \A z \in Measures : IF z = x THEN ~measure'[z].timing
                                     ELSE measure'[z] = measure[z]
    BY <1>1, <2>2 DEF MeasureRecords
  <2> QED
    BY <2>1, <2>3 DEF SInv
<1>12. ASSUME generate_stats_report PROVE Done
  BY <1>12 DEF generate_stats_report, SInv
<1>13. ASSUME Tick PROVE Done
  <2>1. metrics' = metrics /\ measure' = measure /\ now' = now + 1
    BY <1>13 DEF Tick
  <2>2. \A x \in Measures : measure[x].timing => measure[x].then <= now + 1
    <3> TAKE x \in Measures
    <3> HAVE measure[x].timing
    <3>1. measure[x].then \in 0 .. Horizon
      BY <1>1 DEF MeasureRecords
    <3>2. measure[x].then <= now
      BY DEF SInv
    <3> QED
      BY <1>3, <3>1, <3>2
  <2> QED
    BY <1>1, <2>1, <2>2
<1>14. CASE UNCHANGED vars
  BY <1>14 DEF vars, SInv
<1> QED
  BY <1>4, <1>5, <1>7, <1>8, <1>9, <1>10, <1>11, <1>12, <1>13, <1>14 DEF Next

LEMMA AlwaysSummarised == Spec => []SInv
BY InitIsSummarised, StepIsSummarised, PTL DEF Spec

-----------------------------------------------------------------------------
(* The theorems *)

\* The types, and that no ring buffer is ever written past its capacity.
THEOREM MetricsTyped == Spec => []TypeOK
<1>1. ASSUME NEW ca, NEW s, NEW n \in Nat \ {0}, Len(s) \in Nat, Keeps(ca, s, n)
      PROVE  ca.fill_count \in 0 .. n /\ ca.next \in 0 .. n - 1 /\ DOMAIN ca.array = 0 .. n - 1
  BY <1>1 DEF Keeps, Lesser
<1>2. ASSUME NEW x, Good(x)
      PROVE  /\ x.name \in Names
             /\ \A i \in DOMAIN x.aggs : x.aggs[i].kind \in Kinds
             /\ \A ca \in {x.ts} \cup {x.data[i] : i \in DOMAIN x.data} :
                  /\ ca.fill_count \in 0 .. x.capacity
                  /\ ca.next \in 0 .. IF x.capacity = 0 THEN 0 ELSE x.capacity - 1
                  /\ DOMAIN ca.array = 0 .. x.capacity - 1
  <2>. USE <1>2 DEF Good
  <2>1. /\ DOMAIN x.aggs = 1 .. Len(x.aggs) /\ DOMAIN x.data = 1 .. Len(x.data)
        /\ Len(x.received) \in Nat /\ Len(x.rows) \in Nat /\ x.capacity \in Nat
    BY ListedIsTable DEF Metric, Aggregators
  <2>2. x.name \in Names /\ \A i \in DOMAIN x.aggs : x.aggs[i].kind \in Kinds
    BY <2>1 DEF Metric, Aggregators, Aggregator
  <2>3. CASE x.capacity = 0
    <3>1. x.data = << >> /\ x.ts = NewArray(0, 0)
      BY <2>3 DEF Metric
    <3>2. DOMAIN x.data = {}
      BY <3>1
    <3>. QED
      BY <2>2, <2>3, <3>1, <3>2 DEF NewArray
  <2>4. CASE x.capacity # 0
    <3>1. PICK m \in 0 .. Len(x.rows) : StartedAfter(x, m)
      BY <2>4 DEF Series
    <3>2. ASSUME NEW i \in DOMAIN x.data
          PROVE  /\ x.data[i].fill_count \in 0 .. x.capacity
                 /\ x.data[i].next \in 0 .. x.capacity - 1
                 /\ DOMAIN x.data[i].array = 0 .. x.capacity - 1
      <4>1. Len(Pushed(x, m, i)) \in Nat
        BY <2>1, PushedListed
      <4>. QED
        BY <1>1, <2>1, <2>4, <3>1, <4>1 DEF StartedAfter
    <3>3. /\ x.ts.fill_count \in 0 .. x.capacity
          /\ x.ts.next \in 0 .. x.capacity - 1
          /\ DOMAIN x.ts.array = 0 .. x.capacity - 1
      <4>1. Len(Times(x)) \in Nat
        BY <2>1, TimesListed
      <4>. QED
        BY <1>1, <2>1, <2>4, <4>1 DEF Series
    <3>. QED
      BY <2>2, <2>4, <3>2, <3>3
  <2>. QED
    BY <2>3, <2>4
<1>3. IInv => TypeOK
  <2>. SUFFICES ASSUME IInv PROVE TypeOK
    OBVIOUS
  <2>1. DOMAIN metrics = 1 .. Len(metrics)
    BY ListedIsTable DEF IInv
  <2>. QED
    BY <1>2, <2>1 DEF IInv, TypeOK, MeasureRecords
<1>. QED
  BY <1>3, AlwaysGood, PTL

\* get_report() reads past the end of metric_data only for a series that has received
\* nothing since its last aggregator was registered.
THEOREM ReadsOutOfRangeOnlyEarly == Spec => []OutOfRangeOnlyEarly
<1>1. IInv => OutOfRangeOnlyEarly
  BY DEF IInv
<1>. QED
  BY <1>1, AlwaysGood, PTL

\* A series that can be read reports the last values, as many as fit, of the rows that
\* have a value for each of its aggregators, and the seconds of the last values received.
THEOREM SeriesReportsTheLast == Spec => []SeriesKeepTheLast
<1>1. ASSUME NEW x, Good(x) PROVE KeepsTheLast(x)
  <2>. USE <1>1 DEF Good
  <2>. SUFFICES ASSUME x.capacity > 0, InRange(x) PROVE KeepsTheLast(x)
    BY DEF KeepsTheLast
  <2>a. PICK n : n = Len(x.rows)
    OBVIOUS
  <2>b. PICK same : same = SameRows(x)
    OBVIOUS
  <2>c. PICK kept : kept = KeptRows(x)
    OBVIOUS
  <2>1. /\ n \in Nat /\ Len(x.received) = n /\ x.capacity \in Nat \ {0}
        /\ Listed(x.rows) /\ Len(x.rows) = n
    BY <2>a, ListedIsTable DEF Metric
  <2>2. PICK c : c = x.capacity
    OBVIOUS
  <2>3. /\ DOMAIN x.aggs = 1 .. Len(x.aggs) /\ Len(x.aggs) \in Nat /\ Len(x.data) \in Nat
        /\ Len(x.data) = Len(x.aggs) /\ Aggregators(x.aggs)
    BY <1>1, ListedIsTable DEF Metric, Aggregators, InRange
  <2>4. PICK m \in 0 .. n : StartedAfter(x, m)
    BY <1>1, <2>1 DEF Series
  <2>5. PICK l : l = n - m
    OBVIOUS
  <2>6. l \in Nat /\ l <= n
    BY <2>1, <2>4, <2>5
  <2>6a. Cardinality(m + 1 .. n) = l
    <3>1. m + 1 \in Int /\ n \in Int
      BY <2>1, <2>4
    <3>2. Cardinality(m + 1 .. n) = IF m + 1 > n THEN 0 ELSE n - (m + 1) + 1
      BY <3>1, FS_Interval
    <3>. QED
      BY <2>1, <2>4, <2>5, <3>2
  <2>7. Cardinality(same) = l
    <3>1. CASE n = 0
      <4>1. same = m + 1 .. n
        BY <2>a, <2>b, <2>4, <3>1 DEF SameRows
      <4>. QED
        BY <2>6a, <4>1
    <3>2. CASE n # 0
      <4>1. m < n /\ n \in m + 1 .. n
        BY <2>1, <2>4, <3>2 DEF StartedAfter
      <4>2. Len(x.rows[n]) = Len(x.data)
        BY <2>1, <2>4, <4>1 DEF StartedAfter
      <4>3. \A r \in 1 .. n : Len(x.rows[r]) = Len(x.rows[n]) <=> r > m
        <5>. TAKE r \in 1 .. n
        <5>1. CASE r > m
          <6>1. r \in m + 1 .. Len(x.rows)
            BY <2>1, <2>4, <5>1
          <6>. QED
            BY <2>4, <4>2, <5>1, <6>1 DEF StartedAfter
        <5>2. CASE ~(r > m)
          <6>1. r \in 1 .. m
            BY <2>1, <2>4, <5>2
          <6>2. Len(x.rows[r]) < Len(x.data)
            BY <2>4, <6>1 DEF StartedAfter
          <6>. QED
            BY <2>3, <4>2, <5>2, <6>2
        <5>. QED
          BY <5>1, <5>2
      <4>4. same = m + 1 .. n
        BY <2>a, <2>b, <2>1, <2>4, <4>3 DEF SameRows
      <4>. QED
        BY <2>6a, <4>4
    <3>. QED
      BY <3>1, <3>2
  <2>8. PICK f : f = Lesser(c, l)
    OBVIOUS
  <2>9. f \in Nat /\ f <= l /\ f <= n
    <3>1. c \in Nat
      BY <2>1, <2>2
    <3>2. f \in Nat /\ f <= l
      BY <2>6, <2>8, <3>1, LesserIsOne
    <3>. QED
      BY <2>1, <2>6, <3>2
  <2>10. /\ kept = [j \in 1 .. f |-> x.rows[n - f + j]]
         /\ DOMAIN kept = 1 .. f /\ Len(kept) = f
    <3>1. kept = LastOf(x.rows, f)
      BY <2>b, <2>c, <2>2, <2>7, <2>8 DEF KeptRows
    <3>2. PICK s : s = x.rows
      OBVIOUS
    <3>3. Listed(s) /\ Len(s) = n /\ f <= Len(s)
      BY <2>1, <2>9, <3>2
    <3>4. /\ LastOf(s, f) = [j \in 1 .. f |-> s[Len(s) - f + j]]
          /\ DOMAIN LastOf(s, f) = 1 .. f /\ Len(LastOf(s, f)) = f
      BY <2>9, <3>3, LastOfProperties
    <3>. QED
      BY <3>1, <3>2, <3>3, <3>4
  <2>11. ASSUME NEW i \in DOMAIN x.aggs
         PROVE  /\ Reported(x).values[i] = [j \in DOMAIN kept |-> kept[j][i]]
                /\ \A p \in 0 .. Len(kept) - 1 :
                     At(x.data[i], p) = Copied(x.data[i])[p + 1]
    <3>1. PICK s : s = Pushed(x, m, i)
      OBVIOUS
    <3>2. PICK ca : ca = x.data[i]
      OBVIOUS
    <3>3. Listed(s) /\ Len(s) = l
      BY <2>1, <2>4, <2>5, <3>1, PushedListed
    <3>4. Keeps(ca, s, c)
      BY <2>2, <2>3, <2>4, <3>1, <3>2 DEF StartedAfter
    <3>5. Copied(ca) = LastOf(s, f)
      BY <2>1, <2>2, <2>8, <3>3, <3>4, CopiedKeepsTheLast
    <3>6. LastOf(s, f) = [j \in 1 .. f |-> s[l - f + j]]
      BY <2>9, <3>3, LastOfProperties, ZenonT(60)
    <3>7. ASSUME NEW j \in 1 .. f
          PROVE  s[l - f + j] = kept[j][i]
      <4>1. l - f + j \in 1 .. l /\ m + (l - f + j) = n - f + j
        BY <2>1, <2>4, <2>5, <2>6, <2>9
      <4>2. s[l - f + j] = x.rows[m + (l - f + j)][i]
        BY <2>1, <2>5, <3>1, <4>1 DEF Pushed
      <4>3. kept[j] = x.rows[n - f + j]
        BY <2>10
      <4>. QED
        BY <4>1, <4>2, <4>3
    <3>8. Copied(ca) = [j \in DOMAIN kept |-> kept[j][i]]
      BY <2>10, <3>5, <3>6, <3>7
    <3>9. Reported(x).values[i] = Copied(ca)
      BY <1>1, <2>1, <2>3, <3>2, ReportHasOneOfEach DEF Reported
    <3>10. ASSUME NEW p \in 0 .. Len(kept) - 1
           PROVE  At(ca, p) = Copied(ca)[p + 1]
      <4>1. ca.fill_count = f
        BY <2>8, <3>3, <3>4 DEF Keeps
      <4>2. p \in 0 .. ca.fill_count - 1 /\ Len(s) \in Nat
        BY <2>6, <2>10, <3>3, <4>1
      <4>. QED
        BY <2>1, <2>2, <3>4, <4>2, AtReadsTheCopy
    <3>. QED
      BY <3>2, <3>8, <3>9, <3>10
  <2>12. Reported(x).time = LastOf(ReceivedAt(x), Lesser(x.capacity, n))
    <3>1. PICK s : s = Times(x)
      OBVIOUS
    <3>2. PICK secs : secs = ReceivedAt(x)
      OBVIOUS
    <3>2a. secs = [r \in 1 .. n |-> x.received[r].time \div Second]
      BY <2>a, <3>2 DEF ReceivedAt
    <3>3. Listed(s) /\ Len(s) = n /\ s = [r \in 1 .. n |-> x.received[r].time]
      BY <2>1, <3>1, TimesListed DEF Times
    <3>4. Listed(secs) /\ Len(secs) = n
      <4>1. secs = [r \in 1 .. n |-> secs[r]]
        BY <3>2a
      <4>. QED
        BY <2>1, <4>1, TableIsListed
    <3>5. PICK g : g = Lesser(c, n)
      OBVIOUS
    <3>6. g \in Nat /\ g <= n
      BY <2>1, <2>2, <3>5, LesserIsOne
    <3>7. Keeps(x.ts, s, c)
      BY <1>1, <2>1, <2>2, <3>1 DEF Series
    <3>8. Copied(x.ts) = LastOf(s, g)
      BY <2>1, <2>2, <3>3, <3>5, <3>7, CopiedKeepsTheLast
    <3>9. LastOf(s, g) = [j \in 1 .. g |-> s[n - g + j]]
      <4>1. Listed(s) /\ g <= Len(s)
        BY <3>3, <3>6
      <4>2. LastOf(s, g) = [j \in 1 .. g |-> s[Len(s) - g + j]]
        BY <3>6, <4>1, LastOfProperties
      <4>. QED
        BY <3>3, <4>2
    <3>10. LastOf(secs, g) = [j \in 1 .. g |-> secs[n - g + j]]
      <4>1. g <= Len(secs)
        BY <3>4, <3>6
      <4>2. LastOf(secs, g) = [j \in 1 .. g |-> secs[Len(secs) - g + j]]
        BY <3>4, <3>6, <4>1, LastOfProperties
      <4>. QED
        BY <3>4, <4>2
    <3>11. Reported(x).time = [j \in 1 .. g |-> Copied(x.ts)[j] \div Second]
      <4>1. x.ts.fill_count = g
        BY <3>3, <3>5, <3>7 DEF Keeps
      <4>. QED
        BY <2>1, <4>1 DEF Reported
    <3>12. ASSUME NEW j \in 1 .. g
           PROVE  Copied(x.ts)[j] \div Second = secs[n - g + j]
      <4>1. n - g + j \in 1 .. n
        BY <2>1, <3>6
      <4>2. Copied(x.ts)[j] = x.received[n - g + j].time
        BY <3>3, <3>8, <3>9, <4>1
      <4>. QED
        BY <3>2a, <4>1, <4>2
    <3>13. Reported(x).time = LastOf(secs, g)
      BY <3>10, <3>11, <3>12
    <3>. QED
      BY <2>2, <3>2, <3>5, <3>13
  <2>. QED
    BY <2>a, <2>c, <2>11, <2>12 DEF KeepsTheLast
<1>2. IInv => SeriesKeepTheLast
  BY <1>1, ListedIsTable DEF IInv, SeriesKeepTheLast
<1>. QED
  BY <1>2, AlwaysGood, PTL

\* Whatever a metric has received, of either kind, each aggregator reports its statistic
\* of exactly the values that came after it was registered, and none only when it has
\* nothing to divide by.
THEOREM StatisticsAreRight == Spec => []AggregatesCorrect
<1>1. SInv => AggregatesCorrect
  <2> SUFFICES ASSUME SInv, NEW k \in DOMAIN metrics, NEW i \in DOMAIN metrics[k].aggs
               PROVE  LET x == metrics[k]
                          a == x.aggs[i]
                          s == Given(x, i)
                      IN  /\ HasValue(a) <=> /\ a.kind = "average" => s # << >>
                                             /\ a.kind = "average_per_second"
                                                  => Seconds(x, i) # 0
                          /\ HasValue(a) => Value(a) = Expected(a.kind, s, Seconds(x, i))
    BY DEF AggregatesCorrect
  <2>1. PICK x : x = metrics[k]
    OBVIOUS
  <2>2. Metric(x) /\ Summarised(x)
    BY <2>1, ListedIsTable DEF SInv, IInv, Good
  <2>3. Listed(x.received) /\ Len(x.received) \in Nat /\ i \in 1 .. Len(x.aggs)
    BY <2>1, <2>2, ListedIsTable DEF Metric, Aggregators
  <2>4. PICK a, s, begun, ended : /\ a = x.aggs[i] /\ s = Given(x, i)
                                  /\ begun = x.since[i].time /\ ended = LastTime(x)
    OBVIOUS
  <2>5. /\ s \in Seq(Int) /\ (s # << >> => ended \in Int)
        /\ \A j \in 1 .. Len(s) : s[j] \in Inner
    BY <2>2, <2>3, <2>4, GivenIsASequence
  <2>6. begun \in Int /\ Summary(a, s, begun, ended)
    BY <2>2, <2>3, <2>4 DEF Summarised
  <2>7. Seconds(x, i) = Lasted(s, begun, ended) \div Second
    <3>1. Second \in Nat \ {0}
      BY LimitsAssumption
    <3>2. 0 \div Second = 0
      BY <3>1
    <3>3. Last(x.received).time = ended
      BY <2>4 DEF Last, LastTime
    <3> QED
      BY <2>4, <3>2, <3>3 DEF Seconds, Lasted
  <2>8. PICK sec : sec = Seconds(x, i)
    OBVIOUS
  <2>9. /\ HasValue(a) <=> /\ a.kind = "average" => s # << >>
                           /\ a.kind = "average_per_second" => sec # 0
        /\ HasValue(a) => Value(a) = Expected(a.kind, s, sec)
    BY <2>5, <2>6, <2>7, <2>8, SummaryIsCorrect
  <2> QED
    BY <2>1, <2>4, <2>8, <2>9
<1> QED
  BY <1>1, AlwaysSummarised, PTL

-----------------------------------------------------------------------------
(* Measures *)

\* What the store and the measures point at.
Targeted ==
    \A k \in DOMAIN metrics :
        /\ \A n \in Names : k = register[n] <=> LastBuilt(k, n, Len(metrics))
        /\ \A x \in Measures :
             k = measure[x].target <=> LastBuilt(k, measure[x].name, measure[x].made)

\* A step that builds nothing leaves the names of the metrics alone.
SameNames ==
    /\ DOMAIN metrics' = DOMAIN metrics /\ Len(metrics') = Len(metrics)
    /\ \A k \in DOMAIN metrics : metrics'[k].name = metrics[k].name

LEMMA LastOfTheSame ==
    ASSUME Len(metrics) \in Nat, DOMAIN metrics = 1 .. Len(metrics), SameNames,
           NEW k \in DOMAIN metrics, NEW name, NEW n \in 0 .. Len(metrics)
    PROVE  LastBuilt(k, name, n)' <=> LastBuilt(k, name, n)
<1>1. \A j \in k + 1 .. n : j \in DOMAIN metrics
  OBVIOUS
<1>. QED
  BY <1>1 DEF SameNames, LastBuilt

LEMMA StoreKept ==
    ASSUME IInv, Targeted, SameNames, register' = register,
           \A x \in Measures : /\ measure'[x].name = measure[x].name
                               /\ measure'[x].target = measure[x].target
                               /\ measure'[x].made = measure[x].made
    PROVE  Targeted'
<1>1. Len(metrics) \in Nat /\ DOMAIN metrics = 1 .. Len(metrics)
  BY ListedIsTable DEF IInv
<1>2. \A x \in Measures : measure[x].made \in 0 .. Len(metrics)
  BY DEF IInv, MeasureRecords
<1>3. ASSUME NEW k \in DOMAIN metrics, NEW n \in Names
      PROVE  k = register'[n] <=> LastBuilt(k, n, Len(metrics))'
  <2>1. LastBuilt(k, n, Len(metrics))' <=> LastBuilt(k, n, Len(metrics))
    BY <1>1, LastOfTheSame DEF SameNames
  <2>. QED
    BY <2>1 DEF Targeted
<1>4. ASSUME NEW k \in DOMAIN metrics, NEW x \in Measures
      PROVE  k = measure'[x].target <=> LastBuilt(k, measure[x].name, measure[x].made)'
  <2>1. PICK name, n : name = measure[x].name /\ n = measure[x].made
    OBVIOUS
  <2>2. n \in 0 .. Len(metrics)
    BY <1>2, <2>1
  <2>3. LastBuilt(k, name, n)' <=> LastBuilt(k, name, n)
    BY <1>1, <2>2, LastOfTheSame
  <2>4. name = measure'[x].name /\ n = measure'[x].made
    BY <2>1
  <2>5. LastBuilt(k, measure[x].name, measure[x].made)' <=> LastBuilt(k, name, n)'
    BY <2>4
  <2>6. k = measure[x].target <=> LastBuilt(k, name, n)
    BY <2>1 DEF Targeted
  <2>. QED
    BY <2>3, <2>5, <2>6
<1>. QED
  BY <1>3, <1>4 DEF Targeted, SameNames

LEMMA InitIsTargeted == Init => Targeted
<1>. SUFFICES ASSUME Init PROVE DOMAIN metrics = {}
  BY DEF Targeted
<1>. QED
  BY DEF Init

\* What a metric receives goes into the history of that metric, and is all that does.
LEMMA ReceivesOne ==
    ASSUME IInv, NEW k \in DOMAIN metrics, NEW v,
           metrics' = [metrics EXCEPT ![k] = Received(@, v)]
    PROVE  /\ SameNames
           /\ metrics'[k].received = Append(metrics[k].received, [value |-> v, time |-> now])
           /\ \A j \in DOMAIN metrics \ {k} : metrics'[j] = metrics[j]
<1>1. Len(metrics) \in Nat /\ DOMAIN metrics = 1 .. Len(metrics)
  BY ListedIsTable DEF IInv
<1>2. PICK y : y = Received(metrics[k], v)
  OBVIOUS
<1>3. /\ y.name = metrics[k].name
      /\ y.received = Append(metrics[k].received, [value |-> v, time |-> now])
  <2>1. DOMAIN metrics[k] = Fields
    BY <1>1 DEF IInv, Good, Metric
  <2>. QED
    BY <1>2, <2>1, ReceivedFields
<1>4. metrics' = [metrics EXCEPT ![k] = y]
  BY <1>2
<1>5. Len(metrics') = Len(metrics)
  BY <1>1, <1>4, TableIsListed
<1>. QED
  BY <1>3, <1>4, <1>5 DEF SameNames

LEMMA StepIsTargeted == IInv /\ Targeted /\ [Next]_vars => Targeted'
<1>. SUFFICES ASSUME IInv, Targeted, [Next]_vars PROVE Targeted'
  OBVIOUS
<1>1. Len(metrics) \in Nat /\ DOMAIN metrics = 1 .. Len(metrics)
  BY ListedIsTable DEF IInv
<1>2. measure \in [Measures -> MeasureRecords] /\ register \in [Names -> 0 .. Len(metrics)]
  BY DEF IInv
<1>3. ASSUME UNCHANGED metrics PROVE SameNames
  BY <1>3 DEF SameNames
<1>4. ASSUME NEW plan \in Plans, Build(plan) PROVE Targeted'
  <2>1. PICK x : /\ x.name = plan.name /\ metrics' = Append(metrics, x)
    <3>1. PICK x : x = [name |-> plan.name,
             aggs     |-> [i \in DOMAIN plan.kinds |-> NewAggregator(plan.kinds[i], now)],
             capacity |-> plan.capacity,
             data     |-> << >>,
             ts       |-> NewArray(plan.capacity, 0),
             received |-> << >>, rows |-> << >>,
             since    |-> [i \in DOMAIN plan.kinds |-> [received |-> 0, time |-> now]]]
      OBVIOUS
    <3>2. x.name = plan.name
      BY <3>1
    <3>. QED
      BY <1>4, <3>1, <3>2 DEF Build
  <2>2. PICK n : n = Len(metrics)
    OBVIOUS
  <2>3. /\ Len(metrics') = n + 1 /\ DOMAIN metrics' = 1 .. n + 1
        /\ \A k \in 1 .. n : metrics'[k].name = metrics[k].name
        /\ metrics'[n + 1].name = plan.name
    <3>1. /\ Listed(metrics') /\ Len(metrics') = Len(metrics) + 1
          /\ \A k \in 1 .. Len(metrics) : metrics'[k] = metrics[k]
          /\ metrics'[Len(metrics) + 1] = x
      BY <2>1, Appended DEF IInv
    <3>. QED
      BY <2>1, <2>2, <3>1, ListedIsTable
  <2>4. register' = [register EXCEPT ![plan.name] = n + 1] /\ measure' = measure
    BY <1>4, <2>2, <2>3 DEF Build
  <2>5. ASSUME NEW k \in 1 .. n, NEW name, NEW m \in 0 .. n
        PROVE  LastBuilt(k, name, m)' <=> LastBuilt(k, name, m)
    <3>1. \A j \in k + 1 .. m : j \in 1 .. n
      BY <1>1, <2>2
    <3>. QED
      BY <2>3, <3>1 DEF LastBuilt
  <2>6. ASSUME NEW k \in 1 .. n, NEW name
        PROVE  LastBuilt(k, name, n + 1)' <=> LastBuilt(k, name, n) /\ name # plan.name
    <3>1. k + 1 .. n + 1 = (k + 1 .. n) \cup {n + 1} /\ \A j \in k + 1 .. n : j \in 1 .. n
      BY <1>1, <2>2
    <3>. QED
      BY <1>1, <2>2, <2>3, <3>1 DEF LastBuilt
  <2>7. ASSUME NEW name, NEW m \in 0 .. n + 1
        PROVE  LastBuilt(n + 1, name, m)' <=> m = n + 1 /\ name = plan.name
    BY <1>1, <2>2, <2>3 DEF LastBuilt
  <2>8. ASSUME NEW k \in 1 .. n + 1, NEW name \in Names
        PROVE  k = register'[name] <=> LastBuilt(k, name, n + 1)'
    <3>1. register[name] \in 0 .. n
      BY <1>2, <2>2
    <3>2. register'[name] = IF name = plan.name THEN n + 1 ELSE register[name]
      BY <1>2, <2>4
    <3>3. CASE k = n + 1
      BY <1>1, <2>2, <2>7, <3>1, <3>2, <3>3
    <3>4. CASE k \in 1 .. n
      <4>1. k = register[name] <=> LastBuilt(k, name, n)
        BY <1>1, <2>2, <3>4 DEF Targeted
      <4>. QED
        BY <1>1, <2>2, <2>6, <3>2, <3>4, <4>1
    <3>. QED
      BY <1>1, <2>2, <3>3, <3>4
  <2>9. ASSUME NEW k \in 1 .. n + 1, NEW x1 \in Measures
        PROVE  k = measure'[x1].target <=> LastBuilt(k, measure[x1].name, measure[x1].made)'
    <3>1. PICK name, m : name = measure[x1].name /\ m = measure[x1].made
      OBVIOUS
    <3>2. m \in 0 .. n /\ measure[x1].target \in 0 .. n
      BY <1>2, <2>2, <3>1 DEF MeasureRecords
    <3>3. LastBuilt(k, measure[x1].name, measure[x1].made)' <=> LastBuilt(k, name, m)'
      BY <2>4, <3>1
    <3>4. CASE k = n + 1
      BY <1>1, <2>2, <2>4, <2>7, <3>2, <3>3, <3>4
    <3>5. CASE k \in 1 .. n
      <4>1. k = measure[x1].target <=> LastBuilt(k, name, m)
        BY <1>1, <2>2, <3>1, <3>5 DEF Targeted
      <4>2. LastBuilt(k, name, m)' <=> LastBuilt(k, name, m)
        BY <2>5, <3>2, <3>5
      <4>. QED
        BY <2>4, <3>3, <4>1, <4>2
    <3>. QED
      BY <1>1, <2>2, <3>4, <3>5
  <2>. QED
    BY <2>2, <2>3, <2>8, <2>9 DEF Targeted
<1>5. ASSUME NEW k \in DOMAIN metrics, NEW kind \in LateKinds, register_aggregator(k, kind)
      PROVE  Targeted'
  <2>1. PICK y : y = [metrics[k] EXCEPT
              !.aggs  = Append(@, NewAggregator(kind, now)),
              !.since = Append(@, [received |-> Len(metrics[k].received), time |-> now])]
    OBVIOUS
  <2>2. Metric(metrics[k])
    BY <1>1 DEF IInv, Good
  <2>3. y.name = metrics[k].name
    BY <2>1, <2>2 DEF Metric
  <2>4. metrics' = [metrics EXCEPT ![k] = y] /\ UNCHANGED <<register, measure>>
    BY <1>5, <2>1 DEF register_aggregator
  <2>5. Len(metrics') = Len(metrics)
    BY <1>1, <2>4, TableIsListed
  <2>. QED
    BY <2>3, <2>4, <2>5, StoreKept DEF SameNames
<1>6. ASSUME NEW k \in DOMAIN metrics, NEW m \in Values, receive(k, m) PROVE Targeted'
  BY <1>6, ReceivesOne, StoreKept DEF receive
<1>7. ASSUME NEW x \in Measures, NEW n \in Names, MakeMeasure(x, n) PROVE Targeted'
  <2>1. /\ metrics' = metrics /\ register' = register
        /\ measure' = [measure EXCEPT ![x].name = n, ![x].target = register[n],
                                      ![x].made = Len(metrics)]
    BY <1>7 DEF MakeMeasure
  <2>2. \A z \in Measures :
           /\ z # x => measure'[z] = measure[z]
           /\ z = x => /\ measure'[z].name = n /\ measure'[z].target = register[n]
                       /\ measure'[z].made = Len(metrics)
    BY <1>2, <2>1 DEF MeasureRecords
  <2>3. ASSUME NEW k \in DOMAIN metrics, NEW name, NEW m
        PROVE  LastBuilt(k, name, m)' <=> LastBuilt(k, name, m)
    BY <2>1 DEF LastBuilt
  <2>4. ASSUME NEW k \in DOMAIN metrics, NEW name \in Names
        PROVE  k = register'[name] <=> LastBuilt(k, name, Len(metrics))'
    <3>1. k = register[name] <=> LastBuilt(k, name, Len(metrics))
      BY DEF Targeted
    <3>. QED
      BY <2>1, <3>1 DEF LastBuilt
  <2>5. ASSUME NEW k \in DOMAIN metrics, NEW z \in Measures
        PROVE  k = measure'[z].target <=> LastBuilt(k, measure[z].name, measure[z].made)'
    <3>1. PICK name, m : name = measure'[z].name /\ m = measure'[z].made
      OBVIOUS
    <3>2. k = measure'[z].target <=> LastBuilt(k, name, m)
      <4>1. CASE z = x
        BY <2>2, <3>1, <4>1 DEF Targeted
      <4>2. CASE z # x
        BY <2>2, <3>1, <4>2 DEF Targeted
      <4>. QED
        BY <4>1, <4>2
    <3>3. LastBuilt(k, measure[z].name, measure[z].made)' <=> LastBuilt(k, name, m)'
      BY <3>1
    <3>. QED
      BY <2>3, <3>2, <3>3
  <2>. QED
    BY <2>1, <2>4, <2>5 DEF Targeted
<1>8. ASSUME NEW x \in Measures, start(x) PROVE Targeted'
  <2>1. \A z \in Measures : /\ measure'[z].name = measure[z].name
                            /\ measure'[z].target = measure[z].target
                            /\ measure'[z].made = measure[z].made
    BY <1>2, <1>8 DEF start, MeasureRecords
  <2>. QED
    BY <1>3, <1>8, <2>1, StoreKept DEF start
<1>9. ASSUME NEW x \in Measures, end(x) PROVE Targeted'
  <2>1. \A z \in Measures : /\ measure'[z].name = measure[z].name
                            /\ measure'[z].target = measure[z].target
                            /\ measure'[z].made = measure[z].made
    BY <1>2, <1>9 DEF end, MeasureRecords
  <2>2. SameNames
    <3>1. measure[x].target \in 0 .. Len(metrics)
      BY <1>2 DEF MeasureRecords
    <3>2. CASE measure[x].target = 0
      BY <1>3, <1>9, <3>2 DEF end
    <3>3. CASE measure[x].target # 0
      <4>1. measure[x].target \in DOMAIN metrics
        BY <1>1, <3>1, <3>3
      <4>. QED
        BY <1>9, <3>3, <4>1, ReceivesOne DEF end
    <3>. QED
      BY <3>2, <3>3
  <2>. QED
    BY <1>9, <2>1, <2>2, StoreKept DEF end
<1>10. ASSUME NEW x \in Measures, cancel(x) PROVE Targeted'
  <2>1. \A z \in Measures : /\ measure'[z].name = measure[z].name
                            /\ measure'[z].target = measure[z].target
                            /\ measure'[z].made = measure[z].made
    BY <1>2, <1>10 DEF cancel, MeasureRecords
  <2>. QED
    BY <1>3, <1>10, <2>1, StoreKept DEF cancel
<1>11. CASE generate_stats_report \/ Tick \/ UNCHANGED vars
  <2>1. UNCHANGED <<metrics, register, measure>>
    BY <1>11 DEF generate_stats_report, Tick, vars
  <2>. QED
    BY <1>3, <2>1, StoreKept
<1>. QED
  BY <1>4, <1>5, <1>6, <1>7, <1>8, <1>9, <1>10, <1>11 DEF Next

LEMMA AlwaysTargeted == Spec => []Targeted
<1>1. IInv /\ Targeted /\ [Next]_vars => Targeted'
  BY StepIsTargeted
<1>. QED
  BY <1>1, InitIsTargeted, AlwaysGood, PTL DEF Spec

\* However many metrics of one name are built, whenever a measure is made: its
\* durations reach the metric the store held at that moment, and no other.
THEOREM MeasuresKeepTheirMetric == Spec => DurationsReachTheirMetric
<1>1. ASSUME IInv, Targeted, NEW x \in Measures, end(x), NEW k \in DOMAIN metrics
      PROVE  metrics'[k].received =
                IF LastBuilt(k, measure[x].name, measure[x].made)
                THEN Append(metrics[k].received,
                            [value |-> now - measure[x].then, time |-> now])
                ELSE metrics[k].received
  <2>1. k = measure[x].target <=> LastBuilt(k, measure[x].name, measure[x].made)
    BY <1>1 DEF Targeted
  <2>2. Len(metrics) \in Nat /\ DOMAIN metrics = 1 .. Len(metrics)
    BY <1>1, ListedIsTable DEF IInv
  <2>3. measure[x].target \in 0 .. Len(metrics)
    BY <1>1 DEF IInv, MeasureRecords
  <2>4. CASE measure[x].target = 0
    <3>1. metrics' = metrics /\ k # measure[x].target
      BY <1>1, <2>2, <2>4 DEF end
    <3>. QED
      BY <2>1, <3>1
  <2>5. CASE measure[x].target # 0
    <3>1. measure[x].target \in DOMAIN metrics
      BY <2>2, <2>3, <2>5
    <3>2. metrics' = [metrics EXCEPT ![measure[x].target] =
                         Received(@, now - measure[x].then)]
      BY <1>1, <2>5 DEF end
    <3>. QED
      BY <1>1, <2>1, <3>1, <3>2, ReceivesOne
  <2>. QED
    BY <2>4, <2>5
<1>2. IInv /\ Targeted =>
         \A x \in Measures : end(x) =>
            \A k \in DOMAIN metrics :
               metrics'[k].received =
                  IF LastBuilt(k, measure[x].name, measure[x].made)
                  THEN Append(metrics[k].received,
                              [value |-> now - measure[x].then, time |-> now])
                  ELSE metrics[k].received
  BY <1>1
<1>. QED
  BY <1>2, AlwaysGood, AlwaysTargeted, PTL DEF DurationsReachTheirMetric
=============================================================================
