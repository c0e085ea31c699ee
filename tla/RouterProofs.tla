---------------------------- MODULE RouterProofs ----------------------------
(***************************************************************************)
(* Theorems about the routes of Router, for every set of segments, methods *)
(* and targets and any number of calls.                                    *)
(*                                                                         *)
(* The inductive invariant RoutesRight says how a tree of nodes fits the   *)
(* table of what was added (TreeFits): the nodes are those on the ways of  *)
(* the routes that were not replaced, the handler of a node is that of the *)
(* last route with its keys, a parameter was given by some route, and a    *)
(* node below which a route has a parameter has one.  Node::add keeps that *)
(* for a handler (RouteAdded) and for a subtree (RoutesJoined); what       *)
(* sub_route brings to the table is told by a recursive function           *)
(* (FromRootCollects).  With it go facts about handlers and files that     *)
(* belong to a router and its table (Right).                               *)
(*                                                                         *)
(* What find does is proved by induction on the segments (WalkFollows,     *)
(* MatchedWalk, SameWalk).  The induction is over a set of numbers         *)
(* (InductionOnSet): a set that misses a number has a least number it      *)
(* misses.  Where routes do not contend, the nodes on the way of a route   *)
(* have its parameters (KeyOnTheWay), whence RoutesAreFound.  What a call  *)
(* leaves as it was (Kept) is proved with the steps; whence NoRouteIsTaken.*)
(***************************************************************************)
EXTENDS RouterSpec, SequenceTheorems, WellFoundedInduction, TLAPS

-----------------------------------------------------------------------------
(* Paths and their beginnings *)

Paths == Seq(Segments)

\* s begins with p.
Begins(p, s) == Len(p) <= Len(s) /\ \A i \in 1 .. Len(p) : p[i] = s[i]

LEMMA SubSeqIs ==
    ASSUME NEW S, NEW s \in Seq(S), NEW n \in 0 .. Len(s)
    PROVE  /\ SubSeq(s, 1, n) \in Seq(S) /\ Len(SubSeq(s, 1, n)) = n
           /\ \A i \in 1 .. n : SubSeq(s, 1, n)[i] = s[i]
<1>1. n \in Int /\ n >= 0 /\ \A i \in 1 .. n : s[i] \in S
  OBVIOUS
<1>2. /\ SubSeq(s, 1, n) \in Seq(S)
      /\ Len(SubSeq(s, 1, n)) = IF 1 <= n THEN n - 1 + 1 ELSE 0
      /\ \A i \in 1 .. n - 1 + 1 : SubSeq(s, 1, n)[i] = s[1 + i - 1]
  BY <1>1, SubSeqProperties
<1>3. n - 1 + 1 = n /\ \A i \in 1 .. n : 1 + i - 1 = i
  BY <1>1
<1> QED
  BY <1>1, <1>2, <1>3

LEMMA BeginsIsSubSeq ==
    ASSUME NEW s \in Paths, NEW p \in Paths
    PROVE  /\ Begins(p, s) => Len(p) \in 0 .. Len(s) /\ p = SubSeq(s, 1, Len(p))
           /\ \A n \in 0 .. Len(s) : p = SubSeq(s, 1, n) => Begins(p, s) /\ Len(p) = n
<1>1. Len(s) \in Nat /\ Len(p) \in Nat
  BY DEF Paths
<1>2. ASSUME Begins(p, s) PROVE p = SubSeq(s, 1, Len(p)) /\ Len(p) \in 0 .. Len(s)
  <2>1. Len(p) \in 0 .. Len(s) /\ \A i \in 1 .. Len(p) : p[i] = s[i]
    BY <1>1, <1>2 DEF Begins
  <2>2. /\ SubSeq(s, 1, Len(p)) \in Paths /\ Len(SubSeq(s, 1, Len(p))) = Len(p)
        /\ \A i \in 1 .. Len(p) : SubSeq(s, 1, Len(p))[i] = s[i]
    BY <2>1, SubSeqIs DEF Paths
  <2>3. \A i \in 1 .. Len(p) : p[i] = SubSeq(s, 1, Len(p))[i]
    BY <2>1, <2>2
  <2> QED
    BY <2>1, <2>2, <2>3, SeqEqual DEF Paths
<1>3. ASSUME NEW n \in 0 .. Len(s), p = SubSeq(s, 1, n) PROVE Begins(p, s) /\ Len(p) = n
  <2>1. Len(p) = n /\ \A i \in 1 .. n : p[i] = s[i]
    BY <1>3, SubSeqIs DEF Paths
  <2> QED
    BY <1>1, <2>1 DEF Begins
<1> QED
  BY <1>2, <1>3

LEMMA PrefixesBegin ==
    ASSUME NEW s \in Paths
    PROVE  Prefixes(s) = {p \in Paths : Begins(p, s)}
<1>1. ASSUME NEW p \in Prefixes(s) PROVE p \in Paths /\ Begins(p, s)
  <2>1. PICK n \in 0 .. Len(s) : p = SubSeq(s, 1, n)
    BY DEF Prefixes
  <2>2. p \in Paths
    BY <2>1, SubSeqIs DEF Paths
  <2> QED
    BY <2>1, <2>2, BeginsIsSubSeq
<1>2. ASSUME NEW p \in Paths, Begins(p, s) PROVE p \in Prefixes(s)
  BY <1>2, BeginsIsSubSeq DEF Prefixes
<1> QED
  BY <1>1, <1>2

LEMMA IsPrefixBegins ==
    ASSUME NEW s \in Paths, NEW p \in Paths
    PROVE  IsPrefix(p, s) <=> Begins(p, s)
<1>1. Len(p) \in Nat /\ Len(s) \in Nat /\ SubSeq(p, 1, Len(p)) = p
  BY SubSeqFull DEF Paths
<1>2. IsPrefix(p, s) <=> Len(p) <= Len(s) /\ p = SubSeq(s, 1, Len(p))
  BY <1>1 DEF IsPrefix
<1>3. Len(p) <= Len(s) => Len(p) \in 0 .. Len(s)
  BY <1>1
<1> QED
  BY <1>2, <1>3, BeginsIsSubSeq

\* What begins with what is an order of paths, and the beginnings of one path are a line.
LEMMA BeginsOrder ==
    ASSUME NEW p \in Paths, NEW q \in Paths, NEW s \in Paths
    PROVE  /\ Begins(p, p) /\ Begins(<< >>, p)
           /\ Begins(p, q) /\ Begins(q, s) => Begins(p, s)
           /\ Begins(p, q) /\ Len(p) = Len(q) => p = q
           /\ Begins(p, s) /\ Begins(q, s) /\ Len(p) <= Len(q) => Begins(p, q)
<1>1. Len(p) \in Nat /\ Len(q) \in Nat /\ Len(s) \in Nat
  BY DEF Paths
<1>2. Len(<< >>) = 0
  BY EmptySeq
<1>3. Begins(p, p) /\ Begins(<< >>, p)
  BY <1>1, <1>2 DEF Begins
<1>4. ASSUME Begins(p, q), Begins(q, s) PROVE Begins(p, s)
  BY <1>1, <1>4 DEF Begins
<1>5. ASSUME Begins(p, q), Len(p) = Len(q) PROVE p = q
  BY <1>5, SeqEqual DEF Begins, Paths
<1>6. ASSUME Begins(p, s), Begins(q, s), Len(p) <= Len(q) PROVE Begins(p, q)
  BY <1>1, <1>6 DEF Begins
<1> QED
  BY <1>3, <1>4, <1>5, <1>6

LEMMA EmptyPath == << >> \in Paths /\ Len(<< >>) = 0 /\ \A p \in Paths : Len(p) = 0 => p = << >>
BY EmptySeq DEF Paths

-----------------------------------------------------------------------------
(* Pieces and keys *)

LEMMA KeysAreNames ==
    ASSUME NEW w \in Seq(Pieces)
    PROVE  /\ Keys(w) \in Paths /\ Len(Keys(w)) = Len(w) /\ DOMAIN w = 1 .. Len(w)
           /\ Len(w) \in Nat
           /\ \A i \in 1 .. Len(w) : Keys(w)[i] = w[i].name /\ w[i] \in Pieces
<1>1. Len(w) \in Nat /\ DOMAIN w = 1 .. Len(w) /\ \A i \in 1 .. Len(w) : w[i] \in Pieces
  BY LenProperties
<1>2. \A i \in 1 .. Len(w) : w[i].name \in Segments
  BY <1>1 DEF Pieces
<1>3. Keys(w) = [i \in 1 .. Len(w) |-> w[i].name]
  BY <1>1 DEF Keys
<1>4. Keys(w) \in [1 .. Len(w) -> Segments]
  BY <1>2, <1>3
<1>5. Keys(w) \in Paths
  BY <1>1, <1>4, SeqDef DEF Paths
<1>6. DOMAIN Keys(w) = 1 .. Len(w) /\ DOMAIN Keys(w) = 1 .. Len(Keys(w))
  BY <1>3, <1>5, LenProperties DEF Paths
<1>7. Len(Keys(w)) = Len(w)
  BY <1>1, <1>5, <1>6 DEF Paths
<1> QED
  BY <1>1, <1>3, <1>5, <1>7

\* The keys of the first n pieces are the first n keys.
LEMMA KeysOfSubSeq ==
    ASSUME NEW w \in Seq(Pieces), NEW n \in 0 .. Len(w)
    PROVE  Keys(SubSeq(w, 1, n)) = SubSeq(Keys(w), 1, n)
<1>1. /\ SubSeq(w, 1, n) \in Seq(Pieces) /\ Len(SubSeq(w, 1, n)) = n
      /\ \A i \in 1 .. n : SubSeq(w, 1, n)[i] = w[i]
  BY SubSeqIs
<1>2. Keys(w) \in Paths /\ Len(Keys(w)) = Len(w) /\ \A i \in 1 .. Len(w) : Keys(w)[i] = w[i].name
  BY KeysAreNames
<1>3. /\ SubSeq(Keys(w), 1, n) \in Paths /\ Len(SubSeq(Keys(w), 1, n)) = n
      /\ \A i \in 1 .. n : SubSeq(Keys(w), 1, n)[i] = Keys(w)[i]
  BY <1>2, SubSeqIs DEF Paths
<1>4. /\ Keys(SubSeq(w, 1, n)) \in Paths /\ Len(Keys(SubSeq(w, 1, n))) = n
      /\ \A i \in 1 .. n : Keys(SubSeq(w, 1, n))[i] = SubSeq(w, 1, n)[i].name
  BY <1>1, KeysAreNames
<1>5. \A i \in 1 .. n : Keys(SubSeq(w, 1, n))[i] = SubSeq(Keys(w), 1, n)[i]
  BY <1>1, <1>2, <1>3, <1>4
<1> QED
  BY <1>3, <1>4, <1>5, SeqEqual DEF Paths

LEMMA WalkedIsShorter ==
    ASSUME NEW S, NEW s \in Seq(S), Len(s) # 0, NEW slash
    PROVE  /\ Walked(s, slash) \in Seq(S) /\ Len(Walked(s, slash)) <= Len(s)
           /\ Len(s) - 1 <= Len(Walked(s, slash))
           /\ \A i \in 1 .. Len(Walked(s, slash)) : Walked(s, slash)[i] = s[i]
           /\ s[Len(s)] # slash => Walked(s, slash) = s
<1>1. Len(s) \in Nat \ {0} /\ Len(s) - 1 \in 0 .. Len(s)
  OBVIOUS
<1>2. CASE s[Len(s)] = slash
  <2>1. Walked(s, slash) = SubSeq(s, 1, Len(s) - 1)
    BY <1>2 DEF Walked, Last, Front
  <2> QED
    BY <1>1, <1>2, <2>1, SubSeqIs
<1>3. CASE s[Len(s)] # slash
  <2>1. Walked(s, slash) = s
    BY <1>3 DEF Walked, Last
  <2> QED
    BY <1>1, <2>1
<1> QED
  BY <1>2, <1>3

LEMMA TargetsAreLong ==
    ASSUME NEW target \in Targets
    PROVE  target \in Seq(Pieces) /\ Len(target) \in Nat \ {0}
BY EmptySeq DEF Targets

LEMMA FixedIsPiece == Fixed("") \in Pieces /\ Fixed("").name = "" /\ Fixed("").param = FALSE
<1>1. "" \in Segments
  BY SegmentsAssumption
<1>2. Fixed("") = [name |-> "", param |-> FALSE]
  BY DEF Fixed
<1>3. [name |-> "", param |-> FALSE] \in [name : Segments, param : BOOLEAN]
  BY <1>1, Zenon
<1>4. Fixed("") \in Pieces
  BY <1>2, <1>3 DEF Pieces
<1>5. \A x : Fixed(x).name = x
  BY DEF Fixed
<1>6. \A x : Fixed(x).param = FALSE
  BY DEF Fixed
<1> QED
  BY <1>4, <1>5, <1>6

\* A route that is accepted leads somewhere.
LEMMA WalkedTarget ==
    ASSUME NEW target \in Targets, Accepts(target)
    PROVE  Walked(target, Fixed("")) \in Targets
<1>1. target \in Seq(Pieces) /\ Len(target) \in Nat \ {0}
  BY TargetsAreLong
<1>2. PICK slash, w : slash = Fixed("") /\ w = Walked(target, slash)
  OBVIOUS
<1>3. w \in Seq(Pieces) /\ Len(target) - 1 <= Len(w)
      /\ (target[Len(target)] # slash => w = target)
  BY <1>1, <1>2, WalkedIsShorter
<1>4. CASE Len(target) = 1
  <2>1. ASSUME target[1] = slash PROVE FALSE
    <3>1. target = <<slash>>
      BY <1>1, <1>4, <2>1
    <3> QED
      BY <1>2, <3>1 DEF Accepts
  <2>2. w = target
    BY <1>3, <1>4, <2>1
  <2> QED
    BY <1>2, <2>2
<1>5. CASE Len(target) # 1
  <2>1. Len(w) \in Nat /\ Len(w) # 0
    <3>1. PICK m, n : m = Len(w) /\ n = Len(target)
      OBVIOUS
    <3>2. m \in Nat /\ n - 1 <= m /\ n \in Nat \ {0} /\ n # 1
      BY <1>1, <1>3, <1>5, <3>1
    <3>3. m # 0
      BY <3>2
    <3> QED
      BY <3>1, <3>2, <3>3
  <2> QED
    BY <1>2, <1>3, <2>1, EmptySeq DEF Targets
<1> QED
  BY <1>4, <1>5

LEMMA WayOfPrefix ==
    ASSUME NEW prefix \in Targets
    PROVE  Way(prefix) \in Targets
<1>1. prefix \in Seq(Pieces) /\ Len(prefix) \in Nat \ {0}
  BY TargetsAreLong
<1>2. CASE Len(prefix) = 1
  BY <1>2 DEF Way
<1>3. CASE Len(prefix) # 1
  <2>1. PICK slash, w : slash = Fixed("") /\ w = Walked(prefix, slash)
    OBVIOUS
  <2>2. w \in Seq(Pieces) /\ Len(prefix) - 1 <= Len(w)
    BY <1>1, <2>1, WalkedIsShorter
  <2>3. Len(w) \in Nat /\ Len(w) # 0
    <3>1. PICK m, n : m = Len(w) /\ n = Len(prefix)
      OBVIOUS
    <3>2. m \in Nat /\ n - 1 <= m /\ n \in Nat \ {0} /\ n # 1
      BY <1>1, <1>3, <2>2, <3>1
    <3>3. m # 0
      BY <3>2
    <3> QED
      BY <3>1, <3>2, <3>3
  <2>4. w \in Targets
    BY <2>2, <2>3, EmptySeq DEF Targets
  <2> QED
    BY <1>3, <2>1, <2>4 DEF Way
<1> QED
  BY <1>2, <1>3

-----------------------------------------------------------------------------
(* Paths that are joined *)

LEMMA Joined ==
    ASSUME NEW p \in Paths, NEW q \in Paths
    PROVE  /\ p \o q \in Paths /\ Len(p \o q) = Len(p) + Len(q) /\ Begins(p, p \o q)
           /\ \A i \in 1 .. Len(p) : (p \o q)[i] = p[i]
           /\ \A i \in 1 .. Len(q) : (p \o q)[Len(p) + i] = q[i]
           /\ SubSeq(p \o q, Len(p) + 1, Len(p \o q)) = q
<1>1. PICK m, n, r : m = Len(p) /\ n = Len(q) /\ r = p \o q
  OBVIOUS
<1>2. m \in Nat /\ n \in Nat
  BY <1>1 DEF Paths
<1>3. /\ r \in Paths /\ Len(r) = m + n
      /\ \A i \in 1 .. m + n : r[i] = IF i <= m THEN p[i] ELSE q[i - m]
  BY <1>1, ConcatProperties DEF Paths
<1>4. \A i \in 1 .. m : r[i] = p[i]
  BY <1>2, <1>3
<1>5. ASSUME NEW i \in 1 .. n PROVE r[m + i] = q[i]
  <2>1. m + i \in 1 .. m + n /\ ~(m + i <= m) /\ (m + i) - m = i
    BY <1>2
  <2> QED
    BY <1>3, <2>1
<1>6. Begins(p, r)
  BY <1>1, <1>2, <1>3, <1>4 DEF Begins
<1>7. SubSeq(r, m + 1, m + n) = q
  <2>1. m + 1 \in Int /\ m + n \in Int /\ \A i \in m + 1 .. m + n : r[i] \in Segments
    <3>1. \A i \in 1 .. m + n : r[i] \in Segments
      BY <1>3 DEF Paths
    <3> QED
      BY <1>2, <3>1
  <2>2. PICK t : t = SubSeq(r, m + 1, m + n)
    OBVIOUS
  <2>3. /\ t \in Paths
        /\ Len(t) = IF m + 1 <= m + n THEN m + n - (m + 1) + 1 ELSE 0
        /\ \A i \in 1 .. m + n - (m + 1) + 1 : t[i] = r[m + 1 + i - 1]
    <3>1. PICK a, b : a = m + 1 /\ b = m + n
      OBVIOUS
    <3>2. a \in Int /\ b \in Int /\ \A i \in a .. b : r[i] \in Segments
      BY <2>1, <3>1
    <3>3. t = SubSeq(r, a, b)
      BY <2>2, <3>1
    <3>4. /\ t \in Seq(Segments) /\ Len(t) = IF a <= b THEN b - a + 1 ELSE 0
          /\ \A i \in 1 .. b - a + 1 : t[i] = r[a + i - 1]
      BY <3>2, <3>3, SubSeqProperties
    <3> QED
      BY <1>2, <3>1, <3>4 DEF Paths
  <2>4. Len(t) = n
    BY <1>2, <2>3
  <2>5. ASSUME NEW i \in 1 .. n PROVE t[i] = q[i]
    <3>1. i \in 1 .. m + n - (m + 1) + 1 /\ m + 1 + i - 1 = m + i
      BY <1>2
    <3> QED
      BY <1>5, <2>3, <3>1
  <2> QED
    BY <1>1, <2>2, <2>3, <2>4, <2>5, SeqEqual DEF Paths
<1> QED
  BY <1>1, <1>3, <1>4, <1>5, <1>6, <1>7

\* What begins with p is p and something behind it.
LEMMA Parted ==
    ASSUME NEW p \in Paths, NEW r \in Paths, Begins(p, r)
    PROVE  \E q \in Paths : r = p \o q
<1>1. PICK m, n : m = Len(p) /\ n = Len(r)
  OBVIOUS
<1>2. m \in Nat /\ n \in Nat /\ m <= n
  BY <1>1 DEF Paths, Begins
<1>3. PICK q : q = SubSeq(r, m + 1, n)
  OBVIOUS
<1>4. \A i \in m + 1 .. n : r[i] \in Segments
  BY <1>1, <1>2 DEF Paths
<1>5. /\ q \in Paths
      /\ Len(q) = IF m + 1 <= n THEN n - (m + 1) + 1 ELSE 0
      /\ \A i \in 1 .. n - (m + 1) + 1 : q[i] = r[m + 1 + i - 1]
  <2>1. m + 1 \in Int /\ n \in Int
    BY <1>2
  <2> QED
    BY <1>3, <1>4, <2>1, SubSeqProperties DEF Paths
<1>6. Len(q) = n - m
  BY <1>2, <1>5
<1>7. PICK s : s = p \o q
  OBVIOUS
<1>8. s \in Paths /\ Len(s) = m + Len(q)
      /\ (\A i \in 1 .. m : s[i] = p[i]) /\ \A i \in 1 .. Len(q) : s[m + i] = q[i]
  BY <1>1, <1>5, <1>7, Joined
<1>9. Len(s) = n
  BY <1>2, <1>6, <1>8
<1>10. ASSUME NEW i \in 1 .. n PROVE s[i] = r[i]
  <2>1. CASE i <= m
    <3>1. i \in 1 .. m
      BY <1>2, <2>1
    <3> QED
      BY <1>1, <1>8, <3>1 DEF Begins
  <2>2. CASE i > m
    <3>1. PICK k : k = i - m
      OBVIOUS
    <3>2. k \in 1 .. n - m /\ m + k = i /\ k \in 1 .. n - (m + 1) + 1 /\ m + 1 + k - 1 = i
      BY <1>2, <2>2, <3>1
    <3> QED
      BY <1>5, <1>6, <1>8, <3>2
  <2> QED
    BY <1>2, <2>1, <2>2
<1>11. s = r
  BY <1>1, <1>8, <1>9, <1>10, SeqEqual DEF Paths
<1> QED
  BY <1>5, <1>7, <1>11

LEMMA JoinedOrder ==
    ASSUME NEW p \in Paths, NEW q \in Paths, NEW r \in Paths
    PROVE  /\ Begins(p \o q, p \o r) <=> Begins(q, r)
           /\ p \o q = p \o r => q = r
<1>1. PICK k, m, n, s, t : k = Len(p) /\ m = Len(q) /\ n = Len(r) /\ s = p \o q /\ t = p \o r
  OBVIOUS
<1>2. k \in Nat /\ m \in Nat /\ n \in Nat
  BY <1>1 DEF Paths
<1>3. /\ s \in Paths /\ Len(s) = k + m
      /\ (\A i \in 1 .. k : s[i] = p[i]) /\ \A i \in 1 .. m : s[k + i] = q[i]
  BY <1>1, Joined
<1>4. /\ t \in Paths /\ Len(t) = k + n
      /\ (\A i \in 1 .. k : t[i] = p[i]) /\ \A i \in 1 .. n : t[k + i] = r[i]
  BY <1>1, Joined
<1>5. ASSUME Begins(s, t) PROVE Begins(q, r)
  <2>1. m <= n /\ \A i \in 1 .. k + m : s[i] = t[i]
    BY <1>2, <1>3, <1>4, <1>5 DEF Begins
  <2>2. ASSUME NEW i \in 1 .. m PROVE q[i] = r[i]
    <3>1. i \in 1 .. n /\ k + i \in 1 .. k + m
      BY <1>2, <2>1
    <3> QED
      BY <1>3, <1>4, <2>1, <3>1
  <2> QED
    BY <1>1, <2>1, <2>2 DEF Begins
<1>6. ASSUME Begins(q, r) PROVE Begins(s, t)
  <2>1. m <= n /\ \A i \in 1 .. m : q[i] = r[i]
    BY <1>1, <1>6 DEF Begins
  <2>2. ASSUME NEW i \in 1 .. k + m PROVE s[i] = t[i]
    <3>1. CASE i <= k
      <4>1. i \in 1 .. k
        BY <1>2, <3>1
      <4> QED
        BY <1>3, <1>4, <4>1
    <3>2. CASE i > k
      <4>1. PICK j : j = i - k
        OBVIOUS
      <4>2. j \in 1 .. m /\ j \in 1 .. n /\ k + j = i
        BY <1>2, <2>1, <3>2, <4>1
      <4> QED
        BY <1>3, <1>4, <2>1, <4>2
    <3> QED
      BY <1>2, <3>1, <3>2
  <2>3. k + m <= k + n
    BY <1>2, <2>1
  <2> QED
    BY <1>3, <1>4, <2>2, <2>3 DEF Begins
<1>7. ASSUME s = t PROVE q = r
  <2>1. m = n
    BY <1>2, <1>3, <1>4, <1>7
  <2>2. Begins(q, r)
    BY <1>3, <1>5, <1>7, BeginsOrder
  <2> QED
    BY <1>1, <2>1, <2>2, BeginsOrder
<1> QED
  BY <1>1, <1>5, <1>6, <1>7

LEMMA JoinedAppend ==
    ASSUME NEW p \in Paths, NEW q \in Paths, NEW x \in Segments
    PROVE  p \o Append(q, x) = Append(p \o q, x)
<1>1. <<x>> \in Paths
  BY DEF Paths
<1>2. Append(q, x) = q \o <<x>>
  BY AppendIsConcat DEF Paths
<1>3. Append(p \o q, x) = (p \o q) \o <<x>>
  BY Joined, AppendIsConcat DEF Paths
<1> QED
  BY <1>1, <1>2, <1>3, ConcatAssociative DEF Paths

\* The path to a child begins with the path to its parent.
LEMMA AppendedPath ==
    ASSUME NEW p \in Paths, NEW x \in Segments
    PROVE  /\ Append(p, x) \in Paths /\ Len(Append(p, x)) = Len(p) + 1 /\ Begins(p, Append(p, x))
           /\ Append(p, x)[Len(p) + 1] = x
           /\ \A i \in 1 .. Len(p) : Append(p, x)[i] = p[i]
           /\ \A s \in Paths : Begins(Append(p, x), s) <=>
                Begins(p, s) /\ Len(p) < Len(s) /\ s[Len(p) + 1] = x
<1>1. PICK n, q : n = Len(p) /\ q = Append(p, x)
  OBVIOUS
<1>2. n \in Nat
  BY <1>1 DEF Paths
<1>3. q \in Paths /\ Len(q) = n + 1 /\ q[n + 1] = x /\ \A i \in 1 .. n : q[i] = p[i]
  BY <1>1, AppendProperties DEF Paths
<1>4. Begins(p, q)
  BY <1>1, <1>2, <1>3 DEF Begins
<1>5. ASSUME NEW s \in Paths, Begins(q, s) PROVE Begins(p, s) /\ n < Len(s) /\ s[n + 1] = x
  <2>1. n + 1 <= Len(s) /\ Len(s) \in Nat /\ \A i \in 1 .. n + 1 : q[i] = s[i]
    BY <1>3, <1>5 DEF Begins, Paths
  <2>2. n < Len(s) /\ n + 1 \in 1 .. n + 1
    BY <1>2, <2>1
  <2>3. Begins(p, s)
    BY <1>3, <1>4, <1>5, BeginsOrder
  <2> QED
    BY <1>3, <2>1, <2>2, <2>3
<1>6. ASSUME NEW s \in Paths, Begins(p, s), n < Len(s), s[n + 1] = x PROVE Begins(q, s)
  <2>1. Len(s) \in Nat /\ n + 1 <= Len(s) /\ \A i \in 1 .. n : p[i] = s[i]
    BY <1>1, <1>2, <1>6 DEF Begins, Paths
  <2>2. ASSUME NEW i \in 1 .. n + 1 PROVE q[i] = s[i]
    <3>1. i \in 1 .. n \/ i = n + 1
      BY <1>2
    <3> QED
      BY <1>3, <1>6, <2>1, <3>1
  <2> QED
    BY <1>3, <2>1, <2>2 DEF Begins
<1> QED
  BY <1>1, <1>3, <1>4, <1>5, <1>6

-----------------------------------------------------------------------------
(* Trees *)

Nodes == [handler : Handlers \cup {None}, parameter : Segments]

NodesTyped(tree) ==
    DOMAIN tree \subseteq Paths /\ \A p \in DOMAIN tree : tree[p] \in Nodes

\* No node is without its parent, and a parameter has a node.
Tree(tree) ==
    /\ NodesTyped(tree)
    /\ << >> \in DOMAIN tree
    /\ \A p \in DOMAIN tree, q \in Paths : Begins(q, p) => q \in DOMAIN tree
    /\ \A p \in DOMAIN tree :
         tree[p].parameter # "" => Append(p, tree[p].parameter) \in DOMAIN tree

LEMMA NodeFields ==
    ASSUME NEW node \in Nodes
    PROVE  node.handler \in Handlers \cup {None} /\ node.parameter \in Segments
BY DEF Nodes

LEMMA NodeWithParameter ==
    ASSUME NEW node \in Nodes, NEW x \in Segments
    PROVE  /\ [node EXCEPT !.parameter = x] \in Nodes
           /\ [node EXCEPT !.parameter = x].parameter = x
           /\ [node EXCEPT !.parameter = x].handler = node.handler
BY DEF Nodes

LEMMA NodeWithHandler ==
    ASSUME NEW node \in Nodes, NEW h \in Handlers
    PROVE  /\ [node EXCEPT !.handler = h] \in Nodes
           /\ [node EXCEPT !.handler = h].handler = h
           /\ [node EXCEPT !.handler = h].parameter = node.parameter
BY DEF Nodes

LEMMA NewNodeIsNode == NewNode \in Nodes /\ NewNode.handler = None /\ NewNode.parameter = ""
<1>1. PICK x \in Segments : x = ""
  BY SegmentsAssumption
<1>2. NewNode = [handler |-> None, parameter |-> x]
  BY <1>1 DEF NewNode
<1> QED
  BY <1>1, <1>2 DEF Nodes

LEMMA EmptyTreeIsTree ==
    /\ Tree(EmptyTree) /\ DOMAIN EmptyTree = {<< >>} /\ EmptyTree[<< >>] = NewNode
<1>1. DOMAIN EmptyTree = {<< >>} /\ EmptyTree[<< >>] = NewNode
  BY DEF EmptyTree
<1>2. << >> \in Paths /\ Len(<< >>) = 0
  BY EmptyPath
<1>3. NodesTyped(EmptyTree)
  BY <1>1, <1>2, NewNodeIsNode DEF NodesTyped
<1>4. ASSUME NEW q \in Paths, Begins(q, << >>) PROVE q = << >>
  <2>1. Len(q) \in Nat /\ Len(q) <= 0
    BY <1>2, <1>4 DEF Begins, Paths
  <2>2. Len(q) = 0
    BY <2>1
  <2> QED
    BY <2>2, EmptyPath
<1> QED
  BY <1>1, <1>3, <1>4, NewNodeIsNode DEF Tree

\* The pieces w give the node at p a parameter.
Gives(w, p) == Begins(p, Keys(w)) /\ Len(p) < Len(w) /\ w[Len(p) + 1].param

\* g is the tree with the nodes along the pieces w, whose handlers are as they were.
GrownInto(g, tree, w) ==
    /\ DOMAIN g = DOMAIN tree \cup {p \in Paths : Begins(p, Keys(w))}
    /\ NodesTyped(g)
    /\ \A p \in DOMAIN g :
         /\ g[p].handler = IF p \in DOMAIN tree THEN tree[p].handler ELSE None
         /\ g[p].parameter = IF Gives(w, p) THEN w[Len(p) + 1].name
                             ELSE IF p \in DOMAIN tree THEN tree[p].parameter ELSE ""

LEMMA GrownNodes ==
    ASSUME NEW tree, NodesTyped(tree), NEW w \in Seq(Pieces)
    PROVE  GrownInto(Grown(tree, w), tree, w)
<1>1. PICK g, keys, way : g = Grown(tree, w) /\ keys = Keys(w) /\ way = Prefixes(keys)
  OBVIOUS
<1>2. /\ keys \in Paths /\ Len(keys) = Len(w) /\ Len(w) \in Nat
      /\ \A i \in 1 .. Len(w) : keys[i] = w[i].name /\ w[i] \in Pieces
  BY <1>1, KeysAreNames
<1>3. way = {p \in Paths : Begins(p, keys)}
  BY <1>1, <1>2, PrefixesBegin
<1>4. g = [p \in DOMAIN tree \cup way |->
            LET node == IF p \in DOMAIN tree THEN tree[p] ELSE NewNode
            IN  IF p \in way \ {keys} /\ w[Len(p) + 1].param
                THEN [node EXCEPT !.parameter = keys[Len(p) + 1]] ELSE node]
  BY <1>1 DEF Grown
<1>5. DOMAIN g = DOMAIN tree \cup way /\ DOMAIN g \subseteq Paths
  BY <1>3, <1>4 DEF NodesTyped
<1>6. ASSUME NEW p \in DOMAIN g
      PROVE  /\ g[p] \in Nodes
             /\ g[p].handler = IF p \in DOMAIN tree THEN tree[p].handler ELSE None
             /\ g[p].parameter = IF Gives(w, p) THEN w[Len(p) + 1].name
                                 ELSE IF p \in DOMAIN tree THEN tree[p].parameter ELSE ""
  <2>1. PICK node : node = IF p \in DOMAIN tree THEN tree[p] ELSE NewNode
    OBVIOUS
  <2>2. /\ node \in Nodes
        /\ node.handler = IF p \in DOMAIN tree THEN tree[p].handler ELSE None
        /\ node.parameter = IF p \in DOMAIN tree THEN tree[p].parameter ELSE ""
    BY <2>1, NewNodeIsNode DEF NodesTyped
  <2>3. p \in way \ {keys} <=> Begins(p, keys) /\ Len(p) < Len(w)
    <3>1. p \in Paths /\ Len(p) \in Nat
      BY <1>5 DEF Paths
    <3>2. Begins(p, keys) => Len(p) <= Len(w)
      BY <1>2 DEF Begins
    <3>3. Begins(p, keys) => (Len(p) = Len(w) <=> p = keys)
      BY <1>2, <3>1, BeginsOrder
    <3> QED
      BY <1>2, <1>3, <3>1, <3>2, <3>3
  <2>4. p \in way \ {keys} /\ w[Len(p) + 1].param <=> Gives(w, p)
    BY <1>1, <2>3 DEF Gives
  <2>5. g[p] = IF p \in way \ {keys} /\ w[Len(p) + 1].param
               THEN [node EXCEPT !.parameter = keys[Len(p) + 1]] ELSE node
    BY <1>4, <1>5, <2>1
  <2>6. CASE Gives(w, p)
    <3>1. Len(p) + 1 \in 1 .. Len(w)
      BY <1>2, <1>5, <2>6 DEF Gives, Paths
    <3>2. keys[Len(p) + 1] = w[Len(p) + 1].name /\ keys[Len(p) + 1] \in Segments
      BY <1>2, <3>1 DEF Paths
    <3>3. PICK x \in Segments : x = keys[Len(p) + 1] /\ x = w[Len(p) + 1].name
      BY <3>2
    <3>4. PICK y : y = [node EXCEPT !.parameter = x]
      OBVIOUS
    <3>5. g[p] = y
      BY <2>4, <2>5, <2>6, <3>3, <3>4, Zenon
    <3>6. y \in Nodes /\ y.parameter = x /\ y.handler = node.handler
      BY <2>2, <3>4, NodeWithParameter, Zenon
    <3> QED
      BY <2>2, <2>6, <3>3, <3>5, <3>6
  <2>7. CASE ~Gives(w, p)
    BY <2>2, <2>4, <2>5, <2>7
  <2> QED
    BY <2>6, <2>7
<1>7. GrownInto(g, tree, w)
  BY <1>1, <1>3, <1>5, <1>6 DEF NodesTyped, GrownInto
<1> QED
  BY <1>1, <1>7

LEMMA GrownIsTree ==
    ASSUME NEW tree, Tree(tree), NEW w \in Seq(Pieces)
    PROVE  Tree(Grown(tree, w)) /\ Keys(w) \in DOMAIN Grown(tree, w)
<1>1. PICK g : g = Grown(tree, w)
  OBVIOUS
<1>2. PICK keys : keys = Keys(w)
  OBVIOUS
<1>3. /\ keys \in Paths /\ Len(keys) = Len(w) /\ Len(w) \in Nat
      /\ \A i \in 1 .. Len(w) : keys[i] = w[i].name /\ w[i] \in Pieces
  BY <1>2, KeysAreNames
<1>4. /\ DOMAIN g = DOMAIN tree \cup {p \in Paths : Begins(p, keys)}
      /\ NodesTyped(g)
      /\ \A p \in DOMAIN g :
            g[p].parameter = IF Gives(w, p) THEN w[Len(p) + 1].name
                             ELSE IF p \in DOMAIN tree THEN tree[p].parameter ELSE ""
  <2>1. NodesTyped(tree)
    BY DEF Tree
  <2>2. GrownInto(g, tree, w)
    BY <1>1, <2>1, GrownNodes
  <2> QED
    BY <1>2, <2>2 DEF GrownInto
<1>5. << >> \in DOMAIN g /\ keys \in DOMAIN g
  BY <1>3, <1>4, BeginsOrder DEF Tree
<1>6. ASSUME NEW p \in DOMAIN g, NEW q \in Paths, Begins(q, p) PROVE q \in DOMAIN g
  <2>1. CASE p \in DOMAIN tree
    BY <1>4, <1>6, <2>1 DEF Tree
  <2>2. CASE p \in Paths /\ Begins(p, keys)
    BY <1>3, <1>4, <1>6, <2>2, BeginsOrder
  <2> QED
    BY <1>4, <2>1, <2>2
<1>7. ASSUME NEW p \in DOMAIN g, g[p].parameter # "" PROVE Append(p, g[p].parameter) \in DOMAIN g
  <2>1. p \in Paths /\ g[p].parameter \in Segments
    BY <1>4, NodeFields DEF NodesTyped
  <2>2. CASE Gives(w, p)
    <3>1. Begins(p, keys) /\ Len(p) < Len(w)
      BY <1>2, <2>2 DEF Gives
    <3>2. Len(p) + 1 \in 1 .. Len(w)
      BY <1>3, <2>1, <3>1 DEF Paths
    <3>3. g[p].parameter = keys[Len(p) + 1]
      BY <1>3, <1>4, <2>2, <3>2
    <3>4. Append(p, g[p].parameter) \in Paths /\ Begins(Append(p, g[p].parameter), keys)
      BY <1>3, <2>1, <3>1, <3>3, AppendedPath
    <3> QED
      BY <1>4, <3>4
  <2>3. CASE ~Gives(w, p)
    BY <1>4, <1>7, <2>3 DEF Tree
  <2> QED
    BY <2>2, <2>3
<1> QED
  BY <1>1, <1>2, <1>4, <1>5, <1>6, <1>7 DEF Tree

\* a is the tree with a route along the pieces w to the handler h.
HandlerAdded(a, tree, w, h) ==
    /\ DOMAIN a = DOMAIN tree \cup {p \in Paths : Begins(p, Keys(w))}
    /\ \A p \in DOMAIN a :
         /\ a[p].handler = IF p = Keys(w) THEN h
                           ELSE IF p \in DOMAIN tree THEN tree[p].handler ELSE None
         /\ a[p].parameter = IF Gives(w, p) THEN w[Len(p) + 1].name
                             ELSE IF p \in DOMAIN tree THEN tree[p].parameter ELSE ""

LEMMA AddHandlerNodes ==
    ASSUME NEW tree, Tree(tree), NEW target \in Targets, NEW h \in Handlers, Accepts(target)
    PROVE  /\ Tree(AddHandler(tree, target, h))
           /\ HandlerAdded(AddHandler(tree, target, h), tree, Walked(target, Fixed("")), h)
<1>1. PICK w, a : w = Walked(target, Fixed("")) /\ a = AddHandler(tree, target, h)
  OBVIOUS
<1>2. w \in Seq(Pieces)
  BY <1>1, WalkedTarget, TargetsAreLong
<1>3. PICK g, keys : g = Grown(tree, w) /\ keys = Keys(w)
  OBVIOUS
<1>4. Tree(g) /\ keys \in DOMAIN g
  BY <1>2, <1>3, GrownIsTree
<1>5. a = [g EXCEPT ![keys].handler = h]
  BY <1>1, <1>3 DEF AddHandler
<1>6. /\ DOMAIN a = DOMAIN g
      /\ \A p \in DOMAIN g : p # keys => a[p] = g[p]
  BY <1>5, Zenon
<1>7. \A p \in DOMAIN g : g[p] \in Nodes
  BY <1>4 DEF Tree, NodesTyped
<1>8. \A p \in DOMAIN g : /\ a[p] \in Nodes
                          /\ a[p].handler = IF p = keys THEN h ELSE g[p].handler
                          /\ a[p].parameter = g[p].parameter
  <2> TAKE p \in DOMAIN g
  <2>1. CASE p = keys
    <3>1. PICK y : y = [g[keys] EXCEPT !.handler = h]
      OBVIOUS
    <3>2. a[p] = y
      BY <1>4, <1>5, <2>1, <3>1, Zenon
    <3>3. g[keys] \in Nodes
      BY <1>4, <1>7
    <3>4. y \in Nodes /\ y.handler = h /\ y.parameter = g[keys].parameter
      BY <3>1, <3>3, NodeWithHandler, Zenon
    <3> QED
      BY <2>1, <3>2, <3>4
  <2>2. CASE p # keys
    BY <1>6, <1>7, <2>2
  <2> QED
    BY <2>1, <2>2
<1>9. Tree(a)
  BY <1>4, <1>6, <1>8 DEF Tree, NodesTyped
<1>10. GrownInto(g, tree, w)
  BY <1>2, <1>3, GrownNodes DEF Tree
<1>11. HandlerAdded(a, tree, w, h)
  BY <1>3, <1>6, <1>8, <1>10 DEF HandlerAdded, GrownInto
<1> QED
  BY <1>1, <1>9, <1>11

Root == <<"">>

LEMMA RootPath == Root \in Paths /\ Len(Root) = 1 /\ Root[1] = ""
<1>1. PICK x \in Segments : x = ""
  BY SegmentsAssumption
<1>2. <<x>> \in Paths /\ Len(<<x>>) = 1 /\ <<x>>[1] = x
  BY DEF Paths
<1>3. Root = <<x>>
  BY <1>1 DEF Root
<1> QED
  BY <1>1, <1>2, <1>3

\* What is below the root "".
SubtreeOf(s, tree) ==
    /\ DOMAIN s = {p \in Paths : Root \o p \in DOMAIN tree}
    /\ \A p \in DOMAIN s : s[p] = tree[Root \o p]

LEMMA SubtreeNodes ==
    ASSUME NEW tree, Tree(tree), Root \in DOMAIN tree
    PROVE  Tree(Subtree(tree, "")) /\ SubtreeOf(Subtree(tree, ""), tree)
<1>1. PICK e, s, r : e = "" /\ s = Subtree(tree, "") /\ r = Root
  OBVIOUS
<1>2. r \in Paths /\ Len(r) = 1 /\ r[1] = e /\ r \in DOMAIN tree
  BY <1>1, RootPath
<1>3. PICK D : D = {Tail(p) : p \in {q \in DOMAIN tree : q # << >> /\ q[1] = e}}
  OBVIOUS
<1>4. s = [p \in D |-> tree[r \o p]]
  BY <1>1, <1>3, Zenon DEF Subtree, Root
<1>5. D = {p \in Paths : r \o p \in DOMAIN tree}
  <2>1. ASSUME NEW q \in DOMAIN tree, q # << >>, q[1] = e
        PROVE  Tail(q) \in Paths /\ r \o Tail(q) = q
    <3>1. q \in Paths /\ Len(q) \in Nat \ {0}
      BY <2>1, EmptySeq DEF Tree, NodesTyped, Paths
    <3>2. Begins(r, q)
      BY <1>2, <2>1, <3>1 DEF Begins
    <3>3. PICK p \in Paths : q = r \o p
      BY <1>2, <3>1, <3>2, Parted
    <3>4. /\ Tail(q) \in Paths /\ Len(Tail(q)) = Len(q) - 1
          /\ \A i \in 1 .. Len(Tail(q)) : Tail(q)[i] = q[i + 1]
      BY <2>1, <3>1, HeadTailProperties DEF Paths
    <3>5. Len(q) = Len(r) + Len(p) /\ \A i \in 1 .. Len(p) : q[Len(r) + i] = p[i]
      BY <1>2, <3>3, Joined
    <3>6. PICK n : n = Len(p)
      OBVIOUS
    <3>7. n \in Nat /\ Len(q) = 1 + n /\ Len(Tail(q)) = (1 + n) - 1
      BY <1>2, <3>4, <3>5, <3>6 DEF Paths
    <3>8. Len(Tail(q)) = n
      BY <3>7
    <3>10. ASSUME NEW i \in 1 .. n PROVE Tail(q)[i] = p[i]
      <4>1. i + 1 = 1 + i
        BY <3>7
      <4>2. Tail(q)[i] = q[i + 1]
        BY <3>4, <3>8
      <4>3. q[1 + i] = p[i]
        BY <1>2, <3>5, <3>6
      <4> QED
        BY <4>1, <4>2, <4>3
    <3>9. Tail(q) = p
      BY <3>4, <3>6, <3>8, <3>10, SeqEqual DEF Paths
    <3> QED
      BY <3>3, <3>9
  <2>2. ASSUME NEW p \in Paths, r \o p \in DOMAIN tree PROVE p \in D
    <3>1. PICK q : q = r \o p
      OBVIOUS
    <3>2. /\ q \in Paths /\ Len(q) = 1 + Len(p) /\ q[1] = e /\ Len(p) \in Nat
      <4>1. 1 \in 1 .. 1
        OBVIOUS
      <4>2. q \in Paths /\ Len(q) = Len(r) + Len(p) /\ \A i \in 1 .. Len(r) : q[i] = r[i]
        BY <1>2, <3>1, Joined
      <4>3. Len(p) \in Nat
        BY DEF Paths
      <4> QED
        BY <1>2, <4>1, <4>2, <4>3
    <3>3. q # << >>
      <4>1. PICK m, n : m = Len(q) /\ n = Len(p)
        OBVIOUS
      <4>2. n \in Nat /\ m = 1 + n
        BY <3>2, <4>1
      <4>3. m # 0
        BY <4>2
      <4> QED
        BY <4>1, <4>3, EmptyPath
    <3>4. Tail(q) \in Paths /\ r \o Tail(q) = q
      BY <2>1, <2>2, <3>1, <3>2, <3>3
    <3>5. Tail(q) = p
      BY <1>2, <3>1, <3>4, JoinedOrder
    <3> QED
      BY <1>3, <2>2, <3>1, <3>2, <3>3, <3>5
  <2> QED
    BY <1>3, <2>1, <2>2
<1>6. DOMAIN s = D /\ \A p \in D : s[p] = tree[r \o p]
  BY <1>4
<1>7. NodesTyped(s)
  BY <1>5, <1>6 DEF Tree, NodesTyped
<1>8. << >> \in D
  <2>1. r \o << >> = r
    BY <1>2, ConcatEmptySeq DEF Paths
  <2> QED
    BY <1>2, <1>5, <2>1, EmptyPath
<1>9. ASSUME NEW p \in D, NEW q \in Paths, Begins(q, p) PROVE q \in D
  <2>1. Begins(r \o q, r \o p) /\ r \o q \in Paths
    BY <1>2, <1>5, <1>9, JoinedOrder, Joined
  <2>2. r \o q \in DOMAIN tree
    BY <1>5, <2>1 DEF Tree
  <2> QED
    BY <1>5, <2>2
<1>10. ASSUME NEW p \in D, s[p].parameter # "" PROVE Append(p, s[p].parameter) \in D
  <2>1. PICK x : x = s[p].parameter
    OBVIOUS
  <2>2. x \in Segments /\ p \in Paths
    BY <1>5, <1>6, <1>7, <2>1, NodeFields DEF NodesTyped
  <2>3. Append(r \o p, x) \in DOMAIN tree
    BY <1>5, <1>6, <1>10, <2>1 DEF Tree
  <2>4. r \o Append(p, x) = Append(r \o p, x) /\ Append(p, x) \in Paths
    BY <1>2, <2>2, JoinedAppend, AppendedPath
  <2> QED
    BY <1>5, <2>1, <2>3, <2>4
<1>11. Tree(s)
  BY <1>5, <1>6, <1>7, <1>8, <1>9, <1>10 DEF Tree
<1>12. SubtreeOf(s, tree)
  BY <1>1, <1>5, <1>6 DEF SubtreeOf
<1> QED
  BY <1>1, <1>11, <1>12

\* a is the tree with `node` in the place of what was at the end of the pieces w.
NodeAdded(a, tree, w, node) ==
    LET keys == Keys(w)
    IN  /\ DOMAIN a = {p \in DOMAIN tree \cup {q \in Paths : Begins(q, keys)} : ~Begins(keys, p)}
                       \cup {keys \o q : q \in DOMAIN node}
        /\ \A q \in DOMAIN node : a[keys \o q] = node[q]
        /\ \A p \in DOMAIN a : ~Begins(keys, p) =>
             /\ a[p].handler = IF p \in DOMAIN tree THEN tree[p].handler ELSE None
             /\ a[p].parameter = IF Gives(w, p) THEN w[Len(p) + 1].name
                                 ELSE IF p \in DOMAIN tree THEN tree[p].parameter ELSE ""

LEMMA AddNodeNodes ==
    ASSUME NEW tree, Tree(tree), NEW prefix \in Targets, NEW node, Tree(node)
    PROVE  /\ Tree(AddNode(tree, prefix, node))
           /\ NodeAdded(AddNode(tree, prefix, node), tree, Way(prefix), node)
<1>1. PICK w, keys, a : w = Way(prefix) /\ keys = Keys(w) /\ a = AddNode(tree, prefix, node)
  OBVIOUS
<1>2. w \in Seq(Pieces) /\ keys \in Paths
  BY <1>1, WayOfPrefix, TargetsAreLong, KeysAreNames
<1>3. PICK g : g = Grown(tree, w)
  OBVIOUS
<1>4. Tree(g) /\ keys \in DOMAIN g /\ GrownInto(g, tree, w)
  BY <1>1, <1>2, <1>3, GrownIsTree, GrownNodes DEF Tree
<1>5. PICK below, kept : /\ below = {keys \o q : q \in DOMAIN node}
                         /\ kept = {p \in DOMAIN g : ~IsPrefix(keys, p)}
  OBVIOUS
<1>6. a = [p \in kept \cup below |->
             IF p \in kept THEN g[p] ELSE node[SubSeq(p, Len(keys) + 1, Len(p))]]
  BY <1>1, <1>3, <1>5 DEF AddNode
<1>7. DOMAIN g \subseteq Paths /\ DOMAIN node \subseteq Paths
  BY <1>4 DEF Tree, NodesTyped
<1>8. kept = {p \in DOMAIN g : ~Begins(keys, p)}
  BY <1>2, <1>5, <1>7, IsPrefixBegins
<1>9. DOMAIN a = kept \cup below /\ \A p \in kept : a[p] = g[p]
  BY <1>6
<1>10. ASSUME NEW q \in DOMAIN node
       PROVE  /\ keys \o q \in Paths /\ keys \o q \in DOMAIN a /\ Begins(keys, keys \o q)
              /\ a[keys \o q] = node[q]
  <2>1. /\ keys \o q \in Paths /\ Begins(keys, keys \o q)
        /\ SubSeq(keys \o q, Len(keys) + 1, Len(keys \o q)) = q
    BY <1>2, <1>7, Joined
  <2>2. keys \o q \notin kept /\ keys \o q \in below
    BY <1>5, <1>8, <2>1
  <2> QED
    BY <1>6, <1>9, <2>1, <2>2
<1>11. NodesTyped(a)
  <2>1. \A p \in kept : p \in Paths /\ a[p] \in Nodes
    BY <1>4, <1>7, <1>8, <1>9 DEF Tree, NodesTyped
  <2>2. \A p \in below : p \in Paths /\ a[p] \in Nodes
    BY <1>5, <1>10 DEF Tree, NodesTyped
  <2> QED
    BY <1>9, <2>1, <2>2 DEF NodesTyped
<1>12. keys \in DOMAIN a
  <2>1. keys \o << >> = keys /\ << >> \in DOMAIN node
    BY <1>2, ConcatEmptySeq DEF Paths, Tree
  <2> QED
    BY <1>10, <2>1
<1>13. \A p \in DOMAIN g : p \notin kept => Begins(keys, p)
  BY <1>8
<1>14. ASSUME NEW p \in kept, NEW q \in Paths, Begins(q, p) PROVE q \in kept
  <2>1. q \in DOMAIN g
    BY <1>4, <1>8, <1>14 DEF Tree
  <2>2. ~Begins(keys, q)
    BY <1>2, <1>7, <1>8, <1>14, BeginsOrder
  <2> QED
    BY <1>8, <2>1, <2>2
<1>15. << >> \in DOMAIN a
  <2>1. CASE << >> \in kept
    BY <1>9, <2>1
  <2>2. CASE << >> \notin kept
    <3>1. << >> \in DOMAIN g /\ << >> \in Paths /\ Len(<< >>) = 0
      BY <1>4, EmptyPath DEF Tree
    <3>2. Begins(keys, << >>)
      BY <1>13, <2>2, <3>1
    <3>3. Len(keys) = 0
      BY <1>2, <3>1, <3>2 DEF Begins, Paths
    <3> QED
      BY <1>2, <1>12, <3>3, EmptyPath
  <2> QED
    BY <2>1, <2>2
<1>16. ASSUME NEW p \in DOMAIN a, NEW q \in Paths, Begins(q, p) PROVE q \in DOMAIN a
  <2>1. CASE p \in kept
    BY <1>9, <1>14, <1>16, <2>1
  <2>2. CASE p \in below
    <3>1. PICK r \in DOMAIN node : p = keys \o r
      BY <1>5, <2>2
    <3>2. CASE Begins(keys, q)
      <4>1. PICK t \in Paths : q = keys \o t
        BY <1>2, <3>2, Parted
      <4>2. Begins(t, r)
        BY <1>2, <1>7, <1>16, <3>1, <4>1, JoinedOrder
      <4>3. t \in DOMAIN node
        BY <4>2 DEF Tree
      <4> QED
        BY <1>10, <4>1, <4>3
    <3>3. CASE ~Begins(keys, q)
      <4>1. p \in Paths /\ Begins(keys, p) /\ Len(keys) \in Nat /\ Len(q) \in Nat
        BY <1>2, <1>10, <3>1 DEF Paths
      <4>2. Begins(q, keys)
        BY <1>2, <1>16, <3>3, <4>1, BeginsOrder
      <4>3. q \in DOMAIN g
        BY <1>4, <4>2 DEF Tree
      <4> QED
        BY <1>8, <1>9, <3>3, <4>3
    <3> QED
      BY <3>2, <3>3
  <2> QED
    BY <1>9, <2>1, <2>2
<1>17. ASSUME NEW p \in DOMAIN a, a[p].parameter # "" PROVE Append(p, a[p].parameter) \in DOMAIN a
  <2>1. PICK x : x = a[p].parameter
    OBVIOUS
  <2>2. x \in Segments /\ p \in Paths
    BY <1>11, <2>1, NodeFields DEF NodesTyped
  <2>3. CASE p \in kept
    <3>1. Append(p, x) \in DOMAIN g /\ p \in DOMAIN g
      BY <1>4, <1>8, <1>9, <1>17, <2>1, <2>3 DEF Tree
    <3>2. CASE Append(p, x) \in kept
      BY <1>9, <2>1, <3>2
    <3>3. CASE Append(p, x) \notin kept
      <4>1. Begins(keys, Append(p, x)) /\ ~Begins(keys, p)
        BY <1>8, <1>13, <2>3, <3>1, <3>3
      <4>2. Append(p, x) \in Paths /\ Len(Append(p, x)) = Len(p) + 1 /\ Begins(p, Append(p, x))
        BY <2>2, AppendedPath
      <4>3. Len(keys) \in Nat /\ Len(p) \in Nat /\ Len(keys) <= Len(p) + 1
        BY <1>2, <2>2, <4>1, <4>2 DEF Begins, Paths
      <4>4. ~(Len(keys) <= Len(p))
        BY <1>2, <2>2, <4>1, <4>2, BeginsOrder
      <4>5. Len(keys) = Len(Append(p, x))
        BY <4>2, <4>3, <4>4
      <4>6. keys = Append(p, x)
        BY <1>2, <4>1, <4>2, <4>5, BeginsOrder
      <4> QED
        BY <1>12, <2>1, <4>6
    <3> QED
      BY <3>2, <3>3
  <2>4. CASE p \in below
    <3>1. PICK r \in DOMAIN node : p = keys \o r
      BY <1>5, <2>4
    <3>2. x = node[r].parameter /\ r \in Paths
      BY <1>7, <1>10, <2>1, <3>1
    <3>3. Append(r, x) \in DOMAIN node
      BY <1>17, <2>1, <3>2 DEF Tree
    <3>4. keys \o Append(r, x) = Append(p, x)
      BY <1>2, <2>2, <3>1, <3>2, JoinedAppend
    <3> QED
      BY <1>10, <2>1, <3>3, <3>4
  <2> QED
    BY <1>9, <2>3, <2>4
<1>18. Tree(a)
  BY <1>11, <1>15, <1>16, <1>17 DEF Tree
<1>19. NodeAdded(a, tree, w, node)
  <2>1. kept = {p \in DOMAIN tree \cup {q \in Paths : Begins(q, keys)} : ~Begins(keys, p)}
    BY <1>1, <1>4, <1>8 DEF GrownInto
  <2>2. \A p \in DOMAIN a : ~Begins(keys, p) => p \in kept
    BY <1>5, <1>9, <1>10
  <2>3. ASSUME NEW p \in DOMAIN a, ~Begins(keys, p)
        PROVE  /\ a[p].handler = IF p \in DOMAIN tree THEN tree[p].handler ELSE None
               /\ a[p].parameter = IF Gives(w, p) THEN w[Len(p) + 1].name
                                 ELSE IF p \in DOMAIN tree THEN tree[p].parameter ELSE ""
    BY <1>4, <1>8, <1>9, <2>2, <2>3 DEF GrownInto
  <2> QED
    BY <1>1, <1>5, <1>9, <1>10, <2>1, <2>3 DEF NodeAdded
<1> QED
  BY <1>1, <1>18, <1>19

-----------------------------------------------------------------------------
(* Pieces that are joined *)

LEMMA KeysJoined ==
    ASSUME NEW w \in Seq(Pieces), NEW v \in Seq(Pieces)
    PROVE  /\ w \o v \in Seq(Pieces) /\ Len(w \o v) = Len(w) + Len(v)
           /\ Keys(w \o v) = Keys(w) \o Keys(v)
<1>1. PICK m, n, s, t, u : /\ m = Len(w) /\ n = Len(v) /\ s = w \o v
                           /\ t = Keys(s) /\ u = Keys(w) \o Keys(v)
  OBVIOUS
<1>2. /\ s \in Seq(Pieces) /\ Len(s) = m + n /\ m \in Nat /\ n \in Nat
      /\ \A i \in 1 .. m + n : s[i] = IF i <= m THEN w[i] ELSE v[i - m]
  BY <1>1, ConcatProperties
<1>3. t \in Paths /\ Len(t) = m + n /\ \A i \in 1 .. m + n : t[i] = s[i].name
  BY <1>1, <1>2, KeysAreNames
<1>4. Keys(w) \in Paths /\ Len(Keys(w)) = m /\ \A i \in 1 .. m : Keys(w)[i] = w[i].name
  BY <1>1, KeysAreNames
<1>5. Keys(v) \in Paths /\ Len(Keys(v)) = n /\ \A i \in 1 .. n : Keys(v)[i] = v[i].name
  BY <1>1, KeysAreNames
<1>6. /\ u \in Paths /\ Len(u) = m + n
      /\ \A i \in 1 .. m + n : u[i] = IF i <= m THEN Keys(w)[i] ELSE Keys(v)[i - m]
  <2>1. PICK a, b : a = Keys(w) /\ b = Keys(v)
    OBVIOUS
  <2>2. /\ a \o b \in Seq(Segments) /\ Len(a \o b) = Len(a) + Len(b)
        /\ \A i \in 1 .. Len(a) + Len(b) : (a \o b)[i] = IF i <= Len(a) THEN a[i] ELSE b[i - Len(a)]
    BY <1>4, <1>5, <2>1, ConcatProperties DEF Paths
  <2>3. u = a \o b /\ Len(a) = m /\ Len(b) = n
    BY <1>1, <1>4, <1>5, <2>1
  <2> QED
    BY <2>1, <2>2, <2>3 DEF Paths
<1>7. ASSUME NEW i \in 1 .. m + n PROVE t[i] = u[i]
  <2>1. CASE i <= m
    <3>1. i \in 1 .. m
      BY <1>2, <2>1
    <3> QED
      BY <1>2, <1>3, <1>4, <1>6, <2>1, <3>1
  <2>2. CASE ~(i <= m)
    <3>1. i - m \in 1 .. n
      BY <1>2, <2>2
    <3> QED
      BY <1>2, <1>3, <1>5, <1>6, <2>2, <3>1
  <2> QED
    BY <2>1, <2>2
<1>8. t = u
  BY <1>3, <1>6, <1>7, SeqEqual DEF Paths
<1> QED
  BY <1>1, <1>2, <1>8

\* Behind w the pieces v give their parameters.
LEMMA GivesBehind ==
    ASSUME NEW w \in Seq(Pieces), NEW v \in Seq(Pieces), NEW q \in Paths
    PROVE  /\ Gives(w \o v, Keys(w) \o q) <=> Gives(v, q)
           /\ Len(q) < Len(v) => (w \o v)[Len(Keys(w) \o q) + 1] = v[Len(q) + 1]
<1>1. PICK k, l, m, n, s, p : /\ k = Keys(w) /\ l = Len(q) /\ m = Len(w) /\ n = Len(v)
                              /\ s = w \o v /\ p = k \o q
  OBVIOUS
<1>2. /\ s \in Seq(Pieces) /\ Len(s) = m + n /\ m \in Nat /\ n \in Nat
      /\ \A i \in 1 .. m + n : s[i] = IF i <= m THEN w[i] ELSE v[i - m]
  BY <1>1, ConcatProperties
<1>3. k \in Paths /\ Len(k) = m /\ Keys(v) \in Paths /\ Keys(s) = k \o Keys(v)
  BY <1>1, KeysAreNames, KeysJoined
<1>4. p \in Paths /\ Len(p) = m + l /\ l \in Nat
  <2>1. k \o q \in Paths /\ Len(k \o q) = Len(k) + Len(q)
    BY <1>3, Joined
  <2>2. Len(q) \in Nat
    BY DEF Paths
  <2> QED
    BY <1>1, <1>3, <2>1, <2>2
<1>5. Begins(p, Keys(s)) <=> Begins(q, Keys(v))
  BY <1>1, <1>3, JoinedOrder
<1>6. Len(p) < Len(s) <=> l < n
  BY <1>2, <1>4
<1>7. ASSUME l < n PROVE s[Len(p) + 1] = v[l + 1]
  <2>1. Len(p) + 1 \in 1 .. m + n /\ ~(Len(p) + 1 <= m) /\ Len(p) + 1 - m = l + 1
    BY <1>2, <1>4, <1>7
  <2> QED
    BY <1>2, <2>1
<1> QED
  BY <1>1, <1>5, <1>6, <1>7 DEF Gives

\* Before the end of w it is w that gives the parameters.
LEMMA GivesBefore ==
    ASSUME NEW w \in Seq(Pieces), NEW v \in Seq(Pieces), NEW p \in Paths, ~Begins(Keys(w), p)
    PROVE  /\ Gives(w \o v, p) <=> Gives(w, p)
           /\ Begins(p, Keys(w \o v)) <=> Begins(p, Keys(w))
           /\ Begins(p, Keys(w)) => (w \o v)[Len(p) + 1] = w[Len(p) + 1]
<1>1. PICK k, l, m, n, s : /\ k = Keys(w) /\ l = Len(p) /\ m = Len(w) /\ n = Len(v) /\ s = w \o v
  OBVIOUS
<1>2. /\ s \in Seq(Pieces) /\ Len(s) = m + n /\ m \in Nat /\ n \in Nat
      /\ \A i \in 1 .. m + n : s[i] = IF i <= m THEN w[i] ELSE v[i - m]
  BY <1>1, ConcatProperties
<1>3. k \in Paths /\ Len(k) = m /\ Keys(v) \in Paths /\ Keys(s) = k \o Keys(v)
  BY <1>1, KeysAreNames, KeysJoined
<1>4. l \in Nat
  BY <1>1 DEF Paths
<1>5. Keys(s) \in Paths /\ Begins(k, Keys(s))
  BY <1>3, Joined
<1>6. Begins(p, k) => Begins(p, Keys(s))
  BY <1>3, <1>5, BeginsOrder
<1>7. ASSUME Begins(p, Keys(s)) PROVE Begins(p, k)
  <2>1. ~(m <= l)
    BY <1>1, <1>3, <1>5, <1>7, BeginsOrder
  <2>2. Len(p) <= Len(k)
    BY <1>1, <1>2, <1>3, <1>4, <2>1
  <2> QED
    BY <1>3, <1>5, <1>7, <2>2, BeginsOrder
<1>8. ASSUME Begins(p, k) PROVE l < m /\ l < m + n /\ s[l + 1] = w[l + 1]
  <2>1. l <= m
    BY <1>1, <1>3, <1>8 DEF Begins
  <2>2. l # m
    BY <1>1, <1>3, <1>8, BeginsOrder
  <2>3. l < m /\ l < m + n /\ l + 1 \in 1 .. m + n /\ l + 1 <= m
    BY <1>2, <1>4, <2>1, <2>2
  <2> QED
    BY <1>2, <2>3
<1>9. Gives(s, p) <=> Gives(w, p)
  BY <1>1, <1>2, <1>6, <1>7, <1>8 DEF Gives
<1> QED
  BY <1>1, <1>6, <1>7, <1>8, <1>9

FromTheRoot(v) == v[1].name = ""

\* A way from the root and the pieces behind it.
LEMMA BehindTheRoot ==
    ASSUME NEW v \in Targets, FromTheRoot(v)
    PROVE  /\ Tail(v) \in Seq(Pieces) /\ Keys(v) = Root \o Keys(Tail(v))
           /\ \A q \in Paths :
                /\ Gives(v, Root \o q) <=> Gives(Tail(v), q)
                /\ Len(q) < Len(Tail(v)) =>
                     v[Len(Root \o q) + 1] = Tail(v)[Len(q) + 1]
<1>1. v \in Seq(Pieces) /\ Len(v) \in Nat \ {0} /\ v # << >>
  BY TargetsAreLong DEF Targets
<1>2. PICK x, t : x = v[1] /\ t = Tail(v)
  OBVIOUS
<1>3. x \in Pieces /\ t \in Seq(Pieces) /\ Len(t) = Len(v) - 1
      /\ \A i \in 1 .. Len(t) : t[i] = v[i + 1]
  BY <1>1, <1>2, HeadTailProperties
<1>4. PICK r : r = <<x>>
  OBVIOUS
<1>5. r \in Seq(Pieces) /\ Len(r) = 1 /\ r[1] = x
  BY <1>3, <1>4
<1>6. v = r \o t
  <2>1. PICK n, s : n = Len(t) /\ s = r \o t
    OBVIOUS
  <2>2. /\ s \in Seq(Pieces) /\ Len(s) = 1 + n /\ n \in Nat
        /\ \A i \in 1 .. 1 + n : s[i] = IF i <= 1 THEN r[i] ELSE t[i - 1]
    <3>1. /\ r \o t \in Seq(Pieces) /\ Len(r \o t) = Len(r) + Len(t)
          /\ \A i \in 1 .. Len(r) + Len(t) :
                (r \o t)[i] = IF i <= Len(r) THEN r[i] ELSE t[i - Len(r)]
      <4>1. r \in Seq(Pieces) /\ t \in Seq(Pieces)
        BY <1>3, <1>5
      <4> QED
        BY <4>1, ConcatProperties
    <3>2. Len(t) \in Nat
      BY <1>3
    <3> QED
      BY <1>5, <2>1, <3>1, <3>2
  <2>3. Len(v) = 1 + n
    BY <1>1, <1>3, <2>1, <2>2
  <2>4. ASSUME NEW i \in 1 .. 1 + n PROVE s[i] = v[i]
    <3>1. CASE i = 1
      BY <1>2, <1>5, <2>2, <3>1
    <3>2. CASE i # 1
      <4>1. ~(i <= 1) /\ i - 1 \in 1 .. n /\ (i - 1) + 1 = i
        BY <2>2, <3>2
      <4> QED
        BY <1>3, <2>1, <2>2, <4>1
    <3> QED
      BY <3>1, <3>2
  <2> QED
    BY <1>1, <2>1, <2>2, <2>3, <2>4, SeqEqual
<1>7. Keys(r) = Root
  <2>1. Keys(r) \in Paths /\ Len(Keys(r)) = 1 /\ Keys(r)[1] = x.name
    BY <1>5, KeysAreNames
  <2>2. Keys(r)[1] = Root[1]
    BY <1>2, <2>1, RootPath DEF FromTheRoot
  <2>3. \A i \in 1 .. 1 : Keys(r)[i] = Root[i]
    BY <2>2
  <2> QED
    BY <2>1, <2>3, RootPath, SeqEqual DEF Paths
<1>8. Keys(v) = Root \o Keys(t)
  BY <1>3, <1>5, <1>6, <1>7, KeysJoined
<1>9. ASSUME NEW q \in Paths
      PROVE  /\ Gives(v, Root \o q) <=> Gives(t, q)
             /\ Len(q) < Len(t) => v[Len(Root \o q) + 1] = t[Len(q) + 1]
  <2>1. /\ Gives(r \o t, Keys(r) \o q) <=> Gives(t, q)
        /\ Len(q) < Len(t) => (r \o t)[Len(Keys(r) \o q) + 1] = t[Len(q) + 1]
    BY <1>3, <1>5, GivesBehind
  <2> QED
    BY <1>6, <1>7, <2>1
<1> QED
  BY <1>2, <1>3, <1>8, <1>9

-----------------------------------------------------------------------------
(* The table *)

Entries == [method : Methods, target : Targets, way : Targets, handler : Handlers,
            file : Files \cup {""}, removed : BOOLEAN]

LEMMA EntryFields ==
    ASSUME NEW e \in Entries
    PROVE  /\ e.method \in Methods /\ e.target \in Targets /\ e.way \in Targets
           /\ e.handler \in Handlers /\ e.removed \in BOOLEAN
BY DEF Entries

LEMMA WayOfEntry ==
    ASSUME NEW e \in Entries
    PROVE  /\ e.way \in Targets /\ e.way \in Seq(Pieces)
           /\ Keys(e.way) \in Paths /\ Len(Keys(e.way)) = Len(e.way) /\ Len(e.way) \in Nat \ {0}
BY EntryFields, TargetsAreLong, KeysAreNames

\* The routes of a method that were added and not replaced.
Live(T, m) == {k \in DOMAIN T : T[k].method = m /\ ~T[k].removed}

\* The last of these with its keys.
LastWith(T, m, p, k) ==
    /\ k \in Live(T, m) /\ Keys(T[k].way) = p
    /\ \A j \in Live(T, m) : Keys(T[j].way) = p => j <= k

GivesName(w, p, x) == Gives(w, p) /\ w[Len(p) + 1].name = x

\* The nodes of the tree are those on the ways of the routes,
NodesFit(tree, T, m) ==
    \A p \in Paths : p \in DOMAIN tree <=>
        p = << >> \/ \E k \in Live(T, m) : Begins(p, Keys(T[k].way))

\* the handlers those of the last routes,
HandlersFit(tree, T, m) ==
    \A p \in DOMAIN tree :
        \/ tree[p].handler = None /\ \A k \in Live(T, m) : Keys(T[k].way) # p
        \/ \E k \in DOMAIN T : LastWith(T, m, p, k) /\ tree[p].handler = T[k].handler

\* a parameter was given by some route,
ParametersFit(tree, T, m) ==
    \A p \in DOMAIN tree : tree[p].parameter # "" =>
        \E k \in DOMAIN T : T[k].method = m /\ GivesName(T[k].way, p, tree[p].parameter)

\* and where a route has one the node has one too.
ParametersKept(tree, T, m) ==
    ParametersHaveNames =>
        \A p \in DOMAIN tree, k \in Live(T, m) : Gives(T[k].way, p) => tree[p].parameter # ""

TreeFits(tree, T, m) ==
    /\ Tree(tree)
    /\ NodesFit(tree, T, m)
    /\ HandlersFit(tree, T, m)
    /\ ParametersFit(tree, T, m)
    /\ ParametersKept(tree, T, m)

LEMMA EmptyTreeFits ==
    ASSUME NEW T, NEW m, \A k \in DOMAIN T : T[k].method # m
    PROVE  TreeFits(EmptyTree, T, m)
<1>1. Live(T, m) = {}
  BY DEF Live
<1>2. Tree(EmptyTree) /\ DOMAIN EmptyTree = {<< >>} /\ EmptyTree[<< >>] = NewNode
  BY EmptyTreeIsTree
<1>3. NewNode.handler = None /\ NewNode.parameter = ""
  BY NewNodeIsNode
<1>4. NodesFit(EmptyTree, T, m)
  BY <1>1, <1>2 DEF NodesFit
<1>5. HandlersFit(EmptyTree, T, m)
  BY <1>1, <1>2, <1>3 DEF HandlersFit
<1>6. ParametersFit(EmptyTree, T, m)
  BY <1>2, <1>3 DEF ParametersFit
<1>7. ParametersKept(EmptyTree, T, m)
  BY <1>1 DEF ParametersKept
<1> QED
  BY <1>2, <1>4, <1>5, <1>6, <1>7 DEF TreeFits

LEMMA Appended ==
    ASSUME NEW S, NEW T \in Seq(S), NEW e \in S
    PROVE  /\ Append(T, e) \in Seq(S) /\ Len(Append(T, e)) = Len(T) + 1
           /\ Len(T) \in Nat /\ DOMAIN T = 1 .. Len(T) /\ Append(T, e)[Len(T) + 1] = e
           /\ \A k \in DOMAIN T :
                  Append(T, e)[k] = T[k] /\ k < Len(T) + 1 /\ k \in Nat /\ T[k] \in S
           /\ DOMAIN Append(T, e) = DOMAIN T \cup {Len(T) + 1}
<1>1. PICK n, U : n = Len(T) /\ U = Append(T, e)
  OBVIOUS
<1>2. /\ U \in Seq(S) /\ Len(U) = n + 1 /\ U[n + 1] = e
      /\ \A k \in 1 .. n : U[k] = T[k]
  BY <1>1, AppendProperties
<1>3. n \in Nat /\ DOMAIN T = 1 .. n /\ \A k \in 1 .. n : T[k] \in S
  BY <1>1
<1>4. DOMAIN U = 1 .. n + 1
  BY <1>2
<1>5. 1 .. n + 1 = (1 .. n) \cup {n + 1}
  BY <1>3
<1> QED
  BY <1>1, <1>2, <1>3, <1>4, <1>5

\* A route of another method does not matter.
LEMMA OtherRoute ==
    ASSUME NEW tree, NEW T \in Seq(Entries), NEW e \in Entries, NEW m, e.method # m,
           TreeFits(tree, T, m)
    PROVE  TreeFits(tree, Append(T, e), m)
<1>1. PICK n, U : n = Len(T) + 1 /\ U = Append(T, e)
  OBVIOUS
<1>2. /\ U[n] = e /\ DOMAIN U = DOMAIN T \cup {n}
      /\ \A k \in DOMAIN T : U[k] = T[k]
  BY <1>1, Appended
<1>3. Live(U, m) = Live(T, m) /\ \A k \in Live(T, m) : U[k] = T[k]
  BY <1>2 DEF Live
<1>4. NodesFit(tree, U, m)
  BY <1>3 DEF TreeFits, NodesFit
<1>5. HandlersFit(tree, U, m)
  BY <1>2, <1>3 DEF TreeFits, HandlersFit, LastWith
<1>6. ParametersFit(tree, U, m)
  BY <1>2 DEF TreeFits, ParametersFit
<1>7. ParametersKept(tree, U, m)
  BY <1>3 DEF TreeFits, ParametersKept
<1> QED
  BY <1>1, <1>4, <1>5, <1>6, <1>7 DEF TreeFits

\* A walked way has the parameters of its target.
LEMMA NamedWay ==
    ASSUME NEW target \in Targets, Named(target), NEW slash
    PROVE  Named(Walked(target, slash))
<1>1. target \in Seq(Pieces) /\ Len(target) \in Nat \ {0}
  BY TargetsAreLong
<1>2. PICK w : w = Walked(target, slash)
  OBVIOUS
<1>3. w \in Seq(Pieces) /\ Len(w) <= Len(target) /\ \A i \in 1 .. Len(w) : w[i] = target[i]
  BY <1>1, <1>2, WalkedIsShorter
<1>4. \A i \in DOMAIN w : i \in DOMAIN target /\ w[i] = target[i]
  BY <1>1, <1>3
<1> QED
  BY <1>2, <1>4 DEF Named

LEMMA GivenName ==
    ASSUME NEW w \in Seq(Pieces), NEW p \in Paths, Gives(w, p)
    PROVE  /\ Len(p) + 1 \in DOMAIN w /\ w[Len(p) + 1].param /\ w[Len(p) + 1] \in Pieces
           /\ Named(w) => w[Len(p) + 1].name # ""
<1>1. Len(p) \in Nat /\ Len(w) \in Nat /\ Len(p) < Len(w)
  BY DEF Paths, Gives
<1>2. Len(p) + 1 \in 1 .. Len(w) /\ DOMAIN w = 1 .. Len(w)
  BY <1>1
<1>3. PICK n : n = Len(p) + 1
  OBVIOUS
<1>4. n \in DOMAIN w /\ w[n].param /\ w[n] \in Pieces
  BY <1>2, <1>3 DEF Gives
<1>5. Named(w) => w[n].name # ""
  BY <1>4, Zenon DEF Named
<1> QED
  BY <1>3, <1>4, <1>5

LeadsTo(w, target) == w = Walked(target, Fixed(""))

\* Node::add(target, handler): the tree fits the table with the new route.
LEMMA RouteAdded ==
    ASSUME NEW tree, NEW T \in Seq(Entries), NEW e \in Entries, TreeFits(tree, T, e.method),
           NEW target \in Targets, Accepts(target),
           LeadsTo(e.way, target), ~e.removed,
           ParametersHaveNames => Named(target)
    PROVE  TreeFits(AddHandler(tree, target, e.handler), Append(T, e), e.method)
<1>1. PICK n, U, m, w, a, h : /\ n = Len(T) + 1 /\ U = Append(T, e) /\ m = e.method
                              /\ w = e.way /\ h = e.handler /\ a = AddHandler(tree, target, h)
  OBVIOUS
<1>2. /\ U[n] = e /\ DOMAIN U = DOMAIN T \cup {n} /\ n \in Nat
      /\ \A k \in DOMAIN T : U[k] = T[k] /\ k < n /\ k \in Nat /\ T[k] \in Entries
  <2>1. /\ Append(T, e)[Len(T) + 1] = e /\ Len(T) \in Nat
        /\ \A k \in DOMAIN T :
               Append(T, e)[k] = T[k] /\ k < Len(T) + 1 /\ k \in Nat /\ T[k] \in Entries
        /\ DOMAIN Append(T, e) = DOMAIN T \cup {Len(T) + 1}
    BY Appended
  <2>2. Len(T) + 1 \in Nat
    OBVIOUS
  <2> QED
    BY <1>1, <2>1, <2>2, Zenon
<1>3. /\ w \in Seq(Pieces) /\ Keys(w) \in Paths /\ h \in Handlers /\ e.removed = FALSE
  BY <1>1, WayOfEntry, EntryFields
<1>4. Tree(tree) /\ Tree(a) /\ HandlerAdded(a, tree, w, h)
  BY <1>1, <1>3, AddHandlerNodes DEF TreeFits, LeadsTo
<1>5. Live(U, m) = Live(T, m) \cup {n} /\ n \notin DOMAIN T
  <2>1. n \notin DOMAIN T
    BY <1>2
  <2>2. U[n].method = m /\ ~U[n].removed
    BY <1>1, <1>2
  <2> QED
    BY <1>2, <2>1, <2>2 DEF Live
<1>6. DOMAIN a = DOMAIN tree \cup {p \in Paths : Begins(p, Keys(w))} /\ DOMAIN tree \subseteq Paths
  BY <1>4 DEF HandlerAdded, Tree, NodesTyped
<1>7. NodesFit(a, U, m)
  <2> SUFFICES ASSUME NEW p \in Paths
               PROVE  p \in DOMAIN a <=>
                        p = << >> \/ \E k \in Live(U, m) : Begins(p, Keys(U[k].way))
    BY DEF NodesFit
  <2>1. p \in DOMAIN a <=> p \in DOMAIN tree \/ Begins(p, Keys(w))
    BY <1>6
  <2>2. p \in DOMAIN tree <=> p = << >> \/ \E k \in Live(T, m) : Begins(p, Keys(T[k].way))
    BY <1>1 DEF TreeFits, NodesFit
  <2>3. \A k \in Live(T, m) : U[k] = T[k]
    BY <1>2 DEF Live
  <2> QED
    BY <1>1, <1>2, <1>5, <2>1, <2>2, <2>3
<1>8. HandlersFit(a, U, m)
  <2> SUFFICES ASSUME NEW p \in DOMAIN a
               PROVE  \/ a[p].handler = None /\ \A k \in Live(U, m) : Keys(U[k].way) # p
                      \/ \E k \in DOMAIN U : LastWith(U, m, p, k) /\ a[p].handler = U[k].handler
    BY DEF HandlersFit
  <2>1. \A k \in Live(T, m) : U[k] = T[k] /\ k < n /\ k \in Nat
    BY <1>2 DEF Live
  <2>3. a[p].handler = IF p = Keys(w) THEN h
                       ELSE IF p \in DOMAIN tree THEN tree[p].handler ELSE None
    BY <1>4 DEF HandlerAdded
  <2>4. CASE p = Keys(w)
    <3>1. Keys(U[n].way) = p /\ U[n].handler = a[p].handler
      BY <1>1, <1>2, <2>3, <2>4
    <3>2. \A j \in Live(U, m) : j <= n
      BY <1>2, <1>5, <2>1
    <3>3. LastWith(U, m, p, n)
      BY <1>5, <3>1, <3>2 DEF LastWith
    <3> QED
      BY <1>2, <3>1, <3>3
  <2>5. CASE p # Keys(w) /\ p \in DOMAIN tree
    <3>1. Keys(U[n].way) # p
      BY <1>1, <1>2, <2>5
    <3>2. CASE tree[p].handler = None /\ \A k \in Live(T, m) : Keys(T[k].way) # p
      BY <1>5, <2>1, <2>3, <2>5, <3>1, <3>2
    <3>3. ASSUME NEW k \in DOMAIN T, LastWith(T, m, p, k), tree[p].handler = T[k].handler
          PROVE  LastWith(U, m, p, k) /\ a[p].handler = U[k].handler
      <4>1. a[p].handler = U[k].handler /\ Keys(U[k].way) = p /\ k \in Live(U, m)
        BY <1>2, <1>5, <2>3, <2>5, <3>3 DEF LastWith
      <4>2. \A j \in Live(U, m) : Keys(U[j].way) = p => j <= k
        BY <1>5, <2>1, <3>1, <3>3 DEF LastWith
      <4> QED
        BY <4>1, <4>2 DEF LastWith
    <3> QED
      BY <1>1, <1>2, <2>5, <3>2, <3>3 DEF TreeFits, HandlersFit
  <2>6. CASE p # Keys(w) /\ p \notin DOMAIN tree
    <3>1. \A k \in Live(T, m) : Keys(T[k].way) # p
      <4>1. p \in Paths
        BY <1>6
      <4>2. Begins(p, p)
        BY <4>1, BeginsOrder
      <4> QED
        BY <1>1, <2>6, <4>1, <4>2 DEF TreeFits, NodesFit
    <3>2. \A k \in Live(U, m) : Keys(U[k].way) # p
      BY <1>1, <1>2, <1>5, <2>1, <2>6, <3>1
    <3> QED
      BY <2>3, <2>6, <3>2
  <2> QED
    BY <2>4, <2>5, <2>6
<1>9. ASSUME NEW p \in DOMAIN a
      PROVE  a[p].parameter = IF Gives(w, p) THEN w[Len(p) + 1].name
                              ELSE IF p \in DOMAIN tree THEN tree[p].parameter ELSE ""
  BY <1>4 DEF HandlerAdded
<1>10. ParametersFit(a, U, m)
  <2> SUFFICES ASSUME NEW p \in DOMAIN a, a[p].parameter # ""
               PROVE  \E k \in DOMAIN U : U[k].method = m /\ GivesName(U[k].way, p, a[p].parameter)
    BY DEF ParametersFit
  <2>1. CASE Gives(w, p)
    <3>1. GivesName(w, p, a[p].parameter)
      BY <1>9, <2>1 DEF GivesName
    <3> QED
      BY <1>1, <1>2, <3>1
  <2>2. CASE ~Gives(w, p)
    <3>1. p \in DOMAIN tree /\ a[p].parameter = tree[p].parameter
      BY <1>9, <2>2
    <3>2. PICK k \in DOMAIN T : T[k].method = m /\ GivesName(T[k].way, p, tree[p].parameter)
      BY <1>1, <3>1 DEF TreeFits, ParametersFit
    <3> QED
      BY <1>2, <3>1, <3>2
  <2> QED
    BY <2>1, <2>2
<1>11. ParametersKept(a, U, m)
  <2> SUFFICES ASSUME ParametersHaveNames, NEW p \in DOMAIN a, NEW k \in Live(U, m),
                      Gives(U[k].way, p)
               PROVE  a[p].parameter # ""
    BY DEF ParametersKept
  <2>1. p \in Paths
    BY <1>6
  <2>2. CASE Gives(w, p)
    <3>1. Named(w)
      BY <1>1, NamedWay DEF LeadsTo
    <3>2. w[Len(p) + 1].name # ""
      BY <1>3, <2>1, <2>2, <3>1, GivenName
    <3> QED
      BY <1>9, <2>2, <3>2
  <2>3. CASE ~Gives(w, p)
    <3>1. k \in Live(T, m) /\ U[k] = T[k]
      BY <1>1, <1>2, <1>5, <2>3 DEF Live
    <3>2. p \in DOMAIN tree
      BY <1>1, <2>1, <3>1 DEF TreeFits, NodesFit, Gives
    <3>3. tree[p].parameter # ""
      BY <1>1, <3>1, <3>2 DEF TreeFits, ParametersKept
    <3> QED
      BY <1>9, <2>3, <3>2, <3>3
  <2> QED
    BY <2>2, <2>3
<1>12. TreeFits(a, U, m)
  BY <1>4, <1>7, <1>8, <1>10, <1>11 DEF TreeFits
<1> QED
  BY <1>1, <1>12

-----------------------------------------------------------------------------
(* What sub_route brings *)

\* b is the route e, which begins with a slash, behind the pieces w.
Comes(b, e, w) == FromTheRoot(e.way) /\ b = [e EXCEPT !.way = w \o Tail(@)]

SameRoute(b, e) ==
    /\ b.method = e.method /\ b.target = e.target /\ b.handler = e.handler /\ b.file = e.file

LEMMA EntryMoved ==
    ASSUME NEW e \in Entries, NEW v \in Targets
    PROVE  /\ [e EXCEPT !.way = v] \in Entries /\ [e EXCEPT !.way = v].way = v
           /\ SameRoute([e EXCEPT !.way = v], e) /\ [e EXCEPT !.way = v].removed = e.removed
BY DEF Entries, SameRoute

LEMMA EntryReplaced ==
    ASSUME NEW e \in Entries, NEW r \in BOOLEAN
    PROVE  /\ [e EXCEPT !.removed = r] \in Entries /\ [e EXCEPT !.removed = r].way = e.way
           /\ SameRoute([e EXCEPT !.removed = r], e)
           /\ [e EXCEPT !.removed = r].removed = r
BY DEF Entries, SameRoute

LEMMA RootBegins ==
    ASSUME NEW v \in Targets
    PROVE  Begins(Root, Keys(v)) <=> FromTheRoot(v)
<1>1. PICK x : x = Root[1]
  OBVIOUS
<1>2. Len(Root) = 1 /\ (FromTheRoot(v) <=> v[1].name = x)
  BY <1>1, RootPath DEF FromTheRoot
<1>3. v \in Seq(Pieces) /\ Len(v) \in Nat \ {0}
  BY TargetsAreLong
<1>4. Len(Keys(v)) = Len(v) /\ Keys(v)[1] = v[1].name
  <2>1. 1 \in 1 .. Len(v)
    BY <1>3
  <2> QED
    BY <1>3, <2>1, KeysAreNames
<1>5. Begins(Root, Keys(v)) <=> Root[1] = Keys(v)[1]
  BY <1>2, <1>3, <1>4 DEF Begins
<1> QED
  BY <1>1, <1>2, <1>4, <1>5

\* Where the route e leads below the root, b leads behind w.
BroughtAs(b, e, w) ==
    /\ SameRoute(b, e) /\ b.removed = e.removed /\ FromTheRoot(e.way)
    /\ Begins(Keys(w), Keys(b.way))
    /\ \A q \in Paths :
         /\ Begins(Keys(w) \o q, Keys(b.way)) <=> Begins(Root \o q, Keys(e.way))
         /\ Keys(b.way) = Keys(w) \o q <=> Keys(e.way) = Root \o q
         /\ Gives(b.way, Keys(w) \o q) <=> Gives(e.way, Root \o q)
         /\ \A x : GivesName(b.way, Keys(w) \o q, x) <=> GivesName(e.way, Root \o q, x)
    /\ \A p \in Paths : ~Begins(Keys(w), p) =>
         /\ Begins(p, Keys(b.way)) <=> Begins(p, Keys(w))
         /\ Gives(b.way, p) <=> Gives(w, p)
         /\ \A x : GivesName(b.way, p, x) <=> GivesName(w, p, x)

LEMMA BroughtRoute ==
    ASSUME NEW e \in Entries, NEW w \in Targets, NEW b, Comes(b, e, w)
    PROVE  b \in Entries /\ BroughtAs(b, e, w)
<1>1. PICK v, t : v = e.way /\ t = Tail(v)
  OBVIOUS
<1>2. v \in Targets /\ v \in Seq(Pieces) /\ w \in Seq(Pieces) /\ Len(w) \in Nat \ {0}
      /\ FromTheRoot(v)
  BY <1>1, EntryFields, TargetsAreLong DEF Comes
<1>3. /\ t \in Seq(Pieces) /\ Keys(v) = Root \o Keys(t)
      /\ \A q \in Paths :
           /\ Gives(v, Root \o q) <=> Gives(t, q)
           /\ Len(q) < Len(t) => v[Len(Root \o q) + 1] = t[Len(q) + 1]
  BY <1>1, <1>2, BehindTheRoot
<1>4. PICK s, k : s = w \o t /\ k = Keys(w)
  OBVIOUS
<1>5. /\ s \in Seq(Pieces) /\ Len(s) = Len(w) + Len(t) /\ Keys(s) = k \o Keys(t)
      /\ k \in Paths /\ Keys(t) \in Paths /\ Root \in Paths
  BY <1>2, <1>3, <1>4, KeysJoined, KeysAreNames, RootPath
<1>6. s \in Targets
  <2>1. Len(t) \in Nat
    BY <1>3
  <2>2. Len(s) # 0
    BY <1>2, <1>5, <2>1
  <2>3. s # << >>
    BY <2>2, EmptyPath
  <2> QED
    BY <1>5, <2>3 DEF Targets
<1>7. /\ b \in Entries /\ b.way = s /\ SameRoute(b, e) /\ b.removed = e.removed
  <2>1. b = [e EXCEPT !.way = s]
    BY <1>1, <1>4, Zenon DEF Comes
  <2> QED
    BY <1>6, <2>1, EntryMoved, Zenon
<1>8. Begins(k, Keys(s))
  BY <1>5, Joined
<1>9. ASSUME NEW q \in Paths
      PROVE  /\ Begins(k \o q, Keys(s)) <=> Begins(Root \o q, Keys(v))
             /\ Keys(s) = k \o q <=> Keys(v) = Root \o q
             /\ Gives(s, k \o q) <=> Gives(v, Root \o q)
             /\ \A x : GivesName(s, k \o q, x) <=> GivesName(v, Root \o q, x)
  <2>1. Begins(k \o q, Keys(s)) <=> Begins(q, Keys(t))
    BY <1>5, JoinedOrder
  <2>2. Begins(Root \o q, Keys(v)) <=> Begins(q, Keys(t))
    BY <1>3, <1>5, JoinedOrder
  <2>3. Keys(s) = k \o q <=> Keys(t) = q
    BY <1>5, JoinedOrder
  <2>4. Keys(v) = Root \o q <=> Keys(t) = q
    BY <1>3, <1>5, JoinedOrder
  <2>5. /\ Gives(s, k \o q) <=> Gives(t, q)
        /\ Len(q) < Len(t) => s[Len(k \o q) + 1] = t[Len(q) + 1]
    BY <1>2, <1>3, <1>4, GivesBehind
  <2>6. Gives(t, q) => Len(q) < Len(t)
    BY DEF Gives
  <2>7. \A x : GivesName(s, k \o q, x) <=> GivesName(t, q, x)
    BY <2>5, <2>6 DEF GivesName
  <2>8. \A x : GivesName(v, Root \o q, x) <=> GivesName(t, q, x)
    BY <1>3, <2>6 DEF GivesName
  <2> QED
    BY <1>3, <2>1, <2>2, <2>3, <2>4, <2>5, <2>7, <2>8
<1>10. ASSUME NEW p \in Paths, ~Begins(k, p)
       PROVE  /\ Begins(p, Keys(s)) <=> Begins(p, k)
              /\ Gives(s, p) <=> Gives(w, p)
              /\ \A x : GivesName(s, p, x) <=> GivesName(w, p, x)
  <2>1. /\ Gives(s, p) <=> Gives(w, p)
        /\ Begins(p, Keys(s)) <=> Begins(p, k)
        /\ Begins(p, k) => s[Len(p) + 1] = w[Len(p) + 1]
    BY <1>2, <1>3, <1>4, <1>10, GivesBefore
  <2>2. Gives(w, p) => Begins(p, k)
    BY <1>4 DEF Gives
  <2>3. \A x : GivesName(s, p, x) <=> GivesName(w, p, x)
    BY <2>1, <2>2 DEF GivesName
  <2> QED
    BY <2>1, <2>3
<1> QED
  BY <1>1, <1>2, <1>4, <1>7, <1>8, <1>9, <1>10 DEF BroughtAs

-----------------------------------------------------------------------------
(* The tree after sub_route *)

\* B holds the routes of S from the root in their order, f tells from where.
MovedAs(B, S, w, f) ==
    /\ \A k \in DOMAIN B : /\ k \in Nat /\ f[k] \in DOMAIN S /\ f[k] \in Nat
                           /\ B[k] \in Entries /\ BroughtAs(B[k], S[f[k]], w)
    /\ \A i \in DOMAIN S : FromTheRoot(S[i].way) => \E k \in DOMAIN B : f[k] = i
    /\ \A j, k \in DOMAIN B : j < k => f[j] < f[k]

\* U is T without what was at the end of w, for the methods of B, and B behind it.
JoinedTable(U, T, B, w, n) ==
    /\ n \in Nat /\ DOMAIN U = DOMAIN T \cup {n + k : k \in DOMAIN B}
    /\ \A k \in DOMAIN T :
         /\ k \in Nat /\ k <= n /\ T[k] \in Entries /\ U[k] \in Entries
         /\ SameRoute(U[k], T[k]) /\ U[k].way = T[k].way
         /\ U[k].removed = (T[k].removed \/
              (Begins(Keys(w), Keys(T[k].way)) /\ \E b \in DOMAIN B : B[b].method = T[k].method))
    /\ \A k \in DOMAIN B : k \in Nat \ {0} /\ B[k] \in Entries /\ U[n + k] = B[k]

LEMMA RoutesJoined ==
    ASSUME NEW tree, NEW stree, NEW a, NEW node, NEW T, NEW S, NEW B, NEW U, NEW f, NEW n,
           NEW w \in Targets, NEW m,
           TreeFits(tree, T, m), TreeFits(stree, S, m), Root \in DOMAIN stree,
           SubtreeOf(node, stree), Tree(a), NodeAdded(a, tree, w, node),
           \A i \in DOMAIN S : S[i] \in Entries /\ ~S[i].removed,
           MovedAs(B, S, w, f), JoinedTable(U, T, B, w, n),
           ParametersHaveNames => Named(w)
    PROVE  TreeFits(a, U, m)
<1>1. PICK keys : keys = Keys(w)
  OBVIOUS
<1>2. /\ w \in Seq(Pieces) /\ keys \in Paths /\ Root \in Paths
      /\ << >> \in Paths /\ Len(<< >>) = 0 /\ Len(Root) = 1
  BY <1>1, TargetsAreLong, KeysAreNames, RootPath, EmptyPath
<1>3. /\ Tree(tree) /\ Tree(stree)
      /\ DOMAIN tree \subseteq Paths /\ DOMAIN stree \subseteq Paths /\ DOMAIN a \subseteq Paths
  BY DEF TreeFits, Tree, NodesTyped
<1>4. ASSUME NEW k \in DOMAIN B
      PROVE  /\ BroughtAs(B[k], S[f[k]], w) /\ f[k] \in DOMAIN S /\ n + k \in DOMAIN U
             /\ U[n + k] = B[k] /\ ~B[k].removed /\ B[k].method = S[f[k]].method
             /\ B[k].way \in Seq(Pieces) /\ Keys(B[k].way) \in Paths
  <2>1. f[k] \in DOMAIN S /\ B[k] \in Entries /\ BroughtAs(B[k], S[f[k]], w)
    BY DEF MovedAs
  <2>2. ~B[k].removed /\ B[k].method = S[f[k]].method
    BY <2>1 DEF BroughtAs, SameRoute
  <2>3. n + k \in DOMAIN U /\ U[n + k] = B[k]
    BY DEF JoinedTable
  <2>4. B[k].way \in Seq(Pieces) /\ Keys(B[k].way) \in Paths
    BY <2>1, WayOfEntry
  <2> QED
    BY <2>1, <2>2, <2>3, <2>4
<1>5. ASSUME NEW i \in DOMAIN S, S[i].method = m, NEW q \in Paths, Begins(Root \o q, Keys(S[i].way))
      PROVE  \E k \in DOMAIN B : f[k] = i
  <2>1. S[i].way \in Targets /\ Keys(S[i].way) \in Paths
    BY WayOfEntry
  <2>2. Root \o q \in Paths /\ Begins(Root, Root \o q)
    BY <1>2, Joined
  <2>3. Begins(Root, Keys(S[i].way))
    BY <1>2, <1>5, <2>1, <2>2, BeginsOrder
  <2>4. FromTheRoot(S[i].way)
    BY <2>1, <2>3, RootBegins
  <2> QED
    BY <2>4 DEF MovedAs
<1>6. PICK b \in DOMAIN B : B[b].method = m
  <2>1. Root # << >>
    BY <1>2
  <2>2. PICK i \in Live(S, m) : Begins(Root, Keys(S[i].way))
    BY <1>2, <2>1 DEF TreeFits, NodesFit
  <2>3. i \in DOMAIN S /\ S[i].method = m
    BY DEF Live
  <2>4. FromTheRoot(S[i].way)
    BY <2>2, <2>3, RootBegins, WayOfEntry
  <2>5. PICK k \in DOMAIN B : f[k] = i
    BY <2>3, <2>4 DEF MovedAs
  <2> QED
    BY <1>4, <2>3, <2>5
<1>7. ASSUME NEW k \in DOMAIN T
      PROVE  /\ k \in DOMAIN U /\ U[k].way = T[k].way /\ U[k].handler = T[k].handler
             /\ U[k].method = T[k].method
             /\ T[k].way \in Seq(Pieces) /\ Keys(T[k].way) \in Paths
             /\ k \in Live(U, m) <=> k \in Live(T, m) /\ ~Begins(keys, Keys(T[k].way))
  <2>1. /\ k \in DOMAIN U /\ T[k] \in Entries /\ SameRoute(U[k], T[k]) /\ U[k].way = T[k].way
        /\ U[k].removed = (T[k].removed \/
             (Begins(keys, Keys(T[k].way)) /\ \E c \in DOMAIN B : B[c].method = T[k].method))
    BY <1>1 DEF JoinedTable
  <2>2. U[k].method = T[k].method /\ U[k].handler = T[k].handler
    BY <2>1 DEF SameRoute
  <2>3. T[k].method = m => \E c \in DOMAIN B : B[c].method = T[k].method
    BY <1>6
  <2>4. T[k].method = m => (U[k].removed <=> T[k].removed \/ Begins(keys, Keys(T[k].way)))
    BY <2>1, <2>3
  <2>5. T[k].way \in Seq(Pieces) /\ Keys(T[k].way) \in Paths
    BY <2>1, WayOfEntry
  <2> QED
    BY <2>1, <2>2, <2>4, <2>5 DEF Live
<1>8. ASSUME NEW k \in DOMAIN B PROVE n + k \in Live(U, m) <=> B[k].method = m
  BY <1>4 DEF Live
<1>9. ASSUME NEW k \in DOMAIN U
      PROVE  k \in DOMAIN T \/ \E c \in DOMAIN B : k = n + c
  BY DEF JoinedTable
<1>10. DOMAIN a = {p \in DOMAIN tree \cup {q \in Paths : Begins(q, keys)} : ~Begins(keys, p)}
                    \cup {keys \o q : q \in DOMAIN node}
  BY <1>1 DEF NodeAdded
<1>11. ASSUME NEW q \in Paths
       PROVE  /\ keys \o q \in Paths /\ Begins(keys, keys \o q)
              /\ keys \o q \in DOMAIN a <=> Root \o q \in DOMAIN stree
              /\ Root \o q \in DOMAIN stree => a[keys \o q] = stree[Root \o q]
  <2>1. keys \o q \in Paths /\ Begins(keys, keys \o q)
    BY <1>2, Joined
  <2>2. q \in DOMAIN node <=> Root \o q \in DOMAIN stree
    BY DEF SubtreeOf
  <2>3. ASSUME keys \o q \in DOMAIN a PROVE q \in DOMAIN node
    <3>1. PICK r \in DOMAIN node : keys \o q = keys \o r
      BY <1>10, <2>1, <2>3
    <3>2. r \in Paths
      BY DEF SubtreeOf
    <3> QED
      BY <1>2, <3>1, <3>2, JoinedOrder
  <2>4. q \in DOMAIN node => a[keys \o q] = node[q]
    BY <1>1 DEF NodeAdded
  <2>5. q \in DOMAIN node => node[q] = stree[Root \o q]
    BY DEF SubtreeOf
  <2> QED
    BY <1>10, <2>1, <2>2, <2>3, <2>4, <2>5
<1>12. ASSUME NEW p \in Paths, Begins(keys, p) PROVE \E q \in Paths : p = keys \o q
  BY <1>2, <1>12, Parted
<1>13. ASSUME NEW p \in Paths, ~Begins(keys, p)
       PROVE  p \in DOMAIN a <=> p \in DOMAIN tree \/ Begins(p, keys)
  <2>1. \A q \in DOMAIN node : keys \o q # p
    BY <1>11, <1>13 DEF SubtreeOf
  <2> QED
    BY <1>10, <1>13, <2>1
<1>14. ASSUME NEW p \in DOMAIN a, ~Begins(keys, p)
       PROVE  /\ a[p].handler = IF p \in DOMAIN tree THEN tree[p].handler ELSE None
              /\ a[p].parameter = IF Gives(w, p) THEN w[Len(p) + 1].name
                                 ELSE IF p \in DOMAIN tree THEN tree[p].parameter ELSE ""
  BY <1>1, <1>14 DEF NodeAdded
\* A route of T whose keys begin with a path behind w is replaced.
<1>15. ASSUME NEW p \in Paths, Begins(keys, p), NEW k \in DOMAIN T, Begins(p, Keys(T[k].way))
       PROVE  k \notin Live(U, m)
  <2>1. Begins(keys, Keys(T[k].way))
    BY <1>2, <1>7, <1>15, BeginsOrder
  <2> QED
    BY <1>7, <2>1
<1>16. NodesFit(a, U, m)
  <2> SUFFICES ASSUME NEW p \in Paths
               PROVE  p \in DOMAIN a <=>
                        p = << >> \/ \E k \in Live(U, m) : Begins(p, Keys(U[k].way))
    BY DEF NodesFit
  <2>1. p \in DOMAIN tree <=> p = << >> \/ \E k \in Live(T, m) : Begins(p, Keys(T[k].way))
    BY DEF TreeFits, NodesFit
  <2>2. CASE Begins(keys, p)
    <3>1. PICK q \in Paths : p = keys \o q
      BY <1>12, <2>2
    <3>2. Root \o q \in Paths /\ Root \o q # << >>
      <4>1. Root \o q \in Paths /\ Len(Root \o q) = 1 + Len(q)
        <5>1. Root \in Paths
          BY <1>2
        <5>2. Root \o q \in Paths /\ Len(Root \o q) = Len(Root) + Len(q)
          BY <5>1, Joined
        <5> QED
          BY <1>2, <5>2
      <4>2. Len(q) \in Nat
        BY DEF Paths
      <4>3. Len(Root \o q) # 0
        BY <4>1, <4>2
      <4> QED
        BY <1>2, <4>1, <4>3
    <3>3. Root \o q \in DOMAIN stree <=> \E i \in Live(S, m) : Begins(Root \o q, Keys(S[i].way))
      BY <3>2 DEF TreeFits, NodesFit
    <3>4. ASSUME p \in DOMAIN a PROVE \E k \in Live(U, m) : Begins(p, Keys(U[k].way))
      <4>1. PICK i \in Live(S, m) : Begins(Root \o q, Keys(S[i].way))
        BY <1>11, <3>1, <3>3, <3>4
      <4>2. i \in DOMAIN S /\ S[i].method = m
        BY DEF Live
      <4>3. PICK k \in DOMAIN B : f[k] = i
        BY <1>5, <4>1, <4>2
      <4>4. Begins(p, Keys(B[k].way))
        BY <1>1, <1>4, <3>1, <4>1, <4>3 DEF BroughtAs
      <4> QED
        BY <1>4, <1>8, <4>2, <4>3, <4>4
    <3>5. ASSUME NEW k \in Live(U, m), Begins(p, Keys(U[k].way)) PROVE p \in DOMAIN a
      <4>1. k \in DOMAIN U
        BY DEF Live
      <4>2. k \notin DOMAIN T
        BY <1>7, <1>15, <2>2, <3>5
      <4>3. PICK c \in DOMAIN B : k = n + c
        BY <1>9, <4>1, <4>2
      <4>4. B[c].method = m /\ U[k] = B[c]
        BY <1>4, <1>8, <4>3
      <4>5. Begins(Root \o q, Keys(S[f[c]].way))
        BY <1>1, <1>4, <3>1, <3>5, <4>4 DEF BroughtAs
      <4>6. f[c] \in Live(S, m)
        BY <1>4, <4>4 DEF Live
      <4> QED
        BY <1>11, <3>1, <3>3, <4>5, <4>6
    <3>6. p = << >> => p \in DOMAIN a
      BY DEF Tree
    <3>7. p \in DOMAIN a <=> \E k \in Live(U, m) : Begins(p, Keys(U[k].way))
      BY <3>4, <3>5
    <3> QED
      BY <3>6, <3>7
  <2>3. CASE ~Begins(keys, p)
    <3>1. p \in DOMAIN a <=> p \in DOMAIN tree \/ Begins(p, keys)
      BY <1>13, <2>3
    <3>2. ASSUME Begins(p, keys) PROVE \E k \in Live(U, m) : Begins(p, Keys(U[k].way))
      <4>1. Begins(p, Keys(B[b].way))
        BY <1>1, <1>4, <2>3, <3>2 DEF BroughtAs
      <4> QED
        BY <1>4, <1>6, <1>8, <4>1
    <3>3. ASSUME NEW k \in Live(T, m), Begins(p, Keys(T[k].way))
          PROVE  \E j \in Live(U, m) : Begins(p, Keys(U[j].way))
      <4>1. k \in DOMAIN T
        BY DEF Live
      <4>2. CASE Begins(keys, Keys(T[k].way))
        <5>1. Len(keys) \in Nat /\ Len(p) \in Nat
          BY <1>2 DEF Paths
        <5>2. ~(Len(keys) <= Len(p))
          BY <1>2, <1>7, <2>3, <3>3, <4>1, <4>2, BeginsOrder
        <5>3. Len(p) <= Len(keys)
          BY <5>1, <5>2
        <5>4. Begins(p, keys)
          BY <1>2, <1>7, <3>3, <4>1, <4>2, <5>3, BeginsOrder
        <5> QED
          BY <3>2, <5>4
      <4>3. CASE ~Begins(keys, Keys(T[k].way))
        BY <1>7, <3>3, <4>1, <4>3
      <4> QED
        BY <4>2, <4>3
    <3>4. ASSUME NEW k \in Live(U, m), Begins(p, Keys(U[k].way))
          PROVE  p \in DOMAIN tree \/ Begins(p, keys)
      <4>1. k \in DOMAIN U
        BY DEF Live
      <4>2. CASE k \in DOMAIN T
        BY <1>7, <2>1, <3>4, <4>2
      <4>3. CASE k \notin DOMAIN T
        <5>1. PICK c \in DOMAIN B : k = n + c
          BY <1>9, <4>1, <4>3
        <5> QED
          BY <1>1, <1>4, <2>3, <3>4, <5>1 DEF BroughtAs
      <4> QED
        BY <4>2, <4>3
    <3>5. p = << >> => p \in DOMAIN a
      BY DEF Tree
    <3> QED
      BY <2>1, <3>1, <3>2, <3>3, <3>4, <3>5
  <2> QED
    BY <2>2, <2>3
<1>17. HandlersFit(a, U, m)
  <2> SUFFICES ASSUME NEW p \in DOMAIN a
               PROVE  \/ a[p].handler = None /\ \A k \in Live(U, m) : Keys(U[k].way) # p
                      \/ \E k \in DOMAIN U : LastWith(U, m, p, k) /\ a[p].handler = U[k].handler
    BY DEF HandlersFit
  <2>1. p \in Paths
    BY <1>3
  <2>2. CASE Begins(keys, p)
    <3>1. PICK q \in Paths : p = keys \o q
      BY <1>12, <2>1, <2>2
    <3>2. Root \o q \in DOMAIN stree /\ a[p].handler = stree[Root \o q].handler
      BY <1>11, <3>1
    <3>3. \A k \in DOMAIN T : k \in Live(U, m) => Keys(U[k].way) # p
      <4> TAKE k \in DOMAIN T
      <4>1. Keys(U[k].way) = p => Begins(p, Keys(T[k].way))
        BY <1>7, <2>1, BeginsOrder
      <4> QED
        BY <1>15, <2>1, <2>2, <4>1
    <3>4. ASSUME NEW c \in DOMAIN B, B[c].method = m, Keys(B[c].way) = p
          PROVE  f[c] \in Live(S, m) /\ Keys(S[f[c]].way) = Root \o q
      <4>1. Keys(S[f[c]].way) = Root \o q
        BY <1>1, <1>4, <3>1, <3>4 DEF BroughtAs
      <4>2. f[c] \in Live(S, m)
        BY <1>4, <3>4 DEF Live
      <4> QED
        BY <4>1, <4>2
    <3>5. CASE stree[Root \o q].handler = None /\ \A i \in Live(S, m) : Keys(S[i].way) # Root \o q
      <4>1. ASSUME NEW k \in Live(U, m) PROVE Keys(U[k].way) # p
        <5>1. CASE k \in DOMAIN T
          BY <3>3, <5>1
        <5>2. CASE k \notin DOMAIN T
          <6>1. PICK c \in DOMAIN B : k = n + c
            BY <1>9, <5>2 DEF Live
          <6>2. U[k] = B[c] /\ B[c].method = m
            BY <1>4, <1>8, <6>1
          <6> QED
            BY <3>4, <3>5, <6>2
        <5> QED
          BY <5>1, <5>2
      <4> QED
        BY <3>2, <3>5, <4>1
    <3>6. ASSUME NEW i \in DOMAIN S, LastWith(S, m, Root \o q, i),
                 stree[Root \o q].handler = S[i].handler
          PROVE  \E k \in DOMAIN U : LastWith(U, m, p, k) /\ a[p].handler = U[k].handler
      <4>1. S[i].method = m /\ Keys(S[i].way) = Root \o q
        BY <3>6 DEF LastWith, Live
      <4>2. Begins(Root \o q, Keys(S[i].way))
        BY <4>1, <1>3, <3>2, BeginsOrder
      <4>3. PICK c \in DOMAIN B : f[c] = i
        BY <1>5, <4>1, <4>2
      <4>4. /\ U[n + c] = B[c] /\ Keys(B[c].way) = p /\ n + c \in Live(U, m)
            /\ n + c \in DOMAIN U /\ U[n + c].handler = S[i].handler
        BY <1>1, <1>4, <1>8, <3>1, <4>1, <4>3 DEF BroughtAs, SameRoute
      <4>5. ASSUME NEW j \in Live(U, m), Keys(U[j].way) = p PROVE j <= n + c
        <5>1. j \notin DOMAIN T
          BY <3>3, <4>5
        <5>2. PICK d \in DOMAIN B : j = n + d
          BY <1>9, <5>1 DEF Live
        <5>3. B[d].method = m /\ Keys(B[d].way) = p
          BY <1>4, <1>8, <4>5, <5>2
        <5>4. f[d] <= f[c]
          BY <3>4, <3>6, <4>3, <5>3 DEF LastWith
        <5>5. /\ n \in Nat /\ c \in Nat /\ d \in Nat /\ f[c] \in Nat /\ f[d] \in Nat
              /\ (c < d => f[c] < f[d])
          BY DEF JoinedTable, MovedAs
        <5>6. d <= c
          BY <5>4, <5>5
        <5> QED
          BY <5>2, <5>5, <5>6
      <4> QED
        BY <3>2, <3>6, <4>4, <4>5 DEF LastWith
    <3> QED
      BY <3>2, <3>5, <3>6 DEF TreeFits, HandlersFit
  <2>3. CASE ~Begins(keys, p)
    <3>1. a[p].handler = IF p \in DOMAIN tree THEN tree[p].handler ELSE None
      BY <1>14, <2>3
    <3>2. ASSUME NEW j \in Live(U, m), Keys(U[j].way) = p
          PROVE  j \in Live(T, m) /\ Keys(T[j].way) = p
      <4>1. j \in DOMAIN U
        BY DEF Live
      <4>2. CASE j \in DOMAIN T
        BY <1>7, <3>2, <4>2
      <4>3. CASE j \notin DOMAIN T
        <5>1. PICK c \in DOMAIN B : j = n + c
          BY <1>9, <4>1, <4>3
        <5>2. Begins(keys, Keys(B[c].way)) /\ U[j] = B[c]
          BY <1>1, <1>4, <5>1 DEF BroughtAs
        <5> QED
          BY <2>3, <3>2, <5>2
      <4> QED
        BY <4>2, <4>3
    <3>3. CASE p \in DOMAIN tree
      <4>1. CASE tree[p].handler = None /\ \A k \in Live(T, m) : Keys(T[k].way) # p
        BY <3>1, <3>2, <3>3, <4>1
      <4>2. ASSUME NEW k \in DOMAIN T, LastWith(T, m, p, k), tree[p].handler = T[k].handler
            PROVE  k \in DOMAIN U /\ LastWith(U, m, p, k) /\ a[p].handler = U[k].handler
        <5>1. k \in Live(T, m) /\ Keys(T[k].way) = p
          BY <4>2 DEF LastWith
        <5>2. k \in DOMAIN U /\ k \in Live(U, m) /\ Keys(U[k].way) = p
          BY <1>7, <2>3, <5>1
        <5>3. a[p].handler = U[k].handler
          BY <1>7, <3>1, <3>3, <4>2
        <5>4. \A j \in Live(U, m) : Keys(U[j].way) = p => j <= k
          BY <3>2, <4>2 DEF LastWith
        <5> QED
          BY <5>2, <5>3, <5>4 DEF LastWith
      <4> QED
        BY <3>3, <4>1, <4>2 DEF TreeFits, HandlersFit
    <3>4. CASE p \notin DOMAIN tree
      <4>1. \A k \in Live(T, m) : Keys(T[k].way) # p
        BY <2>1, <3>4, BeginsOrder DEF TreeFits, NodesFit
      <4> QED
        BY <3>1, <3>2, <3>4, <4>1
    <3> QED
      BY <3>3, <3>4
  <2> QED
    BY <2>2, <2>3
<1>18. ParametersFit(a, U, m)
  <2> SUFFICES ASSUME NEW p \in DOMAIN a, a[p].parameter # ""
               PROVE  \E k \in DOMAIN U : U[k].method = m /\ GivesName(U[k].way, p, a[p].parameter)
    BY DEF ParametersFit
  <2>1. p \in Paths
    BY <1>3
  <2>2. CASE Begins(keys, p)
    <3>1. PICK q \in Paths : p = keys \o q
      BY <1>12, <2>1, <2>2
    <3>2. Root \o q \in DOMAIN stree /\ a[p] = stree[Root \o q]
      BY <1>11, <3>1
    <3>3. PICK i \in DOMAIN S : S[i].method = m /\ GivesName(S[i].way, Root \o q, a[p].parameter)
      BY <3>2 DEF TreeFits, ParametersFit
    <3>4. Begins(Root \o q, Keys(S[i].way))
      BY <3>3 DEF GivesName, Gives
    <3>5. PICK c \in DOMAIN B : f[c] = i
      BY <1>5, <3>3, <3>4
    <3>6. GivesName(B[c].way, p, a[p].parameter)
      BY <1>1, <1>4, <3>1, <3>3, <3>5 DEF BroughtAs
    <3> QED
      BY <1>4, <3>3, <3>5, <3>6
  <2>3. CASE ~Begins(keys, p) /\ Gives(w, p)
    <3>1. GivesName(w, p, a[p].parameter)
      BY <1>14, <2>3 DEF GivesName
    <3>2. GivesName(B[b].way, p, a[p].parameter)
      BY <1>1, <1>4, <2>1, <2>3, <3>1 DEF BroughtAs
    <3> QED
      BY <1>4, <1>6, <3>2
  <2>4. CASE ~Begins(keys, p) /\ ~Gives(w, p)
    <3>1. p \in DOMAIN tree /\ a[p].parameter = tree[p].parameter
      BY <1>14, <2>4
    <3>2. PICK k \in DOMAIN T : T[k].method = m /\ GivesName(T[k].way, p, tree[p].parameter)
      BY <3>1 DEF TreeFits, ParametersFit
    <3> QED
      BY <1>7, <3>1, <3>2
  <2> QED
    BY <2>2, <2>3, <2>4
<1>19. ParametersKept(a, U, m)
  <2> SUFFICES ASSUME ParametersHaveNames, NEW p \in DOMAIN a, NEW k \in Live(U, m),
                      Gives(U[k].way, p)
               PROVE  a[p].parameter # ""
    BY DEF ParametersKept
  <2>1. p \in Paths /\ k \in DOMAIN U
    BY <1>3 DEF Live
  <2>2. Begins(p, Keys(U[k].way))
    BY DEF Gives
  <2>3. CASE Begins(keys, p)
    <3>1. PICK q \in Paths : p = keys \o q
      BY <1>12, <2>1, <2>3
    <3>2. Root \o q \in DOMAIN stree /\ a[p] = stree[Root \o q]
      BY <1>11, <3>1
    <3>3. k \notin DOMAIN T
      BY <1>7, <1>15, <2>1, <2>2, <2>3
    <3>4. PICK c \in DOMAIN B : k = n + c
      BY <1>9, <2>1, <3>3
    <3>5. B[c].method = m /\ U[k] = B[c]
      BY <1>4, <1>8, <3>4
    <3>6. Gives(S[f[c]].way, Root \o q)
      BY <1>1, <1>4, <3>1, <3>4, <3>5 DEF BroughtAs
    <3>7. f[c] \in Live(S, m)
      BY <1>4, <3>5 DEF Live
    <3> QED
      BY <3>2, <3>6, <3>7 DEF TreeFits, ParametersKept
  <2>4. CASE ~Begins(keys, p) /\ Gives(w, p)
    <3>1. w[Len(p) + 1].name # ""
      BY <1>2, <2>1, <2>4, GivenName
    <3> QED
      BY <1>14, <2>4, <3>1
  <2>5. CASE ~Begins(keys, p) /\ ~Gives(w, p)
    <3>1. k \in DOMAIN T
      <4>1. ASSUME NEW c \in DOMAIN B, k = n + c PROVE FALSE
        BY <1>1, <1>4, <2>1, <2>5, <4>1 DEF BroughtAs
      <4> QED
        BY <1>9, <2>1, <4>1
    <3>2. k \in Live(T, m) /\ Gives(T[k].way, p)
      BY <1>7, <3>1
    <3>3. p \in DOMAIN tree
      BY <2>1, <2>2, <3>1, <3>2, <1>7 DEF TreeFits, NodesFit
    <3>4. tree[p].parameter # ""
      BY <3>2, <3>3 DEF TreeFits, ParametersKept
    <3> QED
      BY <1>14, <2>5, <3>3, <3>4
  <2> QED
    BY <2>3, <2>4, <2>5
<1> QED
  BY <1>16, <1>17, <1>18, <1>19 DEF TreeFits

-----------------------------------------------------------------------------
(* Induction *)

LEMMA LeastElement ==
    ASSUME NEW D, D \subseteq Nat, D # {}
    PROVE  \E d \in D : \A e \in D : d <= e
<1> DEFINE R == OpToRel(<, Nat)
<1>1. IsWellFoundedOn(R, Nat)
  BY NatLessThanWellFounded
<1> HIDE DEF R
<1>2. PICK d \in D : \A e \in D : <<e, d>> \notin R
  BY <1>1, WFMin
<1>3. \A e \in D : ~(e < d)
  <2> TAKE e \in D
  <2>1. <<e, d>> \in Nat \X Nat
    OBVIOUS
  <2>2. e < d => <<e, d>> \in R
    BY <2>1 DEF R, OpToRel
  <2> QED
    BY <1>2, <2>2
<1>4. \A e \in D : e \in Nat /\ d \in Nat
  OBVIOUS
<1> QED
  BY <1>3, <1>4

LEMMA InductionOnSet ==
    ASSUME NEW S, 0 \in S, \A n \in Nat : n \in S => n + 1 \in S
    PROVE  Nat \subseteq S
<1> SUFFICES ASSUME ~(Nat \subseteq S) PROVE FALSE
  OBVIOUS
<1>1. Nat \ S # {} /\ Nat \ S \subseteq Nat
  OBVIOUS
<1>2. PICK d \in Nat \ S : \A e \in Nat \ S : d <= e
  BY <1>1, LeastElement
<1>3. d # 0
  BY <1>2
<1>4. d - 1 \in Nat /\ (d - 1) + 1 = d
  BY <1>2, <1>3
<1>5. d - 1 \in S
  BY <1>2, <1>4
<1> QED
  BY <1>2, <1>4, <1>5

-----------------------------------------------------------------------------
(* The routes sub_route takes *)

Collect(t, numbers, n) == IF FromTheRoot(t[n].way) THEN Append(numbers, n) ELSE numbers

\* A function that the recursion of FromRoot describes up to number m.
Collecting(t, g, m) ==
    g = [n \in 0 .. m |-> IF n = 0 THEN << >> ELSE Collect(t, g[n - 1], n)]

LEMMA CollectingExists ==
    ASSUME NEW t, NEW L \in Nat
    PROVE  \E g : Collecting(t, g, L)
<1> DEFINE S == {m \in Nat : \E g : Collecting(t, g, m)}
<1>1. 0 \in S
  <2> DEFINE g == [n \in 0 .. 0 |-> << >>]
  <2>1. Collecting(t, g, 0)
    BY DEF Collecting
  <2> QED
    BY <2>1
<1>2. ASSUME NEW m \in Nat, m \in S PROVE m + 1 \in S
  <2>1. PICK g : Collecting(t, g, m)
    BY <1>2
  <2> DEFINE next == Collect(t, g[m], m + 1)
             h    == [n \in 0 .. m + 1 |-> IF n = m + 1 THEN next ELSE g[n]]
             h1   == [n \in 0 .. m + 1 |->
                        IF n = 0 THEN << >> ELSE Collect(t, h[n - 1], n)]
  <2>2. ASSUME NEW n \in 0 .. m + 1
        PROVE  h[n] = IF n = 0 THEN << >> ELSE Collect(t, h[n - 1], n)
    <3>1. CASE n = 0
      BY <2>1, <3>1 DEF Collecting
    <3>2. CASE n = m + 1
      <4>1. h[n] = next /\ n # 0 /\ n - 1 = m
        BY <3>2
      <4>2. h[n - 1] = g[m]
        BY <4>1
      <4> QED
        BY <3>2, <4>1, <4>2
    <3>3. CASE n # 0 /\ n # m + 1
      <4>1. n \in 1 .. m /\ n - 1 \in 0 .. m
        BY <3>3
      <4>2. h[n] = g[n] /\ h[n - 1] = g[n - 1]
        BY <4>1
      <4>3. g[n] = Collect(t, g[n - 1], n)
        BY <2>1, <4>1 DEF Collecting
      <4> QED
        BY <3>3, <4>2, <4>3
    <3> QED
      BY <3>1, <3>2, <3>3
  <2> HIDE DEF next
  <2>3. h = h1
    BY <2>2, Zenon
  <2>4. Collecting(t, h, m + 1)
    BY <2>3 DEF Collecting
  <2> QED
    BY <2>4
<1>3. Nat \subseteq S
  <2> HIDE DEF S
  <2> QED
    BY <1>1, <1>2, InductionOnSet
<1> QED
  BY <1>3

LEMMA FromRootUnfolds ==
    ASSUME NEW t, Len(t) \in Nat
    PROVE  /\ FromRoot(t)[0] = << >>
           /\ \A n \in 1 .. Len(t) :
                FromRoot(t)[n] = Collect(t, FromRoot(t)[n - 1], n)
<1> DEFINE R == FromRoot(t)
<1>1. R = CHOOSE g : Collecting(t, g, Len(t))
  BY DEF FromRoot, Collecting, Collect, FromTheRoot
<1>2. Collecting(t, R, Len(t))
  BY <1>1, CollectingExists
<1> HIDE DEF R
<1>3. R[0] = << >>
  BY <1>2 DEF Collecting
<1>4. \A n \in 1 .. Len(t) : R[n] = Collect(t, R[n - 1], n)
  <2> TAKE n \in 1 .. Len(t)
  <2>1. n \in 0 .. Len(t) /\ n # 0
    OBVIOUS
  <2> QED
    BY <1>2, <2>1 DEF Collecting
<1> QED
  BY <1>3, <1>4 DEF R

\* The numbers of the routes from the root among the first n.
Collects(f, S, n) ==
    /\ f \in Seq(Nat)
    /\ \A k \in 1 .. Len(f) : f[k] \in 1 .. n /\ FromTheRoot(S[f[k]].way)
    /\ \A i \in 1 .. n : FromTheRoot(S[i].way) => \E k \in 1 .. Len(f) : f[k] = i
    /\ \A j, k \in 1 .. Len(f) : j < k => f[j] < f[k]

LEMMA CollectsNext ==
    ASSUME NEW f, NEW S, NEW n \in Nat, Collects(f, S, n)
    PROVE  Collects(Collect(S, f, n + 1), S, n + 1)
<1>1. f \in Seq(Nat) /\ Len(f) \in Nat /\ n + 1 \in Nat
  BY DEF Collects
<1>2. CASE FromTheRoot(S[n + 1].way)
  <2>1. PICK m, g : m = n + 1 /\ g = Append(f, m)
    OBVIOUS
  <2>2. /\ g \in Seq(Nat) /\ Len(g) = Len(f) + 1 /\ g[Len(f) + 1] = m
        /\ \A k \in 1 .. Len(f) : g[k] = f[k]
    BY <1>1, <2>1, AppendProperties
  <2>3. Collect(S, f, m) = g
    BY <1>2, <2>1 DEF Collect
  <2>4. \A k \in 1 .. Len(g) : k \in 1 .. Len(f) \/ k = Len(f) + 1
    BY <1>1, <2>2
  <2>5. \A i \in 1 .. m : i \in 1 .. n \/ i = m
    BY <2>1
  <2>6. \A k \in 1 .. Len(f) : k \in 1 .. Len(g) /\ k < Len(f) + 1
    BY <1>1, <2>2
  <2>7. Len(f) + 1 \in 1 .. Len(g)
    BY <1>1, <2>2
  <2>8. ASSUME NEW k \in 1 .. Len(g) PROVE g[k] \in 1 .. m /\ FromTheRoot(S[g[k]].way)
    <3>1. CASE k \in 1 .. Len(f)
      <4>1. f[k] \in 1 .. n /\ FromTheRoot(S[f[k]].way) /\ g[k] = f[k]
        BY <2>2, <3>1 DEF Collects
      <4>2. f[k] \in 1 .. m
        BY <2>1, <4>1
      <4> QED
        BY <4>1, <4>2
    <3>2. CASE k = Len(f) + 1
      <4>1. m \in 1 .. m
        BY <2>1
      <4> QED
        BY <1>2, <2>1, <2>2, <3>2, <4>1
    <3> QED
      BY <2>4, <3>1, <3>2
  <2>9. ASSUME NEW i \in 1 .. m, FromTheRoot(S[i].way) PROVE \E k \in 1 .. Len(g) : g[k] = i
    <3>1. CASE i \in 1 .. n
      <4>1. PICK k \in 1 .. Len(f) : f[k] = i
        BY <2>9, <3>1 DEF Collects
      <4> QED
        BY <2>2, <2>6, <4>1
    <3>2. CASE i = m
      BY <2>2, <2>7, <3>2
    <3> QED
      BY <2>5, <3>1, <3>2
  <2>10. ASSUME NEW j \in 1 .. Len(g), NEW k \in 1 .. Len(g), j < k PROVE g[j] < g[k]
    <3>1. j \in 1 .. Len(f)
      BY <1>1, <2>2, <2>10
    <3>2. g[j] = f[j] /\ f[j] \in 1 .. n
      BY <2>2, <3>1 DEF Collects
    <3>3. CASE k \in 1 .. Len(f)
      BY <2>2, <2>10, <3>1, <3>2, <3>3 DEF Collects
    <3>4. CASE k = Len(f) + 1
      BY <2>1, <2>2, <3>2, <3>4
    <3> QED
      BY <2>4, <3>3, <3>4
  <2> QED
    BY <2>1, <2>2, <2>3, <2>8, <2>9, <2>10 DEF Collects
<1>3. CASE ~FromTheRoot(S[n + 1].way)
  <2>1. Collect(S, f, n + 1) = f
    BY <1>3 DEF Collect
  <2>2. \A i \in 1 .. n + 1 : i \in 1 .. n \/ i = n + 1
    OBVIOUS
  <2>3. \A i \in 1 .. n : i \in 1 .. n + 1
    OBVIOUS
  <2> QED
    BY <1>3, <2>1, <2>2, <2>3 DEF Collects
<1> QED
  BY <1>2, <1>3

LEMMA FromRootCollects ==
    ASSUME NEW S, Len(S) \in Nat
    PROVE  Collects(FromRoot(S)[Len(S)], S, Len(S))
<1> DEFINE D == {n \in Nat : n <= Len(S) => Collects(FromRoot(S)[n], S, n)}
<1>1. 0 \in D
  <2>1. FromRoot(S)[0] = << >>
    BY FromRootUnfolds
  <2>2. PICK f : f = << >>
    OBVIOUS
  <2>3. f \in Seq(Nat) /\ Len(f) = 0
    BY <2>2
  <2>4. 1 .. 0 = {}
    OBVIOUS
  <2>5. Collects(f, S, 0)
    BY <2>3, <2>4 DEF Collects
  <2> QED
    BY <2>1, <2>2, <2>5
<1>2. ASSUME NEW n \in Nat, n \in D PROVE n + 1 \in D
  <2> SUFFICES ASSUME n + 1 <= Len(S) PROVE Collects(FromRoot(S)[n + 1], S, n + 1)
    OBVIOUS
  <2>1. n + 1 \in 1 .. Len(S) /\ (n + 1) - 1 = n /\ n <= Len(S)
    OBVIOUS
  <2>2. FromRoot(S)[n + 1] = Collect(S, FromRoot(S)[n], n + 1)
    BY <2>1, FromRootUnfolds
  <2>3. Collects(FromRoot(S)[n], S, n)
    BY <1>2, <2>1
  <2> QED
    BY <2>2, <2>3, CollectsNext
<1>3. Nat \subseteq D
  <2> HIDE DEF D
  <2> QED
    BY <1>1, <1>2, InductionOnSet
<1> QED
  BY <1>3

-----------------------------------------------------------------------------
(* The walk of find *)

AtTheRoot == [path |-> << >>, params |-> << >>]

\* A function that the recursion of Walks describes up to number m.
Walking(tree, t, g, m) ==
    g = [n \in 0 .. m |-> IF n = 0 THEN AtTheRoot ELSE Step(tree, g[n - 1], t[n])]

LEMMA WalkingExists ==
    ASSUME NEW tree, NEW t, NEW L \in Nat
    PROVE  \E g : Walking(tree, t, g, L)
<1> DEFINE S == {m \in Nat : \E g : Walking(tree, t, g, m)}
<1>1. 0 \in S
  <2> DEFINE g == [n \in 0 .. 0 |-> AtTheRoot]
  <2>1. Walking(tree, t, g, 0)
    BY DEF Walking
  <2> QED
    BY <2>1
<1>2. ASSUME NEW m \in Nat, m \in S PROVE m + 1 \in S
  <2>1. PICK g : Walking(tree, t, g, m)
    BY <1>2
  <2> DEFINE next == Step(tree, g[m], t[m + 1])
             h    == [n \in 0 .. m + 1 |-> IF n = m + 1 THEN next ELSE g[n]]
             h1   == [n \in 0 .. m + 1 |->
                        IF n = 0 THEN AtTheRoot ELSE Step(tree, h[n - 1], t[n])]
  <2>2. ASSUME NEW n \in 0 .. m + 1
        PROVE  h[n] = IF n = 0 THEN AtTheRoot ELSE Step(tree, h[n - 1], t[n])
    <3>1. CASE n = 0
      BY <2>1, <3>1 DEF Walking
    <3>2. CASE n = m + 1
      <4>1. h[n] = next /\ n # 0 /\ n - 1 = m
        BY <3>2
      <4>2. h[n - 1] = g[m]
        BY <4>1
      <4> QED
        BY <3>2, <4>1, <4>2
    <3>3. CASE n # 0 /\ n # m + 1
      <4>1. n \in 1 .. m /\ n - 1 \in 0 .. m
        BY <3>3
      <4>2. h[n] = g[n] /\ h[n - 1] = g[n - 1]
        BY <4>1
      <4>3. g[n] = Step(tree, g[n - 1], t[n])
        BY <2>1, <4>1 DEF Walking
      <4> QED
        BY <3>3, <4>2, <4>3
    <3> QED
      BY <3>1, <3>2, <3>3
  <2> HIDE DEF next
  <2>3. h = h1
    BY <2>2, Zenon
  <2>4. Walking(tree, t, h, m + 1)
    BY <2>3 DEF Walking
  <2> QED
    BY <2>4
<1>3. Nat \subseteq S
  <2> HIDE DEF S
  <2> QED
    BY <1>1, <1>2, InductionOnSet
<1> QED
  BY <1>3

LEMMA WalksUnfolds ==
    ASSUME NEW tree, NEW t, Len(t) \in Nat
    PROVE  /\ Walks(tree, t)[0] = AtTheRoot
           /\ \A n \in 1 .. Len(t) :
                Walks(tree, t)[n] = Step(tree, Walks(tree, t)[n - 1], t[n])
<1> DEFINE R == Walks(tree, t)
<1>1. R = CHOOSE g : Walking(tree, t, g, Len(t))
  BY DEF Walks, Walking, AtTheRoot
<1>2. Walking(tree, t, R, Len(t))
  BY <1>1, WalkingExists
<1> HIDE DEF R
<1>3. R[0] = AtTheRoot
  BY <1>2 DEF Walking
<1>4. \A n \in 1 .. Len(t) : R[n] = Step(tree, R[n - 1], t[n])
  <2> TAKE n \in 1 .. Len(t)
  <2>1. n \in 0 .. Len(t) /\ n # 0
    OBVIOUS
  <2> QED
    BY <1>2, <2>1 DEF Walking
<1> QED
  BY <1>3, <1>4 DEF R

-----------------------------------------------------------------------------
(* Routers *)

IsRouter(r) == r = [handlers |-> r.handlers, files |-> r.files, fallback |-> r.fallback]

\* A router holds trees for the methods of the table, and they fit it.
Fits(r, T) ==
    /\ DOMAIN r.handlers = {T[k].method : k \in DOMAIN T}
    /\ \A m \in Methods : TreeFits(TreeOf(r, m), T, m)

\* q is r with other fields.
With(q, h, f, b) ==
    IsRouter(q) /\ q.handlers = h /\ q.files = f /\ q.fallback = b

LEMMA RouterWith ==
    ASSUME NEW r, IsRouter(r), NEW x
    PROVE  /\ With([r EXCEPT !.handlers = x], x, r.files, r.fallback)
           /\ With([r EXCEPT !.files = x], r.handlers, x, r.fallback)
           /\ With([r EXCEPT !.fallback = x], r.handlers, r.files, x)
<1>1. PICK h, f, b : h = r.handlers /\ f = r.files /\ b = r.fallback
  OBVIOUS
<1>2. r = [handlers |-> h, files |-> f, fallback |-> b]
  BY <1>1 DEF IsRouter
<1>3. [r EXCEPT !.handlers = x] = [handlers |-> x, files |-> f, fallback |-> b]
  BY <1>2
<1>4. [r EXCEPT !.files = x] = [handlers |-> h, files |-> x, fallback |-> b]
  BY <1>2
<1>5. [r EXCEPT !.fallback = x] = [handlers |-> h, files |-> f, fallback |-> x]
  BY <1>2
<1>6. \A u, v, w : With([handlers |-> u, files |-> v, fallback |-> w], u, v, w)
  BY DEF With, IsRouter
<1> QED
  BY <1>1, <1>3, <1>4, <1>5, <1>6

\* Router::add
LEMMA RouterAdds ==
    ASSUME NEW r, IsRouter(r), NEW m, NEW target, Accepts(target), NEW h
    PROVE  With(add(r, m, target, h),
                Assign(r.handlers, m, AddHandler(TreeOf(r, m), target, h)), r.files, r.fallback)
<1>1. PICK x : x = Assign(r.handlers, m, AddHandler(TreeOf(r, m), target, h))
  OBVIOUS
<1>2. add(r, m, target, h) = [r EXCEPT !.handlers = x]
  BY <1>1, Zenon DEF add
<1> QED
  BY <1>1, <1>2, RouterWith, Zenon

Get == "GET"

LEMMA RouterServes ==
    ASSUME NEW r, IsRouter(r), NEW target, Accepts(target), NEW h, NEW file
    PROVE  With(serve_static(r, target, h, file),
                Assign(r.handlers, Get, AddHandler(TreeOf(r, Get), target, h)),
                Assign(r.files, target, file), r.fallback)
<1>1. PICK a, x : /\ a = add(r, Get, target, h)
                 /\ x = Assign(r.handlers, Get, AddHandler(TreeOf(r, Get), target, h))
  OBVIOUS
<1>2. With(a, x, r.files, r.fallback)
  BY <1>1, RouterAdds
<1>3. PICK y : y = Assign(r.files, target, file)
  OBVIOUS
<1>4. serve_static(r, target, h, file) = [a EXCEPT !.files = y]
  <2>1. serve_static(r, target, h, file) = [a EXCEPT !.files = Assign(@, target, file)]
    BY <1>1, Zenon DEF serve_static, Get
  <2> QED
    BY <1>2, <1>3, <2>1 DEF With
<1>5. With([a EXCEPT !.files = y], a.handlers, y, a.fallback)
  <2>1. IsRouter(a)
    BY <1>2 DEF With
  <2> QED
    BY <2>1, RouterWith, Zenon
<1> QED
  BY <1>1, <1>2, <1>3, <1>4, <1>5 DEF With

\* The new route of a method, and the routes of the others.
LEMMA FitsAdded ==
    ASSUME NEW r, NEW T \in Seq(Entries), Fits(r, T), NEW e \in Entries,
           NEW target \in Targets, Accepts(target), LeadsTo(e.way, target), ~e.removed,
           ParametersHaveNames => Named(target),
           NEW q, q.handlers =
                Assign(r.handlers, e.method, AddHandler(TreeOf(r, e.method), target, e.handler))
    PROVE  Fits(q, Append(T, e))
<1>1. PICK n, U, a : n = Len(T) + 1 /\ U = Append(T, e)
                     /\ a = AddHandler(TreeOf(r, e.method), target, e.handler)
  OBVIOUS
<1>2. /\ U[n] = e /\ DOMAIN U = DOMAIN T \cup {n}
      /\ \A k \in DOMAIN T : U[k] = T[k]
  BY <1>1, Appended
<1>3. /\ DOMAIN q.handlers = DOMAIN r.handlers \cup {e.method}
      /\ q.handlers[e.method] = a
      /\ \A k \in DOMAIN r.handlers : k # e.method => q.handlers[k] = r.handlers[k]
  <2>1. PICK x : x = Assign(r.handlers, e.method, a)
    OBVIOUS
  <2>2. /\ DOMAIN x = DOMAIN r.handlers \cup {e.method} /\ x[e.method] = a
        /\ \A k \in DOMAIN r.handlers : k # e.method => x[k] = r.handlers[k]
    BY <2>1 DEF Assign
  <2>3. q.handlers = x
    BY <1>1, <2>1
  <2> QED
    BY <2>2, <2>3
<1>4. e.method \in Methods
  BY EntryFields
<1>5. DOMAIN q.handlers = {U[k].method : k \in DOMAIN U}
  BY <1>2, <1>3 DEF Fits
<1>6. TreeFits(TreeOf(q, e.method), U, e.method)
  <2>1. TreeOf(q, e.method) = a
    BY <1>3 DEF TreeOf
  <2>2. TreeFits(TreeOf(r, e.method), T, e.method)
    BY <1>4 DEF Fits
  <2>3. TreeFits(a, U, e.method)
    BY <1>1, <2>2, RouteAdded
  <2> QED
    BY <2>1, <2>3
<1>7. ASSUME NEW m \in Methods, m # e.method PROVE TreeFits(TreeOf(q, m), U, m)
  <2>1. TreeOf(q, m) = TreeOf(r, m)
    BY <1>3, <1>7 DEF TreeOf
  <2>2. TreeFits(TreeOf(r, m), T, m)
    BY DEF Fits
  <2> QED
    BY <1>1, <1>7, <2>1, <2>2, OtherRoute
<1>8. Fits(q, U)
  BY <1>5, <1>6, <1>7 DEF Fits
<1> QED
  BY <1>1, <1>8

-----------------------------------------------------------------------------
(* Router::sub_route *)

\* The methods other has routes from the root for.
RootMethods(other) == {m \in DOMAIN other.handlers : Root \in DOMAIN other.handlers[m]}

Behind(r, prefix, other, m) ==
    AddNode(TreeOf(r, m), prefix, Subtree(other.handlers[m], ""))

LEMMA RouterJoins ==
    ASSUME NEW r, IsRouter(r), NEW prefix, NEW other
    PROVE  LET q == sub_route(r, prefix, other)
               methods == RootMethods(other)
           IN  /\ IsRouter(q) /\ q.files = r.files /\ q.fallback = r.fallback
               /\ DOMAIN q.handlers = DOMAIN r.handlers \cup methods
               /\ \A m : TreeOf(q, m) = IF m \in methods THEN Behind(r, prefix, other, m)
                                                         ELSE TreeOf(r, m)
<1>1. PICK methods : methods = RootMethods(other)
  OBVIOUS
<1>2. PICK x : x = [m \in DOMAIN r.handlers \cup methods |->
                      IF m \notin methods THEN TreeOf(r, m) ELSE Behind(r, prefix, other, m)]
  OBVIOUS
<1>3. PICK q : q = sub_route(r, prefix, other)
  OBVIOUS
<1>4. q = [r EXCEPT !.handlers = x]
  BY <1>1, <1>2, <1>3, Zenon DEF sub_route, RootMethods, Behind, Root
<1>5. IsRouter(q) /\ q.handlers = x /\ q.files = r.files /\ q.fallback = r.fallback
  BY <1>4, RouterWith, ZenonT(60) DEF With
<1>6. ASSUME NEW m PROVE TreeOf(q, m) = IF m \in methods THEN Behind(r, prefix, other, m)
                                                         ELSE TreeOf(r, m)
  <2>1. CASE m \in DOMAIN x
    BY <1>2, <1>5, <2>1 DEF TreeOf
  <2>2. CASE m \notin DOMAIN x
    BY <1>2, <1>5, <2>2 DEF TreeOf
  <2> QED
    BY <2>1, <2>2
<1> QED
  BY <1>1, <1>2, <1>3, <1>5, <1>6

-----------------------------------------------------------------------------
(* The router after sub_route *)

NoneRemoved(S) == \A i \in DOMAIN S : S[i] \in Entries /\ ~S[i].removed

\* sub_route joins the methods of the routes it brings.
LEMMA MethodsBrought ==
    ASSUME NEW other, NEW S, NEW B, NEW w, NEW f,
           Fits(other, S), NoneRemoved(S), MovedAs(B, S, w, f)
    PROVE  /\ RootMethods(other) = {B[k].method : k \in DOMAIN B}
           /\ RootMethods(other) \subseteq Methods
<1>1. Root \in Paths /\ Root # << >>
  <2>1. Root \in Paths /\ Len(Root) = 1 /\ Len(<< >>) = 0
    BY RootPath, EmptyPath
  <2> QED
    BY <2>1
<1>2. ASSUME NEW m \in RootMethods(other) PROVE m \in Methods /\ \E k \in DOMAIN B : B[k].method = m
  <2>1. m \in DOMAIN other.handlers /\ Root \in DOMAIN TreeOf(other, m)
    BY DEF RootMethods, TreeOf
  <2>2. m \in Methods
    BY <2>1, EntryFields DEF Fits, NoneRemoved
  <2>3. PICK i \in Live(S, m) : Begins(Root, Keys(S[i].way))
    BY <1>1, <2>1, <2>2 DEF Fits, TreeFits, NodesFit
  <2>4. i \in DOMAIN S /\ S[i].method = m /\ S[i] \in Entries
    BY DEF Live, NoneRemoved
  <2>5. FromTheRoot(S[i].way)
    BY <2>3, <2>4, WayOfEntry, RootBegins
  <2>6. PICK k \in DOMAIN B : f[k] = i
    BY <2>4, <2>5 DEF MovedAs
  <2>7. B[k].method = m
    BY <2>4, <2>6 DEF MovedAs, BroughtAs, SameRoute
  <2> QED
    BY <2>2, <2>7
<1>3. ASSUME NEW k \in DOMAIN B PROVE B[k].method \in RootMethods(other)
  <2>1. PICK i, m : i = f[k] /\ m = B[k].method
    OBVIOUS
  <2>2. /\ i \in DOMAIN S /\ S[i] \in Entries /\ ~S[i].removed
        /\ S[i].method = m /\ FromTheRoot(S[i].way)
    BY <2>1 DEF MovedAs, BroughtAs, SameRoute, NoneRemoved
  <2>3. m \in Methods /\ m \in DOMAIN other.handlers
    BY <2>2, EntryFields DEF Fits
  <2>4. Begins(Root, Keys(S[i].way))
    BY <2>2, WayOfEntry, RootBegins
  <2>5. i \in Live(S, m)
    BY <2>2 DEF Live
  <2>6. Root \in DOMAIN TreeOf(other, m)
    BY <1>1, <2>3, <2>4, <2>5 DEF Fits, TreeFits, NodesFit
  <2> QED
    BY <2>1, <2>3, <2>6 DEF RootMethods, TreeOf
<1> QED
  BY <1>2, <1>3

LEMMA NoneBrought ==
    ASSUME NEW tree, NEW T, NEW B, NEW U, NEW w, NEW n, NEW m, TreeFits(tree, T, m),
           JoinedTable(U, T, B, w, n), \A k \in DOMAIN B : B[k].method # m
    PROVE  TreeFits(tree, U, m)
<1>1. ASSUME NEW k \in DOMAIN T
      PROVE  /\ k \in DOMAIN U /\ U[k].way = T[k].way /\ U[k].handler = T[k].handler
             /\ U[k].method = T[k].method /\ (k \in Live(U, m) <=> k \in Live(T, m))
  <2>1. /\ k \in DOMAIN U /\ SameRoute(U[k], T[k]) /\ U[k].way = T[k].way
        /\ U[k].removed = (T[k].removed \/
             (Begins(Keys(w), Keys(T[k].way)) /\ \E b \in DOMAIN B : B[b].method = T[k].method))
    BY DEF JoinedTable
  <2>2. U[k].method = T[k].method /\ U[k].handler = T[k].handler
    BY <2>1 DEF SameRoute
  <2>3. T[k].method = m => ~(\E b \in DOMAIN B : B[b].method = T[k].method)
    OBVIOUS
  <2>4. T[k].method = m => (U[k].removed <=> T[k].removed)
    BY <2>1, <2>3
  <2> QED
    BY <2>1, <2>2, <2>4 DEF Live
<1>2. Live(U, m) = Live(T, m)
  <2>1. ASSUME NEW k \in Live(U, m) PROVE k \in DOMAIN T
    <3>1. k \in DOMAIN U /\ U[k].method = m
      BY DEF Live
    <3>2. \A c \in DOMAIN B : U[n + c] = B[c] /\ B[c].method # m
      BY DEF JoinedTable
    <3> QED
      BY <3>1, <3>2 DEF JoinedTable
  <2>2. \A k \in Live(T, m) : k \in DOMAIN T
    BY DEF Live
  <2> QED
    BY <1>1, <2>1, <2>2
<1>3. \A k \in Live(T, m) : k \in DOMAIN T
  BY DEF Live
<1>4. NodesFit(tree, U, m)
  BY <1>1, <1>2, <1>3 DEF TreeFits, NodesFit
<1>5. HandlersFit(tree, U, m)
  <2>1. \A p, k : LastWith(T, m, p, k) => LastWith(U, m, p, k)
    BY <1>1, <1>2, <1>3 DEF LastWith
  <2> QED
    BY <1>1, <1>2, <1>3, <2>1 DEF TreeFits, HandlersFit
<1>6. ParametersFit(tree, U, m)
  BY <1>1 DEF TreeFits, ParametersFit
<1>7. ParametersKept(tree, U, m)
  BY <1>1, <1>2, <1>3 DEF TreeFits, ParametersKept
<1> QED
  BY <1>4, <1>5, <1>6, <1>7 DEF TreeFits

LEMMA FitsJoined ==
    ASSUME NEW r, NEW T, Fits(r, T), NEW other, NEW S, Fits(other, S), NoneRemoved(S),
           NEW prefix \in Targets, ParametersHaveNames => Named(prefix),
           NEW B, NEW U, NEW f, NEW n,
           MovedAs(B, S, Way(prefix), f), JoinedTable(U, T, B, Way(prefix), n),
           NEW q, DOMAIN q.handlers = DOMAIN r.handlers \cup RootMethods(other),
           \A m : TreeOf(q, m) = IF m \in RootMethods(other) THEN Behind(r, prefix, other, m)
                                                             ELSE TreeOf(r, m)
    PROVE  Fits(q, U)
<1>1. PICK w : w = Way(prefix)
  OBVIOUS
<1>2. w \in Targets /\ (ParametersHaveNames => Named(w))
  <2>1. Named(prefix) => Named(w)
    BY <1>1, NamedWay DEF Way
  <2> QED
    BY <1>1, <2>1, WayOfPrefix
<1>3. /\ RootMethods(other) = {B[k].method : k \in DOMAIN B}
      /\ RootMethods(other) \subseteq Methods
  BY MethodsBrought
<1>4. DOMAIN q.handlers = {U[k].method : k \in DOMAIN U}
  <2>1. \A k \in DOMAIN T : U[k].method = T[k].method
    BY DEF JoinedTable, SameRoute
  <2>2. /\ DOMAIN U = DOMAIN T \cup {n + k : k \in DOMAIN B}
        /\ \A k \in DOMAIN B : U[n + k] = B[k]
    BY DEF JoinedTable
  <2>3. DOMAIN r.handlers = {T[k].method : k \in DOMAIN T}
    BY DEF Fits
  <2> QED
    BY <1>3, <2>1, <2>2, <2>3
<1>5. ASSUME NEW m \in RootMethods(other) PROVE TreeFits(TreeOf(q, m), U, m)
  <2>1. PICK tree, stree, node, a :
          /\ tree = TreeOf(r, m) /\ stree = TreeOf(other, m) /\ node = Subtree(stree, "")
          /\ a = AddNode(tree, prefix, node)
    OBVIOUS
  <2>2. m \in DOMAIN other.handlers /\ stree = other.handlers[m] /\ Root \in DOMAIN stree
        /\ m \in Methods
    BY <1>3, <2>1 DEF RootMethods, TreeOf
  <2>3. TreeOf(q, m) = a
    BY <2>1, <2>2 DEF Behind
  <2>4. TreeFits(tree, T, m) /\ TreeFits(stree, S, m)
    BY <2>1, <2>2 DEF Fits
  <2>5. Tree(tree) /\ Tree(stree)
    BY <2>4 DEF TreeFits
  <2>6. Tree(node) /\ SubtreeOf(node, stree)
    BY <2>1, <2>2, <2>5, SubtreeNodes
  <2>7. Tree(a) /\ NodeAdded(a, tree, w, node)
    BY <1>1, <2>1, <2>5, <2>6, AddNodeNodes
  <2>8. \A i \in DOMAIN S : S[i] \in Entries /\ ~S[i].removed
    BY DEF NoneRemoved
  <2>9. TreeFits(a, U, m)
    BY <1>1, <1>2, <2>2, <2>4, <2>6, <2>7, <2>8, RoutesJoined
  <2> QED
    BY <2>3, <2>9
<1>6. ASSUME NEW m \in Methods, m \notin RootMethods(other) PROVE TreeFits(TreeOf(q, m), U, m)
  <2>1. \A k \in DOMAIN B : B[k].method # m
    BY <1>3, <1>6
  <2>2. TreeFits(TreeOf(r, m), T, m)
    BY DEF Fits
  <2>3. TreeFits(TreeOf(r, m), U, m)
    BY <2>1, <2>2, NoneBrought
  <2> QED
    BY <1>6, <2>3
<1> QED
  BY <1>4, <1>5, <1>6 DEF Fits

-----------------------------------------------------------------------------
(* What sub_route does to the tables *)

\* Brought, for any table of the other router.
BroughtFrom(S, w) ==
    [k \in DOMAIN FromRoot(S)[Len(S)] |->
        [S[FromRoot(S)[Len(S)][k]] EXCEPT !.way = w \o Tail(@)]]

LEMMA BroughtMoved ==
    ASSUME NEW S \in Seq(Entries), NEW w \in Targets
    PROVE  /\ BroughtFrom(S, w) \in Seq(Entries)
           /\ MovedAs(BroughtFrom(S, w), S, w, FromRoot(S)[Len(S)])
<1>1. PICK f, B : f = FromRoot(S)[Len(S)] /\ B = BroughtFrom(S, w)
  OBVIOUS
<1>2. Len(S) \in Nat /\ DOMAIN S = 1 .. Len(S)
  OBVIOUS
<1>3. Collects(f, S, Len(S))
  BY <1>1, <1>2, FromRootCollects
<1>4. f \in Seq(Nat) /\ Len(f) \in Nat /\ DOMAIN f = 1 .. Len(f)
  BY <1>3 DEF Collects
<1>5. B = [k \in 1 .. Len(f) |-> [S[f[k]] EXCEPT !.way = w \o Tail(@)]]
  BY <1>1, <1>4 DEF BroughtFrom
<1>6. DOMAIN B = 1 .. Len(f)
  BY <1>5
<1>7. ASSUME NEW k \in DOMAIN B
      PROVE  /\ k \in Nat \ {0} /\ f[k] \in DOMAIN S /\ f[k] \in Nat
             /\ B[k] \in Entries /\ BroughtAs(B[k], S[f[k]], w)
  <2>1. k \in 1 .. Len(f)
    BY <1>6
  <2>2. f[k] \in 1 .. Len(S) /\ FromTheRoot(S[f[k]].way)
    BY <1>3, <2>1 DEF Collects
  <2>3. PICK e : e = S[f[k]]
    OBVIOUS
  <2>4. e \in Entries
    BY <1>2, <2>2, <2>3
  <2>5. B[k] = [e EXCEPT !.way = w \o Tail(@)]
    BY <1>5, <2>1, <2>3, Zenon
  <2>6. Comes(B[k], e, w)
    BY <2>2, <2>3, <2>5, Zenon DEF Comes
  <2>7. B[k] \in Entries /\ BroughtAs(B[k], e, w)
    BY <2>4, <2>6, BroughtRoute
  <2> QED
    BY <1>2, <1>4, <2>1, <2>2, <2>3, <2>7
<1>8. B \in Seq(Entries)
  <2>1. B \in [1 .. Len(f) -> Entries]
    BY <1>5, <1>6, <1>7
  <2> QED
    BY <1>4, <2>1
<1>9. MovedAs(B, S, w, f)
  BY <1>2, <1>3, <1>6, <1>7 DEF MovedAs, Collects
<1> QED
  BY <1>1, <1>8, <1>9

\* The table of the main router after sub_route.
JoinedFrom(T, B, w) ==
    [k \in DOMAIN T |->
        [T[k] EXCEPT !.removed = @ \/
            (/\ IsPrefix(Keys(w), Keys(T[k].way))
             /\ \E b \in DOMAIN B : B[b].method = T[k].method)]] \o B

LEMMA TablesJoined ==
    ASSUME NEW T \in Seq(Entries), NEW B \in Seq(Entries), NEW w \in Targets
    PROVE  /\ JoinedFrom(T, B, w) \in Seq(Entries)
           /\ JoinedTable(JoinedFrom(T, B, w), T, B, w, Len(T))
           /\ Len(JoinedFrom(T, B, w)) = Len(T) + Len(B)
<1>1. PICK keys, n, l : keys = Keys(w) /\ n = Len(T) /\ l = Len(B)
  OBVIOUS
<1>2. n \in Nat /\ DOMAIN T = 1 .. n /\ l \in Nat /\ DOMAIN B = 1 .. l /\ keys \in Paths
  BY <1>1, TargetsAreLong, KeysAreNames
<1>3. PICK R : R = [k \in DOMAIN T |->
                     [T[k] EXCEPT !.removed = @ \/
                        (/\ IsPrefix(keys, Keys(T[k].way))
                         /\ \E b \in DOMAIN B : B[b].method = T[k].method)]]
  OBVIOUS
<1>4. JoinedFrom(T, B, w) = R \o B
  BY <1>1, <1>3, Zenon DEF JoinedFrom
<1>5. ASSUME NEW k \in DOMAIN T
      PROVE  /\ T[k] \in Entries /\ R[k] \in Entries
             /\ SameRoute(R[k], T[k]) /\ R[k].way = T[k].way
             /\ R[k].removed = (T[k].removed \/
                  (Begins(keys, Keys(T[k].way)) /\ \E b \in DOMAIN B : B[b].method = T[k].method))
  <2>1. PICK e : e = T[k]
    OBVIOUS
  <2>2. e \in Entries
    BY <2>1
  <2>3. PICK x : x = (e.removed \/
                  (IsPrefix(keys, Keys(e.way)) /\ \E b \in DOMAIN B : B[b].method = e.method))
    OBVIOUS
  <2>4. x \in BOOLEAN
    BY <2>3
  <2>5. R[k] = [e EXCEPT !.removed = x]
    BY <1>3, <2>1, <2>3, Zenon
  <2>6. IsPrefix(keys, Keys(e.way)) <=> Begins(keys, Keys(e.way))
    BY <1>2, <2>2, WayOfEntry, IsPrefixBegins
  <2>7. x = (e.removed \/
               (Begins(keys, Keys(e.way)) /\ \E b \in DOMAIN B : B[b].method = e.method))
    BY <2>3, <2>6, Zenon
  <2>8. /\ R[k] \in Entries /\ R[k].way = e.way /\ SameRoute(R[k], e) /\ R[k].removed = x
    <3>1. /\ [e EXCEPT !.removed = x] \in Entries /\ [e EXCEPT !.removed = x].way = e.way
          /\ SameRoute([e EXCEPT !.removed = x], e) /\ [e EXCEPT !.removed = x].removed = x
      BY <2>2, <2>4, EntryReplaced, Zenon
    <3> QED
      BY <2>5, <3>1, Zenon
  <2> QED
    BY <2>1, <2>2, <2>7, <2>8, Zenon
<1>6. R \in Seq(Entries) /\ Len(R) = n
  <2>1. R \in [1 .. n -> Entries]
    <3>1. DOMAIN R = 1 .. n /\ R = [k \in 1 .. n |-> R[k]]
      BY <1>2, <1>3
    <3> QED
      BY <1>2, <1>5, <3>1
  <2> QED
    BY <1>2, <2>1
<1>7. PICK U : U = R \o B
  OBVIOUS
<1>8. /\ U \in Seq(Entries) /\ Len(U) = n + l
      /\ \A i \in 1 .. n + l : U[i] = IF i <= n THEN R[i] ELSE B[i - n]
  <2>1. B \in Seq(Entries)
    OBVIOUS
  <2>2. /\ R \o B \in Seq(Entries) /\ Len(R \o B) = Len(R) + Len(B)
        /\ \A i \in 1 .. Len(R) + Len(B) : (R \o B)[i] = IF i <= Len(R) THEN R[i] ELSE B[i - Len(R)]
    BY <1>6, <2>1, ConcatProperties
  <2> QED
    BY <1>1, <1>6, <1>7, <2>2
<1>9. DOMAIN U = DOMAIN T \cup {n + k : k \in DOMAIN B}
  <2>1. DOMAIN U = 1 .. n + l
    BY <1>8
  <2>2. \A i \in 1 .. n + l : i \in 1 .. n \/ (i - n \in 1 .. l /\ n + (i - n) = i)
    BY <1>2
  <2>3. \A k \in 1 .. l : n + k \in 1 .. n + l
    BY <1>2
  <2>4. \A i \in 1 .. n : i \in 1 .. n + l
    BY <1>2
  <2> QED
    BY <1>2, <2>1, <2>2, <2>3, <2>4, ZenonT(60)
<1>10. \A k \in DOMAIN T : k \in Nat /\ k <= n /\ U[k] = R[k]
  <2>1. \A i \in 1 .. n : i \in 1 .. n + l /\ i <= n /\ i \in Nat
    BY <1>2
  <2> QED
    BY <1>2, <1>8, <2>1
<1>11. \A k \in DOMAIN B : k \in Nat \ {0} /\ B[k] \in Entries /\ U[n + k] = B[k]
  <2>1. \A k \in 1 .. l : /\ n + k \in 1 .. n + l /\ ~(n + k <= n) /\ (n + k) - n = k
                          /\ k \in Nat \ {0} /\ B[k] \in Entries
    BY <1>1, <1>2
  <2> QED
    BY <1>2, <1>8, <2>1
<1>12. JoinedTable(U, T, B, w, n)
  BY <1>1, <1>2, <1>5, <1>9, <1>10, <1>11 DEF JoinedTable
<1> QED
  BY <1>1, <1>4, <1>7, <1>8, <1>12

-----------------------------------------------------------------------------
(* Routers and their tables *)

Own(e, id) == e.handler.owner = id
Static(e)  == e.handler.kind = "static"
IsFallback(h) == h.kind = "fallback"

\* The entries of the table of router id after n calls: those of its own routes are as
\* add left them and have handlers of their own, and of the routes with one method and
\* the same keys the earlier ones are removed first.
OwnRoutes(T, id, n) ==
    \A k \in DOMAIN T : Own(T[k], id) =>
        /\ LeadsTo(T[k].way, T[k].target) /\ T[k].handler.id <= n
        /\ Static(T[k]) => T[k].method = Get

OwnHandlers(T, id) ==
    \A j, k \in DOMAIN T :
        Own(T[j], id) /\ Own(T[k], id) /\ T[j].handler = T[k].handler => j = k

RemovedFirst(T) ==
    \A j, k \in DOMAIN T :
        /\ k < j /\ T[j].removed
        /\ T[j].method = T[k].method /\ Keys(T[j].way) = Keys(T[k].way)
        => T[k].removed

NoFallbacks(T) == \A k \in DOMAIN T : ~IsFallback(T[k].handler)

OwnStatic(e, id, target) == Own(e, id) /\ Static(e) /\ e.target = target

\* The last own static route of a target serves its file.
ServesLast(files, T, id) ==
    \A k \in DOMAIN T :
        /\ Own(T[k], id) /\ Static(T[k])
        /\ \A j \in DOMAIN T : OwnStatic(T[j], id, T[k].target) => j <= k
        => T[k].target \in DOMAIN files /\ files[T[k].target] = T[k].file

Right(r, T, id, n) ==
    /\ IsRouter(r) /\ T \in Seq(Entries) /\ Fits(r, T)
    /\ OwnRoutes(T, id, n) /\ OwnHandlers(T, id) /\ RemovedFirst(T) /\ NoFallbacks(T)
    /\ ServesLast(r.files, T, id)
    /\ r.fallback = None \/ IsFallback(r.fallback)

LEMMA RightLater ==
    ASSUME NEW r, NEW T, NEW id, NEW n \in Nat, Right(r, T, id, n)
    PROVE  Right(r, T, id, n + 1)
<1>1. OwnRoutes(T, id, n + 1)
  <2>1. \A k \in DOMAIN T : T[k].handler \in Handlers
    BY EntryFields DEF Right
  <2>2. \A h \in Handlers : h.id <= n => h.id <= n + 1
    BY DEF Handlers
  <2> QED
    BY <2>1, <2>2 DEF Right, OwnRoutes
<1> QED
  BY <1>1 DEF Right

\* add, and serve_static where the files are the other way.
LEMMA RightAdded ==
    ASSUME NEW r, NEW T, NEW id, NEW n \in Nat, Right(r, T, id, n),
           NEW e \in Entries, NEW target \in Targets, Accepts(target), LeadsTo(e.way, target),
           e.target = target, ~e.removed, ParametersHaveNames => Named(target),
           Own(e, id), ~IsFallback(e.handler), e.handler.id = n + 1,
           NEW files,
           \/ ~Static(e) /\ files = r.files
           \/ Static(e) /\ e.method = Get /\ files = Assign(r.files, target, e.file),
           NEW q,
           With(q, Assign(r.handlers, e.method, AddHandler(TreeOf(r, e.method), target, e.handler)),
                files, r.fallback)
    PROVE  Right(q, Append(T, e), id, n + 1)
<1>1. PICK m, U : m = Len(T) + 1 /\ U = Append(T, e)
  OBVIOUS
<1>2. /\ U[m] = e /\ DOMAIN U = DOMAIN T \cup {m} /\ m \in Nat /\ U \in Seq(Entries)
      /\ \A k \in DOMAIN T : U[k] = T[k] /\ k < m /\ k \in Nat /\ T[k] \in Entries
  <2>1. T \in Seq(Entries)
    BY DEF Right
  <2>2. /\ Append(T, e)[Len(T) + 1] = e /\ Len(T) \in Nat /\ Append(T, e) \in Seq(Entries)
        /\ \A k \in DOMAIN T :
               Append(T, e)[k] = T[k] /\ k < Len(T) + 1 /\ k \in Nat /\ T[k] \in Entries
        /\ DOMAIN Append(T, e) = DOMAIN T \cup {Len(T) + 1}
    BY <2>1, Appended
  <2>3. Len(T) + 1 \in Nat
    BY <2>1
  <2> QED
    BY <1>1, <2>2, <2>3, Zenon
<1>3. /\ IsRouter(q) /\ q.files = files /\ q.fallback = r.fallback
      /\ q.handlers =
            Assign(r.handlers, e.method, AddHandler(TreeOf(r, e.method), target, e.handler))
  BY DEF With
<1>4. Fits(q, U)
  BY <1>1, <1>3, FitsAdded DEF Right
<1>5. \A k \in DOMAIN T : T[k].handler \in Handlers /\ T[k].handler.id \in Nat
  <2>1. \A h \in Handlers : h.id \in Nat
    BY DEF Handlers
  <2> QED
    BY <1>2, <2>1, EntryFields
<1>6. OwnRoutes(U, id, n + 1)
  <2> SUFFICES ASSUME NEW k \in DOMAIN U, Own(U[k], id)
               PROVE  /\ LeadsTo(U[k].way, U[k].target) /\ U[k].handler.id <= n + 1
                      /\ Static(U[k]) => U[k].method = Get
    BY DEF OwnRoutes
  <2>1. CASE k = m
    <3>1. Static(e) => e.method = Get
      OBVIOUS
    <3>2. n + 1 <= n + 1
      OBVIOUS
    <3> QED
      BY <1>2, <2>1, <3>1, <3>2
  <2>2. CASE k \in DOMAIN T
    <3>1. /\ LeadsTo(T[k].way, T[k].target) /\ T[k].handler.id <= n
          /\ Static(T[k]) => T[k].method = Get
      BY <1>2, <2>2 DEF Right, OwnRoutes
    <3>2. T[k].handler.id <= n + 1
      BY <1>5, <2>2, <3>1
    <3> QED
      BY <1>2, <2>2, <3>1, <3>2
  <2> QED
    BY <1>2, <2>1, <2>2
<1>7. OwnHandlers(U, id)
  <2>1. \A k \in DOMAIN T : Own(T[k], id) => T[k].handler # e.handler
    <3> SUFFICES ASSUME NEW k \in DOMAIN T, Own(T[k], id) PROVE T[k].handler # e.handler
      OBVIOUS
    <3>1. T[k].handler.id <= n /\ T[k].handler.id \in Nat
      BY <1>5 DEF Right, OwnRoutes
    <3>2. T[k].handler.id # n + 1
      BY <3>1
    <3> QED
      BY <3>2
  <2> QED
    BY <1>2, <2>1 DEF Right, OwnHandlers
<1>8. RemovedFirst(U)
  <2> SUFFICES ASSUME NEW j \in DOMAIN U, NEW k \in DOMAIN U, k < j, U[j].removed,
                      U[j].method = U[k].method, Keys(U[j].way) = Keys(U[k].way)
               PROVE  U[k].removed
    BY DEF RemovedFirst
  <2>1. j \in DOMAIN T
    BY <1>2
  <2>2. k \in DOMAIN T
    <3>1. j \in Nat /\ j < m
      BY <1>2, <2>1
    <3>2. k # m
      BY <1>2, <3>1
    <3> QED
      BY <1>2, <3>2
  <2> QED
    BY <1>2, <2>1, <2>2 DEF Right, RemovedFirst
<1>9. NoFallbacks(U)
  BY <1>2 DEF Right, NoFallbacks
<1>10. ServesLast(files, U, id)
  <2> SUFFICES ASSUME NEW k \in DOMAIN U, Own(U[k], id), Static(U[k]),
                      \A j \in DOMAIN U : OwnStatic(U[j], id, U[k].target) => j <= k
               PROVE  U[k].target \in DOMAIN files /\ files[U[k].target] = U[k].file
    BY DEF ServesLast
  <2>1. CASE k = m
    <3>1. Static(e) /\ files = Assign(r.files, target, e.file)
      BY <1>2, <2>1
    <3>2. target \in DOMAIN files /\ files[target] = e.file
      BY <3>1 DEF Assign
    <3> QED
      BY <1>2, <2>1, <3>2
  <2>2. CASE k \in DOMAIN T
    <3>1. \A j \in DOMAIN T : OwnStatic(T[j], id, T[k].target) => j <= k
      BY <1>2, <2>2
    <3>2. T[k].target \in DOMAIN r.files /\ r.files[T[k].target] = T[k].file
      BY <1>2, <2>2, <3>1 DEF Right, ServesLast
    <3>3. CASE ~Static(e)
      BY <1>2, <2>2, <3>2, <3>3
    <3>4. CASE Static(e)
      <4>1. T[k].target # target
        <5>1. k < m /\ k \in Nat /\ U[k] = T[k]
          BY <1>2, <2>2
        <5>2. ASSUME T[k].target = target PROVE m <= k
          BY <1>2, <3>4, <5>1, <5>2 DEF OwnStatic
        <5> QED
          BY <1>2, <5>1, <5>2
      <4>2. files = Assign(r.files, target, e.file)
        BY <3>4
      <4>3. T[k].target \in DOMAIN files /\ files[T[k].target] = r.files[T[k].target]
        BY <3>2, <4>1, <4>2 DEF Assign
      <4> QED
        BY <1>2, <2>2, <3>2, <4>3
    <3> QED
      BY <3>3, <3>4
  <2> QED
    BY <1>2, <2>1, <2>2
<1>11. Right(q, U, id, n + 1)
  BY <1>2, <1>3, <1>4, <1>6, <1>7, <1>8, <1>9, <1>10 DEF Right
<1> QED
  BY <1>1, <1>11

\* sub_route
LEMMA RightJoined ==
    ASSUME NEW r, NEW T, NEW id, NEW n, Right(r, T, id, n),
           NEW other, NEW S, Fits(other, S), S \in Seq(Entries), NoneRemoved(S), NoFallbacks(S),
           \A i \in DOMAIN S : ~Own(S[i], id),
           NEW prefix \in Targets, ParametersHaveNames => Named(prefix)
    PROVE  Right(sub_route(r, prefix, other),
                 JoinedFrom(T, BroughtFrom(S, Way(prefix)), Way(prefix)), id, n)
<1>1. PICK w, B, f, q, U, l : /\ w = Way(prefix) /\ B = BroughtFrom(S, w)
                              /\ f = FromRoot(S)[Len(S)] /\ q = sub_route(r, prefix, other)
                              /\ U = JoinedFrom(T, B, w) /\ l = Len(T)
  OBVIOUS
<1>2. w \in Targets /\ T \in Seq(Entries)
  BY <1>1, WayOfPrefix DEF Right
<1>3. B \in Seq(Entries) /\ MovedAs(B, S, w, f)
  BY <1>1, <1>2, BroughtMoved
<1>4. U \in Seq(Entries) /\ JoinedTable(U, T, B, w, l)
  BY <1>1, <1>2, <1>3, TablesJoined
<1>5. /\ IsRouter(q) /\ q.files = r.files /\ q.fallback = r.fallback
      /\ DOMAIN q.handlers = DOMAIN r.handlers \cup RootMethods(other)
      /\ \A m : TreeOf(q, m) = IF m \in RootMethods(other) THEN Behind(r, prefix, other, m)
                                                           ELSE TreeOf(r, m)
  BY <1>1, RouterJoins DEF Right
<1>6. Fits(q, U)
  BY <1>1, <1>3, <1>4, <1>5, FitsJoined DEF Right
<1>7. /\ l \in Nat /\ DOMAIN U = DOMAIN T \cup {l + k : k \in DOMAIN B}
      /\ \A k \in DOMAIN T :
           /\ k \in Nat /\ k <= l
           /\ U[k].method = T[k].method /\ U[k].handler = T[k].handler /\ U[k].way = T[k].way
           /\ U[k].target = T[k].target /\ U[k].file = T[k].file
           /\ U[k].removed = (T[k].removed \/
                (Begins(Keys(w), Keys(T[k].way)) /\ \E b \in DOMAIN B : B[b].method = T[k].method))
      /\ \A k \in DOMAIN B : k \in Nat \ {0} /\ U[l + k] = B[k]
  BY <1>4 DEF JoinedTable, SameRoute
<1>8. ASSUME NEW k \in DOMAIN B
      PROVE  ~B[k].removed /\ ~Own(B[k], id) /\ ~IsFallback(B[k].handler)
  <2>1. f[k] \in DOMAIN S /\ SameRoute(B[k], S[f[k]]) /\ B[k].removed = S[f[k]].removed
    BY <1>3 DEF MovedAs, BroughtAs
  <2>2. ~S[f[k]].removed /\ ~Own(S[f[k]], id) /\ ~IsFallback(S[f[k]].handler)
    BY <2>1 DEF NoneRemoved, NoFallbacks
  <2> QED
    BY <2>1, <2>2 DEF SameRoute, Own
<1>9. ASSUME NEW k \in DOMAIN U
      PROVE  k \in DOMAIN T \/ \E c \in DOMAIN B : k = l + c /\ U[k] = B[c]
  BY <1>7
<1>10. \A k \in DOMAIN U : Own(U[k], id) => k \in DOMAIN T
  BY <1>8, <1>9
<1>11. \A k \in DOMAIN T : /\ Own(U[k], id) <=> Own(T[k], id)
                           /\ Static(U[k]) <=> Static(T[k])
  BY <1>7 DEF Own, Static
<1>12. OwnRoutes(U, id, n)
  BY <1>7, <1>10, <1>11 DEF Right, OwnRoutes
<1>13. OwnHandlers(U, id)
  BY <1>7, <1>10, <1>11 DEF Right, OwnHandlers
<1>14. RemovedFirst(U)
  <2> SUFFICES ASSUME NEW j \in DOMAIN U, NEW k \in DOMAIN U, k < j, U[j].removed,
                      U[j].method = U[k].method, Keys(U[j].way) = Keys(U[k].way)
               PROVE  U[k].removed
    BY DEF RemovedFirst
  <2>1. j \in DOMAIN T
    BY <1>8, <1>9
  <2>2. k \in DOMAIN T
    <3>1. \A c \in DOMAIN B : k # l + c
      BY <1>7, <2>1
    <3> QED
      BY <1>9, <3>1
  <2>3. T[j].method = T[k].method /\ Keys(T[j].way) = Keys(T[k].way)
    BY <1>7, <2>1, <2>2
  <2>4. T[j].removed => T[k].removed
    BY <2>1, <2>2, <2>3 DEF Right, RemovedFirst
  <2>5. \/ T[j].removed
        \/ Begins(Keys(w), Keys(T[j].way)) /\ \E b \in DOMAIN B : B[b].method = T[j].method
    BY <1>7, <2>1
  <2>6. U[k].removed = (T[k].removed \/
          (Begins(Keys(w), Keys(T[k].way)) /\ \E b \in DOMAIN B : B[b].method = T[k].method))
    BY <1>7, <2>2
  <2> QED
    BY <2>3, <2>4, <2>5, <2>6, Zenon
<1>15. NoFallbacks(U)
  <2>1. \A k \in DOMAIN T : ~IsFallback(U[k].handler)
    BY <1>7 DEF Right, NoFallbacks
  <2> QED
    BY <1>8, <1>9, <2>1 DEF NoFallbacks
<1>16. ServesLast(r.files, U, id)
  <2> SUFFICES ASSUME NEW k \in DOMAIN U, Own(U[k], id), Static(U[k]),
                      \A j \in DOMAIN U : OwnStatic(U[j], id, U[k].target) => j <= k
               PROVE  U[k].target \in DOMAIN r.files /\ r.files[U[k].target] = U[k].file
    BY DEF ServesLast
  <2>1. k \in DOMAIN T /\ Own(T[k], id) /\ Static(T[k])
    BY <1>10, <1>11
  <2>2. ASSUME NEW j \in DOMAIN T, OwnStatic(T[j], id, T[k].target) PROVE j <= k
    <3>1. OwnStatic(U[j], id, U[k].target)
      BY <1>7, <1>11, <2>1, <2>2 DEF OwnStatic
    <3> QED
      BY <1>7, <3>1
  <2>3. T[k].target \in DOMAIN r.files /\ r.files[T[k].target] = T[k].file
    BY <2>1, <2>2 DEF Right, ServesLast
  <2> QED
    BY <1>7, <2>1, <2>3
<1>17. Right(q, U, id, n)
  BY <1>4, <1>5, <1>6, <1>12, <1>13, <1>14, <1>15, <1>16 DEF Right
<1> QED
  BY <1>1, <1>17

-----------------------------------------------------------------------------
(* What a call leaves as it was *)

\* The table U holds the routes of T, of which it may have removed some, and others
\* behind them.
Extends(T, U) ==
    /\ \A k \in DOMAIN T : /\ k \in DOMAIN U /\ SameRoute(U[k], T[k]) /\ U[k].way = T[k].way
                           /\ T[k].removed => U[k].removed
    /\ \A k \in DOMAIN U : k \in DOMAIN T \/ k \in Len(T) + 1 .. Len(U)

\* On the way of a route that stays, the parameters of the nodes stay, unless a new
\* route gives the node another one.
ParametersStay(tree, new, T, U, m) ==
    \A k \in DOMAIN T : k \in Live(U, m) =>
        \A p \in DOMAIN tree : Begins(p, Keys(T[k].way)) =>
            \/ new[p].parameter = tree[p].parameter
            \/ \E j \in Len(T) + 1 .. Len(U) :
                 U[j].method = m /\ GivesName(U[j].way, p, new[p].parameter)

Kept(r, T, q, U) ==
    /\ Extends(T, U)
    /\ \A m \in Methods : ParametersStay(TreeOf(r, m), TreeOf(q, m), T, U, m)

LEMMA KeptAsIs ==
    ASSUME NEW r, NEW q, NEW T, q.handlers = r.handlers
    PROVE  Kept(r, T, q, T)
<1>1. \A m : TreeOf(q, m) = TreeOf(r, m)
  BY DEF TreeOf
<1>2. Extends(T, T)
  BY DEF Extends, SameRoute
<1> QED
  BY <1>1, <1>2 DEF Kept, ParametersStay

\* add and serve_static
LEMMA KeptAdded ==
    ASSUME NEW r, NEW T \in Seq(Entries), Fits(r, T), NEW e \in Entries,
           NEW target \in Targets, Accepts(target), LeadsTo(e.way, target),
           NEW q, q.handlers =
                Assign(r.handlers, e.method, AddHandler(TreeOf(r, e.method), target, e.handler))
    PROVE  Kept(r, T, q, Append(T, e))
<1>1. PICK n, U, a, t : /\ n = Len(T) + 1 /\ U = Append(T, e) /\ t = TreeOf(r, e.method)
                        /\ a = AddHandler(t, target, e.handler)
  OBVIOUS
<1>2. /\ U[n] = e /\ DOMAIN U = DOMAIN T \cup {n} /\ Len(U) = n /\ n \in Nat
      /\ \A k \in DOMAIN T : U[k] = T[k]
  <2>1. /\ Append(T, e)[Len(T) + 1] = e /\ Len(T) \in Nat
        /\ \A k \in DOMAIN T : Append(T, e)[k] = T[k]
        /\ DOMAIN Append(T, e) = DOMAIN T \cup {Len(T) + 1} /\ Len(Append(T, e)) = Len(T) + 1
    BY Appended
  <2>2. Len(T) + 1 \in Nat
    OBVIOUS
  <2> QED
    BY <1>1, <2>1, <2>2, Zenon
<1>3. n \in Len(T) + 1 .. Len(U)
  BY <1>1, <1>2
<1>4. Extends(T, U)
  BY <1>2, <1>3 DEF Extends, SameRoute
<1>5. /\ TreeOf(q, e.method) = a
      /\ \A m : m # e.method => TreeOf(q, m) = TreeOf(r, m)
  <2>1. PICK x : x = Assign(r.handlers, e.method, a)
    OBVIOUS
  <2>2. /\ DOMAIN x = DOMAIN r.handlers \cup {e.method} /\ x[e.method] = a
        /\ \A k \in DOMAIN r.handlers : k # e.method => x[k] = r.handlers[k]
    BY <2>1 DEF Assign
  <2>3. q.handlers = x
    BY <1>1, <2>1
  <2> QED
    BY <2>2, <2>3 DEF TreeOf
<1>6. ASSUME NEW m \in Methods, m # e.method
      PROVE  ParametersStay(TreeOf(r, m), TreeOf(q, m), T, U, m)
  BY <1>5, <1>6 DEF ParametersStay
<1>7. ParametersStay(t, a, T, U, e.method)
  <2>1. e.method \in Methods /\ e.handler \in Handlers
    BY EntryFields
  <2>2. Tree(t)
    BY <1>1, <2>1 DEF Fits, TreeFits
  <2>3. HandlerAdded(a, t, e.way, e.handler)
    BY <1>1, <2>1, <2>2, AddHandlerNodes DEF LeadsTo
  <2>4. ASSUME NEW p \in DOMAIN t
        PROVE  \/ a[p].parameter = t[p].parameter
               \/ GivesName(U[n].way, p, a[p].parameter)
    <3>1. a[p].parameter = IF Gives(e.way, p) THEN e.way[Len(p) + 1].name ELSE t[p].parameter
      BY <2>3 DEF HandlerAdded
    <3> QED
      BY <1>2, <3>1 DEF GivesName
  <2> QED
    BY <1>2, <1>3, <2>4 DEF ParametersStay
<1>8. Kept(r, T, q, U)
  BY <1>1, <1>4, <1>5, <1>6, <1>7 DEF Kept
<1> QED
  BY <1>1, <1>8

\* sub_route
LEMMA KeptJoined ==
    ASSUME NEW r, NEW T \in Seq(Entries), Fits(r, T), IsRouter(r),
           NEW other, NEW S \in Seq(Entries), Fits(other, S), NoneRemoved(S),
           NEW prefix \in Targets
    PROVE  Kept(r, T, sub_route(r, prefix, other),
                JoinedFrom(T, BroughtFrom(S, Way(prefix)), Way(prefix)))
<1>1. PICK w, B, f, q, U, l : /\ w = Way(prefix) /\ B = BroughtFrom(S, w)
                              /\ f = FromRoot(S)[Len(S)] /\ q = sub_route(r, prefix, other)
                              /\ U = JoinedFrom(T, B, w) /\ l = Len(T)
  OBVIOUS
<1>2. w \in Targets
  BY <1>1, WayOfPrefix
<1>3. B \in Seq(Entries) /\ MovedAs(B, S, w, f)
  BY <1>1, <1>2, BroughtMoved
<1>4. U \in Seq(Entries) /\ JoinedTable(U, T, B, w, l)
  BY <1>1, <1>2, <1>3, TablesJoined
<1>5. \A m : TreeOf(q, m) = IF m \in RootMethods(other) THEN Behind(r, prefix, other, m)
                                                        ELSE TreeOf(r, m)
  BY <1>1, RouterJoins
<1>6. /\ l \in Nat /\ DOMAIN U = DOMAIN T \cup {l + k : k \in DOMAIN B}
      /\ \A k \in DOMAIN T :
           /\ SameRoute(U[k], T[k]) /\ U[k].way = T[k].way
           /\ U[k].removed = (T[k].removed \/
                (Begins(Keys(w), Keys(T[k].way)) /\ \E b \in DOMAIN B : B[b].method = T[k].method))
      /\ \A k \in DOMAIN B : k \in Nat \ {0} /\ U[l + k] = B[k]
  BY <1>4 DEF JoinedTable
<1>7. \A k \in DOMAIN B : l + k \in Len(T) + 1 .. Len(U)
  <2> TAKE k \in DOMAIN B
  <2>1. DOMAIN U = 1 .. Len(U) /\ Len(U) \in Nat
    BY <1>4
  <2>2. l + k \in DOMAIN U /\ k \in Nat \ {0}
    BY <1>6, Zenon
  <2> QED
    BY <1>1, <1>6, <2>1, <2>2
<1>8. Extends(T, U)
  BY <1>6, <1>7 DEF Extends
<1>9. ASSUME NEW m \in Methods, m \notin RootMethods(other)
      PROVE  ParametersStay(TreeOf(r, m), TreeOf(q, m), T, U, m)
  BY <1>5, <1>9 DEF ParametersStay
<1>10. ASSUME NEW m \in Methods, m \in RootMethods(other)
       PROVE  ParametersStay(TreeOf(r, m), TreeOf(q, m), T, U, m)
  <2>1. PICK tree, a, node : /\ tree = TreeOf(r, m) /\ a = TreeOf(q, m)
                             /\ node = Subtree(other.handlers[m], "")
    OBVIOUS
  <2>2. a = AddNode(tree, prefix, node)
    BY <1>5, <1>10, <2>1, Zenon DEF Behind
  <2>3. Tree(tree) /\ Tree(node)
    <3>1. Tree(TreeOf(other, m)) /\ TreeOf(other, m) = other.handlers[m]
          /\ Root \in DOMAIN other.handlers[m]
      BY <1>10 DEF Fits, TreeFits, TreeOf, RootMethods
    <3>2. Tree(node)
      BY <2>1, <3>1, SubtreeNodes
    <3> QED
      BY <2>1, <3>2 DEF Fits, TreeFits
  <2>4. NodeAdded(a, tree, w, node)
    BY <1>1, <2>2, <2>3, AddNodeNodes
  <2>5. PICK b \in DOMAIN B : B[b].method = m
    BY <1>3, <1>10, MethodsBrought
  <2>6. ASSUME NEW k \in DOMAIN T, k \in Live(U, m), NEW p \in DOMAIN tree,
               Begins(p, Keys(T[k].way)), a[p].parameter # tree[p].parameter
        PROVE  GivesName(U[l + b].way, p, a[p].parameter)
    <3>1. p \in Paths /\ Keys(w) \in Paths /\ Keys(T[k].way) \in Paths
      <4>1. Keys(w) \in Paths
        BY <1>2, KeysAreNames, TargetsAreLong
      <4>2. T[k] \in Entries
        BY <2>6
      <4> QED
        BY <2>3, <2>6, <4>1, <4>2, WayOfEntry DEF Tree, NodesTyped
    <3>2. ~Begins(Keys(w), Keys(T[k].way))
      <4>1. ~U[k].removed /\ U[k].method = m
        BY <2>6 DEF Live
      <4>2. T[k].method = m
        BY <1>6, <2>6, <4>1 DEF SameRoute
      <4>3. U[k].removed = (T[k].removed \/
                (Begins(Keys(w), Keys(T[k].way)) /\ \E c \in DOMAIN B : B[c].method = T[k].method))
        BY <1>6, <2>6, Zenon
      <4> QED
        BY <2>5, <4>1, <4>2, <4>3, Zenon
    <3>3. ~Begins(Keys(w), p)
      BY <2>6, <3>1, <3>2, BeginsOrder
    <3>4. p \in DOMAIN a
      BY <2>4, <3>3 DEF NodeAdded
    <3>5. a[p].parameter = IF Gives(w, p) THEN w[Len(p) + 1].name ELSE tree[p].parameter
      BY <2>4, <3>3, <3>4 DEF NodeAdded
    <3>6. GivesName(w, p, a[p].parameter)
      BY <2>6, <3>5 DEF GivesName
    <3>7. BroughtAs(B[b], S[f[b]], w)
      BY <1>3 DEF MovedAs
    <3>8. GivesName(B[b].way, p, a[p].parameter)
      BY <3>1, <3>3, <3>6, <3>7 DEF BroughtAs
    <3> QED
      BY <1>6, <3>8
  <2>7. U[l + b].method = m /\ l + b \in Len(T) + 1 .. Len(U)
    BY <1>6, <1>7, <2>5
  <2> QED
    BY <2>1, <2>6, <2>7 DEF ParametersStay
<1>11. Kept(r, T, q, U)
  BY <1>8, <1>9, <1>10 DEF Kept
<1> QED
  BY <1>1, <1>11

-----------------------------------------------------------------------------
(* The inductive invariant *)

MainId == "main"
Sub    == "sub"

LEMMA TwoRouters == Ids = {MainId, Sub} /\ MainId # Sub
BY DEF Ids, MainId, Sub

\* The second router is never joined into: its table holds its own routes only.
OwnOnly(S) == NoneRemoved(S) /\ \A i \in DOMAIN S : Own(S[i], Sub)

RoutesRight ==
    /\ DOMAIN routers = Ids /\ DOMAIN table = Ids /\ calls \in Nat /\ calls <= MaxCalls
    /\ \A id \in Ids : Right(routers[id], table[id], id, calls)
    /\ OwnOnly(table[Sub])

LEMMA NewRouterRight ==
    ASSUME NEW id
    PROVE  Right(NewRouter, << >>, id, 0) /\ OwnOnly(<< >>)
<1>1. PICK r, T : r = NewRouter /\ T = << >>
  OBVIOUS
<1>2. /\ IsRouter(r) /\ r.handlers = << >> /\ r.fallback = None
  BY <1>1 DEF NewRouter, IsRouter
<1>3. T \in Seq(Entries) /\ DOMAIN T = {} /\ DOMAIN r.handlers = {}
  BY <1>1, <1>2
<1>4. Fits(r, T)
  <2>1. \A m : TreeOf(r, m) = EmptyTree
    BY <1>3 DEF TreeOf
  <2>2. \A m : TreeFits(EmptyTree, T, m)
    BY <1>3, EmptyTreeFits
  <2> QED
    BY <1>3, <2>1, <2>2 DEF Fits
<1>5. Right(r, T, id, 0)
  BY <1>2, <1>3, <1>4
     DEF Right, OwnRoutes, OwnHandlers, RemovedFirst, NoFallbacks, ServesLast
<1>6. OwnOnly(T)
  BY <1>3 DEF OwnOnly, NoneRemoved
<1> QED
  BY <1>1, <1>5, <1>6

LEMMA NewHandlerIs ==
    ASSUME NEW kind \in {"plain", "static", "fallback"}, NEW id \in Ids, calls \in Nat
    PROVE  /\ NewHandler(kind, id) \in Handlers /\ NewHandler(kind, id).id = calls + 1
           /\ NewHandler(kind, id).owner = id /\ NewHandler(kind, id).kind = kind
BY DEF NewHandler, Handlers

IsEntryOf(e, m, target, h, file) ==
    /\ e \in Entries /\ LeadsTo(e.way, target) /\ ~e.removed
    /\ e.method = m /\ e.target = target /\ e.handler = h /\ e.file = file

LEMMA EntryIs ==
    ASSUME NEW m \in Methods, NEW target \in Targets, Accepts(target), NEW h \in Handlers,
           NEW file \in Files \cup {""}
    PROVE  IsEntryOf(Entry(m, target, h, file), m, target, h, file)
<1>1. PICK w, e : w = Walked(target, Fixed("")) /\ e = Entry(m, target, h, file)
  OBVIOUS
<1>2. w \in Targets /\ LeadsTo(w, target)
  BY <1>1, WalkedTarget DEF LeadsTo
<1>3. e = [method |-> m, target |-> target, way |-> w, handler |-> h, file |-> file,
           removed |-> FALSE]
  BY <1>1, Zenon DEF Entry
<1>4. e \in Entries
  BY <1>2, <1>3 DEF Entries
<1>5. e.method = m /\ e.way = w /\ e.target = target /\ e.handler = h /\ e.file = file
      /\ ~e.removed
  BY <1>3
<1> QED
  BY <1>1, <1>2, <1>4, <1>5 DEF IsEntryOf

\* What a call leaves of the main router and its table.
MainKept == Kept(routers[MainId], table[MainId], routers'[MainId], table'[MainId])

\* A call to one of the routers.
LEMMA OneRouter ==
    ASSUME RoutesRight, calls < MaxCalls, calls' = calls + 1, NEW id \in Ids,
           DOMAIN routers' = Ids, DOMAIN table' = Ids,
           \A i \in Ids : i # id => routers'[i] = routers[i] /\ table'[i] = table[i],
           Right(routers'[id], table'[id], id, calls + 1),
           id = Sub => OwnOnly(table'[Sub]),
           id = MainId => MainKept
    PROVE  RoutesRight' /\ MainKept
<1>1. calls' \in Nat /\ calls' <= MaxCalls
  BY CallsAssumption DEF RoutesRight
<1>2. \A i \in Ids : Right(routers'[i], table'[i], i, calls')
  <2> TAKE i \in Ids
  <2>1. CASE i = id
    BY <2>1
  <2>2. CASE i # id
    <3>1. Right(routers[i], table[i], i, calls) /\ calls \in Nat
      BY DEF RoutesRight
    <3>2. Right(routers[i], table[i], i, calls + 1)
      BY <3>1, RightLater
    <3> QED
      BY <2>2, <3>2
  <2> QED
    BY <2>1, <2>2
<1>3. OwnOnly(table'[Sub])
  BY TwoRouters DEF RoutesRight
<1>4. MainKept
  <2>1. CASE id = MainId
    BY <2>1
  <2>2. CASE id # MainId
    <3>1. routers'[MainId] = routers[MainId] /\ table'[MainId] = table[MainId]
      BY <2>2, TwoRouters
    <3> QED
      BY <3>1, KeptAsIs DEF MainKept
  <2> QED
    BY <2>1, <2>2
<1> QED
  BY <1>1, <1>2, <1>3, <1>4 DEF RoutesRight

\* A route that is added to one of the routers, and to its table.
LEMMA OneRoute ==
    ASSUME RoutesRight, calls < MaxCalls, calls' = calls + 1, NEW id \in Ids,
           NEW target \in Targets, Accepts(target), ParametersHaveNames => Named(target),
           NEW e \in Entries, LeadsTo(e.way, target), e.target = target, ~e.removed,
           Own(e, id), ~IsFallback(e.handler), e.handler.id = calls + 1,
           NEW files,
           \/ ~Static(e) /\ files = routers[id].files
           \/ Static(e) /\ e.method = Get /\ files = Assign(routers[id].files, target, e.file),
           NEW q,
           With(q, Assign(routers[id].handlers, e.method,
                          AddHandler(TreeOf(routers[id], e.method), target, e.handler)),
                files, routers[id].fallback),
           routers' = [routers EXCEPT ![id] = q],
           table' = [table EXCEPT ![id] = Append(@, e)]
    PROVE  RoutesRight' /\ MainKept
<1>1. Right(routers[id], table[id], id, calls) /\ calls \in Nat
      /\ DOMAIN routers = Ids /\ DOMAIN table = Ids
  BY DEF RoutesRight
<1>2. PICK r, T, U : r = routers[id] /\ T = table[id] /\ U = Append(T, e)
  OBVIOUS
<1>3. Right(q, U, id, calls + 1)
  BY <1>1, <1>2, RightAdded
<1>4. /\ DOMAIN routers' = Ids /\ DOMAIN table' = Ids /\ routers'[id] = q /\ table'[id] = U
      /\ \A i \in Ids : i # id => routers'[i] = routers[i] /\ table'[i] = table[i]
  BY <1>1, <1>2
<1>5. ASSUME id = Sub PROVE OwnOnly(U)
  <2>1. T \in Seq(Entries) /\ OwnOnly(T)
    BY <1>1, <1>2, <1>5 DEF Right, RoutesRight
  <2>2. \A k \in DOMAIN U : (k \in DOMAIN T /\ U[k] = T[k]) \/ U[k] = e
    BY <1>2, <2>1, Appended
  <2> QED
    BY <1>5, <2>1, <2>2 DEF OwnOnly, NoneRemoved
<1>6. ASSUME id = MainId PROVE MainKept
  <2>1. T \in Seq(Entries) /\ Fits(r, T)
    BY <1>1, <1>2 DEF Right
  <2>2. q.handlers = Assign(r.handlers, e.method,
                            AddHandler(TreeOf(r, e.method), target, e.handler))
    BY <1>2 DEF With
  <2>3. Kept(r, T, q, U)
    BY <1>2, <2>1, <2>2, KeptAdded
  <2> QED
    BY <1>2, <1>4, <1>6, <2>3 DEF MainKept
<1> QED
  BY <1>3, <1>4, <1>5, <1>6, OneRouter

\* A call that is refused, or sets a fallback.
LEMMA NoRoute ==
    ASSUME RoutesRight, calls < MaxCalls, calls' = calls + 1, NEW id \in Ids, NEW q,
           With(q, routers[id].handlers, routers[id].files, routers[id].fallback)
           \/ \E b : IsFallback(b) /\ With(q, routers[id].handlers, routers[id].files, b),
           routers' = [routers EXCEPT ![id] = q], table' = table
    PROVE  RoutesRight' /\ MainKept
<1>1. Right(routers[id], table[id], id, calls) /\ calls \in Nat
      /\ DOMAIN routers = Ids /\ DOMAIN table = Ids /\ OwnOnly(table[Sub])
  BY DEF RoutesRight
<1>2. PICK r, T : r = routers[id] /\ T = table[id]
  OBVIOUS
<1>3. Right(r, T, id, calls + 1)
  BY <1>1, <1>2, RightLater
<1>4. /\ IsRouter(q) /\ q.handlers = r.handlers /\ q.files = r.files
      /\ q.fallback = r.fallback \/ IsFallback(q.fallback)
  BY <1>2 DEF With
<1>5. Fits(q, T)
  <2>1. \A m : TreeOf(q, m) = TreeOf(r, m)
    BY <1>4 DEF TreeOf
  <2> QED
    BY <1>3, <1>4, <2>1 DEF Right, Fits
<1>6. Right(q, T, id, calls + 1)
  BY <1>3, <1>4, <1>5 DEF Right
<1>7. /\ DOMAIN routers' = Ids /\ DOMAIN table' = Ids /\ routers'[id] = q /\ table'[id] = T
      /\ \A i \in Ids : i # id => routers'[i] = routers[i] /\ table'[i] = table[i]
  BY <1>1, <1>2
<1>8. ASSUME id = MainId PROVE MainKept
  <2>1. Kept(r, T, q, T)
    BY <1>4, KeptAsIs
  <2> QED
    BY <1>2, <1>7, <1>8, <2>1 DEF MainKept
<1> QED
  BY <1>1, <1>6, <1>7, <1>8, OneRouter

-----------------------------------------------------------------------------
(* The steps *)

LEMMA AddRouteRight ==
    ASSUME RoutesRight, NEW id \in Ids, NEW method \in Methods, NEW target \in Patterns[method],
           AddRoute(id, method, target)
    PROVE  RoutesRight' /\ MainKept
<1>1. /\ calls < MaxCalls /\ calls' = calls + 1 /\ calls \in Nat /\ target \in Targets
      /\ ParametersHaveNames => Named(target)
  BY TargetsAssumption DEF AddRoute, Call, RoutesRight, ParametersHaveNames
<1>2. PICK h, e, r, q : /\ h = NewHandler("plain", id) /\ e = Entry(method, target, h, "")
                        /\ r = routers[id] /\ q = add(r, method, target, h)
  OBVIOUS
<1>3. /\ routers' = [routers EXCEPT ![id] = q]
      /\ table' = IF ~Accepts(target) THEN table ELSE [table EXCEPT ![id] = Append(@, e)]
  BY <1>2, Zenon DEF AddRoute
<1>4. IsRouter(r)
  BY <1>2 DEF RoutesRight, Right
<1>5. CASE Accepts(target)
  <2>1. h \in Handlers /\ h.id = calls + 1 /\ h.owner = id /\ h.kind = "plain"
    BY <1>1, <1>2, NewHandlerIs
  <2>2. e \in Entries /\ e.method = method /\ LeadsTo(e.way, target) /\ e.target = target
        /\ e.handler = h /\ ~e.removed
    <3>1. PICK f \in Files \cup {""} : f = ""
      OBVIOUS
    <3>2. IsEntryOf(Entry(method, target, h, f), method, target, h, f)
      BY <1>1, <1>5, <2>1, EntryIs
    <3>3. e = Entry(method, target, h, f)
      BY <1>2, <3>1, Zenon
    <3> QED
      BY <3>2, <3>3 DEF IsEntryOf
  <2>3. Own(e, id) /\ ~IsFallback(e.handler) /\ ~Static(e)
    BY <2>1, <2>2 DEF Own, IsFallback, Static
  <2>4. With(q, Assign(r.handlers, e.method, AddHandler(TreeOf(r, e.method), target, e.handler)),
             r.files, r.fallback)
    BY <1>2, <1>4, <1>5, <2>2, RouterAdds
  <2>5. table' = [table EXCEPT ![id] = Append(@, e)]
    BY <1>3, <1>5
  <2>6. e.handler.id = calls + 1
    BY <2>1, <2>2
  <2> QED
    BY <1>1, <1>2, <1>3, <1>5, <2>2, <2>3, <2>4, <2>5, <2>6, OneRoute
<1>6. CASE ~Accepts(target)
  <2>1. q = r
    BY <1>2, <1>6 DEF add
  <2>2. With(q, r.handlers, r.files, r.fallback)
    BY <1>4, <2>1 DEF With
  <2>3. table' = table
    BY <1>3, <1>6
  <2> QED
    BY <1>1, <1>2, <1>3, <2>2, <2>3, NoRoute
<1> QED
  BY <1>5, <1>6

LEMMA ServeStaticRight ==
    ASSUME RoutesRight, NEW id \in Ids, NEW target \in FilePatterns, NEW file \in Files,
           ServeStatic(id, target, file)
    PROVE  RoutesRight' /\ MainKept
<1>1. /\ calls < MaxCalls /\ calls' = calls + 1 /\ calls \in Nat /\ target \in Targets
      /\ ParametersHaveNames => Named(target)
  BY TargetsAssumption DEF ServeStatic, Call, RoutesRight, ParametersHaveNames
<1>2. PICK h, e, r, q : /\ h = NewHandler("static", id) /\ e = Entry(Get, target, h, file)
                        /\ r = routers[id] /\ q = serve_static(r, target, h, file)
  OBVIOUS
<1>3. /\ routers' = [routers EXCEPT ![id] = q]
      /\ table' = IF ~Accepts(target) THEN table ELSE [table EXCEPT ![id] = Append(@, e)]
  BY <1>2, Zenon DEF ServeStatic, Get
<1>4. IsRouter(r)
  BY <1>2 DEF RoutesRight, Right
<1>5. CASE Accepts(target)
  <2>1. h \in Handlers /\ h.id = calls + 1 /\ h.owner = id /\ h.kind = "static"
    BY <1>1, <1>2, NewHandlerIs
  <2>2. Get \in Methods
    BY MethodsAssumption DEF Get
  <2>3. e \in Entries /\ e.method = Get /\ LeadsTo(e.way, target) /\ e.target = target
        /\ e.handler = h /\ ~e.removed /\ e.file = file
    <3>1. PICK f \in Files \cup {""} : f = file
      OBVIOUS
    <3>2. IsEntryOf(Entry(Get, target, h, f), Get, target, h, f)
      BY <1>1, <1>5, <2>1, <2>2, EntryIs
    <3>3. e = Entry(Get, target, h, f)
      BY <1>2, <3>1, Zenon
    <3> QED
      BY <3>1, <3>2, <3>3 DEF IsEntryOf
  <2>4. Own(e, id) /\ ~IsFallback(e.handler) /\ Static(e)
    BY <2>1, <2>3 DEF Own, IsFallback, Static
  <2>5. PICK files : files = Assign(r.files, target, e.file)
    OBVIOUS
  <2>6. With(q, Assign(r.handlers, e.method, AddHandler(TreeOf(r, e.method), target, e.handler)),
             files, r.fallback)
    BY <1>2, <1>4, <1>5, <2>3, <2>5, RouterServes
  <2>7. table' = [table EXCEPT ![id] = Append(@, e)]
    BY <1>3, <1>5
  <2>8. e.handler.id = calls + 1
    BY <2>1, <2>3
  <2> QED
    BY <1>1, <1>2, <1>3, <1>5, <2>3, <2>4, <2>5, <2>6, <2>7, <2>8, OneRoute
<1>6. CASE ~Accepts(target)
  <2>1. q = r
    BY <1>2, <1>6 DEF serve_static
  <2>2. With(q, r.handlers, r.files, r.fallback)
    BY <1>4, <2>1 DEF With
  <2>3. table' = table
    BY <1>3, <1>6
  <2> QED
    BY <1>1, <1>2, <1>3, <2>2, <2>3, NoRoute
<1> QED
  BY <1>5, <1>6

LEMMA FallbackRight ==
    ASSUME RoutesRight, NEW id \in Ids, Fallback(id)
    PROVE  RoutesRight' /\ MainKept
<1>1. calls < MaxCalls /\ calls' = calls + 1 /\ calls \in Nat /\ table' = table
  BY DEF Fallback, Call, RoutesRight
<1>2. PICK h, r, q : h = NewHandler("fallback", id) /\ r = routers[id] /\ q = set_fallback(r, h)
  OBVIOUS
<1>3. routers' = [routers EXCEPT ![id] = q]
  BY <1>2, Zenon DEF Fallback
<1>4. IsFallback(h)
  BY <1>1, <1>2, NewHandlerIs DEF IsFallback
<1>5. IsRouter(r)
  BY <1>2 DEF RoutesRight, Right
<1>6. q = [r EXCEPT !.fallback = h]
  BY <1>2, Zenon DEF set_fallback
<1>7. With(q, r.handlers, r.files, h)
  BY <1>5, <1>6, RouterWith, Zenon
<1> QED
  BY <1>1, <1>2, <1>3, <1>4, <1>7, NoRoute

\* The tables after sub_route are those of TablesJoined.
LEMMA SubRouteTables ==
    ASSUME NEW prefix, NEW moved, SubRoute(prefix, moved)
    PROVE  /\ routers'[MainId] = sub_route(routers[MainId], prefix, routers[Sub])
           /\ routers'[Sub] = IF moved THEN NewRouter ELSE routers[Sub]
           /\ table'[MainId] =
                JoinedFrom(table[MainId], BroughtFrom(table[Sub], Way(prefix)), Way(prefix))
           /\ table'[Sub] = IF moved THEN << >> ELSE table[Sub]
           /\ DOMAIN routers' = Ids /\ DOMAIN table' = Ids
<1>1. Brought(prefix) = BroughtFrom(table[Sub], Way(prefix))
  BY Zenon DEF Brought, BroughtFrom, Sub
<1>2. PICK T, B, w, q, s, t, U :
        /\ T = table[MainId] /\ B = Brought(prefix) /\ w = Way(prefix)
        /\ q = sub_route(routers[MainId], prefix, routers[Sub])
        /\ s = IF moved THEN NewRouter ELSE routers[Sub]
        /\ t = IF moved THEN << >> ELSE table[Sub]
        /\ U = [k \in DOMAIN T |-> [T[k] EXCEPT !.removed = @ \/ Replaced(T[k], prefix)]] \o B
  OBVIOUS
<1>3. routers' = [main |-> q, sub |-> s] /\ table' = [main |-> U, sub |-> t]
  BY <1>2, Zenon DEF SubRoute, MainId, Sub
<1>4. U = JoinedFrom(T, B, w)
  BY <1>2, Zenon DEF JoinedFrom, Replaced
<1>5. /\ DOMAIN routers' = Ids /\ DOMAIN table' = Ids
      /\ routers'[MainId] = q /\ routers'[Sub] = s /\ table'[MainId] = U /\ table'[Sub] = t
  BY <1>3 DEF Ids, MainId, Sub
<1> QED
  BY <1>1, <1>2, <1>4, <1>5

LEMMA SubRouteRight ==
    ASSUME RoutesRight, NEW prefix \in JoinPrefixes, NEW moved \in BOOLEAN, SubRoute(prefix, moved)
    PROVE  RoutesRight' /\ MainKept
<1>1. /\ calls < MaxCalls /\ calls' = calls + 1 /\ calls \in Nat /\ prefix \in Targets
      /\ ParametersHaveNames => Named(prefix)
  BY TargetsAssumption DEF SubRoute, Call, RoutesRight, ParametersHaveNames
<1>2. PICK r, T, other, S : /\ r = routers[MainId] /\ T = table[MainId]
                            /\ other = routers[Sub] /\ S = table[Sub]
  OBVIOUS
<1>3. Right(r, T, MainId, calls) /\ Right(other, S, Sub, calls) /\ OwnOnly(S)
  BY <1>2, TwoRouters DEF RoutesRight
<1>4. \A i \in DOMAIN S : ~Own(S[i], MainId)
  BY <1>3, TwoRouters DEF OwnOnly, Own
<1>5. Right(sub_route(r, prefix, other),
            JoinedFrom(T, BroughtFrom(S, Way(prefix)), Way(prefix)), MainId, calls + 1)
  <2>1. Right(r, T, MainId, calls + 1)
    BY <1>1, <1>3, RightLater
  <2> QED
    BY <1>1, <1>3, <1>4, <2>1, RightJoined DEF Right, OwnOnly
<1>6. /\ routers'[MainId] = sub_route(r, prefix, other)
      /\ routers'[Sub] = IF moved THEN NewRouter ELSE other
      /\ table'[MainId] = JoinedFrom(T, BroughtFrom(S, Way(prefix)), Way(prefix))
      /\ table'[Sub] = IF moved THEN << >> ELSE S
      /\ DOMAIN routers' = Ids /\ DOMAIN table' = Ids
  BY <1>2, SubRouteTables
<1>7. Right(routers'[Sub], table'[Sub], Sub, calls + 1) /\ OwnOnly(table'[Sub])
  <2>1. CASE moved
    <3>1. Right(NewRouter, << >>, Sub, 0) /\ OwnOnly(<< >>)
      BY NewRouterRight
    <3>2. Right(NewRouter, << >>, Sub, calls + 1)
      BY <3>1 DEF Right, OwnRoutes
    <3> QED
      BY <1>6, <2>1, <3>1, <3>2
  <2>2. CASE ~moved
    BY <1>1, <1>3, <1>6, <2>2, RightLater
  <2> QED
    BY <2>1, <2>2
<1>8. calls' \in Nat /\ calls' <= MaxCalls
  BY <1>1, CallsAssumption
<1>9. MainKept
  <2>1. T \in Seq(Entries) /\ Fits(r, T) /\ IsRouter(r) /\ S \in Seq(Entries) /\ Fits(other, S)
    BY <1>3 DEF Right
  <2>2. Kept(r, T, sub_route(r, prefix, other),
             JoinedFrom(T, BroughtFrom(S, Way(prefix)), Way(prefix)))
    BY <1>1, <1>3, <2>1, KeptJoined DEF OwnOnly
  <2> QED
    BY <1>2, <1>6, <2>2 DEF MainKept
<1> QED
  BY <1>1, <1>5, <1>6, <1>7, <1>8, <1>9, TwoRouters DEF RoutesRight

LEMMA InitRight == Init => RoutesRight
<1> SUFFICES ASSUME Init PROVE RoutesRight
  OBVIOUS
<1>1. /\ DOMAIN routers = Ids /\ DOMAIN table = Ids /\ calls = 0
      /\ \A id \in Ids : routers[id] = NewRouter /\ table[id] = << >>
  BY DEF Init
<1>2. \A id \in Ids : Right(routers[id], table[id], id, calls)
  BY <1>1, NewRouterRight
<1>3. OwnOnly(table[Sub])
  BY <1>1, NewRouterRight, TwoRouters
<1> QED
  BY <1>1, <1>2, <1>3, CallsAssumption DEF RoutesRight

LEMMA NextRight == RoutesRight /\ [Next]_vars => RoutesRight' /\ MainKept
<1> SUFFICES ASSUME RoutesRight, [Next]_vars PROVE RoutesRight' /\ MainKept
  OBVIOUS
<1>1. ASSUME NEW id \in Ids, NEW method \in Methods, NEW target \in Patterns[method],
             AddRoute(id, method, target)
      PROVE  RoutesRight' /\ MainKept
  BY <1>1, AddRouteRight
<1>2. ASSUME NEW id \in Ids, NEW target \in FilePatterns, NEW file \in Files,
             ServeStatic(id, target, file)
      PROVE  RoutesRight' /\ MainKept
  BY <1>2, ServeStaticRight
<1>3. ASSUME NEW prefix \in JoinPrefixes, NEW moved \in BOOLEAN, SubRoute(prefix, moved)
      PROVE  RoutesRight' /\ MainKept
  BY <1>3, SubRouteRight
<1>4. ASSUME NEW id \in Ids, Fallback(id) PROVE RoutesRight' /\ MainKept
  BY <1>4, FallbackRight
<1>5. CASE UNCHANGED vars
  <2>1. UNCHANGED <<routers, table, calls>>
    BY <1>5 DEF vars
  <2>2. RoutesRight'
    BY <2>1 DEF RoutesRight
  <2>3. MainKept
    BY <2>1, KeptAsIs DEF MainKept
  <2> QED
    BY <2>2, <2>3
<1> QED
  BY <1>1, <1>2, <1>3, <1>4, <1>5 DEF Next

LEMMA RoutesRightAlways == Spec => []RoutesRight
<1> QED
  BY InitRight, NextRight, PTL DEF Spec

-----------------------------------------------------------------------------
(* Typing *)

\* The routers and the tables keep their types: no node of a tree is without its parent,
\* and every parameter of a node names one of its children, as Node::add leaves them.
THEOREM TypeCorrect == Spec => []TypeOK
<1>1. RoutesRight => TypeOK
  <2> SUFFICES ASSUME RoutesRight PROVE TypeOK
    OBVIOUS
  <2>1. calls \in 0 .. MaxCalls
    BY CallsAssumption DEF RoutesRight
  <2>2. ASSUME NEW id \in Ids, NEW method \in DOMAIN routers[id].handlers
        PROVE  method \in Methods /\ Tree(routers[id].handlers[method])
    <3>1. PICK r, T : r = routers[id] /\ T = table[id]
      OBVIOUS
    <3>2. Fits(r, T) /\ T \in Seq(Entries)
      BY <3>1 DEF RoutesRight, Right
    <3>3. method \in Methods
      BY <3>1, <3>2, EntryFields DEF Fits
    <3>4. Tree(TreeOf(r, method))
      BY <3>2, <3>3 DEF Fits, TreeFits
    <3> QED
      BY <3>1, <3>3, <3>4 DEF TreeOf
  <2>3. ASSUME NEW tree, Tree(tree), NEW path \in DOMAIN tree
        PROVE  /\ Prefixes(path) \subseteq DOMAIN tree
               /\ tree[path].parameter # "" => Append(path, tree[path].parameter) \in DOMAIN tree
    <3>1. path \in Paths
      BY <2>3 DEF Tree, NodesTyped
    <3>2. Prefixes(path) = {p \in Paths : Begins(p, path)}
      BY <3>1, PrefixesBegin
    <3> QED
      BY <2>3, <3>2 DEF Tree
  <2> QED
    BY <2>1, <2>2, <2>3 DEF TypeOK, RoutesRight
<1> QED
  BY <1>1, RoutesRightAlways, PTL

-----------------------------------------------------------------------------
(* What find walks along *)

\* The key find looks up below the node at a path, for a segment of the request.
KeyAt(tree, path, name) ==
    IF tree[path].parameter = "" THEN name ELSE tree[path].parameter

\* The path has a key for each of the first n names: the parameter of the node it is
\* below, or the name where there is none.
Follows(tree, names, path, n) ==
    /\ Len(path) = n
    /\ \A p \in Paths : Begins(p, path) /\ Len(p) < n =>
         path[Len(p) + 1] = KeyAt(tree, p, names[Len(p) + 1])

\* The n-th call of find.
Walked1(tree, names, n) ==
    /\ Walks(tree, names)[n].path \in Paths
    /\ Walks(tree, names)[n].path \in DOMAIN tree =>
         Follows(tree, names, Walks(tree, names)[n].path, n)

IsWalk(w) == w = [path |-> w.path, params |-> w.params]

\* s is the walk w after one call of find.
StepsTo(tree, w, segment, s) ==
    /\ IsWalk(s)
    /\ s.path = IF w.path \notin DOMAIN tree THEN w.path
                ELSE Append(w.path, KeyAt(tree, w.path, segment))
    /\ s.params = IF w.path \notin DOMAIN tree \/ tree[w.path].parameter = "" THEN w.params
                  ELSE Assign(w.params, tree[w.path].parameter, segment)

LEMMA StepPath ==
    ASSUME NEW tree, NEW w, IsWalk(w), NEW segment
    PROVE  StepsTo(tree, w, segment, Step(tree, w, segment))
<1>1. PICK p, q, x, s : /\ p = w.path /\ q = w.params /\ x = tree[p].parameter
                        /\ s = Step(tree, w, segment)
  OBVIOUS
<1>2. w = [path |-> p, params |-> q]
  BY <1>1 DEF IsWalk
<1>3. \A a, b : /\ IsWalk([path |-> a, params |-> b]) /\ [path |-> a, params |-> b].path = a
               /\ [path |-> a, params |-> b].params = b
  BY DEF IsWalk
<1>4. CASE p \notin DOMAIN tree
  <2>1. s = w
    BY <1>1, <1>4 DEF Step
  <2> QED
    BY <1>1, <1>4, <2>1 DEF StepsTo
<1>5. CASE p \in DOMAIN tree /\ x = ""
  <2>1. s = [w EXCEPT !.path = Append(@, segment)]
    BY <1>1, <1>5 DEF Step
  <2>2. s = [path |-> Append(p, segment), params |-> q]
    BY <1>2, <2>1
  <2>3. KeyAt(tree, p, segment) = segment
    BY <1>1, <1>5 DEF KeyAt
  <2>4. IsWalk(s) /\ s.path = Append(p, segment) /\ s.params = q
    BY <1>3, <2>2
  <2>5. s.params = IF p \notin DOMAIN tree \/ tree[p].parameter = "" THEN q
                   ELSE Assign(q, tree[p].parameter, segment)
    BY <1>1, <1>5, <2>4, Zenon
  <2>6. s.path = IF p \notin DOMAIN tree THEN p ELSE Append(p, KeyAt(tree, p, segment))
    BY <1>5, <2>3, <2>4
  <2> QED
    BY <1>1, <2>4, <2>5, <2>6, Zenon DEF StepsTo
<1>6. CASE p \in DOMAIN tree /\ x # ""
  <2>1. s = [path |-> Append(p, x), params |-> Assign(q, x, segment)]
    BY <1>1, <1>6 DEF Step
  <2>3. KeyAt(tree, p, segment) = x
    BY <1>1, <1>6 DEF KeyAt
  <2>4. IsWalk(s) /\ s.path = Append(p, x) /\ s.params = Assign(q, x, segment)
    BY <1>3, <2>1
  <2>5. s.params = IF p \notin DOMAIN tree \/ tree[p].parameter = "" THEN q
                   ELSE Assign(q, tree[p].parameter, segment)
    BY <1>1, <1>6, <2>4, Zenon
  <2>6. s.path = IF p \notin DOMAIN tree THEN p ELSE Append(p, KeyAt(tree, p, segment))
    BY <1>6, <2>3, <2>4
  <2> QED
    BY <1>1, <2>4, <2>5, <2>6, Zenon DEF StepsTo
<1> QED
  BY <1>4, <1>5, <1>6

LEMMA FollowsNext ==
    ASSUME NEW tree, Tree(tree), NEW names, NEW path \in Paths, NEW n \in Nat,
           Follows(tree, names, path, n), path \in DOMAIN tree,
           NEW x \in Segments,
           x = KeyAt(tree, path, names[n + 1])
    PROVE  Follows(tree, names, Append(path, x), n + 1)
<1>1. PICK q : q = Append(path, x)
  OBVIOUS
<1>2. /\ q \in Paths /\ Len(q) = n + 1 /\ Begins(path, q) /\ q[n + 1] = x
      /\ \A i \in 1 .. n : q[i] = path[i]
  <2>1. Len(path) = n
    BY DEF Follows
  <2> QED
    BY <1>1, <2>1, AppendedPath
<1>3. ASSUME NEW p \in Paths, Begins(p, q), Len(p) < n + 1
      PROVE  q[Len(p) + 1] = KeyAt(tree, p, names[Len(p) + 1])
  <2>1. Len(p) \in Nat /\ Len(p) <= n /\ Len(path) = n
    BY <1>3 DEF Paths, Follows
  <2>2. Begins(p, path)
    BY <1>2, <1>3, <2>1, BeginsOrder
  <2>3. CASE Len(p) = n
    <3>1. p = path
      BY <2>1, <2>2, <2>3, BeginsOrder
    <3> QED
      BY <1>2, <2>1, <3>1
  <2>4. CASE Len(p) < n
    <3>1. Len(p) + 1 \in 1 .. n
      BY <2>1, <2>4
    <3>2. q[Len(p) + 1] = path[Len(p) + 1]
      BY <1>2, <3>1
    <3> QED
      BY <2>2, <2>4, <3>2 DEF Follows
  <2> QED
    BY <2>1, <2>3, <2>4
<1> QED
  BY <1>1, <1>2, <1>3 DEF Follows

LEMMA WalkFollows ==
    ASSUME NEW tree, Tree(tree), NEW names \in Paths
    PROVE  \A n \in 0 .. Len(names) :
             IsWalk(Walks(tree, names)[n]) /\ Walked1(tree, names, n)
<1> DEFINE D == {n \in Nat : n <= Len(names) =>
                    IsWalk(Walks(tree, names)[n]) /\ Walked1(tree, names, n)}
<1>0. Len(names) \in Nat
  BY DEF Paths
<1>1. 0 \in D
  <2>1. Walks(tree, names)[0] = AtTheRoot
    BY <1>0, WalksUnfolds
  <2>2. PICK w : w = Walks(tree, names)[0]
    OBVIOUS
  <2>3. IsWalk(w) /\ w.path = << >>
    BY <2>1, <2>2 DEF AtTheRoot, IsWalk
  <2>4. w.path \in Paths /\ Len(w.path) = 0
    BY <2>3, EmptyPath
  <2>5. \A p \in Paths : ~(Len(p) < 0)
    BY DEF Paths
  <2>6. Follows(tree, names, w.path, 0)
    BY <2>4, <2>5 DEF Follows
  <2> QED
    BY <2>2, <2>3, <2>4, <2>6 DEF Walked1
<1>2. ASSUME NEW n \in Nat, n \in D PROVE n + 1 \in D
  <2> SUFFICES ASSUME n + 1 <= Len(names)
               PROVE  IsWalk(Walks(tree, names)[n + 1]) /\ Walked1(tree, names, n + 1)
    OBVIOUS
  <2>1. n + 1 \in 1 .. Len(names) /\ (n + 1) - 1 = n /\ n <= Len(names) /\ n + 1 \in Nat
    BY <1>0
  <2>2. PICK w, v, s : /\ w = Walks(tree, names)[n] /\ v = Walks(tree, names)[n + 1]
                       /\ s = names[n + 1]
    OBVIOUS
  <2>3. v = Step(tree, w, s)
    BY <1>0, <2>1, <2>2, WalksUnfolds
  <2>4. /\ IsWalk(w) /\ w.path \in Paths
        /\ w.path \in DOMAIN tree => Follows(tree, names, w.path, n)
    BY <1>2, <2>1, <2>2 DEF Walked1
  <2>5. s \in Segments
    BY <2>1, <2>2 DEF Paths
  <2>6. /\ IsWalk(v)
        /\ v.path = IF w.path \notin DOMAIN tree THEN w.path
                    ELSE Append(w.path, KeyAt(tree, w.path, s))
    <3>1. StepsTo(tree, w, s, v)
      BY <2>3, <2>4, StepPath
    <3> QED
      BY <3>1, Zenon DEF StepsTo
  <2>7. CASE w.path \notin DOMAIN tree
    BY <2>2, <2>4, <2>6, <2>7 DEF Walked1
  <2>8. CASE w.path \in DOMAIN tree
    <3>1. PICK x : x = KeyAt(tree, w.path, s)
      OBVIOUS
    <3>2. x \in Segments
      BY <2>5, <2>8, <3>1, NodeFields DEF Tree, NodesTyped, KeyAt
    <3>3. v.path = Append(w.path, x)
      BY <2>6, <2>8, <3>1
    <3>4. Follows(tree, names, Append(w.path, x), n + 1)
      BY <2>2, <2>4, <2>8, <3>1, <3>2, FollowsNext
    <3>5. Append(w.path, x) \in Paths
      BY <2>4, <3>2, AppendedPath
    <3> QED
      BY <2>2, <2>6, <3>3, <3>4, <3>5 DEF Walked1
  <2> QED
    BY <2>7, <2>8
<1>3. Nat \subseteq D
  <2> HIDE DEF D
  <2> QED
    BY <1>1, <1>2, InductionOnSet
<1> QED
  BY <1>3

\* What route answers.
LEMMA Routed ==
    ASSUME NEW r, NEW m, m \in DOMAIN r.handlers, NEW target, NEW tree, tree = TreeOf(r, m),
           NEW walk, walk = Walk(tree, target),
           NEW h, h = IF walk.path \in DOMAIN tree THEN tree[walk.path].handler ELSE None
    PROVE  route(r, m, target) =
             [handler |-> IF h # None THEN h ELSE r.fallback, params |-> walk.params]
<1>1. tree = r.handlers[m]
  BY DEF TreeOf
<1>2. PICK found : found = Find(tree, target)
  OBVIOUS
<1>3. found = [handler |-> h, params |-> walk.params]
  BY <1>2 DEF Find
<1>4. route(r, m, target) =
        IF found.handler # None THEN found ELSE [found EXCEPT !.handler = r.fallback]
  BY <1>1, <1>2 DEF route
<1> QED
  BY <1>3, <1>4

-----------------------------------------------------------------------------
(* What is found was added *)

Names(target) == Walked(target, "")

\* Where find ends for a request.
EndsAt(tree, target, path) ==
    /\ path \in Paths
    /\ path \in DOMAIN tree => Follows(tree, Names(target), path, Len(Names(target)))

LEMMA FindEnds ==
    ASSUME NEW tree, Tree(tree), NEW target \in Paths, Len(target) # 0
    PROVE  /\ Names(target) \in Paths
           /\ Walk(tree, target) = Walks(tree, Names(target))[Len(Names(target))]
           /\ EndsAt(tree, target, Walk(tree, target).path)
<1>1. PICK names, w : names = Names(target) /\ w = Walk(tree, target)
  OBVIOUS
<1>2. names \in Paths /\ Len(names) \in Nat
  <2>1. PICK slash : slash = ""
    OBVIOUS
  <2>2. Walked(target, slash) \in Seq(Segments)
    BY WalkedIsShorter DEF Paths
  <2>3. names = Walked(target, slash)
    BY <1>1, <2>1, Zenon DEF Names
  <2> QED
    BY <2>2, <2>3 DEF Paths
<1>3. w = Walks(tree, names)[Len(names)]
  BY <1>1, Zenon DEF Walk, Names
<1>4. Walked1(tree, names, Len(names))
  BY <1>2, WalkFollows
<1> QED
  BY <1>1, <1>2, <1>3, <1>4 DEF Walked1, EndsAt

LEMMA RequestPaths ==
    ASSUME NEW target \in Requests
    PROVE  target \in Paths /\ Len(target) # 0
BY TargetsAssumption, EmptyPath DEF Paths

LEMMA PieceIs ==
    ASSUME NEW w \in Pieces, NEW x, w.name = x
    PROVE  /\ w.param => w = [name |-> x, param |-> TRUE]
           /\ ~w.param => w = Fixed(x)
<1>1. w = [name |-> w.name, param |-> w.param] /\ w.param \in BOOLEAN
  BY DEF Pieces
<1>2. w.param => w.param = TRUE
  BY <1>1
<1>3. ~w.param => w.param = FALSE
  BY <1>1
<1> QED
  BY <1>1, <1>2, <1>3, Zenon DEF Fixed

\* The route that gave a node its parameter.
Gave(w, p, x) ==
    /\ w \in Seq(Pieces) /\ Len(p) + 1 \in DOMAIN w
    /\ w[Len(p) + 1] = [name |-> x, param |-> TRUE]
    /\ Keys(SubSeq(w, 1, Len(p))) = p /\ Gives(w, p)

LEMMA NameGiven ==
    ASSUME NEW w \in Seq(Pieces), NEW p \in Paths, NEW x, GivesName(w, p, x)
    PROVE  Gave(w, p, x)
<1>1. Gives(w, p) /\ w[Len(p) + 1].name = x
  BY DEF GivesName
<1>2. Len(p) + 1 \in DOMAIN w /\ w[Len(p) + 1].param /\ w[Len(p) + 1] \in Pieces
  BY <1>1, GivenName
<1>3. w[Len(p) + 1] = [name |-> x, param |-> TRUE]
  BY <1>1, <1>2, PieceIs
<1>4. Keys(w) \in Paths /\ Begins(p, Keys(w)) /\ Len(Keys(w)) = Len(w)
  BY <1>1, KeysAreNames DEF Gives
<1>5. Len(p) \in 0 .. Len(Keys(w)) /\ p = SubSeq(Keys(w), 1, Len(p))
  BY <1>4, BeginsIsSubSeq
<1>6. Keys(SubSeq(w, 1, Len(p))) = p
  BY <1>4, <1>5, KeysOfSubSeq
<1> QED
  BY <1>1, <1>2, <1>3, <1>6 DEF Gave

LEMMA ParameterGiven ==
    ASSUME NEW tree, NEW T \in Seq(Entries), NEW m, TreeFits(tree, T, m),
           NEW p \in DOMAIN tree, NEW name, KeyAt(tree, p, name) # name
    PROVE  \E j \in DOMAIN T : T[j].method = m /\ Gave(T[j].way, p, KeyAt(tree, p, name))
<1>1. tree[p].parameter # "" /\ KeyAt(tree, p, name) = tree[p].parameter
  BY DEF KeyAt
<1>2. PICK j \in DOMAIN T : T[j].method = m /\ GivesName(T[j].way, p, tree[p].parameter)
  BY <1>1 DEF TreeFits, ParametersFit
<1>3. T[j].way \in Seq(Pieces) /\ p \in Paths
  <2>1. T[j] \in Entries
    OBVIOUS
  <2>2. p \in Paths
    BY DEF TreeFits, Tree, NodesTyped
  <2> QED
    BY <2>1, <2>2, WayOfEntry
<1>4. Gave(T[j].way, p, tree[p].parameter)
  BY <1>2, <1>3, NameGiven
<1> QED
  BY <1>1, <1>2, <1>4

\* The beginning of a way, and of its keys.
LEMMA WayTo ==
    ASSUME NEW w \in Seq(Pieces), NEW i \in DOMAIN w
    PROVE  \E p \in Paths : /\ p = Keys(SubSeq(w, 1, i - 1)) /\ Len(p) = i - 1
                            /\ Begins(p, Keys(w)) /\ Len(p) < Len(w) /\ Len(p) + 1 = i
                            /\ Keys(w)[i] = w[i].name
<1>1. Len(w) \in Nat /\ i \in 1 .. Len(w) /\ Keys(w) \in Paths /\ Len(Keys(w)) = Len(w)
      /\ Keys(w)[i] = w[i].name
  BY KeysAreNames
<1>2. PICK n : n = i - 1
  OBVIOUS
<1>3. n \in 0 .. Len(w) /\ n < Len(w) /\ n + 1 = i
  BY <1>1, <1>2
<1>4. PICK p : p = SubSeq(Keys(w), 1, n)
  OBVIOUS
<1>5. p = Keys(SubSeq(w, 1, n)) /\ p \in Paths
  BY <1>1, <1>3, <1>4, KeysOfSubSeq, SubSeqIs DEF Paths
<1>6. Begins(p, Keys(w)) /\ Len(p) = n
  BY <1>1, <1>3, <1>4, <1>5, BeginsIsSubSeq
<1> QED
  BY <1>1, <1>2, <1>3, <1>5, <1>6

\* The last route with its keys is behind all others with them, replaced or not.
LEMMA LastOfAll ==
    ASSUME NEW T \in Seq(Entries), RemovedFirst(T), NEW m, NEW p, NEW k, LastWith(T, m, p, k),
           NEW j \in DOMAIN T, T[j].method = m, Keys(T[j].way) = p
    PROVE  j <= k
<1>1. /\ k \in DOMAIN T /\ k \in Nat /\ j \in Nat /\ T[k].method = m /\ ~T[k].removed
      /\ Keys(T[k].way) = p
  BY DEF LastWith, Live
<1>2. CASE ~T[j].removed
  BY <1>2 DEF LastWith, Live
<1>3. CASE T[j].removed
  BY <1>1, <1>3 DEF RemovedFirst
<1> QED
  BY <1>2, <1>3

\* FoundRoutesFit, for the route k of the table.
FitsRequest(T, method, names, handler, k) ==
    LET way == T[k].way
    IN  /\ T[k].method = method
        /\ Len(way) = Len(names)
        /\ \A j \in k + 1 .. Len(T) : T[j].method = method => Keys(T[j].way) # Keys(way)
        /\ \A i \in DOMAIN way :
             \/ way[i].name = names[i]
             \/ \E j \in DOMAIN T :
                  /\ T[j].method = method
                  /\ i \in DOMAIN T[j].way
                  /\ T[j].way[i] = [name |-> way[i].name, param |-> TRUE]
                  /\ Keys(SubSeq(T[j].way, 1, i - 1)) = Keys(SubSeq(way, 1, i - 1))

LEMMA LastFits ==
    ASSUME NEW tree, NEW T \in Seq(Entries), RemovedFirst(T), NEW m, TreeFits(tree, T, m),
           NEW path \in DOMAIN tree, NEW names, Follows(tree, names, path, Len(names)),
           NEW k, LastWith(T, m, path, k), NEW handler
    PROVE  FitsRequest(T, m, names, handler, k)
<1>1. k \in DOMAIN T /\ T[k].method = m /\ Keys(T[k].way) = path /\ k \in Nat
  BY DEF LastWith, Live
<1>2. T[k] \in Entries
  BY <1>1
<1>3. PICK way : way = T[k].way
  OBVIOUS
<1>4. way \in Seq(Pieces) /\ Len(path) = Len(way) /\ Len(way) \in Nat /\ Keys(way) = path
      /\ path \in Paths
  BY <1>1, <1>2, <1>3, WayOfEntry
<1>5. Len(way) = Len(names)
  BY <1>4 DEF Follows
<1>6. \A j \in k + 1 .. Len(T) : T[j].method = m => Keys(T[j].way) # Keys(way)
  <2> SUFFICES ASSUME NEW j \in k + 1 .. Len(T), T[j].method = m, Keys(T[j].way) = Keys(way)
               PROVE  FALSE
    OBVIOUS
  <2>1. j \in DOMAIN T /\ j \in Nat /\ ~(j <= k)
    BY <1>1
  <2> QED
    BY <1>4, <2>1, LastOfAll
<1>7. ASSUME NEW i \in DOMAIN way, way[i].name # names[i]
      PROVE  \E j \in DOMAIN T :
                  /\ T[j].method = m
                  /\ i \in DOMAIN T[j].way
                  /\ T[j].way[i] = [name |-> way[i].name, param |-> TRUE]
                  /\ Keys(SubSeq(T[j].way, 1, i - 1)) = Keys(SubSeq(way, 1, i - 1))
  <2>1. PICK p \in Paths : /\ p = Keys(SubSeq(way, 1, i - 1)) /\ Len(p) = i - 1
                           /\ Begins(p, path) /\ Len(p) < Len(way) /\ Len(p) + 1 = i
                           /\ path[i] = way[i].name
    BY <1>4, WayTo
  <2>2. p \in DOMAIN tree
    BY <2>1 DEF TreeFits, Tree
  <2>3. path[Len(p) + 1] = KeyAt(tree, p, names[Len(p) + 1])
    BY <1>5, <2>1 DEF Follows
  <2>4. KeyAt(tree, p, names[i]) = way[i].name
    BY <2>1, <2>3
  <2>5. PICK j \in DOMAIN T : T[j].method = m /\ Gave(T[j].way, p, KeyAt(tree, p, names[i]))
    BY <1>7, <2>2, <2>4, ParameterGiven
  <2>6. Gave(T[j].way, p, way[i].name)
    BY <2>4, <2>5
  <2>7. /\ i \in DOMAIN T[j].way /\ T[j].way[i] = [name |-> way[i].name, param |-> TRUE]
        /\ Keys(SubSeq(T[j].way, 1, i - 1)) = p
    BY <2>1, <2>6 DEF Gave
  <2> QED
    BY <2>1, <2>5, <2>7
<1> QED
  BY <1>1, <1>3, <1>5, <1>6, <1>7, Zenon DEF FitsRequest

\* A route that is found, and not the fallback, is one that was added.
LEMMA RouteFound ==
    ASSUME NEW r, NEW T, NEW id, NEW n, Right(r, T, id, n), NEW m \in Methods,
           NEW target \in Paths, Len(target) # 0, NEW tree, tree = TreeOf(r, m),
           NEW handler, handler = route(r, m, target).handler,
           handler # None, handler # r.fallback
    PROVE  LET path == Walk(tree, target).path
           IN  /\ path \in DOMAIN tree /\ EndsAt(tree, target, path)
               /\ \E k \in DOMAIN T : LastWith(T, m, path, k) /\ handler = T[k].handler
<1>1. T \in Seq(Entries) /\ Fits(r, T)
  BY DEF Right
<1>2. TreeFits(tree, T, m)
  BY <1>1 DEF Fits
<1>3. PICK walk, h : /\ walk = Walk(tree, target)
                     /\ h = IF walk.path \in DOMAIN tree THEN tree[walk.path].handler ELSE None
  OBVIOUS
<1>4. EndsAt(tree, target, walk.path)
  BY <1>2, <1>3, FindEnds DEF TreeFits
<1>5. m \in DOMAIN r.handlers
  BY DEF route
<1>6. handler = IF h # None THEN h ELSE r.fallback
  BY <1>3, <1>5, Routed
<1>7. walk.path \in DOMAIN tree /\ handler = tree[walk.path].handler
  BY <1>3, <1>6
<1>8. \E k \in DOMAIN T : LastWith(T, m, walk.path, k) /\ handler = T[k].handler
  BY <1>2, <1>7 DEF TreeFits, HandlersFit
<1> QED
  BY <1>3, <1>4, <1>7, <1>8

\* FoundRoutesFit, for a request.
FitsOrFalls(method, target) ==
    LET names   == Walked(target, "")
        handler == route(Main, method, target).handler
        added   == {k \in DOMAIN Table : Table[k].handler = handler /\ ~Table[k].removed}
    IN  handler \in {None, Main.fallback} \/
        \E k \in added : FitsRequest(Table, method, names, handler, k)

LEMMA FoundFits == RoutesRight => FoundRoutesFit
<1> SUFFICES ASSUME RoutesRight, NEW method \in Methods, NEW target \in Requests,
                    NEW names, names = Names(target),
                    NEW handler, handler = route(Main, method, target).handler,
                    handler # None, handler # Main.fallback
             PROVE  \E k \in DOMAIN Table : /\ Table[k].handler = handler /\ ~Table[k].removed
                                           /\ FitsRequest(Table, method, names, handler, k)
  <2>1. (\A method \in Methods, target \in Requests : FitsOrFalls(method, target))
          => FoundRoutesFit
    BY Zenon DEF FoundRoutesFit, FitsOrFalls, FitsRequest
  <2>2. ASSUME NEW method \in Methods, NEW target \in Requests,
               NEW handler, handler = route(Main, method, target).handler,
               handler # None /\ handler # Main.fallback =>
                  \E k \in DOMAIN Table : /\ Table[k].handler = handler /\ ~Table[k].removed
                                         /\ FitsRequest(Table, method, Names(target), handler, k)
        PROVE  FitsOrFalls(method, target)
    BY <2>2, Zenon DEF FitsOrFalls, Names
  <2> QED
    BY <2>1, <2>2
<1>1. PICK r, T : r = Main /\ T = Table
  OBVIOUS
<1>2. Right(r, T, MainId, calls)
  BY <1>1, TwoRouters DEF RoutesRight, Main, Table, MainId
<1>3. PICK tree, path : tree = TreeOf(r, method) /\ path = Walk(tree, target).path
  OBVIOUS
<1>4. target \in Paths /\ Len(target) # 0
  BY RequestPaths
<1>5. PICK k \in DOMAIN T : /\ LastWith(T, method, path, k) /\ handler = T[k].handler
                            /\ path \in DOMAIN tree /\ EndsAt(tree, target, path)
  BY <1>1, <1>2, <1>3, <1>4, RouteFound
<1>6. T \in Seq(Entries) /\ RemovedFirst(T) /\ TreeFits(tree, T, method)
  BY <1>2, <1>3 DEF Right, Fits
<1>7. Follows(tree, names, path, Len(names))
  BY <1>5 DEF EndsAt
<1>8. FitsRequest(T, method, names, handler, k)
  BY <1>5, <1>6, <1>7, LastFits
<1>9. ~T[k].removed
  BY <1>5 DEF LastWith, Live
<1> QED
  BY <1>1, <1>5, <1>8, <1>9

\* What Router::route finds, with any routes: a route that was added and not replaced
\* since, the last one with its keys, which fits the request but where another route
\* took the segment for a parameter of that name.
THEOREM WhatIsFoundFits == Spec => []FoundRoutesFit
<1> QED
  BY FoundFits, RoutesRightAlways, PTL

-----------------------------------------------------------------------------
(* Static files *)

LEMMA FixedTarget ==
    ASSUME NEW t \in Seq(Pieces), \A i \in DOMAIN t : ~t[i].param
    PROVE  [i \in DOMAIN Keys(t) |-> Fixed(Keys(t)[i])] = t
<1>1. Len(t) \in Nat /\ DOMAIN t = 1 .. Len(t) /\ DOMAIN Keys(t) = 1 .. Len(t)
  BY KeysAreNames DEF Keys
<1>2. \A i \in 1 .. Len(t) : Fixed(Keys(t)[i]) = t[i]
  <2> TAKE i \in 1 .. Len(t)
  <2>1. Keys(t)[i] = t[i].name /\ t[i] \in Pieces /\ ~t[i].param
    BY <1>1, KeysAreNames
  <2> QED
    BY <2>1, PieceIs
<1>3. t = [i \in 1 .. Len(t) |-> t[i]]
  BY <1>1
<1> QED
  BY <1>1, <1>2, <1>3

LEMMA StaticServes == RoutesRight => StaticServesItsFile
<1> SUFFICES ASSUME RoutesRight, NEW k \in DOMAIN Table, NEW e, e = Table[k],
                    Static(e), Own(e, MainId), \A i \in DOMAIN e.target : ~e.target[i].param,
                    route(Main, Get, Keys(e.target)).handler = e.handler
             PROVE  FileOf(Main, Keys(e.target)) = e.file
  BY Zenon DEF StaticServesItsFile, Static, Own, MainId, Get
<1>1. PICK r, T : r = Main /\ T = Table
  OBVIOUS
<1>2. Right(r, T, MainId, calls)
  BY <1>1, TwoRouters DEF RoutesRight, Main, Table, MainId
<1>3. T \in Seq(Entries) /\ Fits(r, T) /\ RemovedFirst(T)
  BY <1>2 DEF Right
<1>4. k \in DOMAIN T /\ e = T[k] /\ e \in Entries
  BY <1>1, <1>3
<1>5. PICK target, request : target = e.target /\ request = Keys(target)
  OBVIOUS
<1>6. /\ target \in Seq(Pieces) /\ request \in Paths /\ Len(request) # 0
  <2>1. target \in Seq(Pieces) /\ Len(target) \in Nat \ {0}
    BY <1>4, <1>5, EntryFields, TargetsAreLong
  <2> QED
    BY <1>5, <2>1, KeysAreNames
<1>7. LeadsTo(e.way, target) /\ e.method = Get
  BY <1>2, <1>4, <1>5 DEF Right, OwnRoutes
<1>8. Get \in Methods
  BY <1>4, <1>7, EntryFields
<1>9. e.handler # None /\ e.handler # r.fallback
  <2>1. e.handler # None
    BY <1>4, EntryFields, HandlersAssumption
  <2>2. ~IsFallback(e.handler)
    BY <1>2, <1>4 DEF Right, NoFallbacks
  <2> QED
    BY <1>2, <2>1, <2>2 DEF Right
<1>10. PICK tree, path : tree = TreeOf(r, Get) /\ path = Walk(tree, request).path
  OBVIOUS
<1>11. PICK l \in DOMAIN T : LastWith(T, Get, path, l) /\ e.handler = T[l].handler
  BY <1>1, <1>2, <1>5, <1>6, <1>8, <1>9, <1>10, RouteFound
<1>12. LastWith(T, Get, path, k)
  <2>1. Own(T[l], MainId)
    BY <1>11 DEF Own
  <2>2. l = k
    BY <1>2, <1>4, <1>11, <2>1 DEF Right, OwnHandlers
  <2> QED
    BY <1>11, <2>2
<1>13. ASSUME NEW j \in DOMAIN T, OwnStatic(T[j], MainId, target) PROVE j <= k
  <2>1. T[j].method = Get /\ T[j].way = e.way
    BY <1>2, <1>7, <1>13 DEF Right, OwnRoutes, OwnStatic, LeadsTo
  <2>2. Keys(T[j].way) = path
    BY <1>4, <1>12, <2>1 DEF LastWith
  <2> QED
    BY <1>3, <1>12, <2>1, <2>2, LastOfAll
<1>14. target \in DOMAIN r.files /\ r.files[target] = e.file
  BY <1>2, <1>4, <1>5, <1>13 DEF Right, ServesLast
<1>15. [i \in DOMAIN request |-> Fixed(request[i])] = target
  BY <1>5, <1>6, FixedTarget
<1>16. FileOf(r, request) = IF target \in DOMAIN r.files THEN r.files[target] ELSE ""
  BY <1>15, Zenon DEF FileOf
<1> QED
  BY <1>1, <1>5, <1>14, <1>16

\* The file map of Router is written by serve_static alone and read by the target of the
\* request: a static route without parameters never answers with another one's file.
THEOREM StaticRoutesServeTheirFiles == Spec => []StaticServesItsFile
<1> QED
  BY StaticServes, RoutesRightAlways, PTL

-----------------------------------------------------------------------------
(* Routes that do not contend *)

LEMMA KeysTo ==
    ASSUME NEW w \in Seq(Pieces), NEW p \in Paths, Begins(p, Keys(w)), Len(p) < Len(w)
    PROVE  Len(p) + 1 \in DOMAIN w /\ Keys(SubSeq(w, 1, Len(p))) = p /\ w[Len(p) + 1] \in Pieces
<1>1. Len(p) \in Nat /\ Len(w) \in Nat /\ Keys(w) \in Paths /\ Len(Keys(w)) = Len(w)
      /\ DOMAIN w = 1 .. Len(w)
  BY KeysAreNames DEF Paths
<1>2. Len(p) + 1 \in 1 .. Len(w)
  BY <1>1
<1>3. Len(p) \in 0 .. Len(w)
  BY <1>1
<1>4. p = SubSeq(Keys(w), 1, Len(p))
  BY <1>1, BeginsIsSubSeq
<1>5. Keys(SubSeq(w, 1, Len(p))) = SubSeq(Keys(w), 1, Len(p))
  BY <1>3, KeysOfSubSeq
<1> QED
  BY <1>1, <1>2, <1>4, <1>5

LEMMA Agree ==
    ASSUME NEW v \in Seq(Pieces), NEW w \in Seq(Pieces), ~Contend(v, w),
           NEW p \in Paths, Begins(p, Keys(v)), Len(p) < Len(v),
           Begins(p, Keys(w)), Len(p) < Len(w),
           v[Len(p) + 1].param \/ w[Len(p) + 1].param
    PROVE  v[Len(p) + 1] = w[Len(p) + 1]
<1>1. PICK i : i = Len(p) + 1
  OBVIOUS
<1>2. i - 1 = Len(p)
  BY <1>1 DEF Paths
<1>3. /\ i \in DOMAIN v /\ Keys(SubSeq(v, 1, i - 1)) = p
      /\ i \in DOMAIN w /\ Keys(SubSeq(w, 1, i - 1)) = p
  BY <1>1, <1>2, KeysTo
<1> QED
  BY <1>1, <1>3 DEF Contend

\* Of routes that do not contend, those with the same keys are the same.
LEMMA SameWay ==
    ASSUME NEW v \in Seq(Pieces), NEW w \in Seq(Pieces), ~Contend(v, w), Keys(v) = Keys(w)
    PROVE  v = w
<1>1. /\ Len(v) = Len(w) /\ Len(w) \in Nat /\ DOMAIN w = 1 .. Len(w)
      /\ \A i \in 1 .. Len(w) : v[i].name = w[i].name /\ v[i] \in Pieces /\ w[i] \in Pieces
  BY KeysAreNames
<1>2. ASSUME NEW i \in 1 .. Len(w) PROVE v[i] = w[i]
  <2>1. PICK p \in Paths : /\ Len(p) = i - 1 /\ Begins(p, Keys(w)) /\ Len(p) < Len(w)
                           /\ Len(p) + 1 = i
    BY <1>1, WayTo
  <2>2. CASE v[i].param \/ w[i].param
    BY <1>1, <2>1, <2>2, Agree
  <2>3. CASE ~v[i].param /\ ~w[i].param
    BY <1>1, <2>3, PieceIs
  <2> QED
    BY <2>2, <2>3
<1> QED
  BY <1>1, <1>2, SeqEqual

NoneContend(T, m) ==
    \A j, k \in DOMAIN T :
        T[j].method = m /\ T[k].method = m => ~Contend(T[j].way, T[k].way)

\* The node at a path on a way has the parameter of the way.
KeyFits(tree, w, p) ==
    /\ p \in DOMAIN tree
    /\ w[Len(p) + 1].param => tree[p].parameter # "" /\ tree[p].parameter = w[Len(p) + 1].name
    /\ ~w[Len(p) + 1].param => tree[p].parameter = ""

LEMMA KeyOnTheWay ==
    ASSUME NEW tree, NEW T \in Seq(Entries), NEW m, TreeFits(tree, T, m), ParametersHaveNames,
           NEW k \in Live(T, m),
           \A j \in DOMAIN T : T[j].method = m => ~Contend(T[j].way, T[k].way),
           NEW p \in Paths, Begins(p, Keys(T[k].way)), Len(p) < Len(T[k].way)
    PROVE  KeyFits(tree, T[k].way, p)
<1>1. PICK w, i : w = T[k].way /\ i = Len(p) + 1
  OBVIOUS
<1>2. k \in DOMAIN T /\ T[k].method = m
  BY DEF Live
<1>3. w \in Seq(Pieces) /\ Begins(p, Keys(w)) /\ Len(p) < Len(w)
  BY <1>1, <1>2, WayOfEntry
<1>4. i \in DOMAIN w /\ w[i] \in Pieces
  BY <1>1, <1>3, KeysTo
<1>5. p \in DOMAIN tree
  BY <1>1, <1>2, <1>3 DEF TreeFits, NodesFit
<1>6. ASSUME tree[p].parameter # "" PROVE w[i].param /\ tree[p].parameter = w[i].name
  <2>1. PICK j \in DOMAIN T : T[j].method = m /\ GivesName(T[j].way, p, tree[p].parameter)
    BY <1>5, <1>6 DEF TreeFits, ParametersFit
  <2>2. PICK v : v = T[j].way
    OBVIOUS
  <2>3. v \in Seq(Pieces) /\ ~Contend(v, w)
    BY <1>1, <2>1, <2>2, WayOfEntry
  <2>4. v[i].param /\ v[i].name = tree[p].parameter /\ Begins(p, Keys(v)) /\ Len(p) < Len(v)
    BY <1>1, <2>1, <2>2 DEF GivesName, Gives
  <2>5. v[i] = w[i]
    BY <1>1, <1>3, <2>3, <2>4, Agree
  <2> QED
    BY <2>4, <2>5
<1>7. w[i].param => tree[p].parameter # ""
  <2>1. w[i].param => Gives(w, p)
    BY <1>1, <1>3 DEF Gives
  <2> QED
    BY <1>1, <1>5, <2>1 DEF TreeFits, ParametersKept
<1>8. /\ w[i].param => tree[p].parameter # "" /\ tree[p].parameter = w[i].name
      /\ ~w[i].param => tree[p].parameter = ""
  BY <1>6, <1>7
<1> QED
  BY <1>1, <1>5, <1>8, Zenon DEF KeyFits

-----------------------------------------------------------------------------
(* What the parameters are bound to *)

At(way, x, n) == {i \in 1 .. n : way[i].param /\ way[i].name = x}

LastOf(A) == CHOOSE k \in A : \A j \in A : j <= k

LastAt(way, x, n) == LastOf(At(way, x, n))

\* Bound, for the first n pieces.
BoundTo(way, names, n) ==
    [x \in {way[i].name : i \in {j \in 1 .. n : way[j].param}} |-> names[LastAt(way, x, n)]]

LEMMA BoundToAll ==
    ASSUME NEW way \in Seq(Pieces), NEW names
    PROVE  BoundTo(way, names, Len(way)) = Bound(way, names)
<1>1. DOMAIN way = 1 .. Len(way)
  OBVIOUS
<1>2. PICK n : n = Len(way)
  OBVIOUS
<1>3. /\ {way[i].name : i \in {j \in 1 .. n : way[j].param}} =
           {way[i].name : i \in {j \in DOMAIN way : way[j].param}}
      /\ \A x : At(way, x, n) = {i \in DOMAIN way : way[i].param /\ way[i].name = x}
  BY <1>1, <1>2 DEF At
<1>4. PICK D : D = {way[i].name : i \in {j \in DOMAIN way : way[j].param}}
  OBVIOUS
<1>5. BoundTo(way, names, n) = [x \in D |-> names[LastOf(At(way, x, n))]]
  BY <1>3, <1>4, Zenon DEF BoundTo, LastAt
<1>6. Bound(way, names) =
        [x \in D |-> names[LastOf({i \in DOMAIN way : way[i].param /\ way[i].name = x})]]
  BY <1>4, Zenon DEF Bound, LastOf
<1>7. \A x : names[LastOf(At(way, x, n))] =
               names[LastOf({i \in DOMAIN way : way[i].param /\ way[i].name = x})]
  <2> TAKE x
  <2>1. PICK A : A = At(way, x, n)
    OBVIOUS
  <2>2. A = {i \in DOMAIN way : way[i].param /\ way[i].name = x}
    BY <1>3, <2>1
  <2> QED
    BY <2>1, <2>2
<1> QED
  BY <1>2, <1>5, <1>6, <1>7, ZenonT(60)

LEMMA EqualLast ==
    ASSUME NEW way, NEW y, NEW n, NEW m, At(way, y, m) = At(way, y, n)
    PROVE  LastAt(way, y, m) = LastAt(way, y, n)
<1>1. PICK A : A = At(way, y, n)
  OBVIOUS
<1>2. LastAt(way, y, m) = LastOf(A) /\ LastAt(way, y, n) = LastOf(A)
  BY <1>1, Zenon DEF LastAt
<1> QED
  BY <1>2

LEMMA BoundToNext ==
    ASSUME NEW way \in Seq(Pieces), NEW names, NEW n \in Nat, n + 1 <= Len(way)
    PROVE  BoundTo(way, names, n + 1) =
             IF way[n + 1].param THEN Assign(BoundTo(way, names, n), way[n + 1].name, names[n + 1])
                                 ELSE BoundTo(way, names, n)
<1>1. PICK m, x, N : m = n + 1 /\ x = way[m].name
                     /\ N = {way[i].name : i \in {j \in 1 .. n : way[j].param}}
  OBVIOUS
<1>2. 1 .. m = (1 .. n) \cup {m} /\ m \in Nat /\ \A i \in 1 .. n : i <= m /\ i # m
  BY <1>1
<1>3. PICK M : M = {way[i].name : i \in {j \in 1 .. m : way[j].param}}
  OBVIOUS
<1>4. CASE ~way[m].param
  <2>1. \A y : At(way, y, m) = At(way, y, n)
    BY <1>2, <1>4 DEF At
  <2>2. M = N
    BY <1>1, <1>2, <1>3, <1>4
  <2>3. \A y : LastAt(way, y, m) = LastAt(way, y, n)
    BY <2>1, EqualLast
  <2>4. BoundTo(way, names, m) = [y \in M |-> names[LastAt(way, y, m)]]
    BY <1>3, Zenon DEF BoundTo
  <2>5. BoundTo(way, names, n) = [y \in N |-> names[LastAt(way, y, n)]]
    BY <1>1, Zenon DEF BoundTo
  <2>6. BoundTo(way, names, m) = BoundTo(way, names, n)
    BY <2>2, <2>3, <2>4, <2>5
  <2> QED
    BY <1>1, <1>4, <2>6
<1>5. CASE way[m].param
  <2>1. M = N \cup {x}
    BY <1>1, <1>2, <1>3, <1>5
  <2>2. \A y : y # x => At(way, y, m) = At(way, y, n)
    BY <1>1, <1>2 DEF At
  <2>3. \A y : y # x => LastAt(way, y, m) = LastAt(way, y, n)
    BY <2>2, EqualLast
  <2>4. LastAt(way, x, m) = m
    <3>1. m \in At(way, x, m) /\ \A j \in At(way, x, m) : j <= m /\ j \in Nat
      BY <1>1, <1>2, <1>5 DEF At
    <3>2. PICK A : A = At(way, x, m)
      OBVIOUS
    <3>3. \A i \in A : (\A j \in A : j <= i) => i = m
      BY <1>2, <3>1, <3>2
    <3>4. LastOf(A) = m
      BY <3>1, <3>2, <3>3 DEF LastOf
    <3> QED
      BY <3>2, <3>4, Zenon DEF LastAt
  <2>5. BoundTo(way, names, m) = [y \in M |-> names[LastAt(way, y, m)]]
    BY <1>3, Zenon DEF BoundTo
  <2>6. BoundTo(way, names, n) = [y \in N |-> names[LastAt(way, y, n)]]
    BY <1>1, Zenon DEF BoundTo
  <2>7. PICK b : b = BoundTo(way, names, n)
    OBVIOUS
  <2>8. Assign(b, x, names[m]) = [y \in N \cup {x} |-> IF y = x THEN names[m] ELSE b[y]]
    BY <2>6, <2>7 DEF Assign
  <2>9. \A y \in M : names[LastAt(way, y, m)] = IF y = x THEN names[m] ELSE b[y]
    BY <2>1, <2>3, <2>4, <2>6, <2>7
  <2>10. BoundTo(way, names, m) = Assign(b, x, names[m])
    BY <2>1, <2>5, <2>8, <2>9
  <2> QED
    BY <1>1, <1>5, <2>7, <2>10
<1> QED
  BY <1>1, <1>4, <1>5

LEMMA BoundToNone ==
    ASSUME NEW way, NEW names
    PROVE  BoundTo(way, names, 0) = << >>
<1>1. {way[i].name : i \in {j \in 1 .. 0 : way[j].param}} = {}
  OBVIOUS
<1>2. \A f, g : f = [y \in {} |-> g[y]] => f = << >>
  OBVIOUS
<1> QED
  BY <1>1 DEF BoundTo

-----------------------------------------------------------------------------
(* A request that fits a route which no other contends with *)

\* No route of the method contends with route k.
Uncontended(T, m, k) == \A j \in DOMAIN T : T[j].method = m => ~Contend(T[j].way, T[k].way)

\* The walk is n keys along the way, with the parameters of these.
Along(w, way, names, n) ==
    /\ IsWalk(w) /\ w.path \in Paths /\ Len(w.path) = n /\ Begins(w.path, Keys(way))
    /\ w.params = BoundTo(way, names, n)

LEMMA StepAlong ==
    ASSUME NEW tree, NEW T \in Seq(Entries), NEW m, TreeFits(tree, T, m), ParametersHaveNames,
           NEW k \in Live(T, m), Uncontended(T, m, k), NEW way, way = T[k].way,
           NEW names \in Paths, Matches(way, names),
           NEW n \in Nat, n < Len(names), NEW w, Along(w, way, names, n)
    PROVE  Along(Step(tree, w, names[n + 1]), way, names, n + 1)
<1>1. PICK p, i, x : p = w.path /\ i = n + 1 /\ x = names[i]
  OBVIOUS
<1>2. /\ p \in Paths /\ Len(p) = n /\ Begins(p, Keys(way)) /\ IsWalk(w)
      /\ w.params = BoundTo(way, names, n)
  BY <1>1 DEF Along
<1>3. /\ way \in Seq(Pieces) /\ Keys(way) \in Paths /\ Len(Keys(way)) = Len(way)
      /\ Len(way) = Len(names) /\ T[k] \in Entries
  <2>1. T[k] \in Entries
    BY DEF Live
  <2> QED
    BY <2>1, WayOfEntry DEF Matches
<1>4. n < Len(way) /\ n + 1 <= Len(way) /\ i \in 1 .. Len(way) /\ i \in DOMAIN way
  BY <1>1, <1>3
<1>5. /\ p \in DOMAIN tree
      /\ way[i].param => tree[p].parameter # "" /\ tree[p].parameter = way[i].name
      /\ ~way[i].param => tree[p].parameter = ""
  <2>1. Len(p) < Len(T[k].way) /\ Begins(p, Keys(T[k].way)) /\ Len(p) + 1 = i
    BY <1>1, <1>2, <1>4
  <2>2. \A j \in DOMAIN T : T[j].method = m => ~Contend(T[j].way, T[k].way)
    BY DEF Uncontended
  <2>3. KeyFits(tree, T[k].way, p)
    BY <1>2, <2>1, <2>2, KeyOnTheWay
  <2> QED
    BY <2>1, <2>3, Zenon DEF KeyFits
<1>6. /\ way[i] \in Pieces /\ way[i].name \in Segments
      /\ Keys(way)[i] = way[i].name
  <2>1. way[i] \in Pieces /\ Keys(way)[i] = way[i].name
    BY <1>3, <1>4, KeysAreNames
  <2> QED
    BY <2>1 DEF Pieces
<1>7. KeyAt(tree, p, x) = way[i].name
  <2>1. CASE way[i].param
    BY <1>5, <2>1, Zenon DEF KeyAt
  <2>2. CASE ~way[i].param
    <3>1. way[i].name = x
      BY <1>1, <1>4, <2>2 DEF Matches
    <3> QED
      BY <1>5, <2>2, <3>1, Zenon DEF KeyAt
  <2> QED
    BY <2>1, <2>2
<1>8. PICK s : s = Step(tree, w, x)
  OBVIOUS
<1>9. StepsTo(tree, w, x, s)
  BY <1>2, <1>8, StepPath
<1>10. IsWalk(s) /\ s.path = Append(p, way[i].name)
  BY <1>1, <1>5, <1>7, <1>9, Zenon DEF StepsTo
<1>11. /\ Append(p, way[i].name) \in Paths /\ Len(Append(p, way[i].name)) = i
       /\ Begins(Append(p, way[i].name), Keys(way))
  <2>1. PICK y : y = way[i].name
    OBVIOUS
  <2>2. y \in Segments /\ Keys(way)[Len(p) + 1] = y /\ Len(p) < Len(Keys(way)) /\ Len(p) + 1 = i
    BY <1>1, <1>2, <1>3, <1>4, <1>6, <2>1
  <2>3. Append(p, y) \in Paths /\ Len(Append(p, y)) = i /\ Begins(Append(p, y), Keys(way))
    <3>1. /\ Append(p, y) \in Paths /\ Len(Append(p, y)) = Len(p) + 1
          /\ \A q \in Paths : Begins(Append(p, y), q) <=>
               Begins(p, q) /\ Len(p) < Len(q) /\ q[Len(p) + 1] = y
      BY <1>2, <2>2, AppendedPath
    <3> QED
      BY <1>2, <1>3, <2>2, <3>1, Zenon
  <2> QED
    BY <2>1, <2>3
<1>12. s.params = BoundTo(way, names, i)
  <2>1. BoundTo(way, names, i) =
          IF way[i].param THEN Assign(BoundTo(way, names, n), way[i].name, x)
                          ELSE BoundTo(way, names, n)
    BY <1>1, <1>3, <1>4, BoundToNext
  <2>2. CASE way[i].param
    <3>1. s.params = Assign(w.params, tree[p].parameter, x)
      BY <1>1, <1>5, <1>9, <2>2, Zenon DEF StepsTo
    <3> QED
      BY <1>2, <1>5, <2>1, <2>2, <3>1
  <2>3. CASE ~way[i].param
    <3>1. s.params = w.params
      BY <1>1, <1>5, <1>9, <2>3, Zenon DEF StepsTo
    <3> QED
      BY <1>2, <2>1, <2>3, <3>1
  <2> QED
    BY <2>2, <2>3
<1> QED
  BY <1>1, <1>8, <1>10, <1>11, <1>12 DEF Along

LEMMA MatchedWalk ==
    ASSUME NEW tree, NEW T \in Seq(Entries), NEW m, TreeFits(tree, T, m), ParametersHaveNames,
           NEW k \in Live(T, m), Uncontended(T, m, k), NEW way, way = T[k].way,
           NEW names \in Paths, Matches(way, names)
    PROVE  /\ Walks(tree, names)[Len(names)].path = Keys(way)
           /\ Walks(tree, names)[Len(names)].params = Bound(way, names)
<1> DEFINE D == {n \in Nat : n <= Len(names) => Along(Walks(tree, names)[n], way, names, n)}
<1>0. Len(names) \in Nat
  BY DEF Paths
<1>1. /\ way \in Seq(Pieces) /\ Keys(way) \in Paths /\ Len(Keys(way)) = Len(way)
      /\ Len(way) = Len(names)
  <2>1. T[k] \in Entries
    BY DEF Live
  <2> QED
    BY <2>1, WayOfEntry DEF Matches
<1>2. 0 \in D
  <2>1. PICK w : w = Walks(tree, names)[0]
    OBVIOUS
  <2>2. w = AtTheRoot
    BY <1>0, <2>1, WalksUnfolds
  <2>3. IsWalk(w) /\ w.path = << >> /\ w.params = << >>
    BY <2>2 DEF AtTheRoot, IsWalk
  <2>4. w.path \in Paths /\ Len(w.path) = 0 /\ Begins(w.path, Keys(way))
    BY <1>1, <2>3, EmptyPath, BeginsOrder
  <2>5. w.params = BoundTo(way, names, 0)
    BY <2>3, BoundToNone
  <2>6. Along(w, way, names, 0)
    BY <2>3, <2>4, <2>5 DEF Along
  <2> QED
    BY <2>1, <2>6
<1>3. ASSUME NEW n \in Nat, n \in D PROVE n + 1 \in D
  <2> SUFFICES ASSUME n + 1 <= Len(names)
               PROVE  Along(Walks(tree, names)[n + 1], way, names, n + 1)
    OBVIOUS
  <2>1. n + 1 \in 1 .. Len(names) /\ (n + 1) - 1 = n /\ n <= Len(names) /\ n < Len(names)
    BY <1>0
  <2>2. Walks(tree, names)[n + 1] = Step(tree, Walks(tree, names)[n], names[n + 1])
    BY <1>0, <2>1, WalksUnfolds
  <2>3. Along(Walks(tree, names)[n], way, names, n)
    BY <1>3, <2>1
  <2>4. Along(Step(tree, Walks(tree, names)[n], names[n + 1]), way, names, n + 1)
    BY <2>1, <2>3, StepAlong
  <2> QED
    BY <2>2, <2>4
<1>4. Nat \subseteq D
  <2> HIDE DEF D
  <2> QED
    BY <1>2, <1>3, InductionOnSet
<1>5. Along(Walks(tree, names)[Len(names)], way, names, Len(names))
  BY <1>0, <1>4
<1>6. BoundTo(way, names, Len(names)) = Bound(way, names)
  BY <1>1, BoundToAll
<1> QED
  BY <1>1, <1>5, <1>6, BeginsOrder DEF Along

\* A route that is found fits the request when no other contends with it.
LEMMA FoundMatches ==
    ASSUME NEW tree, NEW T \in Seq(Entries), NEW m, TreeFits(tree, T, m), ParametersHaveNames,
           NEW k \in Live(T, m), Uncontended(T, m, k), NEW names, NEW path, path = Keys(T[k].way),
           Follows(tree, names, path, Len(names))
    PROVE  Matches(T[k].way, names)
<1>1. PICK way : way = T[k].way
  OBVIOUS
<1>2. T[k] \in Entries
  BY DEF Live
<1>3. way \in Seq(Pieces) /\ path = Keys(way) /\ path \in Paths /\ Len(path) = Len(way)
  BY <1>1, <1>2, WayOfEntry
<1>4. Len(way) = Len(names)
  BY <1>3 DEF Follows
<1>5. ASSUME NEW i \in DOMAIN way, ~way[i].param PROVE way[i].name = names[i]
  <2>1. PICK p \in Paths : /\ Begins(p, path) /\ Len(p) < Len(way) /\ Len(p) + 1 = i
                           /\ path[i] = way[i].name
    BY <1>3, WayTo, SMTT(40)
  <2>2. tree[p].parameter = ""
    <3>1. Len(p) < Len(T[k].way) /\ Begins(p, Keys(T[k].way)) /\ Len(p) + 1 = i
      BY <1>1, <1>3, <2>1
    <3>2. \A j \in DOMAIN T : T[j].method = m => ~Contend(T[j].way, T[k].way)
      BY DEF Uncontended
    <3>3. KeyFits(tree, T[k].way, p)
      BY <3>1, <3>2, KeyOnTheWay
    <3> QED
      BY <1>1, <1>5, <3>1, <3>3, Zenon DEF KeyFits
  <2>3. path[i] = KeyAt(tree, p, names[i])
    BY <1>4, <2>1 DEF Follows
  <2>4. KeyAt(tree, p, names[i]) = names[i]
    BY <2>2, Zenon DEF KeyAt
  <2> QED
    BY <2>1, <2>3, <2>4
<1> QED
  BY <1>1, <1>4, <1>5 DEF Matches

-----------------------------------------------------------------------------
(* What answers a request *)

\* The routes for a method that fit the names of a request.
Fitting(T, m, names) == {k \in Live(T, m) : Matches(T[k].way, names)}

\* RoutesFoundAsAdded, for a router and a request.
AnsweredAsAdded(r, T, m, target) ==
    LET fits  == Fitting(T, m, Names(target))
        found == route(r, m, target)
        last  == T[LastOf(fits)]
    IN  /\ fits # {} =>
             found = [handler |-> last.handler, params |-> Bound(last.way, Names(target))]
        /\ fits = {} =>
             found.handler = IF \E k \in DOMAIN T : T[k].method = m THEN r.fallback ELSE None

LEMMA LastIs ==
    ASSUME NEW A, A \subseteq Nat, NEW l \in A, \A j \in A : j <= l
    PROVE  LastOf(A) = l
<1>1. \A k \in A : (\A j \in A : j <= k) => k = l
  OBVIOUS
<1> QED
  BY <1>1 DEF LastOf

\* The last route that fits is the one find ends at.
LEMMA LastAnswers ==
    ASSUME NEW tree, NEW T \in Seq(Entries), NEW m, TreeFits(tree, T, m), ParametersHaveNames,
           NoneContend(T, m), NEW names \in Paths, NEW k \in Fitting(T, m, names)
    PROVE  LET walk == Walks(tree, names)[Len(names)]
               l    == LastOf(Fitting(T, m, names))
           IN  /\ l \in DOMAIN T /\ walk.path \in DOMAIN tree
               /\ tree[walk.path].handler = T[l].handler /\ walk.params = Bound(T[l].way, names)
<1>1. PICK walk, fits : walk = Walks(tree, names)[Len(names)] /\ fits = Fitting(T, m, names)
  OBVIOUS
<1>2. \A j \in fits : j \in Live(T, m) /\ j \in DOMAIN T /\ T[j] \in Entries /\ T[j].method = m
                     /\ j \in Nat
  BY <1>1 DEF Fitting, Live
<1>3. ASSUME NEW j \in fits
      PROVE  walk.path = Keys(T[j].way) /\ walk.params = Bound(T[j].way, names)
  <2>1. j \in Live(T, m) /\ T[j].method = m /\ Matches(T[j].way, names)
    BY <1>1, <1>2 DEF Fitting
  <2>2. Uncontended(T, m, j)
    BY <1>2, <2>1 DEF NoneContend, Uncontended
  <2> QED
    BY <1>1, <2>1, <2>2, MatchedWalk
<1>4. walk.path \in Paths /\ k \in fits
  BY <1>1, <1>2, <1>3, WayOfEntry
<1>5. walk.path \in DOMAIN tree
  <2>1. Begins(walk.path, Keys(T[k].way))
    BY <1>3, <1>4, BeginsOrder
  <2> QED
    BY <1>2, <1>4, <2>1 DEF TreeFits, NodesFit
<1>6. PICK l \in DOMAIN T : LastWith(T, m, walk.path, l) /\ tree[walk.path].handler = T[l].handler
  <2>1. ~(\A j \in Live(T, m) : Keys(T[j].way) # walk.path)
    BY <1>2, <1>3, <1>4
  <2> QED
    BY <1>5, <2>1 DEF TreeFits, HandlersFit
<1>7. l \in fits
  <2>1. l \in Live(T, m) /\ Keys(T[l].way) = Keys(T[k].way) /\ T[l].method = m
    BY <1>3, <1>4, <1>6 DEF LastWith, Live
  <2>2. T[l].way \in Seq(Pieces) /\ T[k].way \in Seq(Pieces) /\ ~Contend(T[l].way, T[k].way)
    BY <1>2, <1>4, <2>1, WayOfEntry DEF NoneContend
  <2>3. T[l].way = T[k].way
    BY <2>1, <2>2, SameWay
  <2> QED
    BY <1>1, <1>4, <2>1, <2>3 DEF Fitting
<1>8. \A j \in fits : j <= l
  BY <1>2, <1>3, <1>6 DEF LastWith
<1>9. LastOf(fits) = l
  BY <1>2, <1>7, <1>8, LastIs
<1> QED
  BY <1>1, <1>3, <1>5, <1>6, <1>7, <1>9

LEMMA Answers ==
    ASSUME NEW r, NEW T, NEW id, NEW n, Right(r, T, id, n), ParametersHaveNames,
           NEW m \in Methods, NoneContend(T, m), NEW target \in Paths, Len(target) # 0
    PROVE  AnsweredAsAdded(r, T, m, target)
<1>1. T \in Seq(Entries) /\ Fits(r, T)
  BY DEF Right
<1>2. PICK tree, names, walk : tree = TreeOf(r, m) /\ names = Names(target)
                               /\ walk = Walk(tree, target)
  OBVIOUS
<1>3. TreeFits(tree, T, m)
  BY <1>1, <1>2 DEF Fits
<1>4. /\ names \in Paths /\ EndsAt(tree, target, walk.path)
      /\ walk = Walks(tree, names)[Len(names)]
  BY <1>2, <1>3, FindEnds DEF TreeFits
<1>5. PICK fits, found : fits = Fitting(T, m, names) /\ found = route(r, m, target)
  OBVIOUS
<1>6. PICK h : h = IF walk.path \in DOMAIN tree THEN tree[walk.path].handler ELSE None
  OBVIOUS
<1>7. m \in DOMAIN r.handlers <=> \E k \in DOMAIN T : T[k].method = m
  BY <1>1 DEF Fits
<1>8. m \in DOMAIN r.handlers =>
        found = [handler |-> IF h # None THEN h ELSE r.fallback, params |-> walk.params]
  BY <1>2, <1>5, <1>6, Routed
<1>9. ASSUME fits # {}
      PROVE  found = [handler |-> T[LastOf(fits)].handler,
                      params |-> Bound(T[LastOf(fits)].way, names)]
  <2>1. PICK k \in Fitting(T, m, names) : TRUE
    BY <1>5, <1>9
  <2>2. PICK l : l = LastOf(fits)
    OBVIOUS
  <2>3. /\ l \in DOMAIN T /\ walk.path \in DOMAIN tree
        /\ tree[walk.path].handler = T[l].handler /\ walk.params = Bound(T[l].way, names)
    BY <1>1, <1>3, <1>4, <1>5, <2>1, <2>2, LastAnswers
  <2>4. T[l].handler # None
    BY <1>1, <2>3, EntryFields, HandlersAssumption
  <2>5. m \in DOMAIN r.handlers
    BY <1>7, <2>1 DEF Fitting, Live
  <2> QED
    BY <1>6, <1>8, <2>2, <2>3, <2>4, <2>5
<1>10. ASSUME fits = {}
       PROVE  found.handler = IF \E k \in DOMAIN T : T[k].method = m THEN r.fallback ELSE None
  <2>1. CASE m \notin DOMAIN r.handlers
    <3>1. found = [handler |-> None, params |-> << >>]
      BY <1>5, <2>1 DEF route
    <3> QED
      BY <1>7, <2>1, <3>1
  <2>2. CASE m \in DOMAIN r.handlers
    <3>1. ASSUME h # None PROVE FALSE
      <4>1. walk.path \in DOMAIN tree /\ tree[walk.path].handler # None
        BY <1>6, <3>1
      <4>2. PICK l \in DOMAIN T : LastWith(T, m, walk.path, l)
        BY <1>3, <4>1 DEF TreeFits, HandlersFit
      <4>3. l \in Live(T, m) /\ T[l].method = m /\ walk.path = Keys(T[l].way)
        BY <4>2 DEF LastWith, Live
      <4>4. Uncontended(T, m, l)
        BY <4>3 DEF NoneContend, Uncontended
      <4>5. Follows(tree, names, walk.path, Len(names))
        BY <1>2, <1>4, <4>1 DEF EndsAt
      <4>6. Matches(T[l].way, names)
        BY <1>1, <1>3, <4>3, <4>4, <4>5, FoundMatches
      <4> QED
        BY <1>5, <1>10, <4>3, <4>6 DEF Fitting
    <3> QED
      BY <1>7, <1>8, <2>2, <3>1
  <2> QED
    BY <2>1, <2>2
<1> QED
  BY <1>2, <1>5, <1>9, <1>10, Zenon DEF AnsweredAsAdded

LEMMA FoundAsAdded == RoutesRight /\ ParametersHaveNames => RoutesFoundAsAdded
<1> SUFFICES ASSUME RoutesRight, ParametersHaveNames, Unambiguous,
                    NEW method \in Methods, NEW target \in Requests
             PROVE  AnsweredAsAdded(Main, Table, method, target)
  <2>1. ASSUME NEW method \in Methods, NEW target \in Requests,
               AnsweredAsAdded(Main, Table, method, target)
        PROVE  LET names == Walked(target, "")
                   fits  == Candidates(method, names)
                   found == route(Main, method, target)
               IN  IF fits # {}
                   THEN LET last == Table[CHOOSE k \in fits : \A j \in fits : j <= k]
                        IN  found = [handler |-> last.handler, params |-> Bound(last.way, names)]
                   ELSE found.handler =
                           IF \E k \in DOMAIN Table : Table[k].method = method
                           THEN Main.fallback ELSE None
    <3>1. PICK names : names = Names(target)
      OBVIOUS
    <3>2. Candidates(method, names) = Fitting(Table, method, names)
      BY DEF Candidates, Fitting, Live
    <3>3. Walked(target, "") = names
      BY <3>1, Zenon DEF Names
    <3>4. PICK fits : fits = Fitting(Table, method, names)
      OBVIOUS
    <3>5. /\ fits # {} => route(Main, method, target) =
                            [handler |-> Table[LastOf(fits)].handler,
                             params |-> Bound(Table[LastOf(fits)].way, names)]
          /\ fits = {} => route(Main, method, target).handler =
                            IF \E k \in DOMAIN Table : Table[k].method = method
                            THEN Main.fallback ELSE None
      BY <2>1, <3>1, <3>4, Zenon DEF AnsweredAsAdded
    <3>6. LastOf(fits) = CHOOSE k \in fits : \A j \in fits : j <= k
      BY Zenon DEF LastOf
    <3> QED
      BY <3>2, <3>3, <3>4, <3>5, <3>6, Zenon
  <2> QED
    BY <2>1, Zenon DEF RoutesFoundAsAdded
<1>1. PICK r, T : r = Main /\ T = Table
  OBVIOUS
<1>2. Right(r, T, MainId, calls)
  BY <1>1, TwoRouters DEF RoutesRight, Main, Table, MainId
<1>3. NoneContend(T, method)
  <2>1. ASSUME NEW j \in DOMAIN T, NEW k \in DOMAIN T, T[j].method = method, T[k].method = method
        PROVE  ~Contend(T[j].way, T[k].way)
    <3>1. T[j].method = T[k].method
      BY <2>1
    <3> QED
      BY <1>1, <3>1, Zenon DEF Unambiguous
  <2> QED
    BY <2>1, Zenon DEF NoneContend
<1>4. target \in Paths /\ Len(target) # 0
  BY RequestPaths
<1> QED
  BY <1>1, <1>2, <1>3, <1>4, Answers

\* As long as no two routes of the main router contend, Router::route answers with the
\* last route that fits the request and binds its parameters, whatever calls of add,
\* serve_static, sub_route and set_fallback came in whatever order.
THEOREM RoutesAreFound == ParametersHaveNames => (Spec => []RoutesFoundAsAdded)
<1> SUFFICES ASSUME ParametersHaveNames PROVE Spec => []RoutesFoundAsAdded
  OBVIOUS
<1>1. RoutesRight => RoutesFoundAsAdded
  BY FoundAsAdded
<1> QED
  BY <1>1, RoutesRightAlways, PTL

-----------------------------------------------------------------------------
(* A request that is answered as before *)

\* The walk that ends at path is still on the way to it after n segments.
OnTheWay(w, tree, path, n) ==
    /\ w.path \in DOMAIN tree /\ w.path \in Paths /\ Len(w.path) = n /\ Begins(w.path, path)
    /\ IsWalk(w)

\* A walk that ends at a node of the tree never left it.
LEMMA WalkTo ==
    ASSUME NEW tree, Tree(tree), NEW names \in Paths,
           NEW path, path = Walks(tree, names)[Len(names)].path, path \in DOMAIN tree
    PROVE  \A n \in 0 .. Len(names) : OnTheWay(Walks(tree, names)[n], tree, path, n)
<1> DEFINE W(n) == Walks(tree, names)[n]
           D    == {n \in Nat : n <= Len(names) =>
                      OnTheWay(W(Len(names) - n), tree, path, Len(names) - n)}
<1>0. Len(names) \in Nat /\ path \in Paths
  <2>1. Len(names) \in Nat
    BY DEF Paths
  <2> QED
    BY <2>1, Zenon DEF Tree, NodesTyped
<1>1. ASSUME NEW n \in 0 .. Len(names), W(n).path \in DOMAIN tree
      PROVE  W(n).path \in Paths /\ Len(W(n).path) = n /\ IsWalk(W(n))
  <2>1. IsWalk(W(n)) /\ Walked1(tree, names, n)
    BY <1>1, WalkFollows
  <2> QED
    BY <1>1, <2>1 DEF Walked1, Follows
<1>2. 0 \in D
  <2>1. Len(names) - 0 = Len(names) /\ Len(names) \in 0 .. Len(names)
    BY <1>0
  <2>2. W(Len(names)).path \in Paths /\ Len(W(Len(names)).path) = Len(names)
        /\ IsWalk(W(Len(names)))
    BY <1>1, <2>1
  <2>3. Begins(path, path)
    BY <1>0, BeginsOrder
  <2>4. OnTheWay(W(Len(names)), tree, path, Len(names))
    BY <2>2, <2>3 DEF OnTheWay
  <2> QED
    BY <2>1, <2>4
<1>3. ASSUME NEW n \in Nat, n \in D PROVE n + 1 \in D
  <2> SUFFICES ASSUME n + 1 <= Len(names)
               PROVE  OnTheWay(W(Len(names) - (n + 1)), tree, path, Len(names) - (n + 1))
    OBVIOUS
  <2>1. PICK l, i : l = Len(names) - n /\ i = Len(names) - (n + 1)
    OBVIOUS
  <2>2. l \in 1 .. Len(names) /\ i = l - 1 /\ i \in 0 .. Len(names) /\ n <= Len(names) /\ i + 1 = l
    BY <1>0, <2>1
  <2>3. OnTheWay(W(l), tree, path, l)
    BY <1>3, <2>1, <2>2
  <2>4. PICK w, v, s : w = W(i) /\ v = W(l) /\ s = names[l]
    OBVIOUS
  <2>5. v = Step(tree, w, s)
    BY <1>0, <2>2, <2>4, WalksUnfolds
  <2>6. IsWalk(w) /\ w.path \in Paths
    BY <2>2, <2>4, WalkFollows DEF Walked1
  <2>7. v.path = IF w.path \notin DOMAIN tree THEN w.path
                 ELSE Append(w.path, KeyAt(tree, w.path, s))
    <3>1. StepsTo(tree, w, s, v)
      BY <2>5, <2>6, StepPath
    <3> QED
      BY <3>1, Zenon DEF StepsTo
  <2>8. v.path \in DOMAIN tree /\ v.path \in Paths /\ Begins(v.path, path)
    BY <2>3, <2>4 DEF OnTheWay
  <2>9. w.path \in DOMAIN tree
    BY <2>7, <2>8
  <2>10. PICK x : x = KeyAt(tree, w.path, s)
    OBVIOUS
  <2>11. x \in Segments
    <3>1. s \in Segments
      BY <2>2, <2>4 DEF Paths
    <3> QED
      BY <2>9, <2>10, <3>1, NodeFields DEF Tree, NodesTyped, KeyAt
  <2>12. Begins(w.path, path)
    <3>1. v.path = Append(w.path, x)
      BY <2>7, <2>9, <2>10
    <3>2. Begins(w.path, v.path)
      BY <2>6, <2>11, <3>1, AppendedPath
    <3> QED
      BY <1>0, <2>6, <2>8, <3>2, BeginsOrder
  <2>13. Len(w.path) = i
    BY <1>1, <2>2, <2>4, <2>9
  <2> QED
    BY <2>1, <2>4, <2>6, <2>9, <2>12, <2>13 DEF OnTheWay
<1>4. Nat \subseteq D
  <2> HIDE DEF D
  <2> QED
    BY <1>2, <1>3, InductionOnSet
<1>5. ASSUME NEW n \in 0 .. Len(names) PROVE OnTheWay(W(n), tree, path, n)
  <2>1. PICK l : l = Len(names) - n
    OBVIOUS
  <2>2. l \in Nat /\ l <= Len(names) /\ Len(names) - l = n
    BY <1>0, <2>1
  <2> QED
    BY <1>4, <2>2
<1> QED
  BY <1>5

\* A step where the trees have the same parameter.
LEMMA SameStep ==
    ASSUME NEW tree, NEW new, NEW w, w.path \in DOMAIN tree, w.path \in DOMAIN new,
           new[w.path].parameter = tree[w.path].parameter, NEW segment
    PROVE  Step(new, w, segment) = Step(tree, w, segment)
BY Zenon DEF Step

LEMMA SameWalk ==
    ASSUME NEW tree, Tree(tree), NEW new, Tree(new), NEW names \in Paths,
           NEW path, path = Walks(tree, names)[Len(names)].path,
           path \in DOMAIN tree, path \in DOMAIN new,
           \A p \in Paths : Begins(p, path) /\ Len(p) < Len(path) =>
                new[p].parameter = tree[p].parameter
    PROVE  Walks(new, names)[Len(names)] = Walks(tree, names)[Len(names)]
<1> DEFINE D == {n \in Nat : n <= Len(names) => Walks(new, names)[n] = Walks(tree, names)[n]}
<1>0. Len(names) \in Nat
  BY DEF Paths
<1>1. 0 \in D
  BY <1>0, WalksUnfolds
<1>2. ASSUME NEW n \in Nat, n \in D PROVE n + 1 \in D
  <2> SUFFICES ASSUME n + 1 <= Len(names)
               PROVE  Walks(new, names)[n + 1] = Walks(tree, names)[n + 1]
    OBVIOUS
  <2>1. n + 1 \in 1 .. Len(names) /\ (n + 1) - 1 = n /\ n \in 0 .. Len(names) /\ n < Len(names)
        /\ Len(names) \in 0 .. Len(names)
    BY <1>0
  <2>2. PICK w, s : w = Walks(tree, names)[n] /\ s = names[n + 1]
    OBVIOUS
  <2>3. Walks(new, names)[n] = w
    BY <1>2, <2>1, <2>2
  <2>4. OnTheWay(w, tree, path, n)
    BY <2>1, <2>2, WalkTo
  <2>5. Len(path) = Len(names)
    <3>1. OnTheWay(Walks(tree, names)[Len(names)], tree, path, Len(names))
      BY <2>1, WalkTo
    <3> QED
      BY <3>1 DEF OnTheWay
  <2>6. w.path \in DOMAIN tree /\ w.path \in DOMAIN new
        /\ new[w.path].parameter = tree[w.path].parameter
    BY <2>1, <2>4, <2>5 DEF OnTheWay, Tree
  <2>7. Step(new, w, s) = Step(tree, w, s)
    BY <2>6, SameStep
  <2>8. Walks(new, names)[n + 1] = Step(new, w, s) /\ Walks(tree, names)[n + 1] = Step(tree, w, s)
    BY <1>0, <2>1, <2>2, <2>3, WalksUnfolds
  <2> QED
    BY <2>7, <2>8
<1>3. Nat \subseteq D
  <2> HIDE DEF D
  <2> QED
    BY <1>1, <1>2, InductionOnSet
<1> QED
  BY <1>0, <1>3

-----------------------------------------------------------------------------
(* Who takes a route from a request *)

\* None of the routes of the method that are new in U has the keys of the way or
\* contends with it.
LeftAlone(T, U, m, way) ==
    \A j \in Len(T) + 1 .. Len(U) : U[j].method = m =>
        Keys(U[j].way) # Keys(way) /\ ~Contend(U[j].way, way)

LEMMA WayUnchanged ==
    ASSUME NEW tree, NEW new, NEW T \in Seq(Entries), NEW U \in Seq(Entries), NEW m,
           ParametersHaveNames, TreeFits(tree, T, m), ParametersStay(tree, new, T, U, m),
           NEW k \in Live(T, m), k \in Live(U, m), LeftAlone(T, U, m, T[k].way),
           NEW path, path = Keys(T[k].way), NEW names, Follows(tree, names, path, Len(names)),
           NEW p \in Paths, Begins(p, path), Len(p) < Len(path)
    PROVE  new[p].parameter = tree[p].parameter
<1>1. PICK w, i, x : w = T[k].way /\ i = Len(p) + 1 /\ x = new[p].parameter
  OBVIOUS
<1>2. k \in DOMAIN T
  BY DEF Live
<1>3. /\ w \in Seq(Pieces) /\ path = Keys(w) /\ path \in Paths /\ Len(path) = Len(w)
      /\ Len(path) = Len(names)
  BY <1>1, <1>2, WayOfEntry DEF Follows
<1>4. p \in DOMAIN tree
  BY <1>1, <1>2, <1>3 DEF TreeFits, NodesFit
<1> SUFFICES ASSUME NEW j \in Len(T) + 1 .. Len(U), U[j].method = m, GivesName(U[j].way, p, x)
             PROVE  x = tree[p].parameter
  BY <1>1, <1>2, <1>4 DEF ParametersStay
<1>5. PICK v : v = U[j].way
  OBVIOUS
<1>6. v \in Seq(Pieces) /\ ~Contend(v, w)
  <2>1. j \in DOMAIN U
    OBVIOUS
  <2>2. U[j] \in Entries
    BY <2>1
  <2> QED
    BY <1>1, <1>5, <2>2, WayOfEntry DEF LeftAlone
<1>7. v[i].param /\ v[i].name = x /\ Begins(p, Keys(v)) /\ Len(p) < Len(v)
  BY <1>1, <1>5 DEF GivesName, Gives
<1>8. v[i] = w[i]
  BY <1>1, <1>3, <1>6, <1>7, Agree
<1>9. tree[p].parameter # ""
  <2>1. Gives(w, p)
    BY <1>1, <1>3, <1>7, <1>8 DEF Gives
  <2> QED
    BY <1>1, <1>4, <2>1 DEF TreeFits, ParametersKept
<1>10. path[i] = KeyAt(tree, p, names[i])
  BY <1>1, <1>3 DEF Follows
<1>11. KeyAt(tree, p, names[i]) = tree[p].parameter
  BY <1>9, Zenon DEF KeyAt
<1>12. path[i] = w[i].name
  <2>1. i \in 1 .. Len(w)
    BY <1>1, <1>3 DEF Paths
  <2> QED
    BY <1>3, <2>1, KeysAreNames
<1> QED
  BY <1>7, <1>8, <1>10, <1>11, <1>12

\* The last route with its keys stays the last one.
LEMMA LastStays ==
    ASSUME NEW T \in Seq(Entries), NEW U \in Seq(Entries), RemovedFirst(U), NEW m, NEW path,
           Extends(T, U), NEW k \in Live(T, m), Keys(T[k].way) = path, ~U[k].removed,
           LeftAlone(T, U, m, T[k].way), NEW l, LastWith(T, m, path, l)
    PROVE  /\ LastWith(U, m, path, l) /\ U[l].handler = T[l].handler
           /\ k \in Live(U, m) /\ l \in DOMAIN T
<1>1. /\ k \in DOMAIN T /\ l \in DOMAIN T /\ T[k].method = m /\ T[l].method = m
      /\ Keys(T[l].way) = path /\ l \in Live(T, m) /\ k \in Nat /\ l \in Nat
  BY DEF LastWith, Live
<1>2. \A j \in DOMAIN T : /\ j \in DOMAIN U /\ U[j].method = T[j].method /\ U[j].way = T[j].way
                          /\ U[j].handler = T[j].handler
                          /\ T[j].removed => U[j].removed
  BY DEF Extends, SameRoute
<1>3. k \in Live(U, m)
  BY <1>1, <1>2 DEF Live
<1>4. k <= l
  BY <1>1 DEF LastWith
<1>5. ~U[l].removed
  <2>1. ASSUME U[l].removed, k < l PROVE FALSE
    BY <1>1, <1>2, <2>1 DEF RemovedFirst
  <2> QED
    BY <1>1, <1>4, <2>1
<1>6. l \in Live(U, m)
  BY <1>1, <1>2, <1>5 DEF Live
<1>7. ASSUME NEW j \in Live(U, m), Keys(U[j].way) = path PROVE j <= l
  <2>1. j \in DOMAIN U /\ U[j].method = m /\ ~U[j].removed
    BY DEF Live
  <2>2. j \in DOMAIN T
    BY <1>7, <2>1 DEF LeftAlone, Extends
  <2>3. j \in Live(T, m) /\ Keys(T[j].way) = path
    BY <1>2, <1>7, <2>1, <2>2 DEF Live
  <2> QED
    BY <2>3 DEF LastWith
<1> QED
  BY <1>1, <1>2, <1>3, <1>6, <1>7 DEF LastWith

LEMMA OneLast ==
    ASSUME NEW T \in Seq(Entries), NEW m, NEW path, NEW j, LastWith(T, m, path, j),
           NEW l, LastWith(T, m, path, l)
    PROVE  j = l
<1>1. j \in Nat /\ l \in Nat
  BY DEF LastWith, Live
<1>2. j <= l /\ l <= j
  BY DEF LastWith
<1> QED
  BY <1>1, <1>2

LEMMA AnswerStays ==
    ASSUME NEW r, NEW T, NEW i, NEW n, Right(r, T, i, n), NEW q, NEW U, NEW o, Right(q, U, i, o),
           Kept(r, T, q, U), ParametersHaveNames,
           NEW m \in Methods, NEW target \in Paths, Len(target) # 0,
           NEW k \in Live(T, m), Keys(T[k].way) = Walk(TreeOf(r, m), target).path,
           route(r, m, target).handler = T[k].handler, ~U[k].removed,
           LeftAlone(T, U, m, T[k].way)
    PROVE  route(q, m, target) = route(r, m, target)
<1>1. /\ T \in Seq(Entries) /\ U \in Seq(Entries) /\ Fits(r, T) /\ Fits(q, U) /\ RemovedFirst(U)
  BY DEF Right
<1>2. k \in DOMAIN T /\ T[k].method = m /\ T[k] \in Entries
  BY <1>1 DEF Live
<1>3. PICK tree, new, walk, path, names, handler :
        /\ tree = TreeOf(r, m) /\ new = TreeOf(q, m) /\ walk = Walk(tree, target)
        /\ path = walk.path /\ names = Names(target) /\ handler = route(r, m, target).handler
  OBVIOUS
<1>4. TreeFits(tree, T, m) /\ TreeFits(new, U, m)
  BY <1>1, <1>3 DEF Fits
<1>5. Tree(tree) /\ Tree(new)
  BY <1>4 DEF TreeFits
<1>6. handler # None /\ handler # r.fallback
  <2>1. handler # None
    BY <1>2, <1>3, EntryFields, HandlersAssumption
  <2>2. ~IsFallback(handler)
    BY <1>2, <1>3 DEF Right, NoFallbacks
  <2> QED
    BY <2>1, <2>2 DEF Right
<1>7. PICK l \in DOMAIN T : /\ LastWith(T, m, path, l) /\ handler = T[l].handler
                            /\ path \in DOMAIN tree /\ EndsAt(tree, target, path)
  BY <1>3, <1>6, RouteFound
<1>8. /\ LastWith(U, m, path, l) /\ U[l].handler = T[l].handler /\ k \in Live(U, m)
  BY <1>1, <1>3, <1>7, LastStays DEF Kept
<1>9. path \in Paths /\ Follows(tree, names, path, Len(names))
  BY <1>3, <1>7 DEF EndsAt
<1>10. path \in DOMAIN new
  <2>1. l \in Live(U, m) /\ Keys(U[l].way) = path
    BY <1>8 DEF LastWith
  <2>2. Begins(path, path)
    BY <1>9, BeginsOrder
  <2> QED
    BY <1>4, <1>9, <2>1, <2>2 DEF TreeFits, NodesFit
<1>11. ASSUME NEW p \in Paths, Begins(p, path), Len(p) < Len(path)
       PROVE  new[p].parameter = tree[p].parameter
  <2>1. ParametersStay(tree, new, T, U, m)
    BY <1>3 DEF Kept
  <2> QED
    BY <1>1, <1>3, <1>4, <1>8, <1>9, <1>11, <2>1, WayUnchanged
<1>12. Walk(new, target) = walk
  <2>1. names \in Paths /\ walk = Walks(tree, names)[Len(names)]
    BY <1>3, <1>5, FindEnds
  <2>2. Walk(new, target) = Walks(new, names)[Len(names)]
    BY <1>3, <1>5, FindEnds
  <2>3. path = Walks(tree, names)[Len(names)].path
    BY <1>3, <2>1
  <2>4. Walks(new, names)[Len(names)] = Walks(tree, names)[Len(names)]
    BY <1>5, <1>7, <1>10, <1>11, <2>1, <2>3, SameWalk
  <2> QED
    BY <2>1, <2>2, <2>4
<1>13. tree[path].handler = handler
  <2>1. l \in Live(T, m) /\ Keys(T[l].way) = path
    BY <1>7 DEF LastWith
  <2>2. PICK j \in DOMAIN T : LastWith(T, m, path, j) /\ tree[path].handler = T[j].handler
    BY <1>4, <1>7, <2>1 DEF TreeFits, HandlersFit
  <2>3. j = l
    BY <1>1, <1>7, <2>2, OneLast
  <2> QED
    BY <1>7, <2>2, <2>3
<1>14. new[path].handler = handler
  <2>1. l \in Live(U, m) /\ Keys(U[l].way) = path
    BY <1>8 DEF LastWith
  <2>2. PICK j \in DOMAIN U : LastWith(U, m, path, j) /\ new[path].handler = U[j].handler
    BY <1>4, <1>10, <2>1 DEF TreeFits, HandlersFit
  <2>3. j = l
    BY <1>1, <1>8, <2>2, OneLast
  <2> QED
    BY <1>7, <1>8, <2>2, <2>3
<1>15. m \in DOMAIN r.handlers /\ m \in DOMAIN q.handlers
  <2>1. l \in DOMAIN U /\ U[l].method = m
    BY <1>8 DEF LastWith, Live
  <2> QED
    BY <1>1, <1>2, <2>1 DEF Fits
<1>16. route(r, m, target) = [handler |-> handler, params |-> walk.params]
  BY <1>3, <1>6, <1>7, <1>13, <1>15, Routed
<1>17. route(q, m, target) = [handler |-> handler, params |-> walk.params]
  BY <1>3, <1>6, <1>10, <1>12, <1>14, <1>15, Routed
<1> QED
  BY <1>16, <1>17

LEMMA StepTakes ==
    ASSUME ParametersHaveNames, RoutesRight, [Next]_vars
    PROVE  ContendersTake
<1>1. RoutesRight' /\ MainKept
  BY NextRight
<1>2. PICK r, T, q, U : r = Main /\ T = Table /\ q = Main' /\ U = Table'
  OBVIOUS
<1>3. /\ Right(r, T, MainId, calls) /\ Right(q, U, MainId, calls') /\ Kept(r, T, q, U)
  BY <1>1, <1>2, TwoRouters DEF RoutesRight, Main, Table, MainId, MainKept
<1>4. ASSUME NEW m \in Methods, NEW target \in Requests, NEW k \in DOMAIN T,
             T[k].method = m, ~T[k].removed, route(r, m, target).handler = T[k].handler,
             Keys(T[k].way) = Walk(TreeOf(r, m), target).path,
             ~U[k].removed, LeftAlone(T, U, m, T[k].way)
      PROVE  route(q, m, target) = route(r, m, target)
  <2>1. k \in Live(T, m)
    BY <1>4 DEF Live
  <2>2. target \in Paths /\ Len(target) # 0
    BY RequestPaths
  <2> QED
    BY <1>3, <1>4, <2>1, <2>2, AnswerStays
<1> QED
  BY <1>2, <1>4, Zenon DEF ContendersTake, LeftAlone

\* No call takes a route from the requests it answers, nor changes their parameters, but
\* by a route with the same keys, by one that contends with it, or by sub_route
\* replacing it.
THEOREM NoRouteIsTaken == ParametersHaveNames => (Spec => OnlyContendersTakeRoutes)
<1> SUFFICES ASSUME ParametersHaveNames PROVE Spec => OnlyContendersTakeRoutes
  OBVIOUS
<1>1. RoutesRight /\ [Next]_vars => ContendersTake
  BY StepTakes
<1> QED
  BY <1>1, RoutesRightAlways, PTL DEF Spec, OnlyContendersTakeRoutes
=============================================================================
