----------------------------- MODULE ParserProofs -----------------------------
(***************************************************************************)
(* The parser accepts a text of any length exactly when it is well formed, *)
(* and the parser of HttpHandler agrees with it.                           *)
(*                                                                         *)
(* What a loop over lines computes is proved by induction on the lines     *)
(* read.  The induction is over a set of numbers (InductionOnSet): a set   *)
(* that misses a number has a least number it misses.  It gives the        *)
(* recursive function its unfolding (ReadLinesUnfolds), and then the       *)
(* reader its meaning (ReaderMeans): after n lines it expects headers      *)
(* exactly when these are a good head, and it has accepted exactly when an *)
(* empty line followed one.                                                *)
(***************************************************************************)
EXTENDS ParserSpec, SequenceTheorems, WellFoundedInduction, TLAPS

-----------------------------------------------------------------------------
(* Induction *)

LEMMA LeastElement ==
    ASSUME NEW D, D \subseteq Nat, D # {}
    PROVE  \E d \in D : \A e \in D : d <= e
<1> DEFINE R == OpToRel(<, Nat)
<1>1. IsWellFoundedOn(R, Nat)
  BY NatLessThanWellFounded
<1> HIDE DEF R
<1>2. PICK d \in D : \A e \in D : <<e, d>> \notin R
  BY <1>1, WFMin
<1>3. \A e \in D : ~(e < d)
  <2> TAKE e \in D
  <2>1. <<e, d>> \in Nat \X Nat
    OBVIOUS
  <2>2. e < d => <<e, d>> \in R
    BY <2>1 DEF R, OpToRel
  <2> QED
    BY <1>2, <2>2
<1>4. \A e \in D : e \in Nat /\ d \in Nat
  OBVIOUS
<1> QED
  BY <1>3, <1>4

LEMMA InductionOnSet ==
    ASSUME NEW S, 0 \in S, \A n \in Nat : n \in S => n + 1 \in S
    PROVE  Nat \subseteq S
<1> SUFFICES ASSUME ~(Nat \subseteq S) PROVE FALSE
  OBVIOUS
<1>1. Nat \ S # {} /\ Nat \ S \subseteq Nat
  OBVIOUS
<1>2. PICK d \in Nat \ S : \A e \in Nat \ S : d <= e
  BY <1>1, LeastElement
<1>3. d # 0
  BY <1>2
<1>4. d - 1 \in Nat /\ (d - 1) + 1 = d
  BY <1>2, <1>3
<1>5. d - 1 \in S
  BY <1>2, <1>4
<1> QED
  BY <1>2, <1>4, <1>5

LEMMA TwoOrMore == \A n \in Nat \ {0} : n = 1 \/ n >= 2
OBVIOUS

-----------------------------------------------------------------------------
(* What a call reads *)

\* A function that the recursion of ReadLines describes up to line m.
Recursion(t, g, m) ==
    g = [n \in 0 .. m |-> IF n = 0 THEN Beginning ELSE NextLine(g[n - 1], t[n])]

LEMMA RecursionExists ==
    ASSUME NEW t, NEW L \in Nat
    PROVE  \E g : Recursion(t, g, L)
<1> DEFINE S == {m \in Nat : \E g : Recursion(t, g, m)}
<1>1. 0 \in S
  <2> DEFINE g == [n \in 0 .. 0 |-> Beginning]
  <2>1. Recursion(t, g, 0)
    BY DEF Recursion
  <2> QED
    BY <2>1
<1>2. ASSUME NEW m \in Nat, m \in S PROVE m + 1 \in S
  <2>1. PICK g : Recursion(t, g, m)
    BY <1>2
  <2> DEFINE next == NextLine(g[m], t[m + 1])
             h    == [n \in 0 .. m + 1 |-> IF n = m + 1 THEN next ELSE g[n]]
             h1   == [n \in 0 .. m + 1 |->
                        IF n = 0 THEN Beginning ELSE NextLine(h[n - 1], t[n])]
  <2>2. ASSUME NEW n \in 0 .. m + 1
        PROVE  h[n] = IF n = 0 THEN Beginning ELSE NextLine(h[n - 1], t[n])
    <3>1. CASE n = 0
      BY <2>1, <3>1 DEF Recursion
    <3>2. CASE n = m + 1
      <4>1. h[n] = next /\ n # 0 /\ n - 1 = m
        BY <3>2
      <4>2. h[n - 1] = g[m]
        BY <4>1
      <4> QED
        BY <3>2, <4>1, <4>2
    <3>3. CASE n # 0 /\ n # m + 1
      <4>1. n \in 1 .. m /\ n - 1 \in 0 .. m
        BY <3>3
      <4>2. h[n] = g[n] /\ h[n - 1] = g[n - 1]
        BY <4>1
      <4>3. g[n] = NextLine(g[n - 1], t[n])
        BY <2>1, <4>1 DEF Recursion
      <4> QED
        BY <3>3, <4>2, <4>3
    <3> QED
      BY <3>1, <3>2, <3>3
  <2> HIDE DEF next
  <2>3. h = h1
    BY <2>2, Zenon
  <2>4. Recursion(t, h, m + 1)
    BY <2>3 DEF Recursion
  <2> QED
    BY <2>4
<1>3. Nat \subseteq S
  <2> HIDE DEF S
  <2> QED
    BY <1>1, <1>2, InductionOnSet
<1> QED
  BY <1>3

\* The recursive function of parse_request does what its definition says.
LEMMA ReadLinesUnfolds ==
    ASSUME NEW t, Len(t) \in Nat
    PROVE  /\ ReadLines(t)[0] = Beginning
           /\ \A n \in 1 .. Len(t) :
                ReadLines(t)[n] = NextLine(ReadLines(t)[n - 1], t[n])
<1> DEFINE R == ReadLines(t)
<1>1. R = CHOOSE g : Recursion(t, g, Len(t))
  BY DEF ReadLines, Recursion
<1>2. Recursion(t, R, Len(t))
  BY <1>1, RecursionExists
<1> HIDE DEF R
<1>3. R[0] = Beginning
  BY <1>2 DEF Recursion
<1>4. \A n \in 1 .. Len(t) : R[n] = NextLine(R[n - 1], t[n])
  <2> TAKE n \in 1 .. Len(t)
  <2>1. n \in 0 .. Len(t) /\ n # 0
    OBVIOUS
  <2> QED
    BY <1>2, <2>1 DEF Recursion
<1> QED
  BY <1>3, <1>4 DEF R

-----------------------------------------------------------------------------
(* What the reader means *)

Text == text \in Seq(Lines)

Validated == {"content-length", "transfer-encoding"}

\* A request was found in the first n lines.
FoundWithin(n) == \E m \in 2 .. n : GoodHead(m) /\ text[m] = Line("empty")

\* What the headers in front of line n + 1 hold, of those the validators look for.
Remembered(n) ==
    {name \in Validated : \E k \in 2 .. n :
        text[k].kind = IF name = "content-length" THEN "length" ELSE "coding"}

\* The state of a reader behind n lines, in terms of the lines.
Means(reader, n) ==
    /\ reader \in [phase : {"start", "headers", "accepted", "refused"},
                   headers : SUBSET Validated, body : Nat, unread : Nat]
    /\ reader.phase = "start" <=> n = 0
    /\ reader.phase = "headers" <=> n >= 1 /\ GoodHead(n + 1)
    /\ reader.phase \in {"start", "headers"} => reader.headers = Remembered(n)
    /\ reader.phase = "accepted" <=> FoundWithin(n)
    /\ reader.phase # "refused" => reader.unread = 0

\* A good head is one line longer when that line is one that may follow.
LEMMA LongerHead ==
    ASSUME Text, NEW n \in 1 .. Len(text) - 1, GoodHead(n + 1)
    PROVE  GoodHead(n + 2) <=>
              /\ text[n + 1].end = "crlf"
              /\ text[n + 1].kind # "empty"
              /\ GoodHeader(text[n + 1].kind, Remembered(n))
<1>1. /\ 1 .. (n + 2) - 1 = (1 .. (n + 1) - 1) \cup {n + 1}
      /\ 2 .. (n + 2) - 1 = (2 .. (n + 1) - 1) \cup {n + 1}
      /\ 2 .. (n + 1) - 1 = 2 .. n
  OBVIOUS
<1> DEFINE kind == text[n + 1].kind
<1>2. text[n + 1] \in Lines
  BY DEF Text
<1>3. /\ "content-length" \in Remembered(n) <=> \E j \in 2 .. n : text[j].kind = "length"
      /\ "transfer-encoding" \in Remembered(n) <=> \E j \in 2 .. n : text[j].kind = "coding"
  BY DEF Remembered, Validated
<1>4. (\A j, k \in 2 .. (n + 2) - 1 :
         j < k => /\ text[j].kind = "length" => text[k].kind \notin LengthKinds \cup CodingKinds
                  /\ text[j].kind = "coding" => text[k].kind \notin LengthKinds)
      <=> \A j \in 2 .. n :
            /\ text[j].kind = "length" => kind \notin LengthKinds \cup CodingKinds
            /\ text[j].kind = "coding" => kind \notin LengthKinds
  <2>1. \A j \in 2 .. n : j < n + 1 /\ ~(n + 1 < j)
    OBVIOUS
  <2>2. \A j, k \in 2 .. n :
         j < k => /\ text[j].kind = "length" => text[k].kind \notin LengthKinds \cup CodingKinds
                  /\ text[j].kind = "coding" => text[k].kind \notin LengthKinds
    BY <1>1 DEF GoodHead
  <2>3. ~(n + 1 < n + 1)
    OBVIOUS
  <2> QED
    BY <1>1, <2>1, <2>2, <2>3, ZenonT(30)
<1>5. GoodHeader(kind, Remembered(n)) <=>
        /\ kind \notin {"start", "malformed", "badLength"}
        /\ \A j \in 2 .. n :
            /\ text[j].kind = "length" => kind \notin LengthKinds \cup CodingKinds
            /\ text[j].kind = "coding" => kind \notin LengthKinds
  BY <1>3 DEF GoodHeader, content_length_validator, transfer_encoding_validator,
              LengthKinds, CodingKinds
<1> QED
  BY <1>1, <1>4, <1>5 DEF GoodHead

LEMMA ShorterHead ==
    ASSUME NEW n \in Nat, n >= 1, GoodHead(n + 2)
    PROVE  GoodHead(n + 1)
BY DEF GoodHead

LEMMA MeansFromBeginning == Means(Beginning, 0)
<1>1. 2 .. 0 = {}
  OBVIOUS
<1> QED
  BY <1>1 DEF Means, Beginning, FoundWithin, Remembered

LEMMA MeansNextLine ==
    ASSUME Text, NEW n \in 0 .. Len(text) - 1, NEW reader, Means(reader, n)
    PROVE  Means(NextLine(reader, text[n + 1]), n + 1)
<1> DEFINE line == text[n + 1]
           next == NextLine(reader, line)
           Shape == [phase : {"start", "headers", "accepted", "refused"},
                     headers : SUBSET Validated, body : Nat, unread : Nat]
<1>1. line \in Lines /\ n \in Nat /\ n + 1 \in 1 .. Len(text)
  BY DEF Text
<1>2. reader \in Shape
  BY DEF Means
<1>3. FoundWithin(n + 1) <=>
        FoundWithin(n) \/ (n >= 1 /\ GoodHead(n + 1) /\ line = Line("empty"))
  <2>1. CASE n = 0
    BY <2>1 DEF FoundWithin
  <2>2. CASE n >= 1
    <3>1. 2 .. n + 1 = (2 .. n) \cup {n + 1}
      BY <1>1, <2>2
    <3> QED
      BY <2>2, <3>1 DEF FoundWithin
  <2> QED
    BY <1>1, <2>1, <2>2
<1>4. GoodHead(n + 2) => n = 0 \/ (n >= 1 /\ GoodHead(n + 1))
  BY <1>1, ShorterHead
<1>5. (n + 1) + 1 = n + 2 /\ n + 1 >= 1 /\ n + 1 # 0
  BY <1>1
<1>6. GoodHead(n + 2) => line.end = "crlf" /\ (n >= 1 => line.kind # "empty")
  BY <1>1 DEF GoodHead
<1> HIDE DEF line
<1>7. SUFFICES
        /\ next \in Shape
        /\ next.phase # "start"
        /\ next.phase = "headers" <=> GoodHead(n + 2)
        /\ next.phase = "headers" => next.headers = Remembered(n + 1)
        /\ next.phase = "accepted" <=> FoundWithin(n + 1)
        /\ next.phase # "refused" => next.unread = 0
  BY <1>5 DEF Means, line
<1>8. CASE reader.phase = "refused"
  <2>1. n # 0 /\ ~GoodHead(n + 1) /\ ~FoundWithin(n)
    BY <1>1, <1>8 DEF Means
  <2>2. next = [reader EXCEPT !.unread = @ + 1]
    BY <1>8 DEF NextLine
  <2>3. next \in Shape /\ next.phase = "refused"
    BY <1>2, <1>8, <2>2
  <2> QED
    BY <1>1, <1>3, <1>4, <2>1, <2>3
<1>9. CASE reader.phase = "accepted"
  <2>1. n # 0 /\ ~GoodHead(n + 1) /\ FoundWithin(n)
    BY <1>1, <1>9 DEF Means
  <2>2. next = [reader EXCEPT !.body = @ + 1]
    BY <1>9 DEF NextLine
  <2>3. next \in Shape /\ next.phase = "accepted" /\ next.unread = 0
    BY <1>2, <1>9, <2>2 DEF Means
  <2> QED
    BY <1>1, <1>3, <1>4, <2>1, <2>3
<1>10. CASE reader.phase = "start"
  <2>1. n = 0 /\ ~FoundWithin(n) /\ reader.unread = 0
    BY <1>1, <1>10 DEF Means
  <2>2. ~FoundWithin(n + 1)
    BY <1>3, <2>1
  <2>3. GoodHead(n + 2) <=> line.kind = "start" /\ line.end = "crlf"
    BY <2>1 DEF GoodHead, line
  <2>4. line = Line("start") <=> line.kind = "start" /\ line.end = "crlf"
    BY <1>1 DEF Line, Lines
  <2>5. CASE line = Line("start")
    <3>1. next = [reader EXCEPT !.phase = "headers"]
      BY <1>10, <2>5 DEF NextLine
    <3>2. reader.headers = Remembered(0)
      BY <1>10, <2>1 DEF Means
    <3>3. 2 .. 0 = {} /\ 2 .. 1 = {}
      OBVIOUS
    <3>4. reader.headers = Remembered(1)
      BY <3>2, <3>3 DEF Remembered
    <3> QED
      BY <1>2, <2>1, <2>2, <2>3, <2>4, <2>5, <3>1, <3>4
  <2>6. CASE line # Line("start")
    <3>1. next = [reader EXCEPT !.phase = "refused"]
      BY <1>10, <2>6 DEF NextLine, Refused
    <3> QED
      BY <1>2, <2>2, <2>3, <2>4, <2>6, <3>1
  <2> QED
    BY <2>5, <2>6
<1>11. CASE reader.phase = "headers"
  <2>1. /\ n >= 1 /\ GoodHead(n + 1) /\ ~FoundWithin(n) /\ reader.unread = 0
        /\ reader.headers = Remembered(n)
    BY <1>1, <1>11 DEF Means
  <2>2. n \in 1 .. Len(text) - 1
    BY <1>1, <2>1
  <2>3. GoodHead(n + 2) <=>
              /\ line.end = "crlf"
              /\ line.kind # "empty"
              /\ GoodHeader(line.kind, Remembered(n))
    BY <2>1, <2>2, LongerHead DEF line
  <2>4. FoundWithin(n + 1) <=> line.kind = "empty" /\ line.end = "crlf"
    BY <1>1, <1>3, <2>1 DEF Line, Lines
  <2>5. CASE line.end # "crlf"
    <3>1. next = [reader EXCEPT !.phase = "refused"]
      BY <1>11, <2>5 DEF NextLine, Refused
    <3> QED
      BY <1>2, <2>3, <2>4, <2>5, <3>1
  <2>6. CASE line.end = "crlf" /\ line.kind = "empty"
    <3>1. next = [reader EXCEPT !.phase = "accepted"]
      BY <1>11, <2>6 DEF NextLine
    <3> QED
      BY <1>2, <2>1, <2>3, <2>4, <2>6, <3>1
  <2>7. CASE /\ line.end = "crlf" /\ line.kind # "empty"
             /\ GoodHeader(line.kind, Remembered(n))
    <3>1. next = [reader EXCEPT !.headers = @ \cup Recorded(line.kind)]
      BY <1>11, <2>1, <2>7 DEF NextLine
    <3>2. Recorded(line.kind) \subseteq Validated
      BY DEF Recorded, Validated
    <3>3. Remembered(n + 1) = Remembered(n) \cup Recorded(line.kind)
      <4>1. 2 .. n + 1 = (2 .. n) \cup {n + 1}
        BY <2>2
      <4> QED
        BY <4>1 DEF Remembered, Recorded, Validated, line
    <3> QED
      BY <1>2, <1>11, <2>1, <2>3, <2>4, <2>7, <3>1, <3>2, <3>3
  <2>8. CASE /\ line.end = "crlf" /\ line.kind # "empty"
             /\ ~GoodHeader(line.kind, Remembered(n))
    <3>1. next = [reader EXCEPT !.phase = "refused"]
      BY <1>11, <2>1, <2>8 DEF NextLine, Refused
    <3> QED
      BY <1>2, <2>3, <2>4, <2>8, <3>1
  <2> QED
    BY <2>5, <2>6, <2>7, <2>8
<1> QED
  BY <1>2, <1>8, <1>9, <1>10, <1>11

LEMMA ReaderMeans ==
    ASSUME Text
    PROVE  Means(ReadLines(text)[Len(text)], Len(text))
<1> DEFINE R == ReadLines(text)
           S == {n \in Nat : n <= Len(text) => Means(R[n], n)}
<1>1. Len(text) \in Nat
  BY DEF Text
<1>2. /\ R[0] = Beginning
      /\ \A n \in 1 .. Len(text) : R[n] = NextLine(R[n - 1], text[n])
  BY <1>1, ReadLinesUnfolds
<1> HIDE DEF R
<1>3. 0 \in S
  BY <1>2, MeansFromBeginning
<1>4. ASSUME NEW n \in Nat, n \in S PROVE n + 1 \in S
  <2> SUFFICES ASSUME n + 1 <= Len(text) PROVE Means(R[n + 1], n + 1)
    OBVIOUS
  <2>1. n \in 0 .. Len(text) - 1 /\ n + 1 \in 1 .. Len(text) /\ (n + 1) - 1 = n
    BY <1>1
  <2>2. Means(R[n], n)
    BY <1>1, <1>4, <2>1
  <2>3. R[n + 1] = NextLine(R[n], text[n + 1])
    BY <1>2, <2>1
  <2> QED
    BY <2>1, <2>2, <2>3, MeansNextLine
<1>5. Nat \subseteq S
  <2> HIDE DEF S
  <2> QED
    BY <1>3, <1>4, InductionOnSet
<1> QED
  BY <1>1, <1>5 DEF R

-----------------------------------------------------------------------------
(* The texts that are sent *)

LEMMA LinesAreTyped ==
    /\ \A kind \in Kinds : Line(kind) \in Lines
    /\ \A segment \in H!Segments : LinesOf(segment) \in Seq(Lines) \ {<< >>}
BY DEF Line, Lines, Kinds, LinesOf, H!Segments

Sent == Text /\ segments \in Seq(H!Segments)

LEMMA SentStep == Sent /\ [Next]_vars => Sent'
<1> SUFFICES ASSUME Sent, [Next]_vars PROVE Sent'
  OBVIOUS
<1>1. text \in Seq(Lines) /\ segments \in Seq(H!Segments)
  BY DEF Sent, Text
<1>2. ASSUME NEW line \in Lines, SendLine(line) PROVE Sent'
  BY <1>1, <1>2 DEF SendLine, Sent, Text
<1>3. ASSUME NEW end \in {"cr", "crlf"}, SendEnd(end) PROVE Sent'
  <2>1. Len(text) \in 1 .. Len(text)
    BY <1>1, <1>3 DEF SendEnd
  <2>2. text[Len(text)] \in Lines
    BY <1>1, <2>1
  <2>3. [text[Len(text)] EXCEPT !.end = end] \in Lines
    BY <2>2 DEF Lines
  <2>4. text' \in Seq(Lines)
    BY <1>1, <1>3, <2>1, <2>3 DEF SendEnd
  <2> QED
    BY <1>1, <1>3, <2>4 DEF SendEnd, Sent, Text
<1>4. ASSUME NEW segment \in H!Segments, SendSegment(segment) PROVE Sent'
  BY <1>1, <1>4, LinesAreTyped DEF SendSegment, Sent, Text
<1>5. CASE UNCHANGED vars
  BY <1>1, <1>5 DEF Sent, Text, vars
<1> QED
  BY <1>2, <1>3, <1>4, <1>5 DEF Next

LEMMA SentInvariant == Spec => []Sent
<1>1. Init => Sent
  BY DEF Init, Sent, Text
<1> QED
  BY <1>1, SentStep, PTL DEF Spec

\* What the parser finds in a text of any length is a request that is well formed: a
\* request line, headers of which no two are at odds about the body, and the empty line
\* (AcceptedIffWellFormed; parse_request, parser.cpp:93-161).
THEOREM AcceptsWhatIsWellFormed == Spec => []AcceptedIffWellFormed
<1>1. Sent => AcceptedIffWellFormed
  BY ReaderMeans DEF Sent, AcceptedIffWellFormed, parse_request, Means, FoundWithin
<1> QED
  BY <1>1, SentInvariant, PTL

-----------------------------------------------------------------------------
(* The parser of HttpHandler *)

\* What the first two segments say about the first three lines.
BeginsWith(s, t) ==
    /\ Len(s) >= 1 => Len(t) >= 1
    /\ Len(s) >= 1 /\ s[1].kind = "full" =>
         /\ Len(t) >= 3
         /\ t[1] = Line("start") /\ t[2] = Line("plain") /\ t[3] = Line("empty")
    /\ Len(s) >= 1 /\ s[1].kind = "head" => t[1] = Line("start")
    /\ Len(s) = 1 /\ s[1].kind = "head" => Len(t) = 1
    /\ Len(s) >= 2 /\ s[1].kind = "head" /\ s[2].kind = "tail" =>
         Len(t) >= 3 /\ t[2] = Line("plain") /\ t[3] = Line("empty")
    /\ Len(s) >= 2 /\ s[1].kind = "head" /\ s[2].kind # "tail" =>
         Len(t) >= 2 /\ t[2].kind \in {"start", "malformed"}
    /\ Len(s) >= 1 /\ s[1].kind \in {"tail", "junk"} => t[1].kind \in {"plain", "malformed"}

Begun == BeginsWith(segments, text)

LEMMA SegmentsTyped ==
    ASSUME Sent, NEW k \in 1 .. Len(segments)
    PROVE  /\ segments[k].kind \in {"full", "head", "tail", "junk"}
           /\ segments[k].target = Target
           /\ segments[k] = [kind |-> "tail", target |-> Target] <=> segments[k].kind = "tail"
<1>1. segments[k] \in H!Segments
  BY DEF Sent
<1> QED
  BY <1>1 DEF H!Segments

LEMMA BegunStep == Sent /\ Begun /\ [Next]_vars => Begun'
<1> SUFFICES ASSUME Sent, Begun, [Next]_vars PROVE Begun'
  OBVIOUS
<1>1. text \in Seq(Lines) /\ segments \in Seq(H!Segments)
  BY DEF Sent, Text
<1>2. ASSUME NEW line \in Lines, SendLine(line) PROVE Begun'
  BY <1>2 DEF SendLine, Begun, BeginsWith
<1>3. ASSUME NEW end \in {"cr", "crlf"}, SendEnd(end) PROVE Begun'
  BY <1>3 DEF SendEnd, Begun, BeginsWith
<1>4. ASSUME NEW segment \in H!Segments, SendSegment(segment) PROVE Begun'
  <2> DEFINE lines == LinesOf(segment)
  <2>1. /\ segments' = Append(segments, segment) /\ text' = text \o lines
        /\ segments = << >> => text = << >>
        /\ lines \in Seq(Lines) /\ lines # << >>
    BY <1>4, LinesAreTyped DEF SendSegment
  <2>2. /\ segment.kind \in {"full", "head", "tail", "junk"}
        /\ segment.kind = "full" =>
             lines = <<Line("start"), Line("plain"), Line("empty")>>
        /\ segment.kind = "head" => lines = <<Line("start")>>
        /\ segment.kind = "tail" => lines = <<Line("plain"), Line("empty")>>
        /\ segment.kind = "junk" => lines = <<Line("malformed")>>
    BY DEF LinesOf, H!Segments
  <2> HIDE DEF lines
  <2>3. \A kind \in Kinds : Line(kind).kind = kind
    BY DEF Line
  <2>4. CASE segments = << >>
    <3>1. segments' = <<segment>> /\ text' = lines
      BY <1>1, <2>1, <2>4
    <3>2. Len(segments') = 1 /\ segments'[1] = segment
      BY <3>1
    <3>3. /\ Len(text') >= 1
          /\ segment.kind = "full" =>
               /\ Len(text') >= 3 /\ text'[1] = Line("start") /\ text'[2] = Line("plain")
               /\ text'[3] = Line("empty")
          /\ segment.kind = "head" => text'[1] = Line("start") /\ Len(text') = 1
          /\ segment.kind \in {"tail", "junk"} =>
               text'[1] = Line("plain") \/ text'[1] = Line("malformed")
      BY <2>2, <3>1
    <3> QED
      BY <2>3, <3>2, <3>3 DEF Begun, BeginsWith, Kinds
  <2>5. CASE Len(segments) = 1
    <3> DEFINE S == H!Segments
    <3> HIDE DEF S
    <3>0. segments \in Seq(S) /\ segment \in S
      BY <1>1 DEF S
    <3>1. Len(segments') = 2 /\ segments'[1] = segments[1] /\ segments'[2] = segment
      <4>1. /\ Len(Append(segments, segment)) = Len(segments) + 1
            /\ \A i \in 1 .. Len(segments) : Append(segments, segment)[i] = segments[i]
            /\ Append(segments, segment)[Len(segments) + 1] = segment
        BY <3>0, AppendProperties
      <4>2. 1 + 1 = 2 /\ 1 \in 1 .. 1
        OBVIOUS
      <4> QED
        BY <2>1, <2>5, <4>1, <4>2, Zenon
    <3>2. /\ Len(text') = Len(text) + Len(lines)
          /\ \A k \in 1 .. Len(text) : text'[k] = text[k]
          /\ \A k \in 1 .. Len(lines) : text'[Len(text) + k] = lines[k]
      BY <1>1, <2>1
    <3>3. Len(text) \in Nat /\ Len(lines) \in Nat
      BY <1>1, <2>1
    <3>4. segments[1].kind \in {"full", "head", "tail", "junk"}
      <4>1. 1 \in 1 .. Len(segments)
        BY <1>1, <2>5
      <4> QED
        BY <4>1, SegmentsTyped
    <3>5. CASE segments[1].kind = "head"
      <4>1. text[1] = Line("start") /\ Len(text) = 1
        BY <2>5, <3>1, <3>5 DEF Begun, BeginsWith
      <4>2. \A k \in 1 .. Len(lines) : text'[1 + k] = lines[k]
        BY <3>2, <4>1
      <4>3. text'[1] = Line("start") /\ Len(text') = 1 + Len(lines)
        BY <3>2, <4>1
      <4>4. CASE segment.kind = "tail"
        <5>1. Len(text') = 3 /\ text'[2] = Line("plain") /\ text'[3] = Line("empty")
          <6>1. Len(lines) = 2 /\ lines[1] = Line("plain") /\ lines[2] = Line("empty")
            BY <2>2, <4>4
          <6> QED
            BY <4>2, <4>3, <6>1
        <5> QED
          <6>1. /\ Len(text') >= 1 /\ Len(text') >= 3 /\ Len(segments') # 1
                /\ segments'[1].kind = "head" /\ segments'[2].kind = "tail"
                /\ segments'[1].kind # "full" /\ segments'[1].kind \notin {"tail", "junk"}
            BY <3>1, <3>5, <4>4, <5>1
          <6> QED
            BY <4>3, <5>1, <6>1, Zenon DEF Begun, BeginsWith
      <4>5. CASE segment.kind # "tail"
        <5>1. Len(lines) >= 1 /\ lines[1] \in {Line("start"), Line("malformed")}
          BY <2>2, <4>5
        <5>2. Len(text') >= 2 /\ text'[2] \in {Line("start"), Line("malformed")}
          BY <3>3, <4>2, <4>3, <5>1
        <5>3. text'[2].kind \in {"start", "malformed"}
          BY <2>3, <5>2 DEF Kinds
        <5> QED
          BY <3>1, <3>5, <4>3, <4>5, <5>2, <5>3 DEF Begun, BeginsWith
      <4> QED
        BY <4>4, <4>5
    <3>6. CASE segments[1].kind = "full"
      <4>1. /\ Len(text) >= 3 /\ text[1] = Line("start") /\ text[2] = Line("plain")
            /\ text[3] = Line("empty")
        BY <2>5, <3>6 DEF Begun, BeginsWith
      <4>2. /\ Len(text') >= 3 /\ text'[1] = Line("start") /\ text'[2] = Line("plain")
            /\ text'[3] = Line("empty")
        BY <3>2, <3>3, <4>1
      <4> QED
        BY <3>1, <3>6, <4>2 DEF Begun, BeginsWith
    <3>7. CASE segments[1].kind \in {"tail", "junk"}
      <4>1. Len(text) >= 1 /\ text[1].kind \in {"plain", "malformed"}
        BY <2>5, <3>7 DEF Begun, BeginsWith
      <4>2. Len(text') >= 1 /\ text'[1].kind \in {"plain", "malformed"}
        BY <3>2, <3>3, <4>1
      <4> QED
        BY <3>1, <3>7, <4>2 DEF Begun, BeginsWith
    <3> QED
      BY <3>4, <3>5, <3>6, <3>7
  <2>6. CASE Len(segments) >= 2
    <3>1. /\ segments'[1] = segments[1] /\ segments'[2] = segments[2]
          /\ Len(segments') >= 2 /\ Len(segments') # 1
      BY <1>1, <2>1, <2>6
    <3>2. /\ Len(text') >= Len(text)
          /\ \A k \in 1 .. Len(text) : text'[k] = text[k]
      BY <1>1, <2>1
    <3>3. Len(text) \in Nat /\ Len(text') \in Nat
      BY <1>1, <2>1
    <3>4. segments[1].kind \in {"full", "head", "tail", "junk"}
      <4>1. 1 \in 1 .. Len(segments)
        BY <1>1, <2>6
      <4> QED
        BY <4>1, SegmentsTyped
    <3>5. CASE segments[1].kind = "full"
      <4>1. /\ Len(text) >= 3 /\ text[1] = Line("start") /\ text[2] = Line("plain")
            /\ text[3] = Line("empty")
        BY <2>6, <3>1, <3>5 DEF Begun, BeginsWith
      <4>2. /\ Len(text') >= 3 /\ text'[1] = Line("start") /\ text'[2] = Line("plain")
            /\ text'[3] = Line("empty")
        BY <3>2, <3>3, <4>1
      <4> QED
        BY <3>1, <3>5, <4>2 DEF Begun, BeginsWith
    <3>6. CASE segments[1].kind = "head"
      <4>1. Len(segments) >= 2 /\ Len(segments) >= 1
        BY <1>1, <2>6
      <4>2. /\ text[1] = Line("start")
            /\ IF segments[2].kind = "tail"
               THEN Len(text) >= 3 /\ text[2] = Line("plain") /\ text[3] = Line("empty")
               ELSE Len(text) >= 2 /\ text[2].kind \in {"start", "malformed"}
        BY <3>6, <4>1 DEF Begun, BeginsWith
      <4>3. Len(text) >= 2
        BY <3>3, <4>2
      <4>4. text'[1] = text[1] /\ text'[2] = text[2]
        BY <3>2, <3>3, <4>3
      <4>5. Len(text) >= 3 => text'[3] = text[3] /\ Len(text') >= 3
        BY <3>2, <3>3
      <4>6. Len(text') >= 2
        BY <3>2, <3>3, <4>3
      <4> QED
        BY <3>1, <3>6, <4>1, <4>2, <4>4, <4>5, <4>6 DEF Begun, BeginsWith
    <3>7. CASE segments[1].kind \in {"tail", "junk"}
      <4>1. Len(segments) >= 1 /\ Len(segments') >= 1
        BY <2>6, <3>1
      <4>2. Len(text) >= 1 /\ text[1].kind \in {"plain", "malformed"}
        BY <3>7, <4>1 DEF Begun, BeginsWith
      <4>3. Len(text') >= 1 /\ text'[1] = text[1]
        BY <3>2, <3>3, <4>2
      <4> QED
        BY <3>1, <3>7, <4>2, <4>3 DEF Begun, BeginsWith
    <3> QED
      BY <3>4, <3>5, <3>6, <3>7
  <2>7. segments # << >> => Len(segments) \in Nat \ {0}
    BY <1>1, EmptySeq
  <2> QED
    BY <2>4, <2>5, <2>6, <2>7, TwoOrMore, Zenon
<1>5. CASE UNCHANGED vars
  BY <1>5 DEF Begun, BeginsWith, vars
<1> QED
  BY <1>2, <1>3, <1>4, <1>5 DEF Next

LEMMA BeginningsAgree == Sent /\ Begun => HandlerAgrees
<1> SUFFICES ASSUME Sent, Begun, segments # << >> PROVE HandlerAgrees
  BY DEF HandlerAgrees
<1> DEFINE reader == ReadLines(text)[Len(text)]
           parsed == H!Parsed(segments)
<1>1. /\ text \in Seq(Lines) /\ segments \in Seq(H!Segments)
      /\ Len(text) \in Nat /\ Len(segments) \in Nat /\ Len(segments) >= 1
  BY DEF Sent, Text
<1>2. Means(reader, Len(text))
  BY ReaderMeans DEF Sent
<1> HIDE DEF reader
<1>3. /\ segments[1].kind \in {"full", "head", "tail", "junk"}
      /\ segments[1].target = Target
  BY <1>1, SegmentsTyped
<1>4. Len(segments) >= 2 =>
        (segments[2] = [kind |-> "tail", target |-> segments[1].target]
           <=> segments[2].kind = "tail")
  BY <1>1, <1>3, SegmentsTyped
<1>5. H!Complete(segments) <=>
        \/ segments[1].kind = "full"
        \/ segments[1].kind = "head" /\ Len(segments) >= 2 /\ segments[2].kind = "tail"
  BY <1>4 DEF H!Complete
<1>6. parsed = IF H!Complete(segments) THEN [request |-> Target, rest |-> << >>]
               ELSE [request |-> "no target",
                     rest    |-> IF segments[1].kind = "head" /\ Len(segments) = 1
                                 THEN << >> ELSE segments]
  BY <1>3 DEF H!Parsed
<1>7. Target # "no target"
  BY DEF Target
<1> HIDE DEF parsed
<1>8. /\ parse_request(text).found <=> reader.phase = "accepted"
      /\ parse_request(text).unread = reader.unread
  BY DEF parse_request, reader
<1>9. SUFFICES
        /\ reader.phase = "accepted" <=> H!Complete(segments)
        /\ segments[1].kind = "head" /\ Len(segments) = 1 => reader.phase # "refused"
  <2> SUFFICES ASSUME
        /\ reader.phase = "accepted" <=> H!Complete(segments)
        /\ segments[1].kind = "head" /\ Len(segments) = 1 => reader.phase # "refused"
      PROVE HandlerAgrees
    OBVIOUS
  <2>1. reader.phase # "refused" => reader.unread = 0
    BY <1>2 DEF Means
  <2>2. parse_request(text).found <=> H!Complete(segments)
    BY <1>8
  <2>3. /\ parsed.request = IF H!Complete(segments) THEN Target ELSE "no target"
        /\ parsed.rest = << >> =>
             H!Complete(segments) \/ (segments[1].kind = "head" /\ Len(segments) = 1)
    BY <1>6
  <2>4. parsed.request = IF parse_request(text).found THEN Target ELSE "no target"
    BY <2>2, <2>3, Zenon
  <2>5. parsed.rest = << >> => parse_request(text).unread = 0
    BY <1>8, <2>1, <2>3
  <2> QED
    BY <2>4, <2>5 DEF HandlerAgrees, parsed
<1>10. \A kind \in Kinds : Line(kind).kind = kind /\ Line(kind).end = "crlf"
  BY DEF Line
<1>11. CASE H!Complete(segments)
  <2>1. /\ Len(text) >= 3 /\ text[1] = Line("start") /\ text[2] = Line("plain")
        /\ text[3] = Line("empty")
    BY <1>5, <1>11 DEF Begun, BeginsWith
  <2>2. 1 .. 2 = {1, 2} /\ 2 .. 2 = {2}
    OBVIOUS
  <2>3. GoodHead(3)
    BY <1>10, <2>1, <2>2 DEF GoodHead, Kinds
  <2>4. FoundWithin(Len(text))
    BY <1>1, <2>1, <2>3 DEF FoundWithin
  <2> QED
    BY <1>2, <1>11, <2>4 DEF Means
<1>12. CASE ~H!Complete(segments)
  <2>1. CASE segments[1].kind = "head"
    <3>1. CASE Len(segments) = 1
      <4>1. text[1] = Line("start") /\ Len(text) = 1
        BY <2>1, <3>1 DEF Begun, BeginsWith
      <4>2. 1 .. 1 = {1} /\ 2 .. 1 = {}
        OBVIOUS
      <4>3. GoodHead(2)
        BY <1>10, <4>1, <4>2 DEF GoodHead, Kinds
      <4>4. reader.phase = "headers"
        BY <1>2, <4>1, <4>3 DEF Means
      <4> QED
        BY <1>12, <4>4
    <3>2. CASE Len(segments) # 1
      <4>0. Len(segments) >= 2
        <5>1. Len(segments) \in Nat \ {0}
          BY <1>1
        <5> QED
          BY <3>2, <5>1, TwoOrMore, Zenon
      <4>1. segments[2].kind # "tail"
        BY <1>5, <1>12, <2>1, <4>0
      <4>2. Len(text) >= 2 /\ text[2].kind \in {"start", "malformed"}
        BY <2>1, <4>0, <4>1 DEF Begun, BeginsWith
      <4>3. ~FoundWithin(Len(text))
        <5> SUFFICES ASSUME NEW m \in 2 .. Len(text), GoodHead(m), text[m] = Line("empty")
                     PROVE  FALSE
          BY DEF FoundWithin
        <5>1. m # 2
          BY <1>10, <4>2 DEF Kinds
        <5>2. 2 \in 2 .. m - 1
          BY <5>1
        <5> QED
          BY <4>2, <5>2 DEF GoodHead
      <4> QED
        BY <1>2, <1>12, <3>2, <4>3 DEF Means
    <3> QED
      BY <3>1, <3>2
  <2>2. CASE segments[1].kind \in {"tail", "junk"}
    <3>1. text[1].kind \in {"plain", "malformed"}
      BY <2>2 DEF Begun, BeginsWith
    <3>2. ~FoundWithin(Len(text))
      BY <3>1 DEF FoundWithin, GoodHead
    <3> QED
      BY <1>2, <1>12, <2>2, <3>2 DEF Means
  <2> QED
    BY <1>3, <1>5, <1>12, <2>1, <2>2
<1> QED
  BY <1>11, <1>12

\* The server's model takes the same texts for requests as the parser does, however many
\* segments were sent: Parsed of HttpHandler, on which every proof about the server
\* rests, is the code's parse_request (HandlerAgrees; parser.cpp:93-161).
THEOREM HandlerParsesAlike == Spec => []HandlerAgrees
<1>1. Init => Begun
  BY DEF Init, Begun, BeginsWith
<1>2. Spec => []Begun
  BY <1>1, BegunStep, SentInvariant, PTL DEF Spec
<1> QED
  BY <1>2, SentInvariant, BeginningsAgree, PTL
=============================================================================
