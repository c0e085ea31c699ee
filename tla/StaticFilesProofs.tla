-------------------------- MODULE StaticFilesProofs --------------------------
(***************************************************************************)
(* Theorems about StaticFiles: the chunks of a response follow each other  *)
(* in the file, through any number of calls and whatever other processes   *)
(* do to the file, and are all of a file that stays as it is.  The         *)
(* inductive invariant says where the handler is in the file at each of    *)
(* its steps.                                                              *)
(***************************************************************************)
EXTENDS StaticFiles, SequenceTheorems, TLAPS

-----------------------------------------------------------------------------
(* The inductive invariant *)

Chunks == Seq(Seq(Nat \X Nat))

Placed(b, c) == \A k \in 1 .. Len(b) : b[k] # Zero => b[k][2] = Offset(c, k)

Copies(b, c, f) == \A k \in 1 .. Len(b) : b[k] = <<f.version, Offset(c, k)>>

\* A call is under way, and may have opened the file, and asked for its size.
InCall == pc \in {"open", "size", "read", "return"}
Opened == pc \in {"size", "read", "return"}
Sized  == pc \in {"read", "return"}

Typed ==
    /\ TypeOK
    /\ changes \in 0 .. MaxChanges
    /\ body \in Chunks /\ response \in Chunks

\* What was answered by the calls before.  last_served is the number of its chunks as
\* long as the response is not over, and then they are all whole.
Answered ==
    /\ Whole(response)
    /\ \A c \in 1 .. Len(response) : Placed(response[c], c)
    /\ (InCall \/ result = "RECALL") =>
         /\ last_served = Len(response)
         /\ \A c \in 1 .. Len(response) : Len(response[c]) = ChunkSize
    /\ (pc = "idle" /\ result # "RECALL") => last_served = 0
    /\ InCall => result # "FINISHED_NO_WAIT"
    /\ (InCall /\ kind = "small") => response = << >> /\ result = "none"
    /\ result = "RECALL" => kind = "big"
    /\ result = "none" => response = << >>

\* What this call has read: the chunks that follow.
Read ==
    /\ Opened =>
         /\ stream = 0 => failed
         /\ \A d \in 1 .. Len(body) : Placed(body[d], last_served + d)
    /\ (Opened /\ kind = "small") =>
         /\ pc # "return" => stream # 0 /\ body = << >>
         /\ pc = "return" => body = << >> \/ (Len(body) = 1 /\ Len(body[1]) = size)
    /\ (Opened /\ kind = "big") =>
         /\ number = last_served + Len(body)
         /\ pc = "size" => body = << >>
         /\ pc = "read" => Len(body) <= 1
         /\ pc = "return" => /\ Len(body) <= 2
                             /\ Len(body) = 2 \/ number * ChunkSize >= size
         /\ \A d \in 1 .. Len(body) :
              /\ (last_served + d - 1) * ChunkSize < size
              /\ Len(body[d]) = Lesser(ChunkSize, size - (last_served + d - 1) * ChunkSize)

Over == result = "FINISHED_NO_WAIT"

\* Of a file that nobody has touched since the request.
Untouched ==
    /\ (intact /\ Sized /\ kind = "big") => path # 0
    /\ (intact /\ path # 0) =>
         /\ \A c \in 1 .. Len(response) : Copies(response[c], c, inodes[path])
         /\ Opened =>
              /\ stream = path /\ ~failed
              /\ \A d \in 1 .. Len(body) : Copies(body[d], last_served + d, inodes[path])
         /\ Sized => size = inodes[path].size
         /\ (pc = "return" /\ kind = "small") => Len(body) = 1
         /\ ((InCall \/ result = "RECALL") /\ response # << >>) =>
              Len(response) * ChunkSize < inodes[path].size
         /\ Over => Served = inodes[path].size

IInv == Typed /\ Answered /\ Read /\ Untouched /\ EndsAtItsSize

-----------------------------------------------------------------------------
(* Chunks of a file *)

LEMMA Times ==
    ASSUME NEW a \in Int, NEW b \in Int, NEW c \in Nat \ {0}
    PROVE  /\ a * c \in Int
           /\ (a + 1) * c = a * c + c
           /\ a < b => a * c + c <= b * c
<1>1. a * c \in Int /\ b * c \in Int /\ (a + 1) * c = a * c + c
  OBVIOUS
<1>2. ASSUME a < b PROVE a * c + c <= b * c
  <2>1. PICK d \in Nat : b = a + 1 + d
    <3>1. b - a - 1 \in Nat /\ b = a + 1 + (b - a - 1)
      BY <1>2
    <3>. QED
      BY <3>1
  <2>2. b * c = a * c + c + d * c
    BY <2>1
  <2>3. d * c \in Nat
    OBVIOUS
  <2>. QED
    BY <1>1, <2>2, <2>3
<1>. QED
  BY <1>1, <1>2

LEMMA ChunksOfASize ==
    ASSUME NEW n \in Nat
    PROVE  /\ ExpectedChunks(n) \in Nat
           /\ n <= ExpectedChunks(n) * ChunkSize
           /\ ExpectedChunks(n) # 0 => (ExpectedChunks(n) - 1) * ChunkSize < n
<1>1. PICK c \in Nat \ {0} : c = ChunkSize
  BY SizesAssumption
<1>2. PICK q, r : q = n \div c /\ r = n % c
  OBVIOUS
<1>3. q \in Nat /\ r \in 0 .. c - 1 /\ n = q * c + r
  BY <1>2
<1>4. CASE r = 0
  <2>1. ExpectedChunks(n) = q
    BY <1>1, <1>2, <1>3, <1>4 DEF ExpectedChunks
  <2>2. q # 0 => (q - 1) * c = q * c - c
    BY <1>3
  <2>. QED
    BY <1>1, <1>3, <1>4, <2>1, <2>2
<1>5. CASE r # 0
  <2>1. ExpectedChunks(n) = q + 1
    BY <1>1, <1>2, <1>5 DEF ExpectedChunks
  <2>2. (q + 1) * c = q * c + c /\ q + 1 - 1 = q
    BY <1>3
  <2>. QED
    BY <1>1, <1>3, <1>5, <2>1, <2>2
<1>. QED
  BY <1>4, <1>5

LEMMA ChunksAreAll ==
    ASSUME NEW n \in Nat, NEW e \in Nat,
           n <= e * ChunkSize, e # 0 => (e - 1) * ChunkSize < n
    PROVE  e = ExpectedChunks(n)
<1>1. PICK c \in Nat \ {0} : c = ChunkSize
  BY SizesAssumption
<1>2. PICK x \in Nat : x = ExpectedChunks(n)
  BY ChunksOfASize
<1>3. n <= x * c /\ (x # 0 => (x - 1) * c < n)
  BY <1>1, <1>2, ChunksOfASize
<1>4. CASE e < x
  <2>1. x # 0 /\ e <= x - 1
    BY <1>2, <1>4
  <2>2. e * c <= (x - 1) * c
    <3>1. e < x - 1 => e * c + c <= (x - 1) * c
      BY <1>2, Times
    <3>. QED
      BY <1>2, <2>1, <3>1
  <2>. QED
    BY <1>1, <1>2, <1>3, <2>1, <2>2
<1>5. CASE x < e
  <2>1. e # 0 /\ x <= e - 1
    BY <1>2, <1>5
  <2>2. x * c <= (e - 1) * c
    <3>1. x < e - 1 => x * c + c <= (e - 1) * c
      BY <1>2, Times
    <3>. QED
      BY <1>2, <2>1, <3>1
  <2>. QED
    BY <1>1, <1>2, <1>3, <2>1, <2>2
<1>. QED
  BY <1>2, <1>4, <1>5

\* No more chunks are begun than the largest file has.
LEMMA ChunksWithin ==
    ASSUME NEW n \in Nat, NEW m \in Nat, n <= m, NEW e \in Nat \ {0},
           (e - 1) * ChunkSize < n
    PROVE  e <= ExpectedChunks(m)
<1>1. PICK c \in Nat \ {0} : c = ChunkSize
  BY SizesAssumption
<1>2. PICK x \in Nat : x = ExpectedChunks(m)
  BY ChunksOfASize
<1>3. m <= x * c
  BY <1>1, <1>2, ChunksOfASize
<1>4. CASE x <= e - 1
  <2>1. x * c <= (e - 1) * c
    <3>1. x < e - 1 => x * c + c <= (e - 1) * c
      BY Times
    <3>. QED
      BY <1>2, <1>4, <3>1
  <2>. QED
    BY <1>1, <1>3, <2>1
<1>. QED
  BY <1>2, <1>4

-----------------------------------------------------------------------------
(* What is read *)

LEMMA BytesRead ==
    ASSUME Typed, stream = 0 => failed, NEW begin \in Nat, NEW end \in Nat, begin <= end
    PROVE  /\ Bytes(begin, end) \in Seq(Nat \X Nat)
           /\ Len(Bytes(begin, end)) = end - begin
           /\ \A k \in 1 .. end - begin :
                /\ Bytes(begin, end)[k] # Zero => Bytes(begin, end)[k][2] = begin + k
                /\ (~failed /\ stream # 0 /\ end <= inodes[stream].size) =>
                     Bytes(begin, end)[k] = <<inodes[stream].version, begin + k>>
<1>1. PICK b : b = Bytes(begin, end)
  OBVIOUS
<1>2. stream # 0 => inodes[stream] \in [version : 1 .. MaxChanges + 1, size : Sizes]
  <2>1. Len(inodes) \in Nat
    BY LenProperties DEF Typed, TypeOK
  <2>2. stream # 0 => stream \in 1 .. Len(inodes)
    BY <2>1 DEF Typed, TypeOK
  <2>. QED
    BY <2>2, ElementOfSeq DEF Typed, TypeOK
<1>3. ASSUME NEW k \in 1 .. end - begin
      PROVE  /\ b[k] = IF failed \/ begin + k > inodes[stream].size THEN Zero
                       ELSE <<inodes[stream].version, begin + k>>
             /\ b[k] \in Nat \X Nat
             /\ b[k] # Zero => b[k][2] = begin + k
             /\ (~failed /\ stream # 0 /\ end <= inodes[stream].size) =>
                  b[k] = <<inodes[stream].version, begin + k>>
  <2>1. b[k] = IF failed \/ begin + k > inodes[stream].size THEN Zero
               ELSE <<inodes[stream].version, begin + k>>
    BY <1>1 DEF Bytes
  <2>2. CASE failed
    BY <2>1, <2>2 DEF Zero
  <2>3. CASE ~failed
    <3>1. inodes[stream].version \in Nat /\ inodes[stream].size \in Nat
      BY <1>2, <2>3, SizesAssumption DEF Sizes
    <3>. QED
      BY <2>1, <2>3, <3>1 DEF Zero
  <2>. QED
    BY <2>1, <2>2, <2>3
<1>4. b \in [1 .. end - begin -> Nat \X Nat]
  <2>1. b = [k \in 1 .. end - begin |-> b[k]]
    BY <1>1 DEF Bytes
  <2>. QED
    BY <1>3, <2>1
<1>5. b \in Seq(Nat \X Nat) /\ Len(b) = end - begin
  <2>1. end - begin \in Nat
    OBVIOUS
  <2>2. b \in Seq(Nat \X Nat)
    BY <1>4, <2>1, SeqDef
  <2>3. Len(b) \in Nat /\ DOMAIN b = 1 .. Len(b)
    BY <2>2, LenProperties
  <2>4. 1 .. Len(b) = 1 .. end - begin
    BY <1>4, <2>3
  <2>5. \A m, n \in Nat : 1 .. m = 1 .. n => m = n
    OBVIOUS
  <2>. QED
    BY <2>1, <2>2, <2>3, <2>4, <2>5
<1>. QED
  BY <1>1, <1>3, <1>5

\* The last chunk is counted from the bytes of those before it.
LEMMA OffsetOf ==
    ASSUME NEW c \in Nat, NEW k \in Nat, NEW begin, begin = c * ChunkSize
    PROVE  Offset(c + 1, k) = begin + k
<1>1. c + 1 - 1 = c
  OBVIOUS
<1>. QED
  BY <1>1 DEF Offset

LEMMA OneMoreChunk ==
    ASSUME NEW cs \in Chunks, NEW b \in Seq(Nat \X Nat)
    PROVE  /\ Append(cs, b) \in Chunks /\ Len(Append(cs, b)) = Len(cs) + 1
           /\ \A d \in 1 .. Len(cs) : Append(cs, b)[d] = cs[d]
           /\ Append(cs, b)[Len(cs) + 1] = b
BY AppendProperties DEF Chunks

LEMMA ChunksJoined ==
    ASSUME NEW cs \in Chunks, NEW ds \in Chunks
    PROVE  /\ cs \o ds \in Chunks /\ Len(cs \o ds) = Len(cs) + Len(ds)
           /\ \A c \in 1 .. Len(cs) : (cs \o ds)[c] = cs[c]
           /\ \A d \in 1 .. Len(ds) : (cs \o ds)[Len(cs) + d] = ds[d]
<1>1. Len(cs) \in Nat /\ Len(ds) \in Nat
  BY LenProperties DEF Chunks
<1>2. PICK es : es = cs \o ds
  OBVIOUS
<1>3. /\ es \in Chunks /\ Len(es) = Len(cs) + Len(ds)
      /\ \A i \in 1 .. Len(cs) + Len(ds) :
           es[i] = IF i <= Len(cs) THEN cs[i] ELSE ds[i - Len(cs)]
  BY <1>2, ConcatProperties DEF Chunks
<1>. QED
  BY <1>1, <1>2, <1>3

LEMMA ChunkTypes ==
    ASSUME Typed
    PROVE  /\ Len(body) \in Nat /\ DOMAIN body = 1 .. Len(body)
           /\ Len(response) \in Nat /\ DOMAIN response = 1 .. Len(response)
           /\ \A d \in 1 .. Len(body) : Len(body[d]) \in Nat /\ DOMAIN body[d] = 1 .. Len(body[d])
           /\ \A c \in 1 .. Len(response) :
                Len(response[c]) \in Nat /\ DOMAIN response[c] = 1 .. Len(response[c])
<1>1. /\ Len(body) \in Nat /\ DOMAIN body = 1 .. Len(body)
      /\ Len(response) \in Nat /\ DOMAIN response = 1 .. Len(response)
  BY LenProperties DEF Typed, Chunks
<1>2. \A d \in 1 .. Len(body) : body[d] \in Seq(Nat \X Nat)
  BY ElementOfSeq DEF Typed, Chunks
<1>3. \A c \in 1 .. Len(response) : response[c] \in Seq(Nat \X Nat)
  BY ElementOfSeq DEF Typed, Chunks
<1>. QED
  BY <1>1, <1>2, <1>3, LenProperties

-----------------------------------------------------------------------------
(* The steps *)

LEMMA FileTypes ==
    ASSUME Typed
    PROVE  /\ Len(inodes) \in Nat
           /\ path # 0 => inodes[path].version \in Nat /\ inodes[path].size \in Sizes
           /\ stream # 0 => inodes[stream].version \in Nat /\ inodes[stream].size \in Sizes
<1>1. Len(inodes) \in Nat
  BY LenProperties DEF Typed, TypeOK
<1>2. ASSUME NEW i \in 0 .. Len(inodes), i # 0
      PROVE  inodes[i].version \in Nat /\ inodes[i].size \in Sizes
  <2>1. i \in 1 .. Len(inodes)
    BY <1>1, <1>2
  <2>2. inodes[i] \in [version : 1 .. MaxChanges + 1, size : Sizes]
    BY <2>1, ElementOfSeq DEF Typed, TypeOK
  <2>. QED
    BY <2>2, SizesAssumption
<1>. QED
  BY <1>1, <1>2 DEF Typed, TypeOK

LEMMA InitHolds == Init => IInv
<1>. SUFFICES ASSUME Init PROVE IInv
  OBVIOUS
<1>1. PICK n \in Sizes : inodes = << [version |-> 1, size |-> n] >>
  BY DEF Init
<1>2. << >> \in Chunks /\ Len(<< >>) = 0
  BY EmptySeq DEF Chunks
<1>3. ExpectedChunks(MaxSize) \in Nat
  BY SizesAssumption, ChunksOfASize
<1>4. Typed
  <2>1. inodes \in Seq([version : 1 .. MaxChanges + 1, size : Sizes]) /\ Len(inodes) = 1
    BY <1>1, SizesAssumption
  <2>2. 0 \in {k \in 0 .. ExpectedChunks(MaxSize) : k % 2 = 0}
    BY <1>3
  <2>3. 0 \in Sizes /\ 0 \in 0 .. MaxChanges
    BY SizesAssumption DEF Sizes
  <2>4. path \in 0 .. Len(inodes) /\ stream \in 0 .. Len(inodes)
    BY <2>1 DEF Init
  <2>5. TypeOK
    BY <2>1, <2>2, <2>3, <2>4 DEF Init, TypeOK
  <2>. QED
    BY <1>2, <2>3, <2>5 DEF Init, Typed
<1>5. Answered /\ Read /\ Untouched
  BY <1>2 DEF Init, Answered, Read, Untouched, Whole, InCall, Opened, Sized, Over
<1>6. EndsAtItsSize
  BY DEF Init, EndsAtItsSize
<1>. QED
  BY <1>4, <1>5, <1>6 DEF IInv

LEMMA RequestKeeps ==
    ASSUME IInv, NEW k \in {"small", "big"}, Request(k)
    PROVE  IInv'
<1>. USE DEF IInv, Request, fileVars
<1>1. << >> \in Chunks /\ Len(<< >>) = 0
  BY EmptySeq DEF Chunks
<1>2. Typed'
  BY <1>1 DEF Typed, TypeOK
<1>3. Answered'
  BY <1>1 DEF Answered, InCall, Whole
<1>4. Read' /\ Untouched' /\ EndsAtItsSize'
  BY <1>1 DEF Read, Untouched, EndsAtItsSize, InCall, Opened, Sized, Over
<1>. QED
  BY <1>2, <1>3, <1>4

LEMMA CallAgainKeeps ==
    ASSUME IInv, CallAgain
    PROVE  IInv'
<1>. USE DEF IInv, CallAgain, fileVars, callVars, respVars
<1>1. Typed'
  BY DEF Typed, TypeOK
<1>2. Answered'
  BY DEF Answered, InCall, Placed
<1>3. Read' /\ Untouched' /\ EndsAtItsSize'
  BY DEF Read, Untouched, EndsAtItsSize, InCall, Opened, Sized, Over, Copies
<1>. QED
  BY <1>1, <1>2, <1>3

LEMMA OpenKeeps ==
    ASSUME IInv, Open
    PROVE  IInv'
<1>. USE DEF IInv, Open, fileVars, respVars
<1>1. << >> \in Chunks /\ Len(<< >>) = 0
  BY EmptySeq DEF Chunks
<1>2. last_served \in Nat
  BY ChunksOfASize, SizesAssumption DEF Typed, TypeOK
<1>3. Typed'
  BY <1>1, <1>2, FileTypes DEF Typed, TypeOK
<1>4. Answered'
  BY DEF Answered, InCall, Placed
<1>5. Read'
  <2>1. /\ body' = << >> /\ Len(body') = 0 /\ stream' = path /\ failed' = (path = 0)
        /\ kind' = kind /\ pc' \in {"size", "return"} /\ last_served' = last_served
        /\ pc' = "return" => kind = "small"
        /\ kind = "small" => (pc' # "return" => path # 0)
        /\ kind = "big" => number' = last_served
    BY <1>1
  <2>2. kind' = "big" => number' = last_served' + Len(body')
    BY <1>2, <2>1
  <2>3. stream' = 0 => failed'
    BY <2>1
  <2>4. \A d \in 1 .. Len(body') : FALSE
    BY <2>1
  <2>. QED
    BY <2>1, <2>2, <2>3, <2>4 DEF Read, Opened
<1>6. Untouched'
  <2>1. /\ Len(body') = 0 /\ stream' = path /\ failed' = (path = 0) /\ path' = path
        /\ pc' = "return" => kind = "small" /\ path = 0
        /\ UNCHANGED <<inodes, response, intact, result, kind>>
        /\ pc = "open" /\ pc' \in {"size", "return"}
    BY <1>1
  <2>2. ~Over
    BY DEF Answered, InCall, Over
  <2>3. \A d \in 1 .. Len(body') : FALSE
    BY <2>1
  <2>4. path # 0 => ~failed'
    BY <2>1
  <2>. QED
    BY <2>1, <2>2, <2>3, <2>4 DEF Untouched, InCall, Opened, Sized, Over
<1>7. EndsAtItsSize'
  BY DEF EndsAtItsSize
<1>. QED
  BY <1>3, <1>4, <1>5, <1>6, <1>7

LEMMA AskSizeKeeps ==
    ASSUME IInv, AskSize
    PROVE  IInv'
<1>. USE DEF IInv, AskSize, fileVars, respVars
<1>1. Typed'
  BY FileTypes DEF Typed, TypeOK, Read, Opened
<1>2. Answered'
  BY DEF Answered, InCall, Placed
<1>3. Len(<< >>) = 0
  BY EmptySeq
<1>4. Read'
  BY <1>3 DEF Read, Opened, Placed
<1>5. Untouched'
  BY DEF Untouched, Answered, InCall, Opened, Sized, Over, Copies, Typed, TypeOK
<1>6. EndsAtItsSize'
  BY DEF EndsAtItsSize
<1>. QED
  BY <1>1, <1>2, <1>4, <1>5, <1>6

LEMMA ReadAllKeeps ==
    ASSUME IInv, ReadAll
    PROVE  IInv'
<1>. USE DEF IInv
<1>1. PICK b : b = Bytes(0, size)
  OBVIOUS
<1>2. /\ pc = "read" /\ kind = "small" /\ pc' = "return"
      /\ body' = << b >> /\ failed' = FailsAt(size)
      /\ UNCHANGED <<fileVars, kind, stream, size, number, respVars>>
  BY <1>1 DEF ReadAll
<1>. USE DEF fileVars, respVars
<1>3. /\ stream # 0 /\ (stream = 0 => failed) /\ response = << >> /\ result = "none"
      /\ last_served = 0 /\ Len(response) = 0
  BY <1>2, EmptySeq DEF Read, Answered, Opened, InCall
<1>4. size \in Nat
  BY SizesAssumption DEF Typed, TypeOK, Sizes
<1>5. /\ b \in Seq(Nat \X Nat) /\ Len(b) = size
      /\ \A k \in 1 .. size :
           /\ b[k] # Zero => b[k][2] = k
           /\ (~failed /\ size <= inodes[stream].size) =>
                b[k] = <<inodes[stream].version, k>>
  <2>1. 0 \in Nat /\ 0 <= size /\ Typed
    BY <1>4
  <2>2. /\ Bytes(0, size) \in Seq(Nat \X Nat)
        /\ Len(Bytes(0, size)) = size - 0
        /\ \A k \in 1 .. size - 0 :
             /\ Bytes(0, size)[k] # Zero => Bytes(0, size)[k][2] = 0 + k
             /\ (~failed /\ stream # 0 /\ size <= inodes[stream].size) =>
                  Bytes(0, size)[k] = <<inodes[stream].version, 0 + k>>
    BY <1>3, <1>4, <2>1, BytesRead
  <2>3. size - 0 = size /\ \A k \in 1 .. size : 0 + k = k
    BY <1>4
  <2>. QED
    BY <1>1, <1>3, <2>2, <2>3
<1>6. body' \in Chunks /\ Len(body') = 1 /\ body'[1] = b
  BY <1>2, <1>5 DEF Chunks
<1>7. failed' \in BOOLEAN
  BY <1>2 DEF FailsAt, Typed, TypeOK
<1>8. Typed'
  BY <1>2, <1>6, <1>7 DEF Typed, TypeOK
<1>9. Answered'
  BY <1>2 DEF Answered, InCall, Placed
<1>10. \A k \in 1 .. size : Offset(1, k) = k
  BY <1>4, SizesAssumption DEF Offset
<1>11. Read'
  <2>1. Placed(b, 1)
    BY <1>4, <1>5, <1>10 DEF Placed
  <2>2. \A d \in 1 .. Len(body') : Placed(body'[d], last_served' + d)
    BY <1>2, <1>3, <1>6, <2>1
  <2>. QED
    BY <1>2, <1>3, <1>5, <1>6, <2>2 DEF Read, Opened
<1>12. Untouched'
  <2>. SUFFICES ASSUME intact, path # 0
                PROVE  /\ ~failed' /\ stream = path
                       /\ size = inodes[path].size
                       /\ \A d \in 1 .. Len(body') :
                            Copies(body'[d], last_served' + d, inodes[path])
    BY <1>2, <1>3, <1>6 DEF Untouched, InCall, Opened, Sized, Over, Answered
  <2>1. stream = path /\ ~failed /\ size = inodes[path].size
    BY <1>2 DEF Untouched, Opened, Sized
  <2>2. Copies(b, 1, inodes[path])
    BY <1>4, <1>5, <1>10, <2>1 DEF Copies
  <2>3. ~failed'
    <3>1. ~(size > inodes[stream].size)
      BY <1>4, <2>1
    <3>. QED
      BY <1>2, <2>1, <3>1 DEF FailsAt
  <2>4. \A d \in 1 .. Len(body') : Copies(body'[d], last_served' + d, inodes[path])
    BY <1>2, <1>3, <1>6, <2>2
  <2>. QED
    BY <2>1, <2>3, <2>4
<1>13. EndsAtItsSize'
  BY <1>2 DEF EndsAtItsSize
<1>. QED
  BY <1>8, <1>9, <1>11, <1>12, <1>13

LEMMA ReadChunkKeeps ==
    ASSUME IInv, ReadChunk
    PROVE  IInv'
<1>. USE DEF IInv
<1>1. PICK begin, end, b : /\ begin = number * ChunkSize /\ end = ChunkEnd(begin)
                           /\ b = Bytes(begin, end)
  OBVIOUS
<1>2. /\ pc = "read" /\ kind = "big"
      /\ UNCHANGED <<fileVars, kind, stream, size, respVars>>
      /\ IF begin >= size
         THEN pc' = "return" /\ UNCHANGED <<failed, number, body>>
         ELSE /\ body' = Append(body, b)
              /\ failed' = FailsAt(end)
              /\ number' = number + 1
              /\ pc' = IF CallEnds(number + 1) THEN "return" ELSE "read"
  BY <1>1 DEF ReadChunk
<1>. USE DEF fileVars, respVars
<1>3. /\ number \in Nat /\ size \in Nat /\ ChunkSize \in Nat \ {0} /\ last_served \in Nat
      /\ last_served % 2 = 0 /\ begin \in Nat
  <2>1. number \in Nat /\ size \in Nat /\ ChunkSize \in Nat \ {0} /\ last_served \in Nat
        /\ last_served % 2 = 0
    BY SizesAssumption, ChunksOfASize DEF Typed, TypeOK, Sizes
  <2>. QED
    BY <1>1, <2>1
<1>4. /\ number = last_served + Len(body) /\ Len(body) <= 1 /\ Len(body) \in Nat
      /\ stream = 0 => failed
      /\ ~Over /\ InCall /\ Opened /\ Sized
  BY <1>2, ChunkTypes DEF Read, Opened, Answered, InCall, Over, Sized
<1>5. CASE begin >= size
  <2>1. pc' = "return" /\ UNCHANGED <<failed, number, body>>
    BY <1>2, <1>5
  <2>2. Typed'
    BY <1>2, <2>1 DEF Typed, TypeOK
  <2>3. Answered'
    BY <1>2, <2>1 DEF Answered, InCall, Placed
  <2>4. Read'
    BY <1>1, <1>2, <1>4, <1>5, <2>1 DEF Read, Opened, Placed
  <2>5. Untouched'
    BY <1>2, <1>4, <2>1 DEF Untouched, InCall, Opened, Sized, Over, Copies
  <2>6. EndsAtItsSize'
    BY <2>1 DEF EndsAtItsSize
  <2>. QED
    BY <2>2, <2>3, <2>4, <2>5, <2>6
<1>6. CASE begin < size
  <2>1. /\ body' = Append(body, b) /\ failed' = FailsAt(end) /\ number' = number + 1
        /\ pc' \in {"return", "read"}
        /\ pc' = IF CallEnds(number + 1) THEN "return" ELSE "read"
    BY <1>2, <1>3, <1>6
  <2>2. end \in Nat /\ begin <= end /\ end - begin = Lesser(ChunkSize, size - begin)
        /\ end <= size
    BY <1>1, <1>3, <1>6 DEF ChunkEnd, Lesser
  <2>3. /\ b \in Seq(Nat \X Nat) /\ Len(b) = end - begin
        /\ \A k \in 1 .. end - begin :
             /\ b[k] # Zero => b[k][2] = begin + k
             /\ (~failed /\ stream # 0 /\ end <= inodes[stream].size) =>
                  b[k] = <<inodes[stream].version, begin + k>>
    <3>1. Typed /\ (stream = 0 => failed)
      BY <1>4
    <3>2. /\ Bytes(begin, end) \in Seq(Nat \X Nat)
          /\ Len(Bytes(begin, end)) = end - begin
          /\ \A k \in 1 .. end - begin :
               /\ Bytes(begin, end)[k] # Zero => Bytes(begin, end)[k][2] = begin + k
               /\ (~failed /\ stream # 0 /\ end <= inodes[stream].size) =>
                    Bytes(begin, end)[k] = <<inodes[stream].version, begin + k>>
      BY <1>3, <2>2, <3>1, BytesRead
    <3>. QED
      BY <1>1, <3>2
  <2>4. /\ body' \in Chunks /\ Len(body') = Len(body) + 1
        /\ \A d \in 1 .. Len(body) : body'[d] = body[d]
        /\ body'[Len(body) + 1] = b
    BY <2>1, <2>3, OneMoreChunk DEF Typed
  <2>5. ASSUME NEW d \in 1 .. Len(body'), d \notin 1 .. Len(body)
        PROVE  /\ d = Len(body) + 1 /\ body'[d] = b
               /\ last_served + d = number + 1 /\ last_served + d - 1 = number
    BY <1>3, <1>4, <2>4, <2>5
  <2>6. \A k \in 1 .. Len(b) : Offset(number + 1, k) = begin + k
    BY <1>1, <1>3, <2>2, <2>3, OffsetOf
  <2>7. Typed'
    <3>1. failed' \in BOOLEAN
      BY <2>1 DEF FailsAt, Typed, TypeOK
    <3>. QED
      BY <1>2, <1>3, <2>1, <2>4, <3>1 DEF Typed, TypeOK
  <2>8. Answered'
    BY <1>2, <2>1 DEF Answered, InCall, Placed
  <2>9. Placed(b, number + 1)
    BY <2>3, <2>6 DEF Placed
  <2>10. \A d \in 1 .. Len(body') : Placed(body'[d], last_served + d)
    <3>. TAKE d \in 1 .. Len(body')
    <3>1. CASE d \in 1 .. Len(body)
      BY <1>4, <2>4, <3>1 DEF Read
    <3>2. CASE d \notin 1 .. Len(body)
      BY <2>5, <2>9, <3>2
    <3>. QED
      BY <3>1, <3>2
  <2>11. \A d \in 1 .. Len(body') :
           /\ (last_served + d - 1) * ChunkSize < size
           /\ Len(body'[d]) = Lesser(ChunkSize, size - (last_served + d - 1) * ChunkSize)
    <3>. TAKE d \in 1 .. Len(body')
    <3>1. CASE d \in 1 .. Len(body)
      BY <1>2, <1>4, <2>4, <3>1 DEF Read
    <3>2. CASE d \notin 1 .. Len(body)
      BY <1>1, <1>6, <2>2, <2>3, <2>5, <3>2
    <3>. QED
      BY <3>1, <3>2
  <2>12. Read'
    <3>1. number' = last_served + Len(body')
      BY <1>3, <1>4, <2>1, <2>4
    <3>2. pc' = "return" => Len(body') = 2
      BY <1>3, <1>4, <2>1, <2>4, <3>1 DEF CallEnds
    <3>3. pc' = "read" => Len(body') <= 1
      BY <1>3, <1>4, <2>1, <2>4, <3>1 DEF CallEnds
    <3>4. stream = 0 => failed'
      BY <1>4, <2>1 DEF FailsAt
    <3>. QED
      BY <1>2, <2>1, <2>10, <2>11, <3>1, <3>2, <3>3, <3>4 DEF Read, Opened
  <2>13. Untouched'
    <3>. SUFFICES ASSUME intact, path # 0
                  PROVE  /\ ~failed'
                         /\ \A d \in 1 .. Len(body') :
                              Copies(body'[d], last_served + d, inodes[path])
      BY <1>2, <1>4, <2>1 DEF Untouched, InCall, Opened, Sized, Over
    <3>1. stream = path /\ ~failed /\ size = inodes[path].size
      BY <1>4 DEF Untouched
    <3>2. ~failed'
      <4>1. ~(end > inodes[stream].size)
        BY <1>3, <2>2, <3>1
      <4>. QED
        BY <2>1, <3>1, <4>1 DEF FailsAt
    <3>3. Copies(b, number + 1, inodes[path])
      BY <2>2, <2>3, <2>6, <3>1 DEF Copies
    <3>4. ASSUME NEW d \in 1 .. Len(body')
          PROVE  Copies(body'[d], last_served + d, inodes[path])
      <4>1. CASE d \in 1 .. Len(body)
        BY <1>4, <2>4, <4>1 DEF Untouched
      <4>2. CASE d \notin 1 .. Len(body)
        BY <2>5, <3>3, <4>2
      <4>. QED
        BY <4>1, <4>2
    <3>. QED
      BY <3>2, <3>4
  <2>14. EndsAtItsSize'
    BY <2>1 DEF EndsAtItsSize
  <2>. QED
    BY <2>7, <2>8, <2>12, <2>13, <2>14
<1>. QED
  BY <1>3, <1>5, <1>6

\* What a call answers with follows what was answered before.
LEMMA Joined ==
    ASSUME IInv, Return
    PROVE  /\ response' \in Chunks /\ Len(response') = Len(response) + Len(body)
           /\ \A c \in 1 .. Len(response') :
                \/ c \in 1 .. Len(response) /\ response'[c] = response[c]
                \/ \E d \in 1 .. Len(body) :
                     c = last_served + d /\ response'[c] = body[d]
           /\ \A c \in 1 .. Len(response') : Placed(response'[c], c)
           /\ (intact /\ path # 0) =>
                \A c \in 1 .. Len(response') : Copies(response'[c], c, inodes[path])
<1>. USE DEF IInv
<1>1. /\ response \in Chunks /\ body \in Chunks /\ response' = response \o body
      /\ Len(response) \in Nat /\ Len(body) \in Nat
  BY ChunkTypes DEF Typed, Return
<1>2. last_served = Len(response) /\ Opened
  BY DEF Return, Answered, InCall, Opened
<1>3. PICK rs : rs = response'
  OBVIOUS
<1>4. /\ rs \in Chunks /\ Len(rs) = Len(response) + Len(body)
      /\ \A c \in 1 .. Len(response) : rs[c] = response[c]
      /\ \A d \in 1 .. Len(body) : rs[Len(response) + d] = body[d]
  BY <1>1, <1>3, ChunksJoined
<1>5. ASSUME NEW c \in 1 .. Len(rs)
      PROVE  \/ c \in 1 .. Len(response) /\ rs[c] = response[c]
             \/ \E d \in 1 .. Len(body) : c = last_served + d /\ rs[c] = body[d]
  <2>1. CASE c \in 1 .. Len(response)
    BY <1>4, <2>1
  <2>2. CASE c \notin 1 .. Len(response)
    <3>1. c - Len(response) \in 1 .. Len(body) /\ c = Len(response) + (c - Len(response))
      BY <1>1, <1>4, <2>2
    <3>. QED
      BY <1>2, <1>4, <3>1
  <2>. QED
    BY <2>1, <2>2
<1>6. ASSUME NEW c \in 1 .. Len(rs)
      PROVE  Placed(rs[c], c)
  BY <1>2, <1>5 DEF Answered, Read
<1>7. ASSUME intact, path # 0, NEW c \in 1 .. Len(rs)
      PROVE  Copies(rs[c], c, inodes[path])
  BY <1>2, <1>5, <1>7 DEF Untouched
<1>. QED
  BY <1>3, <1>4, <1>5, <1>6, <1>7

\* Where the big handler has come when a call of it returns: n chunks, of which only the
\* last may be short, and then it ends where the file does.
LEMMA BigReturns ==
    ASSUME IInv, Return, kind = "big"
    PROVE  /\ number \in Nat /\ Len(response') = number
           /\ \A c \in 1 .. number : c < number => Len(response'[c]) = ChunkSize
           /\ body # << >> => /\ number # 0
                              /\ (number - 1) * ChunkSize < size
                              /\ Len(response'[number])
                                   = Lesser(ChunkSize, size - (number - 1) * ChunkSize)
           /\ body = << >> => /\ number = last_served /\ number * ChunkSize >= size
                              /\ \A c \in 1 .. number : Len(response'[c]) = ChunkSize
           /\ Len(body) = 2 \/ number * ChunkSize >= size
<1>. USE DEF IInv
<1>1. /\ Opened /\ pc = "return" /\ last_served = Len(response)
      /\ \A c \in 1 .. Len(response) : Len(response[c]) = ChunkSize
  BY DEF Return, Opened, Answered, InCall
<1>2. /\ number = last_served + Len(body)
      /\ Len(body) <= 2
      /\ Len(body) = 2 \/ number * ChunkSize >= size
      /\ \A d \in 1 .. Len(body) :
           /\ (last_served + d - 1) * ChunkSize < size
           /\ Len(body[d]) = Lesser(ChunkSize, size - (last_served + d - 1) * ChunkSize)
  BY <1>1 DEF Read
<1>3. /\ last_served \in Nat /\ Len(body) \in Nat /\ number \in Nat
      /\ size \in Nat /\ ChunkSize \in Nat \ {0}
  BY <1>1, ChunkTypes, SizesAssumption DEF Typed, TypeOK, Sizes
<1>4. Len(response') = number
  BY <1>1, <1>2, Joined
<1>5. ASSUME NEW c \in 1 .. number, c < number
      PROVE  Len(response'[c]) = ChunkSize
  <2>1. CASE c \in 1 .. Len(response) /\ response'[c] = response[c]
    BY <1>1, <2>1
  <2>2. CASE \E d \in 1 .. Len(body) : c = last_served + d /\ response'[c] = body[d]
    <3>1. PICK d \in 1 .. Len(body) : c = last_served + d /\ response'[c] = body[d]
      BY <2>2
    <3>2. d = 1 /\ 2 \in 1 .. Len(body)
      <4>1. Len(body) <= 2 /\ number = last_served + Len(body)
        BY <1>2
      <4>. QED
        BY <1>3, <1>5, <3>1, <4>1
    <3>3. PICK l \in Nat : l = last_served
      BY <1>3
    <3>4. l + 1 - 1 = l /\ l + 2 - 1 = l + 1
      OBVIOUS
    <3>5. (l + 1) * ChunkSize < size /\ Len(body[1]) = Lesser(ChunkSize, size - l * ChunkSize)
      BY <1>2, <3>1, <3>2, <3>3, <3>4
    <3>6. (l + 1) * ChunkSize = l * ChunkSize + ChunkSize /\ l * ChunkSize \in Int
      BY <1>3, Times
    <3>7. Lesser(ChunkSize, size - l * ChunkSize) = ChunkSize
      BY <1>3, <3>5, <3>6 DEF Lesser
    <3>. QED
      BY <3>1, <3>2, <3>5, <3>7
  <2>. QED
    BY <1>4, <1>5, <2>1, <2>2, Joined
<1>6. ASSUME body # << >>
      PROVE  /\ number # 0
             /\ (number - 1) * ChunkSize < size
             /\ Len(response'[number]) = Lesser(ChunkSize, size - (number - 1) * ChunkSize)
  <2>1. Len(body) # 0
    BY <1>6, EmptySeq DEF Typed, Chunks
  <2>2. number \in 1 .. Len(response') /\ Len(body) \in 1 .. Len(body)
    BY <1>2, <1>3, <1>4, <2>1
  <2>3. response'[number] = body[Len(body)]
    <3>1. ~(number \in 1 .. Len(response))
      BY <1>1, <1>2, <1>3, <2>1
    <3>2. PICK d \in 1 .. Len(body) : number = last_served + d /\ response'[number] = body[d]
      BY <2>2, <3>1, Joined
    <3>. QED
      BY <1>2, <1>3, <3>2
  <2>4. last_served + Len(body) - 1 = number - 1
    <3>1. number = last_served + Len(body)
      BY <1>2
    <3>. QED
      BY <1>3, <3>1
  <2>. QED
    BY <1>2, <2>2, <2>3, <2>4
<1>7. ASSUME body = << >>
      PROVE  /\ number = last_served /\ number * ChunkSize >= size
             /\ \A c \in 1 .. number : Len(response'[c]) = ChunkSize
  <2>1. Len(body) = 0
    BY <1>7
  <2>2. number = last_served /\ number * ChunkSize >= size
    BY <1>2, <1>3, <2>1
  <2>. QED
    BY <1>1, <1>4, <2>1, <2>2, Joined
<1>. QED
  BY <1>2, <1>3, <1>4, <1>5, <1>6, <1>7

LEMMA ReturnKeeps ==
    ASSUME IInv, Return
    PROVE  IInv'
<1>. USE DEF IInv
<1>. DEFINE over == kind = "small" \/ number = ExpectedChunks(size)
<1>1. /\ pc = "return" /\ pc' = "idle" /\ UNCHANGED <<fileVars, callVars, intact, requests>>
      /\ result' = IF over THEN "FINISHED_NO_WAIT" ELSE "RECALL"
      /\ last_served' = IF kind = "small" THEN last_served ELSE IF over THEN 0 ELSE number
  BY DEF Return, Noted
<1>. USE DEF fileVars, callVars
<1>2. PICK rs : rs = response'
  OBVIOUS
<1>3. /\ rs \in Chunks /\ Len(rs) = Len(response) + Len(body) /\ Len(rs) \in Nat
      /\ DOMAIN rs = 1 .. Len(rs)
      /\ \A c \in 1 .. Len(rs) : Placed(rs[c], c)
      /\ (intact /\ path # 0) => \A c \in 1 .. Len(rs) : Copies(rs[c], c, inodes[path])
  BY <1>2, Joined, LenProperties DEF Chunks
<1>4. /\ Opened /\ Sized /\ InCall /\ kind \in {"small", "big"}
      /\ last_served = Len(response) /\ last_served \in Nat /\ last_served % 2 = 0
      /\ Len(body) \in Nat /\ size \in Nat /\ size <= MaxSize
      /\ ChunkSize \in Nat \ {0}
  <2>1. Opened /\ Sized /\ InCall
    BY <1>1 DEF Opened, Sized, InCall
  <2>2. last_served \in Nat /\ last_served % 2 = 0 /\ Len(body) \in Nat
    BY ChunkTypes, ChunksOfASize, SizesAssumption DEF Typed, TypeOK
  <2>. QED
    BY <2>1, <2>2, SizesAssumption DEF Typed, TypeOK, Sizes, Answered
<1>5. Served' = IF rs = << >> THEN 0 ELSE Offset(Len(rs), Len(rs[Len(rs)]))
  BY <1>2 DEF Served, Last
<1>6. Read'
  BY <1>1 DEF Read, Opened
<1>7. CASE kind = "small"
  <2>1. response = << >> /\ Len(response) = 0 /\ last_served = 0
    BY <1>4, <1>7, EmptySeq DEF Answered
  <2>2. result' = "FINISHED_NO_WAIT" /\ last_served' = 0
    BY <1>1, <1>7, <2>1
  <2>3. /\ body = << >> \/ (Len(body) = 1 /\ Len(body[1]) = size)
        /\ body = << >> => Len(body) = 0
    BY <1>1, <1>4, <1>7 DEF Read
  <2>4. Len(rs) <= 1 /\ Len(rs) = Len(body)
    <3>1. Len(rs) = Len(body)
      BY <1>3, <1>4, <2>1
    <3>. QED
      BY <1>4, <2>3, <3>1
  <2>5. Typed'
    BY <1>1, <1>2, <1>3, <2>1, <2>2 DEF Typed, TypeOK
  <2>6. Answered'
    <3>1. Whole(rs)
      BY <1>3, <2>4 DEF Whole
    <3>. QED
      BY <1>1, <1>2, <1>3, <2>2, <3>1 DEF Answered, InCall
  <2>7. Untouched'
    <3>. SUFFICES ASSUME intact, path # 0
                  PROVE  /\ \A c \in 1 .. Len(rs) : Copies(rs[c], c, inodes[path])
                         /\ Served' = inodes[path].size
      BY <1>1, <1>2, <2>2 DEF Untouched, InCall, Opened, Sized, Over
    <3>1. Len(body) = 1 /\ size = inodes[path].size
      BY <1>1, <1>4, <1>7 DEF Untouched
    <3>2. Len(body[1]) = size
      BY <2>3, <3>1
    <3>3. Len(rs) = 1 /\ rs # << >>
      BY <2>4, <3>1
    <3>4. rs[1] = body[1]
      BY <1>2, <1>4, <2>1, <3>3, Joined
    <3>5. Served' = Offset(1, size)
      BY <1>5, <3>2, <3>3, <3>4
    <3>6. Offset(1, size) = size
      BY <1>4 DEF Offset
    <3>. QED
      BY <1>3, <3>1, <3>5, <3>6
  <2>8. EndsAtItsSize'
    BY <1>1, <1>7, <2>2 DEF EndsAtItsSize
  <2>. QED
    BY <1>6, <2>5, <2>6, <2>7, <2>8
<1>8. CASE kind = "big"
  <2>1. PICK n, e : n = number /\ e = ExpectedChunks(size)
    OBVIOUS
  <2>2. /\ n \in Nat /\ Len(rs) = n
        /\ \A c \in 1 .. n : c < n => Len(rs[c]) = ChunkSize
        /\ body # << >> => /\ n # 0
                           /\ (n - 1) * ChunkSize < size
                           /\ Len(rs[n]) = Lesser(ChunkSize, size - (n - 1) * ChunkSize)
        /\ body = << >> => /\ n = last_served /\ n * ChunkSize >= size
                           /\ \A c \in 1 .. n : Len(rs[c]) = ChunkSize
        /\ Len(body) = 2 \/ n * ChunkSize >= size
    BY <1>2, <1>8, <2>1, BigReturns
  <2>3. number = last_served + Len(body) /\ Len(body) <= 2
    BY <1>1, <1>4, <1>8 DEF Read
  <2>4. /\ e \in Nat /\ size <= e * ChunkSize
        /\ e # 0 => (e - 1) * ChunkSize < size
    BY <1>4, <2>1, ChunksOfASize
  <2>5. (n - 1) * ChunkSize = n * ChunkSize - ChunkSize /\ n * ChunkSize \in Int
    BY <1>4, <2>2
  <2>6. body # << >> /\ n * ChunkSize >= size => n = e
    BY <1>4, <2>1, <2>2, ChunksAreAll
  <2>7. body # << >> /\ n * ChunkSize < size => Len(rs[n]) = ChunkSize
    BY <1>4, <2>2, <2>5 DEF Lesser
  <2>8. Whole(rs)
    BY <1>3, <2>2 DEF Whole
  <2>9. rs # << >> => n # 0 /\ n \in 1 .. n
    BY <1>3, <2>2, EmptySeq DEF Chunks
  <2>10. CASE n = e
    <3>1. result' = "FINISHED_NO_WAIT" /\ last_served' = 0
      BY <1>1, <1>8, <2>1, <2>10
    <3>2. Typed'
      <4>1. ExpectedChunks(MaxSize) \in Nat
        BY ChunksOfASize, SizesAssumption
      <4>2. last_served' \in {k \in 0 .. ExpectedChunks(MaxSize) : k % 2 = 0}
        BY <3>1, <4>1
      <4>. QED
        BY <1>1, <1>2, <1>3, <3>1, <4>2 DEF Typed, TypeOK
    <3>3. Answered'
      BY <1>1, <1>2, <1>3, <2>8, <3>1 DEF Answered, InCall
    <3>4. rs # << >> => Served' = (n - 1) * ChunkSize + Len(rs[n])
      BY <1>5, <2>2 DEF Offset
    <3>5. body # << >> => Served' = size
      <4>. HAVE body # << >>
      <4>1. rs # << >>
        BY <2>2, EmptySeq
      <4>2. Len(rs[n]) = size - (n - 1) * ChunkSize
        <5>1. size <= n * ChunkSize
          BY <2>4, <2>10
        <5>2. PICK m \in Int : m = (n - 1) * ChunkSize
          BY <1>4, <2>5
        <5>3. size - m <= ChunkSize
          BY <1>4, <2>5, <5>1, <5>2
        <5>4. Lesser(ChunkSize, size - m) = size - m
          BY <1>4, <5>3 DEF Lesser
        <5>. QED
          BY <2>2, <5>2, <5>4
      <4>. QED
        BY <1>4, <2>5, <3>4, <4>1, <4>2
    <3>6. (intact /\ path # 0 /\ body = << >>) => rs = << >> /\ size = 0 /\ size = inodes[path].size
      <4>. HAVE intact /\ path # 0 /\ body = << >>
      <4>1. size = inodes[path].size
        BY <1>4 DEF Untouched
      <4>2. response = << >>
        <5>1. response # << >> => Len(response) * ChunkSize < size
          BY <1>4, <4>1 DEF Untouched
        <5>2. ~(Len(response) * ChunkSize < size)
          BY <1>4, <2>2, <2>5
        <5>. QED
          BY <5>1, <5>2
      <4>3. n = 0
        BY <1>4, <2>2, <4>2, EmptySeq
      <4>4. rs = << >> /\ size = 0
        BY <1>4, <2>2, <2>4, <2>9, <2>10, <4>3
      <4>. QED
        BY <4>1, <4>4
    <3>7. Untouched'
      <4>. SUFFICES ASSUME intact, path # 0
                    PROVE  /\ \A c \in 1 .. Len(rs) : Copies(rs[c], c, inodes[path])
                           /\ Served' = inodes[path].size
        BY <1>1, <1>2, <3>1 DEF Untouched, InCall, Opened, Sized, Over
      <4>1. size = inodes[path].size
        BY <1>4 DEF Untouched
      <4>2. CASE body # << >>
        BY <1>3, <3>5, <4>1, <4>2
      <4>3. CASE body = << >>
        BY <1>3, <1>5, <3>6, <4>3
      <4>. QED
        BY <4>2, <4>3
    <3>8. EndsAtItsSize'
      <4>. SUFFICES ASSUME rs # << >>
                    PROVE  Served' = size \/ (Len(rs[n]) = ChunkSize /\ ~intact)
        BY <1>1, <1>2, <2>1, <2>2, <2>10, <3>1 DEF EndsAtItsSize, Last
      <4>1. CASE body # << >>
        BY <3>5, <4>1
      <4>2. CASE body = << >>
        <5>1. Len(rs[n]) = ChunkSize
          BY <2>2, <2>9, <4>2
        <5>2. (intact /\ kind = "big") => path # 0
          BY <1>4 DEF Untouched
        <5>. QED
          BY <1>8, <3>6, <4>2, <5>1, <5>2
      <4>. QED
        BY <4>1, <4>2
    <3>. QED
      BY <1>6, <3>2, <3>3, <3>7, <3>8
  <2>11. CASE n # e
    <3>1. result' = "RECALL" /\ last_served' = n
      BY <1>1, <1>8, <2>1, <2>11
    <3>2. body # << >> => n * ChunkSize < size /\ Len(body) = 2
      BY <1>4, <2>2, <2>5, <2>6, <2>11
    <3>3. \A c \in 1 .. n : Len(rs[c]) = ChunkSize
      <4>. TAKE c \in 1 .. n
      <4>1. CASE body = << >>
        BY <2>2, <4>1
      <4>2. CASE body # << >>
        <5>1. CASE c < n
          BY <2>2, <5>1
        <5>2. CASE c = n
          BY <2>7, <3>2, <4>2, <5>2
        <5>. QED
          BY <2>2, <5>1, <5>2
      <4>. QED
        BY <4>1, <4>2
    <3>4. n % 2 = 0 /\ n <= ExpectedChunks(MaxSize)
      <4>1. ExpectedChunks(MaxSize) \in Nat /\ last_served <= ExpectedChunks(MaxSize)
        BY ChunksOfASize, SizesAssumption DEF Typed, TypeOK
      <4>2. CASE body = << >>
        BY <1>4, <2>2, <4>1, <4>2
      <4>3. CASE body # << >>
        <5>1. n = last_served + 2
          BY <2>1, <2>3, <3>2, <4>3
        <5>2. n <= ExpectedChunks(MaxSize)
          BY <1>4, <2>2, <4>3, ChunksWithin, SizesAssumption
        <5>. QED
          BY <1>4, <5>1, <5>2
      <4>. QED
        BY <4>2, <4>3
    <3>5. Typed'
      BY <1>1, <1>2, <1>3, <2>2, <3>1, <3>4 DEF Typed, TypeOK
    <3>6. Answered'
      BY <1>1, <1>2, <1>3, <1>8, <2>2, <2>8, <3>1, <3>3 DEF Answered, InCall
    <3>7. Untouched'
      <4>. SUFFICES ASSUME intact, path # 0
                    PROVE  /\ \A c \in 1 .. Len(rs) : Copies(rs[c], c, inodes[path])
                           /\ n * ChunkSize < inodes[path].size
        BY <1>1, <1>2, <2>2, <3>1 DEF Untouched, InCall, Opened, Sized, Over
      <4>1. size = inodes[path].size
        BY <1>4 DEF Untouched
      <4>2. CASE body # << >>
        BY <1>3, <3>2, <4>1, <4>2
      <4>3. CASE body = << >>
        <5>1. n = last_served /\ n * ChunkSize >= size
          BY <2>2, <4>3
        <5>2. response # << >> => Len(response) * ChunkSize < size
          BY <1>4, <4>1 DEF Untouched
        <5>3. response = << >>
          BY <1>4, <2>5, <5>1, <5>2
        <5>4. n = 0
          BY <1>4, <5>1, <5>3, EmptySeq
        <5>5. size = 0 /\ e = 0
          BY <1>4, <2>1, <5>1, <5>4, ChunksAreAll
        <5>. QED
          BY <2>11, <5>4, <5>5
      <4>. QED
        BY <4>2, <4>3
    <3>8. EndsAtItsSize'
      BY <1>1, <1>2, <1>3, <2>2, <3>1, <3>3 DEF EndsAtItsSize
    <3>. QED
      BY <1>6, <3>5, <3>6, <3>7, <3>8
  <2>. QED
    BY <2>10, <2>11
<1>. QED
  BY <1>4, <1>7, <1>8

\* Once another process has changed the file, nothing is said of its contents any more.
LEMMA FileChangesKeep ==
    ASSUME IInv, Changed, stream \in 0 .. Len(inodes'), path' \in 0 .. Len(inodes'),
           inodes' \in Seq([version : 1 .. MaxChanges + 1, size : Sizes])
    PROVE  IInv'
<1>. USE DEF IInv, Changed, callVars
<1>1. Typed'
  <2>1. changes' \in 0 .. MaxChanges /\ intact' \in BOOLEAN
    <3>1. changes \in 0 .. MaxChanges /\ changes < MaxChanges /\ changes' = changes + 1
      BY DEF Typed
    <3>2. changes + 1 \in 0 .. MaxChanges
      BY <3>1, SizesAssumption
    <3>. QED
      BY <3>1, <3>2
  <2>2. body' \in Chunks /\ response' \in Chunks
    BY DEF Typed
  <2>3. TypeOK'
    BY <2>1 DEF Typed, TypeOK
  <2>. QED
    BY <2>1, <2>2, <2>3 DEF Typed
<1>2. Answered'
  BY DEF Answered, InCall, Placed
<1>3. Read'
  BY DEF Read, Opened, Placed
<1>4. Untouched'
  BY DEF Untouched
<1>5. EndsAtItsSize'
  BY DEF EndsAtItsSize, Served
<1>. QED
  BY <1>1, <1>2, <1>3, <1>4, <1>5

LEMMA StepHolds == IInv /\ [Next]_vars => IInv'
<1>. SUFFICES ASSUME IInv, [Next]_vars PROVE IInv'
  OBVIOUS
<1>. DEFINE Inode == [version : 1 .. MaxChanges + 1, size : Sizes]
<1>1. /\ inodes \in Seq(Inode) /\ Len(inodes) \in Nat
      /\ path \in 0 .. Len(inodes) /\ stream \in 0 .. Len(inodes)
      /\ changes \in 0 .. MaxChanges
  BY LenProperties DEF IInv, Typed, TypeOK
<1>2. ASSUME NEW n \in Sizes, Changed PROVE File(n) \in Inode
  BY <1>1, <1>2, SizesAssumption DEF Changed, File
<1>3. ASSUME NEW n \in Sizes, Rewrite(n) PROVE IInv'
  <2>1. Changed /\ path # 0 /\ path' = path /\ inodes' = [inodes EXCEPT ![path] = File(n)]
    BY <1>3 DEF Rewrite
  <2>2. path \in 1 .. Len(inodes) /\ File(n) \in Inode
    BY <1>1, <1>2, <2>1
  <2>3. inodes' \in Seq(Inode) /\ Len(inodes') = Len(inodes)
    BY <1>1, <2>1, <2>2, ExceptSeq
  <2>. QED
    BY <1>1, <2>1, <2>3, FileChangesKeep
<1>4. ASSUME NEW n \in Sizes, Replace(n) PROVE IInv'
  <2>1. Changed /\ inodes' = Append(inodes, File(n)) /\ path' = Len(inodes) + 1
    BY <1>4 DEF Replace
  <2>2. inodes' \in Seq(Inode) /\ Len(inodes') = Len(inodes) + 1
    BY <1>1, <1>2, <2>1, AppendProperties
  <2>3. path' \in 0 .. Len(inodes') /\ stream \in 0 .. Len(inodes')
    BY <1>1, <2>1, <2>2
  <2>. QED
    BY <2>1, <2>2, <2>3, FileChangesKeep
<1>5. ASSUME RemoveFile PROVE IInv'
  <2>1. Changed /\ path' = 0 /\ inodes' = inodes
    BY <1>5 DEF RemoveFile
  <2>. QED
    BY <1>1, <2>1, FileChangesKeep
<1>6. CASE UNCHANGED vars
  <2>. USE <1>6 DEF IInv, vars, fileVars, callVars, respVars
  <2>1. Typed'
    BY DEF Typed, TypeOK
  <2>2. Answered' /\ Read'
    BY DEF Answered, Read, InCall, Opened, Placed
  <2>3. Untouched'
    BY DEF Untouched, InCall, Opened, Sized, Over, Copies, Served
  <2>4. EndsAtItsSize'
    BY DEF EndsAtItsSize, Served
  <2>. QED
    BY <2>1, <2>2, <2>3, <2>4
<1>. QED
  BY <1>3, <1>4, <1>5, <1>6, RequestKeeps, CallAgainKeeps, OpenKeeps, AskSizeKeeps,
     ReadAllKeeps, ReadChunkKeeps, ReturnKeeps DEF Next, Handler

LEMMA Always == Spec => []IInv
BY InitHolds, StepHolds, PTL DEF Spec

-----------------------------------------------------------------------------
(* The theorems *)

\* The types; and a response is interrupted after an even number of chunks only, never
\* after more than the largest file has.
THEOREM StaticFilesTyped == Spec => []TypeOK
<1>1. IInv => TypeOK
  BY DEF IInv, Typed
<1>. QED
  BY <1>1, Always, PTL

\* Whatever other processes do to the file, the chunks of a response follow each other.
THEOREM ChunksFollowEachOther == Spec => []BytesInPlace
<1>1. IInv => BytesInPlace
  <2>. SUFFICES ASSUME IInv PROVE BytesInPlace
    OBVIOUS
  <2>. QED
    BY ChunkTypes DEF IInv, Answered, Placed, BytesInPlace
<1>. QED
  BY <1>1, Always, PTL

\* A file nobody touches is served as it is, however many calls that takes.
THEOREM UntouchedFileServedWhole == Spec => []WholeFileIfIntact
<1>1. IInv => WholeFileIfIntact
  <2>. SUFFICES ASSUME IInv, intact, path # 0
                PROVE  /\ Whole(response)
                       /\ \A c \in DOMAIN response : \A k \in DOMAIN response[c] :
                            response[c][k] = <<inodes[path].version, Offset(c, k)>>
                       /\ Served <= inodes[path].size
                       /\ result = "FINISHED_NO_WAIT" => Served = inodes[path].size
    BY DEF WholeFileIfIntact
  <2>1. Typed /\ Answered /\ Untouched
    BY DEF IInv
  <2>2. Whole(response)
    BY <2>1 DEF Answered
  <2>3. \A c \in DOMAIN response : \A k \in DOMAIN response[c] :
          response[c][k] = <<inodes[path].version, Offset(c, k)>>
    BY <2>1, ChunkTypes DEF Untouched, Copies
  <2>4. result = "FINISHED_NO_WAIT" => Served = inodes[path].size
    BY <2>1 DEF Untouched, Over
  <2>5. inodes[path].size \in Nat
    BY <2>1, FileTypes, SizesAssumption DEF Sizes
  <2>6. Served <= inodes[path].size
    <3>1. CASE Over
      BY <2>4, <2>5, <3>1 DEF Over
    <3>2. CASE ~Over /\ response = << >>
      BY <2>5, <3>2 DEF Served
    <3>3. CASE ~Over /\ response # << >>
      <4>1. result = "RECALL"
        BY <2>1, <3>3 DEF Answered, Over, Typed, TypeOK
      <4>2. Len(response) \in Nat \ {0} /\ ChunkSize \in Nat
        BY <2>1, <3>3, EmptySeq, SizesAssumption DEF Typed, Chunks
      <4>3. Len(response[Len(response)]) = ChunkSize
        BY <2>1, <4>1, <4>2 DEF Answered
      <4>4. Served = (Len(response) - 1) * ChunkSize + ChunkSize
        BY <3>3, <4>3 DEF Served, Offset, Last
      <4>5. (Len(response) - 1) * ChunkSize + ChunkSize = Len(response) * ChunkSize
        BY <4>2
      <4>6. Len(response) * ChunkSize < inodes[path].size
        BY <2>1, <3>3, <4>1 DEF Untouched
      <4>. QED
        BY <2>5, <4>2, <4>4, <4>5, <4>6
    <3>. QED
      BY <3>1, <3>2, <3>3
  <2>. QED
    BY <2>2, <2>3, <2>4, <2>6
<1>. QED
  BY <1>1, Always, PTL

\* A response ends with as many bytes as the file had when the call that ended it asked,
\* and is interrupted at the end of a chunk only.
THEOREM ResponseEndsAtItsSize == Spec => []EndsAtItsSize
<1>1. IInv => EndsAtItsSize
  BY DEF IInv
<1>. QED
  BY <1>1, Always, PTL

\* Each call on an untouched file does what HttpHandler says of a chunked route: the same
\* result, the same chunk to go on from, and the chunks in between.
THEOREM CallsAgreeWithHttpHandler == Spec => CallsAsInHttpHandler
<1>. DEFINE said == Http!Routed(size, last_served)
            Asked == pc = "return" /\ kind = "big" /\ intact /\ intact'
<1>1. ASSUME IInv, Next, Asked
      PROVE  /\ result' = said.result
             /\ last_served' = said.chunk
             /\ [k \in DOMAIN body |-> <<size, Len(response) + k>>] = said.body
  <2>. USE DEF IInv
  <2>1. Return
    BY <1>1 DEF Next, Handler, Request, CallAgain, Open, AskSize, ReadAll, ReadChunk,
                Rewrite, Replace, RemoveFile, Changed
  <2>2. PICK n, e, l : n = number /\ e = ExpectedChunks(size) /\ l = last_served
    OBVIOUS
  <2>3. /\ Opened /\ Sized /\ InCall /\ l = Len(response) /\ l \in Nat /\ l % 2 = 0
        /\ Len(body) \in Nat /\ DOMAIN body = 1 .. Len(body)
        /\ size \in Sizes /\ size \in Nat /\ ChunkSize \in Nat \ {0}
    <3>1. Opened /\ Sized /\ InCall
      BY <1>1 DEF Opened, Sized, InCall
    <3>2. ChunkSize \in Nat \ {0} /\ MaxSize \in Nat /\ ExpectedChunks(MaxSize) \in Nat
      BY ChunksOfASize, SizesAssumption
    <3>3. l = Len(response)
      BY <1>1, <2>2, <3>1 DEF Answered
    <3>4. l \in Nat /\ l % 2 = 0
      BY <1>1, <2>2, <3>2 DEF Typed, TypeOK
    <3>5. size \in Sizes /\ size \in Nat
      BY <1>1, <3>2 DEF Typed, TypeOK, Sizes
    <3>. QED
      BY <1>1, <3>1, <3>2, <3>3, <3>4, <3>5, ChunkTypes
  <2>4. n = l + Len(body) /\ Len(body) <= 2
    BY <1>1, <2>2, <2>3 DEF Read
  <2>5. /\ n \in Nat
        /\ body # << >> => n # 0 /\ (n - 1) * ChunkSize < size
        /\ body = << >> => n = l /\ n * ChunkSize >= size
        /\ Len(body) = 2 \/ n * ChunkSize >= size
    BY <1>1, <2>1, <2>2, BigReturns
  <2>6. e \in Nat
    BY <2>2, <2>3, ChunksOfASize
  <2>7. n * ChunkSize \in Int
    BY <2>3, <2>5
  <2>8. body # << >> /\ n * ChunkSize >= size => n = e
    BY <2>2, <2>3, <2>5, ChunksAreAll
  <2>9. body # << >> => n <= e
    BY <2>2, <2>3, <2>5, ChunksWithin
  <2>10. body = << >> => n = e
    <3>. HAVE body = << >>
    <3>1. path # 0 /\ size = inodes[path].size
      BY <1>1, <2>3 DEF Untouched
    <3>2. response # << >> => Len(response) * ChunkSize < size
      BY <1>1, <2>3, <3>1 DEF Untouched
    <3>3. response = << >>
      BY <2>3, <2>5, <2>7, <3>2
    <3>4. n = 0
      BY <2>3, <2>5, <3>3, EmptySeq
    <3>. QED
      BY <2>2, <2>3, <2>5, <3>4, ChunksAreAll
  <2>11. n = IF l + 2 < e THEN l + 2 ELSE e
    <3>1. CASE Len(body) = 2
      <4>1. body # << >>
        BY <3>1, EmptySeq
      <4>. QED
        BY <2>3, <2>4, <2>6, <2>9, <3>1, <4>1
    <3>2. CASE Len(body) # 2
      <4>1. n = e
        BY <2>5, <2>8, <2>10, <3>2
      <4>. QED
        BY <2>3, <2>4, <2>6, <4>1
    <3>. QED
      BY <3>1, <3>2
  <2>12. Http!ChunksServed(size, l) = n
    <3>1. l + 2 - (l % 2) = l + 2
      BY <2>3
    <3>. QED
      BY <2>2, <2>3, <2>11, <3>1 DEF Http!ChunksServed
  <2>13. said = [result |-> IF n = e THEN "FINISHED_NO_WAIT" ELSE "RECALL",
                 body   |-> [k \in 1 .. n - l |-> <<size, l + k>>],
                 chunk  |-> IF n = e THEN 0 ELSE n]
    BY <2>2, <2>3, <2>12 DEF Http!Routed, Http!Body
  <2>14. /\ result' = IF n = e THEN "FINISHED_NO_WAIT" ELSE "RECALL"
         /\ last_served' = IF n = e THEN 0 ELSE n
    BY <1>1, <2>1, <2>2 DEF Return, Noted
  <2>15. n - l = Len(body)
    BY <2>3, <2>4
  <2>. HIDE DEF said
  <2>. QED
    BY <2>3, <2>13, <2>14, <2>15
<1>2. ASSUME IInv, [Next]_vars
      PROVE  [Asked => /\ result' = said.result
                       /\ last_served' = said.chunk
                       /\ [k \in DOMAIN body |-> <<size, Len(response) + k>>] = said.body]_vars
  BY <1>1, <1>2
<1>3. CallsAsInHttpHandler <=>
        [][Asked => /\ result' = said.result
                    /\ last_served' = said.chunk
                    /\ [k \in DOMAIN body |-> <<size, Len(response) + k>>] = said.body]_vars
  BY DEF CallsAsInHttpHandler
<1>. QED
  BY <1>2, <1>3, Always, PTL DEF Spec
=============================================================================
