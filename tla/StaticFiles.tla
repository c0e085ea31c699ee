---------------------------- MODULE StaticFiles ----------------------------
(***************************************************************************)
(* How a router answers from files (src/src/http/router.cpp): the handler  *)
(* of serve_static, which reads a file in one go, and the one of           *)
(* serve_static_big, which serves two chunks a call and is called again    *)
(* (RECALL) until the file is served, opening it anew each time.  Between  *)
(* any two of their system calls another process may rewrite the file,     *)
(* put another one in its place or remove it.                              *)
(***************************************************************************)
EXTENDS Integers, SequencesExt

CONSTANTS
    ChunkSize,    \* bytes of a chunk, 300 KiB in router.cpp:166
    MaxSize,      \* bound: the size of the file
    MaxChanges,   \* bound: changes of the file
    MaxRequests   \* bound: requests for it

ASSUME SizesAssumption == ChunkSize \in Nat \ {0} /\ MaxSize \in Nat /\ MaxChanges \in Nat

VARIABLES
    inodes,      \* the files there have been: [version, size]
    path,        \* the inode the path names, 0 when there is none
    changes,     \* changes made so far; a byte is told apart by version and offset
    pc,          \* "idle", "open", "size", "read", "return" or "dead"
    kind,        \* "small" (serve_static) or "big" (serve_static_big)
    stream,      \* the inode the ifstream has open
    failed,      \* its failbit
    size,        \* file_size, contents.size()
    number,      \* chunk_number
    body,        \* the chunks read by this call
    last_served, \* last_served_chunk of the file, 0 when there is no entry
    result,      \* of the last call: "none", "RECALL" or "FINISHED_NO_WAIT"
    response,    \* all chunks answered with since the request was made
    intact,      \* history: nothing changed the file since then
    requests     \* requests made so far

fileVars == <<inodes, path, changes>>
callVars == <<kind, stream, failed, size, number, body>>
respVars == <<last_served, result, response, intact, requests>>
vars == <<fileVars, pc, callVars, respVars>>

Sizes == 0 .. MaxSize

Zero == <<0, 0>>

Init ==
    /\ \E n \in Sizes : inodes = << [version |-> 1, size |-> n] >>
    /\ path = 1 /\ changes = 0
    /\ pc = "idle" /\ kind = "big"
    /\ stream = 0 /\ failed = FALSE /\ size = 0 /\ number = 0 /\ body = << >>
    /\ last_served = 0 /\ result = "none" /\ response = << >>
    /\ intact = TRUE /\ requests = 0

-----------------------------------------------------------------------------
(* Reading *)

Lesser(a, b) == IF a <= b THEN a ELSE b

\* Bytes begin .. end - 1 through the stream: zeros where the file ends earlier, and for
\* everything once the stream has failed, since seekg does not clear failbit.
Bytes(begin, end) ==
    [j \in 1 .. end - begin |->
        IF failed \/ begin + j > inodes[stream].size THEN Zero
        ELSE <<inodes[stream].version, begin + j>>]

FailsAt(end) == failed \/ end > inodes[stream].size

\* Mutant: the last chunk is read as if it were whole.
ChunkEnd_NotClamped(begin) == begin + ChunkSize

\* The end of the chunk from begin on, in read_chunk.
ChunkEnd(begin) == Lesser(begin + ChunkSize, size)

\* Mutants: the remainder does not count, and counts also when there is none.
ExpectedChunks_RoundedDown(n) == n \div ChunkSize
ExpectedChunks_AlwaysOneMore(n) == n \div ChunkSize + 1

ExpectedChunks(n) == n \div ChunkSize + (IF n % ChunkSize = 0 THEN 0 ELSE 1)

-----------------------------------------------------------------------------
(* The two handlers, a system call a step *)

Request(k) ==
    /\ pc = "idle" /\ result # "RECALL" /\ requests < MaxRequests
    /\ kind' = k /\ pc' = "open"
    /\ result' = "none" /\ response' = << >> /\ intact' = TRUE
    /\ requests' = requests + 1
    /\ UNCHANGED <<fileVars, stream, failed, size, number, body, last_served>>

\* The connection has sent what it had and clean_up continues with the request.
CallAgain ==
    /\ pc = "idle" /\ result = "RECALL"
    /\ pc' = "open"
    /\ UNCHANGED <<fileVars, callVars, respVars>>

\* A stream that cannot be opened makes an empty body in the one handler, and is
\* read from all the same in the other.
Open ==
    /\ pc = "open"
    /\ stream' = path /\ failed' = (path = 0)
    /\ number' = IF kind = "big" THEN last_served ELSE 0
    /\ body' = << >>
    /\ pc' = IF kind = "small" /\ path = 0 THEN "return" ELSE "size"
    /\ UNCHANGED <<fileVars, kind, size, respVars>>

\* tellg() is about the open file, std::filesystem::file_size about the path; the
\* exception it throws when there is no file is caught nowhere.
AskSize ==
    /\ pc = "size"
    /\ IF kind = "big" /\ path = 0
       THEN pc' = "dead" /\ UNCHANGED size
       ELSE /\ size' = inodes[IF kind = "big" THEN path ELSE stream].size
            /\ pc' = "read"
    /\ UNCHANGED <<fileVars, kind, stream, failed, number, body, respVars>>

ReadAll ==
    /\ pc = "read" /\ kind = "small"
    /\ body' = << Bytes(0, size) >> /\ failed' = FailsAt(size)
    /\ pc' = "return"
    /\ UNCHANGED <<fileVars, kind, stream, size, number, respVars>>

\* Mutant: a call ends after an odd number of chunks.
CallEnds_OnOdd(n) == n % 2 = 1

CallEnds(n) == n % 2 = 0

\* One round of the loop of static_file_handler_big, with read_chunk.
ReadChunk ==
    /\ pc = "read" /\ kind = "big"
    /\ LET begin == number * ChunkSize
           end   == ChunkEnd(begin)
       IN  IF begin >= size
           THEN pc' = "return" /\ UNCHANGED <<failed, number, body>>
           ELSE /\ body' = Append(body, Bytes(begin, end))
                /\ failed' = FailsAt(end)
                /\ number' = number + 1
                /\ pc' = IF CallEnds(number + 1) THEN "return" ELSE "read"
    /\ UNCHANGED <<fileVars, kind, stream, size, respVars>>

\* Mutants: the number of the next chunk is not noted, and not dropped at the end.
Noted_Forgotten(over) == IF over THEN 0 ELSE last_served
Noted_NotErased(over) == number

\* What last_served_chunk holds after a call of the big handler.
Noted(over) == IF over THEN 0 ELSE number

\* The last chunk is followed by the empty one that ends the body.
Return ==
    /\ pc = "return"
    /\ LET over == kind = "small" \/ number = ExpectedChunks(size)
       IN  /\ result' = IF over THEN "FINISHED_NO_WAIT" ELSE "RECALL"
           /\ last_served' = IF kind = "small" THEN last_served ELSE Noted(over)
    /\ response' = response \o body
    /\ pc' = "idle"
    /\ UNCHANGED <<fileVars, callVars, intact, requests>>

Handler == CallAgain \/ Open \/ AskSize \/ ReadAll \/ ReadChunk \/ Return

-----------------------------------------------------------------------------
(* Other processes *)

Changed ==
    /\ pc # "dead" /\ changes < MaxChanges
    /\ changes' = changes + 1
    /\ intact' = FALSE
    /\ UNCHANGED <<pc, callVars, last_served, result, response, requests>>

File(n) == [version |-> changes + 2, size |-> n]

Rewrite(n) ==
    /\ Changed
    /\ path # 0
    /\ inodes' = [inodes EXCEPT ![path] = File(n)]
    /\ UNCHANGED path

Replace(n) ==
    /\ Changed
    /\ inodes' = Append(inodes, File(n))
    /\ path' = Len(inodes) + 1

RemoveFile ==
    /\ Changed
    /\ path # 0 /\ path' = 0
    /\ UNCHANGED inodes

Next ==
    \/ \E k \in {"small", "big"} : Request(k)
    \/ Handler
    \/ \E n \in Sizes : Rewrite(n) \/ Replace(n)
    \/ RemoveFile

Spec == Init /\ [][Next]_vars

\* The server loop goes on calling the handler; nobody has to change the file or to ask
\* for it.
FairSpec == Spec /\ WF_vars(Handler)

-----------------------------------------------------------------------------
(* Properties *)

\* Types; and a response is interrupted after an even number of chunks only.
TypeOK ==
    /\ inodes \in Seq([version : 1 .. MaxChanges + 1, size : Sizes])
    /\ path \in 0 .. Len(inodes) /\ stream \in 0 .. Len(inodes)
    /\ pc \in {"idle", "open", "size", "read", "return", "dead"}
    /\ kind \in {"small", "big"}
    /\ size \in Sizes /\ number \in Nat
    /\ result \in {"none", "RECALL", "FINISHED_NO_WAIT"}
    /\ failed \in BOOLEAN /\ intact \in BOOLEAN
    /\ last_served \in {n \in 0 .. ExpectedChunks(MaxSize) : n % 2 = 0}

\* Where the k-th byte of the c-th chunk is in a response, for the chunks before it are
\* whole.
Offset(c, k) == (c - 1) * ChunkSize + k

Whole(chunks) == \A c \in DOMAIN chunks : c < Len(chunks) => Len(chunks[c]) = ChunkSize

\* The number of bytes answered with.
Served == IF response = << >> THEN 0 ELSE Offset(Len(response), Len(Last(response)))

\* A file nobody touches meanwhile is answered with byte by byte, however many calls
\* that takes: what was answered so far begins it, and is all of it at the end.
WholeFileIfIntact ==
    intact /\ path # 0 =>
        /\ Whole(response)
        /\ \A c \in DOMAIN response : \A k \in DOMAIN response[c] :
             response[c][k] = <<inodes[path].version, Offset(c, k)>>
        /\ Served <= inodes[path].size
        /\ result = "FINISHED_NO_WAIT" => Served = inodes[path].size

\* Whatever happens to the file between and during the calls: no chunk of a response
\* is left out, repeated or moved, and only the last one may be short.  Each byte is the
\* one of its offset in some version of the file, or zero.
BytesInPlace ==
    /\ Whole(response)
    /\ \A c \in DOMAIN response : \A k \in DOMAIN response[c] :
         response[c][k] # Zero => response[c][k][2] = Offset(c, k)

\* A call that ends a response has served as many bytes as the file had when that call
\* asked for its size (more only when the file got shorter within the last chunk); one
\* that does not end it has stopped at the end of a chunk, so that the next can go on
\* there.
EndsAtItsSize ==
    pc = "idle" =>
        /\ result = "RECALL" => \A c \in DOMAIN response : Len(response[c]) = ChunkSize
        /\ (result = "FINISHED_NO_WAIT" /\ kind = "big" /\ response # << >>) =>
              /\ Len(response) = ExpectedChunks(size)
              /\ Served = size \/ (Len(Last(response)) = ChunkSize /\ ~intact)

\* A response that was begun comes to its end, unless the process ends because the file
\* is gone, or the file has become shorter than what was served of it: then the
\* handler is called again for ever.
ResponseEnds ==
    ((result = "none" /\ requests > 0) \/ result = "RECALL") ~>
        \/ result = "FINISHED_NO_WAIT"
        \/ pc = "dead"
        \/ path # 0 /\ ExpectedChunks(inodes[path].size) < last_served

\* HttpHandler models the router by the number of chunks of a file that does not change:
\* each call answers with the result and the chunks that module says.
Http == INSTANCE HttpHandler WITH
    Targets   <- Sizes,
    RouteKind <- [n \in Sizes |-> "chunked"],
    Parts     <- [n \in Sizes |-> ExpectedChunks(n)],
    None      <- "none"

CallsAsInHttpHandler ==
    [][(pc = "return" /\ kind = "big" /\ intact /\ intact') =>
         LET said == Http!Routed(size, last_served)
         IN  /\ result' = said.result
             /\ last_served' = said.chunk
             /\ [k \in DOMAIN body |-> <<size, Len(response) + k>>] = said.body]_vars
=============================================================================
