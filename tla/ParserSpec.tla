----------------------------- MODULE ParserSpec -----------------------------
(***************************************************************************)
(* The parser against a definition of the requests it is to accept, and    *)
(* against the parser of HttpHandler, for every text a client may send     *)
(* line by line or in the segments of that module.                         *)
(***************************************************************************)
EXTENDS Parser

VARIABLES
    text,      \* what is in the input stream
    segments   \* the segments it was sent in, when it was sent in segments

vars == <<text, segments>>

Target == "a target"

\* The tokens of HttpHandler with a single target.
H == INSTANCE HttpHandler WITH
    Targets   <- {Target},
    RouteKind <- [t \in {Target} |-> "once"],
    Parts     <- [t \in {Target} |-> 1],
    None      <- "no target"

\* A request of HttpHandler has one header and no body; its head ends with a line.
LinesOf(segment) ==
    CASE segment.kind = "full" -> <<Line("start"), Line("plain"), Line("empty")>>
      [] segment.kind = "head" -> <<Line("start")>>
      [] segment.kind = "tail" -> <<Line("plain"), Line("empty")>>
      [] segment.kind = "junk" -> <<Line("malformed")>>

Init == text = << >> /\ segments = << >>

\* Nothing follows the end of the stream, unless more arrives.
SendLine(line) ==
    /\ segments = << >> /\ Len(text) < MaxLines
    /\ text # << >> => Last(text).end # "none"
    /\ text' = Append(text, line)
    /\ UNCHANGED segments

\* The end of the last line arrives.
SendEnd(end) ==
    /\ segments = << >> /\ text # << >>
    /\ <<Last(text).end, end>> \in {<<"none", "cr">>, <<"none", "crlf">>, <<"cr", "crlf">>}
    /\ text' = [text EXCEPT ![Len(text)].end = end]
    /\ UNCHANGED segments

SendSegment(segment) ==
    /\ segments = << >> => text = << >>
    /\ Len(segments) < MaxLines
    /\ segments' = Append(segments, segment)
    /\ text' = text \o LinesOf(segment)

Next ==
    \/ \E line \in Lines : SendLine(line)
    \/ \E end \in {"cr", "crlf"} : SendEnd(end)
    \/ \E segment \in H!Segments : SendSegment(segment)

Spec == Init /\ [][Next]_vars

-----------------------------------------------------------------------------
\* The lines before the n-th are the head of a request: a request line and headers of
\* which no two are at odds about where the body ends.  Once a length is given there is
\* no other and no coding, not even an empty one; once a coding is given, no length.
\* A length or a coding without a value in front of the other goes unnoticed.
GoodHead(n) ==
    /\ \A k \in 1 .. n - 1 : text[k].end = "crlf"
    /\ text[1].kind = "start"
    /\ \A k \in 2 .. n - 1 : text[k].kind \notin {"start", "malformed", "badLength", "empty"}
    /\ \A j, k \in 2 .. n - 1 :
         j < k => /\ text[j].kind = "length" => text[k].kind \notin LengthKinds \cup CodingKinds
                  /\ text[j].kind = "coding" => text[k].kind \notin LengthKinds

\* A request is found exactly when the text begins with a good head and an empty line
\* behind it, whatever follows: the order in which the validators (parser.cpp:9-37) meet
\* the headers decides, and no line is looked at without its end (parser.cpp:116-147).
AcceptedIffWellFormed ==
    parse_request(text).found <=>
        \E n \in 2 .. Len(text) : GoodHead(n) /\ text[n] = Line("empty")

\* The parser that the model of the server uses (HttpHandler, Parsed) is this one on
\* texts of its segments: it finds a request in the same texts, and when it leaves
\* nothing in the stream nothing is left there.  In particular a request that was
\* pipelined behind an accepted one is gone with it (parser.cpp:152).
HandlerAgrees ==
    segments # << >> =>
        LET parsed == H!Parsed(segments)
            result == parse_request(text)
        IN  /\ parsed.request = (IF result.found THEN Target ELSE "no target")
            /\ parsed.rest = << >> => result.unread = 0
=============================================================================
