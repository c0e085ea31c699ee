------------------------------- MODULE Parser -------------------------------
(***************************************************************************)
(* parse_request of src/src/http/parser.cpp: what the parser takes for a   *)
(* request, line by line, and how much of the stream it reads.             *)
(*                                                                         *)
(* A text is a sequence of lines.  The kind of a line says what a          *)
(* tokenizer makes of it, its end how getline and peek find it: "crlf" is  *)
(* the only good end, "cr" is a \r that no \n follows, and "none" is the   *)
(* end of the stream.  A byte 0, at which the body would end, is left out. *)
(***************************************************************************)
EXTENDS SequencesExt, Naturals

CONSTANT MaxLines   \* bound: lines of a text

\* "start"      : METHOD target HTTP/1.1, of a known method
\* "plain"      : a header that has no validator
\* "length"     : Content-Length with an integer
\* "noLength"   : Content-Length without a value
\* "badLength"  : Content-Length with anything else
\* "coding"     : Transfer-Encoding
\* "noCoding"   : Transfer-Encoding without a value
\* "empty"      : the empty line
\* "malformed"  : any other; no colon in it, or a blank before the colon
Kinds == {"start", "plain", "length", "noLength", "badLength", "coding", "noCoding",
          "empty", "malformed"}

Lines == [kind : Kinds, end : {"crlf", "cr", "none"}]

Line(kind) == [kind |-> kind, end |-> "crlf"]

-----------------------------------------------------------------------------
(* The tokenizers *)

LengthKinds == {"length", "noLength", "badLength"}
CodingKinds == {"coding", "noCoding"}

\* Reading an integer from an empty value comes to the end of it like a good one does.
content_length_validator(kind, headers) ==
    /\ headers \cap {"content-length", "transfer-encoding"} = {}
    /\ kind # "badLength"

\* Mutant: the validator of the coding looks for an earlier coding.
transfer_encoding_validator_LooksForItself(headers) == "transfer-encoding" \notin headers

transfer_encoding_validator(headers) == "content-length" \notin headers

\* What header_tokenizer adds to the map of headers, of those the validators look for;
\* split() makes nothing of an empty value, and the map gets no entry for it.
Recorded(kind) ==
    CASE kind = "length" -> {"content-length"}
      [] kind = "coding" -> {"transfer-encoding"}
      [] OTHER           -> {}

GoodHeader(kind, headers) ==
    /\ kind \notin {"start", "malformed"}
    /\ kind \in LengthKinds => content_length_validator(kind, headers)
    /\ kind \in CodingKinds => transfer_encoding_validator(headers)

-----------------------------------------------------------------------------
(* parse_request *)

\* phase: what the next line is read as; body and unread count the lines behind the
\* empty line and behind the line that was refused.
Beginning == [phase |-> "start", headers |-> {}, body |-> 0, unread |-> 0]

Refused(reader) == [reader EXCEPT !.phase = "refused"]

NextLine(reader, line) ==
    CASE reader.phase = "refused"  -> [reader EXCEPT !.unread = @ + 1]
      [] reader.phase = "accepted" -> [reader EXCEPT !.body = @ + 1]
      [] reader.phase = "start" ->
            IF line = Line("start") THEN [reader EXCEPT !.phase = "headers"]
            ELSE Refused(reader)
      [] reader.phase = "headers" ->
            IF line.end # "crlf" THEN Refused(reader)
            ELSE IF line.kind = "empty" THEN [reader EXCEPT !.phase = "accepted"]
            ELSE IF GoodHeader(line.kind, reader.headers)
                 THEN [reader EXCEPT !.headers = @ \cup Recorded(line.kind)]
                 ELSE Refused(reader)

\* The reader before the first line of a text, and behind each of its lines.
ReadLines(text) ==
    LET reader[n \in 0 .. Len(text)] ==
            IF n = 0 THEN Beginning ELSE NextLine(reader[n - 1], text[n])
    IN  reader

\* Mutant: what follows a request is left in the stream, for the next call.
parse_request_LeavesBody(text) ==
    LET reader == ReadLines(text)[Len(text)]
    IN  [found  |-> reader.phase = "accepted", body |-> 0,
         unread |-> reader.body + reader.unread]

\* A request is found when the empty line was; its body is all that follows, since
\* body_length() is always 1.  What a refusal leaves unread stays in the stream.
parse_request(text) ==
    LET reader == ReadLines(text)[Len(text)]
    IN  [found |-> reader.phase = "accepted", body |-> reader.body, unread |-> reader.unread]
=============================================================================
