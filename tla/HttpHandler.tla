----------------------------- MODULE HttpHandler -----------------------------
(***************************************************************************)
(* The application layer of one connection: HttpHandler of                 *)
(* src/src/http/http.cpp with the parser and the routes it calls, as       *)
(* operators on a handler record.                                          *)
(*                                                                         *)
(* Bytes are abstracted to tokens.  What a client sends is a sequence of   *)
(* segments: a full request for a target, the head or the tail of one, or  *)
(* junk no parse accepts.  What the server answers is a sequence of parts  *)
(* <<target, n>>: part 0 is the status line with the headers, the parts    *)
(* 1..Parts[target] are the pieces of the body.                            *)
(***************************************************************************)
EXTENDS Naturals, Sequences

CONSTANTS
    Targets,     \* what clients ask for: a method and a path
    RouteKind,   \* target -> how the router answers it, one of RouteKinds
    Parts,       \* target -> number of body parts of its response
    None         \* std::nullopt, nullptr

\* "once"    : a route or a small file answered in one go, and the fallback
\* "chunked" : a serve_static_big file, two chunks a call with RECALL in between
\* "keep"    : a route that asks to keep the connection (FINISHED_WAIT)
\* "none"    : a method nothing is routed for; the router has no answer
RouteKinds == {"once", "chunked", "keep", "none"}

HandlerStates ==
    {"READY_TO_HANDLE", "H_HANDLING", "FINISHED_NO_WAIT", "FINISHED_WAIT",
     "RECALL", "INCOMPLETE_INPUT", "HANDLER_ERROR"}

ASSUME RoutesAssumption ==
    /\ RouteKind \in [Targets -> RouteKinds]
    /\ Parts \in [Targets -> Nat]
    /\ None \notin Targets \cup HandlerStates

Segments == [kind : {"full", "head", "tail", "junk"}, target : Targets]

HandlerTransitions ==
    [READY_TO_HANDLE  |-> {"H_HANDLING"},
     H_HANDLING       |-> {"FINISHED_WAIT", "FINISHED_NO_WAIT", "RECALL", "INCOMPLETE_INPUT"},
     INCOMPLETE_INPUT |-> {"FINISHED_WAIT", "FINISHED_NO_WAIT", "RECALL"},
     FINISHED_NO_WAIT |-> {"READY_TO_HANDLE"},
     FINISHED_WAIT    |-> {"READY_TO_HANDLE"},
     RECALL           |-> {"FINISHED_WAIT", "FINISHED_NO_WAIT"}]

\* No handler state has a reset limit or a timeout.
NoLimits == [s \in {} |-> 0]

HSM == INSTANCE StateManager WITH
    States         <- HandlerStates,
    InitialState   <- "READY_TO_HANDLE",
    ErrorState     <- "HANDLER_ERROR",
    TransitionMap  <- HandlerTransitions,
    MaxResetCounts <- NoLimits,
    TimeOuts       <- NoLimits

\* request: the parsed http_request; chunk: the router's last_served_chunk.
Handlers == [sm : HSM!Machine, request : Targets \cup {None}, chunk : Nat]

NewHandler == [sm |-> HSM!Cleared, request |-> None, chunk |-> 0]

-----------------------------------------------------------------------------
(* The parser *)

\* The input begins with a complete request.
Complete(input) ==
    \/ input[1].kind = "full"
    \/ /\ input[1].kind = "head"
       /\ Len(input) >= 2
       /\ input[2] = [kind |-> "tail", target |-> input[1].target]

\* The first request in the input, None when there is none that is complete,
\* and what the parser leaves unread.  Everything after the empty line is taken
\* for the body, so a request that is accepted swallows all that follows it.  A
\* head without its tail is read to the end of the stream before it is rejected;
\* on junk the parser stops at once.
Parsed(input) ==
    IF input = << >> THEN [request |-> None, rest |-> << >>]
    ELSE IF Complete(input) THEN [request |-> input[1].target, rest |-> << >>]
    ELSE [request |-> None,
          rest    |-> IF input[1].kind = "head" /\ Len(input) = 1 THEN << >> ELSE input]

-----------------------------------------------------------------------------
(* The router *)

Header(t) == << <<t, 0>> >>

Body(t, from, to) == [k \in 1 .. to - from |-> <<t, from + k>>]

\* static_file_handler_big serves chunks until their number is even or the file ends.
ChunksServed(t, n) ==
    LET even == n + 2 - (n % 2)
    IN  IF even < Parts[t] THEN even ELSE Parts[t]

\* One call of the route of t when n chunks of the file were served before.
Routed(t, n) ==
    CASE RouteKind[t] = "once" ->
            [result |-> "FINISHED_NO_WAIT", body |-> Body(t, 0, Parts[t]), chunk |-> n]
      [] RouteKind[t] = "keep" ->
            [result |-> "FINISHED_WAIT", body |-> Body(t, 0, Parts[t]), chunk |-> n]
      [] RouteKind[t] = "chunked" ->
            LET served == ChunksServed(t, n)
                last   == served = Parts[t]
            IN  [result |-> IF last THEN "FINISHED_NO_WAIT" ELSE "RECALL",
                 body   |-> Body(t, n, served),
                 chunk  |-> IF last THEN 0 ELSE served]
      [] RouteKind[t] = "none" ->
            [result |-> None, body |-> << >>, chunk |-> n]

\* The complete response to a request for t.
Response(t) ==
    IF RouteKind[t] = "none" THEN << >> ELSE Header(t) \o Body(t, 0, Parts[t])

-----------------------------------------------------------------------------
(* HttpHandler::notify(connection, streams) *)

\* Lines 99-105: the request is dropped once it needs no further call.
Finished(s) == s \in {"FINISHED_NO_WAIT", "FINISHED_WAIT", "HANDLER_ERROR"}

Turn(h, input, written, returns) ==
    [handler |-> IF ~returns /\ Finished(h.sm.state) THEN [h EXCEPT !.request = None] ELSE h,
     input   |-> input,     \* the connection's input stream afterwards
     written |-> written,   \* what the handler added to the output stream
     returns |-> returns]   \* the early return of line 47: the connection is not notified

\* Lines 43-79: there is new data to parse.
FirstTurn(h, input) ==
    LET sm     == HSM!SetState(h.sm, "H_HANDLING")
        parsed == Parsed(input)
        routed == Routed(parsed.request, h.chunk)
    IN  IF sm.state = "HANDLER_ERROR"
        THEN Turn([h EXCEPT !.sm = sm], input, << >>, TRUE)
        ELSE IF parsed.request # None /\ routed.result # None
        THEN Turn([sm      |-> HSM!SetState(sm, routed.result),
                   request |-> parsed.request,
                   chunk   |-> routed.chunk],
                  parsed.rest, Header(parsed.request) \o routed.body, FALSE)
        ELSE Turn([h EXCEPT !.sm = HSM!SetState(sm, "FINISHED_NO_WAIT"),
                            !.request = parsed.request],
                  parsed.rest, << >>, FALSE)

\* Mutant: the further chunks are sent with the headers of a response of their own.
NextTurn_HeaderAgain(h, input) ==
    LET routed == Routed(h.request, h.chunk)
    IN  Turn([h EXCEPT !.sm = HSM!SetState(@, routed.result), !.chunk = routed.chunk],
             input, Header(h.request) \o routed.body, FALSE)

\* Lines 80-97: an existing request is processed further.
NextTurn(h, input) ==
    LET routed == Routed(h.request, h.chunk)
    IN  IF routed.result # None
        THEN Turn([h EXCEPT !.sm = HSM!SetState(@, routed.result), !.chunk = routed.chunk],
                  input, routed.body, FALSE)
        ELSE Turn(h, input, << >>, FALSE)

HandlerTurn(h, input) ==
    IF h.request = None THEN FirstTurn(h, input) ELSE NextTurn(h, input)

wants_to_write(h)         == h.sm.state = "FINISHED_NO_WAIT"
wants_to_live(h)          == h.sm.state = "FINISHED_WAIT"
wants_more_bytes(h)       == h.sm.state = "INCOMPLETE_INPUT"
wants_to_be_calledback(h) == h.sm.state = "RECALL"
=============================================================================
