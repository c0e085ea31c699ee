--------------------------- MODULE ConnectionProofs ---------------------------
(***************************************************************************)
(* Lemmas about the operators of HttpHandler and TcpConnection: what each  *)
(* call on a connection preserves, whatever the routes and the clients.    *)
(***************************************************************************)
EXTENDS TcpConnection, TLAPS

-----------------------------------------------------------------------------
(* The handler's state machine *)

\* set_state reaches the state it was asked for or the error state.
LEMMA HandlerSetState ==
    ASSUME NEW m \in HSM!Machine, NEW s \in HandlerStates
    PROVE  /\ HSM!SetState(m, s) \in HSM!Machine
           /\ HSM!SetState(m, s).state \in {s, "HANDLER_ERROR"}
<1>1. m.state \in HandlerStates /\ m.reset_count \in Nat
  BY DEF HSM!Machine
<1>2. "HANDLER_ERROR" \in HandlerStates
  BY DEF HandlerStates
<1>3. HSM!ResetState(m) \in HSM!Machine /\ HSM!ResetState(m).state \in {m.state, "HANDLER_ERROR"}
  BY <1>1, <1>2 DEF HSM!ResetState, HSM!Entered, HSM!Machine
<1> QED
  BY <1>1, <1>2, <1>3 DEF HSM!SetState, HSM!Entered, HSM!Machine

LEMMA NewHandlerType == NewHandler \in Handlers
BY DEF NewHandler, Handlers, HSM!Cleared, HSM!Entered, HSM!Machine, HandlerStates

-----------------------------------------------------------------------------
(* The parser and the router *)

LEMMA ParsedType ==
    ASSUME NEW input \in Seq(Segments)
    PROVE  /\ Parsed(input).request \in Targets \cup {None}
           /\ Parsed(input).rest \in Seq(Segments)
<1>1. CASE input = << >>
  BY <1>1 DEF Parsed
<1>2. CASE input # << >>
  <2>1. input[1] \in Segments
    BY <1>2
  <2>2. input[1].target \in Targets
    BY <2>1 DEF Segments
  <2> QED
    BY <1>2, <2>2 DEF Parsed
<1> QED
  BY <1>1, <1>2

\* A piece of a response is a sequence of parts, an empty one when it ends before it begins.
LEMMA BodyType ==
    ASSUME NEW t \in Targets, NEW from \in Nat, NEW to \in Nat
    PROVE  Body(t, from, to) \in Seq(Targets \X Nat)
<1>1. CASE from <= to
  <2> DEFINE n == to - from
  <2>1. n \in Nat
    BY <1>1
  <2>2. \A k \in 1 .. n : <<t, from + k>> \in Targets \X Nat
    OBVIOUS
  <2> HIDE DEF n
  <2>3. [k \in 1 .. n |-> <<t, from + k>>] \in Seq(Targets \X Nat)
    BY <2>1, <2>2
  <2> QED
    BY <2>3 DEF Body, n
<1>2. CASE ~(from <= to)
  <2>1. 1 .. to - from = 1 .. 0
    BY <1>2
  <2>2. [k \in 1 .. 0 |-> <<t, from + k>>] \in Seq(Targets \X Nat)
    OBVIOUS
  <2> QED
    BY <2>1, <2>2 DEF Body
<1> QED
  BY <1>1, <1>2

LEMMA HeaderType ==
    ASSUME NEW t \in Targets
    PROVE  Header(t) \in Seq(Targets \X Nat)
BY DEF Header

LEMMA ChunksServedType ==
    ASSUME NEW t \in Targets, NEW n \in Nat
    PROVE  ChunksServed(t, n) \in Nat
<1>1. Parts[t] \in Nat
  BY RoutesAssumption
<1>2. n % 2 \in 0 .. 1
  OBVIOUS
<1>3. n + 2 - (n % 2) \in Nat
  BY <1>2
<1> QED
  BY <1>1, <1>3 DEF ChunksServed

LEMMA NoParts == << >> \in Seq(Targets \X Nat)
OBVIOUS

LEMMA RoutedType ==
    ASSUME NEW t \in Targets, NEW n \in Nat
    PROVE  /\ Routed(t, n).result \in {"FINISHED_NO_WAIT", "FINISHED_WAIT", "RECALL", None}
           /\ Routed(t, n).body \in Seq(Targets \X Nat)
           /\ Routed(t, n).chunk \in Nat
<1>1. Parts[t] \in Nat /\ RouteKind[t] \in RouteKinds
  BY RoutesAssumption
<1>2. ChunksServed(t, n) \in Nat
  BY ChunksServedType
<1>3. /\ Body(t, 0, Parts[t]) \in Seq(Targets \X Nat)
      /\ Body(t, n, ChunksServed(t, n)) \in Seq(Targets \X Nat)
  BY <1>1, <1>2, BodyType
<1>4. CASE RouteKind[t] = "once"
  BY <1>3, <1>4 DEF Routed
<1>5. CASE RouteKind[t] = "keep"
  BY <1>3, <1>5 DEF Routed
<1>6. CASE RouteKind[t] = "chunked"
  BY <1>2, <1>3, <1>6 DEF Routed
<1>7. CASE RouteKind[t] = "none"
  <2>1. Routed(t, n) = [result |-> None, body |-> << >>, chunk |-> n]
    BY <1>7 DEF Routed
  <2> QED
    BY <2>1, NoParts
<1> QED
  BY <1>1, <1>4, <1>5, <1>6, <1>7 DEF RouteKinds

-----------------------------------------------------------------------------
(* The handler *)

\* What a turn of the handler is made of.
TurnType(turn) ==
    /\ turn.handler \in Handlers
    /\ turn.input \in Seq(Segments)
    /\ turn.written \in Seq(Targets \X Nat)

LEMMA TurnTyped ==
    ASSUME NEW h \in Handlers, NEW input \in Seq(Segments),
           NEW written \in Seq(Targets \X Nat), NEW returns \in BOOLEAN
    PROVE  TurnType(Turn(h, input, written, returns))
BY DEF Turn, TurnType, Handlers

LEMMA FirstTurnType ==
    ASSUME NEW h \in Handlers, NEW input \in Seq(Segments)
    PROVE  TurnType(FirstTurn(h, input))
<1> DEFINE sm     == HSM!SetState(h.sm, "H_HANDLING")
           parsed == Parsed(input)
           routed == Routed(parsed.request, h.chunk)
<1>1. /\ h.sm \in HSM!Machine /\ h.chunk \in Nat
      /\ h = [sm |-> h.sm, request |-> h.request, chunk |-> h.chunk]
  BY DEF Handlers
<1>2. sm \in HSM!Machine
  BY <1>1, HandlerSetState DEF HandlerStates
<1>3. parsed.request \in Targets \cup {None} /\ parsed.rest \in Seq(Segments)
  BY ParsedType
<1>4. CASE sm.state = "HANDLER_ERROR"
  <2>1. [h EXCEPT !.sm = sm] \in Handlers
    BY <1>2 DEF Handlers
  <2>2. TurnType(Turn([h EXCEPT !.sm = sm], input, << >>, TRUE))
    BY <2>1, TurnTyped, NoParts
  <2> QED
    BY <1>4, <2>2 DEF FirstTurn
<1>5. CASE sm.state # "HANDLER_ERROR" /\ parsed.request # None /\ routed.result # None
  <2>1. parsed.request \in Targets
    BY <1>3, <1>5
  <2>2. /\ routed.result \in HandlerStates
        /\ routed.body \in Seq(Targets \X Nat) /\ routed.chunk \in Nat
    BY <1>1, <1>5, <2>1, RoutedType DEF HandlerStates
  <2> DEFINE next == [sm      |-> HSM!SetState(sm, routed.result),
                      request |-> parsed.request,
                      chunk   |-> routed.chunk]
  <2>3. HSM!SetState(sm, routed.result) \in HSM!Machine
    BY <1>2, <2>2, HandlerSetState
  <2>4. next \in Handlers
    BY <1>3, <2>2, <2>3 DEF Handlers
  <2>5. Header(parsed.request) \o routed.body \in Seq(Targets \X Nat)
    BY <2>1, <2>2, HeaderType
  <2>6. TurnType(Turn(next, parsed.rest, Header(parsed.request) \o routed.body, FALSE))
    BY <1>3, <2>4, <2>5, TurnTyped
  <2> QED
    BY <1>5, <2>6 DEF FirstTurn
<1>6. CASE sm.state # "HANDLER_ERROR" /\ ~(parsed.request # None /\ routed.result # None)
  <2> DEFINE next == [h EXCEPT !.sm = HSM!SetState(sm, "FINISHED_NO_WAIT"),
                               !.request = parsed.request]
  <2>1. HSM!SetState(sm, "FINISHED_NO_WAIT") \in HSM!Machine
    BY <1>2, HandlerSetState DEF HandlerStates
  <2>2. next \in Handlers
    BY <1>3, <2>1 DEF Handlers
  <2>3. TurnType(Turn(next, parsed.rest, << >>, FALSE))
    BY <1>3, <2>2, TurnTyped, NoParts
  <2> QED
    BY <1>6, <2>3 DEF FirstTurn
<1> QED
  BY <1>4, <1>5, <1>6

LEMMA NextTurnType ==
    ASSUME NEW h \in Handlers, NEW input \in Seq(Segments), h.request # None
    PROVE  TurnType(NextTurn(h, input))
<1> DEFINE routed == Routed(h.request, h.chunk)
<1>1. h.sm \in HSM!Machine /\ h.chunk \in Nat /\ h.request \in Targets
  BY DEF Handlers
<1>2. /\ routed.result \in {"FINISHED_NO_WAIT", "FINISHED_WAIT", "RECALL", None}
      /\ routed.body \in Seq(Targets \X Nat) /\ routed.chunk \in Nat
  BY <1>1, RoutedType
<1>3. CASE routed.result # None
  <2> DEFINE next == [h EXCEPT !.sm = HSM!SetState(@, routed.result), !.chunk = routed.chunk]
  <2>1. HSM!SetState(h.sm, routed.result) \in HSM!Machine
    BY <1>1, <1>2, <1>3, HandlerSetState DEF HandlerStates
  <2>2. next \in Handlers
    BY <1>2, <2>1 DEF Handlers
  <2>3. TurnType(Turn(next, input, routed.body, FALSE))
    BY <1>2, <2>2, TurnTyped
  <2> QED
    BY <1>3, <2>3 DEF NextTurn
<1>4. CASE routed.result = None
  <2>1. TurnType(Turn(h, input, << >>, FALSE))
    BY TurnTyped, NoParts
  <2> QED
    BY <1>4, <2>1 DEF NextTurn
<1> QED
  BY <1>3, <1>4

LEMMA HandlerTurnType ==
    ASSUME NEW h \in Handlers, NEW input \in Seq(Segments)
    PROVE  TurnType(HandlerTurn(h, input))
BY FirstTurnType, NextTurnType DEF HandlerTurn

\* A handler between two calls: it holds a request exactly while it asks to be called
\* back.
Rests(h) ==
    /\ h.sm.state \in {"READY_TO_HANDLE", "FINISHED_NO_WAIT", "FINISHED_WAIT", "RECALL",
                       "HANDLER_ERROR"}
    /\ h.request # None <=> h.sm.state = "RECALL"

Results == {"FINISHED_NO_WAIT", "FINISHED_WAIT", "RECALL"}

\* Only a fresh handler starts on a request.
LEMMA HandlerBegins ==
    ASSUME NEW m \in HSM!Machine, m.state # "H_HANDLING"
    PROVE  HSM!SetState(m, "H_HANDLING").state =
               IF m.state = "READY_TO_HANDLE" THEN "H_HANDLING" ELSE "HANDLER_ERROR"
<1>1. m.state \in HandlerStates
  BY DEF HSM!Machine
<1>2. ~HSM!TimedOut(m)
  BY DEF HSM!TimedOut, NoLimits
<1>3. HSM!CanTransitionTo(m, "H_HANDLING") <=> m.state = "READY_TO_HANDLE"
  BY <1>1, <1>2 DEF HSM!CanTransitionTo, HandlerTransitions, HandlerStates
<1> QED
  BY <1>2, <1>3 DEF HSM!SetState, HSM!Doomed, HSM!Entered

\* A handler at work, or called back, reaches the result of its route.
LEMMA HandlerEnds ==
    ASSUME NEW m \in HSM!Machine, m.state \in {"H_HANDLING", "RECALL"}, NEW s \in Results
    PROVE  HSM!SetState(m, s).state = s
<1>1. ~HSM!Doomed(m)
  BY DEF HSM!Doomed, HSM!TimedOut, NoLimits
<1>2. CASE s = m.state
  <2>1. HSM!ResetState(m).state = m.state
    BY <1>1 DEF HSM!ResetState, HSM!Entered, HSM!ResetsExhausted, NoLimits
  <2> QED
    BY <1>1, <1>2, <2>1 DEF HSM!SetState
<1>3. CASE s # m.state
  <2>1. HSM!CanTransitionTo(m, s)
    BY <1>1, <1>3 DEF HSM!Doomed, HSM!CanTransitionTo, HandlerTransitions, Results
  <2> QED
    BY <1>1, <1>3, <2>1 DEF HSM!SetState, HSM!Entered
<1> QED
  BY <1>2, <1>3

\* A turn that lets the connection be notified ends in a result and drops the request
\* with it, or keeps it to be called back.
LEMMA TurnEnds ==
    ASSUME NEW h \in Handlers, NEW input, NEW written, h.sm.state \in Results,
           h.sm.state = "RECALL" => h.request # None
    PROVE  LET turn == Turn(h, input, written, FALSE)
           IN  Rests(turn.handler) /\ turn.handler.sm.state \in Results /\ turn.returns = FALSE
<1> DEFINE dropped == [h EXCEPT !.request = None]
<1>1. dropped.sm = h.sm /\ dropped.request = None
  BY DEF Handlers
<1> QED
  BY <1>1 DEF Turn, Finished, Rests, Results

\* The handler refuses to start again: it returns without notifying the connection, and
\* only then.
TurnAgrees(h, turn) ==
    /\ Rests(turn.handler)
    /\ turn.returns <=> h.sm.state \notin {"READY_TO_HANDLE", "RECALL"}
    /\ turn.returns => turn.handler.sm.state = "HANDLER_ERROR" /\ turn.written = << >>
    /\ ~turn.returns => turn.handler.sm.state \in Results

LEMMA FirstTurnAgrees ==
    ASSUME NEW h \in Handlers, NEW input \in Seq(Segments), Rests(h), h.request = None
    PROVE  TurnAgrees(h, FirstTurn(h, input))
<1> DEFINE sm     == HSM!SetState(h.sm, "H_HANDLING")
           parsed == Parsed(input)
           routed == Routed(parsed.request, h.chunk)
<1>1. h.sm \in HSM!Machine /\ h.chunk \in Nat
  BY DEF Handlers
<1>2. sm \in HSM!Machine
  BY <1>1, HandlerSetState DEF HandlerStates
<1>3. sm.state = IF h.sm.state = "READY_TO_HANDLE" THEN "H_HANDLING" ELSE "HANDLER_ERROR"
  BY <1>1, HandlerBegins DEF Rests
<1>4. h.sm.state # "RECALL"
  BY DEF Rests
<1>5. parsed.request \in Targets \cup {None}
  BY ParsedType
<1>6. FirstTurn(h, input) =
        IF sm.state = "HANDLER_ERROR"
        THEN Turn([h EXCEPT !.sm = sm], input, << >>, TRUE)
        ELSE IF parsed.request # None /\ routed.result # None
        THEN Turn([sm |-> HSM!SetState(sm, routed.result),
                   request |-> parsed.request, chunk |-> routed.chunk],
                  parsed.rest, Header(parsed.request) \o routed.body, FALSE)
        ELSE Turn([h EXCEPT !.sm = HSM!SetState(sm, "FINISHED_NO_WAIT"),
                            !.request = parsed.request],
                  parsed.rest, << >>, FALSE)
  BY DEF FirstTurn
<1> HIDE DEF sm, parsed
<1>7. CASE sm.state = "HANDLER_ERROR"
  <2> DEFINE next == [h EXCEPT !.sm = sm]
  <2>1. next.sm = sm /\ next.request = None
    BY DEF Handlers
  <2>2. FirstTurn(h, input) = Turn(next, input, << >>, TRUE)
    BY <1>6, <1>7
  <2> HIDE DEF next
  <2> QED
    BY <1>3, <1>4, <1>7, <2>1, <2>2 DEF Turn, Rests, TurnAgrees
<1>8. CASE sm.state # "HANDLER_ERROR" /\ parsed.request # None /\ routed.result # None
  <2>1. routed.result \in Results /\ routed.chunk \in Nat
    BY <1>1, <1>5, <1>8, RoutedType DEF Results
  <2> HIDE DEF routed
  <2> DEFINE ended == HSM!SetState(sm, routed.result)
             next  == [sm |-> ended, request |-> parsed.request, chunk |-> routed.chunk]
             text  == Header(parsed.request) \o routed.body
  <2>2. ended.state \in Results /\ ended \in HSM!Machine
    BY <1>2, <1>3, <1>8, <2>1, HandlerEnds, HandlerSetState DEF Results, HandlerStates
  <2>3. FirstTurn(h, input) = Turn(next, parsed.rest, text, FALSE)
    BY <1>6, <1>8
  <2> HIDE DEF ended, text
  <2>4. next \in Handlers /\ next.sm.state \in Results /\ next.request # None
    BY <1>5, <1>8, <2>1, <2>2 DEF Handlers
  <2> HIDE DEF next
  <2> QED
    BY <1>3, <1>8, <2>3, <2>4, TurnEnds DEF TurnAgrees
<1>9. CASE sm.state # "HANDLER_ERROR" /\ ~(parsed.request # None /\ routed.result # None)
  <2> DEFINE ended == HSM!SetState(sm, "FINISHED_NO_WAIT")
             next  == [h EXCEPT !.sm = ended, !.request = parsed.request]
  <2>1. ended.state = "FINISHED_NO_WAIT" /\ ended \in HSM!Machine
    BY <1>2, <1>3, <1>9, HandlerEnds, HandlerSetState DEF Results, HandlerStates
  <2>2. FirstTurn(h, input) = Turn(next, parsed.rest, << >>, FALSE)
    BY <1>6, <1>9
  <2> HIDE DEF ended
  <2>3. next \in Handlers /\ next.sm.state = "FINISHED_NO_WAIT"
    BY <1>5, <2>1 DEF Handlers
  <2> HIDE DEF next
  <2>4. next.sm.state \in Results /\ next.sm.state # "RECALL"
    BY <2>3 DEF Results
  <2> QED
    BY <1>3, <1>9, <2>2, <2>3, <2>4, TurnEnds DEF TurnAgrees
<1> QED
  BY <1>7, <1>8, <1>9

LEMMA NextTurnAgrees ==
    ASSUME NEW h \in Handlers, NEW input \in Seq(Segments), Rests(h), h.request # None
    PROVE  TurnAgrees(h, NextTurn(h, input))
<1> DEFINE routed == Routed(h.request, h.chunk)
<1>1. h.sm \in HSM!Machine /\ h.chunk \in Nat /\ h.request \in Targets
  BY DEF Handlers
<1>2. h.sm.state = "RECALL"
  BY DEF Rests
<1>3. routed.result \in Results \cup {None} /\ routed.chunk \in Nat
  BY <1>1, RoutedType DEF Results
<1>4. NextTurn(h, input) =
        IF routed.result # None
        THEN Turn([h EXCEPT !.sm = HSM!SetState(@, routed.result), !.chunk = routed.chunk],
                  input, routed.body, FALSE)
        ELSE Turn(h, input, << >>, FALSE)
  BY DEF NextTurn
<1> HIDE DEF routed
<1>5. CASE routed.result # None
  <2> DEFINE ended == HSM!SetState(h.sm, routed.result)
             next  == [h EXCEPT !.sm = ended, !.chunk = routed.chunk]
  <2>1. ended.state \in Results /\ ended \in HSM!Machine
    BY <1>1, <1>2, <1>3, <1>5, HandlerEnds, HandlerSetState DEF Results, HandlerStates
  <2>2. NextTurn(h, input) = Turn(next, input, routed.body, FALSE)
    BY <1>4, <1>5
  <2> HIDE DEF ended
  <2>3. next \in Handlers /\ next.sm.state \in Results /\ next.request # None
    BY <1>3, <2>1 DEF Handlers
  <2> HIDE DEF next
  <2> QED
    BY <1>2, <2>2, <2>3, TurnEnds DEF TurnAgrees
<1>6. CASE routed.result = None
  <2>1. NextTurn(h, input) = Turn(h, input, << >>, FALSE)
    BY <1>4, <1>6
  <2>2. h.sm.state \in Results
    BY <1>2 DEF Results
  <2> QED
    BY <1>1, <1>2, <2>1, <2>2, TurnEnds DEF TurnAgrees
<1> QED
  BY <1>5, <1>6

LEMMA HandlerTurnAgrees ==
    ASSUME NEW h \in Handlers, NEW input \in Seq(Segments), Rests(h)
    PROVE  TurnAgrees(h, HandlerTurn(h, input))
BY FirstTurnAgrees, NextTurnAgrees DEF HandlerTurn

-----------------------------------------------------------------------------
(* The connection's state machine *)

LEMMA ConnectionSetState ==
    ASSUME NEW m \in CSM!Machine, NEW s \in ConnectionStates
    PROVE  /\ CSM!SetState(m, s) \in CSM!Machine
           /\ CSM!SetState(m, s).state \in {s, "CONNECTION_ERROR"}
<1>1. m.state \in ConnectionStates /\ m.reset_count \in Nat
  BY DEF CSM!Machine
<1>2. "CONNECTION_ERROR" \in ConnectionStates
  BY DEF ConnectionStates
<1>3. CSM!ResetState(m) \in CSM!Machine /\ CSM!ResetState(m).state \in {m.state, "CONNECTION_ERROR"}
  BY <1>1, <1>2 DEF CSM!ResetState, CSM!Entered, CSM!Machine
<1> QED
  BY <1>1, <1>2, <1>3 DEF CSM!SetState, CSM!Entered, CSM!Machine

LEMMA ConnectionObserved ==
    ASSUME NEW m \in CSM!Machine
    PROVE  /\ CSM!Observed(m) \in CSM!Machine
           /\ CSM!Observed(m).state \in {m.state, "CONNECTION_ERROR"}
BY ConnectionSetState DEF CSM!Observed, ConnectionStates

-----------------------------------------------------------------------------
(* The connection *)

LEMMA HandlersAreNotNone == None \notin Handlers /\ None \notin Clients
BY ConnectionAssumption

\* A record with the fields of a connection is a connection.
LEMMA ConnectionFields ==
    ASSUME NEW c \in Connections
    PROVE  /\ c.sm \in CSM!Machine
           /\ c.socket \in Clients \cup {None}
           /\ c.handler \in Handlers \cup {None}
           /\ c.input \in Seq(Segments)
           /\ c.output \in Seq(Targets \X Nat)
           /\ c.timing \in BOOLEAN /\ c.measured \in Nat /\ c.asserts \in BOOLEAN
BY DEF Connections

LEMMA NoBytes == << >> \in Seq(Segments) /\ << >> \in Seq(Targets \X Nat)
OBVIOUS

\* What a call on a connection that has a socket may do to it: the socket stays, the
\* handler is not lost, and the connection does not fall back to INACTIVE.
Advances(c, d) ==
    /\ d \in Connections
    /\ d.socket = c.socket
    /\ c.handler # None => d.handler # None
    /\ d.sm.state # "INACTIVE"

LEMMA SetType ==
    ASSUME NEW c \in Connections, NEW s \in ConnectionStates
    PROVE  /\ Set(c, s) \in Connections
           /\ Set(c, s).sm.state \in {s, "CONNECTION_ERROR"}
           /\ Set(c, s) = [c EXCEPT !.sm = Set(c, s).sm]
<1> DEFINE m == CSM!SetState(c.sm, s)
<1>1. m \in CSM!Machine /\ m.state \in {s, "CONNECTION_ERROR"}
  BY ConnectionFields, ConnectionSetState
<1>2. Set(c, s) = [c EXCEPT !.sm = m]
  BY DEF Set
<1> HIDE DEF m
<1> QED
  BY <1>1, <1>2 DEF Connections

LEMMA SetAdvances ==
    ASSUME NEW c \in Connections, NEW s \in ConnectionStates, s # "INACTIVE"
    PROVE  Advances(c, Set(c, s))
<1>1. Set(c, s) \in Connections /\ Set(c, s).sm.state # "INACTIVE"
  BY SetType
<1>2. Set(c, s) = [c EXCEPT !.sm = Set(c, s).sm]
  BY SetType
<1>3. Set(c, s).socket = c.socket /\ Set(c, s).handler = c.handler
  BY <1>2 DEF Connections
<1> QED
  BY <1>1, <1>3 DEF Advances

\* Reading the state leaves everything but the machine alone; an INACTIVE connection
\* has no timeout.
LEMMA GetStateType ==
    ASSUME NEW c \in Connections
    PROVE  /\ GetState(c) \in Connections
           /\ GetState(c).socket = c.socket
           /\ GetState(c).handler = c.handler
           /\ GetState(c).sm.state \in {c.sm.state, "CONNECTION_ERROR"}
           /\ c.sm.state = "INACTIVE" => GetState(c).sm.state = "INACTIVE"
<1> DEFINE m == CSM!Observed(c.sm)
<1>1. m \in CSM!Machine /\ m.state \in {c.sm.state, "CONNECTION_ERROR"}
  BY ConnectionFields, ConnectionObserved
<1>2. c.sm.state = "INACTIVE" => m = c.sm
  BY DEF CSM!Observed, CSM!TimedOut, state_time_outs
<1>3. GetState(c) = [c EXCEPT !.sm = m]
  BY DEF GetState
<1> HIDE DEF m
<1> QED
  BY <1>1, <1>2, <1>3 DEF Connections

LEMMA AdvancesTransitive ==
    ASSUME NEW c, NEW d, NEW e, Advances(c, d), Advances(d, e)
    PROVE  Advances(c, e)
BY DEF Advances

LEMMA TimerType ==
    ASSUME NEW c \in Connections
    PROVE  /\ \A d \in {TimerStart(c), TimerEnd(c), TimerCancel(c)} :
                /\ d \in Connections
                /\ d.sm = c.sm /\ d.socket = c.socket /\ d.handler = c.handler
<1>1. c.measured + 1 \in Nat
  BY ConnectionFields
<1> QED
  BY <1>1 DEF TimerStart, TimerEnd, TimerCancel, Connections

LEMMA AssertFails ==
    ASSUME NEW c \in Connections, c.sm.state # "INACTIVE"
    PROVE  Advances(c, [c EXCEPT !.asserts = FALSE])
BY DEF Advances, Connections

LEMMA StreamsType ==
    ASSUME NEW c \in Connections, NEW i \in Seq(Segments), NEW o \in Seq(Targets \X Nat)
    PROVE  LET d == [c EXCEPT !.input = i, !.output = o]
           IN  /\ d \in Connections
               /\ d.sm = c.sm /\ d.socket = c.socket /\ d.handler = c.handler
BY DEF Connections

LEMMA NotifiedByHandlerAdvances ==
    ASSUME NEW c \in Connections, c.sm.state # "INACTIVE"
    PROVE  Advances(c, NotifiedByHandler(c))
<1>1. /\ Advances(c, Set(c, "READY_TO_WRITE"))
      /\ Advances(c, Set(c, "READY_TO_READ"))
  BY SetAdvances DEF ConnectionStates
<1>2. Advances(c, [c EXCEPT !.asserts = FALSE])
  BY AssertFails
<1> QED
  BY <1>1, <1>2 DEF NotifiedByHandler

LEMMA NotifyHandlerAdvances ==
    ASSUME NEW c \in Connections, c.sm.state # "INACTIVE"
    PROVE  Advances(c, NotifyHandler(c))
<1> DEFINE turn == HandlerTurn(c.handler, c.input)
           next == [c EXCEPT !.handler = turn.handler,
                             !.input   = turn.input,
                             !.output  = @ \o turn.written]
<1>1. CASE c.handler = None
  BY <1>1, AssertFails DEF NotifyHandler
<1>2. CASE c.handler # None
  <2>1. TurnType(turn)
    BY <1>2, ConnectionFields, HandlerTurnType
  <2>2. /\ turn.handler \in Handlers
        /\ turn.input \in Seq(Segments)
        /\ turn.written \in Seq(Targets \X Nat)
    BY <2>1 DEF TurnType
  <2>3. NotifyHandler(c) = IF turn.returns THEN next ELSE NotifiedByHandler(next)
    BY <1>2 DEF NotifyHandler
  <2> HIDE DEF turn
  <2>4. c.output \o turn.written \in Seq(Targets \X Nat)
    BY <2>2, ConnectionFields
  <2>5. /\ next \in Connections /\ next.sm = c.sm /\ next.socket = c.socket
        /\ next.handler = turn.handler
    BY <2>2, <2>4 DEF Connections
  <2> HIDE DEF next
  <2>6. next.handler # None
    BY <2>2, <2>5, HandlersAreNotNone
  <2>7. Advances(c, next)
    BY <2>5, <2>6 DEF Advances
  <2>8. Advances(next, NotifiedByHandler(next))
    BY <2>5, NotifiedByHandlerAdvances
  <2> QED
    BY <2>3, <2>7, <2>8, AdvancesTransitive
<1> QED
  BY <1>1, <1>2

LEMMA ReadSocketAdvances ==
    ASSUME NEW c \in Connections, NEW received \in Seq(Segments)
    PROVE  Advances(c, ReadSocket(c, received))
<1> DEFINE started  == TimerStart(c)
           reading  == Set(started, "READING")
           filled   == [reading EXCEPT !.input = @ \o received]
           handling == Set(filled, "HANDLING")
<1>1. /\ started \in Connections
      /\ started.socket = c.socket /\ started.handler = c.handler
  BY TimerType
<1>2. Advances(started, reading)
  BY <1>1, SetAdvances DEF ConnectionStates
<1>3. Advances(c, reading)
  BY <1>1, <1>2 DEF Advances
<1>4. ReadSocket(c, received) =
        IF reading.sm.state = "CONNECTION_ERROR" THEN reading
        ELSE IF c.socket = None THEN [reading EXCEPT !.asserts = FALSE]
        ELSE IF received = << >> THEN Set(reading, "CONNECTION_ERROR")
        ELSE NotifyHandler(handling)
  BY DEF ReadSocket
<1> HIDE DEF reading
<1>5. reading \in Connections /\ reading.sm.state # "INACTIVE"
  BY <1>3 DEF Advances
<1>6. Advances(reading, [reading EXCEPT !.asserts = FALSE])
  BY <1>5, AssertFails
<1>7. Advances(reading, Set(reading, "CONNECTION_ERROR"))
  BY <1>5, SetAdvances DEF ConnectionStates
<1>8. Advances(reading, NotifyHandler(handling))
  <2>1. reading.input \o received \in Seq(Segments)
    BY <1>5, ConnectionFields
  <2>2. Advances(reading, filled)
    BY <1>5, <2>1 DEF Advances, Connections
  <2>3. Advances(filled, handling)
    BY <2>2, SetAdvances DEF Advances, ConnectionStates
  <2>4. Advances(handling, NotifyHandler(handling))
    BY <2>3, NotifyHandlerAdvances DEF Advances
  <2> QED
    BY <2>2, <2>3, <2>4, AdvancesTransitive
<1> QED
  BY <1>3, <1>4, <1>6, <1>7, <1>8, AdvancesTransitive

LEMMA WriteBeginAdvances ==
    ASSUME NEW c \in Connections
    PROVE  Advances(c, WriteBegin(c))
<1> DEFINE writing == Set(c, "WRITING")
<1>1. Advances(c, writing)
  BY SetAdvances DEF ConnectionStates
<1>2. WriteBegin(c) =
        IF writing.sm.state = "WRITING" /\ None \in {c.socket, c.handler}
        THEN [writing EXCEPT !.asserts = FALSE] ELSE writing
  <2>1. writing = [c EXCEPT !.sm = writing.sm]
    BY SetType DEF ConnectionStates
  <2>2. c.socket = writing.socket /\ c.handler = writing.handler
    BY <2>1 DEF Connections
  <2> QED
    BY <2>2 DEF WriteBegin
<1> HIDE DEF writing
<1>3. Advances(writing, [writing EXCEPT !.asserts = FALSE])
  BY <1>1, AssertFails DEF Advances
<1> QED
  BY <1>1, <1>2, <1>3, AdvancesTransitive

LEMMA WriteEndAdvances ==
    ASSUME NEW c \in Connections, c.sm.state # "INACTIVE", NEW sent \in Nat
    PROVE  Advances(c, WriteEnd(c, sent))
<1> DEFINE rest    == [c EXCEPT !.output = SubSeq(@, sent + 1, Len(@))]
           emptied == [c EXCEPT !.output = << >>]
           ended   == TimerEnd([emptied EXCEPT !.input = << >>])
<1>1. \/ Set(emptied, "HANDLING") = WriteEnd(c, sent)
      \/ Set(emptied, "DONE") = WriteEnd(c, sent)
      \/ Set(ended, "READY_TO_READ") = WriteEnd(c, sent)
      \/ /\ sent < Len(c.output)
         /\ Set(rest, "READY_TO_WRITE") = WriteEnd(c, sent)
  BY DEF WriteEnd
<1>2. Advances(c, emptied)
  BY NoBytes DEF Advances, Connections
<1>3. Advances(c, ended)
  <2> DEFINE dry == [emptied EXCEPT !.input = << >>]
  <2>1. Advances(c, dry)
    BY NoBytes DEF Advances, Connections
  <2> HIDE DEF dry
  <2>2. Advances(dry, TimerEnd(dry))
    BY <2>1, TimerType DEF Advances
  <2> QED
    BY <2>1, <2>2, AdvancesTransitive DEF dry
<1>4. ASSUME sent < Len(c.output) PROVE Advances(c, rest)
  <2> DEFINE o == c.output
  <2>1. o \in Seq(Targets \X Nat) /\ Len(o) \in Nat
    BY ConnectionFields
  <2> HIDE DEF o
  <2>2. SubSeq(o, sent + 1, Len(o)) \in Seq(Targets \X Nat)
    BY <2>1
  <2>3. rest = [c EXCEPT !.output = SubSeq(o, sent + 1, Len(o))]
    BY DEF o
  <2> QED
    BY <2>2, <2>3 DEF Advances, Connections
<1> HIDE DEF rest, emptied, ended
<1>5. ASSUME NEW d, Advances(c, d), NEW s \in ConnectionStates, s # "INACTIVE"
      PROVE  Advances(c, Set(d, s))
  BY <1>5, SetAdvances, AdvancesTransitive DEF Advances
<1> QED
  BY <1>1, <1>2, <1>3, <1>4, <1>5 DEF ConnectionStates

\* halt() leaves a connection without a socket, INACTIVE or, when its time ran out on
\* the way, in error.
LEMMA HaltReleases ==
    ASSUME NEW c \in Connections, NEW lapses \in BOOLEAN
    PROVE  /\ halt(c, lapses) \in Connections
           /\ halt(c, lapses).socket = None
           /\ halt(c, lapses).sm.state \in {"INACTIVE", "CONNECTION_ERROR"}
<1> DEFINE seen    == GetState(c)
           cleared == [seen EXCEPT !.sm = CSM!Cleared]
           settled == CASE seen.sm.state = "CONNECTION_ERROR" -> TimerCancel(cleared)
                        [] seen.sm.state = "DONE" -> TimerEnd(seen)
                        [] OTHER -> seen
           late    == IF lapses THEN [settled EXCEPT !.sm.age = StateTimeOut] ELSE settled
<1>1. seen \in Connections
  BY GetStateType
<1>2. cleared \in Connections
  <2>1. CSM!Cleared \in CSM!Machine
    BY DEF CSM!Cleared, CSM!Entered, CSM!Machine, ConnectionStates
  <2> QED
    BY <1>1, <2>1 DEF Connections
<1>3. halt(c, lapses) =
        [Set(late, "INACTIVE") EXCEPT !.input = << >>, !.output = << >>, !.socket = None]
  BY DEF halt
<1>4. settled \in Connections
  <2>1. TimerCancel(cleared) \in Connections
    BY <1>2, TimerType
  <2>2. TimerEnd(seen) \in Connections
    BY <1>1, TimerType
  <2> QED
    BY <1>1, <2>1, <2>2
<1> HIDE DEF settled
<1>5. late \in Connections
  <2>1. [settled.sm EXCEPT !.age = StateTimeOut] \in CSM!Machine
    BY <1>4, ConnectionFields, ConnectionAssumption DEF CSM!Machine
  <2> QED
    BY <1>4, <2>1 DEF Connections
<1> HIDE DEF late
<1>6. /\ Set(late, "INACTIVE") \in Connections
      /\ Set(late, "INACTIVE").sm.state \in {"INACTIVE", "CONNECTION_ERROR"}
  BY <1>5, SetType DEF ConnectionStates
<1> QED
  BY <1>3, <1>6, NoBytes, ZenonT(60) DEF Connections
=============================================================================
