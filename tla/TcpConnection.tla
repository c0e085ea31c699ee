---------------------------- MODULE TcpConnection ----------------------------
(***************************************************************************)
(* One connection of the pool: TcpConnection of src/src/tcp_connection.cpp *)
(* with its state machine, its socket, its handler, its two streams and    *)
(* its response timer, as operators on a connection record.  A call made   *)
(* on the connection is one operator; write(), which may block in the      *)
(* middle, is the pair WriteBegin and WriteEnd around the send loop that   *)
(* PollingServer steps through.                                            *)
(***************************************************************************)
EXTENDS HttpHandler

CONSTANTS
    Clients,        \* the peers; a socket is named by the client at its other end
    MaxResetCount,  \* 1000 in tcp_connection.cpp:22-29
    StateTimeOut    \* 1'000'000'000 ms in tcp_connection.cpp:31-39

ASSUME ConnectionAssumption ==
    /\ None \notin Clients \cup Handlers
    /\ MaxResetCount \in Nat
    /\ StateTimeOut \in Nat \ {0}

ConnectionStates ==
    {"READY_TO_READ", "READING", "HANDLING", "READY_TO_WRITE", "WRITING",
     "DONE", "INACTIVE", "CONNECTION_ERROR"}

states_transition_map ==
    [READY_TO_READ  |-> {"INACTIVE", "READING"},
     READING        |-> {"INACTIVE", "HANDLING"},
     HANDLING       |-> {"INACTIVE", "READY_TO_READ", "READY_TO_WRITE"},
     READY_TO_WRITE |-> {"INACTIVE", "WRITING"},
     WRITING        |-> {"INACTIVE", "READY_TO_WRITE", "READY_TO_READ", "DONE", "HANDLING"},
     DONE           |-> {"INACTIVE"},
     INACTIVE       |-> {"READY_TO_READ"}]

max_reset_counts ==
    [s \in {"READY_TO_READ", "READING", "HANDLING", "READY_TO_WRITE", "WRITING"} |->
        MaxResetCount]

state_time_outs ==
    [s \in {"READY_TO_READ", "READING", "HANDLING", "READY_TO_WRITE", "WRITING", "DONE"} |->
        StateTimeOut]

CSM == INSTANCE StateManager WITH
    States         <- ConnectionStates,
    InitialState   <- "READY_TO_READ",
    ErrorState     <- "CONNECTION_ERROR",
    TransitionMap  <- states_transition_map,
    MaxResetCounts <- max_reset_counts,
    TimeOuts       <- state_time_outs

\* timing: the response timer runs.  measured: the durations it has forwarded to
\* its metric since the socket was accepted (a history of timer.end()).
\* asserts: the asserts and the pointer dereferences of the class went well so far.
Connections ==
    [sm : CSM!Machine, socket : Clients \cup {None}, handler : Handlers \cup {None},
     input : Seq(Segments), output : Seq(Targets \X Nat),
     timing : BOOLEAN, measured : Nat, asserts : BOOLEAN]

\* The constructor the pool uses: READY_TO_READ first, then set to INACTIVE.
NewConnection ==
    [sm |-> CSM!SetState(CSM!Cleared, "INACTIVE"), socket |-> None, handler |-> None,
     input |-> << >>, output |-> << >>,
     timing |-> FALSE, measured |-> 0, asserts |-> TRUE]

Set(c, s) == [c EXCEPT !.sm = CSM!SetState(@, s)]

\* Mutant: get_state() only looks.
GetState_OnlyLooks(c) == c

\* get_state() also moves a connection whose time has run out to the error state.
GetState(c) == [c EXCEPT !.sm = CSM!Observed(@)]

\* Duration::start(), end() and cancel() on the response timer.
TimerStart(c)  == [c EXCEPT !.timing = TRUE]
TimerEnd(c)    == IF c.timing THEN [c EXCEPT !.timing = FALSE, !.measured = @ + 1] ELSE c
TimerCancel(c) == [c EXCEPT !.timing = FALSE]

accept_socket(c, s) ==
    Set([c EXCEPT !.socket = s, !.measured = 0], "READY_TO_READ")

set_handler(c, h) == [c EXCEPT !.handler = h]

\* notify(Handler&): what the handler wants decides the next state.
NotifiedByHandler(c) ==
    LET h == c.handler
    IN  IF wants_to_write(h) \/ wants_to_live(h) THEN Set(c, "READY_TO_WRITE")
        ELSE IF wants_more_bytes(h) THEN Set(c, "READY_TO_READ")
        ELSE IF wants_to_be_calledback(h) THEN Set(c, "READY_TO_WRITE")
        ELSE [c EXCEPT !.asserts = FALSE]

\* handler->notify(*this, *this), which calls back unless it returns early.
NotifyHandler(c) ==
    IF c.handler = None THEN [c EXCEPT !.asserts = FALSE] ELSE
    LET turn == HandlerTurn(c.handler, c.input)
        next == [c EXCEPT !.handler = turn.handler,
                          !.input   = turn.input,
                          !.output  = @ \o turn.written]
    IN  IF turn.returns THEN next ELSE NotifiedByHandler(next)

\* notify(READ_SOCKET): the timer is started, then read().  `received` is what the
\* socket had to offer; tcp_read reports the end of the stream or an error when it
\* is empty.
ReadSocket(c, received) ==
    LET reading == Set(TimerStart(c), "READING")
    IN  IF reading.sm.state = "CONNECTION_ERROR" THEN reading
        ELSE IF c.socket = None THEN [reading EXCEPT !.asserts = FALSE]
        ELSE IF received = << >> THEN Set(reading, "CONNECTION_ERROR")
        ELSE NotifyHandler(Set([reading EXCEPT !.input = @ \o received], "HANDLING"))

\* notify(WRITE_SOCKET) up to the send loop, which is entered in state WRITING only.
WriteBegin(c) ==
    LET writing == Set(c, "WRITING")
    IN  IF writing.sm.state = "WRITING" /\ None \in {c.socket, c.handler}
        THEN [writing EXCEPT !.asserts = FALSE] ELSE writing

\* Mutant: the remainder starts one part too late.
WriteEnd_RemainderOffByOne(c, sent) ==
    IF sent < Len(c.output)
    THEN Set([c EXCEPT !.output = SubSeq(@, sent + 2, Len(@))], "READY_TO_WRITE")
    ELSE Set([c EXCEPT !.output = << >>],
             IF wants_to_be_calledback(c.handler) THEN "HANDLING" ELSE "DONE")

\* Mutant: after an error the whole output is sent again.
WriteEnd_ResendsAll(c, sent) ==
    IF sent < Len(c.output)
    THEN Set(c, "READY_TO_WRITE")
    ELSE Set([c EXCEPT !.output = << >>],
             IF wants_to_be_calledback(c.handler) THEN "HANDLING" ELSE "DONE")

\* Mutant: a handler that wants to be called back is not asked again.
WriteEnd_NeverCallsBack(c, sent) ==
    IF sent < Len(c.output)
    THEN Set([c EXCEPT !.output = SubSeq(@, sent + 1, Len(@))], "READY_TO_WRITE")
    ELSE Set([c EXCEPT !.output = << >>], "DONE")

\* Lines 207-236: after the send loop, which got `sent` parts of the output out.
WriteEnd(c, sent) ==
    LET emptied == [c EXCEPT !.output = << >>]
    IN  IF sent < Len(c.output)
        THEN Set([c EXCEPT !.output = SubSeq(@, sent + 1, Len(@))], "READY_TO_WRITE")
        ELSE IF wants_to_be_calledback(c.handler) THEN Set(emptied, "HANDLING")
        ELSE IF wants_to_live(c.handler)
             THEN Set(TimerEnd([emptied EXCEPT !.input = << >>]), "READY_TO_READ")
        ELSE Set(emptied, "DONE")

\* notify(CONTINUE_HANDLING)
ContinueHandling(c) == NotifyHandler(c)

\* Mutants: the socket is not closed, the streams keep what they hold, and a broken
\* measurement is forwarded like a good one.
halt_KeepsSocket(c, lapses) ==
    LET seen == GetState(c)
    IN  IF seen.sm.state = "CONNECTION_ERROR"
        THEN Set(TimerCancel([seen EXCEPT !.sm = CSM!Cleared]), "INACTIVE")
        ELSE Set(TimerEnd(seen), "INACTIVE")

halt_KeepsStreams(c, lapses) == [halt_KeepsSocket(c, lapses) EXCEPT !.socket = None]

halt_NeverCancels(c, lapses) ==
    LET seen == GetState(c)
        idle == IF seen.sm.state = "CONNECTION_ERROR" THEN [seen EXCEPT !.sm = CSM!Cleared]
                ELSE seen
    IN  [Set(TimerEnd(idle), "INACTIVE") EXCEPT
            !.input = << >>, !.output = << >>, !.socket = None]

\* halt().  The time may run out between its get_state() and its set_state(), when
\* `lapses` says so.
halt(c, lapses) ==
    LET seen    == GetState(c)
        settled == CASE seen.sm.state = "CONNECTION_ERROR" ->
                            TimerCancel([seen EXCEPT !.sm = CSM!Cleared])
                     [] seen.sm.state = "DONE" -> TimerEnd(seen)
                     [] OTHER -> seen
        late    == IF lapses THEN [settled EXCEPT !.sm.age = StateTimeOut] ELSE settled
    IN  [Set(late, "INACTIVE") EXCEPT !.input = << >>, !.output = << >>, !.socket = None]
=============================================================================
