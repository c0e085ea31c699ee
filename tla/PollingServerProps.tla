------------------------- MODULE PollingServerProps -------------------------
(***************************************************************************)
(* What must hold of PollingServer: invariants, action properties, the     *)
(* refinement of SessionService and liveness.                              *)
(***************************************************************************)
EXTENDS PollingServer, SequencesExt

TypeOK ==
    /\ conn \in [Slots -> Connections]
    /\ pc \in {"poll", "accept", "handle", "write", "clean"}
    /\ listening \in BOOLEAN
    /\ pollin \subseteq polled /\ pollout \subseteq polled /\ polled \subseteq Slots
    /\ sent \in Nat
    /\ crashed \in {"no", "accept_failed", "descriptor_past_pool", "broken_pipe"}
    /\ client \in [Clients -> {"new", "open", "gone"}]
    /\ backlog \subseteq Clients
    /\ requested \in [Clients -> Seq(Segments)]
    /\ inbox \in [Clients -> Seq(Segments)]
    /\ accepted \in [Clients -> Seq(Targets \X Nat)]
    /\ taken \in [Clients -> Nat]
    /\ sendFaults \in Nat /\ lapses \in Nat

\* The state of a connection and its socket go together (halt and accept_socket):
\* a connection that works has a socket and a handler, one that is INACTIVE has no
\* socket.  Only a connection in error may be either, because the time can run out
\* inside halt().  No client is served twice or still waits when it is served.
SocketOwnership ==
    /\ \A i \in Slots :
         /\ conn[i].sm.state = "INACTIVE" => conn[i].socket = None
         /\ conn[i].sm.state \notin {"INACTIVE", "CONNECTION_ERROR"} =>
               conn[i].socket # None /\ conn[i].handler # None
         /\ conn[i].socket \notin backlog
    /\ \A i, j \in Slots :
         conn[i].socket = conn[j].socket => i = j \/ conn[i].socket = None

\* A slot that is given up keeps nothing for the next client: both streams are
\* empty and the response timer stands still (halt, tcp_connection.cpp:118-140).
NothingLeftBehind ==
    \A i \in Slots :
        conn[i].socket = None =>
            conn[i].input = << >> /\ conn[i].output = << >> /\ ~conn[i].timing

\* The two state machines of a connection agree whenever the loop is between two
\* calls: the connection never rests in READING, it writes only what a handler has
\* finished or will continue, it rests in HANDLING only for a handler that asked to
\* be called back, which then holds its request, or that refuses the second request of
\* a connection that was kept, and everything written is out when it waits for the
\* handler, for more input or for the end.
LayersAgree ==
    \A i \in Slots :
        LET c == conn[i]
            h == c.handler
        IN  /\ c.sm.state # "READING"
            /\ c.sm.state \in {"READY_TO_WRITE", "WRITING"} =>
                  h.sm.state \in {"FINISHED_NO_WAIT", "FINISHED_WAIT", "RECALL"}
            /\ c.sm.state = "HANDLING" =>
                  \/ h.sm.state = "RECALL"
                  \/ h.sm.state = "HANDLER_ERROR" /\ c.measured = 1
            /\ c.sm.state = "DONE" => h.sm.state = "FINISHED_NO_WAIT"
            /\ c.sm.state = "READY_TO_READ" =>
                  h.sm.state \in {"READY_TO_HANDLE", "FINISHED_WAIT"}
            /\ c.sm.state \in {"HANDLING", "DONE", "READY_TO_READ"} => c.output = << >>
            /\ h # None => (h.request # None <=> h.sm.state = "RECALL")

\* The complete answers to what a client sent: the response to the first request, nothing
\* when that cannot be parsed; a request split in two is answered only if both halves
\* had arrived when the server read the first.
AnswersTo(r) ==
    IF r = << >> THEN {<< >>}
    ELSE CASE r[1].kind = "full" -> {Response(r[1].target)}
           [] r[1].kind = "head" ->
                {<< >>} \cup {Response(t) : t \in
                    {x \in {r[1].target} :
                        Len(r) > 1 /\ r[2] = [kind |-> "tail", target |-> x]}}
           [] OTHER -> {<< >>}

Answers(c) == AnswersTo(requested[c])

\* What is written on slot i and no send() has taken yet.
Unwritten(i) ==
    LET o == conn[i].output
    IN  IF pc = "write" /\ NextPolled(i) THEN SubSeq(o, sent + 1, Len(o)) ELSE o

\* What the connection of a client still holds for it.
Held(c) ==
    IF Owned(c) THEN Unwritten(CHOOSE i \in Slots : conn[i].socket = c) ELSE << >>

\* However the sends are cut up, fail and are retried, a client is never sent a part
\* that is not the next one of its own response: nothing is lost, repeated,
\* reordered or meant for the client that had the slot before.
ResponseIntegrity ==
    \A c \in Clients : \E a \in Answers(c) : IsPrefix(accepted[c] \o Held(c), a)

\* A response is measured once, when the whole of it was sent, and never when the
\* connection broke off (response_timer.end and cancel).
MeasuredIffAnswered ==
    [][\A i \in Slots :
         LET c == conn[i].socket
         IN  (c # None /\ conn'[i].socket # c) =>
                /\ conn'[i].measured <= 1
                /\ conn'[i].measured = 1 => accepted[c] \in Answers(c)
                /\ (conn[i].sm.state = "DONE" /\ ~CSM!TimedOut(conn[i].sm)) =>
                      conn'[i].measured = 1]_vars

\* What poll reported at the start of a round is acted on later in it, after an accept, the
\* sockets before and their sends: still no connection breaks off, by an empty read or a
\* change of state that is not allowed, unless its client left or its time ran out.
BreaksOffOnlyLeavers ==
    [][\A i \in Slots :
         LET c == conn[i].socket
         IN  (/\ c # None /\ conn'[i].socket = c
              /\ conn[i].sm.state # "CONNECTION_ERROR"
              /\ conn'[i].sm.state = "CONNECTION_ERROR")
                => client[c] = "gone" \/ CSM!TimedOut(conn[i].sm)]_vars

\* No assert of the code fails and no null or missing object is used, as long as
\* the process gets no more sockets than the pool has slots and SIGPIPE is ignored.
NoCrash == Running

\* One thread serves everybody: the only call that stops it is a send() to a client
\* that stays connected and has no room left (tcp_socket.cpp:163 sends without
\* MSG_DONTWAIT); everywhere else the loop goes on, whatever the clients do.
\* Checked with MaxSendFaults = 0.
BlocksOnlyInSend == ServerCanStep <=> ENABLED Server

-----------------------------------------------------------------------------
(* The server implements the service *)

Phase(c) ==
    CASE client[c] = "new" -> "away"
      [] c \in backlog -> "waiting"
      [] Owned(c) -> "served"
      [] OTHER -> "over"

Service == INSTANCE SessionService WITH
    phase     <- [c \in Clients |-> Phase(c)],
    owner     <- [i \in Slots |-> conn[i].socket],
    answer    <- accepted,
    Responses <- {Response(t) : t \in Targets}

\* Every step of the server, of a client or of time is a step of the service or
\* does not concern it.
ImplementsService == Service!Spec

-----------------------------------------------------------------------------
(* Liveness, under FairSpec *)

\* A client that sends a full request and stays receives the whole response, also when
\* sends fail on the way, unless a timeout runs out.
EveryRequestAnswered ==
    \A c \in Clients :
        (Connected(c) /\ requested[c] # << >> /\ requested[c][1].kind = "full")
            ~> \/ accepted[c] \in Answers(c) /\ taken[c] = Len(accepted[c])
               \/ client[c] = "gone"
               \/ lapses > 0

\* A connection that is done, in error or whose time has run out gives up its
\* socket, so the pool does not fill up with them.
SlotsReclaimed ==
    \A c \in Clients :
        (\E i \in Slots : /\ conn[i].socket = c
                          /\ conn[i].sm.state = "DONE" \/ CSM!Doomed(conn[i].sm))
            ~> ~Owned(c)

\* A client that leaves while its connection waits for a request frees its slot.
IdleLeaverReclaimed ==
    \A c \in Clients :
        (\E i \in Slots : /\ conn[i].socket = c /\ conn[i].sm.state = "READY_TO_READ"
                          /\ client[c] = "gone" /\ inbox[c] = << >>)
            ~> ~Owned(c)

-----------------------------------------------------------------------------
(* What comments, tests and asserts say and the code does not do *)

\* tcp_connection.test.cpp:347-349: writes that keep failing put the connection into
\* the error state, which would free the slot of a client that is gone.
LeaverReclaimed ==
    \A i \in Slots, c \in Clients :
        (conn[i].socket = c /\ client[c] = "gone") ~> conn[i].socket # c

\* tcp_connection.test.cpp:177-181: a request that does not arrive in one piece makes
\* the connection read more, so no connection is done before it was answered.
SplitRequestAwaited ==
    \A i \in Slots :
        conn[i].sm.state = "DONE" =>
            LET c == conn[i].socket
            IN  requested[c][1].kind = "head" => accepted[c] # << >>
=============================================================================
