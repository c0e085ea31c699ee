---------------------------- MODULE PollingServer ----------------------------
(***************************************************************************)
(* The server loop of src/src/polling_server.cpp over the connection pool  *)
(* of src/src/tcp_connection_pool.cpp: one thread that polls, accepts,     *)
(* reads, writes and cleans up, while clients connect, send, receive and   *)
(* leave, and time passes.  The sockets are the kernel's: what a client    *)
(* has sent waits in `inbox`, what send() took waits to be received.       *)
(*                                                                         *)
(* The loop is stepped through by `pc`:                                    *)
(*    "poll"    setup_fds and poll                                         *)
(*    "accept"  accept_new_connection                                      *)
(*    "handle"  handle_connections, one polled socket a step               *)
(*    "write"   the send loop of TcpConnection::write, one send() a step   *)
(*    "clean"   connection_pool.clean_up                                   *)
(***************************************************************************)
EXTENDS TcpConnection, FiniteSets

CONSTANTS
    Slots,           \* ids of the pool's connections a socket may be given
    Descriptors,     \* descriptors the process may be given for sockets
    ClientSegments,  \* the segments clients send
    CanLeave,        \* the clients that may close their end
    SendBuffer,      \* parts the kernel buffers for a client
    SigpipeIgnored,  \* the program that uses the server ignores SIGPIPE; nothing in src/ does
    Load,            \* bound: connections open or waiting at a time
    MaxSegments,     \* bound: segments each client sends
    MaxSendFaults,   \* bound: sends that fail while the client is there
    MaxLapses        \* bound: timeouts that run out

ASSUME ServerAssumption ==
    /\ Slots \subseteq Nat \ {0} /\ IsFiniteSet(Slots)
    /\ Descriptors \subseteq Nat \ {0}
    /\ ClientSegments \subseteq Segments
    /\ CanLeave \subseteq Clients
    /\ SendBuffer \in Nat \ {0} /\ SigpipeIgnored \in BOOLEAN
    /\ {Load, MaxSendFaults, MaxLapses} \subseteq Nat
    /\ MaxSegments \in [Clients -> Nat]

VARIABLES
    conn,       \* the pool: slot -> connection
    pc,         \* where the loop is
    listening,  \* POLLIN on the server socket
    pollin,     \* slots whose sockets reported POLLIN
    pollout,    \* slots whose sockets reported POLLOUT
    polled,     \* slots in the poll list that are still to be handled
    sent,       \* bytes_sent of the send loop
    crashed     \* why the process died, "no" while it runs

serverVars == <<conn, pc, listening, pollin, pollout, polled, sent, crashed>>

VARIABLES
    client,     \* client -> "new", "open" or "gone" (it closed its end)
    backlog,    \* clients waiting to be accepted
    requested,  \* client -> all segments it has sent
    inbox,      \* client -> segments the server has not read yet
    accepted,   \* client -> all parts send() took for it
    taken,      \* client -> number of those parts it has received
    sendFaults, \* sends that failed so far while the client was there
    lapses      \* timeouts that ran out so far

clientVars == <<client, backlog, requested, inbox, accepted, taken>>
vars == <<serverVars, clientVars, sendFaults, lapses>>

Running == crashed = "no" /\ \A i \in Slots : conn[i].asserts

Init ==
    /\ conn = [i \in Slots |-> NewConnection]
    /\ pc = "poll"
    /\ listening = FALSE
    /\ pollin = {} /\ pollout = {} /\ polled = {}
    /\ sent = 0
    /\ crashed = "no"
    /\ client = [c \in Clients |-> "new"]
    /\ backlog = {}
    /\ requested = [c \in Clients |-> << >>]
    /\ inbox = [c \in Clients |-> << >>]
    /\ accepted = [c \in Clients |-> << >>]
    /\ taken = [c \in Clients |-> 0]
    /\ sendFaults = 0
    /\ lapses = 0

-----------------------------------------------------------------------------
(* The kernel's view of the sockets *)

Owned(c) == \E i \in Slots : conn[i].socket = c

Connected(c) == c \in backlog \/ Owned(c)

Readable(c) == inbox[c] # << >> \/ client[c] = "gone"

Room(c) == SendBuffer - (Len(accepted[c]) - taken[c])

Writable(c) == Room(c) > 0 \/ client[c] = "gone"

FreeDescriptors == Descriptors \ {i \in Slots : conn[i].socket # None}

-----------------------------------------------------------------------------
(* The server loop *)

\* setup_fds: every connection that is not INACTIVE is polled, and looking at its
\* state moves an expired one to the error state.  poll returns what is ready; on a
\* slot without a socket it reports nothing the server looks at (POLLNVAL).
SetupAndPoll ==
    /\ pc = "poll" /\ Running
    /\ conn' = [i \in Slots |-> GetState(conn[i])]
    /\ polled' = {i \in Slots : conn'[i].sm.state # "INACTIVE"}
    /\ pollin' = {i \in polled' : conn[i].socket # None /\ Readable(conn[i].socket)}
    /\ pollout' = {i \in polled' : conn[i].socket # None /\ Writable(conn[i].socket)}
    /\ listening' = (backlog # {})
    /\ pc' = "accept"
    /\ UNCHANGED <<sent, crashed, clientVars, sendFaults, lapses>>

\* Mutant: the connection is not given a handler of its own.
record_connection_WithoutHandler(c, s) == accept_socket(c, s)

record_connection(c, s) == set_handler(accept_socket(c, s), NewHandler)

\* accept() answers with the lowest free descriptor, which is the index of the
\* connection that record_connection hands the socket to.  When there is none,
\* tcp_accept returns an empty pointer and decorate dereferences it; a descriptor
\* past the pool makes record_connection index out of range.
Accept ==
    /\ pc = "accept" /\ Running /\ listening
    /\ IF FreeDescriptors = {}
       THEN /\ crashed' = "accept_failed"
            /\ UNCHANGED <<conn, backlog>>
       ELSE \E c \in backlog :
            LET fd == CHOOSE d \in FreeDescriptors : \A e \in FreeDescriptors : d <= e
            IN  /\ backlog' = backlog \ {c}
                /\ IF fd \in Slots
                   THEN /\ conn' = [conn EXCEPT ![fd] =
                                      record_connection(@, c)]
                        /\ UNCHANGED crashed
                   ELSE /\ crashed' = "descriptor_past_pool"
                        /\ UNCHANGED conn
    /\ listening' = FALSE
    /\ pc' = "handle"
    /\ UNCHANGED <<pollin, pollout, polled, sent, sendFaults, lapses,
                   client, requested, inbox, accepted, taken>>

\* Mutant: accept is called whether or not a client waits.
NothingToAccept_CallsAccept ==
    /\ pc = "accept" /\ Running /\ ~listening /\ backlog # {}
    /\ pc' = "handle"
    /\ UNCHANGED <<conn, listening, pollin, pollout, polled, sent, crashed,
                   clientVars, sendFaults, lapses>>

NothingToAccept ==
    /\ pc = "accept" /\ Running /\ ~listening
    /\ pc' = "handle"
    /\ UNCHANGED <<conn, listening, pollin, pollout, polled, sent, crashed,
                   clientVars, sendFaults, lapses>>

\* The poll list is in the order of the slots.
NextPolled(i) == i \in polled /\ \A j \in polled : i <= j

\* Socket i is done with in this round.  Its events stay in the poll list of the code
\* until setup_fds clears the list, but nobody looks at them again.
Handled(i) ==
    /\ polled' = polled \ {i}
    /\ pollin' = pollin \ {i}
    /\ pollout' = pollout \ {i}

\* Mutant: whether there is anything to read is not looked at.
MayRead_IgnoresEvents(i) == GetState(conn[i]).sm.state = "READY_TO_READ"

\* handle_connections looks at the state once per socket and decides both about
\* reading and about writing by it, with the events of the poll at the start of the round.
MayRead(i) == i \in pollin /\ GetState(conn[i]).sm.state = "READY_TO_READ"
MayWrite(i) == i \in pollout /\ GetState(conn[i]).sm.state = "READY_TO_WRITE"

\* recv takes a non-empty prefix of what has arrived, or reports the end of the stream;
\* it fails when the client reset the connection, and when nothing has arrived
\* (MSG_DONTWAIT).
HandleRead(i) ==
    /\ pc = "handle" /\ Running /\ NextPolled(i) /\ MayRead(i)
    /\ LET c == conn[i].socket
       IN  \E n \in 0 .. Len(inbox[c]) :
            /\ n = 0 => client[c] = "gone" \/ inbox[c] = << >>
            /\ conn' = [conn EXCEPT ![i] =
                            ReadSocket(GetState(@), SubSeq(inbox[c], 1, n))]
            /\ inbox' = [inbox EXCEPT ![c] = SubSeq(@, n + 1, Len(@))]
    /\ Handled(i)
    /\ UNCHANGED <<pc, listening, sent, crashed, sendFaults, lapses,
                   client, backlog, requested, accepted, taken>>

HandleWrite(i) ==
    /\ pc = "handle" /\ Running /\ NextPolled(i) /\ MayWrite(i)
    /\ conn' = [conn EXCEPT ![i] = WriteBegin(GetState(@))]
    /\ IF conn'[i].sm.state = "WRITING"
       THEN pc' = "write" /\ sent' = 0 /\ UNCHANGED <<pollin, pollout, polled>>
       ELSE Handled(i) /\ UNCHANGED <<pc, sent>>
    /\ UNCHANGED <<listening, crashed, clientVars, sendFaults, lapses>>

HandleNothing(i) ==
    /\ pc = "handle" /\ Running /\ NextPolled(i) /\ ~MayRead(i) /\ ~MayWrite(i)
    /\ conn' = [conn EXCEPT ![i] = GetState(@)]
    /\ Handled(i)
    /\ UNCHANGED <<pc, listening, sent, crashed, clientVars, sendFaults, lapses>>

EndOfRound ==
    /\ pc = "handle" /\ Running /\ polled = {}
    /\ pc' = "clean"
    /\ UNCHANGED <<conn, listening, pollin, pollout, polled, sent, crashed,
                   clientVars, sendFaults, lapses>>

Unsent(i) == Len(conn[i].output) - sent

Sending(i) == pc = "write" /\ Running /\ NextPolled(i)

\* One send() that takes n parts.  It blocks while the kernel has no room for any,
\* and with it the whole server.  What is sent to a client that is gone is taken
\* and lost.
Send(i) ==
    /\ Sending(i) /\ Unsent(i) > 0
    /\ LET c == conn[i].socket
       IN  \E n \in 1 .. Unsent(i) :
            /\ n <= Room(c) \/ client[c] = "gone"
            /\ accepted' = [accepted EXCEPT ![c] =
                                @ \o SubSeq(conn[i].output, sent + 1, sent + n)]
            /\ sent' = sent + n
    /\ UNCHANGED <<conn, pc, listening, pollin, pollout, polled, crashed,
                   sendFaults, lapses, client, backlog, requested, inbox, taken>>

LeaveWrite(i) ==
    /\ conn' = [conn EXCEPT ![i] = WriteEnd(@, sent)]
    /\ pc' = "handle"
    /\ sent' = 0
    /\ Handled(i)
    /\ UNCHANGED <<listening, crashed, clientVars, lapses>>

\* send() fails: the client is gone, or the kernel is short of something.
SendFails(i) ==
    /\ Sending(i) /\ Unsent(i) > 0
    /\ \/ client[conn[i].socket] = "gone" /\ UNCHANGED sendFaults
       \/ sendFaults < MaxSendFaults /\ sendFaults' = sendFaults + 1
    /\ LeaveWrite(i)

\* send() finds the connection broken: without MSG_NOSIGNAL it raises SIGPIPE, which ends
\* a process that does not ignore it.
BrokenPipe(i) ==
    /\ Sending(i) /\ Unsent(i) > 0
    /\ client[conn[i].socket] = "gone" /\ ~SigpipeIgnored
    /\ crashed' = "broken_pipe"
    /\ UNCHANGED <<conn, pc, listening, pollin, pollout, polled, sent, clientVars,
                   sendFaults, lapses>>

AllSent(i) ==
    /\ Sending(i) /\ Unsent(i) = 0
    /\ LeaveWrite(i)
    /\ UNCHANGED sendFaults

\* Mutants: a handler that wants to be called back is not, and a connection in error
\* is left alone.
CleanUpOne_ForgetsHandling(c, late) ==
    LET seen == GetState(c)
    IN  IF seen.sm.state \in {"CONNECTION_ERROR", "DONE"} THEN halt(seen, late) ELSE seen

CleanUpOne_LeavesErrors(c, late) ==
    LET seen == GetState(c)
    IN  CASE seen.sm.state = "HANDLING" -> ContinueHandling(seen)
          [] seen.sm.state = "DONE" -> halt(seen, late)
          [] OTHER -> seen

\* clean_up for one connection.
CleanUpOne(c, late) ==
    LET seen == GetState(c)
    IN  CASE seen.sm.state = "HANDLING" -> ContinueHandling(seen)
          [] seen.sm.state \in {"CONNECTION_ERROR", "DONE"} -> halt(seen, late)
          [] OTHER -> seen

\* A time may also run out inside halt(), on the slots in `late`.
CleanUp ==
    /\ pc = "clean" /\ Running
    /\ \E late \in SUBSET Slots :
         /\ lapses' = lapses + Cardinality(late)
         /\ lapses' <= MaxLapses
         /\ conn' = [i \in Slots |-> CleanUpOne(conn[i], i \in late)]
    /\ inbox' = [c \in Clients |->
                    IF \E i \in Slots : conn[i].socket = c /\ conn'[i].socket = None
                    THEN << >> ELSE inbox[c]]
    /\ pc' = "poll"
    /\ UNCHANGED <<listening, pollin, pollout, polled, sent, crashed, sendFaults,
                   client, backlog, requested, accepted, taken>>

Server ==
    \/ SetupAndPoll
    \/ Accept
    \/ NothingToAccept
    \/ \E i \in Slots : \/ HandleRead(i)
                        \/ HandleWrite(i)
                        \/ HandleNothing(i)
                        \/ Send(i)
                        \/ SendFails(i)
                        \/ BrokenPipe(i)
                        \/ AllSent(i)
    \/ EndOfRound
    \/ CleanUp

-----------------------------------------------------------------------------
(* Clients and time *)

Busy == {c \in Clients : Connected(c)}

Connect(c) ==
    /\ client[c] = "new" /\ Cardinality(Busy) < Load
    /\ client' = [client EXCEPT ![c] = "open"]
    /\ backlog' = backlog \cup {c}
    /\ UNCHANGED <<serverVars, requested, inbox, accepted, taken, sendFaults, lapses>>

SendSegment(c) ==
    /\ client[c] = "open" /\ Connected(c) /\ Len(requested[c]) < MaxSegments[c]
    /\ \E s \in ClientSegments :
         /\ requested' = [requested EXCEPT ![c] = Append(@, s)]
         /\ inbox' = [inbox EXCEPT ![c] = Append(@, s)]
    /\ UNCHANGED <<serverVars, client, backlog, accepted, taken, sendFaults, lapses>>

Receive(c) ==
    /\ client[c] = "open" /\ taken[c] < Len(accepted[c])
    /\ taken' = [taken EXCEPT ![c] = @ + 1]
    /\ UNCHANGED <<serverVars, client, backlog, requested, inbox, accepted,
                   sendFaults, lapses>>

Leave(c) ==
    /\ c \in CanLeave /\ client[c] = "open" /\ Connected(c)
    /\ client' = [client EXCEPT ![c] = "gone"]
    /\ UNCHANGED <<serverVars, backlog, requested, inbox, accepted, taken,
                   sendFaults, lapses>>

\* Time passes on the clock of slot i.
Tick(i) ==
    /\ lapses < MaxLapses
    /\ conn[i].sm.state \in DOMAIN state_time_outs
    /\ conn[i].sm.age < StateTimeOut
    /\ conn' = [conn EXCEPT ![i].sm = CSM!Elapsed(@)]
    /\ lapses' = lapses + 1
    /\ UNCHANGED <<pc, listening, pollin, pollout, polled, sent, crashed,
                   clientVars, sendFaults>>

Environment ==
    \/ \E c \in Clients : Connect(c) \/ SendSegment(c) \/ Receive(c) \/ Leave(c)
    \/ \E i \in Slots : Tick(i)

Next == Server \/ Environment

Spec == Init /\ [][Next]_vars

\* The loop always has a step to take but one: send() waits for a client that stays
\* and does not receive.
ServerCanStep ==
    /\ Running
    /\ pc = "write" =>
          \A i \in polled : NextPolled(i) =>
              Unsent(i) = 0 \/ Writable(conn[i].socket)

\* What every step of the loop changes, and only the loop (BrokenPipe ends it).
loop == <<pc, polled, sent>>

\* For programs that ignore SIGPIPE: the server thread is scheduled, and clients that stay
\* go on receiving.  Nothing makes the kernel run short, so a send() that waits is not
\* assumed to fail.  The first conjunct is weak fairness of Server, spelled out because
\* TLC is slow on ENABLED Server: without failing sends ServerCanStep is ENABLED Server
\* (the invariant BlocksOnlyInSend of PollingServerProps), and a step changes `loop` iff
\* it is a step of Server.
FairSpec ==
    /\ Spec
    /\ []<>~ServerCanStep \/ []<><<TRUE>>_loop
    /\ \A c \in Clients : WF_vars(Receive(c))
=============================================================================
