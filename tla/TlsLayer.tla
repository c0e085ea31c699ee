------------------------------ MODULE TlsLayer ------------------------------
(***************************************************************************)
(* A connection whose handler is the TLS layer: TlsLayer                   *)
(* (src/src/tls/tls_layer.cpp), the callbacks it gives to Botan            *)
(* (src/src/tls/botan/callbacks.cpp) and the HttpHandler behind it, with   *)
(* one client.  The connection and the handler are those of TcpConnection  *)
(* and HttpHandler.                                                        *)
(*                                                                         *)
(* A turn of the layer is one call of its notify().  Botan calls back in   *)
(* the middle of it: for every record received, and for every record it    *)
(* has to emit, which notifies the connection each time.  A turn goes      *)
(* through these calls one by one.  Records of a client are requests (the  *)
(* segments of HttpHandler) and those of the other kinds below; records of *)
(* the server are flights of the handshake, alerts, close_notify and the   *)
(* parts of a response.                                                    *)
(*                                                                         *)
(* A send fails here as it does in PollingServer; that it may wait is left *)
(* to that module, and so is the time that runs out.                       *)
(***************************************************************************)
EXTENDS TcpConnection, SequencesExt

CONSTANTS
    Client,
    Asked,          \* the requests the client may send
    FlightRecords,  \* records of a flight of the handshake
    SigpipeIgnored, \* the program that uses the server ignores SIGPIPE; nothing in src/ does
    MaxRequests,    \* bound: requests the client sends
    MaxSendFaults   \* bound: sends that fail while the client is there

ASSUME TlsAssumption ==
    /\ Client \in Clients
    /\ Asked \subseteq Segments
    /\ {FlightRecords, MaxSendFaults} \subseteq Nat
    /\ SigpipeIgnored \in BOOLEAN

\* What a client sends but requests: its hello, its Finished, close_notify, and a record
\* Botan refuses.
Record(kind) == [kind |-> kind]
Kinds == {"hello", "finished", "bye", "bad"}

FlightRecord == <<"flight", 0>>
AlertRecord  == <<"alert", 0>>
CloseRecord  == <<"close", 0>>

\* What the layer sends that is no part of an answer.
OwnRecords == {FlightRecord, AlertRecord, CloseRecord}

VARIABLES
    conn,             \* the connection
    next,             \* the handler behind the layer
    tls_continue,
    decrypted_input,
    decrypted_output, \* never emptied
    channel,          \* Botan's: established, can_write, can_read, partial (record received)
    turn,             \* of the layer: "data" (with input) or "recall" (without);
                      \* "write" within write(), "none" between the calls
    records,          \* records received_data has not processed yet
    emits,            \* records Botan is emitting
    thrown,           \* an exception is on its way up to TlsLayer::notify
    killed            \* SIGPIPE ended the process

layerVars == <<next, decrypted_input, decrypted_output, channel, emits, thrown>>

VARIABLES
    version,   \* of TLS
    wire,      \* records on their way to the server
    said,      \* kinds of records the client has sent
    requests,  \* the requests among them
    received,  \* the records send() took for the client
    gone,      \* the client closed its end
    sendFaults \* sends that failed so far while the client was there

clientVars == <<version, wire, said, requests, received, gone, sendFaults>>
vars == <<conn, tls_continue, turn, records, killed, layerVars, clientVars>>

Init ==
    /\ conn = accept_socket(NewConnection, Client)
    /\ next = NewHandler
    /\ tls_continue = TRUE
    /\ decrypted_input = << >> /\ decrypted_output = << >>
    /\ channel = [established |-> FALSE, can_write |-> TRUE, can_read |-> TRUE,
                  partial |-> FALSE]
    /\ turn = "none" /\ records = << >> /\ emits = << >> /\ thrown = FALSE
    /\ killed = FALSE
    /\ version \in {"1.2", "1.3"}
    /\ wire = << >> /\ said = {} /\ requests = << >> /\ received = << >>
    /\ gone = FALSE /\ sendFaults = 0

State == conn.sm.state

Running == conn.asserts /\ ~killed

-----------------------------------------------------------------------------
(* What the connection is told *)

\* Mutant: the layer wants what the handler behind it wants.
Wants_NextOnly(handler, continue) == handler

\* The wants_* of the layer, as the handler whose wants_* they are equal to: write() asks
\* for wants_to_be_calledback first, and in notify() both come to the same.
Wants(handler, continue) ==
    [handler EXCEPT !.sm.state = IF wants_to_be_calledback(handler) THEN "RECALL"
                                 ELSE IF continue THEN "FINISHED_WAIT" ELSE @]

\* connection.notify(tls_layer)
Notified(c, continue) == NotifiedByHandler(set_handler(c, Wants(next, continue)))

-----------------------------------------------------------------------------
(* The loop of the server, as far as it concerns the connection *)

\* notify(READ_SOCKET): recv has n whole records to offer and perhaps a part of the next.
Read ==
    /\ Running /\ turn = "none" /\ State = "READY_TO_READ"
    /\ \E n \in 0 .. Len(wire), partial \in BOOLEAN :
         /\ n > 0 \/ (partial /\ ~channel.partial)
         /\ partial => n < Len(wire)
         /\ records' = SubSeq(wire, 1, n)
         /\ wire' = SubSeq(wire, n + 1, Len(wire))
         /\ channel' = [channel EXCEPT !.partial = partial]
    /\ conn' = Set(Set(TimerStart(conn), "READING"), "HANDLING")
    /\ turn' = "data"
    /\ UNCHANGED <<next, tls_continue, decrypted_input, decrypted_output, emits, thrown,
                   killed, version, said, requests, received, gone, sendFaults>>

ReadEnd ==
    /\ Running /\ turn = "none" /\ State = "READY_TO_READ" /\ wire = << >> /\ gone
    /\ conn' = Set(Set(TimerStart(conn), "READING"), "CONNECTION_ERROR")
    /\ UNCHANGED <<tls_continue, turn, records, killed, layerVars, clientVars>>

\* notify(WRITE_SOCKET) up to the send loop.
Write ==
    /\ Running /\ turn = "none" /\ State = "READY_TO_WRITE"
    /\ conn' = WriteBegin(set_handler(conn, Wants(next, tls_continue)))
    /\ turn' = IF conn'.sm.state = "WRITING" THEN "write" ELSE turn
    /\ UNCHANGED <<tls_continue, records, killed, layerVars, clientVars>>

\* The send loop got n records of the output out.
Taken(n) == received' = received \o SubSeq(conn.output, 1, n)

\* What is sent to a client that is gone is taken and lost.
AllSent ==
    /\ Running /\ turn = "write"
    /\ conn' = WriteEnd(conn, Len(conn.output))
    /\ Taken(Len(conn.output))
    /\ turn' = "none"
    /\ UNCHANGED <<tls_continue, records, killed, layerVars,
                   version, wire, said, requests, gone, sendFaults>>

\* A send() fails: the client is gone, or the kernel is short of something.
SendFails ==
    /\ Running /\ turn = "write"
    /\ \/ gone /\ UNCHANGED sendFaults
       \/ sendFaults < MaxSendFaults /\ sendFaults' = sendFaults + 1
    /\ \E n \in 0 .. Len(conn.output) - 1 : conn' = WriteEnd(conn, n) /\ Taken(n)
    /\ turn' = "none"
    /\ UNCHANGED <<tls_continue, records, killed, layerVars,
                   version, wire, said, requests, gone>>

\* send() finds the connection broken and raises SIGPIPE.
BrokenPipe ==
    /\ Running /\ turn = "write" /\ gone /\ ~SigpipeIgnored
    /\ \E n \in 0 .. Len(conn.output) - 1 : Taken(n)
    /\ killed' = TRUE
    /\ UNCHANGED <<conn, tls_continue, turn, records, layerVars,
                   version, wire, said, requests, gone, sendFaults>>

\* clean_up
Halt ==
    /\ Running /\ turn = "none" /\ State \in {"CONNECTION_ERROR", "DONE"}
    /\ conn' = halt(conn, FALSE)
    /\ UNCHANGED <<tls_continue, turn, records, killed, layerVars, clientVars>>

-----------------------------------------------------------------------------
(* A turn of the layer *)

\* Mutant: what a handler has to send before it is called back is not sent.
WantsAnswerSent_IfFinished(handler) == wants_to_write(handler)

WantsAnswerSent(handler) ==
    wants_to_write(handler) \/ wants_to_live(handler) \/ wants_to_be_calledback(handler)

\* Mutant: the channel is left open for the calls to come.
AfterAnswer_StaysOpen(c) == c

AfterAnswer(c) == [c EXCEPT !.can_write = FALSE]

\* HttpHandler::notify(handler, connection, streams), which is the other notify() but for
\* its end: it notifies the layer.  There all that was ever written to the stream of the
\* layer is sent and the channel is closed, also when the handler wants to be called
\* back.  send() throws on a channel that is closed, close() does nothing then.
NotifyNext(input) ==
    LET answer == HandlerTurn(next, input)
        sink   == decrypted_output \o answer.written
        sends  == WantsAnswerSent(answer.handler)
    IN  /\ next' = answer.handler
        /\ decrypted_input' = answer.input
        /\ decrypted_output' = sink
        /\ IF answer.returns THEN UNCHANGED <<channel, emits, thrown>>
           ELSE IF channel.can_write
           THEN /\ emits' = (IF sends THEN sink ELSE << >>) \o << CloseRecord >>
                /\ channel' = AfterAnswer(channel)
                /\ UNCHANGED thrown
           ELSE thrown' = sends /\ UNCHANGED <<channel, emits>>

\* What received_data does with a record that is not a request, or one too early.  With
\* TLS 1.2 the server answers the Finished of the client with its own, and close_notify
\* with close_notify.
Handshake(record) ==
    LET flight == [k \in 1 .. FlightRecords |-> FlightRecord]
        closed == IF channel.can_write THEN << CloseRecord >> ELSE << >>
    IN  CASE record.kind = "hello" ->
                emits' = flight /\ UNCHANGED <<channel, thrown>>
          [] record.kind = "finished" ->
                /\ channel' = [channel EXCEPT !.established = TRUE]
                /\ emits' = IF version = "1.2" THEN flight ELSE << >>
                /\ UNCHANGED thrown
          [] record.kind = "bye" ->
                /\ channel' = [channel EXCEPT !.can_read = FALSE,
                                              !.can_write = @ /\ version = "1.3"]
                /\ emits' = IF version = "1.2" THEN closed ELSE << >>
                /\ UNCHANGED thrown
          [] OTHER ->
                /\ channel' = [channel EXCEPT !.can_read = FALSE, !.can_write = FALSE]
                /\ emits' = IF channel.can_write THEN << AlertRecord >> ELSE << >>
                /\ thrown' = TRUE

InTurn == Running /\ turn \in {"data", "recall"} /\ emits = << >>

\* The next record in received_data; nothing is read from a closed channel.  What is in
\* decrypted_input after the first parse is not read again: nobody clears the flags
\* the parse leaves on that stream, and a second parse is refused by the handler.
Process ==
    /\ InTurn /\ records # << >> /\ channel.can_read /\ ~thrown
    /\ records' = Tail(records)
    /\ LET r == Head(records)
       IN  IF r.kind \notin Kinds /\ channel.established
           THEN NotifyNext(Append(decrypted_input, r))   \* tls_record_received
           ELSE Handshake(r) /\ UNCHANGED <<next, decrypted_input, decrypted_output>>
    /\ UNCHANGED <<conn, tls_continue, turn, killed, clientVars>>

\* notify(CONTINUE_HANDLING): without input the next handler is called again.
Recall ==
    /\ Running /\ turn = "none" /\ State = "HANDLING"
    /\ turn' = "recall"
    /\ NotifyNext(decrypted_input)
    /\ UNCHANGED <<conn, tls_continue, records, killed, clientVars>>

\* tls_emit_data
Emit ==
    /\ Running /\ emits # << >>
    /\ conn' = Notified([conn EXCEPT !.output = Append(@, Head(emits))], tls_continue)
    /\ emits' = Tail(emits)
    /\ UNCHANGED <<tls_continue, turn, records, next, decrypted_input, decrypted_output,
                   channel, thrown, killed, clientVars>>

\* The bytes received_data says it waits for: none on a closed channel, and none where
\* a record ends with TLS 1.2; with TLS 1.3 the header of the next record at least.
Hint == channel.can_read /\ (channel.partial \/ version = "1.3")

\* Mutant: an exception is caught and nobody is told.
AfterException_Silent == conn

AfterException == Notified(conn, tls_continue)

EndOfTurn ==
    /\ InTurn /\ (records = << >> \/ ~channel.can_read \/ thrown)
    /\ CASE thrown -> conn' = AfterException /\ UNCHANGED tls_continue
         [] ~thrown /\ turn = "data" ->
                tls_continue' = Hint /\ conn' = Notified(conn, Hint)
         [] OTHER -> UNCHANGED <<conn, tls_continue>>
    /\ turn' = "none" /\ records' = << >> /\ thrown' = FALSE
    /\ UNCHANGED <<next, decrypted_input, decrypted_output, channel, emits, killed, clientVars>>

Server ==
    \/ Read \/ ReadEnd \/ Halt
    \/ Write \/ AllSent \/ SendFails \/ BrokenPipe
    \/ Process \/ Recall \/ Emit \/ EndOfTurn

-----------------------------------------------------------------------------
(* The client *)

Say(record) ==
    /\ ~gone /\ said \cap {"bye", "bad"} = {}
    /\ wire' = Append(wire, record)
    /\ UNCHANGED <<conn, tls_continue, turn, records, killed, layerVars,
                   version, received, gone, sendFaults>>

\* A record other than a request.  The Finished follows on the flight of the server.
SayRecord(kind) ==
    /\ Say(Record(kind))
    /\ kind \notin said
    /\ kind # "hello" => "hello" \in said
    /\ kind = "finished" => FlightRecord \in Range(received)
    /\ said' = said \cup {kind}
    /\ UNCHANGED requests

Ask(request) ==
    /\ Say(request)
    /\ "finished" \in said /\ Len(requests) < MaxRequests
    /\ requests' = Append(requests, request)
    /\ UNCHANGED said

Leave ==
    /\ ~gone /\ gone' = TRUE
    /\ UNCHANGED <<conn, tls_continue, turn, records, killed, layerVars,
                   version, wire, said, requests, received, sendFaults>>

Next ==
    \/ Server
    \/ \E kind \in Kinds : SayRecord(kind)
    \/ \E request \in Asked : Ask(request)
    \/ Leave

Spec == Init /\ [][Next]_vars

\* The loop goes on serving the connection; clients need not do anything.
FairSpec == Spec /\ WF_vars(Server)

-----------------------------------------------------------------------------
(* Properties *)

AnswerIn(s) == SelectSeq(s, LAMBDA r : r \notin OwnRecords)

\* What the first call for a request answers with.
FirstTurnOf(request) ==
    IF request.kind # "full" \/ Routed(request.target, 0).result = None THEN << >>
    ELSE Header(request.target) \o Routed(request.target, 0).body

\* What s has of the answer is in one piece behind the k-th record and cut off only
\* where s ends; nothing else is in s but records of the layer itself.
Encloses(s, answer, k) ==
    \A j \in DOMAIN s :
        IF j \in k + 1 .. k + Len(answer) THEN s[j] = answer[j - k] ELSE s[j] \in OwnRecords

\* That the layer sends the whole of a stream it never empties stays unseen: however the
\* sends fail, a client is sent what the first call for its first request answers with,
\* once and in one piece, or the beginning of it, or nothing.
FirstTurnOnce ==
    \E answer \in {<< >>} \cup {FirstTurnOf(requests[i]) : i \in DOMAIN requests \cap {1}} :
        \E k \in 0 .. Len(received) : Encloses(received, answer, k)

\* The assert in the connection fails only because Botan waits for nothing before the
\* handler has answered: where a record of TLS 1.2 ends, or on a channel that is closed.
AssertsOnlyWithoutHint ==
    ~conn.asserts =>
        /\ ~tls_continue
        /\ next.sm.state \in {"READY_TO_HANDLE", "HANDLER_ERROR"}
        /\ version = "1.2" \/ ~channel.can_read

\* However often it is notified in the middle of a turn, the connection rests in HANDLING
\* only for a handler that wants to be called back, and is done only when the layer
\* does not go on.
RestsAsItsHandler ==
    (Running /\ turn = "none") =>
        /\ State \notin {"READING", "WRITING"}
        /\ State = "HANDLING" => next.sm.state = "RECALL"
        /\ State = "DONE" => ~tls_continue /\ next.sm.state # "RECALL"

\* A client that asks with TLS 1.3 and stays gets what the first call answers with, and
\* close_notify, also when a send fails on the way.  Only an answer of so many records that
\* the notifications for them exceed the limit of resets may be lost, and then the
\* whole of it is and the connection is given up.
FirstTurnArrives ==
    \A r \in Asked :
        (version = "1.3" /\ requests # << >> /\ requests[1] = r) ~>
            \/ AnswerIn(received) = FirstTurnOf(r) /\ CloseRecord \in Range(received)
            \/ gone
            \/ said \cap {"bye", "bad"} # {}
            \/ /\ Len(FirstTurnOf(r)) + 1 > MaxResetCount
               /\ AnswerIn(received) = << >> /\ conn.socket = None

\* A client that leaves frees the connection, however far it got, unless the sends to it
\* fail for ever: a send that fails does not end the connection (LeaverReclaimed of
\* PollingServerProps is violated).
LeaverReleased == (gone ~> conn.socket = None \/ ~Running) \/ []<><<SendFails>>_vars
=============================================================================
