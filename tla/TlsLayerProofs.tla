---------------------------- MODULE TlsLayerProofs ----------------------------
(***************************************************************************)
(* Theorems about the TLS layer, for every set of requests, table of       *)
(* routes and length of a flight.  However many records Botan emits in the *)
(* middle of a turn, each of which notifies the connection, the connection *)
(* rests as the handler wants it to, its assert fails only where Botan     *)
(* waits for nothing, and the client is sent the answer of one call once   *)
(* and in one piece.                                                       *)
(***************************************************************************)
EXTENDS TlsLayer, ConnectionProofs, SequenceTheorems

-----------------------------------------------------------------------------
(* The connection *)

SentRecords == (Targets \cup {"flight", "alert", "close"}) \X Nat

\* A connection as TcpConnection has it but for what is in its output: records.
Wired ==
    [sm : CSM!Machine, socket : Clients \cup {None}, handler : Handlers \cup {None},
     input : Seq(Segments), output : Seq(SentRecords),
     timing : BOOLEAN, measured : Nat, asserts : BOOLEAN]

LEMMA SetWired ==
    ASSUME NEW c \in Wired, NEW s \in ConnectionStates
    PROVE  /\ Set(c, s) \in Wired
           /\ Set(c, s).sm.state \in {s, "CONNECTION_ERROR"}
           /\ Set(c, s).output = c.output /\ Set(c, s).asserts = c.asserts
           /\ Set(c, s).socket = c.socket
<1> DEFINE m == CSM!SetState(c.sm, s)
<1>1. m \in CSM!Machine /\ m.state \in {s, "CONNECTION_ERROR"}
  BY ConnectionSetState DEF Wired
<1>2. Set(c, s) = [c EXCEPT !.sm = m]
  BY DEF Set
<1> HIDE DEF m
<1> QED
  BY <1>1, <1>2 DEF Wired

LEMMA NoRecords == << >> \in Seq(SentRecords) /\ << >> \in Seq(Segments)
OBVIOUS

LEMMA InitWired ==
    LET c == accept_socket(NewConnection, Client)
    IN  /\ c \in Wired /\ c.sm.state = "READY_TO_READ"
        /\ c.output = << >> /\ c.asserts /\ c.socket # None
<1> DEFINE idle  == CSM!SetState(CSM!Cleared, "INACTIVE")
           fresh == [NewConnection EXCEPT !.socket = Client, !.measured = 0]
<1>1. CSM!Cleared \in CSM!Machine
  BY DEF CSM!Cleared, CSM!Entered, CSM!Machine, ConnectionStates
<1>2. idle \in CSM!Machine
  BY <1>1, ConnectionSetState DEF ConnectionStates
<1>3. idle = CSM!Entered("INACTIVE", 0)
  BY ConnectionAssumption
     DEF CSM!SetState, CSM!Doomed, CSM!TimedOut, CSM!Cleared, CSM!Entered,
         CSM!CanTransitionTo, states_transition_map, state_time_outs
<1> HIDE DEF idle
<1>4. NewConnection =
        [sm |-> idle, socket |-> None, handler |-> None, input |-> << >>, output |-> << >>,
         timing |-> FALSE, measured |-> 0, asserts |-> TRUE]
  BY DEF NewConnection, idle
<1>5. /\ fresh \in Wired /\ fresh.sm = idle /\ fresh.output = << >> /\ fresh.asserts
      /\ fresh.socket = Client /\ Client # None
  BY <1>2, <1>4, NoRecords, TlsAssumption, ConnectionAssumption DEF Wired
<1>6. accept_socket(NewConnection, Client) = Set(fresh, "READY_TO_READ")
  BY DEF accept_socket
<1> HIDE DEF fresh
<1>7. /\ Set(fresh, "READY_TO_READ") \in Wired
      /\ Set(fresh, "READY_TO_READ").output = << >>
      /\ Set(fresh, "READY_TO_READ").asserts
      /\ Set(fresh, "READY_TO_READ").socket # None
  BY <1>5, SetWired DEF ConnectionStates
<1>8. CSM!SetState(idle, "READY_TO_READ").state = "READY_TO_READ"
  BY <1>3, ConnectionAssumption
     DEF CSM!SetState, CSM!Doomed, CSM!TimedOut, CSM!Entered,
         CSM!CanTransitionTo, states_transition_map, state_time_outs
<1>9. Set(fresh, "READY_TO_READ").sm = CSM!SetState(idle, "READY_TO_READ")
  BY <1>5 DEF Set, Wired
<1> QED
  BY <1>6, <1>7, <1>8, <1>9

\* What the layer wants, as the handler of a connection.
LEMMA WantsType ==
    ASSUME NEW h \in Handlers, NEW continue \in BOOLEAN
    PROVE  LET w == Wants(h, continue)
           IN  /\ w \in Handlers
               /\ w.sm.state = IF h.sm.state = "RECALL" THEN "RECALL"
                               ELSE IF continue THEN "FINISHED_WAIT" ELSE h.sm.state
BY DEF Wants, wants_to_be_calledback, Handlers, HSM!Machine, HandlerStates

\* A rested handler wants one of three things, or nothing, and then the assert fails.
LEMMA NotifiedWired ==
    ASSUME NEW c \in Wired, NEW h \in Handlers, Rests(h), NEW continue \in BOOLEAN
    PROVE  LET d == NotifiedByHandler(set_handler(c, Wants(h, continue)))
           IN  /\ d \in Wired /\ d.output = c.output /\ d.socket = c.socket
               /\ \/ /\ d.asserts = c.asserts
                     /\ d.sm.state \in {"READY_TO_WRITE", "CONNECTION_ERROR"}
                  \/ /\ ~d.asserts /\ d.sm = c.sm
                     /\ ~continue /\ h.sm.state \in {"READY_TO_HANDLE", "HANDLER_ERROR"}
<1> DEFINE w == Wants(h, continue)
           e == set_handler(c, w)
<1>1. /\ w \in Handlers
      /\ w.sm.state = IF h.sm.state = "RECALL" THEN "RECALL"
                      ELSE IF continue THEN "FINISHED_WAIT" ELSE h.sm.state
  BY WantsType
<1> HIDE DEF w
<1>2. /\ e \in Wired /\ e.handler = w
      /\ e.output = c.output /\ e.asserts = c.asserts /\ e.sm = c.sm
      /\ e.socket = c.socket
  BY <1>1 DEF Wired, set_handler
<1> HIDE DEF e
<1>3. w.sm.state # "INCOMPLETE_INPUT"
  BY <1>1 DEF Rests
<1>4. CASE w.sm.state \in {"FINISHED_NO_WAIT", "FINISHED_WAIT", "RECALL"}
  <2>1. NotifiedByHandler(e) = Set(e, "READY_TO_WRITE")
    BY <1>2, <1>4 DEF NotifiedByHandler, wants_to_write, wants_to_live, wants_more_bytes,
                      wants_to_be_calledback
  <2>2. /\ Set(e, "READY_TO_WRITE") \in Wired
        /\ Set(e, "READY_TO_WRITE").sm.state \in {"READY_TO_WRITE", "CONNECTION_ERROR"}
        /\ Set(e, "READY_TO_WRITE").output = e.output
        /\ Set(e, "READY_TO_WRITE").asserts = e.asserts
        /\ Set(e, "READY_TO_WRITE").socket = e.socket
    BY <1>2, SetWired DEF ConnectionStates
  <2> QED
    BY <1>2, <2>1, <2>2 DEF e, w
<1>5. CASE w.sm.state \notin {"FINISHED_NO_WAIT", "FINISHED_WAIT", "RECALL"}
  <2>1. NotifiedByHandler(e) = [e EXCEPT !.asserts = FALSE]
    BY <1>2, <1>3, <1>5 DEF NotifiedByHandler, wants_to_write, wants_to_live,
                            wants_more_bytes, wants_to_be_calledback
  <2>2. ~continue /\ h.sm.state \in {"READY_TO_HANDLE", "HANDLER_ERROR"}
    BY <1>1, <1>5 DEF Rests
  <2>3. LET d == [e EXCEPT !.asserts = FALSE]
        IN  d \in Wired /\ d.output = e.output /\ ~d.asserts /\ d.sm = e.sm /\ d.socket = e.socket
    BY <1>2 DEF Wired
  <2> QED
    BY <1>2, <2>1, <2>2, <2>3 DEF e, w
<1> QED
  BY <1>4, <1>5

LEMMA ReadWired ==
    ASSUME NEW c \in Wired, NEW s \in {"HANDLING", "CONNECTION_ERROR"}
    PROVE  LET d == Set(Set(TimerStart(c), "READING"), s)
           IN  /\ d \in Wired /\ d.output = c.output /\ d.asserts = c.asserts
               /\ d.socket = c.socket
               /\ d.sm.state \in {s, "CONNECTION_ERROR"}
<1> DEFINE started == TimerStart(c)
           reading == Set(started, "READING")
<1>1. /\ started \in Wired /\ started.output = c.output /\ started.asserts = c.asserts
      /\ started.socket = c.socket
  BY DEF TimerStart, Wired
<1> HIDE DEF started
<1>2. /\ reading \in Wired /\ reading.output = c.output /\ reading.asserts = c.asserts
      /\ reading.socket = c.socket
  BY <1>1, SetWired DEF ConnectionStates
<1> HIDE DEF reading
<1>3. LET d == Set(reading, s)
      IN  /\ d \in Wired /\ d.output = c.output /\ d.asserts = c.asserts
          /\ d.socket = c.socket
          /\ d.sm.state \in {s, "CONNECTION_ERROR"}
  BY <1>2, SetWired DEF ConnectionStates
<1> QED
  BY <1>3 DEF reading, started

LEMMA WriteBeginWired ==
    ASSUME NEW c \in Wired, c.socket # None, NEW h \in Handlers, NEW continue \in BOOLEAN
    PROVE  LET d == WriteBegin(set_handler(c, Wants(h, continue)))
           IN  /\ d \in Wired /\ d.output = c.output /\ d.asserts = c.asserts
               /\ d.socket = c.socket /\ d.handler = Wants(h, continue)
               /\ d.sm.state \in {"WRITING", "CONNECTION_ERROR"}
<1> DEFINE w == Wants(h, continue)
           e == set_handler(c, w)
<1>1. w \in Handlers
  BY WantsType
<1> HIDE DEF w
<1>2. /\ e \in Wired /\ e.output = c.output /\ e.asserts = c.asserts
      /\ e.socket = c.socket /\ e.handler = w
  BY <1>1 DEF Wired, set_handler
<1> HIDE DEF e
<1>3. /\ Set(e, "WRITING") \in Wired /\ Set(e, "WRITING").output = c.output
      /\ Set(e, "WRITING").asserts = c.asserts /\ Set(e, "WRITING").socket = c.socket
      /\ Set(e, "WRITING").sm.state \in {"WRITING", "CONNECTION_ERROR"}
  BY <1>2, SetWired DEF ConnectionStates
<1>4. Set(e, "WRITING").handler = w
  BY <1>2 DEF Set, Wired
<1>5. WriteBegin(e) = Set(e, "WRITING")
  <2>1. None \notin {e.socket, e.handler}
    BY <1>1, <1>2, ConnectionAssumption
  <2> QED
    BY <2>1 DEF WriteBegin
<1> QED
  BY <1>3, <1>4, <1>5 DEF e, w

\* After the send loop the rest is kept, or the connection goes on as its handler wants.
LEMMA WriteEndWired ==
    ASSUME NEW c \in Wired, NEW n \in 0 .. Len(c.output)
    PROVE  LET d == WriteEnd(c, n)
           IN  /\ d \in Wired /\ d.output = SubSeq(c.output, n + 1, Len(c.output))
               /\ d.asserts = c.asserts /\ d.socket = c.socket
               /\ d.sm.state \in {"READY_TO_WRITE", "HANDLING", "READY_TO_READ", "DONE",
                                  "CONNECTION_ERROR"}
               /\ d.sm.state = "HANDLING" => c.handler.sm.state = "RECALL"
               /\ d.sm.state = "DONE" =>
                    c.handler.sm.state \notin {"RECALL", "FINISHED_WAIT"}
<1> DEFINE w       == c.handler
           rest    == SubSeq(c.output, n + 1, Len(c.output))
           left    == [c EXCEPT !.output = rest]
           emptied == [c EXCEPT !.output = << >>]
           dry     == [emptied EXCEPT !.input = << >>]
           ended   == TimerEnd(dry)
           d       == WriteEnd(c, n)
<1>2. /\ c.output \in Seq(SentRecords) /\ Len(c.output) \in Nat
      /\ rest \in Seq(SentRecords) /\ (n = Len(c.output) => rest = << >>)
  BY DEF Wired
<1> HIDE DEF rest
<1>3. left \in Wired /\ left.output = rest /\ left.asserts = c.asserts /\ left.socket = c.socket
  BY <1>2 DEF Wired
<1>4. /\ emptied \in Wired /\ emptied.output = << >>
      /\ emptied.asserts = c.asserts /\ emptied.socket = c.socket
  BY NoRecords DEF Wired
<1>5. dry \in Wired /\ dry.output = << >> /\ dry.asserts = c.asserts /\ dry.socket = c.socket
  BY <1>4, NoRecords DEF Wired
<1>6. d = IF n < Len(c.output) THEN Set(left, "READY_TO_WRITE")
          ELSE IF wants_to_be_calledback(w) THEN Set(emptied, "HANDLING")
          ELSE IF wants_to_live(w) THEN Set(ended, "READY_TO_READ")
          ELSE Set(emptied, "DONE")
  BY DEF WriteEnd, rest
<1> HIDE DEF left, emptied, d
<1>7. /\ ended \in Wired /\ ended.output = << >>
      /\ ended.asserts = c.asserts /\ ended.socket = c.socket
  <2> HIDE DEF dry
  <2>1. dry.measured + 1 \in Nat
    BY <1>5 DEF Wired
  <2> QED
    BY <1>5, <2>1 DEF TimerEnd, Wired
<1> HIDE DEF dry, ended
<1>8. ASSUME NEW s \in {"READY_TO_WRITE", "HANDLING", "READY_TO_READ", "DONE"},
             NEW x \in {left, emptied, ended}, d = Set(x, s)
      PROVE  /\ d \in Wired /\ d.output = x.output
             /\ d.asserts = c.asserts /\ d.socket = c.socket
             /\ d.sm.state \in {s, "CONNECTION_ERROR"}
  BY <1>3, <1>4, <1>7, <1>8, SetWired DEF ConnectionStates
<1>9. CASE n < Len(c.output)
  <2>1. d = Set(left, "READY_TO_WRITE")
    BY <1>6, <1>9
  <2> QED
    BY <1>3, <1>8, <2>1 DEF d, rest
<1>10. CASE ~(n < Len(c.output)) /\ wants_to_be_calledback(w)
  <2>1. d = Set(emptied, "HANDLING") /\ rest = << >>
    BY <1>2, <1>6, <1>10
  <2>2. w.sm.state = "RECALL"
    BY <1>10 DEF wants_to_be_calledback
  <2> QED
    BY <1>4, <1>8, <2>1, <2>2 DEF d, rest
<1>11. CASE ~(n < Len(c.output)) /\ ~wants_to_be_calledback(w) /\ wants_to_live(w)
  <2>1. d = Set(ended, "READY_TO_READ") /\ rest = << >>
    BY <1>2, <1>6, <1>11
  <2> QED
    BY <1>7, <1>8, <2>1 DEF d, rest
<1>12. CASE ~(n < Len(c.output)) /\ ~wants_to_be_calledback(w) /\ ~wants_to_live(w)
  <2>1. d = Set(emptied, "DONE") /\ rest = << >>
    BY <1>2, <1>6, <1>12
  <2>2. w.sm.state \notin {"RECALL", "FINISHED_WAIT"}
    BY <1>12 DEF wants_to_be_calledback, wants_to_live
  <2> QED
    BY <1>4, <1>8, <2>1, <2>2 DEF d, rest
<1> QED
  BY <1>9, <1>10, <1>11, <1>12

LEMMA HaltWired ==
    ASSUME NEW c \in Wired
    PROVE  LET d == halt(c, FALSE)
           IN  /\ d \in Wired /\ d.output = << >> /\ d.asserts = c.asserts
               /\ d.socket = None
               /\ d.sm.state \in {"INACTIVE", "CONNECTION_ERROR"}
<1> DEFINE seen    == GetState(c)
           cleared == [seen EXCEPT !.sm = CSM!Cleared]
           settled == CASE seen.sm.state = "CONNECTION_ERROR" -> TimerCancel(cleared)
                        [] seen.sm.state = "DONE" -> TimerEnd(seen)
                        [] OTHER -> seen
           late    == Set(settled, "INACTIVE")
<1>1. seen \in Wired /\ seen.asserts = c.asserts
  <2>1. CSM!Observed(c.sm) \in CSM!Machine
    BY ConnectionObserved DEF Wired
  <2> QED
    BY <2>1 DEF GetState, Wired
<1> HIDE DEF seen
<1>2. cleared \in Wired /\ cleared.asserts = c.asserts
  <2>1. CSM!Cleared \in CSM!Machine
    BY DEF CSM!Cleared, CSM!Entered, CSM!Machine, ConnectionStates
  <2> QED
    BY <1>1, <2>1 DEF Wired
<1> HIDE DEF cleared
<1>3. settled \in Wired /\ settled.asserts = c.asserts
  <2>1. TimerCancel(cleared) \in Wired /\ TimerCancel(cleared).asserts = c.asserts
    BY <1>2 DEF TimerCancel, Wired
  <2>2. seen.measured + 1 \in Nat
    BY <1>1 DEF Wired
  <2>3. TimerEnd(seen) \in Wired /\ TimerEnd(seen).asserts = c.asserts
    BY <1>1, <2>2 DEF TimerEnd, Wired
  <2> QED
    BY <1>1, <2>1, <2>3
<1>4. halt(c, FALSE) = [late EXCEPT !.input = << >>, !.output = << >>, !.socket = None]
  BY DEF halt, seen, cleared
<1> HIDE DEF settled
<1>5. /\ late \in Wired /\ late.asserts = c.asserts
      /\ late.sm.state \in {"INACTIVE", "CONNECTION_ERROR"}
  BY <1>3, SetWired DEF ConnectionStates
<1> HIDE DEF late
<1> QED
  BY <1>4, <1>5, NoRecords, ZenonT(60) DEF Wired

-----------------------------------------------------------------------------
(* Types, and what the connection and the layer know of each other *)

ClientRecords == {Record(kind) : kind \in Kinds} \cup Asked

Channels == [established : BOOLEAN, can_write : BOOLEAN, can_read : BOOLEAN, partial : BOOLEAN]

LayerTyped ==
    /\ next \in Handlers /\ Rests(next)
    /\ decrypted_input \in Seq(Segments) /\ decrypted_output \in Seq(Targets \X Nat)
    /\ channel \in Channels
    /\ emits \in Seq(SentRecords) /\ thrown \in BOOLEAN

Typed ==
    /\ conn \in Wired /\ LayerTyped
    /\ tls_continue \in BOOLEAN
    /\ turn \in {"none", "data", "recall", "write"} /\ killed \in BOOLEAN
    /\ version \in {"1.2", "1.3"}
    /\ records \in Seq(ClientRecords) /\ wire \in Seq(ClientRecords)
    /\ requests \in Seq(Asked) /\ received \in Seq(SentRecords)

\* Outside a turn nothing is left of the last one.  In a turn the connection is
\* HANDLING until it is notified; a handler called back notifies it by what it sends,
\* or, on a closed channel, by the exception.  A connection that writes asks what the
\* layer wants, and one whose socket is closed rests for ever.
Stands ==
    /\ turn \in {"none", "write"} => emits = << >> /\ records = << >> /\ ~thrown
    /\ turn = "recall" => records = << >>
    /\ State \in {"READY_TO_READ", "HANDLING", "READY_TO_WRITE", "WRITING", "DONE", "INACTIVE",
                  "CONNECTION_ERROR"}
    /\ State = "WRITING" <=> turn = "write"
    /\ turn = "write" => conn.asserts /\ conn.handler = Wants(next, tls_continue)
    /\ (Running /\ turn \in {"data", "recall"}) =>
         State \in {"HANDLING", "READY_TO_WRITE", "CONNECTION_ERROR"}
    /\ (Running /\ turn = "recall") => emits # << >> \/ thrown \/ State # "HANDLING"
    /\ conn.socket = None => turn = "none" /\ State \in {"INACTIVE", "CONNECTION_ERROR"}
    /\ ~tls_continue => version = "1.2" \/ ~channel.can_read

Layered == Typed /\ Stands /\ RestsAsItsHandler /\ AssertsOnlyWithoutHint

LEMMA InitLayered == Init => Layered
<1> SUFFICES ASSUME Init PROVE Layered
  OBVIOUS
<1>1. /\ conn \in Wired /\ State = "READY_TO_READ" /\ Running /\ conn.socket # None
  BY InitWired DEF Init, State, Running
<1>2. next \in Handlers /\ Rests(next)
  BY NewHandlerType DEF Init, NewHandler, Rests, HSM!Cleared, HSM!Entered
<1>3. channel \in Channels /\ emits = << >> /\ thrown \in BOOLEAN
  BY DEF Init, Channels
<1>4. LayerTyped
  BY <1>2, <1>3, NoRecords, NoParts DEF Init, LayerTyped
<1>5. << >> \in Seq(ClientRecords) /\ << >> \in Seq(Asked)
  OBVIOUS
<1>6. Typed
  BY <1>1, <1>4, <1>5, NoRecords DEF Init, Typed
<1>7. Stands
  BY <1>1 DEF Init, Stands
<1> QED
  BY <1>1, <1>6, <1>7 DEF Init, Layered, RestsAsItsHandler, AssertsOnlyWithoutHint, Running

-----------------------------------------------------------------------------
(* The calls in a turn *)

LEMMA OwnRecordsAreSent == OwnRecords \subseteq SentRecords
BY DEF OwnRecords, FlightRecord, AlertRecord, CloseRecord, SentRecords

LEMMA ClientRecordKinds ==
    ASSUME NEW r \in ClientRecords
    PROVE  r.kind \notin Kinds <=> r \in Asked
<1>1. \A q \in Asked : q.kind \notin Kinds
  BY TlsAssumption DEF Segments, Kinds
<1>2. \A kind \in Kinds : Record(kind).kind = kind
  BY DEF Record
<1> QED
  BY <1>1, <1>2 DEF ClientRecords

\* HttpHandler::notify: the handler refuses and nothing is told, or it answers; then
\* records are emitted or, on a closed channel, an exception is on its way.
LEMMA NotifyNextTells ==
    ASSUME LayerTyped, emits = << >>, NEW input \in Seq(Segments), NotifyNext(input)
    PROVE  /\ LayerTyped'
           /\ channel'.can_read = channel.can_read
           /\ next.sm.state \in {"READY_TO_HANDLE", "RECALL"} => emits' # << >> \/ thrown'
<1> DEFINE answer == HandlerTurn(next, input)
           sink   == decrypted_output \o answer.written
           sends  == WantsAnswerSent(answer.handler)
<1>1. /\ answer.handler \in Handlers /\ answer.input \in Seq(Segments)
      /\ answer.written \in Seq(Targets \X Nat)
  BY HandlerTurnType DEF LayerTyped, TurnType
<1>2. TurnAgrees(next, answer)
  BY HandlerTurnAgrees DEF LayerTyped
<1>3. /\ next' = answer.handler
      /\ decrypted_input' = answer.input
      /\ decrypted_output' = sink
      /\ IF answer.returns THEN UNCHANGED <<channel, emits, thrown>>
         ELSE IF channel.can_write
         THEN /\ emits' = (IF sends THEN sink ELSE << >>) \o << CloseRecord >>
              /\ channel' = AfterAnswer(channel)
              /\ UNCHANGED thrown
         ELSE thrown' = sends /\ UNCHANGED <<channel, emits>>
  BY DEF NotifyNext
<1> HIDE DEF answer
<1>4. /\ next' \in Handlers /\ Rests(next') /\ decrypted_input' \in Seq(Segments)
      /\ sink \in Seq(Targets \X Nat)
  BY <1>1, <1>2, <1>3 DEF TurnAgrees, LayerTyped
<1> HIDE DEF sink
<1>5. ~answer.returns => sends = TRUE
  BY <1>2 DEF TurnAgrees, Results, WantsAnswerSent, wants_to_write, wants_to_live,
              wants_to_be_calledback
<1> HIDE DEF sends
<1>6. CASE answer.returns
  BY <1>2, <1>3, <1>4, <1>6 DEF TurnAgrees, LayerTyped
<1>7. CASE ~answer.returns /\ channel.can_write
  <2>1. emits' = sink \o << CloseRecord >>
    BY <1>3, <1>5, <1>7
  <2>2. sink \in Seq(SentRecords) /\ << CloseRecord >> \in Seq(SentRecords)
    BY <1>4, OwnRecordsAreSent DEF SentRecords, OwnRecords
  <2>3. /\ emits' \in Seq(SentRecords) /\ Len(emits') = Len(sink) + 1
    BY <2>1, <2>2
  <2>4. emits' # << >>
    BY <2>2, <2>3
  <2>5. channel' \in Channels /\ channel'.can_read = channel.can_read
    BY <1>3, <1>7 DEF AfterAnswer, Channels, LayerTyped
  <2>6. thrown' = thrown
    BY <1>3, <1>7
  <2> QED
    BY <1>3, <1>4, <2>3, <2>4, <2>5, <2>6 DEF LayerTyped
<1>8. CASE ~answer.returns /\ ~channel.can_write
  BY <1>3, <1>4, <1>5, <1>8 DEF LayerTyped
<1> QED
  BY <1>6, <1>7, <1>8

\* received_data with a record of its own: nothing opens a channel that was closed.
LEMMA HandshakeTells ==
    ASSUME LayerTyped, NEW r, Handshake(r),
           UNCHANGED <<next, decrypted_input, decrypted_output>>
    PROVE  LayerTyped' /\ (channel'.can_read => channel.can_read)
<1>1. \A k \in 1 .. FlightRecords : FlightRecord \in SentRecords
  BY OwnRecordsAreSent DEF OwnRecords
<1>2. [k \in 1 .. FlightRecords |-> FlightRecord] \in Seq(SentRecords)
  BY <1>1, TlsAssumption
<1>3. /\ << CloseRecord >> \in Seq(SentRecords) /\ << AlertRecord >> \in Seq(SentRecords)
      /\ << >> \in Seq(SentRecords)
  BY OwnRecordsAreSent DEF OwnRecords
<1>4. emits' \in Seq(SentRecords) /\ thrown' \in BOOLEAN
  BY <1>2, <1>3 DEF Handshake, LayerTyped
<1>5. channel' \in Channels /\ (channel'.can_read => channel.can_read)
  BY DEF Handshake, LayerTyped, Channels
<1> QED
  BY <1>4, <1>5 DEF LayerTyped

-----------------------------------------------------------------------------
(* One lemma for every action *)

LEMMA ReadLayered == Layered /\ Read => Layered'
<1> SUFFICES ASSUME Layered, Read PROVE Layered'
  OBVIOUS
<1>1. /\ conn' \in Wired /\ conn'.asserts = conn.asserts /\ conn'.socket = conn.socket
      /\ conn'.sm.state \in {"HANDLING", "CONNECTION_ERROR"}
  BY ReadWired DEF Layered, Typed, Read
<1>2. /\ records' \in Seq(ClientRecords) /\ wire' \in Seq(ClientRecords)
      /\ channel' \in Channels /\ channel'.can_read = channel.can_read
  <2>1. PICK n \in 0 .. Len(wire), partial \in BOOLEAN :
          /\ records' = SubSeq(wire, 1, n)
          /\ wire' = SubSeq(wire, n + 1, Len(wire))
          /\ channel' = [channel EXCEPT !.partial = partial]
    BY DEF Read
  <2>2. wire \in Seq(ClientRecords) /\ Len(wire) \in Nat /\ n \in Nat /\ n <= Len(wire)
    BY DEF Layered, Typed
  <2>3. SubSeq(wire, 1, n) \in Seq(ClientRecords)
    BY <2>2
  <2>4. SubSeq(wire, n + 1, Len(wire)) \in Seq(ClientRecords)
    BY <2>2
  <2>5. channel' \in Channels /\ channel'.can_read = channel.can_read
    BY <2>1 DEF Layered, Typed, LayerTyped, Channels
  <2> QED
    BY <2>1, <2>3, <2>4, <2>5
<1>3. Typed'
  BY <1>1, <1>2 DEF Layered, Typed, LayerTyped, Read
<1>4. Stands'
  BY <1>1, <1>2 DEF Layered, Stands, Read, State, Running
<1> QED
  BY <1>1, <1>3, <1>4 DEF Layered, Read, RestsAsItsHandler, AssertsOnlyWithoutHint, Running

LEMMA ReadEndLayered == Layered /\ ReadEnd => Layered'
<1> SUFFICES ASSUME Layered, ReadEnd PROVE Layered'
  OBVIOUS
<1>1. /\ conn' \in Wired /\ conn'.asserts = conn.asserts
      /\ conn'.sm.state = "CONNECTION_ERROR" /\ conn'.socket = conn.socket
  BY ReadWired DEF Layered, Typed, ReadEnd
<1>2. Typed'
  BY <1>1 DEF Layered, Typed, LayerTyped, ReadEnd, layerVars, clientVars
<1>3. Stands'
  BY <1>1 DEF Layered, Stands, ReadEnd, layerVars, clientVars, State, Running
<1> QED
  BY <1>1, <1>2, <1>3
     DEF Layered, ReadEnd, layerVars, clientVars, RestsAsItsHandler, AssertsOnlyWithoutHint,
         State, Running

LEMMA WriteLayered == Layered /\ Write => Layered'
<1> SUFFICES ASSUME Layered, Write PROVE Layered'
  OBVIOUS
<1>1. /\ conn \in Wired /\ next \in Handlers /\ tls_continue \in BOOLEAN
      /\ conn.asserts /\ conn.socket # None
  BY DEF Layered, Typed, LayerTyped, Stands, Write, Running, State
<1>2. /\ conn' \in Wired /\ conn'.asserts = conn.asserts /\ conn'.socket = conn.socket
      /\ conn'.handler = Wants(next, tls_continue)
      /\ conn'.sm.state \in {"WRITING", "CONNECTION_ERROR"}
      /\ turn' = IF conn'.sm.state = "WRITING" THEN "write" ELSE "none"
      /\ UNCHANGED <<tls_continue, records, killed, layerVars, clientVars>>
  BY <1>1, WriteBeginWired DEF Write
<1>3. Typed'
  BY <1>2 DEF Layered, Typed, LayerTyped, layerVars, clientVars
<1>4. emits = << >> /\ records = << >> /\ ~thrown
  BY DEF Layered, Stands, Write
<1>5. Stands'
  <2>1. Wants(next', tls_continue') = Wants(next, tls_continue)
    BY <1>2 DEF layerVars
  <2> QED
    BY <1>1, <1>2, <1>4, <2>1 DEF Layered, Stands, layerVars, clientVars, State, Running
<1> QED
  BY <1>1, <1>2, <1>3, <1>5
     DEF Layered, layerVars, clientVars, RestsAsItsHandler, AssertsOnlyWithoutHint, State, Running

\* The end of write(), after n records of the output were taken.
LEMMA WrittenLayered ==
    ASSUME Layered, Running, turn = "write", NEW n \in 0 .. Len(conn.output),
           conn' = WriteEnd(conn, n), Taken(n), turn' = "none",
           UNCHANGED <<tls_continue, records, killed, layerVars,
                       version, wire, said, requests, gone>>
    PROVE  Layered'
<1>1. /\ conn \in Wired /\ next \in Handlers /\ tls_continue \in BOOLEAN
      /\ conn.asserts /\ conn.socket # None /\ conn.handler = Wants(next, tls_continue)
  BY DEF Layered, Typed, LayerTyped, Stands
<1>2. /\ conn' \in Wired /\ conn'.asserts = conn.asserts /\ conn'.socket = conn.socket
      /\ conn'.sm.state \in {"READY_TO_WRITE", "HANDLING", "READY_TO_READ", "DONE",
                             "CONNECTION_ERROR"}
      /\ conn'.sm.state = "HANDLING" => next.sm.state = "RECALL"
      /\ conn'.sm.state = "DONE" => ~tls_continue /\ next.sm.state # "RECALL"
  <2>1. LET d == WriteEnd(conn, n)
            w == conn.handler
        IN  /\ d \in Wired /\ d.asserts = conn.asserts /\ d.socket = conn.socket
            /\ d.sm.state \in {"READY_TO_WRITE", "HANDLING", "READY_TO_READ", "DONE",
                               "CONNECTION_ERROR"}
            /\ d.sm.state = "HANDLING" => w.sm.state = "RECALL"
            /\ d.sm.state = "DONE" => w.sm.state \notin {"RECALL", "FINISHED_WAIT"}
    BY <1>1, WriteEndWired
  <2>2. conn.handler.sm.state = IF next.sm.state = "RECALL" THEN "RECALL"
                                ELSE IF tls_continue THEN "FINISHED_WAIT" ELSE next.sm.state
    BY <1>1, WantsType
  <2> QED
    BY <2>1, <2>2
<1>3. received' \in Seq(SentRecords)
  <2>1. conn.output \in Seq(SentRecords) /\ received \in Seq(SentRecords)
    BY <1>1 DEF Layered, Typed, Wired
  <2>2. SubSeq(conn.output, 1, n) \in Seq(SentRecords)
    BY <2>1
  <2> QED
    BY <2>1, <2>2 DEF Taken
<1>4. Typed'
  BY <1>2, <1>3 DEF Layered, Typed, LayerTyped, layerVars
<1>5. Stands'
  BY <1>1, <1>2 DEF Layered, Stands, layerVars, State, Running
<1> QED
  BY <1>1, <1>2, <1>4, <1>5
     DEF Layered, layerVars, RestsAsItsHandler, AssertsOnlyWithoutHint, State, Running

LEMMA AllSentLayered == Layered /\ AllSent => Layered'
<1> SUFFICES ASSUME Layered, AllSent PROVE Layered'
  OBVIOUS
<1>1. Len(conn.output) \in 0 .. Len(conn.output)
  BY DEF Layered, Typed, Wired
<1> QED
  BY <1>1, WrittenLayered DEF AllSent

LEMMA SendFailsLayered == Layered /\ SendFails => Layered'
<1> SUFFICES ASSUME Layered, SendFails PROVE Layered'
  OBVIOUS
<1>1. PICK n \in 0 .. Len(conn.output) - 1 : conn' = WriteEnd(conn, n) /\ Taken(n)
  BY DEF SendFails
<1>2. n \in 0 .. Len(conn.output)
  BY DEF Layered, Typed, Wired
<1> QED
  BY <1>1, <1>2, WrittenLayered DEF SendFails

LEMMA BrokenPipeLayered == Layered /\ BrokenPipe => Layered'
<1> SUFFICES ASSUME Layered, BrokenPipe PROVE Layered'
  OBVIOUS
<1>1. PICK n \in 0 .. Len(conn.output) - 1 : received' = received \o SubSeq(conn.output, 1, n)
  BY DEF BrokenPipe, Taken
<1>2. received' \in Seq(SentRecords)
  <2>1. conn.output \in Seq(SentRecords) /\ received \in Seq(SentRecords)
    BY DEF Layered, Typed, Wired
  <2>2. SubSeq(conn.output, 1, n) \in Seq(SentRecords)
    BY <2>1
  <2> QED
    BY <1>1, <2>1, <2>2
<1>3. Typed'
  BY <1>2 DEF Layered, Typed, LayerTyped, BrokenPipe, layerVars
<1>4. Stands'
  BY DEF Layered, Stands, BrokenPipe, layerVars, State, Running
<1> QED
  BY <1>3, <1>4
     DEF Layered, BrokenPipe, layerVars, RestsAsItsHandler, AssertsOnlyWithoutHint, Running

LEMMA HaltLayered == Layered /\ Halt => Layered'
<1> SUFFICES ASSUME Layered, Halt PROVE Layered'
  OBVIOUS
<1>1. /\ conn' \in Wired /\ conn'.asserts = conn.asserts
      /\ conn'.sm.state \in {"INACTIVE", "CONNECTION_ERROR"}
  BY HaltWired DEF Layered, Typed, Halt
<1>2. Typed'
  BY <1>1 DEF Layered, Typed, LayerTyped, Halt, layerVars, clientVars
<1>3. Stands'
  BY <1>1 DEF Layered, Stands, Halt, layerVars, clientVars, State, Running
<1> QED
  BY <1>1, <1>2, <1>3
     DEF Layered, Halt, layerVars, clientVars, RestsAsItsHandler, AssertsOnlyWithoutHint,
         State, Running

LEMMA ProcessLayered == Layered /\ Process => Layered'
<1> SUFFICES ASSUME Layered, Process PROVE Layered'
  OBVIOUS
<1> DEFINE r == Head(records)
<1>1. /\ r \in ClientRecords /\ Tail(records) \in Seq(ClientRecords)
  BY DEF Layered, Typed, Process
<1>2. LayerTyped' /\ (channel'.can_read => channel.can_read)
  <2>1. CASE r.kind \notin Kinds /\ channel.established
    <3>1. Append(decrypted_input, r) \in Seq(Segments)
      BY <1>1, <2>1, ClientRecordKinds, TlsAssumption DEF Layered, Typed, LayerTyped
    <3>2. NotifyNext(Append(decrypted_input, r)) /\ emits = << >>
      BY <2>1 DEF Process, InTurn
    <3> QED
      BY <3>1, <3>2, NotifyNextTells DEF Layered, Typed
  <2>2. CASE ~(r.kind \notin Kinds /\ channel.established)
    BY <2>2, HandshakeTells DEF Layered, Typed, Process
  <2> QED
    BY <2>1, <2>2
<1>3. Typed'
  BY <1>1, <1>2 DEF Layered, Typed, Process, clientVars
<1>4. Stands'
  BY <1>2 DEF Layered, Typed, Stands, Process, InTurn, clientVars, State, Running
<1> QED
  BY <1>3, <1>4
     DEF Layered, Process, InTurn, clientVars, RestsAsItsHandler, AssertsOnlyWithoutHint, Running

LEMMA RecallLayered == Layered /\ Recall => Layered'
<1> SUFFICES ASSUME Layered, Recall PROVE Layered'
  OBVIOUS
<1>1. next.sm.state = "RECALL" /\ emits = << >> /\ records = << >>
  BY DEF Layered, Recall, RestsAsItsHandler, Stands
<1>2. /\ LayerTyped' /\ channel'.can_read = channel.can_read
      /\ emits' # << >> \/ thrown'
  BY <1>1, NotifyNextTells DEF Layered, Typed, LayerTyped, Recall
<1>3. Typed'
  BY <1>2 DEF Layered, Typed, Recall, clientVars
<1>4. Stands'
  BY <1>1, <1>2 DEF Layered, Stands, Recall, clientVars, State, Running
<1> QED
  BY <1>3, <1>4
     DEF Layered, Recall, clientVars, RestsAsItsHandler, AssertsOnlyWithoutHint, Running

LEMMA EmitLayered == Layered /\ Emit => Layered'
<1> SUFFICES ASSUME Layered, Emit PROVE Layered'
  OBVIOUS
<1> DEFINE c == [conn EXCEPT !.output = Append(@, Head(emits))]
<1>1. Head(emits) \in SentRecords /\ Tail(emits) \in Seq(SentRecords)
  BY DEF Layered, Typed, LayerTyped, Emit
<1>2. c \in Wired /\ c.sm = conn.sm /\ c.asserts /\ c.socket = conn.socket
  <2>1. conn \in Wired /\ conn.asserts
    BY DEF Layered, Typed, Emit, Running
  <2>2. conn.output \in Seq(SentRecords)
    BY <2>1 DEF Wired
  <2>3. Append(conn.output, Head(emits)) \in Seq(SentRecords)
    BY <1>1, <2>2
  <2> QED
    BY <2>1, <2>3 DEF Wired
<1>3. conn' = NotifiedByHandler(set_handler(c, Wants(next, tls_continue)))
  BY DEF Emit, Notified
<1> HIDE DEF c
<1>4. /\ conn' \in Wired
      /\ conn'.socket = conn.socket
      /\ \/ /\ conn'.asserts
            /\ conn'.sm.state \in {"READY_TO_WRITE", "CONNECTION_ERROR"}
         \/ /\ ~conn'.asserts /\ conn'.sm = conn.sm
            /\ ~tls_continue /\ next.sm.state \in {"READY_TO_HANDLE", "HANDLER_ERROR"}
  BY <1>2, <1>3, NotifiedWired DEF Layered, Typed, LayerTyped
<1>5. Typed'
  BY <1>1, <1>4 DEF Layered, Typed, LayerTyped, Emit, clientVars
<1>6. turn \in {"data", "recall"}
  BY DEF Layered, Typed, Stands, Emit
<1>7. Stands'
  BY <1>4, <1>6 DEF Layered, Stands, Emit, clientVars, State, Running
<1> QED
  BY <1>4, <1>5, <1>6, <1>7
     DEF Layered, Stands, Emit, clientVars, RestsAsItsHandler, AssertsOnlyWithoutHint,
         State, Running

LEMMA EndOfTurnLayered == Layered /\ EndOfTurn => Layered'
<1> SUFFICES ASSUME Layered, EndOfTurn PROVE Layered'
  OBVIOUS
<1>1. /\ conn \in Wired /\ conn.asserts /\ next \in Handlers /\ Rests(next)
      /\ tls_continue \in BOOLEAN /\ Hint \in BOOLEAN
      /\ ~Hint => version = "1.2" \/ ~channel.can_read
      /\ ~tls_continue => version = "1.2" \/ ~channel.can_read
  BY DEF Layered, Typed, LayerTyped, Stands, EndOfTurn, InTurn, Running, Hint, Channels
<1>2. \A continue \in BOOLEAN : conn' = Notified(conn, continue) =>
        /\ conn' \in Wired /\ conn'.socket = conn.socket
        /\ \/ /\ conn'.asserts
              /\ conn'.sm.state \in {"READY_TO_WRITE", "CONNECTION_ERROR"}
           \/ /\ ~conn'.asserts /\ conn'.sm = conn.sm
              /\ ~continue /\ next.sm.state \in {"READY_TO_HANDLE", "HANDLER_ERROR"}
  BY <1>1, NotifiedWired DEF Notified
<1> DEFINE Told ==
      /\ conn' \in Wired /\ conn'.socket = conn.socket /\ tls_continue' \in BOOLEAN
      /\ ~tls_continue' => version = "1.2" \/ ~channel.can_read
      /\ \/ /\ conn'.asserts
            /\ conn'.sm.state \in {"READY_TO_WRITE", "CONNECTION_ERROR"}
         \/ /\ ~conn'.asserts /\ conn'.sm = conn.sm
            /\ ~tls_continue' /\ next.sm.state \in {"READY_TO_HANDLE", "HANDLER_ERROR"}
<1>3. Told
  <2>1. CASE thrown
    <3>1. conn' = Notified(conn, tls_continue) /\ tls_continue' = tls_continue
      BY <2>1 DEF EndOfTurn, AfterException
    <3> QED
      BY <1>1, <1>2, <3>1
  <2>2. CASE ~thrown /\ turn = "data"
    <3>1. conn' = Notified(conn, Hint) /\ tls_continue' = Hint
      BY <2>2 DEF EndOfTurn
    <3> QED
      BY <1>1, <1>2, <3>1
  <2>3. CASE ~thrown /\ turn # "data"
    <3>1. conn' = conn /\ tls_continue' = tls_continue
      BY <2>3 DEF EndOfTurn
    <3>2. State \in {"READY_TO_WRITE", "CONNECTION_ERROR"}
      BY <2>3 DEF Layered, Typed, Stands, EndOfTurn, InTurn
    <3> QED
      BY <1>1, <3>1, <3>2 DEF State
  <2> QED
    BY <2>1, <2>2, <2>3
<1>4. /\ turn' = "none" /\ records' = << >> /\ thrown' = FALSE /\ emits' = << >>
      /\ turn \in {"data", "recall"} /\ State # "WRITING" /\ conn.socket # None
      /\ UNCHANGED <<next, decrypted_input, decrypted_output, channel, killed, clientVars>>
  BY DEF EndOfTurn, InTurn, Layered, Stands
<1>5. Typed'
  <2>1. << >> \in Seq(ClientRecords)
    OBVIOUS
  <2> QED
    BY <1>3, <1>4, <2>1, NoRecords DEF Layered, Typed, LayerTyped, clientVars
<1>6. Stands'
  BY <1>3, <1>4 DEF Layered, Stands, clientVars, State, Running
<1> QED
  BY <1>3, <1>4, <1>5, <1>6
     DEF Layered, clientVars, RestsAsItsHandler, AssertsOnlyWithoutHint, State, Running

LEMMA ClientLayered ==
    ASSUME Layered, wire' \in Seq(ClientRecords), requests' \in Seq(Asked),
           UNCHANGED <<conn, tls_continue, turn, records, killed, layerVars, version, received>>
    PROVE  Layered'
<1>1. Typed'
  BY DEF Layered, Typed, LayerTyped, layerVars
<1>2. Stands'
  BY DEF Layered, Stands, layerVars, State, Running
<1> QED
  BY <1>1, <1>2
     DEF Layered, layerVars, RestsAsItsHandler, AssertsOnlyWithoutHint, State, Running

LEMMA NextLayered == Layered /\ [Next]_vars => Layered'
<1> SUFFICES ASSUME Layered, [Next]_vars PROVE Layered'
  OBVIOUS
<1>1. CASE Server
  BY <1>1, ReadLayered, ReadEndLayered, WriteLayered, AllSentLayered, SendFailsLayered,
     BrokenPipeLayered, HaltLayered, ProcessLayered, RecallLayered, EmitLayered,
     EndOfTurnLayered DEF Server
<1>2. ASSUME NEW kind \in Kinds, SayRecord(kind) PROVE Layered'
  <2>1. wire' \in Seq(ClientRecords)
    BY <1>2 DEF SayRecord, Say, Layered, Typed, ClientRecords
  <2> QED
    BY <1>2, <2>1, ClientLayered DEF SayRecord, Say, Layered, Typed
<1>3. ASSUME NEW request \in Asked, Ask(request) PROVE Layered'
  <2>1. wire' \in Seq(ClientRecords)
    BY <1>3 DEF Ask, Say, Layered, Typed, ClientRecords
  <2>2. requests' \in Seq(Asked)
    BY <1>3 DEF Ask, Layered, Typed
  <2> QED
    BY <1>3, <2>1, <2>2, ClientLayered DEF Ask, Say
<1>4. CASE Leave
  BY <1>4, ClientLayered DEF Leave, Layered, Typed
<1>5. CASE UNCHANGED vars
  BY <1>5, ClientLayered DEF vars, clientVars, Layered, Typed
<1> QED
  BY <1>1, <1>2, <1>3, <1>4, <1>5 DEF Next

-----------------------------------------------------------------------------
(* An answer in what is sent *)

Plain(s) == \A k \in DOMAIN s : s[k] \in OwnRecords

\* The whole answer is in s, and the beginning of it may be where s ends.
OnceIn(answer, s) == \E k \in 0 .. Len(s) : k + Len(answer) <= Len(s) /\ Encloses(s, answer, k)
BegunIn(answer, s) == \E k \in 0 .. Len(s) : Encloses(s, answer, k)

\* The i-th record of s \o t.
LEMMA Joined ==
    ASSUME NEW s \in Seq(SentRecords), NEW t \in Seq(SentRecords)
    PROVE  /\ s \o t \in Seq(SentRecords) /\ Len(s \o t) = Len(s) + Len(t)
           /\ \A i \in DOMAIN (s \o t) :
                /\ i <= Len(s) => i \in DOMAIN s /\ (s \o t)[i] = s[i]
                /\ i > Len(s) => i - Len(s) \in DOMAIN t /\ (s \o t)[i] = t[i - Len(s)]
OBVIOUS

LEMMA PlainJoined ==
    ASSUME NEW s \in Seq(SentRecords), NEW t \in Seq(SentRecords), Plain(s), Plain(t)
    PROVE  Plain(s \o t)
<1> SUFFICES ASSUME NEW i \in DOMAIN (s \o t) PROVE (s \o t)[i] \in OwnRecords
  BY DEF Plain
<1>1. i \in Nat /\ Len(s) \in Nat
  BY Joined
<1>2. CASE i <= Len(s)
  BY <1>2, Joined DEF Plain
<1>3. CASE i > Len(s)
  BY <1>3, Joined DEF Plain
<1> QED
  BY <1>1, <1>2, <1>3

LEMMA OnceThenPlain ==
    ASSUME NEW a \in Seq(SentRecords), NEW s \in Seq(SentRecords), NEW t \in Seq(SentRecords),
           OnceIn(a, s), Plain(t)
    PROVE  OnceIn(a, s \o t)
<1>1. PICK k \in 0 .. Len(s) : k + Len(a) <= Len(s) /\ Encloses(s, a, k)
  BY DEF OnceIn
<1>2. /\ Len(a) \in Nat /\ Len(s) \in Nat /\ Len(t) \in Nat /\ k \in Nat
      /\ k + Len(a) <= Len(s) /\ Len(s \o t) = Len(s) + Len(t)
  BY <1>1
<1>3. ASSUME NEW j \in DOMAIN (s \o t)
      PROVE  IF j \in k + 1 .. k + Len(a) THEN (s \o t)[j] = a[j - k]
             ELSE (s \o t)[j] \in OwnRecords
  <2>1. j \in Nat
    BY Joined
  <2>2. CASE j <= Len(s)
    <3>1. j \in DOMAIN s /\ (s \o t)[j] = s[j]
      BY <2>2, Joined
    <3> QED
      BY <1>1, <3>1 DEF Encloses
  <2>3. CASE j > Len(s)
    <3>1. j - Len(s) \in DOMAIN t /\ (s \o t)[j] = t[j - Len(s)]
      BY <2>3, Joined
    <3>2. j \notin k + 1 .. k + Len(a)
      BY <1>2, <2>1, <2>3
    <3> QED
      BY <3>1, <3>2 DEF Plain
  <2> QED
    BY <1>2, <2>1, <2>2, <2>3
<1>4. Encloses(s \o t, a, k)
  BY <1>3 DEF Encloses
<1>5. k \in 0 .. Len(s \o t) /\ k + Len(a) <= Len(s \o t)
  BY <1>2
<1> QED
  BY <1>4, <1>5 DEF OnceIn

LEMMA PlainThenOnce ==
    ASSUME NEW a \in Seq(SentRecords), NEW s \in Seq(SentRecords), NEW t \in Seq(SentRecords),
           Plain(t), OnceIn(a, s)
    PROVE  OnceIn(a, t \o s)
<1>1. PICK k \in 0 .. Len(s) : k + Len(a) <= Len(s) /\ Encloses(s, a, k)
  BY DEF OnceIn
<1> DEFINE m == Len(t) + k
<1>2. /\ Len(a) \in Nat /\ Len(s) \in Nat /\ Len(t) \in Nat /\ k \in Nat
      /\ k + Len(a) <= Len(s) /\ Len(t \o s) = Len(t) + Len(s)
  BY <1>1
<1>3. ASSUME NEW j \in DOMAIN (t \o s)
      PROVE  IF j \in m + 1 .. m + Len(a) THEN (t \o s)[j] = a[j - m]
             ELSE (t \o s)[j] \in OwnRecords
  <2>1. j \in Nat
    BY Joined
  <2>2. CASE j <= Len(t)
    <3>1. j \in DOMAIN t /\ (t \o s)[j] = t[j]
      BY <2>2, Joined
    <3>2. j \notin m + 1 .. m + Len(a)
      BY <1>2, <2>1, <2>2
    <3> QED
      BY <3>1, <3>2 DEF Plain
  <2>3. CASE j > Len(t)
    <3> DEFINE i == j - Len(t)
    <3>1. i \in DOMAIN s /\ (t \o s)[j] = s[i]
      BY <2>3, Joined
    <3>2. /\ j \in m + 1 .. m + Len(a) <=> i \in k + 1 .. k + Len(a)
          /\ j - m = i - k
      BY <1>2, <2>1, <2>3
    <3> HIDE DEF i, m
    <3> QED
      BY <1>1, <3>1, <3>2 DEF Encloses
  <2> QED
    BY <1>2, <2>1, <2>2, <2>3
<1>4. m + Len(a) <= Len(t \o s) /\ m \in 0 .. Len(t \o s)
  BY <1>2
<1> HIDE DEF m
<1>5. Encloses(t \o s, a, m)
  BY <1>3 DEF Encloses
<1> QED
  BY <1>4, <1>5 DEF OnceIn

LEMMA OnceInItself ==
    ASSUME NEW a \in Seq(SentRecords)
    PROVE  OnceIn(a, a)
<1>1. Len(a) \in Nat /\ DOMAIN a = 1 .. Len(a)
  OBVIOUS
<1>2. Encloses(a, a, 0) /\ 0 + Len(a) <= Len(a)
  BY <1>1 DEF Encloses
<1> QED
  BY <1>1, <1>2 DEF OnceIn

\* A sequence of records of the layer itself is the beginning of one with any answer.
LEMMA BegunInPlain ==
    ASSUME NEW s \in Seq(SentRecords), Plain(s), NEW a \in Seq(SentRecords)
    PROVE  BegunIn(a, s)
<1> DEFINE k == Len(s)
<1>1. k \in Nat /\ k \in 0 .. Len(s) /\ \A j \in DOMAIN s : j \notin k + 1 .. k + Len(a)
  OBVIOUS
<1>2. Encloses(s, a, k)
  BY <1>1 DEF Encloses, Plain
<1> QED
  BY <1>1, <1>2 DEF BegunIn

\* What was sent is the beginning of what was to be sent.
LEMMA CutOff ==
    ASSUME NEW a \in Seq(SentRecords), NEW s \in Seq(SentRecords), NEW t \in Seq(SentRecords)
    PROVE  /\ Plain(s \o t) => Plain(s)
           /\ OnceIn(a, s \o t) => BegunIn(a, s)
<1>1. /\ Len(s) \in Nat /\ Len(t) \in Nat /\ Len(a) \in Nat /\ Len(s \o t) = Len(s) + Len(t)
      /\ \A j \in DOMAIN s : j \in Nat /\ j <= Len(s) /\ j \in DOMAIN (s \o t) /\ (s \o t)[j] = s[j]
  OBVIOUS
<1>2. ASSUME Plain(s \o t) PROVE Plain(s)
  BY <1>1, <1>2 DEF Plain
<1>3. ASSUME OnceIn(a, s \o t) PROVE BegunIn(a, s)
  <2>1. PICK k \in 0 .. Len(s \o t) : Encloses(s \o t, a, k)
    BY <1>3 DEF OnceIn
  <2>2. Encloses(s, a, k)
    BY <1>1, <2>1 DEF Encloses
  <2>3. CASE k <= Len(s)
    <3>1. k \in 0 .. Len(s)
      BY <1>1, <2>3
    <3> QED
      BY <2>2, <3>1 DEF BegunIn
  <2>4. CASE k > Len(s)
    <3>1. \A j \in DOMAIN s : j \notin k + 1 .. k + Len(a)
      BY <1>1, <2>1, <2>4
    <3>2. Plain(s)
      BY <2>2, <3>1 DEF Encloses, Plain
    <3> QED
      BY <3>2, BegunInPlain
  <2> QED
    BY <1>1, <2>3, <2>4
<1> QED
  BY <1>2, <1>3

LEMMA OwnRecordsPlain ==
    /\ Plain(<< >>) /\ Plain(<< CloseRecord >>) /\ Plain(<< AlertRecord >>)
    /\ Plain([k \in 1 .. FlightRecords |-> FlightRecord])
BY DEF Plain, OwnRecords

\* What a fresh handler writes for one record.
LEMMA FreshTurn ==
    ASSUME NEW r \in Segments
    PROVE  LET answer == HandlerTurn(NewHandler, << r >>)
           IN  /\ answer.written = FirstTurnOf(r) /\ answer.returns = FALSE
               /\ answer.handler.sm.state \in Results
               /\ FirstTurnOf(r) \in Seq(SentRecords)
<1> DEFINE answer == HandlerTurn(NewHandler, << r >>)
           sm     == HSM!SetState(HSM!Cleared, "H_HANDLING")
           parsed == Parsed(<< r >>)
           routed == Routed(parsed.request, 0)
<1>1. /\ << r >> \in Seq(Segments) /\ NewHandler \in Handlers /\ Rests(NewHandler)
      /\ NewHandler.sm = HSM!Cleared /\ NewHandler.request = None /\ NewHandler.chunk = 0
      /\ HSM!Cleared \in HSM!Machine /\ HSM!Cleared.state = "READY_TO_HANDLE"
  BY NewHandlerType DEF NewHandler, Rests, HSM!Cleared, HSM!Entered, HSM!Machine, HandlerStates
<1>2. TurnType(answer) /\ TurnAgrees(NewHandler, answer)
  BY <1>1, HandlerTurnType, HandlerTurnAgrees
<1>3. ~answer.returns /\ answer.handler.sm.state \in Results
  BY <1>1, <1>2 DEF TurnAgrees
<1>4. sm.state = "H_HANDLING"
  BY <1>1, HandlerBegins
<1>5. parsed.request = IF r.kind = "full" THEN r.target ELSE None
  BY DEF Parsed, Complete
<1>6. answer =
        IF sm.state = "HANDLER_ERROR"
        THEN Turn([NewHandler EXCEPT !.sm = sm], << r >>, << >>, TRUE)
        ELSE IF parsed.request # None /\ routed.result # None
        THEN Turn([sm |-> HSM!SetState(sm, routed.result),
                   request |-> parsed.request, chunk |-> routed.chunk],
                  parsed.rest, Header(parsed.request) \o routed.body, FALSE)
        ELSE Turn([NewHandler EXCEPT !.sm = HSM!SetState(sm, "FINISHED_NO_WAIT"),
                                     !.request = parsed.request],
                  parsed.rest, << >>, FALSE)
  BY <1>1 DEF HandlerTurn, FirstTurn
<1> HIDE DEF answer, sm, parsed
<1>7. r.target \in Targets /\ r.target # None
  BY RoutesAssumption DEF Segments
<1>8. answer.written = FirstTurnOf(r) /\ answer.returns = FALSE
  <2>1. CASE r.kind = "full" /\ Routed(r.target, 0).result # None
    <3>1. parsed.request = r.target /\ routed = Routed(r.target, 0)
      BY <1>5, <2>1
    <3>2. FirstTurnOf(r) = Header(r.target) \o Routed(r.target, 0).body
      BY <2>1 DEF FirstTurnOf
    <3> HIDE DEF routed
    <3>3. PICK h : answer = Turn(h, parsed.rest, Header(r.target) \o Routed(r.target, 0).body, FALSE)
      BY <1>4, <1>6, <1>7, <2>1, <3>1
    <3> QED
      BY <3>2, <3>3 DEF Turn
  <2>2. CASE ~(r.kind = "full" /\ Routed(r.target, 0).result # None)
    <3>1. ~(parsed.request # None /\ routed.result # None)
      BY <1>5, <2>2
    <3>2. FirstTurnOf(r) = << >>
      BY <2>2 DEF FirstTurnOf
    <3> QED
      BY <1>4, <1>6, <3>1, <3>2 DEF Turn
  <2> QED
    BY <2>1, <2>2
<1>9. FirstTurnOf(r) \in Seq(SentRecords)
  <2>1. FirstTurnOf(r) \in Seq(Targets \X Nat)
    BY <1>2, <1>8 DEF TurnType
  <2> QED
    BY <2>1 DEF SentRecords
<1> QED
  BY <1>3, <1>8, <1>9 DEF answer

-----------------------------------------------------------------------------
(* One answer *)

\* The first request in q, what the server has not processed yet, is the first of those
\* the client made.
FirstAsked(q, asked) ==
    IF asked = << >> THEN \A k \in DOMAIN q : q[k].kind \in Kinds
    ELSE \E k \in DOMAIN q :
           q[k] = asked[1] /\ \A j \in DOMAIN q : j < k => q[j].kind \in Kinds

\* Until the handler is called nothing but records of the layer itself is sent.
Unasked ==
    /\ decrypted_input = << >> /\ decrypted_output = << >>
    /\ Plain(conn.output) /\ Plain(emits) /\ Plain(received)
    /\ channel.can_read => FirstAsked(records \o wire, requests)
    /\ thrown => ~channel.can_read

\* What was sent to the client, and what is still to be.
Outgoing == received \o (conn.output \o emits)

\* Once it was called the channel is closed, and its answer is on its way or was sent, or
\* will never be; what the connection still holds when it is given up is dropped.
Answered ==
    /\ ~channel.can_write /\ requests # << >> /\ next.sm.state # "READY_TO_HANDLE"
    /\ LET answer == FirstTurnOf(requests[1])
       IN  IF conn.socket = None \/ killed THEN BegunIn(answer, received)
           ELSE Plain(Outgoing) \/ OnceIn(answer, Outgoing)

AnswersOnce == IF next = NewHandler THEN Unasked ELSE Answered

Sound == Layered /\ AnswersOnce

LEMMA NewHandlerIsReady == NewHandler.sm.state = "READY_TO_HANDLE"
BY DEF NewHandler, HSM!Cleared, HSM!Entered

LEMMA InitAnswersOnce == Init => AnswersOnce
<1> SUFFICES ASSUME Init PROVE AnswersOnce
  OBVIOUS
<1>1. conn.output = << >>
  BY InitWired DEF Init
<1>2. records \o wire = << >>
  BY DEF Init
<1>3. FirstAsked(records \o wire, requests)
  BY <1>2 DEF Init, FirstAsked
<1> QED
  BY <1>1, <1>3, OwnRecordsPlain DEF Init, AnswersOnce, Unasked

LEMMA OutgoingType ==
    ASSUME Sound
    PROVE  /\ received \in Seq(SentRecords) /\ conn.output \in Seq(SentRecords)
           /\ emits \in Seq(SentRecords) /\ Outgoing \in Seq(SentRecords)
           /\ Answered => FirstTurnOf(requests[1]) \in Seq(SentRecords)
<1>1. /\ received \in Seq(SentRecords) /\ conn.output \in Seq(SentRecords)
      /\ emits \in Seq(SentRecords)
  BY DEF Sound, Layered, Typed, LayerTyped, Wired
<1>2. Outgoing \in Seq(SentRecords)
  BY <1>1 DEF Outgoing
<1>3. Answered => requests[1] \in Segments
  BY TlsAssumption DEF Answered, Sound, Layered, Typed
<1> QED
  BY <1>1, <1>2, <1>3, FreshTurn

\* A step that changes neither the handler nor what is sent.
LEMMA NothingSent ==
    ASSUME Sound,
           UNCHANGED <<next, decrypted_input, decrypted_output, emits, received, requests,
                       killed>>,
           channel'.can_write = channel.can_write,
           channel'.can_read => channel.can_read,
           thrown' => ~channel'.can_read,
           conn'.output = conn.output, conn'.socket = conn.socket,
           next = NewHandler /\ channel'.can_read /\ FirstAsked(records \o wire, requests)
               => FirstAsked(records' \o wire', requests)
    PROVE  AnswersOnce'
<1>1. CASE next = NewHandler
  <2>1. Unasked
    BY <1>1 DEF Sound, AnswersOnce
  <2>2. channel'.can_read => FirstAsked(records' \o wire', requests)
    BY <1>1, <2>1 DEF Unasked
  <2> QED
    BY <1>1, <2>1, <2>2 DEF AnswersOnce, Unasked
<1>2. CASE next # NewHandler
  BY <1>2 DEF Sound, AnswersOnce, Answered, Outgoing
<1> QED
  BY <1>1, <1>2

LEMMA ReadAnswersOnce == Sound /\ Read => AnswersOnce'
<1> SUFFICES ASSUME Sound, Read PROVE AnswersOnce'
  OBVIOUS
<1>1. PICK n \in 0 .. Len(wire), partial \in BOOLEAN :
        /\ records' = SubSeq(wire, 1, n)
        /\ wire' = SubSeq(wire, n + 1, Len(wire))
        /\ channel' = [channel EXCEPT !.partial = partial]
  BY DEF Read
<1>2. records' \o wire' = records \o wire
  <2>1. wire \in Seq(ClientRecords) /\ records = << >>
    BY DEF Sound, Layered, Typed, Stands, Read
  <2>2. SubSeq(wire, 1, n) \o SubSeq(wire, n + 1, Len(wire)) = wire
    <3>1. /\ n \in 1 - 1 .. Len(wire) /\ Len(wire) \in n .. Len(wire)
          /\ 1 \in 1 .. Len(wire) + 1
      BY <2>1
    <3>2. SubSeq(wire, 1, n) \o SubSeq(wire, n + 1, Len(wire)) = SubSeq(wire, 1, Len(wire))
      BY <2>1, <3>1, ConcatAdjacentSubSeq
    <3> QED
      BY <2>1, <3>2, SubSeqFull
  <2>3. << >> \o wire = wire
    BY <2>1
  <2> QED
    BY <1>1, <2>1, <2>2, <2>3
<1>3. /\ channel'.can_write = channel.can_write /\ channel'.can_read = channel.can_read
      /\ ~thrown
  BY <1>1 DEF Sound, Layered, Typed, LayerTyped, Channels, Stands, Read
<1>4. conn'.output = conn.output /\ conn'.socket = conn.socket
  BY ReadWired DEF Sound, Layered, Typed, Read
<1> QED
  BY <1>2, <1>3, <1>4, NothingSent DEF Read

LEMMA ReadEndAnswersOnce == Sound /\ ReadEnd => AnswersOnce'
<1> SUFFICES ASSUME Sound, ReadEnd PROVE AnswersOnce'
  OBVIOUS
<1>1. conn'.output = conn.output /\ conn'.socket = conn.socket
  BY ReadWired DEF Sound, Layered, Typed, ReadEnd
<1>2. ~thrown
  BY DEF Sound, Layered, Stands, ReadEnd
<1> QED
  BY <1>1, <1>2, NothingSent DEF ReadEnd, layerVars, clientVars

LEMMA HaltAnswersOnce == Sound /\ Halt => AnswersOnce'
<1> SUFFICES ASSUME Sound, Halt PROVE AnswersOnce'
  OBVIOUS
<1>1. /\ conn'.output = << >> /\ conn'.socket = None
      /\ UNCHANGED <<records, killed, layerVars, clientVars>>
  BY HaltWired DEF Sound, Layered, Typed, Halt
<1>2. CASE next = NewHandler
  BY <1>1, <1>2, OwnRecordsPlain DEF Sound, AnswersOnce, Unasked, layerVars, clientVars
<1>3. CASE next # NewHandler
  <2> DEFINE answer == FirstTurnOf(requests[1])
  <2>1. Answered
    BY <1>3 DEF Sound, AnswersOnce
  <2>2. /\ answer \in Seq(SentRecords) /\ received \in Seq(SentRecords)
        /\ conn.output \o emits \in Seq(SentRecords)
    BY <2>1, OutgoingType
  <2> HIDE DEF answer
  <2>3. BegunIn(answer, received)
    BY <2>1, <2>2, CutOff, BegunInPlain DEF Answered, Outgoing, answer
  <2>4. Answered'
    BY <1>1, <2>1, <2>3 DEF Answered, layerVars, clientVars, answer
  <2> QED
    BY <1>1, <1>3, <2>4 DEF AnswersOnce, layerVars
<1> QED
  BY <1>2, <1>3

LEMMA EndOfTurnAnswersOnce == Sound /\ EndOfTurn => AnswersOnce'
<1> SUFFICES ASSUME Sound, EndOfTurn PROVE AnswersOnce'
  OBVIOUS
<1>1. conn'.output = conn.output /\ conn'.socket = conn.socket
  <2>1. \A continue \in BOOLEAN :
          /\ Notified(conn, continue).output = conn.output
          /\ Notified(conn, continue).socket = conn.socket
    BY NotifiedWired DEF Sound, Layered, Typed, LayerTyped, Notified
  <2>2. tls_continue \in BOOLEAN /\ Hint \in BOOLEAN
    BY DEF Sound, Layered, Typed, LayerTyped, Channels, Hint
  <2> QED
    BY <2>1, <2>2 DEF EndOfTurn, AfterException
<1>2. next = NewHandler /\ channel.can_read => records = << >>
  BY DEF Sound, AnswersOnce, Unasked, EndOfTurn
<1>3. records' = << >> /\ wire' = wire
  BY DEF EndOfTurn, clientVars
<1> QED
  BY <1>1, <1>2, <1>3, NothingSent DEF EndOfTurn, InTurn, clientVars

LEMMA WriteAnswersOnce == Sound /\ Write => AnswersOnce'
<1> SUFFICES ASSUME Sound, Write PROVE AnswersOnce'
  OBVIOUS
<1>1. conn'.output = conn.output /\ conn'.socket = conn.socket
  <2>1. conn \in Wired /\ conn.socket # None /\ next \in Handlers /\ tls_continue \in BOOLEAN
    BY DEF Sound, Layered, Typed, LayerTyped, Stands, Write, State
  <2> QED
    BY <2>1, WriteBeginWired DEF Write
<1>2. ~thrown
  BY DEF Sound, Layered, Stands, Write
<1> QED
  BY <1>1, <1>2, NothingSent DEF Write, layerVars, clientVars

LEMMA ThreeJoined ==
    \A s, t, u \in Seq(SentRecords) : (s \o t) \o u = s \o (t \o u)
BY ConcatAssociative

\* Taking the first n of t to the end of s leaves what comes out the same.
LEMMA TakenFromOutput ==
    ASSUME NEW s \in Seq(SentRecords), NEW t \in Seq(SentRecords), NEW n \in 0 .. Len(t)
    PROVE  /\ SubSeq(t, 1, n) \in Seq(SentRecords)
           /\ SubSeq(t, n + 1, Len(t)) \in Seq(SentRecords)
           /\ (s \o SubSeq(t, 1, n)) \o SubSeq(t, n + 1, Len(t)) = s \o t
<1>1. /\ SubSeq(t, 1, n) \in Seq(SentRecords)
      /\ SubSeq(t, n + 1, Len(t)) \in Seq(SentRecords)
  OBVIOUS
<1>2. SubSeq(t, 1, n) \o SubSeq(t, n + 1, Len(t)) = t
  <2>1. /\ n \in 1 - 1 .. Len(t) /\ Len(t) \in n .. Len(t)
        /\ 1 \in 1 .. Len(t) + 1
    OBVIOUS
  <2>2. SubSeq(t, 1, n) \o SubSeq(t, n + 1, Len(t)) = SubSeq(t, 1, Len(t))
    BY <2>1, ConcatAdjacentSubSeq
  <2> QED
    BY <2>2, SubSeqFull
<1> DEFINE out  == SubSeq(t, 1, n)
           rest == SubSeq(t, n + 1, Len(t))
<1>3. out \in Seq(SentRecords) /\ rest \in Seq(SentRecords)
  BY <1>1
<1> HIDE DEF out, rest
<1>4. (s \o out) \o rest = s \o (out \o rest)
  BY <1>3, ThreeJoined
<1> QED
  BY <1>2, <1>3, <1>4 DEF out, rest

\* What a call of write() sends comes out of what was to be sent, however far it gets.
LEMMA TakenAnswersOnce ==
    ASSUME Sound, Running, turn = "write", NEW n \in 0 .. Len(conn.output), Taken(n),
           UNCHANGED <<records, layerVars, wire, requests>>,
           \/ killed'
           \/ /\ conn'.output = SubSeq(conn.output, n + 1, Len(conn.output))
              /\ conn'.socket = conn.socket /\ killed' = killed,
           killed' => conn' = conn
    PROVE  AnswersOnce'
<1> DEFINE out  == SubSeq(conn.output, 1, n)
           rest == SubSeq(conn.output, n + 1, Len(conn.output))
<1>1. /\ received \in Seq(SentRecords) /\ conn.output \in Seq(SentRecords)
      /\ emits = << >> /\ conn.socket # None /\ ~killed
  BY OutgoingType DEF Sound, Layered, Stands, Running
<1>2. /\ out \in Seq(SentRecords) /\ rest \in Seq(SentRecords)
      /\ (received \o out) \o rest = received \o conn.output
      /\ received' = received \o out /\ received' \in Seq(SentRecords)
  <2>1. /\ out \in Seq(SentRecords) /\ rest \in Seq(SentRecords)
        /\ (received \o out) \o rest = received \o conn.output
    BY <1>1, TakenFromOutput
  <2>2. received' = received \o out
    BY DEF Taken
  <2> HIDE DEF out, rest
  <2> QED
    BY <1>1, <2>1, <2>2
<1>3. Outgoing = received' \o rest
  <2>1. conn.output \o << >> = conn.output
    BY <1>1, ConcatEmptySeq
  <2> QED
    BY <1>1, <1>2, <2>1 DEF Outgoing
<1>4. Plain(conn.output) => Plain(out) /\ Plain(rest)
  BY <1>1 DEF Plain
<1> HIDE DEF out, rest
<1>5. CASE next = NewHandler
  <2>1. Unasked
    BY <1>5 DEF Sound, AnswersOnce
  <2>2. Plain(received')
    BY <1>1, <1>2, <1>4, <2>1, PlainJoined DEF Unasked
  <2>3. Plain(conn'.output)
    BY <1>4, <2>1 DEF Unasked, rest
  <2> QED
    BY <1>5, <2>1, <2>2, <2>3 DEF AnswersOnce, Unasked, layerVars
<1>6. CASE next # NewHandler
  <2> DEFINE answer == FirstTurnOf(requests[1])
  <2>1. Answered
    BY <1>6 DEF Sound, AnswersOnce
  <2>2. answer \in Seq(SentRecords)
    BY <2>1, OutgoingType
  <2>3. Plain(Outgoing) \/ OnceIn(answer, Outgoing)
    BY <1>1, <2>1 DEF Answered
  <2> HIDE DEF answer
  <2>4. BegunIn(answer, received')
    BY <1>2, <1>3, <2>2, <2>3, CutOff, BegunInPlain
  <2>5. ~killed' => Outgoing' = Outgoing
    <3>1. rest \o << >> = rest
      BY <1>2, ConcatEmptySeq
    <3> QED
      BY <1>1, <1>3, <3>1 DEF Outgoing, layerVars, rest
  <2>6. Answered'
    BY <1>1, <2>1, <2>3, <2>4, <2>5 DEF Answered, layerVars, answer
  <2> QED
    BY <1>6, <2>6 DEF AnswersOnce, layerVars
<1> QED
  BY <1>5, <1>6

LEMMA WrittenAnswersOnce ==
    ASSUME Sound, Running, turn = "write", NEW n \in 0 .. Len(conn.output),
           conn' = WriteEnd(conn, n), Taken(n),
           UNCHANGED <<records, killed, layerVars, wire, requests>>
    PROVE  AnswersOnce'
<1>1. conn \in Wired
  BY DEF Sound, Layered, Typed
<1>2. /\ conn'.output = SubSeq(conn.output, n + 1, Len(conn.output))
      /\ conn'.socket = conn.socket
  BY <1>1, WriteEndWired
<1> QED
  BY <1>2, TakenAnswersOnce DEF Running

LEMMA AllSentAnswersOnce == Sound /\ AllSent => AnswersOnce'
<1> SUFFICES ASSUME Sound, AllSent PROVE AnswersOnce'
  OBVIOUS
<1>1. Len(conn.output) \in 0 .. Len(conn.output)
  BY DEF Sound, Layered, Typed, Wired
<1> QED
  BY <1>1, WrittenAnswersOnce DEF AllSent

LEMMA SendFailsAnswersOnce == Sound /\ SendFails => AnswersOnce'
<1> SUFFICES ASSUME Sound, SendFails PROVE AnswersOnce'
  OBVIOUS
<1>1. PICK n \in 0 .. Len(conn.output) - 1 : conn' = WriteEnd(conn, n) /\ Taken(n)
  BY DEF SendFails
<1>2. n \in 0 .. Len(conn.output)
  BY DEF Sound, Layered, Typed, Wired
<1> QED
  BY <1>1, <1>2, WrittenAnswersOnce DEF SendFails

LEMMA BrokenPipeAnswersOnce == Sound /\ BrokenPipe => AnswersOnce'
<1> SUFFICES ASSUME Sound, BrokenPipe PROVE AnswersOnce'
  OBVIOUS
<1>1. PICK n \in 0 .. Len(conn.output) - 1 : Taken(n)
  BY DEF BrokenPipe
<1>2. n \in 0 .. Len(conn.output)
  BY DEF Sound, Layered, Typed, Wired
<1> QED
  BY <1>1, <1>2, TakenAnswersOnce DEF BrokenPipe

\* Taking the first of t to the end of s leaves what comes out the same.
LEMMA TakenFromOther ==
    ASSUME NEW s \in Seq(SentRecords), NEW t \in Seq(SentRecords), t # << >>
    PROVE  Append(s, Head(t)) \o Tail(t) = s \o t
<1> DEFINE h == Head(t)
<1>1. h \in SentRecords /\ Tail(t) \in Seq(SentRecords) /\ << h >> \in Seq(SentRecords)
  BY HeadTailProperties
<1>2. t = << h >> \o Tail(t)
  <2> DEFINE m == Len(t)
  <2>1. 1 \in 1 .. m /\ m \in 1 .. m /\ h = t[1]
    BY EmptySeq
  <2>2. SubSeq(t, 1, m) = << t[1] >> \o SubSeq(t, 2, m)
    BY <2>1, SubSeqRecursiveFirst
  <2> QED
    BY <2>1, <2>2, SubSeqFull, TailIsSubSeq
<1>3. Append(s, h) = s \o << h >>
  BY <1>1, AppendIsConcat
<1>4. (s \o << h >>) \o Tail(t) = s \o (<< h >> \o Tail(t))
  BY <1>1, ConcatAssociative
<1> QED
  BY <1>2, <1>3, <1>4

LEMMA EmitAnswersOnce == Sound /\ Emit => AnswersOnce'
<1> SUFFICES ASSUME Sound, Emit PROVE AnswersOnce'
  OBVIOUS
<1> DEFINE c == [conn EXCEPT !.output = Append(@, Head(emits))]
<1>1. /\ conn \in Wired /\ conn.output \in Seq(SentRecords)
      /\ emits \in Seq(SentRecords) /\ emits # << >>
  BY DEF Sound, Layered, Typed, LayerTyped, Wired, Emit
<1>2. c \in Wired /\ c.output = Append(conn.output, Head(emits)) /\ c.socket = conn.socket
  <2>1. Append(conn.output, Head(emits)) \in Seq(SentRecords)
    BY <1>1
  <2> QED
    BY <1>1, <2>1 DEF Wired
<1>3. conn' = NotifiedByHandler(set_handler(c, Wants(next, tls_continue)))
  BY DEF Emit, Notified
<1> HIDE DEF c
<1>4. conn'.output = Append(conn.output, Head(emits)) /\ conn'.socket = c.socket
  BY <1>2, <1>3, NotifiedWired, SMTT(30) DEF Sound, Layered, Typed, LayerTyped
<1>5. /\ emits' = Tail(emits)
      /\ UNCHANGED <<next, decrypted_input, decrypted_output, channel, thrown, received,
                     records, wire, requests, killed>>
  BY DEF Emit, clientVars
<1>6. conn'.output \o emits' = conn.output \o emits
  BY <1>1, <1>4, <1>5, TakenFromOther
<1>7. Plain(conn.output) /\ Plain(emits) => Plain(conn'.output) /\ Plain(emits')
  BY <1>1, <1>4, <1>5 DEF Plain
<1>8. CASE next = NewHandler
  BY <1>5, <1>7, <1>8 DEF Sound, AnswersOnce, Unasked
<1>9. CASE next # NewHandler
  BY <1>2, <1>4, <1>5, <1>6, <1>9 DEF Sound, AnswersOnce, Answered, Outgoing
<1> QED
  BY <1>8, <1>9

\* The next record is the first request, or nothing the answer depends on.
LEMMA HeadAsked ==
    ASSUME NEW q \in Seq(ClientRecords), q # << >>, NEW w \in Seq(ClientRecords),
           NEW asked \in Seq(Asked), FirstAsked(q \o w, asked)
    PROVE  /\ Head(q).kind \notin Kinds => asked # << >> /\ Head(q) = asked[1]
           /\ Head(q).kind \in Kinds => FirstAsked(Tail(q) \o w, asked)
<1> DEFINE all  == q \o w
           rest == Tail(q) \o w
<1>1. /\ all \in Seq(ClientRecords) /\ rest \in Seq(ClientRecords)
      /\ Len(all) \in Nat /\ Len(rest) \in Nat /\ Len(all) = Len(rest) + 1
      /\ DOMAIN all = 1 .. Len(all) /\ DOMAIN rest = 1 .. Len(rest)
  BY HeadTailProperties, ConcatProperties, LenProperties
<1>2. all[1] = Head(q)
  BY ConcatProperties, EmptySeq
<1>3. \A i \in 1 .. Len(rest) : rest[i] = all[i + 1]
  OBVIOUS
<1> HIDE DEF all, rest
<1>4. FirstAsked(all, asked)
  BY DEF all
<1>5. CASE asked = << >>
  <2>1. \A k \in DOMAIN all : all[k].kind \in Kinds
    BY <1>4, <1>5 DEF FirstAsked
  <2>2. 1 \in DOMAIN all /\ \A k \in DOMAIN rest : k + 1 \in DOMAIN all
    BY <1>1
  <2>3. FirstAsked(rest, asked)
    BY <1>1, <1>3, <1>5, <2>1, <2>2 DEF FirstAsked
  <2> QED
    BY <1>2, <2>1, <2>2, <2>3 DEF rest
<1>6. CASE asked # << >>
  <2>1. PICK k \in DOMAIN all :
          all[k] = asked[1] /\ \A j \in DOMAIN all : j < k => all[j].kind \in Kinds
    BY <1>4, <1>6 DEF FirstAsked
  <2>2. k \in Nat /\ 1 <= k /\ k <= Len(all) /\ 1 \in DOMAIN all
    BY <1>1
  <2>3. CASE k = 1
    <3>1. Head(q) \in Asked
      BY <1>2, <1>6, <2>1, <2>3
    <3> QED
      BY <1>2, <1>6, <2>1, <2>3, <3>1, ClientRecordKinds DEF ClientRecords
  <2>4. CASE k # 1
    <3> DEFINE m == k - 1
    <3>1. m \in DOMAIN rest /\ rest[m] = asked[1]
      BY <1>1, <1>3, <2>1, <2>2, <2>4, SMTT(30)
    <3>2. ASSUME NEW j \in DOMAIN rest, j < m PROVE rest[j].kind \in Kinds
      <4>1. j + 1 \in DOMAIN all /\ j + 1 < k /\ rest[j] = all[j + 1]
        BY <1>1, <1>3, <2>2, <3>2
      <4> QED
        BY <2>1, <4>1
    <3> HIDE DEF m
    <3>3. FirstAsked(rest, asked)
      BY <1>6, <3>1, <3>2 DEF FirstAsked
    <3>4. Head(q).kind \in Kinds
      BY <1>2, <2>1, <2>2, <2>4
    <3> QED
      BY <3>3, <3>4 DEF rest
  <2> QED
    BY <2>3, <2>4
<1> QED
  BY <1>5, <1>6

\* Another record of the client.
LEMMA AskedMore ==
    ASSUME NEW q \in Seq(ClientRecords), NEW r \in ClientRecords, NEW asked \in Seq(Asked),
           FirstAsked(q, asked), NEW more,
           (r.kind \in Kinds /\ more = asked) \/ more = Append(asked, r)
    PROVE  FirstAsked(Append(q, r), more)
<1> DEFINE all == Append(q, r)
<1>1. /\ Len(q) \in Nat /\ DOMAIN q = 1 .. Len(q) /\ DOMAIN all = 1 .. Len(q) + 1
      /\ \A i \in DOMAIN q : all[i] = q[i]
      /\ all[Len(q) + 1] = r
  OBVIOUS
<1> HIDE DEF all
<1>2. CASE asked # << >>
  <2>1. more # << >> /\ more[1] = asked[1]
    BY <1>2
  <2>2. PICK k \in DOMAIN q :
          q[k] = asked[1] /\ \A j \in DOMAIN q : j < k => q[j].kind \in Kinds
    BY <1>2 DEF FirstAsked
  <2>3. /\ k \in DOMAIN all /\ all[k] = more[1]
        /\ \A j \in DOMAIN all : j < k => all[j].kind \in Kinds
    BY <1>1, <2>1, <2>2
  <2> QED
    BY <2>1, <2>3 DEF FirstAsked, all
<1>3. CASE asked = << >> /\ more = asked
  <2>1. \A k \in DOMAIN q : q[k].kind \in Kinds
    BY <1>3 DEF FirstAsked
  <2>2. more # Append(asked, r)
    BY <1>3
  <2>3. \A k \in DOMAIN all : all[k].kind \in Kinds
    BY <1>1, <2>1, <2>2
  <2> QED
    BY <1>3, <2>3 DEF FirstAsked, all
<1>4. CASE asked = << >> /\ more # asked
  <2>1. more # << >> /\ more[1] = r
    BY <1>4
  <2>2. \A k \in DOMAIN q : q[k].kind \in Kinds
    BY <1>4 DEF FirstAsked
  <2> DEFINE n == Len(q) + 1
  <2>3. /\ n \in DOMAIN all /\ all[n] = more[1]
        /\ \A j \in DOMAIN all : j < n => all[j].kind \in Kinds
    BY <1>1, <2>1, <2>2
  <2> HIDE DEF n
  <2> QED
    BY <2>1, <2>3 DEF FirstAsked, all
<1> QED
  BY <1>2, <1>3, <1>4

\* Another call of the handler finds the channel closed.
LEMMA CalledAgain ==
    ASSUME LayerTyped, Answered, emits = << >>, NEW input \in Seq(Segments), NotifyNext(input),
           UNCHANGED <<conn, received, requests, killed>>
    PROVE  Answered' /\ next' # NewHandler
<1> DEFINE answer == HandlerTurn(next, input)
<1>1. TurnAgrees(next, answer)
  BY HandlerTurnAgrees DEF LayerTyped
<1>2. next' = answer.handler /\ ~channel.can_write
  BY DEF NotifyNext, Answered
<1>3. emits' = emits /\ channel' = channel
  BY <1>2 DEF NotifyNext
<1> HIDE DEF answer
<1>4. next'.sm.state # "READY_TO_HANDLE"
  BY <1>1, <1>2 DEF TurnAgrees, Results
<1> QED
  BY <1>3, <1>4, NewHandlerIsReady DEF Answered, Outgoing

LEMMA RecallAnswersOnce == Sound /\ Recall => AnswersOnce'
<1> SUFFICES ASSUME Sound, Recall PROVE AnswersOnce'
  OBVIOUS
<1>1. next.sm.state = "RECALL" /\ emits = << >>
  BY DEF Sound, Layered, Recall, RestsAsItsHandler, Stands
<1>2. Answered
  BY <1>1, NewHandlerIsReady DEF Sound, AnswersOnce
<1>3. /\ LayerTyped /\ decrypted_input \in Seq(Segments) /\ NotifyNext(decrypted_input)
      /\ UNCHANGED <<conn, received, requests, killed>>
  BY DEF Sound, Layered, Typed, LayerTyped, Recall, clientVars
<1> QED
  BY <1>1, <1>2, <1>3, CalledAgain DEF AnswersOnce

\* The first call: what it writes is sent, and the channel closed behind it.
LEMMA CalledFirst ==
    ASSUME Sound, next = NewHandler, emits = << >>, NEW r \in Asked,
           conn.socket # None, ~killed,
           requests # << >>, requests[1] = r, NotifyNext(Append(decrypted_input, r)),
           UNCHANGED <<conn, received, requests, killed>>
    PROVE  Answered' /\ next' # NewHandler
<1> DEFINE answer == HandlerTurn(NewHandler, << r >>)
           text   == FirstTurnOf(r)
<1>1. Unasked /\ Append(decrypted_input, r) = << r >>
  BY DEF Sound, AnswersOnce, Unasked
<1>2. /\ answer.written = text /\ answer.returns = FALSE
      /\ answer.handler.sm.state \in Results /\ text \in Seq(SentRecords)
  BY FreshTurn, TlsAssumption
<1>3. << >> \o text = text
  BY <1>2, ConcatEmptySeq
<1>4. WantsAnswerSent(answer.handler)
  BY <1>2 DEF Results, WantsAnswerSent, wants_to_write, wants_to_live, wants_to_be_calledback
<1>5. /\ next' = answer.handler
      /\ IF channel.can_write
         THEN /\ emits' = text \o << CloseRecord >> /\ channel' = AfterAnswer(channel)
         ELSE UNCHANGED <<channel, emits>>
  BY <1>1, <1>2, <1>3, <1>4 DEF NotifyNext, Unasked
<1> HIDE DEF answer, text
<1>6. next'.sm.state # "READY_TO_HANDLE"
  BY <1>2, <1>5 DEF Results
<1>7. ~channel'.can_write
  BY <1>5 DEF AfterAnswer, Sound, Layered, Typed, LayerTyped, Channels
<1>8. /\ conn.output \in Seq(SentRecords) /\ received \in Seq(SentRecords)
      /\ Plain(conn.output) /\ Plain(received)
  BY <1>1 DEF Sound, Layered, Typed, Wired, Unasked
<1> DEFINE pending == conn.output \o emits'
<1>9. pending \in Seq(SentRecords) /\ (Plain(pending) \/ OnceIn(text, pending))
  <2>1. CASE channel.can_write
    <3>1. << CloseRecord >> \in Seq(SentRecords)
      BY OwnRecordsAreSent DEF OwnRecords
    <3>2. OnceIn(text, text \o << CloseRecord >>)
      BY <1>2, <3>1, OnceInItself, OnceThenPlain, OwnRecordsPlain
    <3>3. text \o << CloseRecord >> \in Seq(SentRecords)
      BY <1>2, <3>1
    <3> QED
      BY <1>2, <1>5, <1>8, <2>1, <3>2, <3>3, PlainThenOnce, ConcatProperties
  <2>2. CASE ~channel.can_write
    <3>1. conn.output \o << >> = conn.output
      BY <1>8, ConcatEmptySeq
    <3> QED
      BY <1>5, <1>8, <2>2, <3>1
  <2> QED
    BY <2>1, <2>2
<1> HIDE DEF pending
<1>10. Plain(received \o pending) \/ OnceIn(text, received \o pending)
  BY <1>2, <1>8, <1>9, PlainJoined, PlainThenOnce
<1>11. Answered'
  BY <1>6, <1>7, <1>10 DEF Answered, Outgoing, pending, text
<1> QED
  BY <1>6, <1>11, NewHandlerIsReady

\* A record of the handshake is answered with records of the layer itself, and what is
\* not in its place closes the channel.
LEMMA HandshakeSends ==
    ASSUME LayerTyped, emits = << >>, ~thrown, NEW r, Handshake(r)
    PROVE  /\ Plain(emits')
           /\ channel'.can_write => channel.can_write
           /\ channel'.can_read => r.kind \in Kinds
           /\ thrown' => ~channel'.can_read
<1>1. Plain(emits')
  BY OwnRecordsPlain DEF Handshake
<1>2. channel \in Channels
  BY DEF LayerTyped
<1>3. CASE r.kind = "hello"
  <2>1. channel' = channel /\ thrown' = thrown
    BY <1>3 DEF Handshake
  <2> QED
    BY <1>1, <1>3, <2>1 DEF Kinds
<1>4. CASE r.kind = "finished"
  <2>1. channel' = [channel EXCEPT !.established = TRUE] /\ thrown' = thrown
    BY <1>4 DEF Handshake
  <2> QED
    BY <1>1, <1>2, <1>4, <2>1 DEF Channels, Kinds
<1>5. CASE r.kind = "bye"
  <2>1. /\ channel' = [channel EXCEPT !.can_read = FALSE, !.can_write = @ /\ version = "1.3"]
        /\ thrown' = thrown
    BY <1>5 DEF Handshake
  <2> QED
    BY <1>1, <1>2, <2>1 DEF Channels
<1>6. CASE r.kind \notin {"hello", "finished", "bye"}
  <2>1. channel' = [channel EXCEPT !.can_read = FALSE, !.can_write = FALSE]
    BY <1>6 DEF Handshake
  <2> QED
    BY <1>1, <1>2, <2>1 DEF Channels
<1> QED
  BY <1>3, <1>4, <1>5, <1>6

LEMMA ProcessAnswersOnce == Sound /\ Process => AnswersOnce'
<1> SUFFICES ASSUME Sound, Process PROVE AnswersOnce'
  OBVIOUS
<1> DEFINE r == Head(records)
<1>1. /\ records \in Seq(ClientRecords) /\ records # << >> /\ wire \in Seq(ClientRecords)
      /\ requests \in Seq(Asked) /\ r \in ClientRecords
  BY DEF Sound, Layered, Typed, Process
<1>2. /\ emits = << >> /\ ~thrown /\ channel.can_read /\ LayerTyped
      /\ records' = Tail(records)
      /\ conn.socket # None /\ ~killed
      /\ UNCHANGED <<conn, received, requests, wire, killed>>
  BY DEF Sound, Layered, Typed, Stands, Process, InTurn, Running, clientVars
<1>3. next = NewHandler =>
        /\ r.kind \notin Kinds => requests # << >> /\ r = requests[1]
        /\ r.kind \in Kinds => FirstAsked(Tail(records) \o wire, requests)
  BY <1>1, <1>2, HeadAsked DEF Sound, AnswersOnce, Unasked
<1>4. CASE r.kind \notin Kinds /\ channel.established
  <2>1. NotifyNext(Append(decrypted_input, r))
    BY <1>4 DEF Process
  <2>2. r \in Asked /\ Append(decrypted_input, r) \in Seq(Segments)
    BY <1>1, <1>2, <1>4, ClientRecordKinds, TlsAssumption DEF LayerTyped
  <2> HIDE DEF r
  <2>3. CASE next = NewHandler
    BY <1>2, <1>3, <1>4, <2>1, <2>2, <2>3, CalledFirst DEF AnswersOnce
  <2>4. CASE next # NewHandler
    BY <1>2, <2>1, <2>2, <2>4, CalledAgain DEF AnswersOnce, Sound
  <2> QED
    BY <2>3, <2>4
<1>5. CASE ~(r.kind \notin Kinds /\ channel.established)
  <2>1. Handshake(r) /\ UNCHANGED <<next, decrypted_input, decrypted_output>>
    BY <1>5 DEF Process
  <2>2. /\ emits' \in Seq(SentRecords) /\ Plain(emits')
        /\ channel'.can_write => channel.can_write
        /\ channel'.can_read => r.kind \in Kinds
        /\ thrown' => ~channel'.can_read
    BY <1>2, <2>1, HandshakeSends, HandshakeTells DEF LayerTyped
  <2> HIDE DEF r
  <2>3. CASE next = NewHandler
    BY <1>2, <1>3, <2>1, <2>2, <2>3 DEF AnswersOnce, Sound, Unasked
  <2>4. CASE next # NewHandler
    <3> DEFINE answer == FirstTurnOf(requests[1])
    <3>1. Answered
      BY <2>4 DEF AnswersOnce, Sound
    <3>2. /\ conn.output \in Seq(SentRecords) /\ received \in Seq(SentRecords)
          /\ answer \in Seq(SentRecords) /\ Outgoing \in Seq(SentRecords)
      BY <3>1, OutgoingType
    <3> HIDE DEF answer
    <3>3. Outgoing = received \o conn.output
      BY <1>2, <3>2, ConcatEmptySeq DEF Outgoing
    <3>4. Outgoing' = Outgoing \o emits'
      <4>1. Outgoing' = received \o (conn.output \o emits')
        BY <1>2 DEF Outgoing
      <4>2. /\ received \in Seq(SentRecords) /\ conn.output \in Seq(SentRecords)
            /\ emits' \in Seq(SentRecords)
        BY <2>2, <3>2
      <4>3. (received \o conn.output) \o emits' = received \o (conn.output \o emits')
        BY <4>2, ThreeJoined
      <4> QED
        BY <3>3, <4>1, <4>3
    <3>5. Plain(Outgoing) \/ OnceIn(answer, Outgoing)
      BY <1>2, <3>1 DEF Answered, answer
    <3>6. Plain(Outgoing') \/ OnceIn(answer, Outgoing')
      BY <2>2, <3>2, <3>4, <3>5, PlainJoined, OnceThenPlain
    <3>7. Answered'
      BY <1>2, <2>1, <2>2, <3>1, <3>6 DEF Answered, answer
    <3> QED
      BY <2>1, <2>4, <3>7 DEF AnswersOnce
  <2> QED
    BY <2>3, <2>4
<1> QED
  BY <1>4, <1>5

\* A step of the client, which is gone or adds a record.
LEMMA SaidAnswersOnce ==
    ASSUME Sound, NEW r \in ClientRecords, wire' = Append(wire, r),
           (r.kind \in Kinds /\ requests' = requests) \/ requests' = Append(requests, r),
           UNCHANGED <<conn, next, decrypted_input, decrypted_output, channel, emits, thrown,
                       killed, received, records>>
    PROVE  AnswersOnce'
<1>1. /\ records \in Seq(ClientRecords) /\ wire \in Seq(ClientRecords)
      /\ requests \in Seq(Asked)
  BY DEF Sound, Layered, Typed
<1>2. requests # << >> => requests' # << >> /\ requests'[1] = requests[1]
  BY <1>1
<1>3. records \o Append(wire, r) = Append(records \o wire, r)
  <2>1. << r >> \in Seq(ClientRecords) /\ Append(wire, r) = wire \o << r >>
    BY <1>1, AppendIsConcat
  <2>2. /\ records \o wire \in Seq(ClientRecords)
        /\ Append(records \o wire, r) = (records \o wire) \o << r >>
    BY <1>1, ConcatProperties, AppendIsConcat
  <2> QED
    BY <1>1, <2>1, <2>2, ConcatAssociative
<1>4. FirstAsked(records \o wire, requests) => FirstAsked(records' \o wire', requests')
  <2>1. records \o wire \in Seq(ClientRecords)
    BY <1>1, ConcatProperties
  <2> QED
    BY <1>1, <1>3, <2>1, AskedMore
<1>5. CASE next = NewHandler
  BY <1>4, <1>5 DEF Sound, AnswersOnce, Unasked
<1>6. CASE next # NewHandler
  BY <1>2, <1>6 DEF Sound, AnswersOnce, Answered, Outgoing
<1> QED
  BY <1>5, <1>6

LEMMA NextAnswersOnce == Sound /\ [Next]_vars => AnswersOnce'
<1> SUFFICES ASSUME Sound, [Next]_vars PROVE AnswersOnce'
  OBVIOUS
<1>1. CASE Server
  BY <1>1, ReadAnswersOnce, ReadEndAnswersOnce, WriteAnswersOnce, AllSentAnswersOnce,
     SendFailsAnswersOnce, BrokenPipeAnswersOnce, HaltAnswersOnce, ProcessAnswersOnce,
     RecallAnswersOnce, EmitAnswersOnce, EndOfTurnAnswersOnce DEF Server
<1>2. ASSUME NEW kind \in Kinds, SayRecord(kind) PROVE AnswersOnce'
  <2>1. Record(kind) \in ClientRecords /\ Record(kind).kind \in Kinds
    BY DEF ClientRecords, Record
  <2> QED
    BY <1>2, <2>1, SaidAnswersOnce DEF SayRecord, Say, layerVars
<1>3. ASSUME NEW request \in Asked, Ask(request) PROVE AnswersOnce'
  BY <1>3, SaidAnswersOnce DEF Ask, Say, layerVars, ClientRecords
<1>4. CASE Leave \/ UNCHANGED vars
  <2>1. UNCHANGED <<conn, next, decrypted_input, decrypted_output, channel, emits, thrown,
                    killed, received, records, wire, requests>>
    BY <1>4 DEF Leave, vars, layerVars, clientVars
  <2> QED
    BY <2>1 DEF Sound, AnswersOnce, Unasked, Answered, Outgoing
<1> QED
  BY <1>1, <1>2, <1>3, <1>4 DEF Next

-----------------------------------------------------------------------------
(* Theorems *)

LEMMA AlwaysLayered == Spec => []Layered
BY InitLayered, NextLayered, PTL DEF Spec

\* However often Botan notifies the connection while a turn lasts, between two turns the
\* connection rests in HANDLING only for a handler that wants to be called back, and is
\* DONE only when the layer does not go on: no connection waits for a call that does not
\* come, and none is closed over a handler with more to say.
THEOREM ConnectionRestsAsItsHandler == Spec => []RestsAsItsHandler
<1>1. Layered => RestsAsItsHandler
  BY DEF Layered
<1> QED
  BY <1>1, AlwaysLayered, PTL

\* The assert of the connection fails only where Botan waits for no byte before the
\* handler has answered.
THEOREM AssertFailsOnlyWithoutHint == Spec => []AssertsOnlyWithoutHint
<1>1. Layered => AssertsOnlyWithoutHint
  BY DEF Layered
<1> QED
  BY <1>1, AlwaysLayered, PTL

\* However the sends fail, what a client is sent is the answer of the first call for its
\* first request, once and in one piece, or the beginning of it, or nothing, whatever it
\* asks after that: though the stream the answer was written to is never emptied, the
\* channel is closed before it could be sent again.
THEOREM OnlyTheFirstTurnIsSent == Spec => []FirstTurnOnce
<1>1. Init => Sound
  BY InitLayered, InitAnswersOnce DEF Sound
<1>2. Sound /\ [Next]_vars => Sound'
  BY NextLayered, NextAnswersOnce DEF Sound
<1>3. Sound => FirstTurnOnce
  <2> SUFFICES ASSUME Sound PROVE FirstTurnOnce
    OBVIOUS
  <2>1. /\ received \in Seq(SentRecords) /\ conn.output \o emits \in Seq(SentRecords)
        /\ requests \in Seq(Asked) /\ << >> \in Seq(SentRecords)
    BY OutgoingType DEF Sound, Layered, Typed
  <2>2. CASE next = NewHandler
    <3>1. BegunIn(<< >>, received)
      BY <2>1, <2>2, BegunInPlain DEF Sound, AnswersOnce, Unasked
    <3> QED
      BY <3>1 DEF FirstTurnOnce, BegunIn
  <2>3. CASE next # NewHandler
    <3> DEFINE answer == FirstTurnOf(requests[1])
    <3>1. Answered
      BY <2>3 DEF Sound, AnswersOnce
    <3>2. 1 \in DOMAIN requests \cap {1} /\ answer \in Seq(SentRecords)
      BY <2>1, <3>1, OutgoingType DEF Answered
    <3> HIDE DEF answer
    <3>3. BegunIn(answer, received)
      BY <2>1, <3>1, <3>2, CutOff, BegunInPlain DEF Answered, Outgoing, answer
    <3> QED
      BY <3>2, <3>3 DEF FirstTurnOnce, BegunIn, answer
  <2> QED
    BY <2>2, <2>3
<1> QED
  BY <1>1, <1>2, <1>3, PTL DEF Spec
=============================================================================
