# Verification of nimlib

nimlib is a single-threaded HTTP/1.1 server in C++: one loop polls sockets, moves
connections through a state machine, lets a handler turn requests into responses, and
measures how long that takes. This directory holds TLA+ models of it, TLC
configurations that check them, and proofs checked by TLAPS. Paths below are relative
to the repository, `file.cpp:n` means a file under `src/src/`.

## 1. The system

| component | state | operations | works with |
|---|---|---|---|
| `StateManager<T>` (`utils/state_manager.h`) | state, reset counter, time of the last change | `set_state`, `reset_state`, `get_state`, `clear` | one in each connection, one in each handler |
| `TcpConnection` | its state machine, socket, handler, two streams, response timer | `accept_socket`, `set_handler`, `notify(directive)` (read, write, continue), `notify(handler)`, `halt`, `get_state` | called by pool and loop, calls the handler, is called back by it |
| `TcpConnectionPool` | 65 connections, indexed by socket descriptor | `record_connection`, `find`, `clean_up` | called by the loop |
| `PollingServer` | listening socket, the list of polled sockets | `run`: `setup_fds`, `poll`, `accept_new_connection`, `handle_connections`, `clean_up` | everything above |
| `HttpHandler` | its state machine, the current request, the router | `notify`, `wants_*` | called by the connection, uses parser and router, calls the connection back |
| parser | none | `parse_request`, `parse_response` | reads the connection's input stream |
| `Router` | tree of routes per method, files of static routes, next chunk of each big file, fallback | `get`, `post`, `serve_static`, `serve_static_big`, `sub_route`, `fallback`, `route` | set up by the handler's constructor, then called by the handler; reads files |
| sockets | a descriptor | `tcp_accept`, `tcp_read`, `tcp_send`, close in the destructor | the kernel |
| `Timer`, `Duration`, `Count` | running or not, since when; a pointer to a metric | `start`, `end`, `cancel` | each connection has a `Duration` |
| metrics | metrics by name; aggregators; ring buffers of the last values | `build`, `register_aggregator`, `receive`, `get_report`, `generate_stats_report` | fed by measures, read by `GET /metrics` |
| TLS layer | Botan server, two decrypted streams, `tls_continue` | both `notify`, `wants_*`, the callbacks of Botan | between connection and `HttpHandler`; not connected: commented out in `tcp_connection_pool.cpp:36` |
| logger | none of importance | `log` | everybody |

What is hard. There is one thread, so the interleavings are those of the loop with
clients, kernel and time: data arrives in pieces, sends are cut up, fail or block,
clients leave, descriptors are given out again, a timeout is noticed only when somebody
looks and may run out inside a call. Two state machines per connection (connection and
handler) call each other and must stay in step. Chunked responses go on only because
`clean_up` calls the handler again, and each part reads a file that other processes may
have changed. Behind the TLS layer the connection is notified by callbacks in the middle
of the handler's turn. In the router and the metrics the order of setting up, joining,
measuring and reporting is up to the program.

What makes it correct: a socket belongs to one slot and nothing of a session is left for
the next (pool, connection); a client gets its own response, whole and in order, however
it is cut up (connection, handler, router); the loop never waits except in `send`, every
request is answered and every slot comes back (loop); a request finds the route that was
added for it, and a file is served byte by byte (router); what is accepted as a request
says in one way only where its body ends (parser); a machine stays within its table,
resets and timeouts (state manager); statistics are those of the values received, and a
series keeps the last ones (metrics). The hazards behind these are listed one by one,
with their lines, in `PROJECT.json`.

## 2. The modules

Definitions have the names of the code where TLA+ allows it; `PROJECT.json` maps each to
its lines. Definitions named `X_Something` next to a definition `X` are mutants: `X` as a
plausible bug would have it, which no specification uses. They show that the properties
can fail.

### State machine
* **StateManager**: the class as operators on a record `[state, reset_count, age]`, with
  the three tables as constants. `age` stands for `now() - last_state_change`.
* **StateManagerSpec**: one object under every order of calls and ticks; its properties.
* **StateManagerProofs**: theorems about it. **MCStateManager**: the table of
  `state_manager.test.cpp` without one entry.

### Server
* **HttpHandler**: handler, parser and router as operators on a handler record. Bytes are
  tokens: a client sends *segments* (a full request, the head or the tail of one, or
  junk), the server answers with *parts* (part 0 is status line and headers, the others
  pieces of the body). A route is of one of four kinds: answered in one go, chunked (two
  chunks a call, RECALL in between), one that keeps the connection, and none (a method
  nothing is routed for, which leaves the router without an answer).
  No route of `http.cpp` keeps the connection; the protocol between handler and
  connection supports it and the tests use it.
* **TcpConnection**: a connection record and one operator per call. `write()` may block in
  the middle and is the pair `WriteBegin`/`WriteEnd` around a send loop.
* **PollingServer**: the pool is the variable `conn`; a program counter steps through
  `run()`: poll, accept, handle (one socket a step), write (one `send` a step), clean.
  Around it clients connect, send, receive and leave, and time passes (`Tick`, and `late`
  in `CleanUp` for a timeout inside `halt()`). `Accept` gives out the lowest free
  descriptor, as the kernel does, and that is the slot.
* **SessionService**: the abstract specification: slots serve one client at a time, a
  client is served once, and what it is sent grows into one response. `PollingServerProps`
  has the refinement mapping (`owner` is the socket of the slot, `answer` what `send` took).
* **PollingServerProps**: invariants, action properties, refinement, liveness.
  **MCPollingServer**: small values for the constants. **ConnectionProofs** (lemmas on the
  operators) and **PollingServerProofs** (theorems, on top of these).

### Parser, router, files
* **Parser**: `parse_request` as a recursive function over the lines of a text
  (`ReadLines`). A line is its kind (what the tokenizers make of it) and its end (what
  `getline` and `peek` find). **ParserSpec** sends texts line by line, or in the segments of
  `HttpHandler`, and compares: with a definition that quantifies over lines, and with the
  `Parsed` of `HttpHandler`, whose head ends at the end of a line. **ParserProofs**:
  theorems about both.
* **Router**: the class as operators on a record. The nodes own their children, so a tree
  is a function from paths to nodes; a target is the sequence of its pieces between
  slashes. **RouterSpec** is a program that sets up two routers by any calls and keeps a
  table of what it added. **MCRouter**: targets and patterns. **RouterProofs**: theorems
  about every such program.
* **StaticFiles**: a request for a file, one system call a step (open, size, read), while
  other processes rewrite, replace or remove the file. A byte is a version and an offset,
  so that a byte in the wrong place is seen. It shows that the chunks `HttpHandler` counts
  are those of the code for a file that does not change (`CallsAsInHttpHandler`).
  A response is the sequence of its chunks. **StaticFilesProofs**: theorems about it.

### TLS layer
* **TlsLayer**: a `TcpConnection` whose handler is the layer, with the `HttpHandler` behind
  it, both from the modules above. Botan is external: of `received_data` it matters which
  records it is given, which it emits (each emission notifies the connection), what it
  says it needs, and when it throws. A turn of the layer is split at the callbacks.
  `write()` is a step up to the send loop (`Write`) and one for its outcome: all is sent
  (`AllSent`), a send fails after part of the records (`SendFails`), as it may at any time
  once the client has left, or SIGPIPE ends the process (`BrokenPipe`). That a send may
  wait, and the timeout of the connection, are left to PollingServer.
  The layer's `wants_*` are those of an equivalent handler (`Wants`), so that the operators
  of `TcpConnection` are used as they are. **MCTlsLayer**: targets and requests.
  **TlsLayerProofs**: theorems about the layer.

### Metrics
* **CircularArray**: the ring buffer. **Aggregations**: the seven aggregators; the
  priority queues of the median are sorted sequences, whose loops move one top a turn
  (`MoveTops`); sums are exact.
* **Metrics**: the program builds metrics, registers aggregators late, makes `Duration`s
  by name, starts, ends and cancels them, asks for reports, in any order, while time
  passes. `received`, `since` and `rows` are history variables of a metric, and `made`
  (how many metrics there were) of a measure.
* **MetricsProps**: aggregates and series against definitions over all values received, and
  measures against the order in which metrics were built.
  **MCMetrics**: small values. **MetricsProofs**: theorems about both.

## 3. What is checked

| run | shows | bounds |
|---|---|---|
| MCStateManager | `BoundedStay`: with limit R and timeout T a state lasts less than (R+1)T although resets renew the clock; `DoomedUntilCleared`: an expired machine never comes back except by `clear`; `LegalMoves` | 5 resets, 10 ms, limits 1 and 2, timeouts 2 and 3 |
| Session | `NothingLeftBehind`, `LayersAgree`, `ResponseIntegrity`, `MeasuredIffAnswered` over two sessions on one slot, with split, chunked, unrouted and kept-alive requests | 2 clients, 2 segments from the one that may leave and 1 from the other, 1 failing send, 1 timeout |
| Live | `ResponseIntegrity`, `NoCrash`, `BreaksOffOnlyLeavers` (only a client that left, or whose time ran out, finds its connection in error, however old what `poll` saw is by then), and under fairness `EveryRequestAnswered`, `IdleLeaverReclaimed`, `SlotsReclaimed`, on two slots at the same time | 2 clients, 1 segment a client, 1 part of send buffer, 1 failing send, 1 timeout |
| Reuse | `SocketOwnership`, `BlocksOnlyInSend`, `ImplementsService` while slots are given out again, accepts fail and SIGPIPE ends the process | 3 clients, 2 slots, 1 part of send buffer, 1 timeout |
| Parser | `AcceptedIffWellFormed`, `HandlerAgrees` | texts of 5 lines, 5 segments |
| Routes | `RoutesFoundAsAdded`, `FoundRoutesFit`, `StaticServesItsFile`, `OnlyContendersTakeRoutes` for two routers set up in any order | 4 calls, 2 methods, 9 patterns, 3 prefixes, 2 files, 12 request targets |
| Files | `WholeFileIfIntact`, `BytesInPlace`, `EndsAtItsSize`, `CallsAsInHttpHandler`, `ResponseEnds` under fairness | chunks of 2 bytes, files of 0 to 7, 2 changes, 2 requests |
| Tls | `FirstTurnOnce`, `AssertsOnlyWithoutHint`, `RestsAsItsHandler`, and under fairness `FirstTurnArrives`, `LeaverReleased` | 2 requests, flights of 2 records, reset limit 4, 1 failing send while the client is there and any number after |
| Statistics | `AggregatesCorrect`, `SeriesKeepTheLast`, `OutOfRangeOnlyEarly`, `DurationsReachTheirMetric`: seven aggregators, a point metric and a series of one name, a late aggregator, a measure made before, between and after them | 3 values, -2 and the durations 0 to 2, capacity 2 |

Why the bounds are enough. One failing send and one timeout already meet every state of
a connection; two clients on one slot are the least that can inherit something, two slots
the least that can be confused, three clients the least that reuse a slot while another
is busy. The chunked file has three chunks, so that it needs two calls and ends on an odd
one. The timeout and reset limits of the connection (10^9 ms, 1000) are constants of the
model (1 and 2); the reset limit is never reached in the code either (see below). In
three values a series of capacity 2 wraps around and the halves of a median are rebalanced
both ways. A file of seven bytes has four chunks, so
that sizes on and off the boundaries of a chunk and of a call of two chunks occur, and two
changes can make it shorter and put another in its place. Four calls of the routers can
add two routes that contend, join a router and add one more. In the TLS run one answer has
fewer records than the reset limit and one has more; a failing send meets every stage of
the handshake and of the answer. Five lines hold a request line, two
headers that contradict each other, the empty line and a line of the body.

`LeaverReleased` and `FirstTurnArrives` have exceptions, and these are what the code does.
A client that leaves frees its connection *unless the sends to it fail for ever*: a failed
send puts the connection back into READY_TO_WRITE and is tried again without a limit, which
is the finding of run FailedWrites below. A client that stays gets the answer of the first
call *unless that has more records than the reset limit*: then it may be lost, but only as a
whole, and the connection is given up.

In Session, Live and Reuse the answers of `HttpHandler` are abstract; Files, Parser and Tls
justify or replace that abstraction. The files of Routes are a symmetry set: nothing but
equality tells them apart, and no liveness is checked there.

Deadlock is checked except in Reuse, where SIGPIPE or a failed `accept` ends the process;
in Files and Tls, where the process may end or the clients are done; and in the runs of
Metrics, Parser and Routes, where the bounds end the exploration.

**Fairness** (`FairSpec`). The thread runs: whenever a step of the loop is possible, one is
taken eventually (weak fairness of the loop, written with `ServerCanStep`, which
`BlocksOnlyInSend` shows to be `ENABLED Server`). Clients that stay receive eventually.
Nothing else is assumed: clients need not send or leave, sends need not succeed, timeouts
need not run out. The fair runs are for programs that ignore SIGPIPE
(`SigpipeIgnored = TRUE`). In Files and Tls the same thread calls the handler as long as
it asks to be called back (weak fairness of `Handler` and `Server`); nobody has to change
or to ask for a file, and no client has to say anything.

### Where the code does not do what is said of it
Each of these runs finds one property violated.
* **FailedWrites**: `tcp_connection.test.cpp:347-349` says that writes which keep failing
  end in the error state. Each retry changes the state twice (READY_TO_WRITE, WRITING),
  and each change sets the counter to 0 and starts the clock again: the slot is never freed.
* **SplitRequest**: `tcp_connection.test.cpp:177-181` says that an incomplete request makes
  the connection read more. `HttpHandler` takes it for a bad one and closes.
* **EarlyReport**: `doc.md:72` says that a metric is available from `build()` on. A report
  on a series that has received nothing reads past the end of `metric_data`.

Seen while modelling and part of the model, without a run of their own:
* the second request of a connection kept alive meets a handler in FINISHED_WAIT that
  nothing sets back, as `types.h:79` would allow and `tcp_connection.test.cpp:288` suggests.
  The handler refuses and returns without a call back, the connection stays in HANDLING,
  and `clean_up` asks again in every round, in vain, until the timeout (`LayersAgree` has
  the case, `SlotsReclaimed` the end of it);
* `Content-Length:` without a value is accepted, although `parser.cpp:23` asks for an
  integer, and leaves no trace for the validator of `Transfer-Encoding`
  (`content_length_validator`, `Recorded`);
* a file that gets shorter than what was served of it is recalled for ever, and one that is
  removed between two calls ends the process by an exception (`ResponseEnds`);
* a static route that `sub_route` brought looks its file up by the whole target, in the
  router it was given to, through a pointer: it finds "" there (`FileOf`, `NewHandler`);
* once a segment is a parameter, every segment there is: "/a" added beside "/<b>" is never
  found, and a second parameter name hides the first (`Step`, `Contend`);
* behind TLS, a response in several calls ends after the first, since the channel is closed
  after every turn (`AfterAnswer`); an answer of more records than the reset limit may be
  lost (`FirstTurnArrives` has the case), and a client that left is sent to again and again
  (`LeaverReleased` has the case); and with TLS 1.2, or on a closed channel, the handshake
  can end in a moment at which nobody wants anything and the assert of
  `tcp_connection.cpp:112` fails (`AssertsOnlyWithoutHint`);
* a bad request gets no response although two comments in `http.cpp` (70, 76) announce one
  (`FirstTurn`);
* a send on a broken connection raises SIGPIPE (`BrokenPipe`, also behind TLS; the option
  against it is commented out in `tcp_socket.cpp:20`);
* a descriptor past the pool makes the assert of `tcp_connection_pool.cpp:31` index out of
  range, and a failed `accept` is dereferenced in `tcp_socket_with_logger.h:17` (`Accept`);
* `PointMetric::get_report` ignores that an aggregator has no value and reports the value
  of the one before it (`PointReport`);
* a `Measure` keeps the metric that had its name when it was made, or none, although
  `doc.md:45` lets metrics be defined anywhere (`DurationsReachTheirMetric` says so).

## 4. What is proved

For every value of the constants, from the named assumptions of the modules
(`StatesAssumption` to `TimeOutsAssumption`, `RoutesAssumption`, `ConnectionAssumption`,
`ServerAssumption`, `TlsAssumption`, `PlansAssumption`, `LimitsAssumption`,
`SizesAssumption`, `MethodsAssumption` to `CallsAssumption` of RouterSpec, which say that
tables are tables of the right types, that the set of slots is finite, that bounds are
natural numbers, that a chunk has at least one byte, that a TLS client asks in the segments
of `HttpHandler`, that "GET" is a method and the empty name a segment, that targets are
not empty, and that `None` is the name of no client, target, handler or state):

**The state machine** (StateManagerProofs): `TypeCorrect` (types and the reset limit),
`StayIsBounded`, `DoomIsFinal`, `MovesAreLegal`. The bound on a stay is not inductive as it
stands: after n resets a machine has been in its state for at most n timeouts plus its age,
which is the invariant the proof carries.

**The server**, for every number of slots, clients, targets and parts. Each result is used
by the next.
* **PollingServerProofs**: `InvariantHolds`, `TypeCorrect`, `OwnershipHolds`. (`TypeOK` of the
  server is proved only: a run of it would say little beside the other invariants.) The inductive
  invariant is the conjunction of `TypeOK`, `SocketOwnership`, `KnownClients` (a client that
  waits or is served has connected, so that none connects twice) and `SendLoop` (the send
  loop runs on a connection that is WRITING, which has a socket by `SocketOwnership`). Types
  need ownership, since a step of a slot names a client by its socket, and ownership needs
  types; so they are proved together. `ConnectionProofs` has a lemma for each operator: most
  calls keep the socket and the handler and end in an active state or in error (`Advances`).
  That the descriptor `accept` gives out is free and unique comes from the well-ordering of
  the naturals (`LowestDescriptor`).
  `NothingIsLeftBehind`: every call between accept and halt is made on a connection that
  has a socket, and keeps it; halt, called in error and in DONE only, stops the timer.
  `LayersAlwaysAgree` and `AssertsNeverFail`: `LayersAgree` is not
  inductive: whether HANDLING rests on a first or on a second request is told by the
  measurement, so the invariant (`Agrees`, slot by slot) also says that the response timer
  runs and nothing has been measured from the first read until the response is out. A
  handler between two calls holds a request exactly in RECALL (`Rests`), hence it returns
  early only when it refuses (`TurnAgrees`), hence a connection it does notify always finds
  one of the four wishes it knows, and no assert fails.
* Responses (the second half of **PollingServerProofs**): `ResponsesAreWhole`. The
  invariant (`Serving`) says for each slot what the handler has to do with what its client
  got: nothing was got before the first request; in RECALL it is the header and the first
  n parts, n being the chunk the handler goes on with; in a final state it is a whole
  answer. What a client *got* is what `send` took and what of the output stream it has yet
  to take, so that no cut, failure or retry of a send changes it (`SendMoves`), and a call
  of the handler appends the next piece to it (`BodyJoins`). That no client is given the
  answer of another comes from ownership; that a new client finds an empty output is
  `NothingLeftBehind`.
  `MeasuredOnlyIfAnswered`, an action property: a slot that is given back has measured one
  response if all of it was sent, and none if it broke off.
  `OnlyLeaversAreCutOff`, an action property too. Its invariant (`Awaited`) says that a
  socket `poll` found readable stays so until its turn, since only its own read takes
  anything from it; and for the writes, every change of state they make is in the table and
  none is one reset too many.
  `ServerImplementsService`, step by step: `accept` and the sends are steps
  of the service, halt ends a session, everything else is a stutter. It holds under
  `PoolCoversDescriptors` (every descriptor the process can be given is a slot): past
  the pool `accept` takes a client from the backlog that is never served, which is no step of
  the service. `ServerSurvives` (`NoCrash`) holds under `Roomy`: that, no more clients at a
  time than descriptors, and SIGPIPE ignored; without each of the three the code can end
  the process. Its invariant (`Unharmed`) counts: the client that waits holds no descriptor,
  so that one of them is free (`DescriptorLeft`). Live satisfies `Roomy` and Reuse
  `PoolCoversDescriptors`, as 65 slots do in a process whose descriptors are below 65.

**The files** (StaticFilesProofs), for every size of chunks and files: `StaticFilesTyped`,
`ChunksFollowEachOther`, `UntouchedFileServedWhole`, `ResponseEndsAtItsSize`,
`CallsAgreeWithHttpHandler`. None of the properties says what a call in the middle has
read, so the invariant adds: as long as the response is not over `last_served` counts its
chunks and they are whole (`Answered`); what this call read are the chunks that follow, as
long as the size it asked for lets them be (`Read`); and of a file nobody changed, they are
copies of its bytes and the response before is shorter than the file (`Untouched`).

**The TLS layer** (TlsLayerProofs), for every set of requests, table of routes and length of
a flight: `ConnectionRestsAsItsHandler`, `AssertFailsOnlyWithoutHint`,
`OnlyTheFirstTurnIsSent`. The first two need to know where a turn stands (`Stands`): the
connection is HANDLING, or what the records emitted so far made of it, and a turn without
input always emits or throws, since a handler that wants to be called back does not refuse
(`TurnAgrees`). The third says what the code nowhere says: a handler that has been called
once left the channel closed (`Answered`), so that the stream it goes on writing to is
never sent again; before that nothing but records of the layer itself was sent, and the
first request still to be processed is the first the client made (`Unasked`). An exception
or close_notify before the first call ends the reading, so nothing is called afterwards.

**The parser** (ParserProofs), for texts of every length and every sequence of segments:
`AcceptsWhatIsWellFormed`, `HandlerParsesAlike`. Induction over the lines is set-based: if
a set of naturals holds 0 and with n also n + 1, it is all of them (`InductionOnSet`, from
the least element that is missing). `ReadLinesUnfolds` reads one more line;
`ReaderMeans` says what the lines read so far tell: the parser still expects headers
exactly when all of them are good lines of a head, and has found a request exactly when an
empty line followed such a head, and its validators remember a length or a coding exactly
when one was among them. For the handler, the lines sent are those of the segments
(`SentInvariant`), and what a first segment makes of the parser does not depend on what
follows. The attempt found a defect of the model: two guards of a CASE in `NextLine`
overlapped, so that what it meant for a bad header in the last line was left to the reader.

**The metrics** (MetricsProofs), for every set of metrics, capacity and value:
`MetricsTyped`, `ReadsOutOfRangeOnlyEarly`, `SeriesReportsTheLast`, `StatisticsAreRight`,
`MeasuresKeepTheirMetric`.
The invariant of a ring buffer (`Keeps`) says at which position each of the last values
is, before and after it wraps around (`Position`); a push takes the place of the oldest and
of no other (`PositionsMove`). A series says more (`StartedAfter`): there is one row after
which all arrays were started over, when an aggregator joined late, and each array keeps
the values of its aggregator since then, while the array of the times goes on.
`StatisticsAreRight` rests on `Summarised`: the record of each aggregator is a `Summary` of
the values received since it was registered. For the sum and what is made of it that is the
recursion of `Total`, for the extremes that the limits of the type, with which they start,
are beyond no value. The median is the hard one. Its two halves are sorted, no value of the
smaller is above one of the larger, they are of the same length or the smaller has one
more, and together they hold the values and the two limits (`HalvesHold`). That they hold the same values as
what was received is said by counting, for each bound, the values up to it (`CountUpTo`),
since a push may place a value among equals. A value pushed into one half leaves at most one
top to move, so that the loops of `involve` turn at most once, and which of them runs is
told by the parity of the count. The top of the smaller half is then the lower median of
all (`TopIsTheMedian`). `MeasuresKeepTheirMetric`: the target of a measure is the last metric
of its name among the `made` first ones (`Targeted`), which the store held when the measure
was made, since it holds the last one built of each name.

**The router** (RouterProofs), for every set of segments, methods, targets and requests and
any number of calls: `TypeCorrect`, `WhatIsFoundFits`, `StaticRoutesServeTheirFiles`,
`RoutesAreFound`, and of the steps `NoRouteIsTaken`. None of the properties says what the
trees look like; the invariant (`RoutesRight`) does, for each router and method (`TreeFits`):
the nodes are those on the ways of the routes that were added and not replaced, the handler
of a node is that of the last route with its keys, a parameter of a node was given by some
such route, and a node below which one of them has a parameter has one. `Node::add` keeps that
for a handler (`RouteAdded`); for a subtree (`RoutesJoined`) the nodes behind the prefix are
those of the second router's routes, and all that were there before are gone, which is what
the table says with `removed`. The second router is never joined into and its table holds
its own routes only. For the files, the last own static route of a target is the one whose
file the router has (`Right`).

What `find` does is an induction over the segments, set-based as for the parser:
`WalkFollows` says that each key of the path it walks is the parameter of the node above or
else the segment, `MatchedWalk` that along a route that fits, where no other contends, it
walks the keys of that route and binds its parameters, and `SameWalk` that two trees that
agree along a path are walked alike. `NoRouteIsTaken` then rests on what a call leaves as it
was (`Kept`): along the way of a route that stays, a node keeps its parameter unless a new
route gives it another one, and such a route contends. `RoutesAreFound` and `NoRouteIsTaken` have a
hypothesis, `ParametersHaveNames`: a parameter written `<>` is, for `Node::find`, none,
since it tells a node without a parameter by the empty name (`router.cpp:290`). The
attempt at the proof showed that both are false without it. No route of the repository
has such a parameter; run Routes checks the hypothesis for its instance.

For the proofs the model was rewritten in places, without a change of what it does: `Walk`
and the part of `sub_route` that collects routes are recursive functions (`Walks`, `FromRoot`)
and no folds, and the names of segments are a constant (`Segments`), so that targets have a type.

Only model-checked, and why: all liveness, and `BlocksOnlyInSend`, since fairness and
ENABLED are out of the prover's reach. Every other property of the passing runs is the
statement of a theorem.

## 5. What is not modelled

Not modelled: what Botan does inside, the credentials and the policy it is given (loaded
once, no state), logging, the text of responses and reports, the characters of names and
values, `valid_static_file` and the table of mime types, what happens before the loop
starts, and the time that passes inside one call of `StateManager`.
