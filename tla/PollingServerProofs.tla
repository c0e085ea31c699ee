------------------------- MODULE PollingServerProofs -------------------------
(***************************************************************************)
(* Theorems about PollingServer for every number of slots, clients and     *)
(* targets: types, the ownership of sockets, that no session leaves        *)
(* anything to the next one on its slot, and that the state machines of a  *)
(* connection and of its handler agree.  The first two are proved          *)
(* together, as the conjuncts of one inductive invariant: which client a   *)
(* step of a slot touches is known only from who owns what.  The third     *)
(* rests on them: every call between accept and halt is made on a          *)
(* connection that has a socket, and keeps it.                             *)
(*                                                                         *)
(* The machines agree whenever the loop is between two calls.  What is     *)
(* inductive is LayersAgree together with the response timer: it runs from *)
(* the first read until the end of the response, which is what makes the   *)
(* measurement tell a kept connection's second request from its first.     *)
(*                                                                         *)
(* Then what the clients are sent.  However sends are cut up, fail and are *)
(* retried, what a connection was given to write and what send() has taken *)
(* of it are together the beginning of one answer to its client's first    *)
(* request.  The inductive invariant relates both to the state of the      *)
(* handler and to the chunks of a file it has served.                      *)
(*                                                                         *)
(* What poll reports stays true until the socket has had its turn, so that *)
(* no read finds nothing: only a client that leaves, or the time, breaks a *)
(* connection off.                                                         *)
(*                                                                         *)
(* At the end, the server implements SessionService: every step maps to a  *)
(* step of the service or to a stutter.                                    *)
(***************************************************************************)
EXTENDS PollingServerProps, ConnectionProofs, SequenceTheorems, FiniteSetTheorems,
        WellFoundedInduction

\* A client that waits or is served is known to the kernel, so that no client
\* connects while it has a socket already.
KnownClients ==
    /\ \A c \in backlog : client[c] # "new"
    /\ \A i \in Slots : conn[i].socket # None => client[conn[i].socket] # "new"

\* The send loop runs on a connection that is WRITING, which therefore has a socket.
SendLoop ==
    pc = "write" => \A i \in Slots : NextPolled(i) => conn[i].sm.state = "WRITING"

IInv == TypeOK /\ SocketOwnership /\ KnownClients /\ SendLoop

\* SocketOwnership slot by slot.
SlotOK(c, waiting) ==
    /\ c.sm.state = "INACTIVE" => c.socket = None
    /\ c.sm.state \notin {"INACTIVE", "CONNECTION_ERROR"} =>
          c.socket # None /\ c.handler # None
    /\ c.socket \notin waiting

\* A call that keeps the socket and the handler of an active connection keeps it in
\* order.
LEMMA AdvancesKeepsSlotOK ==
    ASSUME NEW c, NEW d, NEW waiting, Advances(c, d), SlotOK(c, waiting),
           c.sm.state \notin {"INACTIVE", "CONNECTION_ERROR"}
    PROVE  SlotOK(d, waiting)
BY DEF Advances, SlotOK

LEMMA GetStateKeepsSlotOK ==
    ASSUME NEW c \in Connections, NEW waiting, SlotOK(c, waiting)
    PROVE  /\ GetState(c) \in Connections /\ SlotOK(GetState(c), waiting)
           /\ GetState(c).socket = c.socket
BY GetStateType DEF SlotOK

\* What clean_up does to one connection: it keeps its socket or is left without one.
LEMMA CleanUpOneKeepsSlotOK ==
    ASSUME NEW c \in Connections, NEW waiting, NEW late \in BOOLEAN, SlotOK(c, waiting),
           None \notin waiting
    PROVE  /\ CleanUpOne(c, late) \in Connections
           /\ SlotOK(CleanUpOne(c, late), waiting)
           /\ CleanUpOne(c, late).socket \in {c.socket, None}
<1> DEFINE seen == GetState(c)
<1>1. seen \in Connections /\ SlotOK(seen, waiting) /\ seen.socket = c.socket
  BY GetStateKeepsSlotOK
<1>2. CleanUpOne(c, late) =
        CASE seen.sm.state = "HANDLING" -> ContinueHandling(seen)
          [] seen.sm.state \in {"CONNECTION_ERROR", "DONE"} -> halt(seen, late)
          [] OTHER -> seen
  BY DEF CleanUpOne
<1> HIDE DEF seen
<1>3. CASE seen.sm.state = "HANDLING"
  <2>1. Advances(seen, NotifyHandler(seen))
    BY <1>1, <1>3, NotifyHandlerAdvances
  <2>2. SlotOK(NotifyHandler(seen), waiting)
    BY <1>1, <1>3, <2>1, AdvancesKeepsSlotOK
  <2>3. CleanUpOne(c, late) = NotifyHandler(seen)
    BY <1>2, <1>3 DEF ContinueHandling
  <2> QED
    BY <1>1, <2>1, <2>2, <2>3 DEF Advances
<1>4. CASE seen.sm.state \in {"CONNECTION_ERROR", "DONE"}
  <2>1. CleanUpOne(c, late) = halt(seen, late)
    BY <1>2, <1>4
  <2> QED
    BY <1>1, <2>1, HaltReleases DEF SlotOK
<1>5. CASE seen.sm.state \notin {"HANDLING", "CONNECTION_ERROR", "DONE"}
  BY <1>1, <1>2, <1>5
<1> QED
  BY <1>3, <1>4, <1>5

-----------------------------------------------------------------------------
(* The invariant *)

LEMMA OwnershipBySlot ==
    SocketOwnership <=>
        /\ \A i \in Slots : SlotOK(conn[i], backlog)
        /\ \A i, j \in Slots :
             conn[i].socket = conn[j].socket => i = j \/ conn[i].socket = None
BY DEF SocketOwnership, SlotOK

LEMMA InitIInv == Init => IInv
<1> SUFFICES ASSUME Init PROVE IInv
  OBVIOUS
<1>1. NewConnection \in Connections /\ NewConnection.socket = None
  <2>1. CSM!Cleared \in CSM!Machine
    BY DEF CSM!Cleared, CSM!Entered, CSM!Machine, ConnectionStates
  <2>2. CSM!SetState(CSM!Cleared, "INACTIVE") \in CSM!Machine
    BY <2>1, ConnectionSetState DEF ConnectionStates
  <2> QED
    BY <2>2, NoBytes DEF NewConnection, Connections
<1>2. NewConnection.sm.state \in {"INACTIVE", "CONNECTION_ERROR"}
  <2>1. CSM!Cleared \in CSM!Machine
    BY DEF CSM!Cleared, CSM!Entered, CSM!Machine, ConnectionStates
  <2>2. CSM!SetState(CSM!Cleared, "INACTIVE").state \in {"INACTIVE", "CONNECTION_ERROR"}
    BY <2>1, ConnectionSetState DEF ConnectionStates
  <2> QED
    BY <2>2 DEF NewConnection
<1>3. TypeOK
  BY <1>1, NoBytes DEF Init, TypeOK
<1>4. SocketOwnership
  BY <1>1, <1>2 DEF Init, SocketOwnership
<1>5. KnownClients
  BY <1>1 DEF Init, KnownClients
<1>6. SendLoop
  BY DEF Init, SendLoop
<1> QED
  BY <1>3, <1>4, <1>5, <1>6 DEF IInv

\* A step that leaves each slot with the socket it had, or without one, gives no client
\* away to another slot.
LEMMA PoolStep ==
    ASSUME IInv, NEW f \in [Slots -> Connections], conn' = f,
           \A i \in Slots : SlotOK(f[i], backlog) /\ f[i].socket \in {conn[i].socket, None},
           UNCHANGED <<client, backlog>>
    PROVE  SocketOwnership' /\ KnownClients'
<1>1. \A i, j \in Slots :
          conn[i].socket = conn[j].socket => i = j \/ conn[i].socket = None
  BY DEF IInv, SocketOwnership
<1>2. \A i, j \in Slots : f[i].socket = f[j].socket => i = j \/ f[i].socket = None
  BY <1>1
<1>3. SocketOwnership'
  BY <1>2 DEF SocketOwnership, SlotOK
<1>4. KnownClients'
  BY DEF IInv, KnownClients
<1> QED
  BY <1>3, <1>4

LEMMA SlotStep ==
    ASSUME IInv, NEW i \in Slots, NEW d \in Connections, conn' = [conn EXCEPT ![i] = d],
           SlotOK(d, backlog), d.socket = conn[i].socket,
           UNCHANGED <<client, backlog>>
    PROVE  conn' \in [Slots -> Connections] /\ SocketOwnership' /\ KnownClients'
<1>1. conn \in [Slots -> Connections]
  BY DEF IInv, TypeOK
<1>2. conn' \in [Slots -> Connections]
  BY <1>1
<1>3. \A j \in Slots : conn'[j] = IF j = i THEN d ELSE conn[j]
  BY <1>1
<1>4. \A j \in Slots : SlotOK(conn[j], backlog)
  BY OwnershipBySlot DEF IInv
<1>5. \A j \in Slots : SlotOK(conn'[j], backlog) /\ conn'[j].socket \in {conn[j].socket, None}
  BY <1>3, <1>4
<1> QED
  BY <1>2, <1>5, PoolStep

\* The facts a step of slot i starts from.
LEMMA SlotFacts ==
    ASSUME IInv, NEW i \in Slots
    PROVE  conn[i] \in Connections /\ SlotOK(conn[i], backlog)
BY OwnershipBySlot DEF IInv, TypeOK

LEMMA SetupAndPollKeepsIInv ==
    ASSUME IInv, SetupAndPoll PROVE IInv'
<1> DEFINE f == [i \in Slots |-> GetState(conn[i])]
<1>1. \A i \in Slots : /\ f[i] \in Connections
                       /\ SlotOK(f[i], backlog)
                       /\ f[i].socket = conn[i].socket
  BY SlotFacts, GetStateKeepsSlotOK
<1>2. conn' = f /\ UNCHANGED <<client, backlog>>
  BY DEF SetupAndPoll, clientVars
<1>3. f \in [Slots -> Connections]
  BY <1>1
<1> HIDE DEF f
<1>4. SocketOwnership' /\ KnownClients'
  BY <1>1, <1>2, <1>3, PoolStep
<1>5. TypeOK'
  BY <1>2, <1>3 DEF IInv, TypeOK, SetupAndPoll, clientVars
<1>6. SendLoop'
  BY DEF SetupAndPoll, SendLoop
<1> QED
  BY <1>4, <1>5, <1>6 DEF IInv

LEMMA HandledKeepsPollType ==
    ASSUME TypeOK, NEW i \in Slots, Handled(i)
    PROVE  pollin' \subseteq polled' /\ pollout' \subseteq polled' /\ polled' \subseteq Slots
BY DEF TypeOK, Handled

LEMMA HandleReadKeepsIInv ==
    ASSUME IInv, NEW i \in Slots, HandleRead(i) PROVE IInv'
<1> DEFINE c    == conn[i].socket
           seen == GetState(conn[i])
<1>1. PICK n \in 0 .. Len(inbox[c]) :
        /\ conn' = [conn EXCEPT ![i] = ReadSocket(GetState(@), SubSeq(inbox[c], 1, n))]
        /\ inbox' = [inbox EXCEPT ![c] = SubSeq(@, n + 1, Len(@))]
  BY DEF HandleRead
<1>2. conn[i] \in Connections /\ SlotOK(conn[i], backlog) /\ conn \in [Slots -> Connections]
  BY SlotFacts DEF IInv, TypeOK
<1>3. /\ seen \in Connections /\ SlotOK(seen, backlog) /\ seen.socket = c
      /\ seen.sm.state = "READY_TO_READ"
  BY <1>2, GetStateKeepsSlotOK DEF HandleRead, MayRead
<1>4. c \in Clients /\ inbox \in [Clients -> Seq(Segments)]
  <2>1. c # None
    BY <1>3 DEF SlotOK
  <2> QED
    BY <1>2, <2>1, ConnectionFields DEF IInv, TypeOK
<1> DEFINE received == SubSeq(inbox[c], 1, n)
           rest     == SubSeq(inbox[c], n + 1, Len(inbox[c]))
           d        == ReadSocket(seen, received)
<1>5. received \in Seq(Segments) /\ rest \in Seq(Segments)
  <2>1. inbox[c] \in Seq(Segments)
    BY <1>4
  <2> QED
    BY <1>1, <2>1
<1>6. conn' = [conn EXCEPT ![i] = d] /\ inbox' = [inbox EXCEPT ![c] = rest]
  BY <1>1, <1>2, <1>4
<1> HIDE DEF received, rest
<1>7. Advances(seen, d)
  BY <1>3, <1>5, ReadSocketAdvances
<1>8. SlotOK(d, backlog) /\ d \in Connections /\ d.socket = c
  BY <1>3, <1>7, AdvancesKeepsSlotOK DEF Advances
<1> HIDE DEF d, seen
<1>9. UNCHANGED <<client, backlog>>
  BY DEF HandleRead
<1>10. conn' \in [Slots -> Connections] /\ SocketOwnership' /\ KnownClients'
  BY <1>6, <1>8, <1>9, SlotStep
<1>11. inbox' \in [Clients -> Seq(Segments)]
  BY <1>4, <1>5, <1>6
<1>12. pollin' \subseteq polled' /\ pollout' \subseteq polled' /\ polled' \subseteq Slots
  BY HandledKeepsPollType DEF IInv, HandleRead
<1>13. TypeOK'
  BY <1>10, <1>11, <1>12 DEF IInv, TypeOK, HandleRead
<1>14. SendLoop'
  BY DEF HandleRead, SendLoop
<1> QED
  BY <1>10, <1>13, <1>14 DEF IInv

LEMMA HandleWriteKeepsIInv ==
    ASSUME IInv, NEW i \in Slots, HandleWrite(i) PROVE IInv'
<1> DEFINE seen == GetState(conn[i])
           d    == WriteBegin(seen)
<1>1. conn[i] \in Connections /\ SlotOK(conn[i], backlog) /\ conn \in [Slots -> Connections]
  BY SlotFacts DEF IInv, TypeOK
<1>2. /\ seen \in Connections /\ SlotOK(seen, backlog) /\ seen.socket = conn[i].socket
      /\ seen.sm.state = "READY_TO_WRITE"
  BY <1>1, GetStateKeepsSlotOK DEF HandleWrite, MayWrite
<1>3. conn' = [conn EXCEPT ![i] = d]
  BY <1>1 DEF HandleWrite
<1>4. Advances(seen, d)
  BY <1>2, WriteBeginAdvances
<1>5. SlotOK(d, backlog) /\ d \in Connections /\ d.socket = conn[i].socket
  BY <1>2, <1>4, AdvancesKeepsSlotOK DEF Advances
<1> HIDE DEF d, seen
<1>6. UNCHANGED <<client, backlog>>
  BY DEF HandleWrite, clientVars
<1>7. conn' \in [Slots -> Connections] /\ SocketOwnership' /\ KnownClients'
  BY <1>3, <1>5, <1>6, SlotStep
<1>8. CASE conn'[i].sm.state = "WRITING"
  <2>1. pc' = "write" /\ sent' = 0 /\ UNCHANGED <<pollin, pollout, polled>>
    BY <1>8 DEF HandleWrite
  <2>2. TypeOK'
    BY <1>7, <2>1 DEF IInv, TypeOK, HandleWrite, clientVars
  <2>3. ASSUME NEW j \in Slots, NextPolled(j)' PROVE j = i
    <3>1. i <= j /\ j <= i
      BY <2>1, <2>3 DEF NextPolled, HandleWrite
    <3>2. i \in Nat /\ j \in Nat
      BY ServerAssumption
    <3> QED
      BY <3>1, <3>2
  <2>4. SendLoop'
    BY <1>8, <2>3 DEF SendLoop
  <2> QED
    BY <1>7, <2>2, <2>4 DEF IInv
<1>9. CASE conn'[i].sm.state # "WRITING"
  <2>1. Handled(i) /\ UNCHANGED <<pc, sent>>
    BY <1>9 DEF HandleWrite
  <2>2. pollin' \subseteq polled' /\ pollout' \subseteq polled' /\ polled' \subseteq Slots
    BY <2>1, HandledKeepsPollType DEF IInv
  <2>3. TypeOK'
    BY <1>7, <2>1, <2>2 DEF IInv, TypeOK, HandleWrite, clientVars
  <2>4. SendLoop'
    BY <2>1 DEF HandleWrite, SendLoop
  <2> QED
    BY <1>7, <2>3, <2>4 DEF IInv
<1> QED
  BY <1>8, <1>9

LEMMA HandleNothingKeepsIInv ==
    ASSUME IInv, NEW i \in Slots, HandleNothing(i) PROVE IInv'
<1> DEFINE d == GetState(conn[i])
<1>1. conn[i] \in Connections /\ SlotOK(conn[i], backlog) /\ conn \in [Slots -> Connections]
  BY SlotFacts DEF IInv, TypeOK
<1>2. d \in Connections /\ SlotOK(d, backlog) /\ d.socket = conn[i].socket
  BY <1>1, GetStateKeepsSlotOK
<1>3. conn' = [conn EXCEPT ![i] = d]
  BY <1>1 DEF HandleNothing
<1> HIDE DEF d
<1>4. conn' \in [Slots -> Connections] /\ SocketOwnership' /\ KnownClients'
  BY <1>2, <1>3, SlotStep DEF HandleNothing, clientVars
<1>5. pollin' \subseteq polled' /\ pollout' \subseteq polled' /\ polled' \subseteq Slots
  BY HandledKeepsPollType DEF IInv, HandleNothing
<1>6. TypeOK'
  BY <1>4, <1>5 DEF IInv, TypeOK, HandleNothing, clientVars
<1>7. SendLoop'
  BY DEF HandleNothing, SendLoop
<1> QED
  BY <1>4, <1>6, <1>7 DEF IInv

\* The two ways out of the send loop.
LEMMA LeaveWriteKeepsIInv ==
    ASSUME IInv, NEW i \in Slots, Sending(i), LeaveWrite(i), sendFaults' \in Nat
    PROVE  IInv'
<1> DEFINE d == WriteEnd(conn[i], sent)
<1>1. conn[i] \in Connections /\ SlotOK(conn[i], backlog) /\ conn \in [Slots -> Connections]
  BY SlotFacts DEF IInv, TypeOK
<1>2. conn[i].sm.state = "WRITING" /\ sent \in Nat
  BY DEF IInv, TypeOK, SendLoop, Sending
<1>3. Advances(conn[i], d)
  BY <1>1, <1>2, WriteEndAdvances
<1>4. SlotOK(d, backlog) /\ d \in Connections /\ d.socket = conn[i].socket
  BY <1>1, <1>2, <1>3, AdvancesKeepsSlotOK DEF Advances
<1>5. conn' = [conn EXCEPT ![i] = d]
  BY <1>1 DEF LeaveWrite
<1> HIDE DEF d
<1>6. conn' \in [Slots -> Connections] /\ SocketOwnership' /\ KnownClients'
  BY <1>4, <1>5, SlotStep DEF LeaveWrite, clientVars
<1>7. pollin' \subseteq polled' /\ pollout' \subseteq polled' /\ polled' \subseteq Slots
  BY HandledKeepsPollType DEF IInv, LeaveWrite
<1>8. TypeOK'
  BY <1>6, <1>7 DEF IInv, TypeOK, LeaveWrite, clientVars
<1>9. SendLoop'
  BY DEF LeaveWrite, SendLoop
<1> QED
  BY <1>6, <1>8, <1>9 DEF IInv

LEMMA SendFailsKeepsIInv ==
    ASSUME IInv, NEW i \in Slots, SendFails(i) PROVE IInv'
<1>1. sendFaults' \in Nat
  BY DEF IInv, TypeOK, SendFails
<1> QED
  BY <1>1, LeaveWriteKeepsIInv DEF SendFails

LEMMA BrokenPipeKeepsIInv ==
    ASSUME IInv, NEW i \in Slots, BrokenPipe(i) PROVE IInv'
<1>1. TypeOK'
  BY DEF IInv, TypeOK, BrokenPipe, clientVars
<1>2. SocketOwnership' /\ KnownClients' /\ SendLoop'
  BY DEF IInv, SocketOwnership, KnownClients, SendLoop, NextPolled, BrokenPipe, clientVars
<1> QED
  BY <1>1, <1>2 DEF IInv

LEMMA AllSentKeepsIInv ==
    ASSUME IInv, NEW i \in Slots, AllSent(i) PROVE IInv'
<1>1. sendFaults' \in Nat
  BY DEF IInv, TypeOK, AllSent
<1> QED
  BY <1>1, LeaveWriteKeepsIInv DEF AllSent

LEMMA SendKeepsIInv ==
    ASSUME IInv, NEW i \in Slots, Send(i) PROVE IInv'
<1> DEFINE c == conn[i].socket
           o == conn[i].output
<1>1. PICK n \in 1 .. Unsent(i) :
        /\ accepted' = [accepted EXCEPT ![c] = @ \o SubSeq(o, sent + 1, sent + n)]
        /\ sent' = sent + n
  BY DEF Send
<1>2. o \in Seq(Targets \X Nat) /\ sent \in Nat /\ accepted \in [Clients -> Seq(Targets \X Nat)]
  BY SlotFacts, ConnectionFields DEF IInv, TypeOK
<1> HIDE DEF o
<1>3. n \in Nat /\ sent + n <= Len(o) /\ sent + n \in Nat
  BY <1>1, <1>2 DEF Unsent, o
<1>4. SubSeq(o, sent + 1, sent + n) \in Seq(Targets \X Nat)
  BY <1>2, <1>3
<1>5. accepted' \in [Clients -> Seq(Targets \X Nat)]
  <2> DEFINE more == SubSeq(o, sent + 1, sent + n)
  <2>1. \A a \in Seq(Targets \X Nat) : a \o more \in Seq(Targets \X Nat)
    BY <1>4
  <2>2. accepted' = [accepted EXCEPT ![c] = accepted[c] \o more]
    BY <1>1
  <2> HIDE DEF more
  <2> QED
    BY <1>2, <2>1, <2>2
<1>6. TypeOK'
  BY <1>1, <1>3, <1>5 DEF IInv, TypeOK, Send
<1>7. SocketOwnership' /\ KnownClients'
  BY DEF IInv, SocketOwnership, KnownClients, Send
<1>8. SendLoop'
  BY DEF IInv, SendLoop, NextPolled, Send
<1> QED
  BY <1>6, <1>7, <1>8 DEF IInv

-----------------------------------------------------------------------------
(* Accept *)

LEMMA LowestDescriptor ==
    ASSUME NEW D, D \subseteq Nat, D # {}
    PROVE  \E d \in D : \A e \in D : d <= e
<1> DEFINE R == OpToRel(<, Nat)
<1>1. IsWellFoundedOn(R, Nat)
  BY NatLessThanWellFounded
<1> HIDE DEF R
<1>2. PICK d \in D : \A e \in D : <<e, d>> \notin R
  BY <1>1, WFMin
<1>3. \A e \in D : ~(e < d)
  <2> TAKE e \in D
  <2>1. <<e, d>> \in Nat \X Nat
    OBVIOUS
  <2>2. e < d => <<e, d>> \in R
    BY <2>1 DEF R, OpToRel
  <2> QED
    BY <1>2, <2>2
<1>4. \A e \in D : e \in Nat /\ d \in Nat
  OBVIOUS
<1> QED
  BY <1>3, <1>4

LEMMA RecordConnection ==
    ASSUME NEW c \in Connections, NEW s \in Clients
    PROVE  /\ record_connection(c, s) \in Connections
           /\ record_connection(c, s).socket = s
           /\ record_connection(c, s).handler # None
           /\ record_connection(c, s).sm.state # "INACTIVE"
<1> DEFINE given    == [c EXCEPT !.socket = s, !.measured = 0]
           recorded == accept_socket(c, s)
<1>1. given \in Connections /\ given.socket = s
  BY DEF Connections
<1>2. recorded = Set(given, "READY_TO_READ")
  BY DEF accept_socket
<1> HIDE DEF given
<1>3. Advances(given, recorded)
  BY <1>1, <1>2, SetAdvances DEF ConnectionStates
<1>4. record_connection(c, s) = [recorded EXCEPT !.handler = NewHandler]
  BY DEF record_connection, set_handler
<1>5. NewHandler \in Handlers /\ NewHandler # None
  BY NewHandlerType, HandlersAreNotNone
<1> HIDE DEF recorded
<1> QED
  BY <1>1, <1>3, <1>4, <1>5 DEF Advances, Connections

LEMMA AcceptKeepsIInv ==
    ASSUME IInv, Accept PROVE IInv'
<1>1. /\ SendLoop'
      /\ UNCHANGED <<pollin, pollout, polled, sent, sendFaults, lapses,
                     client, requested, inbox, accepted, taken>>
      /\ listening' \in BOOLEAN /\ pc' = "handle"
  BY DEF Accept, SendLoop
<1>2. conn \in [Slots -> Connections] /\ backlog \subseteq Clients
  BY DEF IInv, TypeOK
<1>3. CASE FreeDescriptors = {}
  <2>1. crashed' = "accept_failed" /\ UNCHANGED <<conn, backlog>>
    BY <1>3 DEF Accept
  <2>2. TypeOK'
    BY <1>1, <2>1 DEF IInv, TypeOK
  <2>3. SocketOwnership' /\ KnownClients'
    BY <1>1, <2>1 DEF IInv, SocketOwnership, KnownClients
  <2> QED
    BY <1>1, <2>2, <2>3 DEF IInv
<1>4. CASE FreeDescriptors # {}
  <2> DEFINE fd == CHOOSE d \in FreeDescriptors : \A e \in FreeDescriptors : d <= e
  <2>1. fd \in FreeDescriptors
    BY <1>4, LowestDescriptor, ServerAssumption DEF FreeDescriptors
  <2>2. PICK c \in backlog :
          /\ backlog' = backlog \ {c}
          /\ IF fd \in Slots
             THEN /\ conn' = [conn EXCEPT ![fd] = record_connection(@, c)]
                  /\ UNCHANGED crashed
             ELSE /\ crashed' = "descriptor_past_pool"
                  /\ UNCHANGED conn
    BY <1>4 DEF Accept
  <2> HIDE DEF fd
  <2>3. CASE fd \notin Slots
    <3>1. TypeOK'
      BY <1>1, <2>2, <2>3 DEF IInv, TypeOK
    <3>2. SocketOwnership' /\ KnownClients'
      BY <1>1, <2>2, <2>3 DEF IInv, SocketOwnership, KnownClients
    <3> QED
      BY <1>1, <3>1, <3>2 DEF IInv
  <2>4. CASE fd \in Slots
    <3> DEFINE d == record_connection(conn[fd], c)
    <3>1. c \in Clients /\ c # None /\ client[c] # "new"
      BY <1>2, HandlersAreNotNone DEF IInv, KnownClients
    <3>2. /\ d \in Connections /\ d.socket = c
          /\ d.handler # None /\ d.sm.state # "INACTIVE"
      BY <1>2, <2>4, <3>1, RecordConnection
    <3>3. conn' = [conn EXCEPT ![fd] = d] /\ UNCHANGED crashed
      BY <2>2, <2>4
    <3> HIDE DEF d
    <3>4. \A j \in Slots : conn'[j] = IF j = fd THEN d ELSE conn[j]
      BY <1>2, <3>3
    <3>5. conn' \in [Slots -> Connections]
      BY <1>2, <3>2, <3>3
    <3>6. TypeOK'
      BY <1>1, <2>2, <3>3, <3>5 DEF IInv, TypeOK
    <3>7. \A j \in Slots : conn[j].socket # c
      BY DEF IInv, SocketOwnership
    <3>8. SocketOwnership'
      <4>1. \A j \in Slots : SlotOK(conn[j], backlog)
        BY OwnershipBySlot DEF IInv
      <4>2. \A j \in Slots : SlotOK(conn'[j], backlog')
        BY <2>2, <3>1, <3>2, <3>4, <4>1 DEF SlotOK
      <4>3. \A i, j \in Slots :
                conn[i].socket = conn[j].socket => i = j \/ conn[i].socket = None
        BY OwnershipBySlot DEF IInv
      <4>4. \A i, j \in Slots :
                conn'[i].socket = conn'[j].socket => i = j \/ conn'[i].socket = None
        BY <3>2, <3>4, <3>7, <4>3
      <4> QED
        BY <4>2, <4>4 DEF SocketOwnership, SlotOK
    <3>9. KnownClients'
      BY <1>1, <2>2, <3>1, <3>2, <3>4 DEF IInv, KnownClients
    <3> QED
      BY <1>1, <3>6, <3>8, <3>9 DEF IInv
  <2> QED
    BY <2>3, <2>4
<1> QED
  BY <1>3, <1>4

-----------------------------------------------------------------------------
(* The remaining actions *)

LEMMA CleanUpKeepsIInv ==
    ASSUME IInv, CleanUp PROVE IInv'
<1>1. PICK late \in SUBSET Slots :
        /\ lapses' = lapses + Cardinality(late)
        /\ conn' = [i \in Slots |-> CleanUpOne(conn[i], i \in late)]
  BY DEF CleanUp
<1> DEFINE f == [i \in Slots |-> CleanUpOne(conn[i], i \in late)]
<1>2. None \notin backlog
  BY HandlersAreNotNone DEF IInv, TypeOK
<1>3. \A i \in Slots : /\ f[i] \in Connections
                       /\ SlotOK(f[i], backlog)
                       /\ f[i].socket \in {conn[i].socket, None}
  <2> TAKE i \in Slots
  <2>1. conn[i] \in Connections /\ SlotOK(conn[i], backlog)
    BY SlotFacts
  <2>2. (i \in late) \in BOOLEAN
    OBVIOUS
  <2>3. f[i] = CleanUpOne(conn[i], i \in late)
    OBVIOUS
  <2> HIDE DEF f
  <2> QED
    BY <1>2, <2>1, <2>2, <2>3, CleanUpOneKeepsSlotOK
<1>4. f \in [Slots -> Connections]
  BY <1>3
<1>5. conn' = f /\ UNCHANGED <<client, backlog>>
  BY <1>1 DEF CleanUp
<1> HIDE DEF f
<1>6. SocketOwnership' /\ KnownClients'
  BY <1>3, <1>4, <1>5, PoolStep
<1>7. lapses' \in Nat
  <2>1. IsFiniteSet(late)
    BY FS_Subset, ServerAssumption
  <2> QED
    BY <1>1, <2>1, FS_CardinalityType DEF IInv, TypeOK
<1>8. inbox' \in [Clients -> Seq(Segments)]
  BY NoBytes DEF IInv, TypeOK, CleanUp
<1>9. TypeOK'
  BY <1>4, <1>5, <1>7, <1>8 DEF IInv, TypeOK, CleanUp
<1>10. SendLoop'
  BY DEF CleanUp, SendLoop
<1> QED
  BY <1>6, <1>9, <1>10 DEF IInv

\* The loop moves on without touching a connection.
LEMMA LoopMovesOn ==
    ASSUME IInv, NothingToAccept \/ EndOfRound PROVE IInv'
<1>1. TypeOK'
  BY DEF IInv, TypeOK, NothingToAccept, EndOfRound, clientVars
<1>2. SocketOwnership' /\ KnownClients'
  BY DEF IInv, SocketOwnership, KnownClients, NothingToAccept, EndOfRound, clientVars
<1>3. SendLoop'
  BY DEF SendLoop, NothingToAccept, EndOfRound
<1> QED
  BY <1>1, <1>2, <1>3 DEF IInv

LEMMA ConnectKeepsIInv ==
    ASSUME IInv, NEW c \in Clients, Connect(c) PROVE IInv'
<1>1. TypeOK'
  BY DEF IInv, TypeOK, Connect, serverVars
<1>2. \A i \in Slots : conn[i].socket # c
  BY HandlersAreNotNone DEF IInv, KnownClients, Connect
<1>3. SocketOwnership'
  BY <1>2 DEF IInv, SocketOwnership, Connect, serverVars
<1>4. client' = [client EXCEPT ![c] = "open"] /\ client \in [Clients -> {"new", "open", "gone"}]
  BY DEF Connect, IInv, TypeOK
<1>5. backlog' = backlog \cup {c} /\ conn' = conn /\ backlog \subseteq Clients
  BY DEF Connect, serverVars, IInv, TypeOK
<1>6. \A i \in Slots : conn[i].socket # None => conn[i].socket \in Clients
  BY SlotFacts, ConnectionFields
<1>7. KnownClients'
  BY <1>4, <1>5, <1>6 DEF IInv, KnownClients
<1>8. SendLoop'
  BY DEF IInv, SendLoop, NextPolled, Connect, serverVars
<1> QED
  BY <1>1, <1>3, <1>7, <1>8 DEF IInv

LEMMA LeaveKeepsIInv ==
    ASSUME IInv, NEW c \in Clients, Leave(c) PROVE IInv'
<1>1. TypeOK'
  BY DEF IInv, TypeOK, Leave, serverVars
<1>2. SocketOwnership'
  BY DEF IInv, SocketOwnership, Leave, serverVars
<1>3. \A d \in Clients : client'[d] = "new" => client[d] = "new"
  BY DEF IInv, TypeOK, Leave
<1>4. \A i \in Slots : conn[i].socket # None => conn[i].socket \in Clients
  BY SlotFacts, ConnectionFields
<1>5. backlog' = backlog /\ conn' = conn /\ backlog \subseteq Clients
  BY DEF Leave, serverVars, IInv, TypeOK
<1>6. KnownClients'
  BY <1>3, <1>4, <1>5 DEF IInv, KnownClients
<1>7. SendLoop'
  BY DEF IInv, SendLoop, NextPolled, Leave, serverVars
<1> QED
  BY <1>1, <1>2, <1>6, <1>7 DEF IInv

\* A client sends or receives.
LEMMA TrafficKeepsIInv ==
    ASSUME IInv, NEW c \in Clients, SendSegment(c) \/ Receive(c) PROVE IInv'
<1>1. CASE SendSegment(c)
  <2>1. PICK s \in ClientSegments :
          /\ requested' = [requested EXCEPT ![c] = Append(@, s)]
          /\ inbox' = [inbox EXCEPT ![c] = Append(@, s)]
    BY <1>1 DEF SendSegment
  <2>2. s \in Segments
    BY ServerAssumption
  <2>3. \A q \in Seq(Segments) : Append(q, s) \in Seq(Segments)
    BY <2>2
  <2>4. requested' \in [Clients -> Seq(Segments)] /\ inbox' \in [Clients -> Seq(Segments)]
    BY <2>1, <2>3 DEF IInv, TypeOK
  <2>5. TypeOK'
    BY <1>1, <2>4 DEF IInv, TypeOK, SendSegment, serverVars
  <2>6. SocketOwnership' /\ KnownClients' /\ SendLoop'
    BY <1>1 DEF IInv, SocketOwnership, KnownClients, SendLoop, NextPolled, SendSegment, serverVars
  <2> QED
    BY <2>5, <2>6 DEF IInv
<1>2. CASE Receive(c)
  <2>1. TypeOK'
    BY <1>2, SMTT(30) DEF IInv, TypeOK, Receive, serverVars
  <2>2. SocketOwnership' /\ KnownClients' /\ SendLoop'
    BY <1>2 DEF IInv, SocketOwnership, KnownClients, SendLoop, NextPolled, Receive, serverVars
  <2> QED
    BY <2>1, <2>2 DEF IInv
<1> QED
  BY <1>1, <1>2

LEMMA TickKeepsIInv ==
    ASSUME IInv, NEW i \in Slots, Tick(i) PROVE IInv'
<1> DEFINE m == CSM!Elapsed(conn[i].sm)
           d == [conn[i] EXCEPT !.sm = m]
<1>1. conn[i] \in Connections /\ SlotOK(conn[i], backlog) /\ conn \in [Slots -> Connections]
  BY SlotFacts DEF IInv, TypeOK
<1>2. m \in CSM!Machine /\ m.state = conn[i].sm.state
  <2>1. \A o \in CSM!Machine :
            CSM!Elapsed(o) \in CSM!Machine /\ CSM!Elapsed(o).state = o.state
    BY DEF CSM!Elapsed, CSM!Machine
  <2> QED
    BY <1>1, <2>1, ConnectionFields
<1>3. conn' = [conn EXCEPT ![i] = d]
  BY DEF Tick
<1> HIDE DEF m
<1>4. /\ d \in Connections /\ d.socket = conn[i].socket /\ d.handler = conn[i].handler
      /\ d.sm.state = conn[i].sm.state
  BY <1>1, <1>2 DEF Connections
<1> HIDE DEF d
<1>5. SlotOK(d, backlog)
  BY <1>1, <1>4 DEF SlotOK
<1>6. conn' \in [Slots -> Connections] /\ SocketOwnership' /\ KnownClients'
  BY <1>3, <1>4, <1>5, SlotStep DEF Tick, clientVars
<1>7. TypeOK'
  BY <1>6 DEF IInv, TypeOK, Tick, clientVars
<1>8. \A j \in Slots : conn'[j].sm.state = conn[j].sm.state
  BY <1>1, <1>3, <1>4
<1>9. SendLoop'
  BY <1>8 DEF IInv, SendLoop, NextPolled, Tick
<1> QED
  BY <1>6, <1>7, <1>9 DEF IInv

-----------------------------------------------------------------------------
(* The theorems *)

LEMMA StepKeepsIInv == IInv /\ [Next]_vars => IInv'
<1> SUFFICES ASSUME IInv, [Next]_vars PROVE IInv'
  OBVIOUS
<1>1. CASE Server
  BY <1>1, SetupAndPollKeepsIInv, AcceptKeepsIInv, LoopMovesOn, CleanUpKeepsIInv,
     HandleReadKeepsIInv, HandleWriteKeepsIInv, HandleNothingKeepsIInv, SendKeepsIInv,
     SendFailsKeepsIInv, BrokenPipeKeepsIInv, AllSentKeepsIInv
     DEF Server
<1>2. CASE Environment
  BY <1>2, ConnectKeepsIInv, LeaveKeepsIInv, TrafficKeepsIInv, TickKeepsIInv
     DEF Environment
<1>3. CASE UNCHANGED vars
  <2>1. TypeOK'
    BY <1>3 DEF IInv, TypeOK, vars, serverVars, clientVars
  <2>2. SocketOwnership' /\ KnownClients' /\ SendLoop'
    BY <1>3 DEF IInv, SocketOwnership, KnownClients, SendLoop, NextPolled,
                vars, serverVars, clientVars
  <2> QED
    BY <2>1, <2>2 DEF IInv
<1> QED
  BY <1>1, <1>2, <1>3 DEF Next

\* The inductive invariant, whatever the number of slots, clients and targets.
THEOREM InvariantHolds == Spec => []IInv
<1> QED
  BY InitIInv, StepKeepsIInv, PTL DEF Spec

\* Every variable keeps its type: in particular the streams hold segments and parts
\* only, and the handler and the connection stay in the states of their enums.
THEOREM TypeCorrect == Spec => []TypeOK
<1>1. IInv => TypeOK
  BY DEF IInv
<1> QED
  BY <1>1, InvariantHolds, PTL

\* A connection that works owns a socket and a handler, one that is INACTIVE owns none,
\* no client is served by two slots or waits while it is served.
THEOREM OwnershipHolds == Spec => []SocketOwnership
<1>1. IInv => SocketOwnership
  BY DEF IInv
<1> QED
  BY <1>1, InvariantHolds, PTL
-----------------------------------------------------------------------------
(* The sessions that follow each other on a slot *)

\* NothingLeftBehind of one slot.
Clean(c) == c.socket = None => c.input = << >> /\ c.output = << >> /\ ~c.timing

LEMMA ServedIsClean ==
    ASSUME NEW c, NEW d, Advances(c, d), c.socket # None
    PROVE  Clean(d)
BY DEF Advances, Clean

LEMMA GetStateKeepsClean ==
    ASSUME NEW c \in Connections, Clean(c)
    PROVE  Clean(GetState(c))
BY DEF GetState, Connections, Clean

LEMMA TimerStands ==
    ASSUME NEW c \in Connections
    PROVE  ~TimerEnd(c).timing /\ ~TimerCancel(c).timing
BY DEF TimerEnd, TimerCancel, Connections

\* halt() empties both streams; in the two states clean_up calls it in, it ends or
\* cancels the measurement.
LEMMA HaltIsClean ==
    ASSUME NEW c \in Connections, NEW ranOut \in BOOLEAN,
           GetState(c).sm.state \in {"CONNECTION_ERROR", "DONE"}
    PROVE  Clean(halt(c, ranOut))
<1> DEFINE seen    == GetState(c)
           cleared == [seen EXCEPT !.sm = CSM!Cleared]
           settled == CASE seen.sm.state = "CONNECTION_ERROR" -> TimerCancel(cleared)
                        [] seen.sm.state = "DONE" -> TimerEnd(seen)
                        [] OTHER -> seen
           late    == IF ranOut THEN [settled EXCEPT !.sm.age = StateTimeOut] ELSE settled
           idle    == Set(late, "INACTIVE")
<1>1. seen \in Connections
  BY GetStateType
<1>2. cleared \in Connections
  <2>1. CSM!Cleared \in CSM!Machine
    BY DEF CSM!Cleared, CSM!Entered, CSM!Machine, ConnectionStates
  <2> QED
    BY <1>1, <2>1 DEF Connections
<1>3. settled \in Connections /\ ~settled.timing
  <2>1. seen.sm.state = "CONNECTION_ERROR" \/ seen.sm.state = "DONE"
    OBVIOUS
  <2> HIDE DEF seen, cleared
  <2> QED
    BY <1>1, <1>2, <2>1, TimerType, TimerStands
<1>4. halt(c, ranOut) = [idle EXCEPT !.input = << >>, !.output = << >>, !.socket = None]
  BY DEF halt
<1> HIDE DEF settled
<1>5. late \in Connections /\ late.timing = settled.timing
  <2>1. [settled.sm EXCEPT !.age = StateTimeOut] \in CSM!Machine
    BY <1>3, ConnectionFields, ConnectionAssumption DEF CSM!Machine
  <2> QED
    BY <1>3, <2>1 DEF Connections
<1> HIDE DEF late
<1>6. idle \in Connections /\ idle.timing = late.timing
  <2>1. idle \in Connections /\ idle = [late EXCEPT !.sm = idle.sm]
    BY <1>5, SetType DEF ConnectionStates
  <2> HIDE DEF idle
  <2> QED
    BY <1>5, <2>1 DEF Connections
<1> HIDE DEF idle
<1> QED
  BY <1>3, <1>4, <1>5, <1>6 DEF Connections, Clean

LEMMA CleanUpOneKeepsClean ==
    ASSUME NEW c \in Connections, NEW late \in BOOLEAN, NEW waiting, SlotOK(c, waiting),
           Clean(c)
    PROVE  Clean(CleanUpOne(c, late))
<1> DEFINE seen == GetState(c)
<1>1. seen \in Connections /\ SlotOK(seen, waiting) /\ Clean(seen)
  BY GetStateKeepsSlotOK, GetStateKeepsClean
<1>2. CASE seen.sm.state = "HANDLING"
  <2>1. Advances(seen, NotifyHandler(seen)) /\ seen.socket # None
    BY <1>1, <1>2, NotifyHandlerAdvances DEF SlotOK
  <2>2. CleanUpOne(c, late) = NotifyHandler(seen)
    BY <1>2 DEF CleanUpOne, ContinueHandling
  <2> QED
    BY <2>1, <2>2, ServedIsClean
<1>3. CASE seen.sm.state \in {"CONNECTION_ERROR", "DONE"}
  <2>1. CleanUpOne(c, late) = halt(seen, late)
    BY <1>3 DEF CleanUpOne
  <2>2. GetState(seen).sm.state \in {"CONNECTION_ERROR", "DONE"}
    BY <1>1, <1>3, GetStateType
  <2> QED
    BY <1>1, <2>1, <2>2, HaltIsClean
<1>4. CASE seen.sm.state \notin {"HANDLING", "CONNECTION_ERROR", "DONE"}
  BY <1>1, <1>4 DEF CleanUpOne
<1> QED
  BY <1>2, <1>3, <1>4

-----------------------------------------------------------------------------
(* The steps *)

LEMMA CleanBySlot == NothingLeftBehind <=> \A i \in Slots : Clean(conn[i])
BY DEF NothingLeftBehind, Clean

\* A step of one slot that leaves it clean.
LEMMA OneSlotKeepsClean ==
    ASSUME IInv, NothingLeftBehind, NEW i \in Slots, NEW d, Clean(d),
           conn' = [conn EXCEPT ![i] = d]
    PROVE  NothingLeftBehind'
<1>1. \A j \in Slots : conn'[j] = IF j = i THEN d ELSE conn[j]
  BY DEF IInv, TypeOK
<1>2. \A j \in Slots : Clean(conn'[j])
  BY <1>1, CleanBySlot
<1> QED
  BY <1>2 DEF NothingLeftBehind, Clean

LEMMA InitClean == Init => NothingLeftBehind
BY DEF Init, NothingLeftBehind, NewConnection

LEMMA HandleKeepsClean ==
    ASSUME IInv, NothingLeftBehind, NEW i \in Slots,
           HandleRead(i) \/ HandleWrite(i) \/ HandleNothing(i)
    PROVE  NothingLeftBehind'
<1> DEFINE seen == GetState(conn[i])
<1>1. conn[i] \in Connections /\ SlotOK(conn[i], backlog) /\ conn \in [Slots -> Connections]
  BY SlotFacts DEF IInv, TypeOK
<1>2. seen \in Connections /\ SlotOK(seen, backlog) /\ Clean(seen)
  BY <1>1, CleanBySlot, GetStateKeepsSlotOK, GetStateKeepsClean
<1>3. CASE HandleRead(i)
  <2> DEFINE c == conn[i].socket
  <2>1. PICK n \in 0 .. Len(inbox[c]) :
          conn' = [conn EXCEPT ![i] = ReadSocket(GetState(@), SubSeq(inbox[c], 1, n))]
    BY <1>3 DEF HandleRead
  <2> DEFINE received == SubSeq(inbox[c], 1, n)
  <2>2. seen.socket # None /\ seen.socket = c
    BY <1>1, <1>2, <1>3, GetStateType DEF HandleRead, MayRead, SlotOK
  <2>3. inbox[c] \in Seq(Segments)
    BY <1>1, <2>2, ConnectionFields DEF IInv, TypeOK
  <2>4. received \in Seq(Segments)
    BY <2>1, <2>3
  <2>5. conn' = [conn EXCEPT ![i] = ReadSocket(seen, received)]
    BY <1>1, <2>1
  <2> HIDE DEF received, seen
  <2>6. Clean(ReadSocket(seen, received))
    BY <1>2, <2>2, <2>4, ReadSocketAdvances, ServedIsClean
  <2> QED
    BY <2>5, <2>6, OneSlotKeepsClean
<1>4. CASE HandleWrite(i)
  <2>1. seen.socket # None
    BY <1>2, <1>4 DEF HandleWrite, MayWrite, SlotOK
  <2>2. Clean(WriteBegin(seen))
    BY <1>2, <2>1, WriteBeginAdvances, ServedIsClean
  <2>3. conn' = [conn EXCEPT ![i] = WriteBegin(seen)]
    BY <1>1, <1>4 DEF HandleWrite
  <2> HIDE DEF seen
  <2> QED
    BY <2>2, <2>3, OneSlotKeepsClean
<1>5. CASE HandleNothing(i)
  <2>1. conn' = [conn EXCEPT ![i] = seen]
    BY <1>1, <1>5 DEF HandleNothing
  <2> HIDE DEF seen
  <2> QED
    BY <1>2, <2>1, OneSlotKeepsClean
<1> QED
  BY <1>3, <1>4, <1>5

LEMMA LeaveWriteKeepsClean ==
    ASSUME IInv, NothingLeftBehind, NEW i \in Slots, Sending(i), LeaveWrite(i)
    PROVE  NothingLeftBehind'
<1> DEFINE d == WriteEnd(conn[i], sent)
<1>1. conn[i] \in Connections /\ SlotOK(conn[i], backlog) /\ conn \in [Slots -> Connections]
  BY SlotFacts DEF IInv, TypeOK
<1>2. conn[i].sm.state = "WRITING" /\ sent \in Nat
  BY DEF IInv, TypeOK, SendLoop, Sending
<1>3. Clean(d)
  BY <1>1, <1>2, WriteEndAdvances, ServedIsClean DEF SlotOK
<1>4. conn' = [conn EXCEPT ![i] = d]
  BY <1>1 DEF LeaveWrite
<1> HIDE DEF d
<1> QED
  BY <1>3, <1>4, OneSlotKeepsClean

LEMMA AcceptKeepsClean ==
    ASSUME IInv, NothingLeftBehind, Accept PROVE NothingLeftBehind'
<1> DEFINE fd == CHOOSE d \in FreeDescriptors : \A e \in FreeDescriptors : d <= e
<1>1. CASE UNCHANGED conn
  BY <1>1 DEF NothingLeftBehind
<1>2. CASE conn' # conn
  <2>1. PICK c \in backlog :
          fd \in Slots /\ conn' = [conn EXCEPT ![fd] = record_connection(@, c)]
    BY <1>2 DEF Accept
  <2> HIDE DEF fd
  <2>2. c \in Clients /\ conn[fd] \in Connections /\ conn \in [Slots -> Connections]
    BY <2>1 DEF IInv, TypeOK
  <2> DEFINE d == record_connection(conn[fd], c)
  <2>3. d.socket = c /\ c # None
    BY <2>2, RecordConnection, HandlersAreNotNone
  <2>4. conn' = [conn EXCEPT ![fd] = d]
    BY <2>1, <2>2
  <2> HIDE DEF d
  <2>5. Clean(d)
    BY <2>3 DEF Clean
  <2> QED
    BY <2>1, <2>4, <2>5, OneSlotKeepsClean
<1> QED
  BY <1>1, <1>2

\* The two steps that look at every slot.
LEMMA RoundKeepsClean ==
    ASSUME IInv, NothingLeftBehind, SetupAndPoll \/ CleanUp PROVE NothingLeftBehind'
<1>1. \A i \in Slots :
        conn[i] \in Connections /\ SlotOK(conn[i], backlog) /\ Clean(conn[i])
  BY SlotFacts, CleanBySlot
<1>2. CASE SetupAndPoll
  <2>1. \A i \in Slots : conn'[i] = GetState(conn[i])
    BY <1>2 DEF SetupAndPoll
  <2>2. \A i \in Slots : Clean(conn'[i])
    BY <1>1, <2>1, GetStateKeepsClean
  <2> QED
    BY <2>2 DEF NothingLeftBehind, Clean
<1>3. CASE CleanUp
  <2>1. PICK late \in SUBSET Slots :
          conn' = [i \in Slots |-> CleanUpOne(conn[i], i \in late)]
    BY <1>3 DEF CleanUp
  <2>2. ASSUME NEW i \in Slots PROVE Clean(conn'[i])
    <3>1. conn'[i] = CleanUpOne(conn[i], i \in late) /\ (i \in late) \in BOOLEAN
      BY <2>1
    <3> QED
      BY <1>1, <3>1, CleanUpOneKeepsClean
  <2> QED
    BY <2>2 DEF NothingLeftBehind, Clean
<1> QED
  BY <1>2, <1>3

LEMMA TickKeepsClean ==
    ASSUME IInv, NothingLeftBehind, NEW i \in Slots, Tick(i) PROVE NothingLeftBehind'
<1> DEFINE d == [conn[i] EXCEPT !.sm = CSM!Elapsed(conn[i].sm)]
<1>1. conn[i] \in Connections /\ Clean(conn[i])
  BY SlotFacts, CleanBySlot
<1>2. Clean(d)
  BY <1>1 DEF Clean, Connections
<1>3. conn' = [conn EXCEPT ![i] = d]
  BY DEF Tick
<1> HIDE DEF d
<1> QED
  BY <1>2, <1>3, OneSlotKeepsClean

\* The other steps change no connection.
LEMMA RestKeepsClean ==
    ASSUME NothingLeftBehind, UNCHANGED conn PROVE NothingLeftBehind'
BY DEF NothingLeftBehind

LEMMA StepKeepsClean ==
    IInv /\ NothingLeftBehind /\ [Next]_vars => NothingLeftBehind'
<1> SUFFICES ASSUME IInv, NothingLeftBehind, [Next]_vars PROVE NothingLeftBehind'
  OBVIOUS
<1>1. CASE Server
  <2>1. \A i \in Slots : Send(i) \/ BrokenPipe(i) => UNCHANGED conn
    BY DEF Send, BrokenPipe
  <2>2. NothingToAccept \/ EndOfRound => UNCHANGED conn
    BY DEF NothingToAccept, EndOfRound
  <2>3. \A i \in Slots : SendFails(i) \/ AllSent(i) => Sending(i) /\ LeaveWrite(i)
    BY DEF SendFails, AllSent
  <2> QED
    BY <1>1, <2>1, <2>2, <2>3, RestKeepsClean, RoundKeepsClean, AcceptKeepsClean,
       HandleKeepsClean, LeaveWriteKeepsClean
       DEF Server
<1>2. CASE Environment
  <2>1. \A c \in Clients :
          Connect(c) \/ SendSegment(c) \/ Receive(c) \/ Leave(c) => UNCHANGED conn
    BY DEF Connect, SendSegment, Receive, Leave, serverVars
  <2> QED
    BY <1>2, <2>1, RestKeepsClean, TickKeepsClean DEF Environment
<1>3. CASE UNCHANGED vars
  BY <1>3, RestKeepsClean DEF vars, serverVars
<1> QED
  BY <1>1, <1>2, <1>3 DEF Next

\* A slot that is given up, after an answer, an error or a timeout, and at whatever
\* point of a request or of a response, keeps nothing for the next client: both streams
\* are empty and the response timer stands still (halt, tcp_connection.cpp:118-140).
THEOREM NothingIsLeftBehind == Spec => []NothingLeftBehind
<1> QED
  BY InvariantHolds, InitClean, StepKeepsClean, PTL DEF Spec

-----------------------------------------------------------------------------
(* The connection and its handler *)

\* The response is on its way: the timer runs and nothing has been measured.
UnderWay(c) == c.measured = 0 /\ c.timing

\* LayersAgree of one slot, with what the response timer knows and without a failed
\* assert.
Agrees(c) ==
    LET s == c.sm.state
        h == c.handler
    IN  /\ c.asserts
        /\ h # None => Rests(h)
        /\ s # "READING"
        /\ s \in {"READY_TO_WRITE", "WRITING"} => h.sm.state \in Results /\ UnderWay(c)
        /\ s = "HANDLING" =>
              /\ c.output = << >>
              /\ \/ h.sm.state = "RECALL" /\ UnderWay(c)
                 \/ h.sm.state = "HANDLER_ERROR" /\ c.measured = 1
        /\ s = "DONE" => c.output = << >> /\ h.sm.state = "FINISHED_NO_WAIT" /\ UnderWay(c)
        /\ s = "READY_TO_READ" =>
              /\ c.output = << >>
              /\ \/ h.sm.state = "READY_TO_HANDLE" /\ c.measured = 0
                 \/ h.sm.state = "FINISHED_WAIT" /\ c.measured = 1

LEMMA AgreesBySlot ==
    (\A i \in Slots : Agrees(conn[i])) => LayersAgree /\ \A i \in Slots : conn[i].asserts
BY DEF Agrees, LayersAgree, Rests, Results

\* The connection is about to call its handler.
Due(c) ==
    /\ c.asserts /\ c.handler # None /\ Rests(c.handler)
    /\ c.sm.state \in {"HANDLING", "CONNECTION_ERROR"}
    /\ c.output = << >>
    /\ IF c.handler.sm.state \in {"READY_TO_HANDLE", "RECALL"} THEN UnderWay(c)
       ELSE c.measured = 1

\* Set() changes the machine only.
LEMMA SetFields ==
    ASSUME NEW c \in Connections, NEW s \in ConnectionStates
    PROVE  /\ Set(c, s) \in Connections
           /\ Set(c, s).sm.state \in {s, "CONNECTION_ERROR"}
           /\ Set(c, s).socket = c.socket /\ Set(c, s).handler = c.handler
           /\ Set(c, s).output = c.output /\ Set(c, s).asserts = c.asserts
           /\ Set(c, s).timing = c.timing /\ Set(c, s).measured = c.measured
<1>1. Set(c, s) = [c EXCEPT !.sm = Set(c, s).sm]
  BY SetType
<1>2. Set(c, s) \in Connections /\ Set(c, s).sm.state \in {s, "CONNECTION_ERROR"}
  BY SetType
<1> QED
  BY <1>1, <1>2 DEF Connections

\* A connection in error needs its handler to rest, and nothing else.
LEMMA ErrorAgrees ==
    ASSUME NEW c, c.asserts, c.sm.state \in {"CONNECTION_ERROR", "INACTIVE"},
           c.handler # None => Rests(c.handler)
    PROVE  Agrees(c)
BY DEF Agrees

LEMMA NotifyHandlerAgrees ==
    ASSUME NEW c \in Connections, Due(c)
    PROVE  Agrees(NotifyHandler(c))
<1> DEFINE turn == HandlerTurn(c.handler, c.input)
           next == [c EXCEPT !.handler = turn.handler,
                             !.input   = turn.input,
                             !.output  = @ \o turn.written]
<1>1. /\ c.handler \in Handlers /\ c.input \in Seq(Segments)
      /\ c.output \in Seq(Targets \X Nat)
  BY ConnectionFields DEF Due
<1>2. TurnAgrees(c.handler, turn)
  BY <1>1, HandlerTurnAgrees DEF Due
<1>3. /\ turn.handler \in Handlers /\ turn.input \in Seq(Segments)
      /\ turn.written \in Seq(Targets \X Nat)
  BY <1>1, HandlerTurnType DEF TurnType
<1>4. NotifyHandler(c) = IF turn.returns THEN next ELSE NotifiedByHandler(next)
  BY DEF NotifyHandler, Due
<1> HIDE DEF turn
<1>5. c.output \o turn.written \in Seq(Targets \X Nat)
  BY <1>1, <1>3
<1>6. /\ next \in Connections /\ next.sm = c.sm /\ next.handler = turn.handler
      /\ next.output = c.output \o turn.written
      /\ next.timing = c.timing /\ next.measured = c.measured /\ next.asserts = c.asserts
  BY <1>3, <1>5 DEF Connections
<1> HIDE DEF next
<1>7. CASE turn.returns
  <2>1. next.output = << >>
    BY <1>2, <1>6, <1>7 DEF TurnAgrees, Due
  <2> QED
    BY <1>2, <1>4, <1>6, <1>7, <2>1 DEF TurnAgrees, Due, Agrees
<1>8. CASE ~turn.returns
  <2>1. next.handler.sm.state \in Results /\ Rests(next.handler) /\ UnderWay(next)
    BY <1>2, <1>6, <1>8 DEF TurnAgrees, Due, UnderWay
  <2>2. NotifiedByHandler(next) = Set(next, "READY_TO_WRITE")
    BY <2>1 DEF NotifiedByHandler, Results, wants_to_write, wants_to_live,
                wants_more_bytes, wants_to_be_calledback
  <2> DEFINE d == Set(next, "READY_TO_WRITE")
  <2>3. /\ d.sm.state \in {"READY_TO_WRITE", "CONNECTION_ERROR"}
        /\ d.handler = next.handler /\ UnderWay(d) /\ d.asserts
    BY <1>6, <2>1, SetFields DEF ConnectionStates, UnderWay, Due
  <2> HIDE DEF d
  <2>4. Agrees(d)
    BY <2>1, <2>3 DEF Agrees
  <2> QED
    BY <1>4, <1>8, <2>2, <2>4 DEF d
<1> QED
  BY <1>7, <1>8

LEMMA GetStateAgrees ==
    ASSUME NEW c \in Connections, Agrees(c)
    PROVE  Agrees(GetState(c))
<1> DEFINE d == GetState(c)
<1>1. /\ d.sm.state \in {c.sm.state, "CONNECTION_ERROR"} /\ d.handler = c.handler
  BY GetStateType
<1>2. /\ d.output = c.output /\ d.asserts = c.asserts
      /\ d.timing = c.timing /\ d.measured = c.measured
  BY DEF GetState, Connections
<1> HIDE DEF d
<1>3. Agrees(d)
  BY <1>1, <1>2 DEF Agrees, UnderWay
<1> QED
  BY <1>3 DEF d

LEMMA ReadSocketAgrees ==
    ASSUME NEW c \in Connections, NEW received \in Seq(Segments), Agrees(c),
           c.sm.state = "READY_TO_READ", c.socket # None, c.handler # None
    PROVE  Agrees(ReadSocket(c, received))
<1> DEFINE started  == TimerStart(c)
           reading  == Set(started, "READING")
           filled   == [reading EXCEPT !.input = @ \o received]
           handling == Set(filled, "HANDLING")
           broken   == Set(reading, "CONNECTION_ERROR")
<1>1. /\ started \in Connections /\ started.handler = c.handler
      /\ started.output = c.output /\ started.asserts = c.asserts
      /\ started.timing /\ started.measured = c.measured
  BY TimerType DEF TimerStart, Connections
<1> HIDE DEF started
<1>2. /\ reading \in Connections /\ reading.handler = c.handler
      /\ reading.output = c.output /\ reading.asserts = c.asserts
      /\ reading.timing /\ reading.measured = c.measured
  BY <1>1, SetFields DEF ConnectionStates
<1>3. ReadSocket(c, received) =
        IF reading.sm.state = "CONNECTION_ERROR" THEN reading
        ELSE IF received = << >> THEN broken
        ELSE NotifyHandler(handling)
  BY DEF ReadSocket, started
<1> HIDE DEF reading
<1>4. Rests(c.handler) /\ c.asserts
  BY DEF Agrees
<1>5. reading.sm.state = "CONNECTION_ERROR" => Agrees(reading)
  BY <1>2, <1>4, ErrorAgrees
<1>6. Agrees(broken)
  <2>1. /\ broken.sm.state = "CONNECTION_ERROR" /\ broken.handler = c.handler
        /\ broken.asserts = c.asserts
    BY <1>2, SetFields DEF ConnectionStates
  <2> HIDE DEF broken
  <2> QED
    BY <1>4, <2>1, ErrorAgrees
<1>7. Agrees(NotifyHandler(handling))
  <2>1. reading.input \o received \in Seq(Segments)
    BY <1>2, ConnectionFields
  <2>2. /\ filled \in Connections /\ filled.handler = c.handler
        /\ filled.output = c.output /\ filled.asserts = c.asserts
        /\ filled.timing /\ filled.measured = c.measured
    BY <1>2, <2>1 DEF Connections
  <2> HIDE DEF filled
  <2>3. /\ handling \in Connections /\ handling.handler = c.handler
        /\ handling.output = c.output /\ handling.asserts = c.asserts
        /\ handling.timing /\ handling.measured = c.measured
        /\ handling.sm.state \in {"HANDLING", "CONNECTION_ERROR"}
    BY <2>2, SetFields DEF ConnectionStates
  <2> HIDE DEF handling
  <2>4. Due(handling)
    BY <1>4, <2>3 DEF Agrees, Due, UnderWay
  <2> QED
    BY <2>3, <2>4, NotifyHandlerAgrees
<1> QED
  BY <1>3, <1>5, <1>6, <1>7

LEMMA WriteBeginAgrees ==
    ASSUME NEW c \in Connections, Agrees(c), c.sm.state = "READY_TO_WRITE",
           c.socket # None, c.handler # None
    PROVE  Agrees(WriteBegin(c))
<1> DEFINE writing == Set(c, "WRITING")
<1>1. /\ writing.sm.state \in {"WRITING", "CONNECTION_ERROR"}
      /\ writing.handler = c.handler /\ writing.asserts = c.asserts
      /\ writing.timing = c.timing /\ writing.measured = c.measured
  BY SetFields DEF ConnectionStates
<1>2. WriteBegin(c) = writing
  BY DEF WriteBegin
<1> HIDE DEF writing
<1>3. Agrees(writing)
  BY <1>1 DEF Agrees, UnderWay
<1> QED
  BY <1>2, <1>3

LEMMA WriteEndAgrees ==
    ASSUME NEW c \in Connections, Agrees(c), c.sm.state = "WRITING", c.handler # None,
           NEW n \in Nat
    PROVE  Agrees(WriteEnd(c, n))
<1> DEFINE rest    == [c EXCEPT !.output = SubSeq(@, n + 1, Len(@))]
           emptied == [c EXCEPT !.output = << >>]
           dry     == [emptied EXCEPT !.input = << >>]
           ended   == TimerEnd(dry)
<1>1. /\ Rests(c.handler) /\ c.handler.sm.state \in Results
      /\ c.measured = 0 /\ c.timing /\ c.asserts
  BY DEF Agrees, UnderWay
<1>2. /\ emptied \in Connections /\ emptied.handler = c.handler /\ emptied.output = << >>
      /\ emptied.measured = 0 /\ emptied.timing /\ emptied.asserts
  BY <1>1, NoBytes DEF Connections
<1>3. /\ ended \in Connections /\ ended.handler = c.handler /\ ended.output = << >>
      /\ ended.measured = 1 /\ ended.asserts
  <2>1. /\ dry \in Connections /\ dry.handler = c.handler /\ dry.output = << >>
        /\ dry.measured = 0 /\ dry.timing /\ dry.asserts
    BY <1>2, NoBytes DEF Connections
  <2> HIDE DEF dry
  <2>2. ended \in Connections /\ ended.handler = c.handler
    BY <2>1, TimerType
  <2>3. ended.output = << >> /\ ended.measured = 1 /\ ended.asserts
    BY <2>1 DEF TimerEnd, Connections
  <2> QED
    BY <2>2, <2>3
<1>4. WriteEnd(c, n) =
        IF n < Len(c.output) THEN Set(rest, "READY_TO_WRITE")
        ELSE IF c.handler.sm.state = "RECALL" THEN Set(emptied, "HANDLING")
        ELSE IF c.handler.sm.state = "FINISHED_WAIT" THEN Set(ended, "READY_TO_READ")
        ELSE Set(emptied, "DONE")
  BY DEF WriteEnd, wants_to_be_calledback, wants_to_live
<1>5. n < Len(c.output) =>
        /\ rest \in Connections /\ rest.handler = c.handler
        /\ rest.measured = 0 /\ rest.timing /\ rest.asserts
  <2> DEFINE o == c.output
  <2>1. o \in Seq(Targets \X Nat) /\ Len(o) \in Nat
    BY ConnectionFields
  <2> HIDE DEF o
  <2>2. n < Len(o) => SubSeq(o, n + 1, Len(o)) \in Seq(Targets \X Nat)
    BY <2>1
  <2>3. rest = [c EXCEPT !.output = SubSeq(o, n + 1, Len(o))]
    BY DEF o
  <2> QED
    BY <1>1, <2>2, <2>3 DEF Connections, o
<1> HIDE DEF rest, emptied, ended
<1>6. CASE n < Len(c.output)
  <2> DEFINE d == Set(rest, "READY_TO_WRITE")
  <2>1. /\ d.sm.state \in {"READY_TO_WRITE", "CONNECTION_ERROR"} /\ d.handler = c.handler
        /\ d.measured = 0 /\ d.timing /\ d.asserts
    BY <1>5, <1>6, SetFields DEF ConnectionStates
  <2>2. WriteEnd(c, n) = d
    BY <1>4, <1>6
  <2> HIDE DEF d
  <2>3. Agrees(d)
    BY <1>1, <2>1 DEF Agrees, UnderWay
  <2> QED
    BY <2>2, <2>3
<1>7. CASE ~(n < Len(c.output)) /\ c.handler.sm.state = "RECALL"
  <2> DEFINE d == Set(emptied, "HANDLING")
  <2>1. /\ d.sm.state \in {"HANDLING", "CONNECTION_ERROR"} /\ d.handler = c.handler
        /\ d.output = << >> /\ d.measured = 0 /\ d.timing /\ d.asserts
    BY <1>2, SetFields DEF ConnectionStates
  <2>2. WriteEnd(c, n) = d
    BY <1>4, <1>7
  <2> HIDE DEF d
  <2>3. Agrees(d)
    BY <1>1, <1>7, <2>1 DEF Agrees, UnderWay
  <2> QED
    BY <2>2, <2>3
<1>8. CASE ~(n < Len(c.output)) /\ c.handler.sm.state = "FINISHED_WAIT"
  <2> DEFINE d == Set(ended, "READY_TO_READ")
  <2>1. /\ d.sm.state \in {"READY_TO_READ", "CONNECTION_ERROR"} /\ d.handler = c.handler
        /\ d.output = << >> /\ d.measured = 1 /\ d.asserts
    BY <1>3, SetFields DEF ConnectionStates
  <2>2. WriteEnd(c, n) = d
    BY <1>4, <1>8
  <2> HIDE DEF d
  <2>3. Agrees(d)
    BY <1>1, <1>8, <2>1 DEF Agrees
  <2> QED
    BY <2>2, <2>3
<1>9. CASE ~(n < Len(c.output)) /\ c.handler.sm.state = "FINISHED_NO_WAIT"
  <2> DEFINE d == Set(emptied, "DONE")
  <2>1. /\ d.sm.state \in {"DONE", "CONNECTION_ERROR"} /\ d.handler = c.handler
        /\ d.output = << >> /\ d.measured = 0 /\ d.timing /\ d.asserts
    BY <1>2, SetFields DEF ConnectionStates
  <2>2. WriteEnd(c, n) = d
    BY <1>4, <1>9
  <2> HIDE DEF d
  <2>3. Agrees(d)
    BY <1>1, <1>9, <2>1 DEF Agrees, UnderWay
  <2> QED
    BY <2>2, <2>3
<1> QED
  BY <1>1, <1>6, <1>7, <1>8, <1>9 DEF Results

LEMMA TimersAssertNothing ==
    ASSUME NEW c \in Connections
    PROVE  TimerEnd(c).asserts = c.asserts /\ TimerCancel(c).asserts = c.asserts
BY DEF TimerEnd, TimerCancel, Connections

LEMMA HaltKeepsHandler ==
    ASSUME NEW c \in Connections, NEW ranOut \in BOOLEAN
    PROVE  halt(c, ranOut).handler = c.handler /\ halt(c, ranOut).asserts = c.asserts
<1> DEFINE seen    == GetState(c)
           cleared == [seen EXCEPT !.sm = CSM!Cleared]
           settled == CASE seen.sm.state = "CONNECTION_ERROR" -> TimerCancel(cleared)
                        [] seen.sm.state = "DONE" -> TimerEnd(seen)
                        [] OTHER -> seen
           late    == IF ranOut THEN [settled EXCEPT !.sm.age = StateTimeOut] ELSE settled
           idle    == Set(late, "INACTIVE")
<1>1. seen \in Connections /\ seen.handler = c.handler /\ seen.asserts = c.asserts
  BY GetStateType DEF GetState, Connections
<1>2. cleared \in Connections /\ cleared.handler = c.handler /\ cleared.asserts = c.asserts
  <2>1. CSM!Cleared \in CSM!Machine
    BY DEF CSM!Cleared, CSM!Entered, CSM!Machine, ConnectionStates
  <2> QED
    BY <1>1, <2>1 DEF Connections
<1>3. settled \in Connections /\ settled.handler = c.handler /\ settled.asserts = c.asserts
  <2> HIDE DEF seen, cleared
  <2> QED
    BY <1>1, <1>2, TimerType, TimersAssertNothing
<1>4. halt(c, ranOut) = [idle EXCEPT !.input = << >>, !.output = << >>, !.socket = None]
  BY DEF halt
<1> HIDE DEF settled
<1>5. late \in Connections /\ late.handler = c.handler /\ late.asserts = c.asserts
  <2>1. [settled.sm EXCEPT !.age = StateTimeOut] \in CSM!Machine
    BY <1>3, ConnectionFields, ConnectionAssumption DEF CSM!Machine
  <2> QED
    BY <1>3, <2>1 DEF Connections
<1> HIDE DEF late
<1>6. idle \in Connections /\ idle.handler = c.handler /\ idle.asserts = c.asserts
  BY <1>5, SetFields DEF ConnectionStates
<1> HIDE DEF idle
<1> QED
  BY <1>4, <1>6 DEF Connections

LEMMA CleanUpOneAgrees ==
    ASSUME NEW c \in Connections, NEW late \in BOOLEAN, NEW waiting, SlotOK(c, waiting),
           Agrees(c)
    PROVE  Agrees(CleanUpOne(c, late))
<1> DEFINE seen == GetState(c)
<1>1. seen \in Connections /\ SlotOK(seen, waiting) /\ Agrees(seen)
  BY GetStateKeepsSlotOK, GetStateAgrees
<1>2. CleanUpOne(c, late) =
        CASE seen.sm.state = "HANDLING" -> NotifyHandler(seen)
          [] seen.sm.state \in {"CONNECTION_ERROR", "DONE"} -> halt(seen, late)
          [] OTHER -> seen
  BY DEF CleanUpOne, ContinueHandling
<1> HIDE DEF seen
<1>3. CASE seen.sm.state = "HANDLING"
  <2>1. Due(seen)
    BY <1>1, <1>3 DEF Due, Agrees, SlotOK, UnderWay
  <2> QED
    BY <1>1, <1>2, <1>3, <2>1, NotifyHandlerAgrees
<1>4. CASE seen.sm.state \in {"CONNECTION_ERROR", "DONE"}
  <2> DEFINE d == halt(seen, late)
  <2>1. /\ d.sm.state \in {"INACTIVE", "CONNECTION_ERROR"}
        /\ d.handler = seen.handler /\ d.asserts = seen.asserts
    BY <1>1, HaltReleases, HaltKeepsHandler
  <2>2. CleanUpOne(c, late) = d
    BY <1>2, <1>4
  <2> HIDE DEF d
  <2>3. Agrees(d)
    BY <1>1, <2>1, ErrorAgrees DEF Agrees
  <2> QED
    BY <2>2, <2>3
<1>5. CASE seen.sm.state \notin {"HANDLING", "CONNECTION_ERROR", "DONE"}
  BY <1>1, <1>2, <1>5
<1> QED
  BY <1>3, <1>4, <1>5

\* A slot that left nothing behind starts its next session with a fresh handler.
LEMMA RecordAgrees ==
    ASSUME NEW c \in Connections, NEW s \in Clients, c.output = << >>, c.asserts
    PROVE  Agrees(record_connection(c, s))
<1> DEFINE given    == [c EXCEPT !.socket = s, !.measured = 0]
           recorded == Set(given, "READY_TO_READ")
           d        == [recorded EXCEPT !.handler = NewHandler]
<1>1. given \in Connections /\ given.output = << >> /\ given.measured = 0 /\ given.asserts
  BY DEF Connections
<1> HIDE DEF given
<1>2. /\ recorded \in Connections /\ recorded.output = << >> /\ recorded.measured = 0
      /\ recorded.asserts
      /\ recorded.sm.state \in {"READY_TO_READ", "CONNECTION_ERROR"}
  BY <1>1, SetFields DEF ConnectionStates
<1>3. record_connection(c, s) = d
  BY DEF record_connection, set_handler, accept_socket, given
<1> HIDE DEF recorded
<1>4. /\ d.handler = NewHandler /\ d.output = << >> /\ d.measured = 0 /\ d.asserts
      /\ d.sm.state \in {"READY_TO_READ", "CONNECTION_ERROR"}
  BY <1>2 DEF Connections
<1> HIDE DEF d
<1>5. NewHandler.sm.state = "READY_TO_HANDLE" /\ Rests(NewHandler)
  BY DEF NewHandler, Rests, HSM!Cleared, HSM!Entered
<1>6. Agrees(d)
  BY <1>4, <1>5 DEF Agrees
<1> QED
  BY <1>3, <1>6

-----------------------------------------------------------------------------
(* The steps *)

AllAgree == \A i \in Slots : Agrees(conn[i])

LEMMA OneSlotKeepsAgreement ==
    ASSUME IInv, AllAgree, NEW i \in Slots, NEW d, Agrees(d),
           conn' = [conn EXCEPT ![i] = d]
    PROVE  AllAgree'
<1>1. \A j \in Slots : conn'[j] = IF j = i THEN d ELSE conn[j]
  BY DEF IInv, TypeOK
<1>2. \A j \in Slots : Agrees(conn'[j])
  BY <1>1 DEF AllAgree
<1> QED
  BY <1>2 DEF AllAgree, Agrees

LEMMA InitAgrees == Init => AllAgree
<1> SUFFICES ASSUME Init, NEW i \in Slots PROVE Agrees(conn[i])
  BY DEF AllAgree
<1>1. CSM!Cleared \in CSM!Machine
  BY DEF CSM!Cleared, CSM!Entered, CSM!Machine, ConnectionStates
<1>2. CSM!SetState(CSM!Cleared, "INACTIVE").state \in {"INACTIVE", "CONNECTION_ERROR"}
  BY <1>1, ConnectionSetState DEF ConnectionStates
<1>3. /\ NewConnection.sm.state \in {"INACTIVE", "CONNECTION_ERROR"}
      /\ NewConnection.handler = None /\ NewConnection.asserts
  BY <1>2 DEF NewConnection
<1>4. conn[i] = NewConnection
  BY DEF Init
<1> QED
  BY <1>3, <1>4, ErrorAgrees

LEMMA HandleKeepsAgreement ==
    ASSUME IInv, AllAgree, NEW i \in Slots,
           HandleRead(i) \/ HandleWrite(i) \/ HandleNothing(i)
    PROVE  AllAgree'
<1> DEFINE seen == GetState(conn[i])
<1>1. conn[i] \in Connections /\ SlotOK(conn[i], backlog) /\ conn \in [Slots -> Connections]
  BY SlotFacts DEF IInv, TypeOK
<1>2. Agrees(conn[i])
  BY DEF AllAgree
<1>3. seen \in Connections /\ SlotOK(seen, backlog) /\ Agrees(seen)
  BY <1>1, <1>2, GetStateKeepsSlotOK, GetStateAgrees
<1>4. CASE HandleRead(i)
  <2> DEFINE c == conn[i].socket
  <2>1. PICK n \in 0 .. Len(inbox[c]) :
          conn' = [conn EXCEPT ![i] = ReadSocket(GetState(@), SubSeq(inbox[c], 1, n))]
    BY <1>4 DEF HandleRead
  <2> DEFINE received == SubSeq(inbox[c], 1, n)
  <2>2. seen.sm.state = "READY_TO_READ"
    BY <1>4 DEF HandleRead, MayRead
  <2>3. seen.socket # None /\ seen.handler # None /\ seen.socket = c
    BY <1>1, <1>3, <2>2, GetStateType DEF SlotOK
  <2>4. inbox[c] \in Seq(Segments)
    BY <1>1, <2>3, ConnectionFields DEF IInv, TypeOK
  <2>5. received \in Seq(Segments)
    BY <2>1, <2>4
  <2>6. conn' = [conn EXCEPT ![i] = ReadSocket(seen, received)]
    BY <1>1, <2>1
  <2> HIDE DEF received, seen
  <2>7. Agrees(ReadSocket(seen, received))
    BY <1>3, <2>2, <2>3, <2>5, ReadSocketAgrees
  <2> QED
    BY <2>6, <2>7, OneSlotKeepsAgreement
<1>5. CASE HandleWrite(i)
  <2>1. seen.sm.state = "READY_TO_WRITE"
    BY <1>5 DEF HandleWrite, MayWrite
  <2>2. seen.socket # None /\ seen.handler # None
    BY <1>3, <2>1 DEF SlotOK
  <2>3. conn' = [conn EXCEPT ![i] = WriteBegin(seen)]
    BY <1>1, <1>5 DEF HandleWrite
  <2> HIDE DEF seen
  <2>4. Agrees(WriteBegin(seen))
    BY <1>3, <2>1, <2>2, WriteBeginAgrees
  <2> QED
    BY <2>3, <2>4, OneSlotKeepsAgreement
<1>6. CASE HandleNothing(i)
  <2>1. conn' = [conn EXCEPT ![i] = seen]
    BY <1>1, <1>6 DEF HandleNothing
  <2> HIDE DEF seen
  <2> QED
    BY <1>3, <2>1, OneSlotKeepsAgreement
<1> QED
  BY <1>4, <1>5, <1>6

LEMMA LeaveWriteKeepsAgreement ==
    ASSUME IInv, AllAgree, NEW i \in Slots, Sending(i), LeaveWrite(i)
    PROVE  AllAgree'
<1> DEFINE d == WriteEnd(conn[i], sent)
<1>1. conn[i] \in Connections /\ SlotOK(conn[i], backlog) /\ conn \in [Slots -> Connections]
  BY SlotFacts DEF IInv, TypeOK
<1>2. conn[i].sm.state = "WRITING" /\ sent \in Nat
  BY DEF IInv, TypeOK, SendLoop, Sending
<1>3. conn[i].handler # None /\ Agrees(conn[i])
  BY <1>1, <1>2 DEF SlotOK, AllAgree
<1>4. Agrees(d)
  BY <1>1, <1>2, <1>3, WriteEndAgrees
<1>5. conn' = [conn EXCEPT ![i] = d]
  BY <1>1 DEF LeaveWrite
<1> HIDE DEF d
<1> QED
  BY <1>4, <1>5, OneSlotKeepsAgreement

LEMMA AcceptKeepsAgreement ==
    ASSUME IInv, NothingLeftBehind, AllAgree, Accept PROVE AllAgree'
<1> DEFINE fd == CHOOSE d \in FreeDescriptors : \A e \in FreeDescriptors : d <= e
<1>1. CASE UNCHANGED conn
  BY <1>1 DEF AllAgree
<1>2. CASE conn' # conn
  <2>1. FreeDescriptors # {}
    BY <1>2 DEF Accept
  <2>2. fd \in FreeDescriptors
    BY <2>1, LowestDescriptor, ServerAssumption DEF FreeDescriptors
  <2>3. PICK c \in backlog :
          fd \in Slots /\ conn' = [conn EXCEPT ![fd] = record_connection(@, c)]
    BY <1>2 DEF Accept
  <2> HIDE DEF fd
  <2>4. c \in Clients /\ conn[fd] \in Connections /\ conn \in [Slots -> Connections]
    BY <2>3 DEF IInv, TypeOK
  <2>5. conn[fd].output = << >> /\ conn[fd].asserts
    BY <2>2, <2>3 DEF FreeDescriptors, NothingLeftBehind, AllAgree, Agrees
  <2> DEFINE d == record_connection(conn[fd], c)
  <2>6. Agrees(d)
    BY <2>4, <2>5, RecordAgrees
  <2>7. conn' = [conn EXCEPT ![fd] = d]
    BY <2>3, <2>4
  <2> HIDE DEF d
  <2> QED
    BY <2>3, <2>6, <2>7, OneSlotKeepsAgreement
<1> QED
  BY <1>1, <1>2

LEMMA RoundKeepsAgreement ==
    ASSUME IInv, AllAgree, SetupAndPoll \/ CleanUp PROVE AllAgree'
<1>1. \A i \in Slots :
        conn[i] \in Connections /\ SlotOK(conn[i], backlog) /\ Agrees(conn[i])
  BY SlotFacts DEF AllAgree
<1>2. CASE SetupAndPoll
  <2>1. \A i \in Slots : conn'[i] = GetState(conn[i])
    BY <1>2 DEF SetupAndPoll
  <2>2. \A i \in Slots : Agrees(conn'[i])
    BY <1>1, <2>1, GetStateAgrees
  <2> QED
    BY <2>2 DEF AllAgree, Agrees
<1>3. CASE CleanUp
  <2>1. PICK late \in SUBSET Slots :
          conn' = [i \in Slots |-> CleanUpOne(conn[i], i \in late)]
    BY <1>3 DEF CleanUp
  <2>2. ASSUME NEW i \in Slots PROVE Agrees(conn'[i])
    <3>1. conn'[i] = CleanUpOne(conn[i], i \in late) /\ (i \in late) \in BOOLEAN
      BY <2>1
    <3> QED
      BY <1>1, <3>1, CleanUpOneAgrees
  <2> QED
    BY <2>2 DEF AllAgree, Agrees
<1> QED
  BY <1>2, <1>3

LEMMA TickKeepsAgreement ==
    ASSUME IInv, AllAgree, NEW i \in Slots, Tick(i) PROVE AllAgree'
<1> DEFINE m == CSM!Elapsed(conn[i].sm)
           d == [conn[i] EXCEPT !.sm = m]
<1>1. conn[i] \in Connections /\ Agrees(conn[i])
  BY SlotFacts DEF AllAgree
<1>2. m.state = conn[i].sm.state
  <2>1. \A o \in CSM!Machine : CSM!Elapsed(o).state = o.state
    BY DEF CSM!Elapsed, CSM!Machine
  <2> QED
    BY <1>1, <2>1, ConnectionFields
<1>3. conn' = [conn EXCEPT ![i] = d]
  BY DEF Tick
<1> HIDE DEF m
<1>4. /\ d.sm = m /\ d.handler = conn[i].handler /\ d.output = conn[i].output
      /\ d.timing = conn[i].timing /\ d.measured = conn[i].measured
      /\ d.asserts = conn[i].asserts
  BY <1>1 DEF Connections
<1> HIDE DEF d
<1>5. Agrees(d)
  BY <1>1, <1>2, <1>4 DEF Agrees, UnderWay
<1> QED
  BY <1>3, <1>5, OneSlotKeepsAgreement

LEMMA RestKeepsAgreement ==
    ASSUME AllAgree, UNCHANGED conn PROVE AllAgree'
BY DEF AllAgree

LEMMA StepKeepsAgreement ==
    IInv /\ NothingLeftBehind /\ AllAgree /\ [Next]_vars => AllAgree'
<1> SUFFICES ASSUME IInv, NothingLeftBehind, AllAgree, [Next]_vars PROVE AllAgree'
  OBVIOUS
<1>1. CASE Server
  <2>1. \A i \in Slots : Send(i) \/ BrokenPipe(i) => UNCHANGED conn
    BY DEF Send, BrokenPipe
  <2>2. NothingToAccept \/ EndOfRound => UNCHANGED conn
    BY DEF NothingToAccept, EndOfRound
  <2>3. \A i \in Slots : SendFails(i) \/ AllSent(i) => Sending(i) /\ LeaveWrite(i)
    BY DEF SendFails, AllSent
  <2> QED
    BY <1>1, <2>1, <2>2, <2>3, RestKeepsAgreement, RoundKeepsAgreement,
       AcceptKeepsAgreement, HandleKeepsAgreement, LeaveWriteKeepsAgreement
       DEF Server
<1>2. CASE Environment
  <2>1. \A c \in Clients :
          Connect(c) \/ SendSegment(c) \/ Receive(c) \/ Leave(c) => UNCHANGED conn
    BY DEF Connect, SendSegment, Receive, Leave, serverVars
  <2> QED
    BY <1>2, <2>1, RestKeepsAgreement, TickKeepsAgreement DEF Environment
<1>3. CASE UNCHANGED vars
  BY <1>3, RestKeepsAgreement DEF vars, serverVars
<1> QED
  BY <1>1, <1>2, <1>3 DEF Next

LEMMA AgreementHolds == Spec => []AllAgree
<1> QED
  BY InvariantHolds, NothingIsLeftBehind, InitAgrees, StepKeepsAgreement, PTL DEF Spec

\* Between two calls the connection and its handler are in states that fit each other,
\* also when the client keeps the connection for a second request, a send fails in the
\* middle of a chunked response or a timeout runs out (tcp_connection.cpp:87-113 and
\* 207-236, http.cpp:42-105).
THEOREM LayersAlwaysAgree == Spec => []LayersAgree
<1>1. AllAgree => LayersAgree
  BY AgreesBySlot DEF AllAgree
<1> QED
  BY <1>1, AgreementHolds, PTL

\* No assert of TcpConnection fails and no socket or handler is missing when it is used,
\* whatever the routes, the clients, the failing sends and the timeouts: the part of
\* NoCrash that does not depend on descriptors and signals.
THEOREM AssertsNeverFail == Spec => [](\A i \in Slots : conn[i].asserts)
<1>1. AllAgree => \A i \in Slots : conn[i].asserts
  BY AgreesBySlot DEF AllAgree
<1> QED
  BY <1>1, AgreementHolds, PTL

-----------------------------------------------------------------------------
(* Sequences *)

LEMMA ConcatIsPrefix ==
    ASSUME NEW S, NEW s \in Seq(S), NEW u \in Seq(S)
    PROVE  IsPrefix(s, s \o u)
<1>1. /\ s \o u \in Seq(S) /\ Len(s \o u) = Len(s) + Len(u)
      /\ \A k \in 1 .. Len(s) : (s \o u)[k] = s[k]
  BY ConcatProperties
<1>2. Len(s) \in Nat /\ Len(u) \in Nat
  OBVIOUS
<1>3. SubSeq(s, 1, Len(s)) = SubSeq(s \o u, 1, Len(s))
  BY <1>1, <1>2
<1> QED
  BY <1>1, <1>2, <1>3 DEF IsPrefix

\* The beginning of a beginning.
LEMMA PrefixOfConcat ==
    ASSUME NEW S, NEW s \in Seq(S), NEW u \in Seq(S), NEW a \in Seq(S), IsPrefix(s \o u, a)
    PROVE  IsPrefix(s, a)
<1> DEFINE w == s \o u
<1>1. /\ w \in Seq(S) /\ Len(w) = Len(s) + Len(u)
      /\ \A k \in 1 .. Len(s) : w[k] = s[k]
  BY ConcatProperties
<1> HIDE DEF w
<1>2. Len(s) \in Nat /\ Len(u) \in Nat /\ Len(a) \in Nat
  OBVIOUS
<1>3. Len(w) <= Len(a) /\ SubSeq(w, 1, Len(w)) = SubSeq(a, 1, Len(w))
  BY DEF IsPrefix, w
<1>4. \A k \in 1 .. Len(w) : a[k] = w[k]
  <2> TAKE k \in 1 .. Len(w)
  <2>1. SubSeq(w, 1, Len(w))[k] = w[k] /\ SubSeq(a, 1, Len(w))[k] = a[k]
    BY <1>1, <1>2, <1>3
  <2> QED
    BY <1>3, <2>1
<1>5. \A k \in 1 .. Len(s) : a[k] = s[k]
  BY <1>1, <1>2, <1>4
<1>6. SubSeq(s, 1, Len(s)) = SubSeq(a, 1, Len(s))
  BY <1>1, <1>2, <1>3, <1>5
<1> QED
  BY <1>1, <1>2, <1>3, <1>6 DEF IsPrefix

LEMMA PrefixOfItself ==
    ASSUME NEW S, NEW s \in Seq(S)
    PROVE  IsPrefix(s, s) /\ IsPrefix(<< >>, s)
BY DEF IsPrefix

LEMMA PartsAssociate ==
    ASSUME NEW a \in Seq(Targets \X Nat), NEW b \in Seq(Targets \X Nat),
           NEW c \in Seq(Targets \X Nat)
    PROVE  (a \o b) \o c = a \o (b \o c)
<1> DEFINE P == Targets \X Nat
<1>1. a \in Seq(P) /\ b \in Seq(P) /\ c \in Seq(P)
  OBVIOUS
<1> HIDE DEF P
<1> QED
  BY <1>1, SMTT(30)

\* One send() moves n parts from what is unsent to what was sent.
LEMMA SendMoves ==
    ASSUME NEW a \in Seq(Targets \X Nat), NEW o \in Seq(Targets \X Nat),
           NEW m \in Nat, NEW n \in Nat, m + n <= Len(o)
    PROVE  (a \o SubSeq(o, m + 1, m + n)) \o SubSeq(o, m + n + 1, Len(o))
             = a \o SubSeq(o, m + 1, Len(o))
<1> DEFINE next == SubSeq(o, m + 1, m + n)
           rest == SubSeq(o, m + n + 1, Len(o))
<1>1. Len(o) \in Nat
  OBVIOUS
<1>2. a \in Seq(Targets \X Nat) /\ next \in Seq(Targets \X Nat) /\ rest \in Seq(Targets \X Nat)
  BY <1>1
<1>3. next \o rest = SubSeq(o, m + 1, Len(o))
  <2>1. /\ m + 1 \in 1 .. Len(o) + 1 /\ m + n \in (m + 1) - 1 .. Len(o)
        /\ Len(o) \in m + n .. Len(o)
    BY <1>1
  <2> QED
    BY <2>1, ConcatAdjacentSubSeq
<1> HIDE DEF next, rest
<1>4. (a \o next) \o rest = a \o (next \o rest)
  BY <1>2, PartsAssociate, SMTT(30)
<1> QED
  BY <1>3, <1>4 DEF next, rest

-----------------------------------------------------------------------------
(* The router *)

\* Two pieces of a file that follow each other are one piece.
LEMMA BodyJoins ==
    ASSUME NEW t \in Targets, NEW from \in Nat, NEW mid \in Nat, NEW to \in Nat,
           from <= mid, mid <= to
    PROVE  Body(t, from, mid) \o Body(t, mid, to) = Body(t, from, to)
<1> DEFINE a == Body(t, from, mid)
           b == Body(t, mid, to)
           w == Body(t, from, to)
<1>1. /\ a \in Seq(Targets \X Nat) /\ b \in Seq(Targets \X Nat) /\ w \in Seq(Targets \X Nat)
  BY BodyType
<1>2. mid - from \in Nat /\ to - mid \in Nat /\ to - from \in Nat
  OBVIOUS
<1>3. Len(a) = mid - from /\ Len(b) = to - mid /\ Len(w) = to - from
  BY <1>2 DEF Body
<1>4. /\ \A k \in 1 .. mid - from : a[k] = <<t, from + k>>
      /\ \A k \in 1 .. to - mid : b[k] = <<t, mid + k>>
      /\ \A k \in 1 .. to - from : w[k] = <<t, from + k>>
  BY DEF Body
<1> HIDE DEF a, b, w
<1>5. /\ a \o b \in Seq(Targets \X Nat) /\ Len(a \o b) = Len(w)
      /\ \A k \in 1 .. Len(w) : (a \o b)[k] = IF k <= Len(a) THEN a[k] ELSE b[k - Len(a)]
  <2>1. /\ a \o b \in Seq(Targets \X Nat) /\ Len(a \o b) = Len(a) + Len(b)
        /\ \A k \in 1 .. Len(a) + Len(b) :
              (a \o b)[k] = IF k <= Len(a) THEN a[k] ELSE b[k - Len(a)]
    BY <1>1, ConcatProperties
  <2>2. Len(a) + Len(b) = Len(w)
    BY <1>2, <1>3
  <2> QED
    BY <2>1, <2>2
<1>6. ASSUME NEW k \in 1 .. Len(w) PROVE (a \o b)[k] = w[k]
  <2>1. CASE k <= mid - from
    <3>1. k \in 1 .. mid - from /\ k <= Len(a) /\ k \in 1 .. to - from
      BY <1>2, <1>3, <2>1
    <3>2. (a \o b)[k] = a[k]
      BY <1>5, <3>1
    <3> QED
      BY <1>4, <3>1, <3>2
  <2>2. CASE ~(k <= mid - from)
    <3>1. k - (mid - from) \in 1 .. to - mid
      BY <1>2, <1>3, <2>2
    <3>2. (a \o b)[k] = b[k - Len(a)]
      BY <1>2, <1>3, <1>5, <2>2
    <3>3. b[k - Len(a)] = <<t, mid + (k - (mid - from))>>
      BY <1>3, <1>4, <3>1
    <3>4. mid + (k - (mid - from)) = from + k
      BY <1>2, <1>3
    <3> QED
      BY <1>3, <1>4, <3>2, <3>3, <3>4
  <2> QED
    BY <2>1, <2>2
<1>7. a \o b = w
  BY <1>1, <1>5, <1>6, SeqEqual
<1> QED
  BY <1>7 DEF a, b, w

\* A call of the route of a big file serves at least the chunks that were served before,
\* and none past the end.
LEMMA ChunksAdvance ==
    ASSUME NEW t \in Targets, NEW n \in Nat, n <= Parts[t]
    PROVE  n <= ChunksServed(t, n) /\ ChunksServed(t, n) <= Parts[t]
<1>1. Parts[t] \in Nat
  BY RoutesAssumption
<1>2. n % 2 \in 0 .. 1
  OBVIOUS
<1>3. n <= n + 2 - (n % 2) /\ n + 2 - (n % 2) \in Nat
  BY <1>2
<1> QED
  BY <1>1, <1>3 DEF ChunksServed

LEMMA ResponseType ==
    ASSUME NEW t \in Targets
    PROVE  Response(t) \in Seq(Targets \X Nat)
<1>1. Parts[t] \in Nat
  BY RoutesAssumption
<1> DEFINE head == Header(t)
           body == Body(t, 0, Parts[t])
<1>2. head \in Seq(Targets \X Nat) /\ body \in Seq(Targets \X Nat)
  BY <1>1, HeaderType, BodyType
<1>3. Response(t) = IF RouteKind[t] = "none" THEN << >> ELSE head \o body
  BY DEF Response
<1> HIDE DEF head, body
<1> QED
  BY <1>2, <1>3, NoParts

\* What was sent before a call of a route, with what the call adds, is what was sent
\* after it; a result other than RECALL completes the response.
LEMMA RouteContinues ==
    ASSUME NEW t \in Targets, NEW n \in Nat, n <= Parts[t], Routed(t, n).result # None,
           RouteKind[t] # "chunked" => n = 0
    PROVE  LET routed == Routed(t, n)
               whole  == (Header(t) \o Body(t, 0, n)) \o routed.body
           IN  /\ routed.result \in Results /\ routed.chunk \in Nat
               /\ routed.result = "RECALL" =>
                     /\ RouteKind[t] = "chunked" /\ routed.chunk <= Parts[t]
                     /\ whole = Header(t) \o Body(t, 0, routed.chunk)
               /\ routed.result # "RECALL" => whole = Response(t)
<1> DEFINE routed == Routed(t, n)
           whole  == (Header(t) \o Body(t, 0, n)) \o routed.body
<1>1. Parts[t] \in Nat /\ RouteKind[t] \in RouteKinds /\ RouteKind[t] # "none"
  <2>1. RouteKind[t] = "none" => routed.result = None
    BY DEF Routed
  <2> QED
    BY <2>1, RoutesAssumption
<1>2. routed.result \in Results /\ routed.chunk \in Nat
  BY RoutedType DEF Results
<1>3. Response(t) = Header(t) \o Body(t, 0, Parts[t])
  BY <1>1 DEF Response
<1>4. ASSUME NEW m \in Nat, n <= m
      PROVE  (Header(t) \o Body(t, 0, n)) \o Body(t, n, m) = Header(t) \o Body(t, 0, m)
  <2> DEFINE head   == Header(t)
             before == Body(t, 0, n)
             next   == Body(t, n, m)
  <2>1. /\ head \in Seq(Targets \X Nat) /\ before \in Seq(Targets \X Nat)
        /\ next \in Seq(Targets \X Nat)
    BY HeaderType, BodyType
  <2>2. before \o next = Body(t, 0, m)
    BY <1>4, BodyJoins
  <2> HIDE DEF head, before, next
  <2>3. (head \o before) \o next = head \o (before \o next)
    BY <2>1, ConcatAssociative, SMTT(30)
  <2> QED
    BY <2>2, <2>3 DEF head, before, next
<1>5. CASE RouteKind[t] = "chunked"
  <2> DEFINE served == ChunksServed(t, n)
  <2>1. served \in Nat /\ n <= served /\ served <= Parts[t]
    BY ChunksServedType, ChunksAdvance
  <2>2. /\ routed.result = IF served = Parts[t] THEN "FINISHED_NO_WAIT" ELSE "RECALL"
        /\ routed.body = Body(t, n, served)
        /\ routed.chunk = IF served = Parts[t] THEN 0 ELSE served
    BY <1>5 DEF Routed
  <2> HIDE DEF served, routed
  <2>3. whole = Header(t) \o Body(t, 0, served)
    BY <1>4, <2>1, <2>2
  <2> QED
    BY <1>2, <1>3, <1>5, <2>1, <2>2, <2>3 DEF routed
<1>6. CASE RouteKind[t] # "chunked"
  <2>1. routed.body = Body(t, 0, Parts[t]) /\ routed.result # "RECALL" /\ n = 0
    BY <1>1, <1>6 DEF Routed, RouteKinds
  <2> HIDE DEF routed
  <2>2. whole = Response(t)
    BY <1>1, <1>3, <1>4, <2>1
  <2> QED
    BY <1>2, <2>1, <2>2 DEF routed
<1> QED
  BY <1>5, <1>6

-----------------------------------------------------------------------------
(* The handler *)

\* What was sent fits the state of the handler: nothing before its first turn, the
\* chunks served so far while it is called back, a complete answer afterwards.
HandlerServes(h, asked, got) ==
    LET t == h.request
    IN  /\ h.sm.state = "READY_TO_HANDLE" => got = << >> /\ h.chunk = 0
        /\ h.sm.state = "RECALL" =>
              /\ asked # << >> /\ Response(t) \in AnswersTo(asked)
              /\ RouteKind[t] = "chunked" /\ h.chunk <= Parts[t]
              /\ got = Header(t) \o Body(t, 0, h.chunk)
        /\ h.sm.state \in {"FINISHED_NO_WAIT", "FINISHED_WAIT", "HANDLER_ERROR"} =>
              asked # << >> /\ got \in AnswersTo(asked)

\* Only a method that nothing is routed for gets no result.
LEMMA NoRoute ==
    ASSUME NEW t \in Targets, NEW n \in Nat
    PROVE  Routed(t, n).result = None <=> RouteKind[t] = "none"
<1>1. None \notin {"FINISHED_NO_WAIT", "FINISHED_WAIT", "RECALL"} /\ RouteKind[t] \in RouteKinds
  BY RoutesAssumption DEF HandlerStates
<1> QED
  BY <1>1 DEF Routed, RouteKinds

\* The parser sees only the beginning of what the client sends in the end, but what it
\* finds there is an answer to the whole of it.
LEMMA ParsedAnswers ==
    ASSUME NEW input \in Seq(Segments), NEW more \in Seq(Segments), input # << >>
    PROVE  LET asked == input \o more
               t     == Parsed(input).request
           IN  /\ asked # << >>
               /\ t # None => Response(t) \in AnswersTo(asked)
               /\ t = None => << >> \in AnswersTo(asked)
<1> DEFINE asked == input \o more
           t     == Parsed(input).request
<1>1. /\ Len(input) \in Nat /\ Len(input) >= 1
      /\ asked \in Seq(Segments) /\ Len(asked) = Len(input) + Len(more) /\ Len(more) \in Nat
      /\ \A k \in 1 .. Len(input) : asked[k] = input[k]
  BY ConcatProperties, EmptySeq
<1>2. asked # << >> /\ asked[1] = input[1] /\ (Len(input) >= 2 => asked[2] = input[2])
  BY <1>1
<1>3. t = IF Complete(input) THEN input[1].target ELSE None
  BY DEF Parsed
<1>4. input[1] \in Segments /\ input[1].target # None
  <2>1. input[1] \in Segments
    BY <1>1
  <2> QED
    BY <2>1, RoutesAssumption DEF Segments
<1>5. AnswersTo(asked) =
        CASE asked[1].kind = "full" -> {Response(asked[1].target)}
          [] asked[1].kind = "head" ->
               {<< >>} \cup {Response(x) : x \in
                   {y \in {asked[1].target} :
                       Len(asked) > 1 /\ asked[2] = [kind |-> "tail", target |-> y]}}
          [] OTHER -> {<< >>}
  BY <1>2 DEF AnswersTo
<1> HIDE DEF asked, t
<1>6. CASE input[1].kind = "full"
  BY <1>2, <1>3, <1>4, <1>5, <1>6 DEF Complete, asked, t
<1>7. CASE input[1].kind = "head" /\ Complete(input)
  <2>1. Len(input) >= 2 /\ input[2] = [kind |-> "tail", target |-> input[1].target]
    BY <1>7 DEF Complete
  <2>2. Len(asked) > 1 /\ asked[2] = [kind |-> "tail", target |-> asked[1].target]
    BY <1>1, <1>2, <2>1
  <2>3. Response(asked[1].target) \in AnswersTo(asked)
    BY <1>2, <1>5, <1>7, <2>2
  <2> QED
    BY <1>2, <1>3, <1>4, <1>7, <2>3 DEF asked, t
<1>8. CASE input[1].kind # "full" /\ ~Complete(input)
  <2>1. << >> \in AnswersTo(asked)
    BY <1>2, <1>5, <1>8
  <2> QED
    BY <1>2, <1>3, <1>8, <2>1 DEF asked, t
<1> QED
  BY <1>6, <1>7, <1>8 DEF Complete

LEMMA NothingMore ==
    ASSUME NEW got \in Seq(Targets \X Nat)
    PROVE  got \o << >> = got /\ << >> \o got = got
BY ConcatEmptySeq

LEMMA FirstTurnServes ==
    ASSUME NEW h \in Handlers, NEW input \in Seq(Segments), NEW more \in Seq(Segments),
           NEW asked \in Seq(Segments), NEW got \in Seq(Targets \X Nat),
           Rests(h), h.request = None, HandlerServes(h, asked, got),
           h.sm.state = "READY_TO_HANDLE" => input # << >> /\ asked = input \o more
    PROVE  LET turn == FirstTurn(h, input)
           IN  HandlerServes(turn.handler, asked, got \o turn.written)
<1> DEFINE sm     == HSM!SetState(h.sm, "H_HANDLING")
           t      == Parsed(input).request
           routed == Routed(t, h.chunk)
<1>1. h.sm \in HSM!Machine /\ h.chunk \in Nat /\ h.sm.state # "RECALL"
  BY DEF Handlers, Rests
<1>2. sm \in HSM!Machine
  BY <1>1, HandlerSetState DEF HandlerStates
<1>3. sm.state = IF h.sm.state = "READY_TO_HANDLE" THEN "H_HANDLING" ELSE "HANDLER_ERROR"
  BY <1>1, HandlerBegins DEF Rests
<1>4. t \in Targets \cup {None}
  BY ParsedType
<1>5. FirstTurn(h, input) =
        IF sm.state = "HANDLER_ERROR"
        THEN Turn([h EXCEPT !.sm = sm], input, << >>, TRUE)
        ELSE IF t # None /\ routed.result # None
        THEN Turn([sm |-> HSM!SetState(sm, routed.result), request |-> t,
                   chunk |-> routed.chunk],
                  Parsed(input).rest, Header(t) \o routed.body, FALSE)
        ELSE Turn([h EXCEPT !.sm = HSM!SetState(sm, "FINISHED_NO_WAIT"), !.request = t],
                  Parsed(input).rest, << >>, FALSE)
  BY DEF FirstTurn
<1> HIDE DEF sm
<1>6. CASE h.sm.state # "READY_TO_HANDLE"
  <2> DEFINE next == [h EXCEPT !.sm = sm]
             turn == FirstTurn(h, input)
  <2>1. turn = Turn(next, input, << >>, TRUE) /\ sm.state = "HANDLER_ERROR"
    BY <1>3, <1>5, <1>6
  <2>2. next.sm.state = "HANDLER_ERROR"
    BY <2>1 DEF Handlers
  <2> HIDE DEF next
  <2>3. turn.handler = next /\ turn.written = << >>
    BY <2>1 DEF Turn
  <2>4. asked # << >> /\ got \in AnswersTo(asked)
    BY <1>1, <1>6 DEF Rests, HandlerServes
  <2> HIDE DEF turn
  <2>5. HandlerServes(turn.handler, asked, got \o turn.written)
    BY <2>2, <2>3, <2>4, NothingMore DEF HandlerServes
  <2> QED
    BY <2>5 DEF turn
<1>7. ASSUME h.sm.state = "READY_TO_HANDLE"
      PROVE  /\ sm.state = "H_HANDLING" /\ got = << >> /\ h.chunk = 0 /\ asked # << >>
             /\ t # None => Response(t) \in AnswersTo(asked)
             /\ t = None => << >> \in AnswersTo(asked)
  BY <1>3, <1>7, ParsedAnswers DEF HandlerServes
<1>8. CASE h.sm.state = "READY_TO_HANDLE" /\ t # None /\ routed.result # None
  <2> DEFINE ended == HSM!SetState(sm, routed.result)
             next  == [sm |-> ended, request |-> t, chunk |-> routed.chunk]
             text  == Header(t) \o routed.body
             whole == (Header(t) \o Body(t, 0, 0)) \o routed.body
             turn  == FirstTurn(h, input)
  <2>1. t \in Targets /\ h.chunk = 0 /\ 0 <= Parts[t]
    BY <1>4, <1>7, <1>8, RoutesAssumption
  <2>2. /\ routed.result \in Results /\ routed.chunk \in Nat
        /\ routed.result = "RECALL" =>
              /\ RouteKind[t] = "chunked" /\ routed.chunk <= Parts[t]
              /\ whole = Header(t) \o Body(t, 0, routed.chunk)
        /\ routed.result # "RECALL" => whole = Response(t)
    <3>1. routed = Routed(t, 0) /\ 0 \in Nat
      BY <2>1
    <3>2. Routed(t, 0).result # None
      BY <1>8, <3>1
    <3> HIDE DEF t
    <3> QED
      BY <2>1, <3>1, <3>2, RouteContinues
  <2>3. Header(t) \o Body(t, 0, 0) = Header(t)
    <3>1. Body(t, 0, 0) = << >>
      BY DEF Body
    <3> QED
      BY <2>1, <3>1, HeaderType, NothingMore
  <2>4. ended.state = routed.result
    BY <1>2, <1>7, <1>8, <2>2, HandlerEnds
  <2>5. text \in Seq(Targets \X Nat)
    <3> DEFINE head == Header(t)
    <3>1. head \in Seq(Targets \X Nat) /\ routed.body \in Seq(Targets \X Nat)
      BY <1>1, <2>1, HeaderType, RoutedType
    <3> HIDE DEF head, routed
    <3>2. head \o routed.body \in Seq(Targets \X Nat)
      BY <3>1
    <3> QED
      BY <3>2 DEF head
  <2>6. turn = Turn(next, Parsed(input).rest, text, FALSE)
    BY <1>5, <1>7, <1>8
  <2>7. whole = text
    BY <2>3
  <2> HIDE DEF ended, text, whole, routed, t
  <2>8. /\ next.sm.state = routed.result /\ next.request = t /\ next.chunk = routed.chunk
    BY <2>4
  <2> HIDE DEF next
  <2>9. /\ turn.written = text
        /\ turn.handler = IF Finished(routed.result) THEN [next EXCEPT !.request = None] ELSE next
    BY <2>6, <2>8 DEF Turn
  <2>10. got \o text = text
    BY <1>7, <1>8, <2>5, NothingMore
  <2> HIDE DEF turn
  <2>11. /\ turn.handler.sm.state = routed.result
         /\ routed.result = "RECALL" => turn.handler.request = t /\ turn.handler.chunk = routed.chunk
    BY <2>8, <2>9 DEF Finished, next
  <2>12. HandlerServes(turn.handler, asked, got \o turn.written)
    BY <1>7, <1>8, <2>2, <2>7, <2>9, <2>10, <2>11 DEF HandlerServes, Results
  <2> QED
    BY <2>12 DEF turn
<1>9. CASE h.sm.state = "READY_TO_HANDLE" /\ ~(t # None /\ routed.result # None)
  <2> DEFINE ended == HSM!SetState(sm, "FINISHED_NO_WAIT")
             next  == [h EXCEPT !.sm = ended, !.request = t]
             turn  == FirstTurn(h, input)
  <2>1. ended.state = "FINISHED_NO_WAIT"
    BY <1>2, <1>7, <1>9, HandlerEnds DEF Results
  <2>2. turn = Turn(next, Parsed(input).rest, << >>, FALSE)
    BY <1>5, <1>7, <1>9
  <2>3. << >> \in AnswersTo(asked)
    <3>1. CASE t = None
      BY <1>7, <1>9, <3>1
    <3>2. CASE t # None
      <4>1. RouteKind[t] = "none"
        BY <1>1, <1>4, <1>9, <3>2, NoRoute
      <4> QED
        BY <1>7, <1>9, <3>2, <4>1 DEF Response
    <3> QED
      BY <3>1, <3>2
  <2> HIDE DEF ended
  <2>4. next.sm.state = "FINISHED_NO_WAIT"
    BY <2>1 DEF Handlers
  <2> HIDE DEF t, next
  <2>5. turn.written = << >> /\ turn.handler.sm.state = "FINISHED_NO_WAIT"
    BY <2>2, <2>4 DEF Turn, next, Handlers
  <2> HIDE DEF turn
  <2>6. got \o turn.written = << >>
    BY <1>7, <1>9, <2>5, NothingMore
  <2>7. HandlerServes(turn.handler, asked, got \o turn.written)
    BY <1>7, <1>9, <2>3, <2>5, <2>6 DEF HandlerServes
  <2> QED
    BY <2>7 DEF turn
<1> QED
  BY <1>6, <1>8, <1>9

LEMMA NextTurnServes ==
    ASSUME NEW h \in Handlers, NEW input \in Seq(Segments),
           NEW asked \in Seq(Segments), NEW got \in Seq(Targets \X Nat),
           Rests(h), h.request # None, HandlerServes(h, asked, got)
    PROVE  LET turn == NextTurn(h, input)
           IN  HandlerServes(turn.handler, asked, got \o turn.written)
<1> DEFINE t      == h.request
           routed == Routed(t, h.chunk)
           ended  == HSM!SetState(h.sm, routed.result)
           next   == [h EXCEPT !.sm = ended, !.chunk = routed.chunk]
           turn   == NextTurn(h, input)
<1>1. h.sm \in HSM!Machine /\ h.chunk \in Nat /\ t \in Targets /\ h.sm.state = "RECALL"
  BY DEF Handlers, Rests
<1>2. /\ asked # << >> /\ Response(t) \in AnswersTo(asked)
      /\ RouteKind[t] = "chunked" /\ h.chunk <= Parts[t]
      /\ got = Header(t) \o Body(t, 0, h.chunk)
  BY <1>1 DEF HandlerServes
<1>3. routed.result # None
  BY <1>1, <1>2, NoRoute
<1>4. /\ routed.result \in Results
      /\ routed.result = "RECALL" =>
            /\ RouteKind[t] = "chunked" /\ routed.chunk <= Parts[t]
            /\ got \o routed.body = Header(t) \o Body(t, 0, routed.chunk)
      /\ routed.result # "RECALL" => got \o routed.body = Response(t)
  BY <1>1, <1>2, <1>3, RouteContinues
<1>5. ended.state = routed.result
  BY <1>1, <1>4, HandlerEnds
<1>6. turn = Turn(next, input, routed.body, FALSE)
  BY <1>3 DEF NextTurn
<1> HIDE DEF ended, routed
<1>7. next.sm.state = routed.result /\ next.request = t /\ next.chunk = routed.chunk
  BY <1>5 DEF Handlers
<1>8. /\ turn.written = routed.body
      /\ turn.handler.sm.state = routed.result
      /\ routed.result = "RECALL" => turn.handler.request = t /\ turn.handler.chunk = routed.chunk
  BY <1>6, <1>7 DEF Turn, Finished, Handlers
<1> HIDE DEF next, turn, t
<1>9. HandlerServes(turn.handler, asked, got \o turn.written)
  BY <1>2, <1>4, <1>8 DEF HandlerServes, Results
<1> QED
  BY <1>9 DEF turn

\* A turn of the handler continues the answer it was at, or finds it.
LEMMA HandlerTurnServes ==
    ASSUME NEW h \in Handlers, NEW input \in Seq(Segments), NEW more \in Seq(Segments),
           NEW asked \in Seq(Segments), NEW got \in Seq(Targets \X Nat),
           Rests(h), HandlerServes(h, asked, got),
           h.sm.state = "READY_TO_HANDLE" => input # << >> /\ asked = input \o more
    PROVE  LET turn == HandlerTurn(h, input)
           IN  HandlerServes(turn.handler, asked, got \o turn.written)
BY FirstTurnServes, NextTurnServes DEF HandlerTurn

-----------------------------------------------------------------------------
(* The connection *)

\* The same for a connection: `asked` is what its client sent, `unread` what of it was
\* not read yet, `got` what the client was sent with what is still written for it.
Serves(c, asked, unread, got) ==
    LET s == c.handler.sm.state
    IN  /\ c.handler # None /\ HandlerServes(c.handler, asked, got)
        /\ s = "READY_TO_HANDLE" /\ c.sm.state = "READY_TO_READ" =>
              c.input = << >> /\ unread = asked
        /\ c.measured \in {0, 1}
        /\ c.measured = 1 => c.output = << >> /\ s \in {"FINISHED_WAIT", "HANDLER_ERROR"}

\* A call that changes the machine and the timer only.
LEMMA MachineServes ==
    ASSUME NEW c, NEW d, NEW asked, NEW unread, NEW rest, NEW got,
           Serves(c, asked, unread, got),
           d.handler = c.handler, d.input = c.input, d.output = c.output,
           d.measured = c.measured,
           d.sm.state = "READY_TO_READ" => c.sm.state = "READY_TO_READ" /\ rest = unread
    PROVE  Serves(d, asked, rest, got)
BY DEF Serves

LEMMA SetServes ==
    ASSUME NEW c \in Connections, NEW s \in ConnectionStates, s # "READY_TO_READ",
           NEW asked, NEW unread, NEW rest, NEW acc,
           Serves(c, asked, unread, acc \o c.output)
    PROVE  Serves(Set(c, s), asked, rest, acc \o Set(c, s).output)
<1> DEFINE d == Set(c, s)
<1>1. /\ d.sm.state \in {s, "CONNECTION_ERROR"} /\ d.handler = c.handler
      /\ d.output = c.output /\ d.measured = c.measured
  BY SetFields
<1>2. d.input = c.input
  BY DEF Set, Connections
<1> HIDE DEF d
<1>3. Serves(d, asked, rest, acc \o d.output)
  BY <1>1, <1>2, MachineServes
<1> QED
  BY <1>3 DEF d

LEMMA NotifyHandlerServes ==
    ASSUME NEW c \in Connections, Due(c), NEW asked \in Seq(Segments),
           NEW more \in Seq(Segments), NEW acc \in Seq(Targets \X Nat),
           HandlerServes(c.handler, asked, acc),
           c.handler.sm.state = "READY_TO_HANDLE" => c.input # << >> /\ asked = c.input \o more
    PROVE  Serves(NotifyHandler(c), asked, more, acc \o NotifyHandler(c).output)
<1> DEFINE turn == HandlerTurn(c.handler, c.input)
           next == [c EXCEPT !.handler = turn.handler,
                             !.input   = turn.input,
                             !.output  = @ \o turn.written]
           d    == NotifyHandler(c)
<1>1. /\ c.handler \in Handlers /\ c.input \in Seq(Segments) /\ c.output = << >>
  BY ConnectionFields DEF Due
<1>2. TurnAgrees(c.handler, turn)
  BY <1>1, HandlerTurnAgrees DEF Due
<1>3. /\ turn.handler \in Handlers /\ turn.input \in Seq(Segments)
      /\ turn.written \in Seq(Targets \X Nat)
  BY <1>1, HandlerTurnType DEF TurnType
<1>4. HandlerServes(turn.handler, asked, acc \o turn.written)
  BY <1>1, HandlerTurnServes DEF Due
<1>5. d = IF turn.returns THEN next ELSE NotifiedByHandler(next)
  BY DEF NotifyHandler, Due
<1> HIDE DEF turn
<1>6. c.output \o turn.written = turn.written
  BY <1>1, <1>3, NothingMore
<1>7. /\ next \in Connections /\ next.sm = c.sm /\ next.handler = turn.handler
      /\ next.output = turn.written /\ next.measured = c.measured
  BY <1>3, <1>6 DEF Connections
<1> HIDE DEF next
<1>8. turn.handler # None /\ turn.handler.sm.state # "READY_TO_HANDLE"
  BY <1>2, <1>3, HandlersAreNotNone DEF TurnAgrees, Results
<1>9. Serves(next, asked, more, acc \o next.output)
  <2>1. CASE turn.returns
    <3>1. c.measured = 1 /\ turn.written = << >> /\ turn.handler.sm.state = "HANDLER_ERROR"
      BY <1>2, <2>1 DEF TurnAgrees, Due
    <3> QED
      BY <1>4, <1>7, <1>8, <3>1 DEF Serves
  <2>2. CASE ~turn.returns
    <3>1. c.measured = 0
      BY <1>2, <2>2 DEF TurnAgrees, Due, UnderWay
    <3> QED
      BY <1>4, <1>7, <1>8, <3>1 DEF Serves
  <2> QED
    BY <2>1, <2>2
<1>10. CASE turn.returns
  BY <1>5, <1>9, <1>10
<1>11. CASE ~turn.returns
  <2>1. turn.handler.sm.state \in Results
    BY <1>2, <1>11 DEF TurnAgrees
  <2>2. d = Set(next, "READY_TO_WRITE")
    BY <1>5, <1>7, <1>11, <2>1
       DEF NotifiedByHandler, Results, wants_to_write, wants_to_live,
           wants_more_bytes, wants_to_be_calledback
  <2> QED
    BY <1>7, <1>9, <2>2, SetServes DEF ConnectionStates
<1> QED
  BY <1>10, <1>11

LEMMA GetStateServes ==
    ASSUME NEW c \in Connections, NEW asked, NEW unread, NEW got,
           Serves(c, asked, unread, got)
    PROVE  /\ Serves(GetState(c), asked, unread, got)
           /\ GetState(c).output = c.output /\ GetState(c).input = c.input
<1> DEFINE d == GetState(c)
<1>1. d.sm.state \in {c.sm.state, "CONNECTION_ERROR"} /\ d.handler = c.handler
  BY GetStateType
<1>2. d.output = c.output /\ d.input = c.input /\ d.measured = c.measured
  BY DEF GetState, Connections
<1> HIDE DEF d
<1>3. Serves(d, asked, unread, got)
  BY <1>1, <1>2, MachineServes
<1> QED
  BY <1>2, <1>3 DEF d

LEMMA ReadSocketServes ==
    ASSUME NEW c \in Connections, NEW received \in Seq(Segments), NEW rest \in Seq(Segments),
           NEW asked \in Seq(Segments), NEW acc \in Seq(Targets \X Nat),
           Agrees(c), c.sm.state = "READY_TO_READ", c.socket # None,
           Serves(c, asked, received \o rest, acc \o c.output)
    PROVE  LET d == ReadSocket(c, received)
           IN  Serves(d, asked, rest, acc \o d.output)
<1> DEFINE started  == TimerStart(c)
           reading  == Set(started, "READING")
           filled   == [reading EXCEPT !.input = @ \o received]
           handling == Set(filled, "HANDLING")
           broken   == Set(reading, "CONNECTION_ERROR")
<1>1. /\ c.output = << >> /\ c.handler # None /\ Rests(c.handler) /\ c.asserts
      /\ \/ c.handler.sm.state = "READY_TO_HANDLE" /\ c.measured = 0
         \/ c.handler.sm.state = "FINISHED_WAIT" /\ c.measured = 1
  BY DEF Agrees, Serves
<1>2. acc \o c.output = acc /\ HandlerServes(c.handler, asked, acc)
  BY <1>1, NothingMore DEF Serves
<1>3. c.handler.sm.state = "READY_TO_HANDLE" => c.input = << >> /\ asked = received \o rest
  BY DEF Serves
<1>4. /\ started \in Connections /\ started.handler = c.handler /\ started.sm = c.sm
      /\ started.output = c.output /\ started.asserts = c.asserts /\ started.input = c.input
      /\ started.timing /\ started.measured = c.measured
  BY TimerType DEF TimerStart, Connections
<1> HIDE DEF started
<1>5. Serves(started, asked, received \o rest, acc \o started.output)
  BY <1>4, MachineServes
<1>6. /\ reading \in Connections /\ reading.handler = c.handler
      /\ reading.output = c.output /\ reading.asserts = c.asserts
      /\ reading.timing /\ reading.measured = c.measured
  BY <1>4, SetFields DEF ConnectionStates
<1>7. reading.input = c.input
  BY <1>4 DEF Set, Connections
<1>8. Serves(reading, asked, rest, acc \o reading.output)
  BY <1>4, <1>5, SetServes DEF ConnectionStates
<1>9. ReadSocket(c, received) =
        IF reading.sm.state = "CONNECTION_ERROR" THEN reading
        ELSE IF received = << >> THEN broken
        ELSE NotifyHandler(handling)
  BY DEF ReadSocket, started
<1> HIDE DEF reading
<1>10. Serves(broken, asked, rest, acc \o broken.output)
  BY <1>6, <1>8, SetServes DEF ConnectionStates
<1>11. ASSUME received # << >>
       PROVE  Serves(NotifyHandler(handling), asked, rest, acc \o NotifyHandler(handling).output)
  <2>1. /\ reading.input \o received \in Seq(Segments)
        /\ c.input = << >> => reading.input \o received = received
    <3>1. reading.input \in Seq(Segments)
      BY <1>6, ConnectionFields
    <3>2. << >> \o received = received
      BY ConcatEmptySeq
    <3> QED
      BY <1>7, <3>1, <3>2
  <2>2. /\ filled \in Connections /\ filled.handler = c.handler
        /\ filled.output = c.output /\ filled.asserts = c.asserts
        /\ filled.timing /\ filled.measured = c.measured
        /\ filled.input = reading.input \o received
    BY <1>6, <2>1 DEF Connections
  <2> HIDE DEF filled
  <2>3. /\ handling \in Connections /\ handling.handler = c.handler
        /\ handling.output = c.output /\ handling.asserts = c.asserts
        /\ handling.timing /\ handling.measured = c.measured
        /\ handling.sm.state \in {"HANDLING", "CONNECTION_ERROR"}
    BY <2>2, SetFields DEF ConnectionStates
  <2>4. handling.input = reading.input \o received
    BY <2>2 DEF Set, Connections
  <2> HIDE DEF handling
  <2>5. Due(handling)
    BY <1>1, <2>3 DEF Due, UnderWay
  <2>6. handling.handler.sm.state = "READY_TO_HANDLE" =>
          handling.input # << >> /\ asked = handling.input \o rest
    BY <1>3, <1>11, <2>1, <2>3, <2>4
  <2> QED
    BY <1>2, <2>3, <2>5, <2>6, NotifyHandlerServes
<1> QED
  BY <1>8, <1>9, <1>10, <1>11

LEMMA WriteEndServes ==
    ASSUME NEW c \in Connections, Agrees(c), c.sm.state = "WRITING",
           NEW n \in Nat, n <= Len(c.output), NEW asked, NEW unread,
           NEW acc \in Seq(Targets \X Nat),
           Serves(c, asked, unread, acc \o SubSeq(c.output, n + 1, Len(c.output)))
    PROVE  LET d == WriteEnd(c, n)
           IN  Serves(d, asked, unread, acc \o d.output)
<1> DEFINE o       == c.output
           tail    == SubSeq(o, n + 1, Len(o))
           rest    == [c EXCEPT !.output = tail]
           emptied == [c EXCEPT !.output = << >>]
           dry     == [emptied EXCEPT !.input = << >>]
           ended   == TimerEnd(dry)
<1>1. /\ c.handler # None /\ c.handler.sm.state \in Results
      /\ c.measured = 0 /\ c.timing
  BY DEF Agrees, UnderWay, Serves
<1>2. o \in Seq(Targets \X Nat) /\ Len(o) \in Nat
  BY ConnectionFields
<1>3. tail \in Seq(Targets \X Nat) /\ (~(n < Len(o)) => tail = << >>)
  <2>1. tail \in Seq(Targets \X Nat)
    BY <1>2, SMTT(40)
  <2>2. ~(n < Len(o)) => tail = << >>
    BY <1>2, SMTT(40)
  <2> QED
    BY <2>1, <2>2
<1>4. WriteEnd(c, n) =
        IF n < Len(o) THEN Set(rest, "READY_TO_WRITE")
        ELSE IF c.handler.sm.state = "RECALL" THEN Set(emptied, "HANDLING")
        ELSE IF c.handler.sm.state = "FINISHED_WAIT" THEN Set(ended, "READY_TO_READ")
        ELSE Set(emptied, "DONE")
  BY DEF WriteEnd, wants_to_be_calledback, wants_to_live
<1>5. Serves(c, asked, unread, acc \o tail)
  OBVIOUS
<1> HIDE DEF tail, o
<1>6. rest \in Connections /\ Serves(rest, asked, unread, acc \o rest.output)
  <2>1. /\ rest \in Connections /\ rest.output = tail
        /\ rest.sm = c.sm /\ rest.handler = c.handler
        /\ rest.measured = c.measured /\ rest.input = c.input
    BY <1>3 DEF Connections
  <2> QED
    BY <1>1, <1>5, <2>1 DEF Serves
<1>7. ~(n < Len(o)) => emptied \in Connections /\ Serves(emptied, asked, unread, acc \o emptied.output)
  BY <1>1, <1>3, <1>5, NoBytes DEF Connections, Serves
<1>8. ~(n < Len(o)) /\ c.handler.sm.state = "FINISHED_WAIT" =>
          LET d == Set(ended, "READY_TO_READ")
          IN  Serves(d, asked, unread, acc \o d.output)
  <2> DEFINE d == Set(ended, "READY_TO_READ")
  <2>1. /\ dry \in Connections /\ dry.handler = c.handler /\ dry.output = << >>
        /\ dry.measured = 0 /\ dry.timing
    BY <1>1, NoBytes DEF Connections
  <2> HIDE DEF dry
  <2>2. ended \in Connections /\ ended.handler = c.handler
    BY <2>1, TimerType
  <2>3. ended.output = << >> /\ ended.measured = 1
    BY <2>1 DEF TimerEnd, Connections
  <2> HIDE DEF ended
  <2>4. d.handler = c.handler /\ d.output = << >> /\ d.measured = 1
    BY <2>2, <2>3, SetFields DEF ConnectionStates
  <2> HIDE DEF d
  <2> QED
    BY <1>1, <1>3, <1>5, <2>4 DEF Serves, d
<1> HIDE DEF rest, emptied, ended
<1>9. Serves(Set(rest, "READY_TO_WRITE"), asked, unread, acc \o Set(rest, "READY_TO_WRITE").output)
  BY <1>6, SetServes DEF ConnectionStates
<1>10. ~(n < Len(o)) =>
         /\ Serves(Set(emptied, "HANDLING"), asked, unread, acc \o Set(emptied, "HANDLING").output)
         /\ Serves(Set(emptied, "DONE"), asked, unread, acc \o Set(emptied, "DONE").output)
  BY <1>7, SetServes DEF ConnectionStates
<1> QED
  BY <1>4, <1>8, <1>9, <1>10

LEMMA CleanUpOneServes ==
    ASSUME NEW c \in Connections, NEW late \in BOOLEAN, NEW waiting, SlotOK(c, waiting),
           Agrees(c), NEW asked \in Seq(Segments), NEW unread \in Seq(Segments),
           NEW acc \in Seq(Targets \X Nat), Serves(c, asked, unread, acc \o c.output)
    PROVE  LET d == CleanUpOne(c, late)
           IN  d.socket # None => Serves(d, asked, unread, acc \o d.output)
<1> DEFINE seen == GetState(c)
<1>1. /\ seen \in Connections /\ SlotOK(seen, waiting) /\ Agrees(seen)
      /\ Serves(seen, asked, unread, acc \o seen.output)
  BY GetStateKeepsSlotOK, GetStateAgrees, GetStateServes
<1>2. CleanUpOne(c, late) =
        CASE seen.sm.state = "HANDLING" -> NotifyHandler(seen)
          [] seen.sm.state \in {"CONNECTION_ERROR", "DONE"} -> halt(seen, late)
          [] OTHER -> seen
  BY DEF CleanUpOne, ContinueHandling
<1> HIDE DEF seen
<1>3. CASE seen.sm.state = "HANDLING"
  <2>1. Due(seen) /\ seen.output = << >> /\ seen.handler.sm.state # "READY_TO_HANDLE"
    BY <1>1, <1>3 DEF Due, Agrees, SlotOK, UnderWay
  <2>2. HandlerServes(seen.handler, asked, acc)
    BY <1>1, <2>1, NothingMore DEF Serves
  <2>3. Serves(NotifyHandler(seen), asked, unread, acc \o NotifyHandler(seen).output)
    BY <1>1, <2>1, <2>2, NotifyHandlerServes
  <2> QED
    BY <1>2, <1>3, <2>3
<1>4. CASE seen.sm.state \in {"CONNECTION_ERROR", "DONE"}
  BY <1>1, <1>2, <1>4, HaltReleases
<1>5. CASE seen.sm.state \notin {"HANDLING", "CONNECTION_ERROR", "DONE"}
  BY <1>1, <1>2, <1>5
<1> QED
  BY <1>3, <1>4, <1>5

\* A slot that left nothing behind starts its next session with nothing sent.
LEMMA RecordServes ==
    ASSUME NEW c \in Connections, NEW s \in Clients, Clean(c), c.socket = None,
           NEW asked \in Seq(Segments)
    PROVE  LET d == record_connection(c, s)
           IN  Serves(d, asked, asked, << >> \o d.output)
<1> DEFINE given    == [c EXCEPT !.socket = s, !.measured = 0]
           recorded == Set(given, "READY_TO_READ")
           d        == [recorded EXCEPT !.handler = NewHandler]
<1>1. /\ given \in Connections /\ given.output = << >> /\ given.measured = 0
      /\ given.input = << >>
  BY DEF Connections, Clean
<1> HIDE DEF given
<1>2. recorded \in Connections /\ recorded.output = << >> /\ recorded.measured = 0
  BY <1>1, SetFields DEF ConnectionStates
<1>3. recorded.input = << >>
  BY <1>1 DEF Set, Connections
<1>4. record_connection(c, s) = d
  BY DEF record_connection, set_handler, accept_socket, given
<1> HIDE DEF recorded
<1>5. d.handler = NewHandler /\ d.output = << >> /\ d.measured = 0 /\ d.input = << >>
  BY <1>2, <1>3 DEF Connections
<1> HIDE DEF d
<1>6. NewHandler.sm.state = "READY_TO_HANDLE" /\ NewHandler.chunk = 0 /\ NewHandler # None
  BY NewHandlerType, HandlersAreNotNone DEF NewHandler, HSM!Cleared, HSM!Entered
<1>7. << >> \o d.output = << >>
  BY <1>5, NoParts, NothingMore
<1>8. Serves(d, asked, asked, << >> \o d.output)
  BY <1>5, <1>6, <1>7 DEF Serves, HandlerServes
<1> QED
  BY <1>4, <1>8

-----------------------------------------------------------------------------
(* The answers *)

LEMMA AnswersType ==
    ASSUME NEW r \in Seq(Segments)
    PROVE  /\ AnswersTo(r) \subseteq Seq(Targets \X Nat)
           /\ AnswersTo(r) # {}
<1>1. CASE r = << >>
  BY <1>1, NoParts DEF AnswersTo
<1>2. CASE r # << >>
  <2>1. r[1] \in Segments /\ r[1].target \in Targets
    <3>1. r[1] \in Segments
      BY <1>2
    <3> QED
      BY <3>1 DEF Segments
  <2>2. Response(r[1].target) \in Seq(Targets \X Nat)
    BY <2>1, ResponseType
  <2>3. \/ AnswersTo(r) = {Response(r[1].target)}
        \/ AnswersTo(r) = {<< >>}
        \/ AnswersTo(r) =
             {<< >>} \cup {Response(t) : t \in
                 {x \in {r[1].target} :
                     Len(r) > 1 /\ r[2] = [kind |-> "tail", target |-> x]}}
    BY <1>2 DEF AnswersTo
  <2> QED
    BY <2>2, <2>3, NoParts
<1> QED
  BY <1>1, <1>2

\* Once a client has sent something, what it sends after it takes no answer away.
LEMMA AnswersGrow ==
    ASSUME NEW r \in Seq(Segments), NEW s \in Segments, r # << >>
    PROVE  AnswersTo(r) \subseteq AnswersTo(Append(r, s))
<1> DEFINE q == Append(r, s)
<1>1. /\ q \in Seq(Segments) /\ q # << >> /\ Len(q) = Len(r) + 1 /\ Len(r) \in Nat
      /\ \A k \in 1 .. Len(r) : q[k] = r[k]
  BY AppendProperties
<1>2. Len(r) >= 1
  BY EmptySeq
<1> HIDE DEF q
<1>3. q[1] = r[1] /\ (Len(r) > 1 => q[2] = r[2] /\ Len(q) > 1)
  BY <1>1, <1>2
<1>4. AnswersTo(r) \subseteq AnswersTo(q)
  BY <1>1, <1>3 DEF AnswersTo
<1> QED
  BY <1>4 DEF q

\* What a connection has written and sent is the beginning of an answer.
LEMMA ServesBegins ==
    ASSUME NEW c \in Connections, Agrees(c), NEW asked \in Seq(Segments), NEW unread, NEW got,
           Serves(c, asked, unread, got)
    PROVE  \E a \in AnswersTo(asked) : IsPrefix(got, a)
<1> DEFINE h == c.handler
           t == h.request
<1>1. h \in Handlers /\ Rests(h) /\ HandlerServes(h, asked, got)
  BY ConnectionFields DEF Serves, Agrees
<1>2. CASE h.sm.state = "READY_TO_HANDLE"
  <2>1. got = << >>
    BY <1>1, <1>2 DEF HandlerServes
  <2>2. PICK a \in AnswersTo(asked) : a \in Seq(Targets \X Nat)
    BY AnswersType
  <2> QED
    BY <2>1, <2>2, PrefixOfItself
<1>3. CASE h.sm.state = "RECALL"
  <2>1. /\ Response(t) \in AnswersTo(asked) /\ RouteKind[t] = "chunked"
        /\ h.chunk <= Parts[t] /\ got = Header(t) \o Body(t, 0, h.chunk)
    BY <1>1, <1>3 DEF HandlerServes
  <2>2. t \in Targets /\ h.chunk \in Nat /\ Parts[t] \in Nat
    BY <1>1, <1>3, RoutesAssumption DEF Rests, Handlers
  <2> DEFINE head   == Header(t)
             before == Body(t, 0, h.chunk)
             next   == Body(t, h.chunk, Parts[t])
  <2>3. /\ head \in Seq(Targets \X Nat) /\ before \in Seq(Targets \X Nat)
        /\ next \in Seq(Targets \X Nat)
    BY <2>2, HeaderType, BodyType
  <2>4. Response(t) = head \o (before \o next)
    <3>1. 0 \in Nat /\ 0 <= h.chunk
      BY <2>2
    <3>2. before \o next = Body(t, 0, Parts[t])
      BY <2>1, <2>2, <3>1, BodyJoins
    <3>3. Response(t) = Header(t) \o Body(t, 0, Parts[t])
      BY <2>1 DEF Response
    <3> QED
      BY <3>2, <3>3
  <2>5. got = head \o before
    BY <2>1
  <2> HIDE DEF head, before, next
  <2>6. Response(t) = got \o next /\ got \in Seq(Targets \X Nat)
    <3>1. (head \o before) \o next = head \o (before \o next)
      BY <2>3, PartsAssociate, SMTT(30)
    <3>2. head \o before \in Seq(Targets \X Nat)
      BY <2>3
    <3> QED
      BY <2>4, <2>5, <3>1, <3>2, Zenon
  <2> QED
    BY <2>1, <2>3, <2>6, ConcatIsPrefix
<1>4. CASE h.sm.state \in {"FINISHED_NO_WAIT", "FINISHED_WAIT", "HANDLER_ERROR"}
  <2>1. got \in AnswersTo(asked) /\ got \in Seq(Targets \X Nat)
    BY <1>1, <1>4, AnswersType DEF HandlerServes
  <2> QED
    BY <2>1, PrefixOfItself
<1> QED
  BY <1>1, <1>2, <1>3, <1>4 DEF Rests

LEMMA ServesMore ==
    ASSUME NEW c, NEW asked \in Seq(Segments), NEW unread \in Seq(Segments), NEW got,
           NEW s \in Segments, Serves(c, asked, unread, got)
    PROVE  Serves(c, Append(asked, s), Append(unread, s), got)
<1> DEFINE more == Append(asked, s)
<1>1. asked # << >> => AnswersTo(asked) \subseteq AnswersTo(more)
  BY AnswersGrow
<1>2. more # << >>
  BY AppendProperties
<1>3. HandlerServes(c.handler, more, got)
  <2> HIDE DEF more
  <2> QED
    BY <1>1, <1>2 DEF Serves, HandlerServes
<1> QED
  BY <1>3 DEF Serves

-----------------------------------------------------------------------------
(* The invariant *)

ServesAt(i) ==
    LET c == conn[i].socket
    IN  c # None => Serves(conn[i], requested[c], inbox[c], accepted[c] \o Unwritten(i))

\* A client that is not served yet was sent nothing, and nothing it sent was read.
Untouched(c) ==
    client[c] = "new" \/ c \in backlog => inbox[c] = requested[c] /\ accepted[c] = << >>

SentOne(c) == \E a \in Answers(c) : IsPrefix(accepted[c], a)

SendsWithin ==
    pc = "write" => \A i \in Slots : NextPolled(i) => sent <= Len(conn[i].output)

Serving ==
    /\ \A i \in Slots : ServesAt(i)
    /\ \A c \in Clients : Untouched(c) /\ SentOne(c)
    /\ SendsWithin

\* What was proved before and the steps start from.
Between == IInv /\ NothingLeftBehind /\ AllAgree

LEMMA OneIsNext ==
    ASSUME NEW i \in Slots, NEW j \in Slots, NextPolled(i), NextPolled(j)
    PROVE  i = j
<1>1. i <= j /\ j <= i /\ i \in Nat /\ j \in Nat
  BY ServerAssumption DEF NextPolled
<1> QED
  BY <1>1

LEMMA SlotClients ==
    ASSUME IInv, NEW i \in Slots, conn[i].socket # None
    PROVE  /\ conn[i].socket \in Clients \ backlog /\ client[conn[i].socket] # "new"
           /\ requested[conn[i].socket] \in Seq(Segments)
           /\ inbox[conn[i].socket] \in Seq(Segments)
           /\ accepted[conn[i].socket] \in Seq(Targets \X Nat)
           /\ \A j \in Slots : conn[j].socket = conn[i].socket => j = i
<1>1. conn[i].socket \in Clients
  BY SlotFacts, ConnectionFields
<1> QED
  BY <1>1 DEF IInv, TypeOK, SocketOwnership, KnownClients

\* A step of slot i that leaves its socket alone: what counts is what it holds afterwards.
LEMMA OneSlotServes ==
    ASSUME Between, Serving, NEW i \in Slots, NEW d,
           conn' = [conn EXCEPT ![i] = d], d.socket = conn[i].socket, d.socket # None,
           \A j \in Slots : j # i => Unwritten(j)' = Unwritten(j),
           UNCHANGED <<requested, accepted, client, backlog>>,
           \A c \in Clients : c # d.socket => inbox'[c] = inbox[c],
           Serves(d, requested[d.socket], inbox'[d.socket],
                  accepted[d.socket] \o Unwritten(i)'),
           SendsWithin'
    PROVE  Serving'
<1>1. \A j \in Slots : conn'[j] = IF j = i THEN d ELSE conn[j]
  BY DEF Between, IInv, TypeOK
<1>2. /\ d.socket \in Clients \ backlog /\ client[d.socket] # "new"
      /\ \A j \in Slots : conn[j].socket = d.socket => j = i
  BY SlotClients DEF Between
<1>3. ASSUME NEW j \in Slots PROVE ServesAt(j)'
  <2>1. CASE j = i
    BY <1>1, <2>1 DEF ServesAt
  <2>2. CASE j # i
    <3>1. ServesAt(j) /\ conn'[j] = conn[j] /\ Unwritten(j)' = Unwritten(j)
      BY <1>1, <2>2 DEF Serving
    <3>2. conn[j].socket # None => inbox'[conn[j].socket] = inbox[conn[j].socket]
      BY <1>2, <2>2, SlotClients DEF Between
    <3> QED
      BY <3>1, <3>2 DEF ServesAt
  <2> QED
    BY <2>1, <2>2
<1>4. ASSUME NEW c \in Clients PROVE Untouched(c)' /\ SentOne(c)'
  BY <1>2 DEF Serving, Untouched, SentOne, Answers
<1> QED
  BY <1>3, <1>4 DEF Serving

LEMMA InitServes == Init => Serving
<1> SUFFICES ASSUME Init PROVE Serving
  OBVIOUS
<1>1. \A i \in Slots : ServesAt(i)
  BY DEF Init, ServesAt, NewConnection
<1>2. ASSUME NEW c \in Clients PROVE Untouched(c) /\ SentOne(c)
  <2>1. requested[c] = << >> /\ accepted[c] = << >> /\ inbox[c] = << >>
    BY DEF Init
  <2>2. Answers(c) = {<< >>}
    BY <2>1 DEF Answers, AnswersTo
  <2> QED
    BY <2>1, <2>2, NoParts, PrefixOfItself DEF Untouched, SentOne
<1>3. SendsWithin
  BY DEF Init, SendsWithin
<1> QED
  BY <1>1, <1>2, <1>3 DEF Serving

LEMMA HandleReadServes ==
    ASSUME Between, Serving, NEW i \in Slots, HandleRead(i) PROVE Serving'
<1> DEFINE c    == conn[i].socket
           seen == GetState(conn[i])
<1>1. PICK n \in 0 .. Len(inbox[c]) :
        /\ conn' = [conn EXCEPT ![i] = ReadSocket(GetState(@), SubSeq(inbox[c], 1, n))]
        /\ inbox' = [inbox EXCEPT ![c] = SubSeq(@, n + 1, Len(@))]
  BY DEF HandleRead
<1>2. /\ conn[i] \in Connections /\ SlotOK(conn[i], backlog) /\ Agrees(conn[i])
      /\ conn \in [Slots -> Connections]
  BY SlotFacts DEF Between, IInv, TypeOK, AllAgree
<1>3. /\ seen \in Connections /\ SlotOK(seen, backlog) /\ Agrees(seen) /\ seen.socket = c
      /\ seen.sm.state = "READY_TO_READ" /\ c # None
  BY <1>2, GetStateKeepsSlotOK, GetStateAgrees DEF HandleRead, MayRead, SlotOK
<1>4. /\ c \in Clients /\ inbox[c] \in Seq(Segments) /\ inbox \in [Clients -> Seq(Segments)]
      /\ requested[c] \in Seq(Segments) /\ accepted[c] \in Seq(Targets \X Nat)
  BY <1>3, SlotClients DEF Between, IInv, TypeOK
<1> DEFINE received == SubSeq(inbox[c], 1, n)
           rest     == SubSeq(inbox[c], n + 1, Len(inbox[c]))
           d        == ReadSocket(seen, received)
<1>5. received \in Seq(Segments) /\ rest \in Seq(Segments) /\ received \o rest = inbox[c]
  <2> DEFINE w == inbox[c]
  <2>1. w \in Seq(Segments) /\ Len(w) \in Nat /\ n \in 0 .. Len(w)
    BY <1>1, <1>4
  <2> HIDE DEF w
  <2>2. SubSeq(w, 1, n) \in Seq(Segments) /\ SubSeq(w, n + 1, Len(w)) \in Seq(Segments)
    BY <2>1
  <2>3. 1 \in 1 .. Len(w) + 1 /\ n \in 1 - 1 .. Len(w) /\ Len(w) \in n .. Len(w)
    BY <2>1
  <2>4. SubSeq(w, 1, n) \o SubSeq(w, n + 1, Len(w)) = SubSeq(w, 1, Len(w))
    BY <2>1, <2>3, ConcatAdjacentSubSeq
  <2>5. SubSeq(w, 1, Len(w)) = w
    BY <2>1, SubSeqFull
  <2> QED
    BY <2>2, <2>4, <2>5 DEF w
<1>6. conn' = [conn EXCEPT ![i] = d] /\ inbox' = [inbox EXCEPT ![c] = rest]
  BY <1>1, <1>2, <1>4
<1> HIDE DEF received, rest
<1>7. \A j \in Slots : /\ Unwritten(j) = conn[j].output
                       /\ Unwritten(j)' = conn'[j].output
  BY DEF HandleRead, Unwritten
<1>8. Serves(conn[i], requested[c], inbox[c], accepted[c] \o conn[i].output)
  BY <1>3, <1>7 DEF Serving, ServesAt
<1>9. Serves(seen, requested[c], received \o rest, accepted[c] \o seen.output)
  BY <1>2, <1>5, <1>8, GetStateServes
<1> HIDE DEF seen
<1>10. Serves(d, requested[c], rest, accepted[c] \o d.output)
  BY <1>3, <1>4, <1>5, <1>9, ReadSocketServes
<1>11. d.socket = c
  BY <1>3, <1>5, ReadSocketAdvances DEF Advances
<1> HIDE DEF d
<1>12. \A j \in Slots : conn'[j] = IF j = i THEN d ELSE conn[j]
  BY <1>2, <1>6
<1>13. \A b \in Clients : inbox'[b] = IF b = c THEN rest ELSE inbox[b]
  BY <1>4, <1>6
<1>14. UNCHANGED <<requested, accepted, client, backlog>> /\ SendsWithin'
  BY DEF HandleRead, SendsWithin
<1> HIDE DEF c
<1>15. Unwritten(i)' = d.output /\ inbox'[c] = rest
  BY <1>4, <1>7, <1>12, <1>13
<1>16. \A j \in Slots : j # i => Unwritten(j)' = Unwritten(j)
  BY <1>7, <1>12
<1>17. \A b \in Clients : b # d.socket => inbox'[b] = inbox[b]
  BY <1>11, <1>13
<1> QED
  BY <1>3, <1>6, <1>10, <1>11, <1>14, <1>15, <1>16, <1>17, OneSlotServes DEF c

LEMMA HandleWriteServes ==
    ASSUME Between, Serving, NEW i \in Slots, HandleWrite(i) PROVE Serving'
<1> DEFINE c    == conn[i].socket
           seen == GetState(conn[i])
           d    == Set(seen, "WRITING")
<1>1. /\ conn[i] \in Connections /\ SlotOK(conn[i], backlog)
      /\ conn \in [Slots -> Connections]
  BY SlotFacts DEF Between, IInv, TypeOK
<1>2. /\ seen \in Connections /\ SlotOK(seen, backlog) /\ seen.socket = c
      /\ seen.sm.state = "READY_TO_WRITE" /\ c # None /\ seen.handler # None
  BY <1>1, GetStateKeepsSlotOK DEF HandleWrite, MayWrite, SlotOK
<1>3. conn' = [conn EXCEPT ![i] = WriteBegin(seen)]
  BY <1>1 DEF HandleWrite
<1>4. \A j \in Slots : Unwritten(j) = conn[j].output
  BY DEF HandleWrite, Unwritten
<1>5. Serves(conn[i], requested[c], inbox[c], accepted[c] \o conn[i].output)
  BY <1>2, <1>4 DEF Serving, ServesAt
<1>6. Serves(seen, requested[c], inbox[c], accepted[c] \o seen.output)
  BY <1>1, <1>5, GetStateServes
<1> HIDE DEF seen
<1>7. d \in Connections /\ d.socket = c /\ d.handler # None
  BY <1>2, SetFields DEF ConnectionStates
<1>8. WriteBegin(seen) = d
  <2>1. d.socket = seen.socket /\ d.handler = seen.handler
    BY <1>2, SetFields DEF ConnectionStates
  <2> QED
    BY <1>2, <2>1 DEF WriteBegin
<1>9. Serves(d, requested[c], inbox[c], accepted[c] \o d.output)
  BY <1>2, <1>6, SetServes DEF ConnectionStates
<1>10. conn' = [conn EXCEPT ![i] = d]
  BY <1>3, <1>8
<1> HIDE DEF d
<1>11. \A j \in Slots : conn'[j] = IF j = i THEN d ELSE conn[j]
  BY <1>1, <1>10
<1>12. UNCHANGED <<requested, accepted, client, backlog, inbox>>
  BY DEF HandleWrite, clientVars
<1>13. /\ \A j \in Slots : Unwritten(j)' = conn'[j].output
       /\ SendsWithin'
  <2>1. CASE conn'[i].sm.state = "WRITING"
    <3>1. pc' = "write" /\ sent' = 0 /\ polled' = polled /\ NextPolled(i)'
      BY <2>1 DEF HandleWrite, NextPolled
    <3>2. \A j \in Slots : NextPolled(j)' => j = i
      BY <3>1, OneIsNext DEF NextPolled, HandleWrite
    <3>3. d.output \in Seq(Targets \X Nat) /\ conn'[i].output = d.output
      BY <1>7, <1>11, ConnectionFields
    <3>4. SubSeq(d.output, 0 + 1, Len(d.output)) = d.output /\ 0 <= Len(d.output)
      <4> DEFINE o == d.output
      <4>1. o \in Seq(Targets \X Nat)
        BY <3>3
      <4> HIDE DEF o
      <4>2. SubSeq(o, 1, Len(o)) = o /\ 0 <= Len(o)
        BY <4>1, SubSeqFull
      <4> QED
        BY <4>2 DEF o
    <3>5. Unwritten(i)' = conn'[i].output
      BY <3>1, <3>3, <3>4 DEF Unwritten
    <3>6. \A j \in Slots : j # i => Unwritten(j)' = conn'[j].output
      BY <3>2 DEF Unwritten
    <3>7. SendsWithin'
      BY <3>1, <3>2, <3>3, <3>4 DEF SendsWithin
    <3> QED
      BY <3>5, <3>6, <3>7
  <2>2. CASE conn'[i].sm.state # "WRITING"
    BY <2>2 DEF HandleWrite, Unwritten, SendsWithin
  <2> QED
    BY <2>1, <2>2
<1>14. Unwritten(i)' = d.output
  BY <1>11, <1>13
<1>15. \A j \in Slots : j # i => Unwritten(j)' = Unwritten(j)
  BY <1>4, <1>11, <1>13
<1> HIDE DEF c
<1> QED
  BY <1>2, <1>7, <1>9, <1>10, <1>12, <1>13, <1>14, <1>15, OneSlotServes DEF c

LEMMA HandleNothingServes ==
    ASSUME Between, Serving, NEW i \in Slots, HandleNothing(i) PROVE Serving'
<1> DEFINE c == conn[i].socket
           d == GetState(conn[i])
<1>1. conn[i] \in Connections /\ conn \in [Slots -> Connections]
  BY SlotFacts DEF Between, IInv, TypeOK
<1>2. conn' = [conn EXCEPT ![i] = d]
  BY <1>1 DEF HandleNothing
<1>3. d.socket = c
  BY <1>1, GetStateType
<1>4. \A j \in Slots : Unwritten(j) = conn[j].output /\ Unwritten(j)' = conn'[j].output
  BY DEF HandleNothing, Unwritten
<1>5. c # None => Serves(d, requested[c], inbox[c], accepted[c] \o d.output)
  <2>1. c # None => Serves(conn[i], requested[c], inbox[c], accepted[c] \o conn[i].output)
    BY <1>4 DEF Serving, ServesAt
  <2> QED
    BY <1>1, <2>1, GetStateServes
<1>6. d.output = conn[i].output
  BY <1>1 DEF GetState, Connections
<1> HIDE DEF d
<1>7. \A j \in Slots : conn'[j] = IF j = i THEN d ELSE conn[j]
  BY <1>1, <1>2
<1>8. UNCHANGED <<requested, accepted, client, backlog, inbox>> /\ SendsWithin'
  BY DEF HandleNothing, clientVars, SendsWithin
<1>9. \A j \in Slots : ServesAt(j)'
  BY <1>3, <1>4, <1>5, <1>7, <1>8 DEF Serving, ServesAt
<1>10. \A b \in Clients : Untouched(b)' /\ SentOne(b)'
  BY <1>8 DEF Serving, Untouched, SentOne, Answers
<1> QED
  BY <1>8, <1>9, <1>10 DEF Serving

LEMMA LeaveWriteServes ==
    ASSUME Between, Serving, NEW i \in Slots, Sending(i), LeaveWrite(i) PROVE Serving'
<1> DEFINE c == conn[i].socket
           d == WriteEnd(conn[i], sent)
<1>1. /\ conn[i] \in Connections /\ SlotOK(conn[i], backlog) /\ Agrees(conn[i])
      /\ conn \in [Slots -> Connections]
  BY SlotFacts DEF Between, IInv, TypeOK, AllAgree
<1>2. /\ conn[i].sm.state = "WRITING" /\ sent \in Nat /\ sent <= Len(conn[i].output)
      /\ c # None /\ conn[i].handler # None
  BY <1>1 DEF Between, IInv, TypeOK, SendLoop, Sending, SlotOK, Serving, SendsWithin
<1>3. accepted[c] \in Seq(Targets \X Nat)
  BY <1>2, SlotClients DEF Between
<1>4. Unwritten(i) = SubSeq(conn[i].output, sent + 1, Len(conn[i].output))
  BY DEF Unwritten, Sending
<1>5. \A j \in Slots : j # i => Unwritten(j) = conn[j].output
  BY OneIsNext DEF Unwritten, Sending
<1>6. \A j \in Slots : Unwritten(j)' = conn'[j].output
  BY DEF LeaveWrite, Unwritten
<1>7. Serves(d, requested[c], inbox[c], accepted[c] \o d.output)
  <2>1. Serves(conn[i], requested[c], inbox[c],
               accepted[c] \o SubSeq(conn[i].output, sent + 1, Len(conn[i].output)))
    BY <1>2, <1>4 DEF Serving, ServesAt
  <2> QED
    BY <1>1, <1>2, <1>3, <2>1, WriteEndServes
<1>8. d.socket = c
  BY <1>1, <1>2, WriteEndAdvances DEF Advances
<1>9. conn' = [conn EXCEPT ![i] = d]
  BY <1>1 DEF LeaveWrite
<1> HIDE DEF d
<1>10. \A j \in Slots : conn'[j] = IF j = i THEN d ELSE conn[j]
  BY <1>1, <1>9
<1>11. UNCHANGED <<requested, accepted, client, backlog, inbox>> /\ SendsWithin'
  BY DEF LeaveWrite, clientVars, SendsWithin
<1> HIDE DEF c
<1>12. Unwritten(i)' = d.output
  BY <1>6, <1>10
<1>13. \A j \in Slots : j # i => Unwritten(j)' = Unwritten(j)
  BY <1>5, <1>6, <1>10
<1> QED
  BY <1>2, <1>7, <1>8, <1>9, <1>11, <1>12, <1>13, OneSlotServes DEF c

\* A send() moves parts from what is unsent to what was accepted.
LEMMA SendServes ==
    ASSUME Between, Serving, NEW i \in Slots, Send(i) PROVE Serving'
<1> DEFINE c == conn[i].socket
           o == conn[i].output
<1>1. PICK n \in 1 .. Unsent(i) :
        /\ accepted' = [accepted EXCEPT ![c] = @ \o SubSeq(o, sent + 1, sent + n)]
        /\ sent' = sent + n
  BY DEF Send
<1>2. /\ conn[i] \in Connections /\ SlotOK(conn[i], backlog) /\ Agrees(conn[i])
      /\ o \in Seq(Targets \X Nat)
  BY SlotFacts, ConnectionFields DEF Between, IInv, TypeOK, AllAgree
<1>3. conn[i].sm.state = "WRITING" /\ sent \in Nat /\ c # None
  BY <1>2 DEF Between, IInv, TypeOK, SendLoop, Send, Sending, SlotOK
<1>4. /\ c \in Clients \ backlog /\ client[c] # "new" /\ requested[c] \in Seq(Segments)
      /\ accepted[c] \in Seq(Targets \X Nat) /\ accepted \in [Clients -> Seq(Targets \X Nat)]
      /\ \A j \in Slots : conn[j].socket = c => j = i
  BY <1>3, SlotClients DEF Between, IInv, TypeOK
<1> HIDE DEF o
<1>5. n \in Nat /\ sent + n <= Len(o) /\ Len(o) \in Nat /\ sent + n \in Nat
  BY <1>1, <1>2, <1>3 DEF Unsent, o
<1>6. UNCHANGED <<conn, pc, polled, requested, client, backlog, inbox>> /\ Sending(i)
  BY DEF Send
<1>7. Unwritten(i) = SubSeq(o, sent + 1, Len(o))
  BY <1>6 DEF Unwritten, Sending, o
<1>8. Unwritten(i)' = SubSeq(o, sent + n + 1, Len(o))
  BY <1>1, <1>6 DEF Unwritten, Sending, NextPolled, o
<1>9. \A j \in Slots : j # i => Unwritten(j) = conn[j].output /\ Unwritten(j)' = conn[j].output
  <2>1. \A j \in Slots : j # i => ~NextPolled(j)
    BY <1>6, OneIsNext DEF Sending
  <2> QED
    BY <1>6, <2>1 DEF Unwritten, NextPolled
<1> DEFINE more == SubSeq(o, sent + 1, sent + n)
<1>10. more \in Seq(Targets \X Nat)
  BY <1>2, <1>3, <1>5 DEF o
<1>11. (accepted[c] \o more) \o Unwritten(i)' = accepted[c] \o Unwritten(i)
  <2> DEFINE acc == accepted[c]
  <2>1. acc \in Seq(Targets \X Nat) /\ o \in Seq(Targets \X Nat)
    BY <1>2, <1>4 DEF o
  <2> HIDE DEF acc, more
  <2>2. (acc \o SubSeq(o, sent + 1, sent + n)) \o SubSeq(o, sent + n + 1, Len(o))
          = acc \o SubSeq(o, sent + 1, Len(o))
    <3>1. sent \in Nat /\ n \in Nat /\ sent + n <= Len(o)
      BY <1>3, <1>5
    <3>2. \A m, k \in Nat : m + k <= Len(o) =>
            (acc \o SubSeq(o, m + 1, m + k)) \o SubSeq(o, m + k + 1, Len(o))
              = acc \o SubSeq(o, m + 1, Len(o))
      BY <2>1, SendMoves
    <3> QED
      BY <3>1, <3>2
  <2> QED
    BY <1>7, <1>8, <2>2 DEF acc, more
<1> HIDE DEF more
<1>12. accepted'[c] = accepted[c] \o more /\ \A b \in Clients : b # c => accepted'[b] = accepted[b]
  BY <1>1, <1>4 DEF more
<1>13. Serves(conn[i], requested[c], inbox[c], accepted'[c] \o Unwritten(i)')
  BY <1>3, <1>11, <1>12 DEF Serving, ServesAt
<1> HIDE DEF c
<1>14. ASSUME NEW j \in Slots PROVE ServesAt(j)'
  <2>1. CASE j = i
    BY <1>6, <1>13, <2>1 DEF ServesAt, c
  <2>2. CASE j # i
    <3>1. ServesAt(j) /\ Unwritten(j)' = Unwritten(j) /\ conn[j].socket # c
      BY <1>4, <1>9, <2>2 DEF Serving
    <3>2. conn[j].socket # None => accepted'[conn[j].socket] = accepted[conn[j].socket]
      BY <1>12, <3>1, SlotClients DEF Between
    <3> QED
      BY <1>6, <3>1, <3>2 DEF ServesAt
  <2> QED
    BY <2>1, <2>2
<1>15. \E a \in Answers(c) : IsPrefix(accepted'[c], a)
  <2>1. PICK a \in Answers(c) : IsPrefix(accepted'[c] \o Unwritten(i)', a)
    BY <1>2, <1>4, <1>13, ServesBegins DEF Answers
  <2>2. a \in Seq(Targets \X Nat)
    BY <1>4, AnswersType DEF Answers
  <2>3. Unwritten(i)' \in Seq(Targets \X Nat)
    BY <1>2, <1>5, <1>8 DEF o
  <2>4. accepted'[c] \in Seq(Targets \X Nat)
    BY <1>4, <1>10, <1>12
  <2> QED
    BY <2>1, <2>2, <2>3, <2>4, PrefixOfConcat
<1>16. ASSUME NEW b \in Clients PROVE Untouched(b)' /\ SentOne(b)'
  <2>1. CASE b = c
    BY <1>4, <1>6, <1>15, <2>1 DEF Untouched, SentOne, Answers
  <2>2. CASE b # c
    BY <1>6, <1>12, <2>2 DEF Serving, Untouched, SentOne, Answers
  <2> QED
    BY <2>1, <2>2
<1>17. SendsWithin'
  <2>1. \A j \in Slots : NextPolled(j)' => j = i
    BY <1>6, OneIsNext DEF Sending, NextPolled
  <2> QED
    BY <1>1, <1>5, <1>6, <2>1 DEF SendsWithin, o
<1> QED
  BY <1>14, <1>16, <1>17 DEF Serving

LEMMA AcceptServes ==
    ASSUME Between, Serving, Accept PROVE Serving'
<1> DEFINE fd == CHOOSE d \in FreeDescriptors : \A e \in FreeDescriptors : d <= e
<1>1. /\ UNCHANGED <<requested, inbox, accepted, client>> /\ backlog' \subseteq backlog
      /\ SendsWithin'
  BY DEF Accept, SendsWithin
<1>2. \A j \in Slots : Unwritten(j) = conn[j].output /\ Unwritten(j)' = conn'[j].output
  BY DEF Accept, Unwritten
<1>3. \A b \in Clients : Untouched(b)' /\ SentOne(b)'
  BY <1>1 DEF Serving, Untouched, SentOne, Answers
<1>4. CASE UNCHANGED conn
  <2>1. \A j \in Slots : ServesAt(j)'
    BY <1>1, <1>2, <1>4 DEF Serving, ServesAt
  <2> QED
    BY <1>1, <1>3, <2>1 DEF Serving
<1>5. CASE conn' # conn
  <2>1. FreeDescriptors # {}
    BY <1>5 DEF Accept
  <2>2. fd \in FreeDescriptors
    BY <2>1, LowestDescriptor, ServerAssumption DEF FreeDescriptors
  <2>3. PICK c \in backlog :
          fd \in Slots /\ conn' = [conn EXCEPT ![fd] = record_connection(@, c)]
    BY <1>5 DEF Accept
  <2> HIDE DEF fd
  <2>4. c \in Clients /\ conn[fd] \in Connections /\ conn \in [Slots -> Connections]
    BY <2>3 DEF Between, IInv, TypeOK
  <2>5. Clean(conn[fd]) /\ conn[fd].socket = None
    BY <2>2, <2>3, CleanBySlot DEF FreeDescriptors, Between
  <2>6. inbox[c] = requested[c] /\ accepted[c] = << >> /\ requested[c] \in Seq(Segments)
    BY <2>3, <2>4 DEF Serving, Untouched, Between, IInv, TypeOK
  <2> DEFINE d == record_connection(conn[fd], c)
  <2>7. Serves(d, requested[c], inbox[c], accepted[c] \o d.output) /\ d.socket = c
    BY <2>4, <2>5, <2>6, RecordServes, RecordConnection
  <2>8. conn' = [conn EXCEPT ![fd] = d]
    BY <2>3, <2>4
  <2> HIDE DEF d
  <2>9. \A j \in Slots : conn'[j] = IF j = fd THEN d ELSE conn[j]
    BY <2>4, <2>8
  <2>10. ASSUME NEW j \in Slots PROVE ServesAt(j)'
    <3>1. CASE j = fd
      BY <1>1, <1>2, <2>7, <2>9, <3>1 DEF ServesAt
    <3>2. CASE j # fd
      BY <1>1, <1>2, <2>9, <3>2 DEF Serving, ServesAt
    <3> QED
      BY <3>1, <3>2
  <2> QED
    BY <1>1, <1>3, <2>10 DEF Serving
<1> QED
  BY <1>4, <1>5

LEMMA SetupAndPollServes ==
    ASSUME Between, Serving, SetupAndPoll PROVE Serving'
<1>1. UNCHANGED <<requested, inbox, accepted, client, backlog>> /\ SendsWithin'
  BY DEF SetupAndPoll, clientVars, SendsWithin
<1>2. \A j \in Slots : Unwritten(j) = conn[j].output /\ Unwritten(j)' = conn'[j].output
  BY DEF SetupAndPoll, Unwritten
<1>3. ASSUME NEW j \in Slots PROVE ServesAt(j)'
  <2> DEFINE d == GetState(conn[j])
  <2>1. conn'[j] = d /\ conn[j] \in Connections
    BY SlotFacts DEF SetupAndPoll, Between
  <2>2. d.socket = conn[j].socket /\ d.output = conn[j].output
    BY <2>1, GetStateType DEF GetState, Connections
  <2>3. conn[j].socket # None =>
          LET c == conn[j].socket
          IN  Serves(d, requested[c], inbox[c], accepted[c] \o d.output)
    BY <1>2, <2>1, <2>2, GetStateServes DEF Serving, ServesAt
  <2> HIDE DEF d
  <2> QED
    BY <1>1, <1>2, <2>1, <2>2, <2>3 DEF ServesAt
<1>4. \A b \in Clients : Untouched(b)' /\ SentOne(b)'
  BY <1>1 DEF Serving, Untouched, SentOne, Answers
<1> QED
  BY <1>1, <1>3, <1>4 DEF Serving

LEMMA CleanUpServes ==
    ASSUME Between, Serving, CleanUp PROVE Serving'
<1>1. UNCHANGED <<requested, accepted, client, backlog>> /\ SendsWithin'
  BY DEF CleanUp, SendsWithin
<1>2. \A j \in Slots : Unwritten(j) = conn[j].output /\ Unwritten(j)' = conn'[j].output
  BY DEF CleanUp, Unwritten
<1>3. PICK late \in SUBSET Slots :
        conn' = [i \in Slots |-> CleanUpOne(conn[i], i \in late)]
  BY DEF CleanUp
<1>4. \A c \in Clients :
        inbox'[c] = IF \E i \in Slots : conn[i].socket = c /\ conn'[i].socket = None
                    THEN << >> ELSE inbox[c]
  BY DEF CleanUp
<1>5. ASSUME NEW j \in Slots, conn'[j].socket # None PROVE ServesAt(j)'
  <2> DEFINE c == conn[j].socket
             d == CleanUpOne(conn[j], j \in late)
  <2>1. conn'[j] = d /\ (j \in late) \in BOOLEAN
    BY <1>3
  <2>2. conn[j] \in Connections /\ SlotOK(conn[j], backlog) /\ Agrees(conn[j])
    BY SlotFacts DEF Between, AllAgree
  <2>3. None \notin backlog
    BY HandlersAreNotNone DEF Between, IInv, TypeOK
  <2>4. d.socket = c /\ c # None
    BY <1>5, <2>1, <2>2, <2>3, CleanUpOneKeepsSlotOK
  <2>5. /\ c \in Clients /\ requested[c] \in Seq(Segments) /\ inbox[c] \in Seq(Segments)
        /\ accepted[c] \in Seq(Targets \X Nat)
        /\ \A i \in Slots : conn[i].socket = c => i = j
    BY <2>4, SlotClients DEF Between
  <2>6. Serves(conn[j], requested[c], inbox[c], accepted[c] \o conn[j].output)
    BY <1>2, <2>4 DEF Serving, ServesAt
  <2>7. Serves(d, requested[c], inbox[c], accepted[c] \o d.output)
    BY <2>1, <2>2, <2>4, <2>5, <2>6, CleanUpOneServes
  <2> HIDE DEF d
  <2>8. inbox'[c] = inbox[c]
    BY <1>4, <1>5, <2>5
  <2> HIDE DEF c
  <2> QED
    BY <1>1, <1>2, <2>1, <2>4, <2>7, <2>8 DEF ServesAt
<1>6. ASSUME NEW b \in Clients PROVE Untouched(b)' /\ SentOne(b)'
  <2>1. client[b] = "new" \/ b \in backlog => \A i \in Slots : conn[i].socket # b
    BY SlotClients, HandlersAreNotNone DEF Between
  <2> QED
    BY <1>1, <1>4, <2>1 DEF Serving, Untouched, SentOne, Answers
<1> QED
  BY <1>1, <1>5, <1>6 DEF Serving, ServesAt

\* The other steps of the loop and of the clients change no connection, and what they
\* change of a client is not what it was sent.
LEMMA RestServes ==
    ASSUME Between, Serving, UNCHANGED <<conn, requested, inbox, accepted, sent, polled>>,
           pc' = pc \/ (pc # "write" /\ pc' # "write"),
           \A c \in Clients : (client'[c] = "new" \/ c \in backlog') =>
                                (client[c] = "new" \/ c \in backlog)
    PROVE  Serving'
<1>1. \A j \in Slots : Unwritten(j)' = Unwritten(j)
  BY DEF Unwritten, NextPolled
<1>2. \A j \in Slots : ServesAt(j)'
  BY <1>1 DEF Serving, ServesAt
<1>3. \A b \in Clients : Untouched(b)' /\ SentOne(b)'
  BY DEF Serving, Untouched, SentOne, Answers
<1>4. SendsWithin'
  BY DEF Serving, SendsWithin, NextPolled
<1> QED
  BY <1>2, <1>3, <1>4 DEF Serving

LEMMA ClientServes ==
    ASSUME Between, Serving, NEW c \in Clients, Connect(c) \/ Leave(c) \/ Receive(c)
    PROVE  Serving'
<1>1. UNCHANGED <<conn, requested, inbox, accepted, sent, polled, pc>>
  BY DEF Connect, Leave, Receive, serverVars
<1>2. ASSUME NEW b \in Clients, client'[b] = "new" \/ b \in backlog'
      PROVE  client[b] = "new" \/ b \in backlog
  BY <1>2 DEF Connect, Leave, Receive, Between, IInv, TypeOK
<1> QED
  BY <1>1, <1>2, RestServes

LEMMA SendSegmentServes ==
    ASSUME Between, Serving, NEW c \in Clients, SendSegment(c) PROVE Serving'
<1>1. PICK s \in ClientSegments :
        /\ requested' = [requested EXCEPT ![c] = Append(@, s)]
        /\ inbox' = [inbox EXCEPT ![c] = Append(@, s)]
  BY DEF SendSegment
<1>2. s \in Segments
  BY ServerAssumption
<1>3. /\ requested \in [Clients -> Seq(Segments)] /\ inbox \in [Clients -> Seq(Segments)]
      /\ requested[c] \in Seq(Segments) /\ inbox[c] \in Seq(Segments)
      /\ accepted[c] \in Seq(Targets \X Nat)
  BY DEF Between, IInv, TypeOK
<1>4. /\ requested'[c] = Append(requested[c], s) /\ inbox'[c] = Append(inbox[c], s)
      /\ \A b \in Clients : b # c => requested'[b] = requested[b] /\ inbox'[b] = inbox[b]
      /\ requested' \in [Clients -> Seq(Segments)]
  <2>1. Append(requested[c], s) \in Seq(Segments)
    BY <1>2, <1>3, AppendProperties
  <2> QED
    BY <1>1, <1>3, <2>1
<1>5. UNCHANGED <<conn, pc, polled, sent, client, backlog, accepted>>
  BY DEF SendSegment, serverVars
<1>6. \A j \in Slots : Unwritten(j)' = Unwritten(j)
  BY <1>5 DEF Unwritten, NextPolled
<1>7. ASSUME NEW j \in Slots PROVE ServesAt(j)'
  <2>1. CASE conn[j].socket = c
    <3>1. c # None
      BY HandlersAreNotNone
    <3>2. Serves(conn[j], requested[c], inbox[c], accepted[c] \o Unwritten(j))
      BY <2>1, <3>1 DEF Serving, ServesAt
    <3>3. Serves(conn[j], requested'[c], inbox'[c], accepted[c] \o Unwritten(j))
      BY <1>2, <1>3, <1>4, <3>2, ServesMore
    <3> QED
      BY <1>5, <1>6, <2>1, <3>3 DEF ServesAt
  <2>2. CASE conn[j].socket # c
    <3>1. conn[j].socket # None => conn[j].socket \in Clients
      BY SlotClients DEF Between
    <3> QED
      BY <1>4, <1>5, <1>6, <2>2, <3>1 DEF Serving, ServesAt
  <2> QED
    BY <2>1, <2>2
<1>8. \E a \in AnswersTo(requested'[c]) : IsPrefix(accepted[c], a)
  <2>1. CASE requested[c] = << >>
    <3>1. PICK a \in AnswersTo(requested[c]) : IsPrefix(accepted[c], a)
      BY DEF Serving, SentOne, Answers
    <3>2. a = << >>
      BY <2>1, <3>1 DEF AnswersTo
    <3>3. accepted[c] = << >>
      <4>1. Len(accepted[c]) <= 0 /\ Len(accepted[c]) \in Nat
        BY <1>3, <3>1, <3>2 DEF IsPrefix
      <4> QED
        BY <1>3, <4>1, EmptySeq
    <3>4. PICK b \in AnswersTo(requested'[c]) : b \in Seq(Targets \X Nat)
      BY <1>4, AnswersType
    <3> QED
      BY <3>3, <3>4, PrefixOfItself
  <2>2. CASE requested[c] # << >>
    <3>1. AnswersTo(requested[c]) \subseteq AnswersTo(requested'[c])
      BY <1>2, <1>3, <1>4, <2>2, AnswersGrow
    <3> QED
      BY <3>1 DEF Serving, SentOne, Answers
  <2> QED
    BY <2>1, <2>2
<1>9. ASSUME NEW b \in Clients PROVE Untouched(b)' /\ SentOne(b)'
  <2>1. CASE b = c
    BY <1>4, <1>5, <1>8, <2>1 DEF Serving, Untouched, SentOne, Answers
  <2>2. CASE b # c
    BY <1>4, <1>5, <2>2 DEF Serving, Untouched, SentOne, Answers
  <2> QED
    BY <2>1, <2>2
<1>10. SendsWithin'
  BY <1>5 DEF Serving, SendsWithin, NextPolled
<1> QED
  BY <1>7, <1>9, <1>10 DEF Serving

LEMMA TickServes ==
    ASSUME Between, Serving, NEW i \in Slots, Tick(i) PROVE Serving'
<1> DEFINE m == CSM!Elapsed(conn[i].sm)
           d == [conn[i] EXCEPT !.sm = m]
<1>1. conn[i] \in Connections /\ conn \in [Slots -> Connections]
  BY SlotFacts DEF Between, IInv, TypeOK
<1>2. m.state = conn[i].sm.state
  <2>1. \A o \in CSM!Machine : CSM!Elapsed(o).state = o.state
    BY DEF CSM!Elapsed, CSM!Machine
  <2> QED
    BY <1>1, <2>1, ConnectionFields
<1>3. conn' = [conn EXCEPT ![i] = d]
  BY DEF Tick
<1> HIDE DEF m
<1>4. /\ d.sm = m /\ d.handler = conn[i].handler /\ d.output = conn[i].output
      /\ d.socket = conn[i].socket /\ d.measured = conn[i].measured
      /\ d.input = conn[i].input
  BY <1>1 DEF Connections
<1> HIDE DEF d
<1>5. \A j \in Slots : conn'[j] = IF j = i THEN d ELSE conn[j]
  BY <1>1, <1>3
<1>6. \A j \in Slots : conn'[j].output = conn[j].output /\ conn'[j].socket = conn[j].socket
  BY <1>4, <1>5
<1>7. UNCHANGED <<pc, polled, sent, client, backlog, requested, inbox, accepted>>
  BY DEF Tick, clientVars
<1>8. \A j \in Slots : Unwritten(j)' = Unwritten(j)
  BY <1>6, <1>7 DEF Unwritten, NextPolled
<1>9. ASSUME NEW j \in Slots PROVE ServesAt(j)'
  <2>1. CASE j = i
    <3>1. \A asked, unread, got :
            Serves(conn[i], asked, unread, got) => Serves(d, asked, unread, got)
      BY <1>2, <1>4, MachineServes
    <3> QED
      BY <1>4, <1>5, <1>7, <1>8, <2>1, <3>1 DEF Serving, ServesAt
  <2>2. CASE j # i
    BY <1>5, <1>7, <1>8, <2>2 DEF Serving, ServesAt
  <2> QED
    BY <2>1, <2>2
<1>10. \A b \in Clients : Untouched(b)' /\ SentOne(b)'
  BY <1>7 DEF Serving, Untouched, SentOne, Answers
<1>11. SendsWithin'
  BY <1>6, <1>7 DEF Serving, SendsWithin, NextPolled
<1> QED
  BY <1>9, <1>10, <1>11 DEF Serving

LEMMA StepServes == Between /\ Serving /\ [Next]_vars => Serving'
<1> SUFFICES ASSUME Between, Serving, [Next]_vars PROVE Serving'
  OBVIOUS
<1>1. CASE Server
  <2>1. ASSUME NEW i \in Slots, BrokenPipe(i) PROVE Serving'
    <3>1. UNCHANGED <<conn, requested, inbox, accepted, sent, polled, pc, client, backlog>>
      BY <2>1 DEF BrokenPipe, clientVars
    <3> QED
      BY <3>1, RestServes
  <2>2. NothingToAccept \/ EndOfRound => Serving'
    <3> SUFFICES ASSUME NothingToAccept \/ EndOfRound PROVE Serving'
      OBVIOUS
    <3>1. /\ UNCHANGED <<conn, requested, inbox, accepted, sent, polled, client, backlog>>
          /\ pc # "write" /\ pc' # "write"
      BY DEF NothingToAccept, EndOfRound, clientVars
    <3> QED
      BY <3>1, RestServes
  <2>3. \A i \in Slots : SendFails(i) \/ AllSent(i) => Sending(i) /\ LeaveWrite(i)
    BY DEF SendFails, AllSent
  <2> QED
    BY <1>1, <2>1, <2>2, <2>3, SetupAndPollServes, AcceptServes, CleanUpServes,
       HandleReadServes, HandleWriteServes, HandleNothingServes, SendServes, LeaveWriteServes
       DEF Server
<1>2. CASE Environment
  BY <1>2, ClientServes, SendSegmentServes, TickServes DEF Environment
<1>3. CASE UNCHANGED vars
  <2>1. UNCHANGED <<conn, requested, inbox, accepted, sent, polled, pc, client, backlog>>
    BY <1>3 DEF vars, serverVars, clientVars
  <2> QED
    BY <2>1, RestServes
<1> QED
  BY <1>1, <1>2, <1>3 DEF Next

LEMMA ServingHolds == Spec => [](Between /\ Serving)
<1>1. IInv /\ NothingLeftBehind /\ AllAgree <=> Between
  BY DEF Between
<1> QED
  BY <1>1, InvariantHolds, NothingIsLeftBehind, AgreementHolds, InitServes, StepServes, PTL
     DEF Spec

-----------------------------------------------------------------------------
(* The theorems *)

\* The one slot that holds something for a client.
LEMMA HeldBySlot ==
    ASSUME IInv, NEW i \in Slots, conn[i].socket # None
    PROVE  Held(conn[i].socket) = Unwritten(i)
<1> DEFINE c == conn[i].socket
           j == CHOOSE k \in Slots : conn[k].socket = c
<1>1. j \in Slots /\ conn[j].socket = c
  OBVIOUS
<1>2. j = i
  BY <1>1, SlotClients
<1>3. Owned(c)
  BY DEF Owned
<1> QED
  BY <1>2, <1>3 DEF Held

LEMMA ServingIsIntegrity == Between /\ Serving => ResponseIntegrity
<1> SUFFICES ASSUME Between, Serving, NEW c \in Clients
             PROVE  \E a \in Answers(c) : IsPrefix(accepted[c] \o Held(c), a)
  BY DEF ResponseIntegrity
<1>1. accepted[c] \in Seq(Targets \X Nat) /\ c # None
  BY HandlersAreNotNone DEF Between, IInv, TypeOK
<1>2. CASE Owned(c)
  <2>1. PICK i \in Slots : conn[i].socket = c
    BY <1>2 DEF Owned
  <2>2. Held(c) = Unwritten(i)
    BY <1>1, <2>1, HeldBySlot DEF Between
  <2>3. Serves(conn[i], requested[c], inbox[c], accepted[c] \o Unwritten(i))
    BY <1>1, <2>1 DEF Serving, ServesAt
  <2>4. conn[i] \in Connections /\ Agrees(conn[i]) /\ requested[c] \in Seq(Segments)
    BY SlotFacts DEF Between, AllAgree, IInv, TypeOK
  <2> QED
    BY <2>2, <2>3, <2>4, ServesBegins DEF Answers
<1>3. CASE ~Owned(c)
  <2>1. accepted[c] \o Held(c) = accepted[c]
    BY <1>1, <1>3, NothingMore DEF Held
  <2> QED
    BY <2>1 DEF Serving, SentOne
<1> QED
  BY <1>2, <1>3

\* However the sends of a response are cut up, fail and are retried, over however many
\* calls of its handler and rounds of the loop, and whatever the client had sent when it
\* was read, a client is sent the parts of one answer to its first request, in order and
\* without a gap (tcp_connection.cpp:184-236, http.cpp:42-105).
THEOREM ResponsesAreWhole == Spec => []ResponseIntegrity
<1> QED
  BY ServingHolds, ServingIsIntegrity, PTL

-----------------------------------------------------------------------------
(* What is measured *)

\* A step that leaves every slot to the client it serves.
OwnersStay == \A j \in Slots : conn'[j].socket = conn[j].socket

LEMMA OneSlotKeepsOwners ==
    ASSUME IInv, NEW i \in Slots, NEW d, conn' = [conn EXCEPT ![i] = d],
           d.socket = conn[i].socket
    PROVE  OwnersStay
BY DEF IInv, TypeOK, OwnersStay

LEMMA HandleKeepsOwners ==
    ASSUME IInv, NEW i \in Slots, HandleRead(i) \/ HandleWrite(i) \/ HandleNothing(i)
    PROVE  OwnersStay
<1> DEFINE seen == GetState(conn[i])
           c    == conn[i].socket
<1>1. conn[i] \in Connections /\ SlotOK(conn[i], backlog) /\ conn \in [Slots -> Connections]
  BY SlotFacts DEF IInv, TypeOK
<1>2. seen \in Connections /\ SlotOK(seen, backlog) /\ seen.socket = c
  BY <1>1, GetStateKeepsSlotOK
<1>3. CASE HandleRead(i)
  <2>1. PICK n \in 0 .. Len(inbox[c]) :
          conn' = [conn EXCEPT ![i] = ReadSocket(GetState(@), SubSeq(inbox[c], 1, n))]
    BY <1>3 DEF HandleRead
  <2> DEFINE received == SubSeq(inbox[c], 1, n)
             d        == ReadSocket(seen, received)
  <2>2. c # None
    BY <1>2, <1>3 DEF HandleRead, MayRead, SlotOK
  <2>3. inbox[c] \in Seq(Segments)
    BY <1>1, <2>2, ConnectionFields DEF IInv, TypeOK
  <2>4. received \in Seq(Segments)
    BY <2>1, <2>3
  <2>5. conn' = [conn EXCEPT ![i] = d]
    BY <1>1, <2>1
  <2> HIDE DEF received, seen
  <2>6. d.socket = c
    BY <1>2, <2>4, ReadSocketAdvances DEF Advances
  <2> HIDE DEF d
  <2> QED
    BY <2>5, <2>6, OneSlotKeepsOwners
<1>4. CASE HandleWrite(i)
  <2> DEFINE d == WriteBegin(seen)
  <2>1. conn' = [conn EXCEPT ![i] = d]
    BY <1>1, <1>4 DEF HandleWrite
  <2> HIDE DEF seen
  <2>2. d.socket = c
    BY <1>2, WriteBeginAdvances DEF Advances
  <2> HIDE DEF d
  <2> QED
    BY <2>1, <2>2, OneSlotKeepsOwners
<1>5. CASE HandleNothing(i)
  <2>1. conn' = [conn EXCEPT ![i] = seen]
    BY <1>1, <1>5 DEF HandleNothing
  <2> HIDE DEF seen
  <2> QED
    BY <1>2, <2>1, OneSlotKeepsOwners
<1> QED
  BY <1>3, <1>4, <1>5

LEMMA LeaveWriteKeepsOwners ==
    ASSUME IInv, NEW i \in Slots, Sending(i), LeaveWrite(i)
    PROVE  OwnersStay
<1> DEFINE d == WriteEnd(conn[i], sent)
<1>1. conn[i] \in Connections /\ conn \in [Slots -> Connections]
  BY SlotFacts DEF IInv, TypeOK
<1>2. conn[i].sm.state = "WRITING" /\ sent \in Nat
  BY DEF IInv, TypeOK, SendLoop, Sending
<1>3. d.socket = conn[i].socket
  BY <1>1, <1>2, WriteEndAdvances DEF Advances
<1>4. conn' = [conn EXCEPT ![i] = d]
  BY <1>1 DEF LeaveWrite
<1> HIDE DEF d
<1> QED
  BY <1>3, <1>4, OneSlotKeepsOwners

\* Only accept and clean_up give a slot to a client or take it away.
LEMMA RestKeepsOwners ==
    ASSUME IInv, [Next]_vars, ~Accept, ~CleanUp PROVE OwnersStay
<1>1. CASE UNCHANGED conn
  BY <1>1 DEF OwnersStay
<1>2. CASE SetupAndPoll
  <2>1. \A j \in Slots : conn'[j] = GetState(conn[j]) /\ conn[j] \in Connections
    BY <1>2, SlotFacts DEF SetupAndPoll
  <2> QED
    BY <2>1, GetStateType DEF OwnersStay
<1>3. ASSUME NEW i \in Slots, Tick(i) PROVE OwnersStay
  <2> DEFINE d == [conn[i] EXCEPT !.sm = CSM!Elapsed(conn[i].sm)]
  <2>1. d.socket = conn[i].socket
    BY SlotFacts DEF Connections
  <2>2. conn' = [conn EXCEPT ![i] = d]
    BY <1>3 DEF Tick
  <2> HIDE DEF d
  <2> QED
    BY <2>1, <2>2, OneSlotKeepsOwners
<1>4. CASE Server
  <2>1. \A i \in Slots : Send(i) \/ BrokenPipe(i) => UNCHANGED conn
    BY DEF Send, BrokenPipe
  <2>2. NothingToAccept \/ EndOfRound => UNCHANGED conn
    BY DEF NothingToAccept, EndOfRound
  <2>3. \A i \in Slots : SendFails(i) \/ AllSent(i) => Sending(i) /\ LeaveWrite(i)
    BY DEF SendFails, AllSent
  <2> QED
    BY <1>1, <1>2, <1>4, <2>1, <2>2, <2>3, HandleKeepsOwners, LeaveWriteKeepsOwners
       DEF Server
<1>5. CASE Environment
  <2>1. \A c \in Clients :
          Connect(c) \/ SendSegment(c) \/ Receive(c) \/ Leave(c) => UNCHANGED conn
    BY DEF Connect, SendSegment, Receive, Leave, serverVars
  <2> QED
    BY <1>1, <1>3, <1>5, <2>1 DEF Environment
<1>6. CASE UNCHANGED vars
  BY <1>1, <1>6 DEF vars, serverVars
<1> QED
  BY <1>4, <1>5, <1>6 DEF Next

\* accept() hands out a slot that has no socket.
LEMMA AcceptGives ==
    ASSUME IInv, Accept, conn' # conn
    PROVE  \E i \in Slots, c \in backlog :
              /\ conn[i].socket = None /\ c # None
              /\ conn'[i].socket = c
              /\ \A j \in Slots \ {i} : conn'[j] = conn[j]
              /\ backlog' = backlog \ {c}
<1> DEFINE fd == CHOOSE d \in FreeDescriptors : \A e \in FreeDescriptors : d <= e
<1>1. FreeDescriptors # {}
  BY DEF Accept
<1>2. fd \in FreeDescriptors
  BY <1>1, LowestDescriptor, ServerAssumption DEF FreeDescriptors
<1>3. PICK c \in backlog :
        /\ fd \in Slots /\ conn' = [conn EXCEPT ![fd] = record_connection(@, c)]
        /\ backlog' = backlog \ {c}
  BY <1>1 DEF Accept
<1> HIDE DEF fd
<1>4. c \in Clients /\ c # None /\ conn[fd] \in Connections /\ conn \in [Slots -> Connections]
  BY <1>3, HandlersAreNotNone DEF IInv, TypeOK
<1> DEFINE d == record_connection(conn[fd], c)
<1>5. d.socket = c
  BY <1>4, RecordConnection
<1>6. conn' = [conn EXCEPT ![fd] = d]
  BY <1>3, <1>4
<1> HIDE DEF d
<1>7. conn'[fd].socket = c /\ \A j \in Slots \ {fd} : conn'[j] = conn[j]
  BY <1>3, <1>4, <1>5, <1>6
<1>8. conn[fd].socket = None
  BY <1>2, <1>3 DEF FreeDescriptors
<1> QED
  BY <1>3, <1>4, <1>7, <1>8

\* Looking at the time once more changes nothing.
LEMMA LookingAgain ==
    ASSUME NEW c \in Connections
    PROVE  GetState(GetState(c)) = GetState(c)
<1> DEFINE m == CSM!Observed(c.sm)
<1>1. ~CSM!TimedOut(m)
  BY DEF CSM!Observed, CSM!SetState, CSM!Doomed, CSM!TimedOut, CSM!Entered
<1>2. CSM!Observed(m) = m
  BY <1>1 DEF CSM!Observed
<1>3. GetState(c) = [c EXCEPT !.sm = m]
  BY DEF GetState
<1> HIDE DEF m
<1>4. [c EXCEPT !.sm = m].sm = m
  BY DEF Connections
<1>5. GetState(GetState(c)) = [[c EXCEPT !.sm = m] EXCEPT !.sm = m]
  BY <1>2, <1>3, <1>4 DEF GetState
<1> QED
  BY <1>3, <1>5 DEF Connections

\* halt() ends the measurement of a connection that is done and cancels that of one in
\* error.
LEMMA HaltMeasures ==
    ASSUME NEW c \in Connections, NEW ranOut \in BOOLEAN
    PROVE  LET seen == GetState(c)
           IN  halt(c, ranOut).measured =
                 IF seen.sm.state = "DONE" /\ seen.timing THEN seen.measured + 1
                 ELSE seen.measured
<1> DEFINE seen    == GetState(c)
           cleared == [seen EXCEPT !.sm = CSM!Cleared]
           settled == CASE seen.sm.state = "CONNECTION_ERROR" -> TimerCancel(cleared)
                        [] seen.sm.state = "DONE" -> TimerEnd(seen)
                        [] OTHER -> seen
           late    == IF ranOut THEN [settled EXCEPT !.sm.age = StateTimeOut] ELSE settled
           idle    == Set(late, "INACTIVE")
           n       == IF seen.sm.state = "DONE" /\ seen.timing THEN seen.measured + 1
                      ELSE seen.measured
<1>1. seen \in Connections
  BY GetStateType
<1>2. cleared \in Connections /\ cleared.measured = seen.measured
  <2>1. CSM!Cleared \in CSM!Machine
    BY DEF CSM!Cleared, CSM!Entered, CSM!Machine, ConnectionStates
  <2> QED
    BY <1>1, <2>1 DEF Connections
<1>3. settled \in Connections /\ settled.measured = n
  <2> HIDE DEF seen
  <2>1. TimerCancel(cleared) \in Connections /\ TimerCancel(cleared).measured = seen.measured
    <3> HIDE DEF cleared
    <3> QED
      BY <1>2, TimerType DEF TimerCancel, Connections
  <2>2. /\ TimerEnd(seen) \in Connections
        /\ TimerEnd(seen).measured = IF seen.timing THEN seen.measured + 1 ELSE seen.measured
    BY <1>1, TimerType DEF TimerEnd, Connections
  <2> HIDE DEF cleared
  <2> QED
    BY <1>1, <2>1, <2>2
<1>4. halt(c, ranOut) = [idle EXCEPT !.input = << >>, !.output = << >>, !.socket = None]
  BY DEF halt
<1> HIDE DEF settled
<1>5. late \in Connections /\ late.measured = settled.measured
  <2>1. [settled.sm EXCEPT !.age = StateTimeOut] \in CSM!Machine
    BY <1>3, ConnectionFields, ConnectionAssumption DEF CSM!Machine
  <2> QED
    BY <1>3, <2>1 DEF Connections
<1> HIDE DEF late
<1>6. idle \in Connections /\ idle.measured = late.measured
  BY <1>5, SetFields DEF ConnectionStates
<1> HIDE DEF idle
<1>7. halt(c, ranOut).measured = n
  BY <1>3, <1>4, <1>5, <1>6 DEF Connections
<1> QED
  BY <1>7

\* A connection that clean_up gives up has measured its response once, when the client
\* was sent a whole answer, and not at all when it was not.
LEMMA ReleaseMeasures ==
    ASSUME NEW c \in Connections, NEW late \in BOOLEAN, NEW waiting, SlotOK(c, waiting),
           Agrees(c), NEW asked, NEW unread,
           NEW acc \in Seq(Targets \X Nat), Serves(c, asked, unread, acc \o c.output),
           c.socket # None, CleanUpOne(c, late).socket # c.socket
    PROVE  LET d == CleanUpOne(c, late)
           IN  /\ d.measured <= 1
               /\ d.measured = 1 => acc \in AnswersTo(asked)
               /\ c.sm.state = "DONE" /\ ~CSM!TimedOut(c.sm) => d.measured = 1
<1> DEFINE seen == GetState(c)
           d    == CleanUpOne(c, late)
<1>1. /\ seen \in Connections /\ SlotOK(seen, waiting) /\ Agrees(seen)
      /\ seen.socket = c.socket /\ seen.handler = c.handler
      /\ seen.output = c.output /\ seen.measured = c.measured
      /\ GetState(seen) = seen
  <2>1. seen.output = c.output /\ seen.measured = c.measured
    BY DEF GetState, Connections
  <2> QED
    BY <2>1, GetStateKeepsSlotOK, GetStateAgrees, GetStateType, LookingAgain
<1>2. d = CASE seen.sm.state = "HANDLING" -> NotifyHandler(seen)
            [] seen.sm.state \in {"CONNECTION_ERROR", "DONE"} -> halt(seen, late)
            [] OTHER -> seen
  BY DEF CleanUpOne, ContinueHandling
<1>3. c.sm.state = "DONE" /\ ~CSM!TimedOut(c.sm) => seen.sm.state = "DONE"
  <2>1. ~CSM!TimedOut(c.sm) => CSM!Observed(c.sm) = c.sm
    BY DEF CSM!Observed
  <2> QED
    BY <2>1 DEF GetState, Connections
<1> HIDE DEF seen, d
<1>4. seen.sm.state \in {"CONNECTION_ERROR", "DONE"} /\ d = halt(seen, late)
  <2>1. CASE seen.sm.state = "HANDLING"
    <3>1. Advances(seen, NotifyHandler(seen))
      BY <1>1, <2>1, NotifyHandlerAdvances
    <3> QED
      BY <1>1, <1>2, <2>1, <3>1 DEF Advances, d
  <2> QED
    BY <1>1, <1>2, <2>1 DEF d
<1>5. d.measured = IF seen.sm.state = "DONE" /\ seen.timing THEN seen.measured + 1
                   ELSE seen.measured
  BY <1>1, <1>4, HaltMeasures
<1>6. /\ HandlerServes(c.handler, asked, acc \o c.output)
      /\ c.measured \in {0, 1}
      /\ c.measured = 1 => /\ c.output = << >>
                           /\ c.handler.sm.state \in {"FINISHED_WAIT", "HANDLER_ERROR"}
  BY DEF Serves
<1>7. c.output = << >> => acc \o c.output = acc
  BY NothingMore
<1>8. CASE seen.sm.state = "DONE"
  <2>1. /\ seen.output = << >> /\ seen.handler.sm.state = "FINISHED_NO_WAIT"
        /\ seen.measured = 0 /\ seen.timing
    BY <1>1, <1>8 DEF Agrees, UnderWay
  <2>2. acc \in AnswersTo(asked) /\ d.measured = 1
    BY <1>1, <1>5, <1>6, <1>7, <1>8, <2>1 DEF HandlerServes
  <2> QED
    BY <2>2 DEF d
<1>9. CASE seen.sm.state = "CONNECTION_ERROR"
  <2>1. d.measured = c.measured /\ d.measured <= 1
    BY <1>1, <1>5, <1>6, <1>9
  <2>2. d.measured = 1 => acc \in AnswersTo(asked)
    BY <1>6, <1>7, <2>1 DEF HandlerServes
  <2> QED
    BY <1>3, <1>9, <2>1, <2>2 DEF d
<1> QED
  BY <1>4, <1>8, <1>9

\* What MeasuredIffAnswered says of slot i in one step.
MeasuredAt(i) ==
    LET c == conn[i].socket
    IN  (c # None /\ conn'[i].socket # c) =>
           /\ conn'[i].measured <= 1
           /\ conn'[i].measured = 1 => accepted[c] \in Answers(c)
           /\ (conn[i].sm.state = "DONE" /\ ~CSM!TimedOut(conn[i].sm)) =>
                 conn'[i].measured = 1

LEMMA StepMeasures ==
    ASSUME Between, Serving, [Next]_vars, NEW i \in Slots
    PROVE  MeasuredAt(i)
<1>1. CASE ~Accept /\ ~CleanUp
  BY <1>1, RestKeepsOwners DEF Between, OwnersStay, MeasuredAt
<1>2. CASE Accept
  <2>1. conn'[i] = conn[i] \/ conn[i].socket = None
    BY <1>2, AcceptGives DEF Between
  <2> QED
    BY <2>1 DEF MeasuredAt
<1>3. CASE CleanUp
  <2> SUFFICES ASSUME conn[i].socket # None, conn'[i].socket # conn[i].socket
               PROVE  LET c == conn[i].socket
                      IN  /\ conn'[i].measured <= 1
                          /\ conn'[i].measured = 1 => accepted[c] \in Answers(c)
                          /\ (conn[i].sm.state = "DONE" /\ ~CSM!TimedOut(conn[i].sm)) =>
                                conn'[i].measured = 1
    BY DEF MeasuredAt
  <2> DEFINE c == conn[i].socket
  <2>1. PICK late \in SUBSET Slots :
          conn' = [j \in Slots |-> CleanUpOne(conn[j], j \in late)]
    BY <1>3 DEF CleanUp
  <2>2. conn'[i] = CleanUpOne(conn[i], i \in late) /\ (i \in late) \in BOOLEAN
    BY <2>1
  <2>3. conn[i] \in Connections /\ SlotOK(conn[i], backlog) /\ Agrees(conn[i])
    BY SlotFacts DEF Between, AllAgree
  <2>4. accepted[c] \in Seq(Targets \X Nat)
    BY SlotClients DEF Between
  <2>5. Unwritten(i) = conn[i].output
    BY <1>3 DEF CleanUp, Unwritten
  <2>6. Serves(conn[i], requested[c], inbox[c], accepted[c] \o conn[i].output)
    BY <2>5 DEF Serving, ServesAt
  <2> QED
    BY <2>2, <2>3, <2>4, <2>6, ReleaseMeasures DEF Answers
<1> QED
  BY <1>1, <1>2, <1>3

\* When clean_up takes the socket of a connection away, its response timer has forwarded
\* one duration if the client was sent a whole answer and the connection came to its
\* end, and none if it broke off (halt, tcp_connection.cpp:118-140, and write, 207-236).
THEOREM MeasuredOnlyIfAnswered == Spec => MeasuredIffAnswered
<1>1. Between /\ Serving /\ [Next]_vars => \A i \in Slots : MeasuredAt(i)
  BY StepMeasures
<1>2. Between /\ Serving /\ [Next]_vars =>
        [\A i \in Slots :
           LET c == conn[i].socket
           IN  (c # None /\ conn'[i].socket # c) =>
                  /\ conn'[i].measured <= 1
                  /\ conn'[i].measured = 1 => accepted[c] \in Answers(c)
                  /\ (conn[i].sm.state = "DONE" /\ ~CSM!TimedOut(conn[i].sm)) =>
                        conn'[i].measured = 1]_vars
  BY <1>1 DEF MeasuredAt
<1> QED
  BY <1>2, ServingHolds, PTL DEF Spec, MeasuredIffAnswered

-----------------------------------------------------------------------------
(* What breaks a connection off *)

\* A machine that the next call does not send to the error state.
Steady(c) == ~CSM!Doomed(c.sm)

\* A change of state the table allows is made, and starts a new time.
LEMMA SetSucceeds ==
    ASSUME NEW c \in Connections, Steady(c), NEW s \in ConnectionStates,
           s # "CONNECTION_ERROR", s # c.sm.state,
           c.sm.state \in DOMAIN states_transition_map,
           s \in states_transition_map[c.sm.state]
    PROVE  Set(c, s).sm.state = s /\ Steady(Set(c, s))
<1> DEFINE m == CSM!SetState(c.sm, s)
<1>1. CSM!CanTransitionTo(c.sm, s)
  BY DEF Steady, CSM!Doomed, CSM!CanTransitionTo
<1>2. m = [state |-> s, reset_count |-> 0, age |-> 0]
  BY <1>1 DEF CSM!SetState, CSM!Entered, Steady
<1> HIDE DEF m
<1>3. s \in DOMAIN state_time_outs => state_time_outs[s] = StateTimeOut
  BY DEF state_time_outs
<1>4. ~CSM!Doomed(m)
  BY <1>2, <1>3, ConnectionAssumption DEF CSM!Doomed, CSM!TimedOut
<1>5. Set(c, s).sm = m
  BY DEF Set, Connections, m
<1> QED
  BY <1>2, <1>4, <1>5 DEF Steady

LEMMA LookingAtSteady ==
    ASSUME NEW c \in Connections, Steady(c)
    PROVE  GetState(c) = c
<1>1. CSM!Observed(c.sm) = c.sm
  BY DEF Steady, CSM!Doomed, CSM!Observed
<1> QED
  BY <1>1 DEF GetState, Connections

LEMMA NotifyHandlerGoesOn ==
    ASSUME NEW c \in Connections, Due(c), Steady(c), c.sm.state = "HANDLING"
    PROVE  NotifyHandler(c).sm.state # "CONNECTION_ERROR"
<1> DEFINE turn == HandlerTurn(c.handler, c.input)
           next == [c EXCEPT !.handler = turn.handler,
                             !.input   = turn.input,
                             !.output  = @ \o turn.written]
<1>1. /\ c.handler \in Handlers /\ c.input \in Seq(Segments)
      /\ c.output \in Seq(Targets \X Nat)
  BY ConnectionFields DEF Due
<1>2. TurnAgrees(c.handler, turn)
  BY <1>1, HandlerTurnAgrees DEF Due
<1>3. /\ turn.handler \in Handlers /\ turn.input \in Seq(Segments)
      /\ turn.written \in Seq(Targets \X Nat)
  BY <1>1, HandlerTurnType DEF TurnType
<1>4. NotifyHandler(c) = IF turn.returns THEN next ELSE NotifiedByHandler(next)
  BY DEF NotifyHandler, Due
<1> HIDE DEF turn
<1>5. c.output \o turn.written \in Seq(Targets \X Nat)
  BY <1>1, <1>3
<1>6. next \in Connections /\ next.sm = c.sm /\ next.handler = turn.handler
  BY <1>3, <1>5 DEF Connections
<1> HIDE DEF next
<1>7. CASE turn.returns
  BY <1>4, <1>6, <1>7
<1>8. CASE ~turn.returns
  <2>1. next.handler.sm.state \in Results
    BY <1>2, <1>6, <1>8 DEF TurnAgrees
  <2>2. NotifiedByHandler(next) = Set(next, "READY_TO_WRITE")
    BY <2>1 DEF NotifiedByHandler, Results, wants_to_write, wants_to_live,
                wants_more_bytes, wants_to_be_calledback
  <2>3. Set(next, "READY_TO_WRITE").sm.state = "READY_TO_WRITE"
    BY <1>6, SetSucceeds DEF Steady, ConnectionStates, states_transition_map
  <2> QED
    BY <1>4, <1>8, <2>2, <2>3
<1> QED
  BY <1>7, <1>8

LEMMA ReadSocketGoesOn ==
    ASSUME NEW c \in Connections, NEW received \in Seq(Segments), received # << >>,
           Agrees(c), Steady(c), c.sm.state = "READY_TO_READ",
           c.socket # None, c.handler # None
    PROVE  ReadSocket(c, received).sm.state # "CONNECTION_ERROR"
<1> DEFINE started  == TimerStart(c)
           reading  == Set(started, "READING")
           filled   == [reading EXCEPT !.input = @ \o received]
           handling == Set(filled, "HANDLING")
<1>1. /\ started \in Connections /\ started.handler = c.handler /\ started.sm = c.sm
      /\ started.output = c.output /\ started.asserts = c.asserts
      /\ started.timing /\ started.measured = c.measured
  BY TimerType DEF TimerStart, Connections
<1> HIDE DEF started
<1>2. /\ reading \in Connections /\ reading.handler = c.handler
      /\ reading.output = c.output /\ reading.asserts = c.asserts
      /\ reading.timing /\ reading.measured = c.measured
  BY <1>1, SetFields DEF ConnectionStates
<1>3. reading.sm.state = "READING" /\ Steady(reading)
  BY <1>1, SetSucceeds DEF Steady, ConnectionStates, states_transition_map
<1>4. ReadSocket(c, received) = NotifyHandler(handling)
  BY <1>3 DEF ReadSocket, started
<1> HIDE DEF reading
<1>5. reading.input \o received \in Seq(Segments)
  BY <1>2, ConnectionFields
<1>6. /\ filled \in Connections /\ filled.handler = c.handler /\ filled.sm = reading.sm
      /\ filled.output = c.output /\ filled.asserts = c.asserts
      /\ filled.timing /\ filled.measured = c.measured
  BY <1>2, <1>5 DEF Connections
<1> HIDE DEF filled
<1>7. /\ handling \in Connections /\ handling.handler = c.handler
      /\ handling.output = c.output /\ handling.asserts = c.asserts
      /\ handling.timing /\ handling.measured = c.measured
  BY <1>6, SetFields DEF ConnectionStates
<1>8. handling.sm.state = "HANDLING" /\ Steady(handling)
  BY <1>3, <1>6, SetSucceeds DEF Steady, ConnectionStates, states_transition_map
<1> HIDE DEF handling
<1>9. Due(handling)
  BY <1>7, <1>8 DEF Agrees, Due, UnderWay
<1> QED
  BY <1>4, <1>7, <1>8, <1>9, NotifyHandlerGoesOn

LEMMA WriteBeginGoesOn ==
    ASSUME NEW c \in Connections, Steady(c), c.sm.state = "READY_TO_WRITE",
           c.socket # None, c.handler # None
    PROVE  WriteBegin(c).sm.state # "CONNECTION_ERROR"
<1>1. Set(c, "WRITING").sm.state = "WRITING"
  BY SetSucceeds DEF ConnectionStates, states_transition_map
<1>2. WriteBegin(c) = Set(c, "WRITING")
  BY DEF WriteBegin
<1> QED
  BY <1>1, <1>2

LEMMA WriteEndGoesOn ==
    ASSUME NEW c \in Connections, Steady(c), c.sm.state = "WRITING", NEW n \in Nat
    PROVE  WriteEnd(c, n).sm.state # "CONNECTION_ERROR"
<1> DEFINE rest    == [c EXCEPT !.output = SubSeq(@, n + 1, Len(@))]
           emptied == [c EXCEPT !.output = << >>]
           ended   == TimerEnd([emptied EXCEPT !.input = << >>])
<1>1. emptied \in Connections /\ emptied.sm = c.sm
  BY NoBytes DEF Connections
<1>2. ended \in Connections /\ ended.sm = c.sm
  <2> DEFINE dry == [emptied EXCEPT !.input = << >>]
  <2>1. dry \in Connections /\ dry.sm = c.sm
    BY <1>1, NoBytes DEF Connections
  <2> HIDE DEF dry
  <2>2. TimerEnd(dry) \in Connections
    BY <2>1, TimerType
  <2>3. TimerEnd(dry).sm = dry.sm
    BY <2>1 DEF TimerEnd, Connections
  <2> QED
    BY <2>1, <2>2, <2>3 DEF dry
<1>3. n < Len(c.output) => rest \in Connections /\ rest.sm = c.sm
  <2> DEFINE o == c.output
  <2>1. o \in Seq(Targets \X Nat) /\ Len(o) \in Nat
    BY ConnectionFields
  <2> HIDE DEF o
  <2>2. n < Len(o) => SubSeq(o, n + 1, Len(o)) \in Seq(Targets \X Nat)
    BY <2>1
  <2>3. rest = [c EXCEPT !.output = SubSeq(o, n + 1, Len(o))]
    BY DEF o
  <2> QED
    BY <2>2, <2>3 DEF Connections, o
<1>4. WriteEnd(c, n) =
        IF n < Len(c.output) THEN Set(rest, "READY_TO_WRITE")
        ELSE IF wants_to_be_calledback(c.handler) THEN Set(emptied, "HANDLING")
        ELSE IF wants_to_live(c.handler) THEN Set(ended, "READY_TO_READ")
        ELSE Set(emptied, "DONE")
  BY DEF WriteEnd
<1> HIDE DEF rest, emptied, ended
<1>5. \A d \in Connections, s \in {"READY_TO_WRITE", "HANDLING", "READY_TO_READ", "DONE"} :
        d.sm = c.sm => Set(d, s).sm.state # "CONNECTION_ERROR"
  BY SetSucceeds DEF Steady, ConnectionStates, states_transition_map
<1> QED
  BY <1>1, <1>2, <1>3, <1>4, <1>5

LEMMA CleanUpOneGoesOn ==
    ASSUME NEW c \in Connections, NEW late \in BOOLEAN, NEW waiting, SlotOK(c, waiting),
           Agrees(c), Steady(c)
    PROVE  \/ CleanUpOne(c, late).socket = None
           \/ CleanUpOne(c, late).sm.state # "CONNECTION_ERROR"
<1>1. GetState(c) = c /\ c.sm.state # "CONNECTION_ERROR"
  BY LookingAtSteady DEF Steady, CSM!Doomed
<1>2. CASE c.sm.state = "HANDLING"
  <2>1. Due(c)
    BY <1>2 DEF Due, Agrees, SlotOK, UnderWay
  <2> QED
    BY <1>1, <1>2, <2>1, NotifyHandlerGoesOn DEF CleanUpOne, ContinueHandling
<1>3. CASE c.sm.state = "DONE"
  BY <1>1, <1>3, HaltReleases DEF CleanUpOne
<1>4. CASE c.sm.state \notin {"HANDLING", "DONE"}
  BY <1>1, <1>4 DEF CleanUpOne
<1> QED
  BY <1>2, <1>3, <1>4

\* What poll reported as readable stays so until the socket has had its turn: only the
\* server takes what has arrived, once in a round, and gives up no socket before its end.
Awaited ==
    /\ \A i \in pollin : conn[i].socket # None /\ Readable(conn[i].socket)
    /\ pc = "clean" => polled = {}

LEMMA InitAwaited == Init => Awaited
BY DEF Init, Awaited

\* A step that takes nothing from a client.
TakesNothing == \A c \in Clients : Readable(c) => Readable(c)'

LEMMA PollHolds ==
    ASSUME IInv, Awaited, OwnersStay, TakesNothing,
           pollin' \subseteq pollin, pc' = "clean" => polled' = {}
    PROVE  Awaited'
<1>1. ASSUME NEW i \in pollin
      PROVE  conn'[i].socket # None /\ Readable(conn[i].socket)'
  <2>1. PICK c : c = conn[i].socket
    OBVIOUS
  <2>2. i \in Slots /\ c # None /\ Readable(c)
    BY <2>1 DEF IInv, TypeOK, Awaited
  <2>3. c \in Clients
    BY <2>1, <2>2, SlotClients
  <2>4. c = conn'[i].socket
    BY <2>1, <2>2 DEF OwnersStay
  <2>5. Readable(c)'
    BY <2>2, <2>3 DEF TakesNothing
  <2> QED
    BY <2>2, <2>4, <2>5 DEF Readable
<1> QED
  BY <1>1 DEF Awaited

LEMMA ReadAwaited ==
    ASSUME IInv, Awaited, NEW i \in Slots, HandleRead(i)
    PROVE  Awaited'
<1>1. OwnersStay
  BY HandleKeepsOwners
<1>2. conn[i].socket # None
  BY DEF Awaited, HandleRead, MayRead
<1>3. ASSUME NEW j \in pollin'
      PROVE  conn'[j].socket # None /\ Readable(conn[j].socket)'
  <2>1. PICK c : c = conn[j].socket
    OBVIOUS
  <2>2. j \in pollin /\ j # i /\ j \in Slots
    BY <1>3 DEF HandleRead, Handled, IInv, TypeOK
  <2>3. c # None /\ Readable(c)
    BY <2>1, <2>2 DEF Awaited
  <2>4. c \in Clients /\ c # conn[i].socket
    BY <1>2, <2>1, <2>2, <2>3, SlotClients
  <2>5. inbox'[c] = inbox[c] /\ client' = client
    BY <2>4 DEF HandleRead, IInv, TypeOK
  <2>6. c = conn'[j].socket
    BY <1>1, <2>1, <2>2 DEF OwnersStay
  <2> QED
    BY <2>3, <2>5, <2>6 DEF Readable
<1>4. pc' # "clean"
  BY DEF HandleRead
<1> QED
  BY <1>3, <1>4 DEF Awaited

LEMMA SetupAwaited ==
    ASSUME IInv, SetupAndPoll
    PROVE  Awaited'
<1>1. ASSUME NEW i \in pollin'
      PROVE  conn'[i].socket # None /\ Readable(conn[i].socket)'
  <2>1. i \in Slots /\ conn[i].socket # None /\ Readable(conn[i].socket)
    BY <1>1 DEF SetupAndPoll
  <2>2. conn'[i].socket = conn[i].socket
    BY <2>1, SlotFacts, GetStateType DEF SetupAndPoll
  <2>3. inbox' = inbox /\ client' = client
    BY DEF SetupAndPoll, clientVars
  <2> QED
    BY <2>1, <2>2, <2>3 DEF Readable
<1>2. pc' # "clean"
  BY DEF SetupAndPoll
<1> QED
  BY <1>1, <1>2 DEF Awaited

LEMMA AcceptAwaited ==
    ASSUME IInv, Awaited, Accept
    PROVE  Awaited'
<1>1. \A j \in pollin : conn'[j].socket = conn[j].socket
  BY AcceptGives DEF Awaited, IInv, TypeOK
<1>2. /\ pollin' = pollin /\ inbox' = inbox /\ client' = client
      /\ pc' # "clean"
  BY DEF Accept
<1> QED
  BY <1>1, <1>2 DEF Awaited, Readable

LEMMA StepAwaited == IInv /\ Awaited /\ [Next]_vars => Awaited'
<1> SUFFICES ASSUME IInv, Awaited, [Next]_vars PROVE Awaited'
  OBVIOUS
<1>1. ASSUME UNCHANGED <<inbox, client>> PROVE TakesNothing
  BY <1>1 DEF TakesNothing, Readable
<1>2. CASE Accept
  BY <1>2, AcceptAwaited
<1>3. CASE CleanUp
  <2>1. pollin' = {} /\ pc' = "poll"
    BY <1>3 DEF CleanUp, Awaited, IInv, TypeOK
  <2> QED
    BY <2>1 DEF Awaited
<1>4. CASE ~Accept /\ ~CleanUp
  <2>1. OwnersStay
    BY <1>4, RestKeepsOwners
  <2>2. CASE SetupAndPoll
    BY <2>2, SetupAwaited
  <2>3. CASE NothingToAccept
    <3>1. pollin' = pollin /\ pc' # "clean" /\ UNCHANGED <<inbox, client>>
      BY <2>3 DEF NothingToAccept, clientVars
    <3> QED
      BY <1>1, <2>1, <3>1, PollHolds
  <2>4. ASSUME NEW i \in Slots,
               \/ HandleWrite(i) \/ HandleNothing(i) \/ Send(i)
               \/ SendFails(i) \/ AllSent(i)
        PROVE  Awaited'
    <3>1. pollin' \subseteq pollin /\ pc' # "clean"
      BY <2>4 DEF HandleWrite, HandleNothing, Handled, Send, Sending, SendFails, AllSent,
                  LeaveWrite
    <3>2. UNCHANGED <<inbox, client>>
      BY <2>4 DEF HandleWrite, HandleNothing, Send, SendFails, AllSent, LeaveWrite,
                  clientVars
    <3> QED
      BY <1>1, <2>1, <3>1, <3>2, PollHolds
  <2>5. CASE EndOfRound
    <3>1. pollin' = pollin /\ polled' = {} /\ UNCHANGED <<inbox, client>>
      BY <2>5 DEF EndOfRound, clientVars
    <3> QED
      BY <1>1, <2>1, <3>1, PollHolds
  <2>6. ASSUME NEW i \in Slots, BrokenPipe(i) PROVE Awaited'
    <3>1. UNCHANGED <<pollin, polled, pc, inbox, client>>
      BY <2>6 DEF BrokenPipe, clientVars
    <3> QED
      BY <1>1, <2>1, <3>1, PollHolds DEF Awaited
  <2>7. CASE Environment
    <3>1. UNCHANGED <<pollin, polled, pc>>
      BY <2>7 DEF Environment, Connect, SendSegment, Receive, Leave, Tick, serverVars
    <3>2. ASSUME NEW c \in Clients, Readable(c) PROVE Readable(c)'
      <4>1. CASE UNCHANGED <<inbox, client>>
        BY <3>2, <4>1 DEF Readable
      <4>2. ASSUME NEW d \in Clients, Connect(d) PROVE Readable(c)'
        BY <3>2, <4>2 DEF Connect, Readable, IInv, TypeOK
      <4>3. ASSUME NEW d \in Clients, SendSegment(d) PROVE Readable(c)'
        <5>1. client' = client
          BY <4>3 DEF SendSegment
        <5>2. PICK s \in ClientSegments : inbox' = [inbox EXCEPT ![d] = Append(@, s)]
          BY <4>3 DEF SendSegment
        <5>3. inbox[d] \in Seq(Segments) /\ inbox \in [Clients -> Seq(Segments)]
          BY DEF IInv, TypeOK
        <5>4. Append(inbox[d], s) # << >>
          BY <5>3
        <5> QED
          BY <3>2, <5>1, <5>2, <5>3, <5>4 DEF Readable
      <4>4. ASSUME NEW d \in Clients, Leave(d) PROVE Readable(c)'
        BY <3>2, <4>4 DEF Leave, Readable, IInv, TypeOK
      <4>5. ASSUME NEW d \in Clients, Receive(d) PROVE Readable(c)'
        BY <4>1, <4>5 DEF Receive
      <4>6. ASSUME NEW i \in Slots, Tick(i) PROVE Readable(c)'
        BY <4>1, <4>6 DEF Tick, clientVars
      <4> QED
        BY <2>7, <4>2, <4>3, <4>4, <4>5, <4>6 DEF Environment
    <3> QED
      BY <2>1, <3>1, <3>2, PollHolds DEF TakesNothing, Awaited
  <2>8. CASE UNCHANGED vars
    <3>1. UNCHANGED <<pollin, polled, pc, inbox, client>>
      BY <2>8 DEF vars, serverVars, clientVars
    <3> QED
      BY <1>1, <2>1, <3>1, PollHolds DEF Awaited
  <2> QED
    BY <1>4, <2>2, <2>3, <2>4, <2>5, <2>6, <2>7, <2>8, ReadAwaited DEF Next, Server
<1> QED
  BY <1>2, <1>3, <1>4

LEMMA AwaitedHolds == Spec => [](Between /\ Awaited)
<1>1. IInv /\ NothingLeftBehind /\ AllAgree <=> Between
  BY DEF Between
<1> QED
  BY <1>1, InvariantHolds, NothingIsLeftBehind, AgreementHolds, InitAwaited, StepAwaited,
     PTL DEF Spec

\* What BreaksOffOnlyLeavers says of slot i in one step.
BreaksOffAt(i) ==
    LET c == conn[i].socket
    IN  (/\ c # None /\ conn'[i].socket = c
         /\ conn[i].sm.state # "CONNECTION_ERROR"
         /\ conn'[i].sm.state = "CONNECTION_ERROR")
           => client[c] = "gone" \/ CSM!TimedOut(conn[i].sm)

\* A step of slot j that gives its connection d.
LEMMA OneSlotGoesOn ==
    ASSUME IInv, NEW i \in Slots, NEW j \in Slots, NEW d, conn' = [conn EXCEPT ![j] = d],
           i = j /\ Steady(conn[i]) /\ conn[i].socket # None
                 /\ client[conn[i].socket] # "gone"
             => d.sm.state # "CONNECTION_ERROR"
    PROVE  BreaksOffAt(i)
<1>1. conn'[i] = IF i = j THEN d ELSE conn[i]
  BY DEF IInv, TypeOK
<1>2. conn[i].sm.state # "CONNECTION_ERROR" /\ ~CSM!TimedOut(conn[i].sm) => Steady(conn[i])
  BY DEF Steady, CSM!Doomed
<1> QED
  BY <1>1, <1>2 DEF BreaksOffAt

LEMMA HandleGoesOn ==
    ASSUME Between, Awaited, NEW i \in Slots, NEW j \in Slots,
           HandleRead(j) \/ HandleWrite(j) \/ HandleNothing(j)
    PROVE  BreaksOffAt(i)
<1> DEFINE seen == GetState(conn[j])
           c    == conn[j].socket
<1>1. conn[j] \in Connections /\ SlotOK(conn[j], backlog) /\ conn \in [Slots -> Connections]
  BY SlotFacts DEF Between, IInv, TypeOK
<1>2. Agrees(conn[j])
  BY DEF Between, AllAgree
<1>3. Steady(conn[j]) => seen = conn[j] /\ seen.sm.state # "CONNECTION_ERROR"
  BY <1>1, LookingAtSteady DEF Steady, CSM!Doomed
<1>4. CASE HandleRead(j)
  <2>1. PICK n \in 0 .. Len(inbox[c]) :
          /\ n = 0 => client[c] = "gone" \/ inbox[c] = << >>
          /\ conn' = [conn EXCEPT ![j] = ReadSocket(GetState(@), SubSeq(inbox[c], 1, n))]
    BY <1>4 DEF HandleRead
  <2> DEFINE received == SubSeq(inbox[c], 1, n)
             d        == ReadSocket(seen, received)
  <2>2. conn' = [conn EXCEPT ![j] = d]
    BY <1>1, <2>1
  <2>3. c # None /\ Readable(c)
    BY <1>4 DEF HandleRead, MayRead, Awaited
  <2>4. inbox[c] \in Seq(Segments)
    BY <2>3, SlotClients DEF Between
  <2>5. ASSUME Steady(conn[j]), client[c] # "gone" PROVE d.sm.state # "CONNECTION_ERROR"
    <3>1. inbox[c] # << >> /\ n # 0
      BY <2>1, <2>3, <2>5 DEF Readable
    <3>2. received \in Seq(Segments) /\ received # << >>
      BY <2>1, <2>4, <3>1
    <3>3. seen = conn[j] /\ conn[j].sm.state = "READY_TO_READ"
      BY <1>3, <1>4, <2>5 DEF HandleRead, MayRead
    <3>4. conn[j].handler # None
      BY <1>1, <3>3 DEF SlotOK
    <3> HIDE DEF received, seen
    <3> QED
      BY <1>1, <1>2, <2>3, <2>5, <3>2, <3>3, <3>4, ReadSocketGoesOn
  <2> HIDE DEF d
  <2> QED
    BY <2>2, <2>5, OneSlotGoesOn DEF Between
<1>5. CASE HandleWrite(j)
  <2> DEFINE d == WriteBegin(seen)
  <2>1. conn' = [conn EXCEPT ![j] = d]
    BY <1>1, <1>5 DEF HandleWrite
  <2>2. ASSUME Steady(conn[j]) PROVE d.sm.state # "CONNECTION_ERROR"
    <3>1. seen = conn[j] /\ conn[j].sm.state = "READY_TO_WRITE"
      BY <1>3, <1>5, <2>2 DEF HandleWrite, MayWrite
    <3>2. conn[j].socket # None /\ conn[j].handler # None
      BY <1>1, <3>1 DEF SlotOK
    <3> HIDE DEF seen
    <3> QED
      BY <1>1, <2>2, <3>1, <3>2, WriteBeginGoesOn
  <2> HIDE DEF d
  <2> QED
    BY <2>1, <2>2, OneSlotGoesOn DEF Between
<1>6. CASE HandleNothing(j)
  <2>1. conn' = [conn EXCEPT ![j] = seen]
    BY <1>1, <1>6 DEF HandleNothing
  <2> HIDE DEF seen
  <2> QED
    BY <1>3, <2>1, OneSlotGoesOn DEF Between
<1> QED
  BY <1>4, <1>5, <1>6

LEMMA LeaveWriteGoesOn ==
    ASSUME IInv, NEW i \in Slots, NEW j \in Slots, Sending(j), LeaveWrite(j)
    PROVE  BreaksOffAt(i)
<1> DEFINE d == WriteEnd(conn[j], sent)
<1>1. conn[j] \in Connections /\ conn \in [Slots -> Connections]
  BY SlotFacts DEF IInv, TypeOK
<1>2. conn[j].sm.state = "WRITING" /\ sent \in Nat
  BY DEF IInv, TypeOK, SendLoop, Sending
<1>3. Steady(conn[j]) => d.sm.state # "CONNECTION_ERROR"
  BY <1>1, <1>2, WriteEndGoesOn
<1>4. conn' = [conn EXCEPT ![j] = d]
  BY <1>1 DEF LeaveWrite
<1> HIDE DEF d
<1> QED
  BY <1>3, <1>4, OneSlotGoesOn

LEMMA StepGoesOn ==
    ASSUME Between, Awaited, [Next]_vars, NEW i \in Slots
    PROVE  BreaksOffAt(i)
<1>1. conn[i] \in Connections /\ SlotOK(conn[i], backlog) /\ Agrees(conn[i]) /\ IInv
  BY SlotFacts DEF Between, AllAgree
<1>2. ASSUME conn'[i] = conn[i] PROVE BreaksOffAt(i)
  BY <1>2 DEF BreaksOffAt
<1>3. Steady(conn[i]) \/ conn[i].sm.state = "CONNECTION_ERROR" \/ CSM!TimedOut(conn[i].sm)
  BY DEF Steady, CSM!Doomed
<1>4. CASE SetupAndPoll
  <2>1. conn'[i] = GetState(conn[i])
    BY <1>4 DEF SetupAndPoll
  <2>2. Steady(conn[i]) => conn'[i] = conn[i]
    BY <1>1, <2>1, LookingAtSteady
  <2> QED
    BY <1>2, <1>3, <2>2 DEF BreaksOffAt
<1>5. CASE Accept
  <2>1. conn'[i] = conn[i] \/ conn[i].socket = None
    BY <1>1, <1>5, AcceptGives
  <2> QED
    BY <2>1 DEF BreaksOffAt
<1>6. CASE CleanUp
  <2>1. PICK late \in SUBSET Slots :
          conn' = [j \in Slots |-> CleanUpOne(conn[j], j \in late)]
    BY <1>6 DEF CleanUp
  <2>2. conn'[i] = CleanUpOne(conn[i], i \in late) /\ (i \in late) \in BOOLEAN
    BY <2>1
  <2>3. Steady(conn[i]) =>
          conn'[i].socket = None \/ conn'[i].sm.state # "CONNECTION_ERROR"
    BY <1>1, <2>2, CleanUpOneGoesOn
  <2> QED
    BY <1>3, <2>3 DEF BreaksOffAt
<1>7. ASSUME NEW j \in Slots, HandleRead(j) \/ HandleWrite(j) \/ HandleNothing(j)
      PROVE  BreaksOffAt(i)
  BY <1>7, HandleGoesOn
<1>8. ASSUME NEW j \in Slots, SendFails(j) \/ AllSent(j) PROVE BreaksOffAt(i)
  <2>1. Sending(j) /\ LeaveWrite(j)
    BY <1>8 DEF SendFails, AllSent
  <2> QED
    BY <1>1, <2>1, LeaveWriteGoesOn
<1>9. ASSUME NEW j \in Slots, Tick(j) PROVE BreaksOffAt(i)
  <2> DEFINE d == [conn[j] EXCEPT !.sm = CSM!Elapsed(conn[j].sm)]
  <2>1. conn[j] \in Connections
    BY SlotFacts DEF Between
  <2>2. d.sm.state = conn[j].sm.state
    <3>1. CSM!Elapsed(conn[j].sm).state = conn[j].sm.state
      BY <2>1, ConnectionFields DEF CSM!Elapsed, CSM!Machine
    <3> QED
      BY <2>1, <3>1 DEF Connections
  <2>3. conn' = [conn EXCEPT ![j] = d]
    BY <1>9 DEF Tick
  <2> HIDE DEF d
  <2>4. Steady(conn[j]) => d.sm.state # "CONNECTION_ERROR"
    BY <2>2 DEF Steady, CSM!Doomed
  <2> QED
    BY <1>1, <2>3, <2>4, OneSlotGoesOn
<1>10. ASSUME UNCHANGED conn PROVE BreaksOffAt(i)
  BY <1>2, <1>10
<1>11. CASE Server
  <2>1. \A j \in Slots : Send(j) \/ BrokenPipe(j) => UNCHANGED conn
    BY DEF Send, BrokenPipe
  <2>2. NothingToAccept \/ EndOfRound => UNCHANGED conn
    BY DEF NothingToAccept, EndOfRound
  <2> QED
    BY <1>4, <1>5, <1>6, <1>7, <1>8, <1>10, <1>11, <2>1, <2>2 DEF Server
<1>12. CASE Environment
  <2>1. \A c \in Clients :
          Connect(c) \/ SendSegment(c) \/ Receive(c) \/ Leave(c) => UNCHANGED conn
    BY DEF Connect, SendSegment, Receive, Leave, serverVars
  <2> QED
    BY <1>9, <1>10, <1>12, <2>1 DEF Environment
<1>13. CASE UNCHANGED vars
  BY <1>10, <1>13 DEF vars, serverVars
<1> QED
  BY <1>11, <1>12, <1>13 DEF Next

\* However many connections a round serves, and whatever arrives while it lasts, no
\* connection breaks off unless its client left or its time ran out: no read is made
\* that finds nothing, and the tables allow every change of state that is made
\* (handle_connections, polling_server.cpp:80-93, and read and write of TcpConnection).
THEOREM OnlyLeaversAreCutOff == Spec => BreaksOffOnlyLeavers
<1>1. Between /\ Awaited /\ [Next]_vars => \A i \in Slots : BreaksOffAt(i)
  BY StepGoesOn
<1>2. Between /\ Awaited /\ [Next]_vars =>
        [\A i \in Slots :
           LET c == conn[i].socket
           IN  (/\ c # None /\ conn'[i].socket = c
                /\ conn[i].sm.state # "CONNECTION_ERROR"
                /\ conn'[i].sm.state = "CONNECTION_ERROR")
                  => client[c] = "gone" \/ CSM!TimedOut(conn[i].sm)]_vars
  BY <1>1 DEF BreaksOffAt
<1> QED
  BY <1>2, AwaitedHolds, PTL DEF Spec, BreaksOffOnlyLeavers

-----------------------------------------------------------------------------
(* The server implements the service, as long as every descriptor the      *)
(* process may be given is a slot of the pool: a descriptor past the pool  *)
(* takes a client from the backlog that no slot ever serves.               *)

PoolCoversDescriptors == Descriptors \subseteq Slots

LEMMA InitServed == Init => Service!Init
<1> SUFFICES ASSUME Init PROVE Service!Init
  OBVIOUS
<1>1. \A i \in Slots : conn[i].socket = None
  BY DEF Init, NewConnection
<1>2. \A c \in Clients : Phase(c) = "away"
  <2>1. \A c \in Clients : client[c] = "new" /\ c \notin backlog
    BY DEF Init
  <2>2. \A c \in Clients : ~Owned(c)
    BY <1>1, HandlersAreNotNone DEF Owned
  <2> QED
    BY <2>1, <2>2 DEF Phase
<1> QED
  BY <1>1, <1>2 DEF Init, Service!Init

-----------------------------------------------------------------------------
(* The phases *)

LEMMA PhaseStays ==
    ASSUME NEW c, client'[c] = "new" <=> client[c] = "new", c \in backlog' <=> c \in backlog,
           Owned(c)' <=> Owned(c)
    PROVE  Phase(c)' = Phase(c)
BY DEF Phase

\* Who waits is known and not served, who is served is known.
LEMMA PhaseFacts ==
    ASSUME IInv, NEW c \in Clients
    PROVE  /\ c \in backlog => client[c] # "new" /\ ~Owned(c) /\ Phase(c) = "waiting"
           /\ Owned(c) => client[c] # "new" /\ c \notin backlog /\ Phase(c) = "served"
<1>1. c \in backlog => client[c] # "new" /\ ~Owned(c)
  BY DEF IInv, KnownClients, SocketOwnership, Owned
<1>2. Owned(c) => client[c] # "new" /\ c \notin backlog
  BY HandlersAreNotNone DEF IInv, KnownClients, SocketOwnership, Owned
<1> QED
  BY <1>1, <1>2 DEF Phase

-----------------------------------------------------------------------------
(* The steps *)

\* A step that serves, sends and releases nothing is none of the service's.
LEMMA StepStutters ==
    ASSUME OwnersStay, UNCHANGED <<backlog, accepted>>,
           \A c \in Clients : client'[c] = "new" <=> client[c] = "new"
    PROVE  UNCHANGED Service!vars
<1>1. \A c \in Clients : Owned(c)' <=> Owned(c)
  BY DEF OwnersStay, Owned
<1>2. \A c \in Clients : Phase(c)' = Phase(c)
  BY <1>1, PhaseStays
<1>3. \A i \in Slots : conn'[i].socket = conn[i].socket
  BY DEF OwnersStay
<1> QED
  BY <1>2, <1>3 DEF Service!vars

LEMMA ConnectArrives ==
    ASSUME IInv, NEW c \in Clients, Connect(c)
    PROVE  Service!Arrive(c)
<1>1. /\ client[c] = "new" /\ client' = [client EXCEPT ![c] = "open"]
      /\ backlog' = backlog \cup {c} /\ UNCHANGED <<conn, accepted>>
  BY DEF Connect, serverVars
<1>2. client'[c] = "open" /\ \A b \in Clients \ {c} : client'[b] = client[b]
  BY <1>1 DEF IInv, TypeOK
<1>3. Phase(c) = "away"
  <2>1. c \notin backlog /\ ~Owned(c)
    BY <1>1, PhaseFacts
  <2> QED
    BY <1>1, <2>1 DEF Phase
<1>4. Phase(c)' = "waiting"
  <2>1. ~Owned(c)'
    BY <1>1, PhaseFacts DEF Owned
  <2> QED
    BY <1>1, <1>2, <2>1 DEF Phase
<1>5. \A b \in Clients \ {c} : Phase(b)' = Phase(b)
  <2>1. \A b \in Clients : Owned(b)' <=> Owned(b)
    BY <1>1 DEF Owned
  <2> QED
    BY <1>1, <1>2, <2>1, PhaseStays
<1> QED
  BY <1>1, <1>3, <1>4, <1>5 DEF Service!Arrive

LEMMA AcceptServed ==
    ASSUME IInv, IInv', PoolCoversDescriptors, Accept
    PROVE  \/ \E i \in Slots, c \in Clients : Service!Serve(i, c)
           \/ UNCHANGED Service!vars
<1> DEFINE fd == CHOOSE d \in FreeDescriptors : \A e \in FreeDescriptors : d <= e
<1>1. UNCHANGED <<client, accepted>>
  BY DEF Accept
<1>2. CASE FreeDescriptors = {}
  <2>1. UNCHANGED <<conn, backlog>>
    BY <1>2 DEF Accept
  <2> QED
    BY <1>1, <2>1, StepStutters DEF OwnersStay
<1>3. CASE FreeDescriptors # {}
  <2>1. fd \in FreeDescriptors
    BY <1>3, LowestDescriptor, ServerAssumption DEF FreeDescriptors
  <2>2. fd \in Slots
    BY <2>1 DEF FreeDescriptors, PoolCoversDescriptors
  <2>3. PICK b \in backlog : conn' = [conn EXCEPT ![fd] = record_connection(@, b)]
    BY <1>3, <2>2 DEF Accept
  <2>4. conn' # conn
    <3>1. b \in Clients /\ conn[fd] \in Connections /\ conn \in [Slots -> Connections]
      BY <2>2 DEF IInv, TypeOK
    <3>2. record_connection(conn[fd], b).socket = b /\ conn'[fd] = record_connection(conn[fd], b)
      BY <2>2, <2>3, <3>1, RecordConnection
    <3> HIDE DEF fd
    <3>3. conn[fd].socket # b
      BY <2>2 DEF IInv, SocketOwnership
    <3> QED
      BY <3>2, <3>3
  <2> HIDE DEF fd
  <2>5. PICK i \in Slots, c \in backlog :
          /\ conn[i].socket = None /\ c # None
          /\ conn'[i].socket = c
          /\ \A j \in Slots \ {i} : conn'[j] = conn[j]
          /\ backlog' = backlog \ {c}
    BY <2>4, AcceptGives
  <2>6. c \in Clients
    BY <2>5 DEF IInv, TypeOK
  <2>7. Phase(c) = "waiting"
    BY <2>5, <2>6, PhaseFacts
  <2>8. Phase(c)' = "served"
    <3>1. Owned(c)'
      BY <2>5 DEF Owned
    <3>2. client'[c] # "new" /\ c \notin backlog'
      BY <1>1, <2>5, <2>6, PhaseFacts
    <3> QED
      BY <3>1, <3>2 DEF Phase
  <2>9. ASSUME NEW other \in Clients \ {c} PROVE Phase(other)' = Phase(other)
    <3>1. other # None
      BY HandlersAreNotNone
    <3>2. Owned(other)' <=> Owned(other)
      BY <2>5, <3>1 DEF Owned
    <3> QED
      BY <1>1, <2>5, <3>2, PhaseStays
  <2>10. \A j \in Slots : conn'[j].socket = IF j = i THEN c ELSE conn[j].socket
    BY <2>5
  <2>11. Service!Serve(i, c)
    BY <1>1, <2>5, <2>6, <2>7, <2>8, <2>9, <2>10 DEF Service!Serve
  <2> QED
    BY <2>6, <2>11
<1> QED
  BY <1>2, <1>3

\* An answer that has a part is a response.
LEMMA AnswersAreResponses ==
    ASSUME NEW r \in Seq(Segments), NEW a \in AnswersTo(r), a # << >>
    PROVE  \E t \in Targets : a = Response(t)
<1>1. r # << >>
  BY DEF AnswersTo
<1>2. r[1] \in Segments /\ r[1].target \in Targets
  <2>1. r[1] \in Segments
    BY <1>1
  <2> QED
    BY <2>1 DEF Segments
<1> QED
  BY <1>1, <1>2 DEF AnswersTo

LEMMA SendDelivers ==
    ASSUME Between, Serving', IInv', NEW i \in Slots, Send(i)
    PROVE  Service!Deliver(i)
<1> DEFINE c == conn[i].socket
           o == conn[i].output
<1>1. conn[i].sm.state = "WRITING" /\ sent \in Nat /\ conn[i] \in Connections
  BY SlotFacts DEF Between, IInv, TypeOK, SendLoop, Sending, Send
<1>2. c # None
  BY <1>1, SlotFacts DEF Between, SlotOK
<1>3. c \in Clients /\ accepted[c] \in Seq(Targets \X Nat) /\ requested[c] \in Seq(Segments)
  BY <1>2, SlotClients DEF Between
<1>4. PICK n \in 1 .. Unsent(i) :
        accepted' = [accepted EXCEPT ![c] = @ \o SubSeq(o, sent + 1, sent + n)]
  BY DEF Send
<1>5. o \in Seq(Targets \X Nat)
  BY <1>1, ConnectionFields
<1>6. UNCHANGED <<conn, client, backlog, requested>>
  BY DEF Send
<1> HIDE DEF o
<1>7. n \in Nat /\ n >= 1 /\ sent + n <= Len(o) /\ Len(o) \in Nat
  BY <1>1, <1>4, <1>5 DEF Unsent, o
<1> DEFINE more == SubSeq(o, sent + 1, sent + n)
           got  == accepted[c] \o more
<1>8. more \in Seq(Targets \X Nat) /\ Len(more) = n
  BY <1>1, <1>5, <1>7
<1>9. accepted' = [accepted EXCEPT ![c] = got]
  BY <1>4
<1> HIDE DEF more
<1>10. got \in Seq(Targets \X Nat) /\ Len(got) = Len(accepted[c]) + n /\ Len(accepted[c]) \in Nat
  <2> DEFINE acc == accepted[c]
  <2>1. acc \in Seq(Targets \X Nat)
    BY <1>3
  <2> HIDE DEF acc
  <2>2. Len(acc) \in Nat
    BY <2>1
  <2>3. acc \o more \in Seq(Targets \X Nat) /\ Len(acc \o more) = Len(acc) + Len(more)
    BY <1>8, <2>1, ConcatProperties
  <2> QED
    BY <1>8, <2>2, <2>3 DEF acc
<1>11. accepted'[c] = got
  BY <1>3, <1>9 DEF Between, IInv, TypeOK
<1> HIDE DEF c
<1>12. PICK a \in AnswersTo(requested[c]) : IsPrefix(got, a)
  BY <1>3, <1>6, <1>11 DEF Serving, SentOne, Answers
<1> HIDE DEF got
<1>13. a \in Seq(Targets \X Nat)
  BY <1>3, <1>12, AnswersType
<1>14. /\ Len(got) \in Nat /\ Len(a) \in Nat /\ Len(got) <= Len(a)
       /\ SubSeq(got, 1, Len(got)) = SubSeq(a, 1, Len(got))
  BY <1>10, <1>12, <1>13, SMTT(30) DEF IsPrefix
<1>15. a # << >>
  BY <1>7, <1>10, <1>14
<1>16. a \in {Response(t) : t \in Targets}
  BY <1>3, <1>12, <1>15, AnswersAreResponses
<1>17. got = SubSeq(a, 1, Len(got))
  <2>1. got = SubSeq(got, 1, Len(got))
    BY <1>10
  <2> QED
    BY <1>14, <2>1
<1>18. Len(got) \in Len(accepted[c]) + 1 .. Len(a)
  BY <1>7, <1>10, <1>14
<1>19. Service!Begins(accepted[c], a)
  <2>1. IsPrefix(accepted[c], a)
    BY <1>3, <1>8, <1>12, <1>13, PrefixOfConcat DEF got
  <2>2. /\ Len(accepted[c]) <= Len(a)
        /\ SubSeq(accepted[c], 1, Len(accepted[c])) = SubSeq(a, 1, Len(accepted[c]))
    BY <2>1 DEF IsPrefix
  <2>3. accepted[c] = SubSeq(accepted[c], 1, Len(accepted[c]))
    BY <1>3
  <2> QED
    BY <2>2, <2>3 DEF Service!Begins
<1>20. \A b \in Clients : Phase(b)' = Phase(b)
  <2>1. \A b \in Clients : Owned(b)' <=> Owned(b)
    BY <1>6 DEF Owned
  <2> QED
    BY <1>6, <2>1, PhaseStays
<1>21. \E r \in {Response(t) : t \in Targets} : \E m \in Len(accepted[c]) + 1 .. Len(r) :
          Service!Begins(accepted[c], r) /\ accepted' = [accepted EXCEPT ![c] = SubSeq(r, 1, m)]
  BY <1>9, <1>16, <1>17, <1>18, <1>19
<1>22. [j \in Slots |-> conn[j].socket][i] = c
  BY DEF c
<1> QED
  BY <1>2, <1>6, <1>20, <1>21, <1>22 DEF Service!Deliver

LEMMA CleanUpReleases ==
    ASSUME IInv, CleanUp
    PROVE  (\E slots \in SUBSET Slots : Service!Release(slots)) \/ UNCHANGED Service!vars
<1>1. UNCHANGED <<client, backlog, accepted>>
  BY DEF CleanUp
<1>2. PICK late \in SUBSET Slots :
        conn' = [j \in Slots |-> CleanUpOne(conn[j], j \in late)]
  BY DEF CleanUp
<1>3. \A j \in Slots : conn'[j].socket \in {conn[j].socket, None}
  <2> TAKE j \in Slots
  <2>1. conn'[j] = CleanUpOne(conn[j], j \in late) /\ (j \in late) \in BOOLEAN
    BY <1>2
  <2>2. conn[j] \in Connections /\ SlotOK(conn[j], backlog) /\ None \notin backlog
    BY SlotFacts, HandlersAreNotNone DEF IInv, TypeOK
  <2> QED
    BY <2>1, <2>2, CleanUpOneKeepsSlotOK
<1>4. PICK slots \in SUBSET Slots :
        slots = {j \in Slots : conn[j].socket # None /\ conn'[j].socket = None}
  OBVIOUS
<1>5. CASE slots = {}
  <2>1. OwnersStay
    BY <1>4, <1>3, <1>5 DEF OwnersStay
  <2> QED
    BY <1>1, <2>1, StepStutters
<1>6. CASE slots # {}
  <2>1. \A j \in Slots : conn'[j].socket = IF j \in slots THEN None ELSE conn[j].socket
    BY <1>4, <1>3
  <2>2. ASSUME NEW c \in Clients
        PROVE  Phase(c)' = IF \E j \in slots : conn[j].socket = c THEN "over" ELSE Phase(c)
    <3>1. c # None
      BY HandlersAreNotNone
    <3>2. CASE \E j \in slots : conn[j].socket = c
      <4>1. PICK j \in slots : conn[j].socket = c
        BY <3>2
      <4>2. j \in Slots /\ conn'[j].socket = None
        BY <1>4, <4>1
      <4>3. Owned(c) /\ client[c] # "new" /\ c \notin backlog
        BY <4>1, <4>2, PhaseFacts DEF Owned
      <4>4. \A k \in Slots : conn[k].socket = c => k = j
        BY <3>1, <4>1, <4>2, SlotClients
      <4>5. ~Owned(c)'
        BY <1>3, <3>1, <4>2, <4>4 DEF Owned
      <4>6. Phase(c)' = "over"
        BY <1>1, <4>3, <4>5 DEF Phase
      <4> QED
        BY <3>2, <4>6
    <3>3. CASE ~\E j \in slots : conn[j].socket = c
      <4>1. Owned(c)' <=> Owned(c)
        BY <2>1, <3>1, <3>3 DEF Owned
      <4> QED
        BY <1>1, <3>3, <4>1, PhaseStays
    <3> QED
      BY <3>2, <3>3
  <2>3. \A j \in slots : conn[j].socket # None
    BY <1>4
  <2>4. /\ slots # {} /\ \A j \in slots : [k \in Slots |-> conn[k].socket][j] # None
        /\ [c \in Clients |-> Phase(c)]' =
              [c \in Clients |->
                 IF \E j \in slots : [k \in Slots |-> conn[k].socket][j] = c THEN "over"
                 ELSE [b \in Clients |-> Phase(b)][c]]
    BY <1>6, <2>2, <2>3
  <2>5. [k \in Slots |-> conn[k].socket]' =
              [j \in Slots |-> IF j \in slots THEN None
                              ELSE [k \in Slots |-> conn[k].socket][j]]
    BY <2>1
  <2>6. Service!Release(slots)
    BY <1>1, <2>4, <2>5 DEF Service!Release
  <2> QED
    BY <2>6
<1> QED
  BY <1>5, <1>6

LEMMA StepServed ==
    PoolCoversDescriptors /\ Between /\ (Between /\ Serving)' /\ [Next]_vars
        => [Service!Next]_(Service!vars)
<1> SUFFICES ASSUME PoolCoversDescriptors, Between, Between', Serving', [Next]_vars
             PROVE  Service!Next \/ UNCHANGED Service!vars
  OBVIOUS
<1>1. IInv /\ IInv'
  BY DEF Between
<1>2. CASE Accept
  BY <1>1, <1>2, AcceptServed DEF Service!Next
<1>3. CASE CleanUp
  BY <1>1, <1>3, CleanUpReleases DEF Service!Next
<1>4. ASSUME NEW i \in Slots, Send(i) PROVE Service!Next
  BY <1>1, <1>4, SendDelivers DEF Service!Next
<1>5. ASSUME NEW c \in Clients, Connect(c) PROVE Service!Next
  BY <1>1, <1>5, ConnectArrives DEF Service!Next
<1>6. CASE /\ ~Accept /\ ~CleanUp
           /\ ~\E i \in Slots : Send(i)
           /\ ~\E c \in Clients : Connect(c)
  <2>1. OwnersStay
    BY <1>1, <1>6, RestKeepsOwners
  <2>2. UNCHANGED <<backlog, accepted>> /\ \A c \in Clients : client'[c] = "new" <=> client[c] = "new"
    <3>1. CASE Server
      <4>1. \A i \in Slots : SendFails(i) \/ AllSent(i) => LeaveWrite(i)
        BY DEF SendFails, AllSent
      <4> QED
        BY <1>6, <3>1, <4>1 DEF Server, SetupAndPoll, NothingToAccept, HandleRead, HandleWrite,
           HandleNothing, LeaveWrite, BrokenPipe, EndOfRound, clientVars
    <3>2. CASE Environment
      <4>1. ASSUME NEW c \in Clients, SendSegment(c) \/ Receive(c)
            PROVE  UNCHANGED <<backlog, accepted, client>>
        BY <4>1 DEF SendSegment, Receive
      <4>2. ASSUME NEW c \in Clients, Leave(c)
            PROVE  /\ UNCHANGED <<backlog, accepted>>
                   /\ \A b \in Clients : client'[b] = "new" <=> client[b] = "new"
        BY <1>1, <4>2 DEF Leave, IInv, TypeOK
      <4>3. ASSUME NEW i \in Slots, Tick(i) PROVE UNCHANGED <<backlog, accepted, client>>
        BY <4>3 DEF Tick, clientVars
      <4> QED
        BY <1>6, <3>2, <4>1, <4>2, <4>3 DEF Environment
    <3>3. CASE UNCHANGED vars
      BY <3>3 DEF vars, clientVars
    <3> QED
      BY <3>1, <3>2, <3>3 DEF Next
  <2> QED
    BY <2>1, <2>2, StepStutters
<1> QED
  BY <1>2, <1>3, <1>4, <1>5, <1>6

\* The server implements the service: a client is served once and by one slot, a slot
\* serves one client at a time, and what a client is sent grows part by part into one
\* response, from the first part on, while it is served
\* (polling_server.cpp:62-119, tcp_connection_pool.cpp:29-63).
THEOREM ServerImplementsService ==
    PoolCoversDescriptors /\ Spec => ImplementsService
<1>1. PoolCoversDescriptors => PoolCoversDescriptors'
  BY DEF PoolCoversDescriptors
<1> QED
  BY <1>1, InitServed, StepServed, ServingHolds, PTL
     DEF Spec, ImplementsService, Service!Spec

-----------------------------------------------------------------------------
(* The server survives *)

\* The clients that are connected are no more than the descriptors of the process, which
\* are slots of the pool, and the program ignores SIGPIPE.
Roomy ==
    /\ PoolCoversDescriptors
    /\ Load <= Cardinality(Descriptors)
    /\ SigpipeIgnored

\* What keeps accept() from failing: no more clients than descriptors, and one that waits
\* whenever the loop goes to accept.
Unharmed ==
    /\ IsFiniteSet(Busy) /\ Cardinality(Busy) <= Load
    /\ pc = "accept" /\ listening => backlog # {}
    /\ crashed = "no"

LEMMA InitUnharmed == Init => Unharmed
<1> SUFFICES ASSUME Init PROVE Unharmed
  OBVIOUS
<1>1. Busy = {}
  BY HandlersAreNotNone DEF Init, Busy, Connected, Owned, NewConnection
<1>2. 0 <= Load
  BY ServerAssumption
<1> QED
  BY <1>1, <1>2, FS_EmptySet DEF Init, Unharmed

\* A step that brings no client.
LEMMA NoneArrives ==
    ASSUME Unharmed, Busy' \subseteq Busy
    PROVE  IsFiniteSet(Busy)' /\ Cardinality(Busy)' <= Load
<1>1. /\ IsFiniteSet(Busy') /\ Cardinality(Busy') <= Cardinality(Busy)
      /\ Cardinality(Busy) \in Nat /\ Cardinality(Busy') \in Nat
  BY FS_Subset, FS_CardinalityType DEF Unharmed
<1>2. Load \in Nat
  BY ServerAssumption
<1> QED
  BY <1>1, <1>2 DEF Unharmed

LEMMA OwnersStayBusy ==
    ASSUME UNCHANGED backlog, \A i \in Slots : conn'[i].socket \in {conn[i].socket, None}
    PROVE  Busy' \subseteq Busy
BY HandlersAreNotNone DEF Busy, Connected, Owned

\* accept() finds a descriptor: the client that waits is served by no slot, so that the
\* slots which are taken are fewer than the descriptors.
LEMMA DescriptorLeft ==
    ASSUME Roomy, IInv, Unharmed, pc = "accept", listening
    PROVE  FreeDescriptors # {}
<1> SUFFICES ASSUME FreeDescriptors = {} PROVE FALSE
  OBVIOUS
<1>1. PICK b \in backlog : TRUE
  BY DEF Unharmed
<1>2. b \in Busy
  BY <1>1 DEF IInv, TypeOK, Busy, Connected
<1> DEFINE served == Busy \ {b}
<1>3. /\ IsFiniteSet(served) /\ Cardinality(served) = Cardinality(Busy) - 1
      /\ Cardinality(Busy) \in Nat
  BY <1>2, FS_RemoveElement, FS_CardinalityType DEF Unharmed
<1>4. IsFiniteSet(Descriptors) /\ Cardinality(Descriptors) \in Nat
  BY ServerAssumption, FS_Subset, FS_CardinalityType DEF Roomy, PoolCoversDescriptors
<1>5. Cardinality(served) < Cardinality(Descriptors)
  BY <1>3, <1>4, ServerAssumption DEF Unharmed, Roomy
<1>6. \A d \in Descriptors : d \in Slots /\ conn[d].socket # None
  BY DEF FreeDescriptors
<1>7. [d \in Descriptors |-> conn[d].socket] \in [Descriptors -> served]
  <2>1. \A d \in Descriptors : conn[d].socket \in Clients \ backlog
    BY <1>6, SlotClients
  <2>2. \A d \in Descriptors : conn[d].socket \in Busy
    BY <1>6, <2>1 DEF Busy, Connected, Owned
  <2> QED
    BY <1>1, <2>1, <2>2
<1> DEFINE owner == [d \in Descriptors |-> conn[d].socket]
<1> HIDE DEF served
<1>8. PICK d, e \in Descriptors : d # e /\ owner[d] = owner[e]
  <2>1. owner \in [Descriptors -> served]
    BY <1>7
  <2> HIDE DEF owner
  <2> QED
    BY <1>3, <1>4, <1>5, <2>1, FS_PigeonHole
<1>9. conn[d].socket = conn[e].socket
  BY <1>8
<1> QED
  BY <1>6, <1>8, <1>9, SlotClients

LEMMA AcceptUnharmed ==
    ASSUME Roomy, IInv, Unharmed, Accept PROVE Unharmed'
<1> DEFINE fd == CHOOSE d \in FreeDescriptors : \A e \in FreeDescriptors : d <= e
<1>1. FreeDescriptors # {}
  BY DescriptorLeft DEF Accept
<1>2. fd \in FreeDescriptors
  BY <1>1, LowestDescriptor, ServerAssumption DEF FreeDescriptors
<1>3. fd \in Slots
  BY <1>2 DEF FreeDescriptors, Roomy, PoolCoversDescriptors
<1>4. UNCHANGED crashed /\ pc' = "handle"
  BY <1>1, <1>3 DEF Accept
<1> HIDE DEF fd
<1>5. Busy' \subseteq Busy
  <2>1. CASE conn' = conn
    BY <2>1 DEF Accept, Busy, Connected, Owned
  <2>2. CASE conn' # conn
    <3>1. PICK i \in Slots, c \in backlog :
            /\ conn'[i].socket = c
            /\ \A j \in Slots \ {i} : conn'[j] = conn[j]
            /\ backlog' = backlog \ {c}
      BY <2>2, AcceptGives
    <3>2. \A b \in Clients : Connected(b)' => Connected(b)
      BY <3>1 DEF Connected, Owned
    <3> QED
      BY <3>2 DEF Busy
  <2> QED
    BY <2>1, <2>2
<1>6. IsFiniteSet(Busy)' /\ Cardinality(Busy)' <= Load
  BY <1>5, NoneArrives
<1> QED
  BY <1>4, <1>6 DEF Unharmed

LEMMA ConnectUnharmed ==
    ASSUME IInv, Unharmed, NEW c \in Clients, Connect(c) PROVE Unharmed'
<1>1. /\ backlog' = backlog \cup {c} /\ UNCHANGED <<conn, pc, listening, crashed>>
      /\ Cardinality(Busy) < Load
  BY DEF Connect, serverVars
<1>2. Busy' = Busy \cup {c}
  BY <1>1 DEF Busy, Connected, Owned
<1>3. /\ IsFiniteSet(Busy \cup {c}) /\ Cardinality(Busy) \in Nat
      /\ Cardinality(Busy \cup {c}) <= Cardinality(Busy) + 1
  <2>1. IsFiniteSet(Busy)
    BY DEF Unharmed
  <2> HIDE DEF Busy
  <2>2. Cardinality(Busy) \in Nat
    BY <2>1, FS_CardinalityType
  <2>3. /\ IsFiniteSet(Busy \cup {c})
        /\ Cardinality(Busy \cup {c}) = IF c \in Busy THEN Cardinality(Busy)
                                        ELSE Cardinality(Busy) + 1
    BY <2>1, FS_AddElement
  <2> QED
    BY <2>2, <2>3
<1>4. Load \in Nat /\ Cardinality(Busy \cup {c}) \in Nat
  BY <1>3, FS_CardinalityType, ServerAssumption
<1>5. IsFiniteSet(Busy)' /\ Cardinality(Busy)' <= Load
  BY <1>1, <1>2, <1>3, <1>4
<1> QED
  BY <1>1, <1>5 DEF Unharmed

LEMMA CleanUpUnharmed ==
    ASSUME IInv, Unharmed, CleanUp PROVE Unharmed'
<1>1. UNCHANGED <<backlog, crashed>> /\ pc' = "poll"
  BY DEF CleanUp
<1>2. \A j \in Slots : conn'[j].socket \in {conn[j].socket, None}
  <2>1. PICK late \in SUBSET Slots :
          conn' = [j \in Slots |-> CleanUpOne(conn[j], j \in late)]
    BY DEF CleanUp
  <2> TAKE j \in Slots
  <2>2. conn'[j] = CleanUpOne(conn[j], j \in late) /\ (j \in late) \in BOOLEAN
    BY <2>1
  <2>3. conn[j] \in Connections /\ SlotOK(conn[j], backlog) /\ None \notin backlog
    BY SlotFacts, HandlersAreNotNone DEF IInv, TypeOK
  <2> QED
    BY <2>2, <2>3, CleanUpOneKeepsSlotOK
<1>3. IsFiniteSet(Busy)' /\ Cardinality(Busy)' <= Load
  BY <1>1, <1>2, OwnersStayBusy, NoneArrives
<1> QED
  BY <1>1, <1>3 DEF Unharmed

LEMMA StepUnharmed ==
    Roomy /\ IInv /\ Unharmed /\ [Next]_vars => Unharmed'
<1> SUFFICES ASSUME Roomy, IInv, Unharmed, [Next]_vars PROVE Unharmed'
  OBVIOUS
<1>1. ASSUME NEW c \in Clients, Connect(c) PROVE Unharmed'
  BY <1>1, ConnectUnharmed
<1>2. CASE Accept \/ CleanUp
  BY <1>2, AcceptUnharmed, CleanUpUnharmed
<1>3. CASE ~Accept /\ ~CleanUp /\ ~\E c \in Clients : Connect(c)
  <2>1. OwnersStay
    BY <1>3, RestKeepsOwners
  <2>2. /\ UNCHANGED <<backlog, crashed>>
        /\ pc' = "accept" /\ listening' => backlog # {}
    <3>1. CASE Server
      <4>1. \A i \in Slots : ~BrokenPipe(i)
        BY DEF BrokenPipe, Roomy
      <4>2. \A i \in Slots : SendFails(i) \/ AllSent(i) => LeaveWrite(i)
        BY DEF SendFails, AllSent
      <4>3. SetupAndPoll => /\ UNCHANGED <<backlog, crashed>>
                            /\ listening' => backlog # {}
        BY DEF SetupAndPoll, clientVars
      <4>4. NothingToAccept \/ EndOfRound => UNCHANGED <<backlog, crashed>> /\ pc' # "accept"
        BY DEF NothingToAccept, EndOfRound, clientVars
      <4>5. ASSUME NEW i \in Slots,
                   \/ HandleRead(i) \/ HandleWrite(i) \/ HandleNothing(i)
                   \/ Send(i) \/ LeaveWrite(i)
            PROVE  UNCHANGED <<backlog, crashed>> /\ pc' # "accept"
        BY <4>5 DEF HandleRead, HandleWrite, HandleNothing, Send, Sending, LeaveWrite, clientVars
      <4> QED
        BY <1>3, <3>1, <4>1, <4>2, <4>3, <4>4, <4>5 DEF Server
    <3>2. CASE Environment
      <4>1. /\ UNCHANGED <<backlog, crashed, pc, listening>>
        BY <1>3, <3>2 DEF Environment, SendSegment, Receive, Leave, Tick, serverVars, clientVars
      <4> QED
        BY <4>1 DEF Unharmed
    <3>3. CASE UNCHANGED vars
      BY <3>3 DEF vars, serverVars, clientVars, Unharmed
    <3> QED
      BY <3>1, <3>2, <3>3 DEF Next
  <2>3. Busy' \subseteq Busy
    BY <2>1, <2>2, OwnersStayBusy DEF OwnersStay
  <2>4. IsFiniteSet(Busy)' /\ Cardinality(Busy)' <= Load
    BY <2>3, NoneArrives
  <2> QED
    BY <2>2, <2>4 DEF Unharmed
<1> QED
  BY <1>1, <1>2, <1>3

\* As long as the process is given no descriptor past the pool, no more clients are
\* connected than it has descriptors, and it ignores SIGPIPE, nothing the clients and the
\* kernel do ends it: no assert fails, no missing socket or handler is used, and accept()
\* always finds a descriptor (tcp_connection_pool.cpp:29-40, tcp_socket.cpp:156-175).
THEOREM ServerSurvives == Roomy /\ Spec => []NoCrash
<1>1. Roomy => Roomy'
  BY DEF Roomy, PoolCoversDescriptors
<1>2. Unharmed /\ (\A i \in Slots : conn[i].asserts) => NoCrash
  BY DEF Unharmed, NoCrash, Running
<1> QED
  BY <1>1, <1>2, InitUnharmed, StepUnharmed, InvariantHolds, AssertsNeverFail, PTL DEF Spec
=============================================================================
