--------------------------- MODULE SessionService ---------------------------
(***************************************************************************)
(* What the polling server promises its clients, without sockets, streams, *)
(* handlers, polling or time: a slot serves one client at a time and a     *)
(* client is served once, by one slot; what a client is sent while it is   *)
(* served grows part by part into one response, from the first part on,    *)
(* and is sent by the slot that serves it only.                            *)
(***************************************************************************)
EXTENDS Naturals, Sequences

CONSTANTS
    Slots, Clients, None,
    Responses   \* the complete responses, as sequences of parts

VARIABLES
    phase,   \* client -> "away", "waiting", "served" or "over"
    owner,   \* slot -> the client it serves, None when it is free
    answer   \* client -> the parts it was sent

vars == <<phase, owner, answer>>

Init ==
    /\ phase = [c \in Clients |-> "away"]
    /\ owner = [i \in Slots |-> None]
    /\ answer = [c \in Clients |-> << >>]

Arrive(c) ==
    /\ phase[c] = "away"
    /\ phase' = [phase EXCEPT ![c] = "waiting"]
    /\ UNCHANGED <<owner, answer>>

Serve(i, c) ==
    /\ phase[c] = "waiting" /\ owner[i] = None
    /\ phase' = [phase EXCEPT ![c] = "served"]
    /\ owner' = [owner EXCEPT ![i] = c]
    /\ UNCHANGED answer

Begins(s, response) == Len(s) <= Len(response) /\ s = SubSeq(response, 1, Len(s))

Deliver(i) ==
    /\ owner[i] # None
    /\ \E r \in Responses : \E n \in Len(answer[owner[i]]) + 1 .. Len(r) :
         /\ Begins(answer[owner[i]], r)
         /\ answer' = [answer EXCEPT ![owner[i]] = SubSeq(r, 1, n)]
    /\ UNCHANGED <<phase, owner>>

\* Several slots may be given up at a time: clean_up looks at the whole pool.
Release(slots) ==
    /\ slots # {}
    /\ \A i \in slots : owner[i] # None
    /\ phase' = [c \in Clients |->
                    IF \E i \in slots : owner[i] = c THEN "over" ELSE phase[c]]
    /\ owner' = [i \in Slots |-> IF i \in slots THEN None ELSE owner[i]]
    /\ UNCHANGED answer

Next ==
    \/ \E c \in Clients : Arrive(c)
    \/ \E i \in Slots, c \in Clients : Serve(i, c)
    \/ \E i \in Slots : Deliver(i)
    \/ \E slots \in SUBSET Slots : Release(slots)

Spec == Init /\ [][Next]_vars
=============================================================================
