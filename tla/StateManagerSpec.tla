-------------------------- MODULE StateManagerSpec --------------------------
(***************************************************************************)
(* One StateManager object driven by an arbitrary caller while the clock   *)
(* runs: every public member function of state_manager.h is an action, and *)
(* so is the passing of a millisecond between two calls.                   *)
(***************************************************************************)
EXTENDS StateManager

CONSTANTS
    ResetBound,  \* bound on the resets explored in states without a limit
    Horizon      \* bound on the milliseconds explored in one state

ASSUME BoundsAssumption == ResetBound \in Nat /\ Horizon \in Nat

VARIABLES
    machine,   \* the object
    reported,  \* what the last set_state, reset_state or get_state returned
    dwell      \* history: milliseconds since the current state was entered

vars == <<machine, reported, dwell>>

Init ==
    /\ machine = Entered(InitialState, 0)
    /\ reported = InitialState
    /\ dwell = 0

\* A state is entered anew when it differs from the one before.
Track(m) ==
    /\ machine' = m
    /\ dwell' = IF m.state = machine.state THEN dwell ELSE 0

set_state(s) ==
    /\ machine.reset_count < ResetBound
    /\ Track(SetState(machine, s))
    /\ reported' = machine'.state

reset_state ==
    /\ machine.reset_count < ResetBound
    /\ Track(ResetState(machine))
    /\ reported' = machine'.state

get_state ==
    /\ Track(Observed(machine))
    /\ reported' = machine'.state

\* clear() starts the object over, whatever state it was in.
clear ==
    /\ machine' = Cleared
    /\ dwell' = 0
    /\ UNCHANGED reported

Tick ==
    /\ dwell < Horizon
    /\ machine' = Elapsed(machine)
    /\ dwell' = dwell + 1
    /\ UNCHANGED reported

Next ==
    \/ \E s \in States : set_state(s)
    \/ reset_state
    \/ get_state
    \/ clear
    \/ Tick

Spec == Init /\ [][Next]_vars

-----------------------------------------------------------------------------
(* Properties *)

\* Types; a machine in a state with a reset limit has not exceeded it.
TypeOK ==
    /\ machine \in Machine
    /\ reported \in States
    /\ dwell \in Nat
    /\ machine.state \in DOMAIN MaxResetCounts \ {ErrorState} =>
          machine.reset_count <= MaxResetCounts[machine.state]

\* Resets renew the timeout (state_manager.h:136), so a state can outlive its
\* timeout, but only as often as the reset limit allows: a machine that is still
\* good has been in a state with limit R and timeout T for less than (R + 1) * T.
BoundedStay ==
    LET s == machine.state
    IN  ( /\ ~Doomed(machine)
          /\ s \in DOMAIN MaxResetCounts
          /\ s \in DOMAIN TimeOuts )
        => dwell < (MaxResetCounts[s] + 1) * TimeOuts[s]

\* Once a machine is in error, or its timeout has run out without anybody having
\* looked, only clear() rescues it: no later call reports anything but the error
\* state, and the passing of time does not make it good again.
DoomedUntilCleared ==
    [][Doomed(machine) =>
          \/ clear
          \/ Doomed(machine') /\ reported' \in {reported, ErrorState}]_vars

\* The state only moves along the transition table, to the error state, or by
\* clear() to the initial state.
LegalMoves ==
    [][machine'.state # machine.state =>
          \/ machine'.state = ErrorState
          \/ machine.state \in DOMAIN TransitionMap
             /\ machine'.state \in TransitionMap[machine.state]
          \/ clear]_vars

=============================================================================
