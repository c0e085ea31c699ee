---------------------------- MODULE StateManager ----------------------------
(***************************************************************************)
(* The generic state machine of src/src/utils/state_manager.h, as pure     *)
(* operators on a machine record.  A machine remembers its state, how many *)
(* times in a row the state was set to itself, and how many milliseconds   *)
(* have passed since set_state, reset_state or clear was last called       *)
(* (`age` stands for now() - last_state_change).  The tables are partial   *)
(* functions, as the unordered_maps of the code are: a state outside their *)
(* domain has no successor, no reset limit or no timeout.                  *)
(*                                                                         *)
(* TcpConnection and HttpHandler instantiate this module, each with its    *)
(* own tables.                                                             *)
(***************************************************************************)
EXTENDS Naturals

CONSTANTS
    States,          \* the enum T the template is instantiated with
    InitialState,    \* first constructor argument
    ErrorState,      \* second constructor argument
    TransitionMap,   \* state -> set of states set_state may move to
    MaxResetCounts,  \* state -> number of resets tolerated
    TimeOuts         \* state -> milliseconds the state may last

ASSUME StatesAssumption == {InitialState, ErrorState} \subseteq States

ASSUME TransitionMapAssumption ==
    /\ DOMAIN TransitionMap \subseteq States
    /\ \A s \in DOMAIN TransitionMap : TransitionMap[s] \subseteq States

ASSUME MaxResetCountsAssumption ==
    /\ DOMAIN MaxResetCounts \subseteq States
    /\ \A s \in DOMAIN MaxResetCounts : MaxResetCounts[s] \in Nat

ASSUME TimeOutsAssumption ==
    /\ DOMAIN TimeOuts \subseteq States
    /\ \A s \in DOMAIN TimeOuts : TimeOuts[s] \in Nat

Machine == [state : States, reset_count : Nat, age : Nat]

\* A machine whose last_state_change has just been set to now().
Entered(s, n) == [state |-> s, reset_count |-> n, age |-> 0]

TimedOut(m) ==
    /\ m.state # ErrorState
    /\ m.state \in DOMAIN TimeOuts
    /\ m.age >= TimeOuts[m.state]

\* Every call but clear() sends such a machine to the error state.
Doomed(m) == m.state = ErrorState \/ TimedOut(m)

\* Mutant: a state missing from the table may move anywhere.
CanTransitionTo_MissingEntryAllowsAll(m, next_state) ==
    /\ ~TimedOut(m)
    /\ \/ next_state = ErrorState
       \/ m.state \notin DOMAIN TransitionMap
       \/ next_state \in TransitionMap[m.state]

CanTransitionTo(m, next_state) ==
    /\ ~TimedOut(m)
    /\ \/ next_state = ErrorState
       \/ /\ m.state \in DOMAIN TransitionMap
          /\ next_state \in TransitionMap[m.state]

ResetsExhausted(s, n) == s \in DOMAIN MaxResetCounts /\ n > MaxResetCounts[s]

\* Mutant: the limit is compared before the counter is incremented.
ResetState_ComparesBeforeCounting(m) ==
    IF Doomed(m)
    THEN Entered(ErrorState, m.reset_count)
    ELSE Entered(IF ResetsExhausted(m.state, m.reset_count) THEN ErrorState ELSE m.state,
                 m.reset_count + 1)

\* Mutant: reset_state() forgets to look at the timeout.
ResetState_IgnoresTimeout(m) ==
    IF m.state = ErrorState
    THEN m
    ELSE LET n == m.reset_count + 1
         IN  Entered(IF ResetsExhausted(m.state, n) THEN ErrorState ELSE m.state, n)

ResetState(m) ==
    IF Doomed(m)
    THEN Entered(ErrorState, m.reset_count)
    ELSE LET n == m.reset_count + 1
         IN  Entered(IF ResetsExhausted(m.state, n) THEN ErrorState ELSE m.state, n)

\* Mutant: setting the current state again renews the clock but is not counted.
SetState_ResetNotCounted(m, new_state) ==
    IF Doomed(m)
    THEN Entered(ErrorState, m.reset_count)
    ELSE IF new_state = m.state
         THEN Entered(m.state, m.reset_count)
         ELSE Entered(IF CanTransitionTo(m, new_state) THEN new_state ELSE ErrorState, 0)

SetState(m, new_state) ==
    IF Doomed(m)
    THEN Entered(ErrorState, m.reset_count)
    ELSE IF new_state = m.state
         THEN ResetState(m)
         ELSE Entered(IF CanTransitionTo(m, new_state) THEN new_state ELSE ErrorState, 0)

Cleared == Entered(InitialState, 0)

\* get_state(): the side effect of reading a state whose time has run out.
\* Its result is the state component of the observed machine.
Observed(m) == IF TimedOut(m) THEN SetState(m, ErrorState) ELSE m

Elapsed(m) == [m EXCEPT !.age = @ + 1]
=============================================================================
