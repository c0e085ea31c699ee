-------------------------- MODULE StateManagerProofs --------------------------
(***************************************************************************)
(* Proofs about StateManagerSpec, for every table of transitions, limits   *)
(* and timeouts.                                                           *)
(***************************************************************************)
EXTENDS StateManagerSpec, TLAPS

\* Neither reset_state nor set_state leaves a machine beyond its reset limit.
WithinLimit(m) ==
    m.state \in DOMAIN MaxResetCounts \ {ErrorState} =>
        m.reset_count <= MaxResetCounts[m.state]

\* reset_state yields a machine within its limit, with the clock at zero.
LEMMA ResetStateType ==
    ASSUME NEW m \in Machine
    PROVE  /\ ResetState(m) \in Machine
           /\ WithinLimit(ResetState(m))
<1>1. m.state \in States /\ m.reset_count \in Nat
  BY DEF Machine
<1>2. CASE Doomed(m)
  BY <1>1, <1>2, StatesAssumption DEF ResetState, Entered, Machine, WithinLimit
<1>3. CASE ~Doomed(m)
  <2> DEFINE n == m.reset_count + 1
             s == IF ResetsExhausted(m.state, n) THEN ErrorState ELSE m.state
  <2>1. ResetState(m) = [state |-> s, reset_count |-> n, age |-> 0]
    BY <1>3 DEF ResetState, Entered
  <2>2. n \in Nat /\ s \in States
    BY <1>1, StatesAssumption
  <2>3. s \in DOMAIN MaxResetCounts \ {ErrorState} => n <= MaxResetCounts[s]
    BY <2>2, MaxResetCountsAssumption DEF ResetsExhausted
  <2> QED
    BY <2>1, <2>2, <2>3 DEF Machine, WithinLimit
<1> QED
  BY <1>2, <1>3

\* set_state likewise, whatever state is asked for.
LEMMA SetStateType ==
    ASSUME NEW m \in Machine, NEW s \in States
    PROVE  /\ SetState(m, s) \in Machine
           /\ WithinLimit(SetState(m, s))
<1>1. m.state \in States /\ m.reset_count \in Nat
  BY DEF Machine
<1>2. CASE Doomed(m)
  BY <1>1, <1>2, StatesAssumption DEF SetState, Entered, Machine, WithinLimit
<1>3. CASE ~Doomed(m) /\ s = m.state
  BY <1>3, ResetStateType DEF SetState
<1>4. CASE ~Doomed(m) /\ s # m.state
  <2> DEFINE t == IF CanTransitionTo(m, s) THEN s ELSE ErrorState
  <2>1. SetState(m, s) = [state |-> t, reset_count |-> 0, age |-> 0]
    BY <1>4 DEF SetState, Entered
  <2>2. t \in States
    BY StatesAssumption
  <2> QED
    BY <2>1, <2>2, MaxResetCountsAssumption DEF Machine, WithinLimit
<1> QED
  BY <1>2, <1>3, <1>4

\* get_state leaves a machine within its limit there.
LEMMA ObservedType ==
    ASSUME NEW m \in Machine, WithinLimit(m)
    PROVE  /\ Observed(m) \in Machine
           /\ WithinLimit(Observed(m))
BY SetStateType, StatesAssumption DEF Observed

LEMMA ClearedType == Cleared \in Machine /\ WithinLimit(Cleared)
BY StatesAssumption, MaxResetCountsAssumption DEF Cleared, Entered, Machine, WithinLimit

LEMMA ElapsedType ==
    ASSUME NEW m \in Machine, WithinLimit(m)
    PROVE  Elapsed(m) \in Machine /\ WithinLimit(Elapsed(m))
BY DEF Elapsed, Machine, WithinLimit

LEMMA TypeOKWithinLimit ==
    TypeOK <=> machine \in Machine /\ reported \in States /\ dwell \in Nat /\ WithinLimit(machine)
BY DEF TypeOK, WithinLimit

LEMMA TypeInit == Init => TypeOK
BY ClearedType, StatesAssumption, TypeOKWithinLimit DEF Init, Cleared

LEMMA TypeStep == TypeOK /\ [Next]_vars => TypeOK'
<1> SUFFICES ASSUME TypeOK, [Next]_vars PROVE TypeOK'
  OBVIOUS
<1>0. machine \in Machine /\ reported \in States /\ dwell \in Nat /\ WithinLimit(machine)
  BY TypeOKWithinLimit
<1>1. SUFFICES /\ machine' \in Machine /\ WithinLimit(machine')
               /\ reported' \in States /\ dwell' \in Nat
  BY DEF TypeOK, WithinLimit
<1>2. ASSUME NEW s \in States, set_state(s)
      PROVE  /\ machine' \in Machine /\ WithinLimit(machine')
             /\ reported' \in States /\ dwell' \in Nat
  BY <1>0, <1>2, SetStateType DEF set_state, Track, Machine
<1>3. CASE reset_state
  BY <1>0, <1>3, ResetStateType DEF reset_state, Track, Machine
<1>4. CASE get_state
  BY <1>0, <1>4, ObservedType DEF get_state, Track, Machine
<1>5. CASE clear
  BY <1>0, <1>5, ClearedType DEF clear
<1>6. CASE Tick
  BY <1>0, <1>6, ElapsedType DEF Tick
<1>7. CASE UNCHANGED vars
  BY <1>0, <1>7 DEF vars
<1> QED
  BY <1>2, <1>3, <1>4, <1>5, <1>6, <1>7 DEF Next

\* The machine keeps its type, and no state but the error state is ever reset more
\* often than its limit allows (state_manager.h:128-133).
THEOREM TypeCorrect == Spec => []TypeOK
BY TypeInit, TypeStep, PTL DEF Spec

-----------------------------------------------------------------------------
(* How long a state can last *)

\* The strengthening of BoundedStay: every reset so far came before its timeout, so
\* resets times the timeout, plus the running clock, covers the whole stay.
StayCovered(m, d) ==
    (~Doomed(m) /\ m.state \in DOMAIN TimeOuts) =>
        d <= m.reset_count * TimeOuts[m.state] + m.age

\* A product of naturals grows with its first factor.
LEMMA ProductMonotonic ==
    ASSUME NEW a \in Nat, NEW b \in Nat, NEW t \in Nat, a <= b
    PROVE  a * t <= b * t
OBVIOUS

\* A reset takes the clock's share over into the counter.
LEMMA ResetCovers ==
    ASSUME NEW m \in Machine, NEW d \in Nat, StayCovered(m, d)
    PROVE  StayCovered(ResetState(m), IF ResetState(m).state = m.state THEN d ELSE 0)
<1> DEFINE r == ResetState(m)
<1>1. CASE Doomed(m)
  BY <1>1 DEF ResetState, Entered, StayCovered, Doomed
<1>2. CASE ~Doomed(m) /\ r.state # m.state
  <2>1. r.state = ErrorState
    BY <1>2 DEF ResetState, Entered
  <2> QED
    BY <2>1 DEF StayCovered, Doomed
<1>3. CASE ~Doomed(m) /\ r.state = m.state
  <2>1. r = [state |-> m.state, reset_count |-> m.reset_count + 1, age |-> 0]
    BY <1>3 DEF ResetState, Entered
  <2>2. SUFFICES ASSUME m.state \in DOMAIN TimeOuts
                 PROVE  d <= (m.reset_count + 1) * TimeOuts[m.state] + 0
    <3>1. /\ r.state = m.state /\ r.reset_count = m.reset_count + 1 /\ r.age = 0
      BY <2>1
    <3> QED
      BY <3>1 DEF StayCovered
  <2> DEFINE t == TimeOuts[m.state]
  <2>3. m.reset_count \in Nat /\ m.age \in Nat /\ t \in Nat
    BY <2>2, TimeOutsAssumption DEF Machine
  <2>4. d <= m.reset_count * t + m.age /\ m.age < t
    BY <1>3, <2>2, <2>3 DEF StayCovered, Doomed, TimedOut
  <2>5. (m.reset_count + 1) * t = m.reset_count * t + t
    BY <2>3
  <2>6. m.reset_count * t \in Nat
    BY <2>3
  <2> QED
    BY <2>3, <2>4, <2>5, <2>6
<1> QED
  BY <1>1, <1>2, <1>3

\* Any other set_state enters another state, where the stay begins at zero.
LEMMA SetCovers ==
    ASSUME NEW m \in Machine, NEW s \in States, NEW d \in Nat, StayCovered(m, d)
    PROVE  StayCovered(SetState(m, s), IF SetState(m, s).state = m.state THEN d ELSE 0)
<1> DEFINE r == SetState(m, s)
<1>1. CASE Doomed(m)
  BY <1>1 DEF SetState, Entered, StayCovered, Doomed
<1>2. CASE ~Doomed(m) /\ s = m.state
  BY <1>2, ResetCovers DEF SetState
<1>3. CASE ~Doomed(m) /\ s # m.state
  <2>1. r.state = ErrorState \/ (r.state # m.state /\ r.reset_count = 0 /\ r.age = 0)
    BY <1>3 DEF SetState, Entered
  <2>2. r.state \in States
    BY SetStateType DEF Machine
  <2>3. CASE r.state = ErrorState
    BY <2>3 DEF StayCovered, Doomed
  <2>4. CASE r.state # m.state /\ r.reset_count = 0 /\ r.age = 0
    <3>1. SUFFICES ASSUME r.state \in DOMAIN TimeOuts
                   PROVE  0 <= r.reset_count * TimeOuts[r.state] + r.age
      BY <2>4 DEF StayCovered
    <3> QED
      BY <2>4, <3>1, TimeOutsAssumption
  <2> QED
    BY <2>1, <2>3, <2>4
<1> QED
  BY <1>1, <1>2, <1>3

StayInv == TypeOK /\ StayCovered(machine, dwell)

LEMMA StayInit == Init => StayInv
<1> SUFFICES ASSUME Init PROVE StayInv
  OBVIOUS
<1>1. TypeOK
  BY TypeInit
<1>2. dwell = 0 /\ machine.reset_count = 0 /\ machine.age = 0
  BY DEF Init, Entered
<1>3. StayCovered(machine, dwell)
  BY <1>2, TimeOutsAssumption DEF StayCovered
<1> QED
  BY <1>1, <1>3 DEF StayInv

LEMMA StayStep == StayInv /\ [Next]_vars => StayInv'
<1> SUFFICES ASSUME StayInv, [Next]_vars PROVE StayCovered(machine', dwell')
  BY TypeStep DEF StayInv, StayCovered, Doomed, TimedOut
<1>0. machine \in Machine /\ dwell \in Nat /\ StayCovered(machine, dwell)
  BY DEF StayInv, TypeOK
<1>1. ASSUME NEW s \in States, set_state(s) PROVE StayCovered(machine', dwell')
  BY <1>0, <1>1, SetCovers DEF set_state, Track
<1>2. CASE reset_state
  BY <1>0, <1>2, ResetCovers DEF reset_state, Track
<1>3. CASE get_state
  BY <1>0, <1>3, SetCovers, StatesAssumption DEF get_state, Track, Observed
<1>4. CASE clear
  BY <1>4, TimeOutsAssumption DEF clear, Cleared, Entered, StayCovered
<1>5. CASE Tick
  <2>1. /\ machine'.state = machine.state
        /\ machine'.reset_count = machine.reset_count
        /\ machine'.age = machine.age + 1
        /\ dwell' = dwell + 1
    BY <1>0, <1>5 DEF Tick, Elapsed, Machine
  <2>2. SUFFICES ASSUME ~Doomed(machine'), machine.state \in DOMAIN TimeOuts
                 PROVE  dwell + 1 <= machine.reset_count * TimeOuts[machine.state]
                                        + (machine.age + 1)
    BY <2>1 DEF StayCovered
  <2>3. /\ machine.age \in Nat /\ machine.reset_count \in Nat
        /\ TimeOuts[machine.state] \in Nat
    BY <1>0, <2>2, TimeOutsAssumption DEF Machine
  <2>4. ~Doomed(machine)
    BY <2>1, <2>2, <2>3 DEF Doomed, TimedOut
  <2>5. dwell <= machine.reset_count * TimeOuts[machine.state] + machine.age
    BY <1>0, <2>2, <2>4 DEF StayCovered
  <2>6. machine.reset_count * TimeOuts[machine.state] \in Nat
    BY <2>3
  <2> QED
    BY <1>0, <2>3, <2>5, <2>6
<1>6. CASE UNCHANGED vars
  BY <1>0, <1>6 DEF vars
<1> QED
  BY <1>1, <1>2, <1>3, <1>4, <1>5, <1>6 DEF Next

LEMMA StayBounded == StayInv => BoundedStay
<1> SUFFICES ASSUME StayInv PROVE BoundedStay
  OBVIOUS
<1> DEFINE s == machine.state
           k == machine.reset_count
           limit == MaxResetCounts[s]
           t == TimeOuts[s]
<1>1. SUFFICES ASSUME ~Doomed(machine), s \in DOMAIN MaxResetCounts, s \in DOMAIN TimeOuts
               PROVE  dwell < (limit + 1) * t
  BY DEF BoundedStay
<1>2. k \in Nat /\ limit \in Nat /\ t \in Nat /\ machine.age \in Nat /\ dwell \in Nat
  BY <1>1, MaxResetCountsAssumption, TimeOutsAssumption DEF StayInv, TypeOK, Machine
<1>3. k <= limit
  BY <1>1 DEF StayInv, TypeOK, Doomed
<1>4. dwell <= k * t + machine.age /\ machine.age < t
  BY <1>1, <1>2 DEF StayInv, StayCovered, Doomed, TimedOut
<1>5. k * t <= limit * t
  BY <1>2, <1>3, ProductMonotonic
<1>6. (limit + 1) * t = limit * t + t
  BY <1>2
<1>7. k * t \in Nat /\ limit * t \in Nat
  BY <1>2
<1> HIDE DEF k, limit, t
<1> QED
  BY <1>2, <1>4, <1>5, <1>6, <1>7

\* However often a state is reset, a good machine has been in it for less than
\* (limit + 1) times its timeout (state_manager.h:117-138 and 161-181).
THEOREM StayIsBounded == Spec => []BoundedStay
BY StayInit, StayStep, StayBounded, PTL DEF Spec

-----------------------------------------------------------------------------
(* What a step may do *)

\* set_state and reset_state do not bring a doomed machine back.
LEMMA DoomedStays ==
    ASSUME NEW m \in Machine, NEW s, Doomed(m)
    PROVE  /\ SetState(m, s).state = ErrorState
           /\ ResetState(m).state = ErrorState
           /\ Observed(m).state = ErrorState
BY DEF SetState, ResetState, Observed, Entered, Doomed

LEMMA DoomedStep ==
    TypeOK /\ [Next]_vars =>
        (Doomed(machine) => \/ clear
                            \/ Doomed(machine') /\ reported' \in {reported, ErrorState})
<1> SUFFICES ASSUME TypeOK, [Next]_vars, Doomed(machine), ~clear
             PROVE  Doomed(machine') /\ reported' \in {reported, ErrorState}
  OBVIOUS
<1>0. machine \in Machine
  BY DEF TypeOK
<1>1. ASSUME NEW s \in States, set_state(s)
      PROVE  Doomed(machine') /\ reported' \in {reported, ErrorState}
  BY <1>0, <1>1, DoomedStays DEF set_state, Track, Doomed
<1>2. CASE reset_state
  BY <1>0, <1>2, DoomedStays DEF reset_state, Track, Doomed
<1>3. CASE get_state
  BY <1>0, <1>3, DoomedStays DEF get_state, Track, Doomed
<1>4. CASE Tick
  BY <1>0, <1>4, TimeOutsAssumption DEF Tick, Elapsed, Doomed, TimedOut, Machine
<1>5. CASE UNCHANGED vars
  BY <1>5 DEF vars
<1> QED
  BY <1>1, <1>2, <1>3, <1>4, <1>5 DEF Next

\* Nothing but clear() rescues a machine that is in error or whose time is over.
THEOREM DoomIsFinal == Spec => DoomedUntilCleared
BY TypeInit, TypeStep, DoomedStep, PTL DEF Spec, DoomedUntilCleared

\* A successor of m that is another state is one the table names, or the error state.
LEMMA SetStateIsLegal ==
    ASSUME NEW m \in Machine, NEW s, NEW n \in {SetState(m, s), ResetState(m), Observed(m)},
           n.state # m.state, n.state # ErrorState
    PROVE  m.state \in DOMAIN TransitionMap /\ n.state \in TransitionMap[m.state]
BY DEF SetState, ResetState, Observed, Entered, CanTransitionTo, Machine

LEMMA LegalStep ==
    TypeOK /\ [Next]_vars =>
        (machine'.state # machine.state =>
            \/ machine'.state = ErrorState
            \/ machine.state \in DOMAIN TransitionMap
               /\ machine'.state \in TransitionMap[machine.state]
            \/ clear)
<1> SUFFICES ASSUME TypeOK, [Next]_vars, ~clear,
                    machine'.state # machine.state, machine'.state # ErrorState
             PROVE  /\ machine.state \in DOMAIN TransitionMap
                    /\ machine'.state \in TransitionMap[machine.state]
  OBVIOUS
<1>0. machine \in Machine
  BY DEF TypeOK
<1>1. ASSUME NEW s \in States, set_state(s)
      PROVE  /\ machine.state \in DOMAIN TransitionMap
             /\ machine'.state \in TransitionMap[machine.state]
  BY <1>0, <1>1, SetStateIsLegal DEF set_state, Track
<1>2. CASE reset_state
  BY <1>0, <1>2, SetStateIsLegal DEF reset_state, Track
<1>3. CASE get_state
  BY <1>0, <1>3, SetStateIsLegal DEF get_state, Track
<1>4. CASE Tick
  BY <1>0, <1>4 DEF Tick, Elapsed, Machine
<1>5. CASE UNCHANGED vars
  BY <1>5 DEF vars
<1> QED
  BY <1>1, <1>2, <1>3, <1>4, <1>5 DEF Next

\* The state moves along the table, to the error state or, by clear(), to the start.
THEOREM MovesAreLegal == Spec => LegalMoves
BY TypeInit, TypeStep, LegalStep, PTL DEF Spec, LegalMoves
=============================================================================
