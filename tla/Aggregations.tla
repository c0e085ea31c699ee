----------------------------- MODULE Aggregations -----------------------------
(***************************************************************************)
(* The aggregators of src/src/metrics/aggregations.h as operators on a     *)
(* record, one kind of record for each class.  T is an integer type; its   *)
(* limits matter, because the maximum, the minimum and the median start    *)
(* from them.  A sum is exact: the long of the code is wide enough for the *)
(* nanoseconds of centuries.                                               *)
(***************************************************************************)
EXTENDS Integers, Sequences, SequencesExt

CONSTANTS
    Lowest, Highest,  \* std::numeric_limits<T>::min() and max()
    Second            \* ticks of the clock in a second, 1'000'000'000 in the code

ASSUME LimitsAssumption ==
    /\ Lowest \in Int /\ Highest \in Int /\ Lowest < 0 /\ Highest > 0
    /\ Second \in Nat \ {0}

Kinds == {"increment", "sum", "max", "min", "average", "median", "average_per_second"}

\* Integer division as C++ has it: towards zero.
Quotient(a, b) == IF a >= 0 THEN a \div b ELSE -((-a) \div b)

\* A priority queue is kept as a non-decreasing sequence.
Push(queue, x) ==
    InsertAt(queue, Cardinality({i \in DOMAIN queue : queue[i] <= x}) + 1, x)

-----------------------------------------------------------------------------
(* Med: `less` holds the smaller half, its top is the last; `more` the larger one *)

\* One turn of a loop of involve(): a top goes from one half to the other.
TopDown(less, more) == <<Push(less, Head(more)), Tail(more)>>
TopUp(less, more)   == <<Front(less), Push(more, Last(less))>>

\* The loops move tops until `half` values are in the smaller half.
MoveTops(less, more, half) ==
    LET turns == IF half >= Len(less) THEN half - Len(less) ELSE Len(less) - half
        halves[n \in 0 .. turns] ==
            IF n = 0 THEN <<less, more>>
            ELSE IF half >= Len(less) THEN TopDown(halves[n - 1][1], halves[n - 1][2])
                                      ELSE TopUp(halves[n - 1][1], halves[n - 1][2])
    IN  halves[turns]

\* Mutant: an odd number of values leaves the larger half with one more.
Balanced_KeepsMore(less, more) == MoveTops(less, more, (Len(less) + Len(more)) \div 2)

\* Both halves are made equal, or the smaller one has one more.
Balanced(less, more) == MoveTops(less, more, (Len(less) + Len(more) + 1) \div 2)

Halves(a, m) ==
    IF m <= Last(a.less) THEN Balanced(Push(a.less, m), a.more)
                         ELSE Balanced(a.less, Push(a.more, m))

-----------------------------------------------------------------------------
(* Every aggregator *)

NewAggregator(kind, now) ==
    CASE kind = "increment" -> [kind |-> kind, count |-> 0]
      [] kind = "sum"       -> [kind |-> kind, sum |-> 0]
      [] kind = "max"       -> [kind |-> kind, max |-> Lowest]
      [] kind = "min"       -> [kind |-> kind, min |-> Highest]
      [] kind = "average"   -> [kind |-> kind, sum |-> 0, count |-> 0]
      [] kind = "median"    -> [kind |-> kind, less |-> <<Lowest>>, more |-> <<Highest - 1>>]
      [] kind = "average_per_second" ->
            [kind |-> kind, timing |-> TRUE, then |-> now, duration |-> 0, count |-> 0]

\* Mutant: the timer of the rate is not started again.
InvolveRate_TimerStops(a, m, now) ==
    IF a.timing
    THEN [a EXCEPT !.duration = @ + (now - a.then), !.count = @ + m, !.timing = FALSE]
    ELSE a

InvolveRate(a, m, now) ==
    IF a.timing
    THEN [a EXCEPT !.duration = @ + (now - a.then), !.count = @ + m, !.then = now]
    ELSE a

\* involve(m)
Involve(a, m, now) ==
    CASE a.kind = "increment" -> [a EXCEPT !.count = IF m > 0 THEN @ + 1 ELSE @ - 1]
      [] a.kind = "sum"       -> [a EXCEPT !.sum = @ + m]
      [] a.kind = "max"       -> [a EXCEPT !.max = IF m > @ THEN m ELSE @]
      [] a.kind = "min"       -> [a EXCEPT !.min = IF m < @ THEN m ELSE @]
      [] a.kind = "average"   -> [a EXCEPT !.sum = @ + m, !.count = @ + 1]
      [] a.kind = "median"    -> LET h == Halves(a, m)
                                 IN  [a EXCEPT !.less = h[1], !.more = h[2]]
      [] a.kind = "average_per_second" -> InvolveRate(a, m, now)

\* What involve() returns for the aggregator as it was before: only the timer of the
\* rate could fail.
Involved(a) == a.kind = "average_per_second" => a.timing

\* get_val() returns FALSE without a value when there is nothing to divide by.
HasValue(a) ==
    /\ a.kind = "average" => a.count # 0
    /\ a.kind = "average_per_second" => a.duration \div Second # 0

Value(a) ==
    CASE a.kind = "increment" -> a.count
      [] a.kind = "sum"       -> a.sum
      [] a.kind = "max"       -> a.max
      [] a.kind = "min"       -> a.min
      [] a.kind = "average"   -> Quotient(a.sum, a.count)
      [] a.kind = "median"    -> Last(a.less)
      [] a.kind = "average_per_second" -> Quotient(a.count, a.duration \div Second)
=============================================================================
