------------------------------- MODULE Metrics -------------------------------
(***************************************************************************)
(* The metrics component: the metrics built by src/src/metrics/builder.h   *)
(* and kept in the store, the measures that are made by name and forward   *)
(* durations to them, and the report that GET /metrics answers with, in    *)
(* any order a program may call them.                                      *)
(*                                                                         *)
(* A metric is a PointMetric, or one wrapped in a TimeSeriesMetric when    *)
(* its capacity is not 0 (metric.h).  The fields received, since and rows  *)
(* of a metric are history: what it received and when, how much of that    *)
(* before an aggregator was registered, and the values it pushed.  So is   *)
(* the field made of a measure: how many metrics had been built by then.   *)
(***************************************************************************)
EXTENDS Aggregations, CircularArray

CONSTANTS
    Names,        \* names of metrics
    Plans,        \* what is built: [name : Names, kinds : Seq(Kinds), capacity : Nat]
    LateKinds,    \* aggregators registered after a metric was built
    Measures,     \* Duration objects
    Values,       \* what is received directly
    None,         \* an absent name
    Garbage,      \* the uninitialized `T val` of PointMetric::get_report
    MaxMetrics,   \* bound: metrics built
    MaxLate,      \* bound: aggregators registered late, by all metrics
    MaxReceived,  \* bound: values received, by all metrics
    Horizon       \* bound: the clock

ASSUME PlansAssumption ==
    /\ Plans \subseteq [name : Names, kinds : Seq(Kinds), capacity : Nat]
    /\ LateKinds \subseteq Kinds
    /\ Values \subseteq Lowest + 1 .. Highest - 1
    /\ Horizon \in Nat /\ Horizon < Highest

VARIABLES
    metrics,    \* the metric objects, in the order they were built
    register,   \* name -> index of its metric, 0 when there is none
    measure,    \* the Duration objects
    undefined,  \* a report read past the end of metric_data
    now

vars == <<metrics, register, measure, undefined, now>>

\* name is None until the object is made; target is 0 when the store had no such metric.
NewMeasure == [name |-> None, target |-> 0, made |-> 0, timing |-> FALSE, then |-> 0]

Init ==
    /\ metrics = << >>
    /\ register = [n \in Names |-> 0]
    /\ measure = [x \in Measures |-> NewMeasure]
    /\ undefined = FALSE
    /\ now = 0

-----------------------------------------------------------------------------
(* PointMetric and TimeSeriesMetric *)

\* PointMetric::receive: && stops at the first aggregator that fails.
AllInvolved(aggs, m) ==
    [i \in DOMAIN aggs |->
        IF \A j \in 1 .. i - 1 : Involved(aggs[j]) THEN Involve(aggs[i], m, now) ELSE aggs[i]]

\* PointMetric::get_report: one local `val` goes from aggregator to aggregator, and one
\* that has no value leaves it as it is.
PointReport(aggs) ==
    LET val[i \in 0 .. Len(aggs)] ==
            IF i = 0 THEN Garbage
            ELSE IF HasValue(aggs[i]) THEN Value(aggs[i]) ELSE val[i - 1]
    IN  [i \in DOMAIN aggs |-> val[i]]

\* Mutant: the old arrays are kept when the number of aggregators has changed.
Arrays_Kept(x, n) ==
    [i \in 1 .. n |->
        IF i <= Len(x.data) THEN x.data[i] ELSE NewArray(x.capacity, 0)]

\* The arrays are started over when the number of aggregators has changed.
Arrays(x, n) ==
    IF Len(x.data) = n THEN x.data ELSE [i \in 1 .. n |-> NewArray(x.capacity, 0)]

\* receive(m) on a metric of either kind.
Received(x, m) ==
    LET aggs   == AllInvolved(x.aggs, m)
        row    == PointReport(aggs)
        arrays == Arrays(x, Len(row))
        point  == [x EXCEPT !.aggs = aggs,
                            !.received = Append(@, [value |-> m, time |-> now]),
                            !.rows = Append(@, row)]
    IN  IF x.capacity = 0 THEN point
        ELSE [point EXCEPT !.data = [i \in DOMAIN row |-> PushBack(arrays[i], row[i])],
                           !.ts = PushBack(@, now)]

\* Mutant: get_report() of a series reads one array too many.
InRange_OneTooFar(x) == x.capacity = 0 \/ Len(x.aggs) < Len(x.data)

\* get_report() of a series reads one array for each aggregator: all of them are there.
InRange(x) == x.capacity = 0 \/ Len(x.aggs) <= Len(x.data)

\* get_report() of a metric of either kind.
Reported(x) ==
    LET row == PointReport(x.aggs)
    IN  IF x.capacity = 0
        THEN [values |-> [i \in DOMAIN row |-> <<row[i]>>], time |-> << >>]
        ELSE [values |-> [i \in DOMAIN row |-> Copied(x.data[i])],
              time   |-> [j \in 1 .. x.ts.fill_count |-> Copied(x.ts)[j] \div Second]]

-----------------------------------------------------------------------------
(* The program *)

\* Once a report has read out of range nothing is said of the program any more: every
\* action asks for ~undefined.

\* Builder::build registers the metric under its name, over one of the same name.
Build(plan) ==
    /\ ~undefined /\ Len(metrics) < MaxMetrics
    /\ metrics' = Append(metrics,
            [name     |-> plan.name,
             aggs     |-> [i \in DOMAIN plan.kinds |-> NewAggregator(plan.kinds[i], now)],
             capacity |-> plan.capacity,
             data     |-> << >>,
             ts       |-> NewArray(plan.capacity, 0),
             received |-> << >>, rows |-> << >>,
             since    |-> [i \in DOMAIN plan.kinds |-> [received |-> 0, time |-> now]]])
    /\ register' = [register EXCEPT ![plan.name] = Len(metrics')]
    /\ UNCHANGED <<measure, undefined, now>>

\* How many values, and how many late aggregators, the metrics have been given together.
ReceivedByAll == FoldLeft(LAMBDA n, x : n + Len(x.received), 0, metrics)

LateOnes == UNION {{<<k, i>> : i \in {j \in DOMAIN metrics[k].since :
                                        metrics[k].since[j].received > 0}} : k \in DOMAIN metrics}

register_aggregator(k, kind) ==
    /\ ~undefined
    /\ Cardinality(LateOnes) < MaxLate
    /\ metrics[k].received # << >>
    /\ metrics' = [metrics EXCEPT
            ![k].aggs  = Append(@, NewAggregator(kind, now)),
            ![k].since = Append(@, [received |-> Len(metrics[k].received), time |-> now])]
    /\ UNCHANGED <<register, measure, undefined, now>>

CanReceive == ReceivedByAll < MaxReceived

receive(k, m) ==
    /\ ~undefined /\ CanReceive
    /\ metrics' = [metrics EXCEPT ![k] = Received(@, m)]
    /\ UNCHANGED <<register, measure, undefined, now>>

\* The constructor of Measure looks its metric up once.
MakeMeasure(x, n) ==
    /\ ~undefined /\ measure[x].name = None
    /\ measure' = [measure EXCEPT ![x].name = n, ![x].target = register[n],
                                  ![x].made = Len(metrics)]
    /\ UNCHANGED <<metrics, register, undefined, now>>

start(x) ==
    /\ ~undefined /\ measure[x].name # None /\ ~measure[x].timing
    /\ measure' = [measure EXCEPT ![x].timing = TRUE, ![x].then = now]
    /\ UNCHANGED <<metrics, register, undefined, now>>

\* Mutant: the metric is looked up again when the measurement is forwarded.
end_LooksUpAgain(x) ==
    LET k == register[measure[x].name]
    IN  /\ ~undefined /\ measure[x].timing
        /\ measure' = [measure EXCEPT ![x].timing = FALSE]
        /\ IF k = 0 THEN UNCHANGED metrics
           ELSE /\ CanReceive
                /\ metrics' = [metrics EXCEPT ![k] = Received(@, now - measure[x].then)]
        /\ UNCHANGED <<register, undefined, now>>

\* A measure without a metric drops what it measured.
end(x) ==
    LET k == measure[x].target
    IN  /\ ~undefined /\ measure[x].timing
        /\ measure' = [measure EXCEPT ![x].timing = FALSE]
        /\ IF k = 0 THEN UNCHANGED metrics
           ELSE /\ CanReceive
                /\ metrics' = [metrics EXCEPT ![k] = Received(@, now - measure[x].then)]
        /\ UNCHANGED <<register, undefined, now>>

cancel(x) ==
    /\ ~undefined /\ measure[x].timing
    /\ measure' = [measure EXCEPT ![x].timing = FALSE]
    /\ UNCHANGED <<metrics, register, undefined, now>>

Stored == {register[n] : n \in Names} \ {0}

\* The report of the store asks every metric in it; what it prints is Reported(x).
generate_stats_report ==
    /\ ~undefined
    /\ undefined' = (\E k \in Stored : ~InRange(metrics[k]))
    /\ UNCHANGED <<metrics, register, measure, now>>

Tick ==
    /\ ~undefined /\ now < Horizon
    /\ now' = now + 1
    /\ UNCHANGED <<metrics, register, measure, undefined>>

Next ==
    \/ \E plan \in Plans : Build(plan)
    \/ \E k \in DOMAIN metrics : \/ \E kind \in LateKinds : register_aggregator(k, kind)
                                 \/ \E m \in Values : receive(k, m)
    \/ \E x \in Measures : \/ \E n \in Names : MakeMeasure(x, n)
                           \/ start(x)
                           \/ end(x)
                           \/ cancel(x)
    \/ generate_stats_report
    \/ Tick

Spec == Init /\ [][Next]_vars
=============================================================================
