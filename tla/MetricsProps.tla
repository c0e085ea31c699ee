----------------------------- MODULE MetricsProps -----------------------------
(***************************************************************************)
(* What must hold of Metrics, against definitions over all that a metric   *)
(* has received.                                                           *)
(***************************************************************************)
EXTENDS Metrics

\* Types, and the shape of a series: its arrays are never written past their capacity
\* (push_back, circular_array.h:28-33).
TypeOK ==
    /\ \A k \in DOMAIN metrics :
         LET x == metrics[k]
         IN  /\ x.name \in Names
             /\ \A i \in DOMAIN x.aggs : x.aggs[i].kind \in Kinds
             /\ \A ca \in {x.ts} \cup {x.data[i] : i \in DOMAIN x.data} :
                  /\ ca.fill_count \in 0 .. x.capacity
                  /\ ca.next \in 0 .. IF x.capacity = 0 THEN 0 ELSE x.capacity - 1
                  /\ DOMAIN ca.array = 0 .. x.capacity - 1
    /\ register \in [Names -> 0 .. Len(metrics)]
    /\ \A x \in Measures : measure[x].target \in 0 .. Len(metrics)
    /\ undefined \in BOOLEAN /\ now \in 0 .. Horizon

\* What the i-th aggregator of a metric has been given.
Given(x, i) ==
    LET r == x.received
    IN  [j \in 1 .. Len(r) - x.since[i].received |-> r[x.since[i].received + j].value]

Total(s) ==
    LET sum[n \in 0 .. Len(s)] == IF n = 0 THEN 0 ELSE sum[n - 1] + s[n]
    IN  sum[Len(s)]

\* Whole seconds between the registration of the aggregator and the last value.
Seconds(x, i) ==
    IF Given(x, i) = << >> THEN 0
    ELSE (Last(x.received).time - x.since[i].time) \div Second

\* The value v with at most half of s below it, and at least half not above it.
LowerMedian(s) ==
    LET half == (Len(s) + 1) \div 2
    IN  CHOOSE v \in Range(s) :
            /\ Cardinality({j \in DOMAIN s : s[j] < v}) < half
            /\ Cardinality({j \in DOMAIN s : s[j] <= v}) >= half

Expected(kind, s, seconds) ==
    CASE kind = "increment" -> Cardinality({j \in DOMAIN s : s[j] > 0})
                                 - Cardinality({j \in DOMAIN s : s[j] <= 0})
      [] kind = "sum"     -> Total(s)
      [] kind = "max"     -> CHOOSE v \in Range(s) \cup {Lowest} :
                                \A w \in Range(s) : v >= w
      [] kind = "min"     -> CHOOSE v \in Range(s) \cup {Highest} :
                                \A w \in Range(s) : v <= w
      [] kind = "average" -> Quotient(Total(s), Len(s))
      [] kind = "median"  -> IF s = << >> THEN Lowest ELSE LowerMedian(s)
      [] kind = "average_per_second" -> Quotient(Total(s), seconds)

\* Each aggregator is given every value the metric receives after it was registered,
\* whatever the others return, and computes its statistic of exactly those values;
\* the average has none before the first value, the rate none in the first second.
AggregatesCorrect ==
    \A k \in DOMAIN metrics :
        LET x == metrics[k]
        IN  \A i \in DOMAIN x.aggs :
                LET a == x.aggs[i]
                    s == Given(x, i)
                IN  /\ HasValue(a) <=> /\ a.kind = "average" => s # << >>
                                       /\ a.kind = "average_per_second" => Seconds(x, i) # 0
                    /\ HasValue(a) => Value(a) = Expected(a.kind, s, Seconds(x, i))

LastOf(s, n) == SubSeq(s, Len(s) - n + 1, Len(s))

Lesser(a, b) == IF a <= b THEN a ELSE b

\* The rows with as many values as the last one: an array is started over with the rest
\* when an aggregator was registered late.
SameRows(x) == {r \in 1 .. Len(x.rows) : Len(x.rows[r]) = Len(x.rows[Len(x.rows)])}

KeptRows(x) == LastOf(x.rows, Lesser(x.capacity, Cardinality(SameRows(x))))

ReceivedAt(x) == [r \in 1 .. Len(x.rows) |-> x.received[r].time \div Second]

KeepsTheLast(x) ==
    (x.capacity > 0 /\ InRange(x)) =>
        /\ Reported(x).time = LastOf(ReceivedAt(x), Lesser(x.capacity, Len(x.rows)))
        /\ \A i \in DOMAIN x.aggs :
             /\ Reported(x).values[i] = [j \in DOMAIN KeptRows(x) |-> KeptRows(x)[j][i]]
             /\ \A p \in 0 .. Len(KeptRows(x)) - 1 :
                  At(x.data[i], p) = Copied(x.data[i])[p + 1]

\* A series of capacity n reports the last n values that were pushed, oldest first, and
\* the seconds of the last n; a late aggregator starts the values over, not the times.
\* Reading by index and copying agree.
SeriesKeepTheLast == \A k \in DOMAIN metrics : KeepsTheLast(metrics[k])

\* A report reads past the end of metric_data only for a series that has received
\* nothing since its last aggregator was registered.
OutOfRangeOnlyEarly ==
    undefined =>
        \E k \in Stored :
            /\ metrics[k].capacity > 0
            /\ \E i \in DOMAIN metrics[k].since :
                 metrics[k].since[i].received = Len(metrics[k].received)

\* Of the first n metrics that were built, k is the last one of its name.
LastBuilt(k, name, n) ==
    /\ k <= n /\ metrics[k].name = name
    /\ \A j \in k + 1 .. n : metrics[j].name # name

\* A duration that ends reaches the metric of its name that was the last one built when
\* the measure was made (measure.h:14), also after that metric was replaced in the
\* store, and no other; of a name that was built only later it reaches none.
DurationsReachTheirMetric ==
    [][\A x \in Measures : end(x) =>
         \A k \in DOMAIN metrics :
            metrics'[k].received =
                IF LastBuilt(k, measure[x].name, measure[x].made)
                THEN Append(metrics[k].received,
                            [value |-> now - measure[x].then, time |-> now])
                ELSE metrics[k].received]_vars

-----------------------------------------------------------------------------
(* What the docs say and the code does not do *)

\* doc.md:72: a metric is available through the store from build() on.
ReportAlwaysAvailable == ~undefined

=============================================================================
