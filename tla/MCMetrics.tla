------------------------------ MODULE MCMetrics ------------------------------
(***************************************************************************)
(* TLC instances of Metrics.                                               *)
(***************************************************************************)
EXTENDS MetricsProps

Plan(kinds, capacity) == [name |-> "resp_tm", kinds |-> kinds, capacity |-> capacity]

\* The metric of test_run.cpp:11-17 with a shorter series.
ServerPlans == {Plan(<<"average", "max", "average_per_second", "median">>, 2)}

\* Every kind of aggregator in one metric, the rate first, so that the others depend
\* on what it returns.
AllKinds == <<"average_per_second", "median", "increment", "sum", "max", "min", "average">>

\* A point metric and a series of the same name.
PointAndSeries == {Plan(AllKinds, 0), Plan(<<"sum", "median">>, 2)}

\* Received directly, beside the durations 0 .. Horizon.
NegativeValue == {-2}
OneValue      == {1}
MCLowest      == -8
=============================================================================
