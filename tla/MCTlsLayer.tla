----------------------------- MODULE MCTlsLayer -----------------------------
(***************************************************************************)
(* TLC instances of TlsLayer.                                              *)
(***************************************************************************)
EXTENDS TlsLayer

\* "page" and "huge" are answered in one go, "big" in two calls; the records of "huge"
\* exceed the limit of resets.
MCTargets == {"page", "big", "huge"}

MCRouteKind == [page |-> "once", big |-> "chunked", huge |-> "once"]

MCParts == [page |-> 1, big |-> 3, huge |-> 5]

Seg(k, t) == [kind |-> k, target |-> t]

MCAsked == {Seg("full", t) : t \in MCTargets} \cup {Seg("head", "page")}
=============================================================================
