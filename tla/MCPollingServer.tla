--------------------------- MODULE MCPollingServer ---------------------------
(***************************************************************************)
(* TLC instances of PollingServer.                                         *)
(***************************************************************************)
EXTENDS PollingServerProps

\* "page" is answered in one go, "big" is a file of three chunks (two calls), "post"
\* is routed nowhere, "live" keeps its connection.
MCTargets == {"page", "big", "post", "live"}

MCRouteKind == [page |-> "once", big |-> "chunked", post |-> "none", live |-> "keep"]

MCParts == [page |-> 1, big |-> 3, post |-> 0, live |-> 1]

Seg(k, t) == [kind |-> k, target |-> t]

SplitSegments == {Seg("head", "page"), Seg("tail", "page")}
\* A tail without its head is as bad as junk.
MixedSegments ==
    SplitSegments \cup {Seg("full", "post"), Seg("full", "big"), Seg("full", "live")}
LiveSegments  == {Seg("full", "big"), Seg("full", "live")}
BigSegments   == {Seg("full", "big")}
PageSegments  == {Seg("full", "page")}

OneEach == [c \in Clients |-> 1]
TwoEach == [c \in Clients |-> 2]
\* The client that may leave sends two segments and each other client one: enough for
\* a request to be left half read on a slot and its rest to come from the next client.
TwoThenOne == [c \in Clients |-> IF c \in CanLeave THEN 2 ELSE 1]
=============================================================================
