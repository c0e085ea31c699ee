------------------------------ MODULE MCRouter ------------------------------
(***************************************************************************)
(* TLC instances of RouterSpec.                                            *)
(***************************************************************************)
EXTENDS RouterSpec

CONSTANTS
    f, g   \* two files

\* Nothing tells the files apart.
FileSymmetry == Permutations({f, g})

Param(name) == [name |-> name, param |-> TRUE]

\* "", "/", "/a/b", "/<b>", "/b/a" and "/<b>/<c>" for GET, "/<a>" for POST
MCPatterns ==
    [GET  |-> {<<Fixed("")>>, <<Fixed(""), Fixed("")>>,
               <<Fixed(""), Fixed("a"), Fixed("b")>>,
               <<Fixed(""), Param("b")>>, <<Fixed(""), Fixed("b"), Fixed("a")>>,
               <<Fixed(""), Param("b"), Param("c")>>},
     POST |-> {<<Fixed(""), Param("a")>>}]

\* "/a" and "/a/"
MCFilePatterns == {<<Fixed(""), Fixed("a")>>, <<Fixed(""), Fixed("a"), Fixed("")>>}

\* "", "/a" and "/<b>/"
MCPrefixes ==
    {<<Fixed("")>>, <<Fixed(""), Fixed("a")>>, <<Fixed(""), Param("b"), Fixed("")>>}

\* Targets of up to three segments of "a", "b" and "c", of which no route has the last
\* one, "/a/" and "".
MCRequests ==
    {<<"">> \o s : s \in BoundedSeq({"a", "b", "c"}, 1)}
        \cup {<<"", s, r>> : s \in {"a", "c"}, r \in {"b", "c"}}
        \cup {<<"", "b", "a">>, <<"", "">>, <<"", "a", "">>, <<"", "c", "a", "b">>}

\* The condition under which routes are found as they were added.
ASSUME NamesAssumption == ParametersHaveNames
=============================================================================
