----------------------------- MODULE RouterSpec -----------------------------
(***************************************************************************)
(* A program that sets up its routes: it adds routes and static files to a *)
(* main router and to a second one, joins the second one to the first with *)
(* sub_route and sets a fallback, in any order.  The properties compare    *)
(* what the main router finds with a table of what was added to it.        *)
(***************************************************************************)
EXTENDS Router

CONSTANTS
    Segments,      \* names of segments and parameters
    Methods,       \* methods routes are added for
    Patterns,      \* method -> targets routes are added for
    FilePatterns,  \* targets files are served for
    JoinPrefixes,  \* the prefixes of sub_route
    Files,         \* files that exist
    Requests,      \* targets of requests
    MaxCalls       \* bound: calls that set up the routers

Ids == {"main", "sub"}

Pieces  == [name : Segments, param : BOOLEAN]
Targets == Seq(Pieces) \ {<< >>}

Handlers == [id : Nat, kind : {"plain", "static", "fallback"}, owner : Ids]

ASSUME MethodsAssumption == "GET" \in Methods
ASSUME SegmentsAssumption == "" \in Segments
ASSUME TargetsAssumption ==
    /\ \A method \in Methods : Patterns[method] \subseteq Targets
    /\ FilePatterns \subseteq Targets
    /\ JoinPrefixes \subseteq Targets
    /\ Requests \subseteq Seq(Segments) \ {<< >>}
ASSUME HandlersAssumption == None \notin Handlers
ASSUME CallsAssumption == MaxCalls \in Nat

\* No parameter of the program is written <>: for a node a parameter without a name is
\* none.  What is found under this condition only is said where it is needed.
Named(way) == \A i \in DOMAIN way : way[i].param => way[i].name # ""

ParametersHaveNames ==
    /\ \A method \in Methods : \A target \in Patterns[method] : Named(target)
    /\ \A target \in FilePatterns \cup JoinPrefixes : Named(target)

VARIABLES
    routers,  \* the two routers
    table,    \* per router, what was added to it: a history
    calls     \* calls made so far

vars == <<routers, table, calls>>

\* A handler is told apart by the call that added it.  A static one looks up its
\* files in the router it was given to, wherever it is called from: it holds `this`.
NewHandler(kind, id) == [id |-> calls + 1, kind |-> kind, owner |-> id]

Entry(method, target, handler, file) ==
    [method |-> method, target |-> target, way |-> Walked(target, Fixed("")),
     handler |-> handler, file |-> file, removed |-> FALSE]

Init ==
    /\ routers = [id \in Ids |-> NewRouter]
    /\ table = [id \in Ids |-> << >>]
    /\ calls = 0

Call == calls < MaxCalls /\ calls' = calls + 1

\* get and post
AddRoute(id, method, target) ==
    /\ Call
    /\ LET handler == NewHandler("plain", id)
       IN  /\ routers' = [routers EXCEPT ![id] = add(@, method, target, handler)]
           /\ table' = IF ~Accepts(target) THEN table
                       ELSE [table EXCEPT ![id] =
                                Append(@, Entry(method, target, handler, ""))]

\* serve_static and serve_static_big
ServeStatic(id, target, file) ==
    /\ Call
    /\ LET handler == NewHandler("static", id)
       IN  /\ routers' = [routers EXCEPT ![id] = serve_static(@, target, handler, file)]
           /\ table' = IF ~Accepts(target) THEN table
                       ELSE [table EXCEPT ![id] =
                                Append(@, Entry("GET", target, handler, file))]

\* The numbers of the entries of a router that sub_route takes, in their order: routes
\* that begin with a slash.
FromRoot(entries) ==
    LET numbers[n \in 0 .. Len(entries)] ==
            IF n = 0 THEN << >>
            ELSE IF entries[n].way[1].name = "" THEN Append(numbers[n - 1], n)
                                                ELSE numbers[n - 1]
    IN  numbers

\* What sub_route brings to the table: these routes behind the prefix, in the place of
\* all that were there before.
Brought(prefix) ==
    LET entries == table["sub"]
        numbers == FromRoot(entries)[Len(entries)]
    IN  [k \in DOMAIN numbers |->
            [entries[numbers[k]] EXCEPT !.way = Way(prefix) \o Tail(@)]]

Replaced(e, prefix) ==
    /\ IsPrefix(Keys(Way(prefix)), Keys(e.way))
    /\ \E k \in DOMAIN Brought(prefix) : Brought(prefix)[k].method = e.method

\* The second router is copied or moved into the call.  After a move it is empty, as
\* the containers of the standard library are.
SubRoute(prefix, moved) ==
    /\ Call
    /\ routers' = [main |-> sub_route(routers["main"], prefix, routers["sub"]),
                   sub  |-> IF moved THEN NewRouter ELSE routers["sub"]]
    /\ LET old == table["main"]
       IN  table' = [main |-> [k \in DOMAIN old |->
                                 [old[k] EXCEPT !.removed = @ \/ Replaced(old[k], prefix)]]
                              \o Brought(prefix),
                     sub  |-> IF moved THEN << >> ELSE table["sub"]]

Fallback(id) ==
    /\ Call
    /\ routers' = [routers EXCEPT ![id] = set_fallback(@, NewHandler("fallback", id))]
    /\ UNCHANGED table

Next ==
    \/ \E id \in Ids, method \in Methods : \E target \in Patterns[method] :
         AddRoute(id, method, target)
    \/ \E id \in Ids, target \in FilePatterns, file \in Files : ServeStatic(id, target, file)
    \/ \E prefix \in JoinPrefixes, moved \in BOOLEAN : SubRoute(prefix, moved)
    \/ \E id \in Ids : Fallback(id)

Spec == Init /\ [][Next]_vars

-----------------------------------------------------------------------------
(* Properties *)

Main == routers["main"]
Table == table["main"]

\* The routers hold what their operations may produce: every tree is closed under
\* prefixes, so that no node is without its parent.
TypeOK ==
    /\ DOMAIN routers = Ids /\ DOMAIN table = Ids /\ calls \in 0 .. MaxCalls
    /\ \A id \in Ids : \A method \in DOMAIN routers[id].handlers :
         LET tree == routers[id].handlers[method]
         IN  /\ method \in Methods
             /\ \A path \in DOMAIN tree : Prefixes(path) \subseteq DOMAIN tree
             /\ \A path \in DOMAIN tree :
                  tree[path].parameter # "" =>
                      Append(path, tree[path].parameter) \in DOMAIN tree

\* Two targets contend for a segment when they agree up to there and one of them
\* takes it for a parameter which the other does not have.
Contend(way, other) ==
    \E i \in DOMAIN way \cap DOMAIN other :
        /\ Keys(SubSeq(way, 1, i - 1)) = Keys(SubSeq(other, 1, i - 1))
        /\ way[i].param \/ other[i].param
        /\ way[i] # other[i]

Unambiguous ==
    \A j, k \in DOMAIN Table :
        Table[j].method = Table[k].method => ~Contend(Table[j].way, Table[k].way)

Matches(way, names) ==
    /\ Len(way) = Len(names)
    /\ \A i \in DOMAIN way : way[i].param \/ way[i].name = names[i]

\* The parameters of a route, each with the last segment that is bound to it.
Bound(way, names) ==
    LET at(n) == {i \in DOMAIN way : way[i].param /\ way[i].name = n}
    IN  [n \in {way[i].name : i \in {j \in DOMAIN way : way[j].param}} |->
            names[CHOOSE i \in at(n) : \A j \in at(n) : j <= i]]

\* The last route added for a method and a target it fits.
Candidates(method, names) ==
    {k \in DOMAIN Table : /\ Table[k].method = method /\ ~Table[k].removed
                          /\ Matches(Table[k].way, names)}

\* As long as no two routes contend, in whatever order the routes were added, joined
\* and replaced: a request is answered by the last route that fits it, with its
\* parameters bound to its segments; by the fallback when there is none; and not at
\* all when nothing was added for its method.
RoutesFoundAsAdded ==
    Unambiguous =>
        \A method \in Methods, target \in Requests :
            LET names == Walked(target, "")
                fits  == Candidates(method, names)
                found == route(Main, method, target)
            IN  IF fits # {}
                THEN LET last == Table[CHOOSE k \in fits : \A j \in fits : j <= k]
                     IN  found = [handler |-> last.handler, params |-> Bound(last.way, names)]
                ELSE found.handler =
                        IF \E k \in DOMAIN Table : Table[k].method = method
                        THEN Main.fallback ELSE None

\* With any routes: what is found was added and not replaced since, is the last route
\* with its keys, and fits the request but for segments a contending route takes for
\* a parameter of that name.
FoundRoutesFit ==
    \A method \in Methods, target \in Requests :
        LET names   == Walked(target, "")
            handler == route(Main, method, target).handler
            added   == {k \in DOMAIN Table : Table[k].handler = handler /\ ~Table[k].removed}
        IN  handler \in {None, Main.fallback} \/
            \E k \in added :
                LET way == Table[k].way
                IN  /\ Table[k].method = method
                    /\ Len(way) = Len(names)
                    /\ \A j \in k + 1 .. Len(Table) :
                         Table[j].method = method => Keys(Table[j].way) # Keys(way)
                    /\ \A i \in DOMAIN way :
                         \/ way[i].name = names[i]
                         \/ \E j \in DOMAIN Table :
                              /\ Table[j].method = method
                              /\ i \in DOMAIN Table[j].way
                              /\ Table[j].way[i] = [name |-> way[i].name, param |-> TRUE]
                              /\ Keys(SubSeq(Table[j].way, 1, i - 1)) =
                                    Keys(SubSeq(way, 1, i - 1))

\* A static route without parameters that was added to the main router answers the
\* request for its own target with its own file.
StaticServesItsFile ==
    \A k \in DOMAIN Table :
        LET e == Table[k]
        IN  (e.handler.kind = "static" /\ e.handler.owner = "main"
                /\ \A i \in DOMAIN e.target : ~e.target[i].param) =>
            (route(Main, "GET", Keys(e.target)).handler = e.handler =>
                FileOf(Main, Keys(e.target)) = e.file)

\* A step takes a route from a request, or changes its parameters, only by a new route
\* that has the same keys or contends with the old one, or by sub_route replacing it.
ContendersTake ==
    \A method \in Methods, target \in Requests :
        LET found == route(Main, method, target)
            new   == {Table'[j] : j \in Len(Table) + 1 .. Len(Table')}
            Answers(old) == /\ old.method = method /\ ~old.removed
                            /\ found.handler = old.handler
                            /\ Keys(old.way) = Walk(TreeOf(Main, method), target).path
        IN  route(Main', method, target) # found =>
            \A k \in {j \in DOMAIN Table : Answers(Table[j])} :
               \/ Table'[k].removed
               \/ \E e \in new :
                    /\ e.method = method
                    /\ Keys(e.way) = Keys(Table[k].way) \/ Contend(e.way, Table[k].way)

\* Setting up a further route never takes away from a request the route that answers
\* it, nor changes its parameters, unless the new route has the same keys, contends
\* with the old one, or sub_route replaces it.
OnlyContendersTakeRoutes == [][ContendersTake]_vars
=============================================================================
