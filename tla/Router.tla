------------------------------- MODULE Router -------------------------------
(***************************************************************************)
(* The class Router of src/src/http/router.cpp as operators on a router    *)
(* record: the tree of routes per method, the files of its static routes   *)
(* and the fallback.                                                       *)
(*                                                                         *)
(* A target is the sequence of its pieces between the slashes: "/a/" is    *)
(* <<"", "a", "">>, "" is <<"">>.  In a target a route is added for, a     *)
(* piece is a record that says whether it was written <name>.  The tree of *)
(* nodes that own their children is a function from the path of a node     *)
(* (its keys from the root on) to the node.                                *)
(***************************************************************************)
EXTENDS Naturals, SequencesExt

CONSTANTS
    None   \* std::nullopt, and an empty std::function

Fixed(name) == [name |-> name, param |-> FALSE]

\* add and find go on as long as there is something behind the slash, so one slash
\* at the end of a target makes no difference.
Walked(target, slash) == IF Last(target) = slash THEN Front(target) ELSE target

Keys(pieces) == [i \in DOMAIN pieces |-> pieces[i].name]

\* map[key] = value
Assign(map, key, value) ==
    [k \in DOMAIN map \cup {key} |-> IF k = key THEN value ELSE map[k]]

-----------------------------------------------------------------------------
(* Router::Node *)

\* parameter: the name all segments below the node are bound to, "" for none.
NewNode == [handler |-> None, parameter |-> ""]

EmptyTree == [path \in {<< >>} |-> NewNode]

\* The tree with all nodes on the way along the pieces.  A piece <name> makes `name`
\* the parameter of the node it is below, whatever that was before, and its key.
Grown(tree, pieces) ==
    LET keys == Keys(pieces)
        way  == Prefixes(keys)
    IN  [path \in DOMAIN tree \cup way |->
            LET node == IF path \in DOMAIN tree THEN tree[path] ELSE NewNode
            IN  IF path \in way \ {keys} /\ pieces[Len(path) + 1].param
                THEN [node EXCEPT !.parameter = keys[Len(path) + 1]] ELSE node]

\* Mutant: a route that is there already keeps its handler.
AddHandler_FirstWins(tree, target, handler) ==
    LET pieces == Walked(target, Fixed(""))
    IN  [Grown(tree, pieces) EXCEPT ![Keys(pieces)].handler =
            IF @ = None THEN handler ELSE @]

\* Node::add(target, handler)
AddHandler(tree, target, handler) ==
    LET pieces == Walked(target, Fixed(""))
    IN  [Grown(tree, pieces) EXCEPT ![Keys(pieces)].handler = handler]

\* The pieces Node::add(target, node) walks along: it takes its first piece as it is.
Way(prefix) == IF Len(prefix) = 1 THEN prefix ELSE Walked(prefix, Fixed(""))

\* Mutants: the nodes on the way are not put into the tree, a node on the way is
\* replaced and not gone on from, and what was at the prefix stays beside the new node.
AddNode_ForgetsWay(tree, prefix, node) ==
    LET keys  == Keys(Way(prefix))
        below == {keys \o path : path \in DOMAIN node}
        kept  == {path \in DOMAIN tree : ~IsPrefix(keys, path)}
    IN  [path \in kept \cup below |->
            IF path \in kept THEN tree[path]
            ELSE node[SubSeq(path, Len(keys) + 1, Len(path))]]

AddNode_ReplacesWay(tree, prefix, node) ==
    LET keys  == Keys(Way(prefix))
        below == {keys \o path : path \in DOMAIN node}
        fresh == Grown([path \in {q \in DOMAIN tree : ~IsPrefix(SubSeq(keys, 1, 1), q)} |->
                           tree[path]], Way(prefix))
        kept  == {path \in DOMAIN fresh : ~IsPrefix(keys, path)}
    IN  [path \in kept \cup below |->
            IF path \in kept THEN fresh[path]
            ELSE node[SubSeq(path, Len(keys) + 1, Len(path))]]

AddNode_Merges(tree, prefix, node) ==
    LET keys  == Keys(Way(prefix))
        below == {keys \o path : path \in DOMAIN node}
        grown == Grown(tree, Way(prefix))
    IN  [path \in DOMAIN grown \cup below |->
            IF path \in below THEN node[SubSeq(path, Len(keys) + 1, Len(path))]
            ELSE grown[path]]

\* Node::add(target, node) puts a whole subtree in the place of what was at the prefix.
AddNode(tree, prefix, node) ==
    LET keys  == Keys(Way(prefix))
        below == {keys \o path : path \in DOMAIN node}
        grown == Grown(tree, Way(prefix))
        kept  == {path \in DOMAIN grown : ~IsPrefix(keys, path)}
    IN  [path \in kept \cup below |->
            IF path \in kept THEN grown[path]
            ELSE node[SubSeq(path, Len(keys) + 1, Len(path))]]

Subtree(tree, key) ==
    [path \in {Tail(p) : p \in {q \in DOMAIN tree : q # << >> /\ q[1] = key}} |->
        tree[<<key>> \o path]]

\* One call of Node::find: from the node at walk.path on along one segment.  A path
\* that is not in the tree is where the search stopped.
Step(tree, walk, segment) ==
    IF walk.path \notin DOMAIN tree THEN walk
    ELSE LET parameter == tree[walk.path].parameter
         IN  IF parameter = "" THEN [walk EXCEPT !.path = Append(@, segment)]
             ELSE [path   |-> Append(walk.path, parameter),
                   params |-> Assign(walk.params, parameter, segment)]

\* The walks along the first n of the segments, for every n.
Walks(tree, segments) ==
    LET walks[n \in 0 .. Len(segments)] ==
            IF n = 0 THEN [path |-> << >>, params |-> << >>]
                     ELSE Step(tree, walks[n - 1], segments[n])
    IN  walks

Walk(tree, target) ==
    LET segments == Walked(target, "")
    IN  Walks(tree, segments)[Len(segments)]

\* Node::find(target, params); the params are filled in also when nothing is found.
Find(tree, target) ==
    LET walk == Walk(tree, target)
    IN  [handler |-> IF walk.path \in DOMAIN tree THEN tree[walk.path].handler ELSE None,
         params  |-> walk.params]

-----------------------------------------------------------------------------
(* Router *)

\* files: target_to_file (target_to_mime_type has the same keys and follows from it);
\* a target that is not in it has the file "", which operator[] puts there.
NewRouter == [handlers |-> << >>, files |-> << >>, fallback |-> None]

TreeOf(router, method) ==
    IF method \in DOMAIN router.handlers THEN router.handlers[method] ELSE EmptyTree

\* Router::add; only the empty string is refused, "<>" is not.
Accepts(target) == target # <<Fixed("")>>

add(router, method, target, handler) ==
    IF ~Accepts(target) THEN router
    ELSE [router EXCEPT !.handlers =
            Assign(@, method, AddHandler(TreeOf(router, method), target, handler))]

\* Mutant: a file that is served for the target already stays.
serve_static_FirstFile(router, target, handler, file) ==
    IF ~Accepts(target) THEN router
    ELSE [add(router, "GET", target, handler) EXCEPT !.files = @ @@ (target :> file)]

\* serve_static and serve_static_big, for a file that exists and whose type is known.
\* The file is found by the target of the request, not by the route.
serve_static(router, target, handler, file) ==
    IF ~Accepts(target) THEN router
    ELSE [add(router, "GET", target, handler) EXCEPT !.files = Assign(@, target, file)]

\* sub_route: per method, what is below the root node "" of the other router.
sub_route(router, prefix, other) ==
    LET methods == {m \in DOMAIN other.handlers : <<"">> \in DOMAIN other.handlers[m]}
    IN  [router EXCEPT !.handlers =
            [m \in DOMAIN @ \cup methods |->
                IF m \notin methods THEN TreeOf(router, m)
                ELSE AddNode(TreeOf(router, m), prefix, Subtree(other.handlers[m], ""))]]

set_fallback(router, handler) == [router EXCEPT !.fallback = handler]

FileOf(router, target) ==
    LET key == [i \in DOMAIN target |-> Fixed(target[i])]
    IN  IF key \in DOMAIN router.files THEN router.files[key] ELSE ""

\* The handler route() calls and with which parameters; None is no answer.  The
\* fallback is not asked about a method nothing is routed for.
route(router, method, target) ==
    IF method \notin DOMAIN router.handlers THEN [handler |-> None, params |-> << >>]
    ELSE LET found == Find(router.handlers[method], target)
         IN  IF found.handler # None THEN found
             ELSE [found EXCEPT !.handler = router.fallback]
=============================================================================
