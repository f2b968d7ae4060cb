------------------------------ MODULE RustKernel ------------------------------
(***************************************************************************)
(* The Rust kernel as one system: the registry and its snapshot, what      *)
(* planners and C callers are told, and the two analyses that recurse:     *)
(* goal trees (goal_tree.rs) and the authority graph (authority_graph.rs). *)
(***************************************************************************)
EXTENDS KernelAnalyses

LOCAL INSTANCE SequencesExt

CONSTANT Trees       \* goal trees

-------------------------------------------------------------------------------
(* Goal trees: [action, subgoals, depth_limit] *)

leaf(action) == [action |-> action, subgoals |-> << >>, depth_limit |-> 10]
with_depth_limit(node, limit) == [node EXCEPT !.depth_limit = limit]

RECURSIVE max_depth(_)
max_depth(node) ==
    IF node.subgoals = << >> THEN 0
    ELSE 1 + MostOf({max_depth(node.subgoals[i]) : i \in DOMAIN node.subgoals})

CanTake(node, child) == max_depth(child) < node.depth_limit
with_subgoal(node, child) ==
    IF CanTake(node, child) THEN [node EXCEPT !.subgoals = Append(@, child)] ELSE node

\* Mutant: off by one.
beyond_limit_exceeded(node, depth) == depth > node.depth_limit

beyond_limit(node, depth) == depth >= node.depth_limit

\* The visit stops at the first violation.  A node that is refused has its
\* result on the list, one that is too deep has not.
RECURSIVE dfs_verify(_, _, _, _, _)
dfs_verify(W, node, t, acc, depth) ==
    IF acc.violation # "none" THEN acc
    ELSE IF beyond_limit(node, depth) THEN [acc EXCEPT !.violation = "DepthLimitExceeded"]
    ELSE LET permitted == verify(W, node.action, t).permitted
             here == [results |-> acc.results + 1,
                      violation |-> IF permitted THEN "none" ELSE "KernelViolation"]
         IN  FoldLeft(LAMBDA a, child : dfs_verify(W, child, t, a, depth + 1), here, node.subgoals)

verify_goal_tree(W, root, t) == dfs_verify(W, root, t, [results |-> 0, violation |-> "none"], 0)

\* The nodes of a tree with their depths, each before its children.
RECURSIVE Preorder(_, _)
Preorder(node, depth) ==
    LET Below[i \in 0 .. Len(node.subgoals)] ==
          IF i = 0 THEN << >> ELSE Below[i - 1] \o Preorder(node.subgoals[i], depth + 1)
    IN  <<[node |-> node, depth |-> depth]>> \o Below[Len(node.subgoals)]

TooDeep(visit) == visit.depth >= visit.node.depth_limit

\* A goal tree passes only if every node of it is permitted and within its own
\* depth limit, and the results go up to the first node in pre-order that is
\* not (goal_tree.rs dfs_verify).
TreesStopAtFirstViolation ==
    \A tree \in Trees :
        LET visits == Preorder(tree, 0)
            first == FirstOf({i \in DOMAIN visits : TooDeep(visits[i]) \/ ~Permits(visits[i].node.action)})
            answer == verify_goal_tree(LiveWire, tree, now)
        IN  IF first = 0 THEN answer = [results |-> Len(visits), violation |-> "none"]
            ELSE answer = IF TooDeep(visits[first])
                          THEN [results |-> first - 1, violation |-> "DepthLimitExceeded"]
                          ELSE [results |-> first, violation |-> "KernelViolation"]

-------------------------------------------------------------------------------
(* The authority graph.  machine_owners has one pair for each machine. *)

NodeNames(W) == UNION {{mo[1].name, mo[2].name} : mo \in W.machine_owners}
                \cup {c.holder.name : c \in Elements(W.claims)}

\* Owner to machine, by name.
Neighbours(W, name) == {mo[1].name : mo \in {x \in W.machine_owners : x[2].name = name}}

\* Mutant: a node that was visited before closes a cycle.
OnStack_visited(st, n) == n \in st.visited

OnStack(st, n) == n \in st.rec_stack

\* The recursion stack is the path from a root.
RECURSIVE CycleFrom(_, _, _)
CycleFrom(W, names, st) ==
    LET Visit(s, n) ==
          IF s.found THEN s
          ELSE IF n \in s.visited THEN [s EXCEPT !.found = OnStack(s, n)]
          ELSE LET below == CycleFrom(W, SetToSeq(Neighbours(W, n)),
                                      [s EXCEPT !.visited = @ \cup {n}, !.rec_stack = @ \cup {n}])
               IN  [below EXCEPT !.rec_stack = @ \ {n}]
    IN  FoldLeft(Visit, st, names)

\* roots: the order in which the map of nodes is walked.
detect_cycles(W, roots) ==
    CycleFrom(W, roots, [visited |-> {}, rec_stack |-> {}, found |-> FALSE]).found

RECURSIVE Spread(_, _, _)
Spread(W, queue, visited) ==
    IF queue = {} THEN visited
    ELSE LET n == CHOOSE x \in queue : TRUE
         IN  Spread(W, (queue \cup Neighbours(W, n)) \ (visited \cup {n}), visited \cup {n})
reachable_from(W, start) == Spread(W, {start}, {})

\* The report: its cycle, its lists, and the verdict over them.
validate(W, roots) ==
    [has_cycles |-> detect_cycles(W, roots), ownerless |-> ownerless_machines(W),
     crossing |-> cross_domain_violations(W)]
report_is_valid(report) == ~report.has_cycles /\ report.ownerless = {} /\ report.crossing = {}

Orders(S) == {f \in [1 .. Cardinality(S) -> S] : \A i, j \in 1 .. Cardinality(S) : f[i] = f[j] => i = j}

\* The owner of a name, the name of its owner, and so on, n times.
RECURSIVE Above(_, _, _)
Above(V, name, n) ==
    IF n = 0 THEN {name}
    ELSE UNION {Above(V, mo[2].name, n - 1) : mo \in {x \in V.machine_owners : x[1].name = name}}

Circular(V) == \E n \in NodeNames(V), k \in 1 .. Cardinality(NodeNames(V)) : n \in Above(V, n, k)

\* A cycle is reported, in whatever order the nodes are walked, exactly when
\* following owners from some name leads back to it, and what is reachable is
\* what has the start among its owners (authority_graph.rs detect_cycles,
\* reachable_from).
GraphWalked ==
    \A V \in Registries :
        LET names == NodeNames(V)
        IN  /\ \A roots \in Orders(names) :
                  LET report == validate(V, roots)
                  IN  /\ report.has_cycles <=> Circular(V)
                      /\ report_is_valid(report) => \A c \in Elements(V.claims) : ActsAtHome(V, c)
            /\ \A s \in names : reachable_from(V, s) =
                   {s} \cup {n \in names : \E k \in 1 .. Cardinality(names) : s \in Above(V, n, k)}

-------------------------------------------------------------------------------
\* The analyses that recurse stop where they must: a visit of goals ends at the
\* first one that the gate refuses or that is too deep (goal_tree.rs), and the walks
\* of the authority graph find its cycles and what is below a node, and no more
\* (authority_graph.rs).
WalksAgreeWithGate == TreesStopAtFirstViolation /\ GraphWalked

===============================================================================
