------------------------------ MODULE Planning ------------------------------
(***************************************************************************)
(* parking/planning: the PDDL domain (domain.pddl), grounded over the      *)
(* lot's cars, spots and bays, and the breadth-first search of             *)
(* ForwardSearchPlanner over it.                                           *)
(*                                                                         *)
(* A fact is a tuple, as in the planner; a state is a set of facts.  No    *)
(* precondition of the domain is negative, and the goal is a set of facts. *)
(***************************************************************************)
EXTENDS Naturals, Sequences, FiniteSets

CONSTANTS CarOrder,     \* the vehicles, in the order of the problem's :objects
          SpotOrder,    \* parking spots, nearest first
          BufferOrder,  \* hand-over bays
          MaxStates,    \* states the search visits before it gives up
          MaxLevels     \* bound: no plan of the modelled lot is longer

ASSUME PlanningAssumption ==
    /\ \A q \in {CarOrder, SpotOrder, BufferOrder} : q \in Seq({q[n] : n \in DOMAIN q})
    /\ MaxStates \in Nat /\ MaxLevels \in Nat \ {0}

-----------------------------------------------------------------------------
(* The actions of the domain.                                              *)

Assign(c, s) ==
    [name |-> "assign", args |-> <<c, s>>,
     pre  |-> { <<"arrival-requested", c>>, <<"outside", c>>, <<"free-spot", s>> },
     add  |-> { <<"assigned", c, s>> },
     del  |-> { <<"free-spot", s>> }]

OpenEntry(c, b, s) ==
    [name |-> "open-entry", args |-> <<c, b, s>>,
     pre  |-> { <<"arrival-requested", c>>, <<"outside", c>>, <<"assigned", c, s>>, <<"free-buffer", b>> },
     add  |-> { <<"entry-authorized", c, b>> },
     del  |-> { <<"free-buffer", b>> }]

\* Faulty variant: the customer is sent to the spot before being let in.
ShowAssignmentEarly(c, s, b) ==
    [name |-> "show-assignment", args |-> <<c, s, b>>,
     pre  |-> { <<"assigned", c, s>> },
     add  |-> { <<"assignment-shown", c, s>> },
     del  |-> {}]

ShowAssignment(c, s, b) ==
    [name |-> "show-assignment", args |-> <<c, s, b>>,
     pre  |-> { <<"assigned", c, s>>, <<"entry-authorized", c, b>> },
     add  |-> { <<"assignment-shown", c, s>> },
     del  |-> {}]

Park(c, b, s) ==
    [name |-> "park", args |-> <<c, b, s>>,
     pre  |-> { <<"in-buffer", c, b>>, <<"assigned", c, s>> },
     add  |-> { <<"at", c, s>>, <<"free-buffer", b>> },
     del  |-> { <<"in-buffer", c, b>> }]

Retrieve(c, s, b) ==
    [name |-> "retrieve", args |-> <<c, s, b>>,
     pre  |-> { <<"at", c, s>>, <<"pickup-requested", c>>, <<"free-buffer", b>> },
     add  |-> { <<"free-spot", s>>, <<"in-buffer", c, b>>, <<"ready-for-pickup", c, b>> },
     del  |-> { <<"at", c, s>>, <<"free-buffer", b>> }]

OpenExit(c, b) ==
    [name |-> "open-exit", args |-> <<c, b>>,
     pre  |-> { <<"ready-for-pickup", c, b>> },
     add  |-> { <<"exit-authorized", c, b>> },
     del  |-> {}]

\* All combinations of arguments, the last one varying fastest.
Pairs(p, q) == [n \in 1..(Len(p) * Len(q)) |->
                   << p[((n - 1) \div Len(q)) + 1], q[((n - 1) % Len(q)) + 1] >>]
Flat(pairs) == [n \in DOMAIN pairs |-> << pairs[n][1][1], pairs[n][1][2], pairs[n][2] >>]
Triples(p, q, r) == Flat(Pairs(Pairs(p, q), r))

\* A schema with its parameters bound in every possible way.
Ground2(Schema(_, _), args) == [n \in DOMAIN args |-> Schema(args[n][1], args[n][2])]
Ground3(Schema(_, _, _), args) == [n \in DOMAIN args |-> Schema(args[n][1], args[n][2], args[n][3])]

\* _ground_actions: schema by schema, in the order of the domain file.
Grounded ==
       Ground2(Assign, Pairs(CarOrder, SpotOrder))
    \o Ground3(OpenEntry, Triples(CarOrder, BufferOrder, SpotOrder))
    \o Ground3(ShowAssignment, Triples(CarOrder, SpotOrder, BufferOrder))
    \o Ground3(Park, Triples(CarOrder, BufferOrder, SpotOrder))
    \o Ground3(Retrieve, Triples(CarOrder, SpotOrder, BufferOrder))
    \o Ground2(OpenExit, Pairs(CarOrder, BufferOrder))

Applicable(a, state) == a.pre \subseteq state
Apply(a, state) == (state \ a.del) \cup a.add
GoalReached(state, goal) == goal \subseteq state

-----------------------------------------------------------------------------
(* _search: first in, first out, never the same state twice.  The nodes of *)
(* one length are taken off the queue before the first longer one, so the  *)
(* search is written level by level: queue holds the nodes of one length.  *)
(* A path is the numbers of its actions in Grounded.  Every node's actions *)
(* are tried in that order, and nodes leave the queue in the order they    *)
(* entered it: of two nodes of one length, the one whose path comes first  *)
(* in lexicographic order is ahead.                                        *)

\* The node an action leads to, a being the n-th.
Child(node, n, a) == [state |-> Apply(a, node.state), path |-> Append(node.path, n)]

\* Faulty variant: preconditions are not looked at.
SuccessorsUnchecked(queue) == {Child(node, n, Grounded[n]) : node \in queue, n \in DOMAIN Grounded}

\* What the actions make of the nodes of a level.
Successors(queue) ==
    LET action == Grounded
        Tries(node) == {n \in DOMAIN action : Applicable(action[n], node.state)}
    IN  UNION {{Child(node, n, action[n]) : n \in Tries(node)} : node \in queue}

\* m is tried before n, a node of the same length.
Ahead(m, n) ==
    \E k \in DOMAIN n.path : m.path[k] < n.path[k] /\ \A i \in 1..(k - 1) : m.path[i] = n.path[i]

\* Faulty variant: the loop is left after the first new state.
NewFirst(succs, visited) ==
    {n \in succs : n.state \notin visited /\ \A m \in succs : Ahead(m, n) => m.state \in visited}

\* Those that are new: not visited before the level, nor earlier in it.
New(succs, visited) ==
    {n \in succs : n.state \notin visited /\ \A m \in succs : m.state = n.state => ~Ahead(m, n)}

\* Faulty variant: the search gives up one state early.
TriedOneLess(search, new, hits) ==
    LET tried == {n \in new : \A m \in hits : Ahead(n, m)}
        visited == search.visited \cup {n.state : n \in tried}
        within == Cardinality(visited) < MaxStates
    IN  [queue   |-> IF hits = {} /\ within THEN tried ELSE {},
         visited |-> visited,
         found   |-> {n.path : n \in {h \in hits : within /\ \A m \in hits : ~Ahead(m, h)}}]

\* The search after the new nodes up to the first of the hits, if any, were tried: it goes on
\* with them, ends with the hit, or gives up once it has visited too many states.
Tried(search, new, hits) ==
    LET tried == {n \in new : \A m \in hits : Ahead(n, m)}
        visited == search.visited \cup {n.state : n \in tried}
        within == Cardinality(visited) <= MaxStates
    IN  [queue   |-> IF hits = {} /\ within THEN tried ELSE {},
         visited |-> visited,
         found   |-> {n.path : n \in {h \in hits : within /\ \A m \in hits : ~Ahead(m, h)}}]

TriedNew(search, goal, new) == Tried(search, new, {n \in new : GoalReached(n.state, goal)})

\* One level.
Expand(search, goal) == TriedNew(search, goal, New(Successors(search.queue), search.visited))

Search(start, goal) ==
    LET level[n \in 0..MaxLevels] ==
            IF n = 0 THEN start
            ELSE LET before == level[n - 1]
                 IN  IF before.queue = {} THEN before ELSE Expand(before, goal)
    IN  level[MaxLevels]

Steps(path) ==
    LET action == Grounded
    IN  [n \in DOMAIN path |-> [name |-> action[path[n]].name, args |-> action[path[n]].args]]

\* found is the path to the goal, as a set of at most one path.
AnswerOf(found) == [solved |-> found # {},
                    plan   |-> IF found = {} THEN <<>> ELSE Steps(CHOOSE path \in found : TRUE)]

SearchFrom(init, goal) ==
    AnswerOf(Search([queue |-> {[state |-> init, path |-> <<>>]},
                     visited |-> {init}, found |-> {}], goal).found)

\* The plan for a problem, or that there is none (PlanningError).
Solve(init, goal) ==
    IF GoalReached(init, goal) THEN [solved |-> TRUE, plan |-> <<>>] ELSE SearchFrom(init, goal)
=============================================================================
