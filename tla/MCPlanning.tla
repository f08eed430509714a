----------------------------- MODULE MCPlanning -----------------------------
(***************************************************************************)
(* Every problem over a small lot that the domain's own actions, requests  *)
(* and sensor facts can lead to, each with every goal the generator may    *)
(* ask for: the search is compared with what plain reachability says.      *)
(***************************************************************************)
EXTENDS Planning

Cars == {CarOrder[i] : i \in DOMAIN CarOrder}
Spots == {SpotOrder[i] : i \in DOMAIN SpotOrder}
Buffers == {BufferOrder[i] : i \in DOMAIN BufferOrder}

TwoCars == <<"a", "b">>
TwoSpots == <<"p1", "p2">>
OneBuffer == <<"b1">>

VARIABLES facts, goal

Goals == {{}} \cup {{ <<"assignment-shown", c, s>> } : c \in Cars, s \in Spots}
              \cup {{ <<"at", c, s>> } : c \in Cars, s \in Spots}
              \cup {{ <<"ready-for-pickup", c, b>> } : c \in Cars, b \in Buffers}
              \cup {{ <<"exit-authorized", c, b>> } : c \in Cars, b \in Buffers}

Empty == { <<"free-spot", s>> : s \in Spots } \cup { <<"free-buffer", b>> : b \in Buffers }

Init == facts = Empty /\ goal \in Goals

\* A card is scanned at the gate.
Request(c) ==
    /\ \A f \in facts : f[2] # c
    /\ facts' = facts \cup { <<"arrival-requested", c>>, <<"outside", c>> }

\* An admitted car is seen in its bay; what led to its admission is history.
Enter(c, b) ==
    /\ <<"entry-authorized", c, b>> \in facts
    /\ facts' = {f \in facts : f[1] = "assigned" \/ f[2] # c} \cup { <<"in-buffer", c, b>> }

\* A customer checks out.
Pickup(c) ==
    /\ \E f \in facts : f[1] \in {"at", "in-buffer"} /\ f[2] = c
    /\ facts' = facts \cup { <<"pickup-requested", c>> }

Next ==
    /\ UNCHANGED goal
    /\ \/ \E n \in DOMAIN Grounded : Applicable(Grounded[n], facts) /\ facts' = Apply(Grounded[n], facts)
       \/ \E c \in Cars : Request(c) \/ Pickup(c) \/ \E b \in Buffers : Enter(c, b)

Spec == Init /\ [][Next]_<<facts, goal>>

-----------------------------------------------------------------------------
Answer == Solve(facts, goal)

ActionOf(step) == CHOOSE n \in DOMAIN Grounded : Grounded[n].name = step.name /\ Grounded[n].args = step.args

\* The states a plan goes through, from the facts on.
Trace(plan) ==
    LET state[n \in 0..Len(plan)] ==
            IF n = 0 THEN facts ELSE Apply(Grounded[ActionOf(plan[n])], state[n - 1])
    IN  state

\* The states reachable in at most n actions, for every n up to MaxLevels.
Layers ==
    LET layer[n \in 0..MaxLevels] ==
            IF n = 0 THEN {facts}
            ELSE LET below == layer[n - 1]
                 IN  below \cup {Apply(Grounded[p[1]], p[2]) :
                                   p \in {q \in (DOMAIN Grounded) \X below : Applicable(Grounded[q[1]], q[2])}}
    IN  layer

\* A plan can be carried out step by step from the facts, and reaches the goal
\* (ForwardSearchPlanner.solve).
PlanIsExecutable ==
    LET answer == Answer
        state == Trace(answer.plan)
    IN  answer.solved =>
            /\ \A n \in DOMAIN answer.plan : Applicable(Grounded[ActionOf(answer.plan[n])], state[n - 1])
            /\ GoalReached(state[Len(answer.plan)], goal)

\* No shorter sequence of actions reaches the goal (planning/README.md: the shortest one).
PlanIsShortest ==
    LET answer == Answer
        layer == Layers
    IN  answer.solved /\ answer.plan # <<>> =>
            \A s \in layer[Len(answer.plan) - 1] : ~GoalReached(s, goal)

\* The planner reports that there is no plan only when no sequence of actions reaches the
\* goal, or when it has the right to give up: n actions reach the goal, but more than
\* MaxStates states short of it as well (forward_search.py's max_states).  MaxLevels actions
\* reach all there is to reach.
SearchIsComplete ==
    LET answer == Answer
        layer == Layers
    IN  ~answer.solved =>
            /\ layer[MaxLevels] = layer[MaxLevels - 1]
            /\ \/ \A s \in layer[MaxLevels] : ~GoalReached(s, goal)
               \/ \A n \in 0..MaxLevels :
                      (\E s \in layer[n] : GoalReached(s, goal)) =>
                          Cardinality({s \in layer[n] : ~GoalReached(s, goal)}) > MaxStates
=============================================================================
