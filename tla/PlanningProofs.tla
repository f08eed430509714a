--------------------------- MODULE PlanningProofs ---------------------------
(***************************************************************************)
(* The search answers rightly for every lot, every set of facts and every  *)
(* goal: a plan can be carried out and reaches the goal, none shorter      *)
(* does, and there is none only where there is nothing to find within the  *)
(* planner's limit on states.                                              *)
(*                                                                         *)
(* The search is a recursive function.  What is shown of all its levels is *)
(* shown by induction, which here rests on the order of the naturals being *)
(* well-founded: a set of levels that fails has a first one.               *)
(***************************************************************************)
EXTENDS MCPlanning, FiniteSetTheorems, SequenceTheorems, WellFoundedInduction,
        TLAPS

-----------------------------------------------------------------------------
(* Induction, for sets of numbers.                                         *)

LEMMA Less == \E R : IsWellFoundedOn(R, Nat) /\ \A x, y \in Nat : x < y => <<x, y>> \in R
<1> DEFINE R == OpToRel(<, Nat)
<1>1. IsWellFoundedOn(R, Nat)
  BY NatLessThanWellFounded
<1>2. \A x, y \in Nat : x < y => <<x, y>> \in R
  BY DEF OpToRel
<1> HIDE DEF R
<1> QED
  BY <1>1, <1>2

LEMMA Least == ASSUME NEW T \in SUBSET Nat, T # {} PROVE \E x \in T : \A y \in T : x <= y
<1>1. PICK R : IsWellFoundedOn(R, Nat) /\ \A x, y \in Nat : x < y => <<x, y>> \in R
  BY Less
<1>2. PICK x \in T : \A y \in T : <<y, x>> \notin R
  <2>1. T \subseteq Nat
    OBVIOUS
  <2>2. IsWellFoundedOn(R, Nat)
    BY <1>1
  <2>3. \E x \in T : \A y \in T : ~(<<y, x>> \in R)
    BY <2>1, <2>2, WFMin
  <2> QED
    BY <2>3
<1>3. \A y \in T : x \in Nat /\ y \in Nat /\ ~(y < x)
  BY <1>1, <1>2
<1> QED
  BY <1>2, <1>3

\* A set of numbers with zero and the successors of its members, up to a bound, has them all.
LEMMA Levels ==
    ASSUME NEW M \in Nat, NEW T, 0 \in T, \A n \in 0..(M - 1) : n \in T => n + 1 \in T
    PROVE  \A n \in 0..M : n \in T
<1>1. SUFFICES ASSUME (0..M) \ T # {} PROVE FALSE
  OBVIOUS
<1>2. PICK x \in (0..M) \ T : \A y \in (0..M) \ T : x <= y
  <2>1. (0..M) \ T \in SUBSET Nat
    OBVIOUS
  <2> QED
    BY <1>1, <2>1, Least
<1>3. x # 0 /\ x \in 1..M
  BY <1>2
<1>4. x - 1 \in 0..(M - 1) /\ x - 1 \in 0..M /\ ~(x <= x - 1)
  BY <1>3
<1>5. x - 1 \in T
  BY <1>2, <1>4
<1> QED
  BY <1>2, <1>3, <1>4, <1>5

-----------------------------------------------------------------------------
(* The recursive functions exist, so that they are what they are defined   *)
(* to be.                                                                  *)

Step(search, aim) == IF search.queue = {} THEN search ELSE Expand(search, aim)

IsSearch(f, start, aim, k) == f = [n \in 0..k |-> IF n = 0 THEN start ELSE Step(f[n - 1], aim)]

LEMMA LevelsExist == ASSUME NEW start, NEW aim PROVE \E f : IsSearch(f, start, aim, MaxLevels)
<1> DEFINE T == {k \in Nat : \E f : IsSearch(f, start, aim, k)}
<1>1. 0 \in T
  <2>1. IsSearch([n \in 0..0 |-> start], start, aim, 0)
    BY DEF IsSearch
  <2> QED
    BY <2>1
<1>2. ASSUME NEW k \in 0..(MaxLevels - 1), k \in T PROVE k + 1 \in T
  <2>1. PICK f : IsSearch(f, start, aim, k)
    BY <1>2
  <2> DEFINE g == [n \in 0..(k + 1) |-> IF n <= k THEN f[n] ELSE Step(f[k], aim)]
  <2>2. IsSearch(g, start, aim, k + 1)
    <3>1. ASSUME NEW n \in 0..(k + 1) PROVE g[n] = IF n = 0 THEN start ELSE Step(g[n - 1], aim)
      <4>1. CASE n \in 0..k
        BY <4>1, <2>1 DEF IsSearch
      <4>2. CASE n = k + 1
        BY <4>2, <1>2
      <4> QED
        BY <4>1, <4>2, <1>2
    <3> QED
      BY <3>1 DEF IsSearch
  <2>3. k + 1 \in Nat
    BY PlanningAssumption
  <2> HIDE DEF g
  <2> QED
    BY <2>2, <2>3
<1>3. MaxLevels \in T
  <2> HIDE DEF T
  <2>1. MaxLevels \in Nat /\ MaxLevels \in 0..MaxLevels
    BY PlanningAssumption
  <2>2. \A n \in 0..MaxLevels : n \in T
    BY <1>1, <1>2, <2>1, Levels
  <2> QED
    BY <2>1, <2>2
<1> QED
  BY <1>3

\* The search, level by level.
LEMMA SearchLevels ==
    ASSUME NEW start, NEW aim
    PROVE  \E f : /\ f[0] = start
                  /\ \A n \in 0..(MaxLevels - 1) : f[n + 1] = Step(f[n], aim)
                  /\ Search(start, aim) = f[MaxLevels]
<1> DEFINE f == CHOOSE f : IsSearch(f, start, aim, MaxLevels)
<1>1. IsSearch(f, start, aim, MaxLevels)
  BY LevelsExist
<1>2. Search(start, aim) = f[MaxLevels]
  BY DEF Search, Step, IsSearch
<1> HIDE DEF f
<1>3. f[0] = start
  BY <1>1, PlanningAssumption DEF IsSearch
<1>4. ASSUME NEW n \in 0..(MaxLevels - 1) PROVE f[n + 1] = Step(f[n], aim)
  <2>1. n + 1 \in 0..MaxLevels /\ n + 1 # 0 /\ (n + 1) - 1 = n
    BY PlanningAssumption
  <2> QED
    BY <1>1, <2>1 DEF IsSearch
<1> QED
  BY <1>2, <1>3, <1>4

\* What one action more makes of a set of states.
Reached(states) ==
    {Apply(Grounded[p[1]], p[2]) :
        p \in {q \in (DOMAIN Grounded) \X states : Applicable(Grounded[q[1]], q[2])}}

IsLayer(f, k) == f = [n \in 0..k |-> IF n = 0 THEN {facts} ELSE f[n - 1] \cup Reached(f[n - 1])]

LEMMA LayersExist == \E f : IsLayer(f, MaxLevels)
<1> DEFINE T == {k \in Nat : \E f : IsLayer(f, k)}
<1>1. 0 \in T
  <2>1. IsLayer([n \in 0..0 |-> {facts}], 0)
    BY DEF IsLayer
  <2> QED
    BY <2>1
<1>2. ASSUME NEW k \in 0..(MaxLevels - 1), k \in T PROVE k + 1 \in T
  <2>1. PICK f : IsLayer(f, k)
    BY <1>2
  <2> DEFINE g == [n \in 0..(k + 1) |-> IF n <= k THEN f[n] ELSE f[k] \cup Reached(f[k])]
  <2>2. IsLayer(g, k + 1)
    <3>1. ASSUME NEW n \in 0..(k + 1) PROVE g[n] = IF n = 0 THEN {facts} ELSE g[n - 1] \cup Reached(g[n - 1])
      <4>1. CASE n = 0
        BY <4>1, <2>1 DEF IsLayer
      <4>2. CASE n \in 1..k
        <5>1. n \in 0..k /\ n \in 0..(k + 1) /\ n - 1 \in 0..(k + 1) /\ n <= k /\ n - 1 <= k /\ n # 0
          BY <4>2
        <5>2. g[n] = f[n] /\ g[n - 1] = f[n - 1]
          BY <5>1
        <5> QED
          BY <5>1, <5>2, <2>1 DEF IsLayer
      <4>3. CASE n = k + 1
        <5>1. k \in 0..(k + 1) /\ n \in 0..(k + 1) /\ ~(n <= k) /\ n - 1 = k /\ k <= k /\ n # 0
          BY <4>3, <1>2
        <5>2. g[k] = f[k] /\ g[n] = f[k] \cup Reached(f[k])
          BY <5>1
        <5> QED
          BY <5>1, <5>2
      <4> QED
        BY <4>1, <4>2, <4>3, <1>2
    <3> QED
      BY <3>1 DEF IsLayer
  <2>3. k + 1 \in Nat
    BY PlanningAssumption
  <2> HIDE DEF g
  <2> QED
    BY <2>2, <2>3
<1>3. MaxLevels \in T
  <2> HIDE DEF T
  <2>1. MaxLevels \in Nat /\ MaxLevels \in 0..MaxLevels
    BY PlanningAssumption
  <2>2. \A n \in 0..MaxLevels : n \in T
    BY <1>1, <1>2, <2>1, Levels
  <2> QED
    BY <2>1, <2>2
<1> QED
  BY <1>3

LEMMA LayersAre ==
    /\ Layers[0] = {facts}
    /\ \A n \in 0..(MaxLevels - 1) : Layers[n + 1] = Layers[n] \cup Reached(Layers[n])
<1>1. IsLayer(Layers, MaxLevels)
  <2>1. Layers = CHOOSE f : IsLayer(f, MaxLevels)
    BY DEF Layers, IsLayer, Reached
  <2> QED
    BY <2>1, LayersExist
<1>2. Layers[0] = {facts}
  BY <1>1, PlanningAssumption DEF IsLayer
<1>3. ASSUME NEW n \in 0..(MaxLevels - 1) PROVE Layers[n + 1] = Layers[n] \cup Reached(Layers[n])
  <2>1. n + 1 \in 0..MaxLevels /\ n + 1 # 0 /\ (n + 1) - 1 = n
    BY PlanningAssumption
  <2> QED
    BY <1>1, <2>1 DEF IsLayer
<1> QED
  BY <1>2, <1>3

-----------------------------------------------------------------------------
(* The actions of the lot, and that name and arguments tell them apart.    *)

Actions ==
         {Assign(c, s) : c \in Cars, s \in Spots}
    \cup {OpenEntry(c, b, s) : c \in Cars, b \in Buffers, s \in Spots}
    \cup {ShowAssignment(c, s, b) : c \in Cars, s \in Spots, b \in Buffers}
    \cup {Park(c, b, s) : c \in Cars, b \in Buffers, s \in Spots}
    \cup {Retrieve(c, s, b) : c \in Cars, s \in Spots, b \in Buffers}
    \cup {OpenExit(c, b) : c \in Cars, b \in Buffers}

LEMMA DivMod ==
    ASSUME NEW a \in Nat, NEW b \in Nat, NEW n \in 1..(a * b)
    PROVE  ((n - 1) \div b) + 1 \in 1..a /\ ((n - 1) % b) + 1 \in 1..b
<1>1. b # 0 /\ b > 0
  OBVIOUS
<1> DEFINE d == (n - 1) \div b
           m == (n - 1) % b
<1>2. n - 1 = b * d + m /\ m \in 0..(b - 1) /\ d \in Int
  BY <1>1
<1> HIDE DEF d, m
<1>3. ASSUME d >= a PROVE FALSE
  <2>1. b * d >= b * a
    BY <1>1, <1>2, <1>3
  <2> QED
    BY <1>2, <2>1
<1>4. ASSUME d < 0 PROVE FALSE
  <2>1. b * d <= b * (0 - 1)
    BY <1>1, <1>2, <1>4
  <2> QED
    BY <1>2, <2>1
<1>5. d + 1 \in 1..a /\ m + 1 \in 1..b
  BY <1>1, <1>2, <1>3, <1>4
<1> QED
  BY <1>5 DEF d, m

LEMMA PairsIn ==
    ASSUME NEW A, NEW B, NEW p \in Seq(A), NEW q \in Seq(B)
    PROVE  Pairs(p, q) \in Seq(A \X B)
<1>1. Len(p) * Len(q) \in Nat
  OBVIOUS
<1>2. ASSUME NEW n \in 1..(Len(p) * Len(q))
      PROVE  << p[((n - 1) \div Len(q)) + 1], q[((n - 1) % Len(q)) + 1] >> \in A \X B
  <2>1. ((n - 1) \div Len(q)) + 1 \in 1..Len(p) /\ ((n - 1) % Len(q)) + 1 \in 1..Len(q)
    BY DivMod
  <2> QED
    BY <2>1
<1> QED
  BY <1>1, <1>2 DEF Pairs

LEMMA TriplesIn ==
    ASSUME NEW A, NEW B, NEW C, NEW p \in Seq(A), NEW q \in Seq(B), NEW r \in Seq(C)
    PROVE  Triples(p, q, r) \in Seq(A \X B \X C)
<1> DEFINE pairs == Pairs(Pairs(p, q), r)
<1>1. pairs \in Seq((A \X B) \X C)
  <2>1. Pairs(p, q) \in Seq(A \X B)
    BY PairsIn
  <2> QED
    BY <2>1, PairsIn
<1> HIDE DEF pairs
<1>2. \A n \in DOMAIN pairs : << pairs[n][1][1], pairs[n][1][2], pairs[n][2] >> \in A \X B \X C
  BY <1>1
<1>3. [n \in DOMAIN pairs |-> << pairs[n][1][1], pairs[n][1][2], pairs[n][2] >>] \in Seq(A \X B \X C)
  BY <1>1, <1>2
<1> QED
  BY <1>3 DEF Triples, Flat, pairs

LEMMA GroundedSeq == Grounded \in Seq(Actions)
<1>1. CarOrder \in Seq(Cars) /\ SpotOrder \in Seq(Spots) /\ BufferOrder \in Seq(Buffers)
  BY PlanningAssumption DEF Cars, Spots, Buffers
<1>2. Ground2(Assign, Pairs(CarOrder, SpotOrder)) \in Seq(Actions)
  <2> DEFINE args == Pairs(CarOrder, SpotOrder)
  <2>1. args \in Seq(Cars \X Spots)
    BY <1>1, PairsIn
  <2> HIDE DEF args
  <2>2. \A n \in DOMAIN args : Assign(args[n][1], args[n][2]) \in Actions
    BY <2>1 DEF Actions
  <2>3. [n \in DOMAIN args |-> Assign(args[n][1], args[n][2])] \in Seq(Actions)
    BY <2>1, <2>2
  <2> QED
    BY <2>3 DEF Ground2, args
<1>3. Ground3(OpenEntry, Triples(CarOrder, BufferOrder, SpotOrder)) \in Seq(Actions)
  <2> DEFINE args == Triples(CarOrder, BufferOrder, SpotOrder)
  <2>1. args \in Seq(Cars \X Buffers \X Spots)
    BY <1>1, TriplesIn
  <2> HIDE DEF args
  <2>2. \A n \in DOMAIN args : OpenEntry(args[n][1], args[n][2], args[n][3]) \in Actions
    BY <2>1 DEF Actions
  <2>3. [n \in DOMAIN args |-> OpenEntry(args[n][1], args[n][2], args[n][3])] \in Seq(Actions)
    BY <2>1, <2>2
  <2> QED
    BY <2>3 DEF Ground3, args
<1>4. Ground3(ShowAssignment, Triples(CarOrder, SpotOrder, BufferOrder)) \in Seq(Actions)
  <2> DEFINE args == Triples(CarOrder, SpotOrder, BufferOrder)
  <2>1. args \in Seq(Cars \X Spots \X Buffers)
    BY <1>1, TriplesIn
  <2> HIDE DEF args
  <2>2. \A n \in DOMAIN args : ShowAssignment(args[n][1], args[n][2], args[n][3]) \in Actions
    BY <2>1 DEF Actions
  <2>3. [n \in DOMAIN args |-> ShowAssignment(args[n][1], args[n][2], args[n][3])] \in Seq(Actions)
    BY <2>1, <2>2
  <2> QED
    BY <2>3 DEF Ground3, args
<1>5. Ground3(Park, Triples(CarOrder, BufferOrder, SpotOrder)) \in Seq(Actions)
  <2> DEFINE args == Triples(CarOrder, BufferOrder, SpotOrder)
  <2>1. args \in Seq(Cars \X Buffers \X Spots)
    BY <1>1, TriplesIn
  <2> HIDE DEF args
  <2>2. \A n \in DOMAIN args : Park(args[n][1], args[n][2], args[n][3]) \in Actions
    BY <2>1 DEF Actions
  <2>3. [n \in DOMAIN args |-> Park(args[n][1], args[n][2], args[n][3])] \in Seq(Actions)
    BY <2>1, <2>2
  <2> QED
    BY <2>3 DEF Ground3, args
<1>6. Ground3(Retrieve, Triples(CarOrder, SpotOrder, BufferOrder)) \in Seq(Actions)
  <2> DEFINE args == Triples(CarOrder, SpotOrder, BufferOrder)
  <2>1. args \in Seq(Cars \X Spots \X Buffers)
    BY <1>1, TriplesIn
  <2> HIDE DEF args
  <2>2. \A n \in DOMAIN args : Retrieve(args[n][1], args[n][2], args[n][3]) \in Actions
    BY <2>1 DEF Actions
  <2>3. [n \in DOMAIN args |-> Retrieve(args[n][1], args[n][2], args[n][3])] \in Seq(Actions)
    BY <2>1, <2>2
  <2> QED
    BY <2>3 DEF Ground3, args
<1>7. Ground2(OpenExit, Pairs(CarOrder, BufferOrder)) \in Seq(Actions)
  <2> DEFINE args == Pairs(CarOrder, BufferOrder)
  <2>1. args \in Seq(Cars \X Buffers)
    BY <1>1, PairsIn
  <2> HIDE DEF args
  <2>2. \A n \in DOMAIN args : OpenExit(args[n][1], args[n][2]) \in Actions
    BY <2>1 DEF Actions
  <2>3. [n \in DOMAIN args |-> OpenExit(args[n][1], args[n][2])] \in Seq(Actions)
    BY <2>1, <2>2
  <2> QED
    BY <2>3 DEF Ground2, args
<1>8. ASSUME NEW s \in Seq(Actions), NEW t \in Seq(Actions) PROVE s \o t \in Seq(Actions)
  OBVIOUS
<1> QED
  BY ONLY <1>2, <1>3, <1>4, <1>5, <1>6, <1>7, <1>8 DEF Grounded

\* Name and arguments of an action give the action.
Named(name, args) ==
    CASE name = "assign"          -> Assign(args[1], args[2])
      [] name = "open-entry"      -> OpenEntry(args[1], args[2], args[3])
      [] name = "show-assignment" -> ShowAssignment(args[1], args[2], args[3])
      [] name = "park"            -> Park(args[1], args[2], args[3])
      [] name = "retrieve"        -> Retrieve(args[1], args[2], args[3])
      [] name = "open-exit"       -> OpenExit(args[1], args[2])

LEMMA ActionNamed == ASSUME NEW a \in Actions PROVE a = Named(a.name, a.args)
<1>1. ASSUME NEW c \in Cars, NEW s \in Spots, a = Assign(c, s) PROVE a = Named(a.name, a.args)
  <2>1. a.name = "assign" /\ a.args = <<c, s>>
    BY <1>1 DEF Assign
  <2>2. Named("assign", <<c, s>>) = Assign(c, s)
    BY DEF Named
  <2> QED
    BY <1>1, <2>1, <2>2
<1>2. ASSUME NEW c \in Cars, NEW b \in Buffers, NEW s \in Spots, a = OpenEntry(c, b, s) PROVE a = Named(a.name, a.args)
  <2>1. a.name = "open-entry" /\ a.args = <<c, b, s>>
    BY <1>2 DEF OpenEntry
  <2>2. Named("open-entry", <<c, b, s>>) = OpenEntry(c, b, s)
    BY DEF Named
  <2> QED
    BY <1>2, <2>1, <2>2
<1>3. ASSUME NEW c \in Cars, NEW s \in Spots, NEW b \in Buffers, a = ShowAssignment(c, s, b) PROVE a = Named(a.name, a.args)
  <2>1. a.name = "show-assignment" /\ a.args = <<c, s, b>>
    BY <1>3 DEF ShowAssignment
  <2>2. Named("show-assignment", <<c, s, b>>) = ShowAssignment(c, s, b)
    BY DEF Named
  <2> QED
    BY <1>3, <2>1, <2>2
<1>4. ASSUME NEW c \in Cars, NEW b \in Buffers, NEW s \in Spots, a = Park(c, b, s) PROVE a = Named(a.name, a.args)
  <2>1. a.name = "park" /\ a.args = <<c, b, s>>
    BY <1>4 DEF Park
  <2>2. Named("park", <<c, b, s>>) = Park(c, b, s)
    BY DEF Named
  <2> QED
    BY <1>4, <2>1, <2>2
<1>5. ASSUME NEW c \in Cars, NEW s \in Spots, NEW b \in Buffers, a = Retrieve(c, s, b) PROVE a = Named(a.name, a.args)
  <2>1. a.name = "retrieve" /\ a.args = <<c, s, b>>
    BY <1>5 DEF Retrieve
  <2>2. Named("retrieve", <<c, s, b>>) = Retrieve(c, s, b)
    BY DEF Named
  <2> QED
    BY <1>5, <2>1, <2>2
<1>6. ASSUME NEW c \in Cars, NEW b \in Buffers, a = OpenExit(c, b) PROVE a = Named(a.name, a.args)
  <2>1. a.name = "open-exit" /\ a.args = <<c, b>>
    BY <1>6 DEF OpenExit
  <2>2. Named("open-exit", <<c, b>>) = OpenExit(c, b)
    BY DEF Named
  <2> QED
    BY <1>6, <2>1, <2>2
<1> QED
  BY <1>1, <1>2, <1>3, <1>4, <1>5, <1>6 DEF Actions

\* A step of a plan names the action it was taken from, whose number may be another one only
\* if a name occurs twice among cars or places.
LEMMA ActionFound ==
    ASSUME NEW n \in DOMAIN Grounded, NEW step, step.name = Grounded[n].name, step.args = Grounded[n].args
    PROVE  Grounded[ActionOf(step)] = Grounded[n]
<1> DEFINE m == ActionOf(step)
<1>1. m \in DOMAIN Grounded /\ Grounded[m].name = step.name /\ Grounded[m].args = step.args
  BY DEF ActionOf
<1>2. Grounded[m] \in Actions /\ Grounded[n] \in Actions
  BY <1>1, GroundedSeq
<1> QED
  BY <1>1, <1>2, ActionNamed

-----------------------------------------------------------------------------
(* Among nodes of one length there is one no other is ahead of.            *)

Paths == Seq(DOMAIN Grounded)

LEMMA NumbersAreNat == DOMAIN Grounded = 1..Len(Grounded) /\ Len(Grounded) \in Nat /\ DOMAIN Grounded \subseteq Nat
BY GroundedSeq

\* n and m part at position k, n with the smaller number.
Parts(n, m, k) == n.path[k] < m.path[k] /\ \A i \in 1..(k - 1) : n.path[i] = m.path[i]

LEMMA FirstNode ==
    ASSUME NEW K \in Nat, NEW nodes, nodes # {}, \A n \in nodes : n.path \in Paths /\ Len(n.path) = K
    PROVE  \E m \in nodes : \A n \in nodes : ~Ahead(n, m)
<1>1. \A n \in nodes : DOMAIN n.path = 1..K /\ \A k \in 1..K : n.path[k] \in Nat
  BY NumbersAreNat DEF Paths
<1> DEFINE First(m, j) == \A n \in nodes : \A k \in 1..j : ~Parts(n, m, k)
           T == {j \in Nat : \E m \in nodes : First(m, j)}
<1>2. 0 \in T
  OBVIOUS
<1>3. ASSUME NEW j \in 0..(K - 1), j \in T PROVE j + 1 \in T
  <2>1. PICK m \in nodes : First(m, j)
    BY <1>3
  <2> DEFINE alike == {n \in nodes : \A i \in 1..j : n.path[i] = m.path[i]}
             numbers == {n.path[j + 1] : n \in alike}
  <2>2. j + 1 \in 1..K /\ j + 1 \in Nat /\ j \in Nat
    OBVIOUS
  <2>3. numbers \in SUBSET Nat /\ numbers # {}
    <3>1. m \in alike
      OBVIOUS
    <3>2. \A n \in alike : n.path[j + 1] \in Nat
      BY <1>1, <2>2
    <3> QED
      BY <3>1, <3>2
  <2>4. PICK x \in numbers : \A y \in numbers : x <= y
    <3> HIDE DEF numbers
    <3> QED
      BY <2>3, Least
  <2>5. PICK q \in alike : x = q.path[j + 1]
    BY <2>4
  <2>6. ASSUME NEW n \in nodes, NEW k \in 1..(j + 1), Parts(n, q, k) PROVE FALSE
    <3>1. CASE k \in 1..j
      <4>1. q.path[k] = m.path[k] /\ \A i \in 1..(k - 1) : q.path[i] = m.path[i]
        BY <2>2, <2>5, <3>1
      <4>2. Parts(n, m, k)
        BY <2>6, <4>1 DEF Parts
      <4> QED
        BY <2>1, <3>1, <4>2
    <3>2. CASE k = j + 1
      <4>1. \A i \in 1..j : n.path[i] = q.path[i] /\ q.path[i] = m.path[i]
        BY <2>2, <2>5, <2>6, <3>2 DEF Parts
      <4>2. n \in alike /\ n.path[j + 1] \in numbers
        BY <4>1
      <4>3. q.path[j + 1] <= n.path[j + 1] /\ n.path[j + 1] < q.path[j + 1]
        BY <2>4, <2>5, <2>6, <3>2, <4>2 DEF Parts
      <4>4. q.path[j + 1] \in Nat /\ n.path[j + 1] \in Nat
        BY <1>1, <2>2, <2>5
      <4> QED
        BY <4>3, <4>4
    <3> QED
      BY <2>2, <3>1, <3>2
  <2>7. First(q, j + 1)
    BY <2>6
  <2> HIDE DEF First
  <2> QED
    BY <2>2, <2>5, <2>7
<1>4. K \in T
  <2> HIDE DEF T
  <2>1. \A j \in 0..K : j \in T
    BY <1>2, <1>3, Levels
  <2> QED
    BY <2>1
<1>5. PICK m \in nodes : First(m, K)
  BY <1>4
<1>6. ASSUME NEW n \in nodes, Ahead(n, m) PROVE FALSE
  <2>1. PICK k \in 1..K : Parts(n, m, k)
    BY <1>1, <1>6 DEF Ahead, Parts
  <2> QED
    BY <1>5, <2>1
<1> QED
  BY <1>5, <1>6

-----------------------------------------------------------------------------
(* What the nodes of a level stand for.                                    *)

\* state[n] is what the first n actions of the path make of the facts.
Executes(state, path) ==
    /\ state[0] = facts
    /\ \A n \in 1..Len(path) : /\ Applicable(Grounded[path[n]], state[n - 1])
                               /\ state[n] = Apply(Grounded[path[n]], state[n - 1])

\* The path can be carried out and leads to the state.
Leads(path, s) == \E state : Executes(state, path) /\ state[Len(path)] = s

NodeOK(node, k) == node.path \in Paths /\ Len(node.path) = k /\ Leads(node.path, node.state)

LEMMA ChildOK ==
    ASSUME NEW k \in Nat, NEW node, NodeOK(node, k),
           NEW n \in DOMAIN Grounded, Applicable(Grounded[n], node.state)
    PROVE  NodeOK(Child(node, n, Grounded[n]), k + 1)
<1> DEFINE path == node.path
           longer == Append(path, n)
<1>1. path \in Paths /\ Len(path) = k
  BY DEF NodeOK
<1>2. longer \in Paths /\ Len(longer) = k + 1 /\ longer[k + 1] = n /\ \A i \in 1..k : longer[i] = path[i]
  BY <1>1 DEF Paths
<1>3. PICK t : Executes(t, path) /\ t[k] = node.state
  BY <1>1 DEF NodeOK, Leads
<1> DEFINE last == Apply(Grounded[n], node.state)
           u == [i \in 0..(k + 1) |-> IF i <= k THEN t[i] ELSE last]
<1>4. \A i \in 0..k : u[i] = t[i]
  OBVIOUS
<1>5. u[k + 1] = last
  OBVIOUS
<1> HIDE DEF u, longer, path
<1>6. Executes(u, longer)
  <2>1. u[0] = facts
    BY <1>3, <1>4 DEF Executes
  <2>2. ASSUME NEW i \in 1..(k + 1)
        PROVE  Applicable(Grounded[longer[i]], u[i - 1]) /\ u[i] = Apply(Grounded[longer[i]], u[i - 1])
    <3>1. CASE i \in 1..k
      <4>1. i - 1 \in 0..k /\ i \in 0..k
        BY <3>1
      <4> QED
        BY <1>1, <1>2, <1>3, <1>4, <3>1, <4>1 DEF Executes
    <3>2. CASE i = k + 1
      <4>1. i - 1 = k /\ k \in 0..k
        BY <3>2
      <4> QED
        BY <1>2, <1>3, <1>4, <1>5, <3>2, <4>1
    <3> QED
      BY <3>1, <3>2
  <2> QED
    BY <1>2, <2>1, <2>2 DEF Executes
<1>7. Leads(longer, last)
  BY <1>2, <1>5, <1>6 DEF Leads
<1> QED
  BY <1>2, <1>7 DEF NodeOK, Child, longer, path

LEMMA SuccessorsOK ==
    ASSUME NEW k \in Nat, NEW queue, \A node \in queue : NodeOK(node, k)
    PROVE  /\ \A node \in Successors(queue) : NodeOK(node, k + 1)
           /\ \A node \in queue : \A n \in DOMAIN Grounded :
                 Applicable(Grounded[n], node.state) =>
                     \E m \in Successors(queue) : m.state = Apply(Grounded[n], node.state)
<1>1. ASSUME NEW m \in Successors(queue) PROVE NodeOK(m, k + 1)
  <2>1. PICK node \in queue, n \in DOMAIN Grounded :
            Applicable(Grounded[n], node.state) /\ m = Child(node, n, Grounded[n])
    BY DEF Successors
  <2> QED
    BY <2>1, ChildOK
<1>2. ASSUME NEW node \in queue, NEW n \in DOMAIN Grounded, Applicable(Grounded[n], node.state)
      PROVE  \E m \in Successors(queue) : m.state = Apply(Grounded[n], node.state)
  <2>1. Child(node, n, Grounded[n]) \in Successors(queue)
    BY <1>2 DEF Successors
  <2>2. Child(node, n, Grounded[n]).state = Apply(Grounded[n], node.state)
    BY DEF Child
  <2> QED
    BY <2>1, <2>2
<1> QED
  BY <1>1, <1>2

-----------------------------------------------------------------------------
(* One level.                                                              *)

\* A state is in the queue, or all that its actions lead to has been visited.
Closed(search) ==
    \A s \in search.visited :
        \/ \E node \in search.queue : node.state = s
        \/ \A n \in DOMAIN Grounded :
              Applicable(Grounded[n], s) => Apply(Grounded[n], s) \in search.visited

\* What k actions reach has been visited, in vain so far.
Covers(search, k) ==
    /\ Layers[k] \subseteq search.visited
    /\ Closed(search)
    /\ \A s \in search.visited : ~GoalReached(s, goal)

NewNodes(search) == New(Successors(search.queue), search.visited)
Hits(search) == {n \in NewNodes(search) : GoalReached(n.state, goal)}

\* What an action makes of a visited state is visited, or found now.
LEMMA NothingOverlooked ==
    ASSUME NEW k \in Nat, NEW search, \A node \in search.queue : NodeOK(node, k), Closed(search),
           NEW s \in search.visited, NEW a \in DOMAIN Grounded, Applicable(Grounded[a], s)
    PROVE  Apply(Grounded[a], s) \in search.visited \cup {n.state : n \in NewNodes(search)}
<1> DEFINE r == Apply(Grounded[a], s)
           same == {m \in Successors(search.queue) : m.state = r}
<1>1. SUFFICES ASSUME r \notin search.visited PROVE \E n \in NewNodes(search) : n.state = r
  OBVIOUS
<1>2. PICK node \in search.queue : node.state = s
  BY <1>1 DEF Closed
<1>3. same # {}
  BY <1>2, SuccessorsOK
<1>4. \A m \in same : m.path \in Paths /\ Len(m.path) = k + 1
  BY SuccessorsOK DEF NodeOK
<1>5. PICK n \in same : \A m \in same : ~Ahead(m, n)
  <2> HIDE DEF same
  <2> QED
    BY <1>3, <1>4, FirstNode
<1>6. n \in NewNodes(search)
  BY <1>1, <1>5 DEF NewNodes, New
<1> QED
  BY <1>5, <1>6

LEMMA LevelCovers ==
    ASSUME NEW k \in 0..(MaxLevels - 1), NEW search, \A node \in search.queue : NodeOK(node, k),
           Covers(search, k), Hits(search) = {},
           NEW next, next.queue = NewNodes(search),
           next.visited = search.visited \cup {n.state : n \in NewNodes(search)}
    PROVE  Covers(next, k + 1)
<1>1. ASSUME NEW s \in search.visited, NEW a \in DOMAIN Grounded, Applicable(Grounded[a], s)
      PROVE  Apply(Grounded[a], s) \in next.visited
  BY <1>1, NothingOverlooked DEF Covers
<1>2. Layers[k + 1] \subseteq next.visited
  <2>1. Layers[k + 1] = Layers[k] \cup Reached(Layers[k]) /\ Layers[k] \subseteq search.visited
    BY LayersAre DEF Covers
  <2>2. Reached(Layers[k]) \subseteq next.visited
    BY <1>1, <2>1 DEF Reached
  <2> QED
    BY <2>1, <2>2
<1>3. Closed(next)
  BY <1>1 DEF Closed
<1>4. \A s \in next.visited : ~GoalReached(s, goal)
  BY DEF Covers, Hits
<1> QED
  BY <1>2, <1>3, <1>4 DEF Covers

TriedNodes(search) == {n \in NewNodes(search) : \A m \in Hits(search) : Ahead(n, m)}
Within(search) == Cardinality(search.visited) <= MaxStates

LEMMA ExpandIs ==
    ASSUME NEW search, NEW next, next = Expand(search, goal)
    PROVE  /\ next.visited = search.visited \cup {n.state : n \in TriedNodes(search)}
           /\ next.queue = IF Hits(search) = {} /\ Within(next) THEN TriedNodes(search) ELSE {}
           /\ next.found = {n.path : n \in {h \in Hits(search) :
                                 Within(next) /\ \A m \in Hits(search) : ~Ahead(m, h)}}
<1>1. next = Tried(search, NewNodes(search), Hits(search))
  BY DEF Expand, TriedNew, NewNodes, Hits
<1>2. next.visited = search.visited \cup {n.state : n \in TriedNodes(search)}
  BY <1>1 DEF Tried, TriedNodes
<1> QED
  BY <1>1, <1>2 DEF Tried, TriedNodes, Within

LEMMA NewNodesOK ==
    ASSUME NEW k \in Nat, NEW search, \A node \in search.queue : NodeOK(node, k)
    PROVE  /\ \A node \in NewNodes(search) : NodeOK(node, k + 1)
           /\ \A node \in Hits(search) : NodeOK(node, k + 1) /\ GoalReached(node.state, goal)
BY SuccessorsOK DEF NewNodes, New, Hits

-----------------------------------------------------------------------------
(* All levels.                                                             *)

\* A path that is an answer: it can be carried out and reaches the goal, and fewer actions
\* do not.
Answers(path, k) ==
    /\ path \in Paths /\ Len(path) \in 1..k
    /\ \E s : Leads(path, s) /\ GoalReached(s, goal)
    /\ \A s \in Layers[Len(path) - 1] : ~GoalReached(s, goal)

LevelOK(search, k) ==
    /\ \A node \in search.queue : NodeOK(node, k)
    /\ \A path \in search.found : Answers(path, k)
    /\ search.queue # {} => Covers(search, k)

LEMMA ExpandOK ==
    ASSUME NEW k \in 0..(MaxLevels - 1), NEW search, LevelOK(search, k), search.queue # {},
           NEW next, next = Expand(search, goal)
    PROVE  LevelOK(next, k + 1)
<1>1. k \in Nat /\ k + 1 - 1 = k /\ k + 1 \in 1..(k + 1)
  OBVIOUS
<1>2. \A node \in search.queue : NodeOK(node, k)
  BY DEF LevelOK
<1>3. \A node \in next.queue : NodeOK(node, k + 1)
  <2>1. next.queue \subseteq NewNodes(search)
    <3>1. next.queue \subseteq TriedNodes(search)
      BY ExpandIs
    <3> QED
      BY <3>1 DEF TriedNodes
  <2>2. \A node \in NewNodes(search) : NodeOK(node, k + 1)
    BY <1>1, <1>2, NewNodesOK
  <2> QED
    BY <2>1, <2>2
<1>4. ASSUME NEW path \in next.found PROVE Answers(path, k + 1)
  <2>1. PICK h \in Hits(search) : path = h.path
    BY ExpandIs
  <2>2. NodeOK(h, k + 1) /\ GoalReached(h.state, goal)
    BY <1>1, <1>2, NewNodesOK
  <2>3. path \in Paths /\ Len(path) = k + 1 /\ Leads(path, h.state)
    BY <2>1, <2>2 DEF NodeOK
  <2>4. \A s \in Layers[k] : ~GoalReached(s, goal)
    BY DEF LevelOK, Covers
  <2> QED
    BY <1>1, <2>2, <2>3, <2>4 DEF Answers
<1>5. ASSUME next.queue # {} PROVE Covers(next, k + 1)
  <2>1. Hits(search) = {} /\ next.queue = TriedNodes(search)
    BY <1>5, ExpandIs
  <2>2. TriedNodes(search) = NewNodes(search)
    BY <2>1 DEF TriedNodes
  <2>3. next.visited = search.visited \cup {n.state : n \in NewNodes(search)}
    BY <2>2, ExpandIs
  <2>4. Covers(search, k)
    BY DEF LevelOK
  <2> QED
    BY <1>2, <2>1, <2>2, <2>3, <2>4, LevelCovers
<1> QED
  BY <1>3, <1>4, <1>5 DEF LevelOK

LEMMA StepOK ==
    ASSUME NEW k \in 0..(MaxLevels - 1), NEW search, LevelOK(search, k)
    PROVE  LevelOK(Step(search, goal), k + 1)
<1>1. CASE search.queue = {}
  <2>1. ASSUME NEW path \in search.found PROVE Answers(path, k + 1)
    BY DEF LevelOK, Answers
  <2>2. Step(search, goal) = search
    BY <1>1 DEF Step
  <2> QED
    BY <1>1, <2>1, <2>2 DEF LevelOK
<1>2. CASE search.queue # {}
  BY <1>2, ExpandOK DEF Step
<1> QED
  BY <1>1, <1>2

Start == [queue |-> {[state |-> facts, path |-> <<>>]}, visited |-> {facts}, found |-> {}]

LEMMA StartOK == ASSUME ~GoalReached(facts, goal) PROVE LevelOK(Start, 0)
<1> DEFINE node == [state |-> facts, path |-> <<>>]
<1>1. Executes([n \in {0} |-> facts], <<>>)
  BY DEF Executes
<1>2. Leads(<<>>, facts)
  BY <1>1 DEF Leads
<1>3. NodeOK(node, 0)
  BY <1>2 DEF NodeOK, Paths
<1>4. Covers(Start, 0)
  BY LayersAre DEF Covers, Closed, Start
<1> QED
  BY <1>3, <1>4 DEF LevelOK, Start

LEMMA FoundOK ==
    ASSUME ~GoalReached(facts, goal), NEW path \in Search(Start, goal).found
    PROVE  Answers(path, MaxLevels)
<1>1. PICK f : /\ f[0] = Start
               /\ \A n \in 0..(MaxLevels - 1) : f[n + 1] = Step(f[n], goal)
               /\ Search(Start, goal) = f[MaxLevels]
  BY SearchLevels
<1> DEFINE T == {n \in Nat : LevelOK(f[n], n)}
<1>2. 0 \in T
  BY <1>1, StartOK
<1>3. ASSUME NEW n \in 0..(MaxLevels - 1), n \in T PROVE n + 1 \in T
  <2>1. LevelOK(f[n + 1], n + 1)
    BY <1>1, <1>3, StepOK
  <2> QED
    BY <2>1
<1>4. MaxLevels \in T
  <2> HIDE DEF T
  <2>1. MaxLevels \in Nat /\ MaxLevels \in 0..MaxLevels
    BY PlanningAssumption
  <2>2. \A n \in 0..MaxLevels : n \in T
    BY <1>2, <1>3, <2>1, Levels
  <2> QED
    BY <2>1, <2>2
<1> QED
  BY <1>1, <1>4 DEF LevelOK

-----------------------------------------------------------------------------
(* The plan of a path.                                                     *)

LEMMA StepsAre ==
    ASSUME NEW path \in Paths
    PROVE  /\ Len(Steps(path)) = Len(path) /\ DOMAIN Steps(path) = 1..Len(path)
           /\ \A n \in 1..Len(path) : Grounded[ActionOf(Steps(path)[n])] = Grounded[path[n]]
<1>1. DOMAIN path = 1..Len(path) /\ Len(path) \in Nat /\ \A n \in 1..Len(path) : path[n] \in DOMAIN Grounded
  BY DEF Paths
<1>2. Steps(path) = [n \in 1..Len(path) |-> [name |-> Grounded[path[n]].name, args |-> Grounded[path[n]].args]]
  BY <1>1 DEF Steps
<1>3. Len(Steps(path)) = Len(path) /\ DOMAIN Steps(path) = 1..Len(path)
  BY <1>1, <1>2
<1>4. ASSUME NEW n \in 1..Len(path) PROVE Grounded[ActionOf(Steps(path)[n])] = Grounded[path[n]]
  <2>1. Steps(path)[n].name = Grounded[path[n]].name /\ Steps(path)[n].args = Grounded[path[n]].args
    BY <1>2
  <2> QED
    BY <1>1, <2>1, ActionFound
<1> QED
  BY <1>3, <1>4

IsTrace(f, plan) ==
    f = [n \in 0..Len(plan) |->
            IF n = 0 THEN facts ELSE Apply(Grounded[ActionOf(plan[n])], f[n - 1])]

LEMMA TraceIs ==
    ASSUME NEW path \in Paths, NEW state, Executes(state, path)
    PROVE  \A n \in 0..Len(path) : Trace(Steps(path))[n] = state[n]
<1> DEFINE plan == Steps(path)
           K == Len(path)
           u == [n \in 0..K |-> state[n]]
           t == Trace(plan)
<1>1. K \in Nat /\ Len(plan) = K /\ \A n \in 1..K : Grounded[ActionOf(plan[n])] = Grounded[path[n]]
  BY StepsAre DEF Paths
<1>2. t = CHOOSE f : IsTrace(f, plan)
  BY DEF Trace, IsTrace
<1> HIDE DEF plan, t, K
<1>3. IsTrace(u, plan)
  <2>1. ASSUME NEW n \in 0..K
        PROVE  u[n] = IF n = 0 THEN facts ELSE Apply(Grounded[ActionOf(plan[n])], u[n - 1])
    <3>1. CASE n = 0
      BY <1>1, <3>1 DEF Executes
    <3>2. CASE n \in 1..K
      <4>1. n - 1 \in 0..K /\ n # 0
        BY <3>2, <1>1
      <4>2. u[n] = state[n] /\ u[n - 1] = state[n - 1]
        BY <4>1
      <4>3. state[n] = Apply(Grounded[path[n]], state[n - 1])
        BY <3>2 DEF Executes, K
      <4> QED
        BY <1>1, <3>2, <4>1, <4>2, <4>3
    <3> QED
      BY <3>1, <3>2, <1>1
  <2> QED
    BY <1>1, <2>1 DEF IsTrace
<1>4. IsTrace(t, plan)
  <2> HIDE DEF u
  <2> QED
    BY <1>2, <1>3
<1> DEFINE T == {n \in Nat : t[n] = state[n]}
<1>5. 0 \in T
  BY <1>1, <1>4 DEF IsTrace, Executes
<1>6. ASSUME NEW n \in 0..(K - 1), n \in T PROVE n + 1 \in T
  <2>1. n + 1 \in 0..K /\ n + 1 \in 1..K /\ n + 1 # 0 /\ (n + 1) - 1 = n
    BY <1>1
  <2>2. t[n + 1] = Apply(Grounded[ActionOf(plan[n + 1])], t[n])
    BY <1>1, <1>4, <2>1 DEF IsTrace
  <2>3. state[n + 1] = Apply(Grounded[path[n + 1]], state[n])
    BY <2>1 DEF Executes, K
  <2> QED
    BY <1>1, <1>6, <2>1, <2>2, <2>3
<1>7. \A n \in 0..K : n \in T
  <2> HIDE DEF T
  <2> QED
    BY <1>1, <1>5, <1>6, Levels
<1> QED
  BY <1>7 DEF plan, t, K

LEMMA AnswerIs ==
    ASSUME ~GoalReached(facts, goal)
    PROVE  /\ Answer.solved => \E path : Answers(path, MaxLevels) /\ Answer.plan = Steps(path)
           /\ ~Answer.solved => Search(Start, goal).found = {}
<1> DEFINE found == Search(Start, goal).found
<1>1. Answer = AnswerOf(found)
  BY DEF Answer, Solve, SearchFrom, Start
<1>2. Answer.solved <=> found # {}
  BY <1>1 DEF AnswerOf
<1>3. ASSUME found # {} PROVE \E path : Answers(path, MaxLevels) /\ Answer.plan = Steps(path)
  <2> DEFINE path == CHOOSE path \in found : TRUE
  <2>1. path \in found
    BY <1>3
  <2>2. Answer.plan = Steps(path)
    BY <1>1, <1>3 DEF AnswerOf
  <2> HIDE DEF path
  <2> QED
    BY <2>1, <2>2, FoundOK
<1> QED
  BY <1>2, <1>3

LEMMA NothingToDo == ASSUME GoalReached(facts, goal) PROVE Answer.solved /\ Answer.plan = <<>>
BY DEF Answer, Solve

\* What a plan is made of: names and arguments of the lot's actions.
PlanSteps == {[name |-> a.name, args |-> a.args] : a \in Actions}

LEMMA PlanOfActions == Answer.plan \in Seq(PlanSteps)
<1>1. ASSUME NEW path \in Paths PROVE Steps(path) \in Seq(PlanSteps)
  <2>1. \A n \in DOMAIN path : Grounded[path[n]] \in Actions
    BY GroundedSeq DEF Paths
  <2>2. \A n \in DOMAIN path : [name |-> Grounded[path[n]].name, args |-> Grounded[path[n]].args] \in PlanSteps
    BY <2>1 DEF PlanSteps
  <2>3. DOMAIN path = 1..Len(path) /\ Len(path) \in Nat
    BY DEF Paths
  <2> QED
    BY <2>2, <2>3 DEF Steps
<1>2. CASE GoalReached(facts, goal)
  <2>1. Answer.plan = <<>>
    BY <1>2, NothingToDo
  <2> QED
    BY <2>1
<1>3. CASE ~GoalReached(facts, goal) /\ Answer.solved
  <2>1. PICK path \in Paths : Answer.plan = Steps(path)
    BY <1>3, AnswerIs DEF Answers
  <2> QED
    BY <1>1, <2>1
<1>4. CASE ~GoalReached(facts, goal) /\ ~Answer.solved
  <2>1. Answer.plan = <<>>
    BY <1>4 DEF Answer, Solve, SearchFrom, AnswerOf
  <2> QED
    BY <2>1
<1> QED
  BY <1>2, <1>3, <1>4

-----------------------------------------------------------------------------
(* That nothing is missed.                                                 *)

LEMMA LayersRise == ASSUME NEW k \in 0..MaxLevels, NEW m \in 0..MaxLevels, k <= m PROVE Layers[k] \subseteq Layers[m]
<1> DEFINE T == {j \in Nat : k + j <= MaxLevels => Layers[k] \subseteq Layers[k + j]}
<1>1. k \in Nat /\ m \in Nat /\ MaxLevels \in Nat /\ m - k \in Nat /\ k + 0 = k /\ k + (m - k) = m
  BY PlanningAssumption
<1>2. 0 \in T
  BY <1>1
<1>3. ASSUME NEW j \in 0..((m - k) - 1), j \in T PROVE j + 1 \in T
  <2>1. k + j \in 0..(MaxLevels - 1) /\ k + (j + 1) = (k + j) + 1 /\ j + 1 \in Nat /\ k + j <= MaxLevels
    BY <1>1
  <2>2. Layers[k + j] \subseteq Layers[(k + j) + 1]
    BY <2>1, LayersAre
  <2> QED
    BY <1>3, <2>1, <2>2
<1>4. m - k \in T
  <2> HIDE DEF T
  <2>1. \A j \in 0..(m - k) : j \in T
    BY <1>1, <1>2, <1>3, Levels
  <2> QED
    BY <1>1, <2>1
<1> QED
  BY <1>1, <1>4

LEMMA ReachedFinite == ASSUME NEW S, IsFiniteSet(S) PROVE IsFiniteSet(Reached(S))
<1> DEFINE all == (DOMAIN Grounded) \X S
           W == {q \in all : Applicable(Grounded[q[1]], q[2])}
           image == [p \in W |-> Apply(Grounded[p[1]], p[2])]
<1>1. IsFiniteSet(DOMAIN Grounded)
  <2>1. IsFiniteSet(1..Len(Grounded))
    BY NumbersAreNat, FS_Interval
  <2> QED
    BY <2>1, NumbersAreNat
<1>2. IsFiniteSet(all)
  BY <1>1, FS_Product
<1>3. IsFiniteSet(W)
  BY <1>2, FS_Subset
<1>4. image \in Surjection(W, Reached(S))
  BY DEF Surjection, Reached
<1> QED
  BY <1>3, <1>4, FS_Surjection

LEMMA LayersFinite == \A n \in 0..MaxLevels : IsFiniteSet(Layers[n])
<1> DEFINE T == {n \in Nat : IsFiniteSet(Layers[n])}
<1>1. 0 \in T
  BY LayersAre, FS_Singleton
<1>2. ASSUME NEW n \in 0..(MaxLevels - 1), n \in T PROVE n + 1 \in T
  <2>1. IsFiniteSet(Layers[n]) /\ IsFiniteSet(Reached(Layers[n]))
    BY <1>2, ReachedFinite
  <2>2. IsFiniteSet(Layers[n] \cup Reached(Layers[n]))
    BY <2>1, FS_Union
  <2>3. n + 1 \in Nat /\ Layers[n + 1] = Layers[n] \cup Reached(Layers[n])
    BY LayersAre
  <2> QED
    BY <2>2, <2>3
<1> QED
  <2> HIDE DEF T
  <2>1. MaxLevels \in Nat
    BY PlanningAssumption
  <2>2. \A n \in 0..MaxLevels : n \in T
    BY <1>1, <1>2, <2>1, Levels
  <2> QED
    BY <2>1, <2>2 DEF T

\* What can be reached in n actions and is short of the goal is no more than the planner may
\* visit.
Misses(n) == {s \in Layers[n] : ~GoalReached(s, goal)}
Fits(n) == Cardinality(Misses(n)) <= MaxStates

LEMMA MissesFinite ==
    ASSUME NEW n \in 0..MaxLevels, NEW V, V \subseteq Misses(n)
    PROVE  /\ IsFiniteSet(Misses(n)) /\ Cardinality(Misses(n)) \in Nat
           /\ Cardinality(V) \in Nat /\ Cardinality(V) <= Cardinality(Misses(n))
<1>1. Misses(n) \in SUBSET Layers[n] /\ IsFiniteSet(Layers[n])
  BY LayersFinite DEF Misses
<1>2. IsFiniteSet(Misses(n))
  BY <1>1, FS_Subset
<1> QED
  BY <1>2, FS_Subset, FS_CardinalityType

LEMMA FitsFalls ==
    ASSUME NEW k \in 0..MaxLevels, NEW m \in 0..MaxLevels, k <= m, Fits(m)
    PROVE  Fits(k)
<1>1. Misses(k) \subseteq Misses(m)
  BY LayersRise DEF Misses
<1>2. Cardinality(Misses(k)) <= Cardinality(Misses(m))
      /\ Cardinality(Misses(k)) \in Nat /\ Cardinality(Misses(m)) \in Nat
  BY <1>1, MissesFinite
<1> QED
  BY <1>2, PlanningAssumption DEF Fits

\* As long as nothing is found, all that k actions reach has been visited in vain.
Complete(search, k) ==
    /\ \A node \in search.queue : NodeOK(node, k) /\ node.state \in search.visited
    /\ search.visited \subseteq Misses(k)
    /\ search.found = {} => Covers(search, k)

LEMMA ExpandComplete ==
    ASSUME NEW k \in 0..(MaxLevels - 1), Fits(k + 1), NEW search, Complete(search, k),
           search.queue # {}, search.found = {},
           NEW next, next = Expand(search, goal)
    PROVE  Complete(next, k + 1)
<1>1. k \in Nat /\ k + 1 \in 0..MaxLevels /\ \A node \in search.queue : NodeOK(node, k)
  BY PlanningAssumption DEF Complete
<1>2. \A node \in NewNodes(search) : NodeOK(node, k + 1)
  BY <1>1, NewNodesOK
<1>3. next.queue \subseteq TriedNodes(search) /\ TriedNodes(search) \subseteq NewNodes(search)
      /\ next.visited = search.visited \cup {n.state : n \in TriedNodes(search)}
  BY ExpandIs DEF TriedNodes
<1>4. \A node \in next.queue : NodeOK(node, k + 1) /\ node.state \in next.visited
  BY <1>2, <1>3
<1>5. next.visited \subseteq Misses(k + 1)
  <2>1. Layers[k + 1] = Layers[k] \cup Reached(Layers[k]) /\ search.visited \subseteq Misses(k)
    BY LayersAre DEF Complete
  <2>2. ASSUME NEW m \in NewNodes(search) PROVE m.state \in Reached(Layers[k])
    <3>1. PICK node \in search.queue, n \in DOMAIN Grounded :
              Applicable(Grounded[n], node.state) /\ m = Child(node, n, Grounded[n])
      BY DEF NewNodes, New, Successors
    <3>2. node.state \in Layers[k] /\ m.state = Apply(Grounded[n], node.state)
      BY <2>1, <3>1 DEF Complete, Child, Misses
    <3>3. <<n, node.state>> \in {q \in (DOMAIN Grounded) \X Layers[k] : Applicable(Grounded[q[1]], q[2])}
      BY <3>1, <3>2
    <3> QED
      BY <3>2, <3>3 DEF Reached
  <2>3. ASSUME NEW m \in TriedNodes(search) PROVE ~GoalReached(m.state, goal)
    <3>1. m \in NewNodes(search) /\ m.path \in Paths
      BY <1>2, <1>3 DEF NodeOK
    <3>2. \A i \in DOMAIN m.path : m.path[i] \in Nat
      BY <3>1, NumbersAreNat DEF Paths
    <3>3. ~Ahead(m, m)
      BY <3>2 DEF Ahead
    <3> QED
      BY <3>1, <3>3 DEF TriedNodes, Hits
  <2>4. \A m \in TriedNodes(search) : m.state \in Misses(k + 1)
    BY <1>3, <2>1, <2>2, <2>3 DEF Misses
  <2>5. search.visited \subseteq Misses(k + 1)
    BY <2>1 DEF Misses
  <2> QED
    BY <1>3, <2>4, <2>5
<1>6. Within(next)
  <2>1. Cardinality(next.visited) <= Cardinality(Misses(k + 1))
        /\ Cardinality(next.visited) \in Nat /\ Cardinality(Misses(k + 1)) \in Nat
    BY <1>1, <1>5, MissesFinite
  <2> QED
    BY <2>1, PlanningAssumption DEF Fits, Within
<1>7. ASSUME next.found = {} PROVE Covers(next, k + 1)
  <2>1. Hits(search) = {}
    <3>1. SUFFICES ASSUME Hits(search) # {} PROVE FALSE
      OBVIOUS
    <3>2. \A h \in Hits(search) : h.path \in Paths /\ Len(h.path) = k + 1
      BY <1>2 DEF NodeOK, Hits
    <3>3. PICK h \in Hits(search) : \A m \in Hits(search) : ~Ahead(m, h)
      BY <1>1, <3>1, <3>2, FirstNode
    <3>4. h.path \in next.found
      BY <1>6, <3>3, ExpandIs
    <3> QED
      BY <1>7, <3>4
  <2>2. TriedNodes(search) = NewNodes(search)
    BY <2>1 DEF TriedNodes
  <2>3. next.queue = NewNodes(search)
    BY <1>6, <2>1, <2>2, ExpandIs
  <2>4. Covers(search, k)
    BY DEF Complete
  <2> QED
    BY <1>1, <1>3, <2>1, <2>2, <2>3, <2>4, LevelCovers
<1> QED
  BY <1>4, <1>5, <1>7 DEF Complete

LEMMA StepComplete ==
    ASSUME NEW k \in 0..(MaxLevels - 1), Fits(k + 1), NEW search, Complete(search, k),
           search.found # {} => search.queue = {}
    PROVE  LET next == Step(search, goal)
           IN  Complete(next, k + 1) /\ (next.found # {} => next.queue = {})
<1>1. CASE search.queue = {}
  <2>1. Step(search, goal) = search
    BY <1>1 DEF Step
  <2>2. Layers[k + 1] = Layers[k] \cup Reached(Layers[k])
    BY LayersAre
  <2>3. ASSUME search.found = {} PROVE Covers(search, k + 1)
    <3>1. Covers(search, k)
      BY <2>3 DEF Complete
    <3>2. Layers[k] \subseteq search.visited /\ Closed(search)
      BY <3>1 DEF Covers
    <3>3. Reached(Layers[k]) \subseteq search.visited
      BY <1>1, <3>2 DEF Closed, Reached
    <3> QED
      BY <2>2, <3>1, <3>2, <3>3 DEF Covers
  <2>4. Misses(k) \subseteq Misses(k + 1)
    BY <2>2 DEF Misses
  <2> QED
    BY <1>1, <2>1, <2>3, <2>4 DEF Complete
<1>2. CASE search.queue # {}
  <2> DEFINE next == Expand(search, goal)
  <2>1. Step(search, goal) = next
    BY <1>2 DEF Step
  <2>2. Complete(next, k + 1)
    BY <1>2, ExpandComplete
  <2>3. next.found # {} => next.queue = {}
    BY ExpandIs
  <2> QED
    BY <2>1, <2>2, <2>3
<1> QED
  BY <1>1, <1>2

LEMMA FoundComplete ==
    ASSUME NEW n \in 0..MaxLevels, Fits(n), ~GoalReached(facts, goal), Search(Start, goal).found = {}
    PROVE  \A s \in Layers[n] : ~GoalReached(s, goal)
<1>1. PICK f : /\ f[0] = Start
               /\ \A k \in 0..(MaxLevels - 1) : f[k + 1] = Step(f[k], goal)
               /\ Search(Start, goal) = f[MaxLevels]
  BY SearchLevels
<1>2. n \in Nat /\ MaxLevels \in Nat /\ 0..(n - 1) \subseteq 0..(MaxLevels - 1)
  BY PlanningAssumption
<1> DEFINE T == {k \in Nat : Complete(f[k], k) /\ (f[k].found # {} => f[k].queue = {})}
<1>3. 0 \in T
  <2>1. LevelOK(Start, 0)
    BY StartOK
  <2>2. Start.found = {} /\ Start.visited = {facts} /\ Start.queue = {[state |-> facts, path |-> <<>>]}
    BY DEF Start
  <2>3. Complete(Start, 0)
    BY <2>1, <2>2, LayersAre DEF LevelOK, Complete, Misses
  <2> QED
    BY <1>1, <2>2, <2>3
<1>4. ASSUME NEW k \in 0..(n - 1), k \in T PROVE k + 1 \in T
  <2>1. k \in 0..(MaxLevels - 1) /\ k + 1 \in 0..MaxLevels /\ k + 1 <= n
    BY <1>2
  <2>2. Fits(k + 1)
    BY <2>1, FitsFalls
  <2>3. Complete(f[k + 1], k + 1) /\ (f[k + 1].found # {} => f[k + 1].queue = {})
    BY <1>1, <1>4, <2>1, <2>2, StepComplete
  <2> QED
    BY <2>1, <2>3
<1>5. n \in T
  <2> HIDE DEF T
  <2>1. \A k \in 0..n : k \in T
    BY <1>2, <1>3, <1>4, Levels
  <2> QED
    BY <1>2, <2>1
<1>6. f[n].found = {}
  <2> SUFFICES ASSUME f[n].queue = {} PROVE f[n].found = {}
    BY <1>5
  <2> DEFINE U == {j \in Nat : f[n + j] = f[n]}
             M == MaxLevels - n
  <2>1. M \in Nat /\ n + 0 = n /\ n + M = MaxLevels
    BY <1>2
  <2>2. 0 \in U
    BY <2>1
  <2>3. ASSUME NEW j \in 0..(M - 1), j \in U PROVE j + 1 \in U
    <3>1. n + j \in 0..(MaxLevels - 1) /\ n + (j + 1) = (n + j) + 1 /\ j + 1 \in Nat
      BY <1>2
    <3>2. f[(n + j) + 1] = Step(f[n + j], goal)
      BY <1>1, <3>1
    <3> QED
      BY <2>3, <3>1, <3>2 DEF Step
  <2>4. M \in U
    <3> HIDE DEF U, M
    <3>1. \A j \in 0..M : j \in U
      BY <2>1, <2>2, <2>3, Levels
    <3> QED
      BY <2>1, <3>1
  <2> QED
    BY <1>1, <2>1, <2>4
<1> QED
  BY <1>5, <1>6 DEF Complete, Covers

-----------------------------------------------------------------------------
LEMMA Executable == PlanIsExecutable
<1>1. CASE GoalReached(facts, goal)
  <2>1. Answer.plan = <<>>
    BY <1>1, NothingToDo
  <2>2. Executes([n \in {0} |-> facts], <<>>) /\ <<>> \in Paths /\ Len(<<>>) = 0
    BY DEF Executes, Paths
  <2>3. Steps(<<>>) = <<>>
    BY DEF Steps
  <2>4. Trace(<<>>)[0] = facts
    BY <2>2, <2>3, TraceIs
  <2> QED
    BY <1>1, <2>1, <2>4 DEF PlanIsExecutable
<1>2. CASE ~GoalReached(facts, goal) /\ Answer.solved
  <2>1. PICK path : Answers(path, MaxLevels) /\ Answer.plan = Steps(path)
    BY <1>2, AnswerIs
  <2>2. PICK s : Leads(path, s) /\ GoalReached(s, goal)
    BY <2>1 DEF Answers
  <2>3. PICK state : Executes(state, path) /\ state[Len(path)] = s
    BY <2>2 DEF Leads
  <2>4. path \in Paths /\ Len(path) \in Nat
    BY <2>1 DEF Answers, Paths
  <2> DEFINE plan == Steps(path)
             trace == Trace(plan)
  <2>5. \A n \in 0..Len(path) : trace[n] = state[n]
    BY <2>3, <2>4, TraceIs
  <2>6. /\ Len(plan) = Len(path) /\ DOMAIN plan = 1..Len(path)
        /\ \A n \in 1..Len(path) : Grounded[ActionOf(plan[n])] = Grounded[path[n]]
    BY <2>4, StepsAre
  <2> HIDE DEF plan, trace
  <2>7. ASSUME NEW n \in DOMAIN plan PROVE Applicable(Grounded[ActionOf(plan[n])], trace[n - 1])
    <3>1. n \in 1..Len(path) /\ n - 1 \in 0..Len(path)
      BY <2>4, <2>6
    <3> QED
      BY <2>3, <2>5, <2>6, <3>1 DEF Executes
  <2>8. GoalReached(trace[Len(plan)], goal)
    BY <2>2, <2>3, <2>4, <2>5, <2>6
  <2> QED
    BY <2>1, <2>7, <2>8 DEF PlanIsExecutable, plan, trace
<1>3. CASE ~Answer.solved
  BY <1>3 DEF PlanIsExecutable
<1> QED
  BY <1>1, <1>2, <1>3

LEMMA Shortest == PlanIsShortest
<1>1. CASE GoalReached(facts, goal)
  BY <1>1, NothingToDo DEF PlanIsShortest
<1>2. CASE ~GoalReached(facts, goal) /\ Answer.solved
  <2>1. PICK path : Answers(path, MaxLevels) /\ Answer.plan = Steps(path)
    BY <1>2, AnswerIs
  <2>2. Len(Answer.plan) = Len(path)
    BY <2>1, StepsAre DEF Answers
  <2> QED
    BY <2>1, <2>2 DEF Answers, PlanIsShortest
<1>3. CASE ~Answer.solved
  BY <1>3 DEF PlanIsShortest
<1> QED
  BY <1>1, <1>2, <1>3

\* Whatever is known and asked for, a plan the planner returns can be carried out action by
\* action, and reaches the goal (ForwardSearchPlanner.solve).
THEOREM PlansAreExecutable == Spec => []PlanIsExecutable
<1>1. PlanIsExecutable
  BY Executable
<1> QED
  BY <1>1, PTL

\* No plan could be shorter, in a lot of any size (planning/README.md: the shortest one).
THEOREM PlansAreShortest == Spec => []PlanIsShortest
<1>1. PlanIsShortest
  BY Shortest
<1> QED
  BY <1>1, PTL

\* If MaxLevels actions reach all there is to reach, a problem is reported to have no plan only
\* if no sequence of actions reaches its goal, or if with any number of actions that does more
\* than MaxStates other states are reached as well (ForwardSearchPlanner's max_states).
THEOREM NoPlanIsMissed ==
    Spec => [](Layers[MaxLevels] = Layers[MaxLevels - 1] => SearchIsComplete)
<1> DEFINE All == Layers[MaxLevels] = Layers[MaxLevels - 1]
<1>1. ASSUME All, ~Answer.solved PROVE SearchIsComplete
  <2>1. ~GoalReached(facts, goal) /\ Search(Start, goal).found = {}
    BY <1>1, NothingToDo, AnswerIs
  <2>2. ASSUME NEW n \in 0..MaxLevels, \E s \in Layers[n] : GoalReached(s, goal)
        PROVE  Cardinality({s \in Layers[n] : ~GoalReached(s, goal)}) > MaxStates
    <3>1. ~Fits(n)
      BY <2>1, <2>2, FoundComplete
    <3>2. Cardinality(Misses(n)) \in Nat
      BY MissesFinite
    <3> QED
      BY <3>1, <3>2, PlanningAssumption DEF Fits, Misses
  <2> QED
    BY <1>1, <2>2 DEF SearchIsComplete
<1>2. All => SearchIsComplete
  BY <1>1 DEF SearchIsComplete
<1> QED
  BY <1>2, PTL

-----------------------------------------------------------------------------
(* What is near at hand: short plans.                                      *)

\* The number of a pair of arguments, taken apart as in Pairs, gives the pair.
Size(a, b) == a * b
Row(n, b) == ((n - 1) \div b) + 1
Column(n, b) == ((n - 1) % b) + 1

LEMMA ModDiv ==
    ASSUME NEW a \in Nat, NEW b \in Nat, NEW i \in 1..a, NEW j \in 1..b
    PROVE  \E n \in 1..Size(a, b) : Row(n, b) = i /\ Column(n, b) = j
<1>0. PICK n : n = (i - 1) * b + j
  OBVIOUS
<1> DEFINE d == (n - 1) \div b
           m == (n - 1) % b
<1>1. b > 0 /\ (i - 1) * b \in Nat /\ n \in Nat /\ n >= 1
  <2>1. i - 1 \in Nat /\ b \in Nat
    OBVIOUS
  <2>2. (i - 1) * b \in Nat
    BY <2>1
  <2> QED
    BY <1>0, <2>2
<1>2. n - 1 = b * d + m /\ m \in 0..(b - 1) /\ d \in Int
  BY <1>1
<1> HIDE DEF d, m
<1>3. b * (d - (i - 1)) = (j - 1) - m
  <2>1. b * (d - (i - 1)) = b * d - b * (i - 1)
    BY <1>2
  <2>2. b * (i - 1) = (i - 1) * b
    OBVIOUS
  <2> QED
    BY <1>0, <1>1, <1>2, <2>1, <2>2
<1>4. d - (i - 1) = 0
  <2> DEFINE e == d - (i - 1)
  <2>1. e \in Int /\ b * e > 0 - b /\ b * e < b
    BY <1>2, <1>3
  <2> HIDE DEF e
  <2>2. ASSUME e >= 1 PROVE FALSE
    <3>1. b * e >= b * 1
      BY <1>1, <2>1, <2>2
    <3> QED
      BY <2>1, <3>1
  <2>3. ASSUME e <= 0 - 1 PROVE FALSE
    <3>1. b * e <= b * (0 - 1)
      BY <1>1, <2>1, <2>3
    <3> QED
      BY <2>1, <3>1
  <2> QED
    BY <2>1, <2>2, <2>3 DEF e
<1>5. m = j - 1 /\ d + 1 = i
  <2>1. b * 0 = 0
    OBVIOUS
  <2> QED
    BY <1>2, <1>3, <1>4, <2>1
<1>6. n <= a * b
  <2>1. i * b <= a * b
    OBVIOUS
  <2>2. (i - 1) * b = i * b - b
    OBVIOUS
  <2> QED
    BY <1>0, <1>1, <2>1, <2>2
<1>7. n \in 1..(a * b)
  BY <1>1, <1>6
<1>8. d + 1 = i /\ m + 1 = j
  BY <1>2, <1>5
<1> QED
  BY <1>7, <1>8 DEF d, m, Size, Row, Column

LEMMA PairsAll ==
    ASSUME NEW A, NEW B, NEW p \in Seq(A), NEW q \in Seq(B), NEW i \in DOMAIN p, NEW j \in DOMAIN q
    PROVE  \E n \in DOMAIN Pairs(p, q) : Pairs(p, q)[n] = << p[i], q[j] >>
<1> DEFINE K == Len(p)
           L == Len(q)
<1>1. K \in Nat /\ L \in Nat /\ i \in 1..K /\ j \in 1..L
  OBVIOUS
<1> HIDE DEF K, L
<1>2. PICK n \in 1..Size(K, L) : Row(n, L) = i /\ Column(n, L) = j
  BY <1>1, ModDiv
<1> QED
  BY <1>2 DEF Pairs, Size, Row, Column, K, L

LEMMA TriplesAll ==
    ASSUME NEW A, NEW B, NEW C, NEW p \in Seq(A), NEW q \in Seq(B), NEW r \in Seq(C),
           NEW i \in DOMAIN p, NEW j \in DOMAIN q, NEW k \in DOMAIN r
    PROVE  \E n \in DOMAIN Triples(p, q, r) : Triples(p, q, r)[n] = << p[i], q[j], r[k] >>
<1> DEFINE two == Pairs(p, q)
           pairs == Pairs(two, r)
<1>1. two \in Seq(A \X B)
  BY PairsIn
<1>2. PICK m \in DOMAIN two : two[m] = << p[i], q[j] >>
  BY PairsAll
<1> HIDE DEF two
<1>3. PICK n \in DOMAIN pairs : pairs[n] = << two[m], r[k] >>
  BY <1>1, PairsAll
<1>4. Triples(p, q, r) = [x \in DOMAIN pairs |-> << pairs[x][1][1], pairs[x][1][2], pairs[x][2] >>]
  BY DEF Triples, Flat, two
<1> HIDE DEF pairs
<1>5. << pairs[n][1][1], pairs[n][1][2], pairs[n][2] >> = << p[i], q[j], r[k] >>
  BY <1>2, <1>3
<1> QED
  BY <1>3, <1>4, <1>5


\* Every action of the lot has a number.
LEMMA GroundedAll == \A a \in Actions : \E n \in DOMAIN Grounded : Grounded[n] = a
<1> DEFINE A1 == Ground2(Assign, Pairs(CarOrder, SpotOrder))
           A2 == Ground3(OpenEntry, Triples(CarOrder, BufferOrder, SpotOrder))
           A3 == Ground3(ShowAssignment, Triples(CarOrder, SpotOrder, BufferOrder))
           A4 == Ground3(Park, Triples(CarOrder, BufferOrder, SpotOrder))
           A5 == Ground3(Retrieve, Triples(CarOrder, SpotOrder, BufferOrder))
           A6 == Ground2(OpenExit, Pairs(CarOrder, BufferOrder))
           Has(s, a) == \E n \in DOMAIN s : s[n] = a
<1>1. CarOrder \in Seq(Cars) /\ SpotOrder \in Seq(Spots) /\ BufferOrder \in Seq(Buffers)
  BY PlanningAssumption DEF Cars, Spots, Buffers
<1>2. \E C : A1 \in Seq(C) /\ A2 \in Seq(C) /\ A3 \in Seq(C) /\ A4 \in Seq(C) /\ A5 \in Seq(C) /\ A6 \in Seq(C)
  <2> DEFINE P1 == Pairs(CarOrder, SpotOrder)
             P2 == Triples(CarOrder, BufferOrder, SpotOrder)
             P3 == Triples(CarOrder, SpotOrder, BufferOrder)
             P6 == Pairs(CarOrder, BufferOrder)
             C == {A1[n] : n \in DOMAIN A1} \cup {A2[n] : n \in DOMAIN A2} \cup {A3[n] : n \in DOMAIN A3}
                  \cup {A4[n] : n \in DOMAIN A4} \cup {A5[n] : n \in DOMAIN A5} \cup {A6[n] : n \in DOMAIN A6}
  <2>1. /\ P1 \in Seq(Cars \X Spots) /\ P2 \in Seq(Cars \X Buffers \X Spots)
        /\ P3 \in Seq(Cars \X Spots \X Buffers) /\ P6 \in Seq(Cars \X Buffers)
    BY <1>1, PairsIn, TriplesIn
  <2>2. /\ DOMAIN A1 = DOMAIN P1 /\ DOMAIN A2 = DOMAIN P2 /\ DOMAIN A3 = DOMAIN P3
        /\ DOMAIN A4 = DOMAIN P2 /\ DOMAIN A5 = DOMAIN P3 /\ DOMAIN A6 = DOMAIN P6
    BY DEF Ground2, Ground3
  <2>3. ASSUME NEW X, NEW P \in Seq(X), NEW D, NEW s, s = [n \in DOMAIN P |-> s[n]], {s[n] : n \in DOMAIN s} \subseteq D
        PROVE  s \in Seq(D)
    <3>1. DOMAIN s = DOMAIN P
      BY <2>3
    <3>2. \A n \in DOMAIN P : s[n] \in D
      BY <2>3, <3>1
    <3> QED
      BY <2>3, <3>1, <3>2
  <2>4. /\ A1 = [n \in DOMAIN P1 |-> A1[n]] /\ A2 = [n \in DOMAIN P2 |-> A2[n]]
        /\ A3 = [n \in DOMAIN P3 |-> A3[n]] /\ A4 = [n \in DOMAIN P2 |-> A4[n]]
        /\ A5 = [n \in DOMAIN P3 |-> A5[n]] /\ A6 = [n \in DOMAIN P6 |-> A6[n]]
    BY DEF Ground2, Ground3
  <2> HIDE DEF P1, P2, P3, P6, A1, A2, A3, A4, A5, A6
  <2>5. A1 \in Seq(C) /\ A2 \in Seq(C) /\ A3 \in Seq(C)
    <3>1. A1 \in Seq(C)
      BY <2>1, <2>3, <2>4
    <3>2. A2 \in Seq(C)
      BY <2>1, <2>3, <2>4
    <3>3. A3 \in Seq(C)
      BY <2>1, <2>3, <2>4
    <3> QED
      BY <3>1, <3>2, <3>3
  <2>6. A4 \in Seq(C) /\ A5 \in Seq(C) /\ A6 \in Seq(C)
    <3>1. A4 \in Seq(C)
      BY <2>1, <2>3, <2>4
    <3>2. A5 \in Seq(C)
      BY <2>1, <2>3, <2>4
    <3>3. A6 \in Seq(C)
      BY <2>1, <2>3, <2>4
    <3> QED
      BY <3>1, <3>2, <3>3
  <2> QED
    BY <2>5, <2>6
<1>3. ASSUME NEW C, NEW s \in Seq(C), NEW t \in Seq(C), NEW a, Has(s, a) \/ Has(t, a) PROVE Has(s \o t, a)
  <2>1. CASE Has(s, a)
    <3>1. PICK n \in 1..Len(s) : s[n] = a
      BY <2>1
    <3>2. n \in DOMAIN (s \o t) /\ (s \o t)[n] = a
      BY <3>1
    <3> QED
      BY <3>2
  <2>2. CASE Has(t, a)
    <3>1. PICK n \in 1..Len(t) : t[n] = a
      BY <2>2
    <3>2. Len(s) + n \in DOMAIN (s \o t) /\ (s \o t)[Len(s) + n] = a
      BY <3>1
    <3> QED
      BY <3>2
  <2> QED
    BY <1>3, <2>1, <2>2
<1>4. ASSUME NEW x \in Cars, NEW y \in Spots PROVE Has(A1, Assign(x, y))
  <2>1. PICK i \in DOMAIN CarOrder, j \in DOMAIN SpotOrder : x = CarOrder[i] /\ y = SpotOrder[j]
    BY DEF Cars, Spots
  <2>2. PICK n \in DOMAIN Pairs(CarOrder, SpotOrder) : Pairs(CarOrder, SpotOrder)[n] = <<x, y>>
    BY <1>1, <2>1, PairsAll
  <2> QED
    BY <2>2 DEF Ground2
<1>5. ASSUME NEW x \in Cars, NEW y \in Buffers PROVE Has(A6, OpenExit(x, y))
  <2>1. PICK i \in DOMAIN CarOrder, j \in DOMAIN BufferOrder : x = CarOrder[i] /\ y = BufferOrder[j]
    BY DEF Cars, Buffers
  <2>2. PICK n \in DOMAIN Pairs(CarOrder, BufferOrder) : Pairs(CarOrder, BufferOrder)[n] = <<x, y>>
    BY <1>1, <2>1, PairsAll
  <2> QED
    BY <2>2 DEF Ground2
<1>6. ASSUME NEW x \in Cars, NEW y \in Buffers, NEW z \in Spots
      PROVE  Has(A2, OpenEntry(x, y, z)) /\ Has(A4, Park(x, y, z))
  <2>1. PICK i \in DOMAIN CarOrder, j \in DOMAIN BufferOrder, k \in DOMAIN SpotOrder :
            x = CarOrder[i] /\ y = BufferOrder[j] /\ z = SpotOrder[k]
    BY DEF Cars, Buffers, Spots
  <2> DEFINE T == Triples(CarOrder, BufferOrder, SpotOrder)
  <2>2. PICK n \in DOMAIN T : T[n] = <<x, y, z>>
    BY <1>1, <2>1, TriplesAll
  <2> HIDE DEF T
  <2>3. Has(Ground3(OpenEntry, T), OpenEntry(x, y, z)) /\ Has(Ground3(Park, T), Park(x, y, z))
    BY <2>2 DEF Ground3
  <2> QED
    BY <2>3 DEF T
<1>7. ASSUME NEW x \in Cars, NEW y \in Spots, NEW z \in Buffers
      PROVE  Has(A3, ShowAssignment(x, y, z)) /\ Has(A5, Retrieve(x, y, z))
  <2>1. PICK i \in DOMAIN CarOrder, j \in DOMAIN SpotOrder, k \in DOMAIN BufferOrder :
            x = CarOrder[i] /\ y = SpotOrder[j] /\ z = BufferOrder[k]
    BY DEF Cars, Buffers, Spots
  <2> DEFINE T == Triples(CarOrder, SpotOrder, BufferOrder)
  <2>2. PICK n \in DOMAIN T : T[n] = <<x, y, z>>
    BY <1>1, <2>1, TriplesAll
  <2> HIDE DEF T
  <2>3. Has(Ground3(ShowAssignment, T), ShowAssignment(x, y, z)) /\ Has(Ground3(Retrieve, T), Retrieve(x, y, z))
    BY <2>2 DEF Ground3
  <2> QED
    BY <2>3 DEF T
<1> SUFFICES ASSUME NEW a \in Actions PROVE Has(Grounded, a)
  OBVIOUS
<1>8. Has(A1, a) \/ Has(A2, a) \/ Has(A3, a) \/ Has(A4, a) \/ Has(A5, a) \/ Has(A6, a)
  <2> HIDE DEF A1, A2, A3, A4, A5, A6, Has
  <2> QED
    BY <1>4, <1>5, <1>6, <1>7 DEF Actions
<1>9. Grounded = A1 \o A2 \o A3 \o A4 \o A5 \o A6
  BY DEF Grounded
<1> HIDE DEF A1, A2, A3, A4, A5, A6, Has
<1>10. PICK C : A1 \in Seq(C) /\ A2 \in Seq(C) /\ A3 \in Seq(C) /\ A4 \in Seq(C) /\ A5 \in Seq(C) /\ A6 \in Seq(C)
  BY <1>2
<1>11. /\ A1 \o A2 \in Seq(C) /\ A1 \o A2 \o A3 \in Seq(C) /\ A1 \o A2 \o A3 \o A4 \in Seq(C)
       /\ A1 \o A2 \o A3 \o A4 \o A5 \in Seq(C)
  BY <1>10, ConcatProperties
<1>12. Has(A1 \o A2 \o A3 \o A4 \o A5 \o A6, a)
  BY <1>3, <1>8, <1>10, <1>11
<1> QED
  BY <1>9, <1>12


LEMMA NextLayer ==
    ASSUME NEW k \in 0..(MaxLevels - 1), NEW s \in Layers[k], NEW a \in Actions, Applicable(a, s)
    PROVE  Apply(a, s) \in Layers[k + 1]
<1>1. PICK n \in DOMAIN Grounded : Grounded[n] = a
  BY GroundedAll
<1>2. <<n, s>> \in {q \in (DOMAIN Grounded) \X Layers[k] : Applicable(Grounded[q[1]], q[2])}
  BY <1>1
<1>3. Apply(a, s) \in Reached(Layers[k])
  BY <1>1, <1>2 DEF Reached
<1> QED
  BY <1>3, LayersAre

\* A plan is no longer than any way to the goal.
LEMMA AnswerWithin ==
    ASSUME ~GoalReached(facts, goal), Answer.solved, NEW k \in Nat,
           k <= MaxLevels => \E s \in Layers[k] : GoalReached(s, goal)
    PROVE  Len(Answer.plan) \in 1..k
<1>1. PICK path : Answers(path, MaxLevels) /\ Answer.plan = Steps(path)
  BY AnswerIs
<1> DEFINE L == Len(path)
<1>2. L \in 1..MaxLevels /\ Len(Answer.plan) = L /\ \A s \in Layers[L - 1] : ~GoalReached(s, goal)
  BY <1>1, StepsAre DEF Answers
<1> HIDE DEF L
<1>3. ASSUME k < L PROVE FALSE
  <2>1. k \in 0..MaxLevels /\ L - 1 \in 0..MaxLevels /\ k <= L - 1 /\ k <= MaxLevels
    BY <1>2, <1>3, PlanningAssumption
  <2>2. Layers[k] \subseteq Layers[L - 1]
    BY <2>1, LayersRise
  <2> QED
    BY <1>2, <2>1, <2>2
<1> QED
  BY <1>2, <1>3, PlanningAssumption

LEMMA AnswerExists ==
    ASSUME NEW n \in 0..MaxLevels, Fits(n), NEW s \in Layers[n], GoalReached(s, goal)
    PROVE  Answer.solved
<1>1. CASE GoalReached(facts, goal)
  BY <1>1, NothingToDo
<1>2. CASE ~GoalReached(facts, goal)
  <2>1. SUFFICES ASSUME ~Answer.solved PROVE FALSE
    OBVIOUS
  <2>2. Search(Start, goal).found = {}
    BY <1>2, <2>1, AnswerIs
  <2> QED
    BY <1>2, <2>2, FoundComplete
<1> QED
  BY <1>1, <1>2

\* Every request of the lot takes at most three actions: the planner may visit all that is
\* short of the goal and no further away than that.
BoundsSuffice == MaxLevels >= 3 /\ Fits(3)

LEMMA BoundsFit ==
    ASSUME BoundsSuffice, NEW k \in 0..3
    PROVE  k \in 0..MaxLevels /\ Fits(k)
<1>1. k \in 0..MaxLevels /\ 3 \in 0..MaxLevels /\ k <= 3
  BY PlanningAssumption DEF BoundsSuffice
<1> QED
  BY <1>1, FitsFalls DEF BoundsSuffice

\* One action that reaches the goal.
LEMMA OneStep ==
    ASSUME ~GoalReached(facts, goal), NEW a \in Actions, Applicable(a, facts),
           GoalReached(Apply(a, facts), goal)
    PROVE  /\ Answer.solved => Len(Answer.plan) = 1
           /\ BoundsSuffice => Answer.solved
<1>1. facts \in Layers[0] /\ 0 \in 0..(MaxLevels - 1) /\ 0 + 1 = 1 /\ 0 \in 0..MaxLevels
  BY LayersAre, PlanningAssumption
<1>2. Apply(a, facts) \in Layers[1]
  BY <1>1, NextLayer
<1>3. Answer.solved => Len(Answer.plan) = 1
  <2>1. ASSUME Answer.solved PROVE Len(Answer.plan) \in 1..1
    BY <1>2, <2>1, AnswerWithin
  <2> QED
    BY <2>1
<1>4. ASSUME BoundsSuffice PROVE Answer.solved
  <2>1. 1 \in 0..MaxLevels /\ Fits(1)
    BY <1>4, BoundsFit
  <2> QED
    BY <1>2, <2>1, AnswerExists
<1> QED
  BY <1>3, <1>4

\* Three actions, one after the other.
LEMMA ThreeSteps ==
    ASSUME ~GoalReached(facts, goal),
           NEW a \in Actions, NEW b \in Actions, NEW c \in Actions, NEW s, NEW t,
           s = Apply(a, facts), t = Apply(b, s),
           Applicable(a, facts), Applicable(b, s), Applicable(c, t), GoalReached(Apply(c, t), goal)
    PROVE  /\ Answer.solved => Len(Answer.plan) \in 1..3
           /\ BoundsSuffice => Answer.solved
<1>1. facts \in Layers[0] /\ 0 \in 0..(MaxLevels - 1) /\ 0 + 1 = 1 /\ 0 \in 0..MaxLevels
  BY LayersAre, PlanningAssumption
<1>2. ASSUME 3 <= MaxLevels PROVE Apply(c, t) \in Layers[3]
  <2>1. 1 \in 0..(MaxLevels - 1) /\ 1 + 1 = 2 /\ 2 \in 0..(MaxLevels - 1) /\ 2 + 1 = 3
    BY <1>2, PlanningAssumption
  <2>2. s \in Layers[1]
    BY <1>1, NextLayer
  <2>3. t \in Layers[2]
    BY <2>1, <2>2, NextLayer
  <2> QED
    BY <2>1, <2>3, NextLayer
<1>3. ASSUME Answer.solved PROVE Len(Answer.plan) \in 1..3
  BY <1>2, <1>3, AnswerWithin
<1>4. ASSUME BoundsSuffice PROVE Answer.solved
  <2>1. 3 \in 0..MaxLevels /\ Fits(3) /\ 3 <= MaxLevels
    BY <1>4, BoundsFit DEF BoundsSuffice
  <2> QED
    BY <1>2, <2>1, AnswerExists
<1> QED
  BY <1>3, <1>4

\* The step of a plan that tells the dispatcher of an action.
StepOf(a) == [name |-> a.name, args |-> a.args]

\* The actions a plan tells of, and the states they lead through.
Runs(acts, state, K) ==
    /\ state[0] = facts
    /\ \A n \in 1..K : /\ acts[n] \in Actions /\ Applicable(acts[n], state[n - 1])
                       /\ state[n] = Apply(acts[n], state[n - 1])
    /\ GoalReached(state[K], goal)

LEMMA PlanRuns ==
    ASSUME ~GoalReached(facts, goal), Answer.solved
    PROVE  \E acts : \E state :
               /\ Runs(acts, state, Len(Answer.plan))
               /\ Answer.plan = [n \in 1..Len(Answer.plan) |-> StepOf(acts[n])]
<1>1. PICK path : Answers(path, MaxLevels) /\ Answer.plan = Steps(path)
  BY AnswerIs
<1>2. PICK s : Leads(path, s) /\ GoalReached(s, goal)
  BY <1>1 DEF Answers
<1>3. PICK state : Executes(state, path) /\ state[Len(path)] = s
  BY <1>2 DEF Leads
<1>4. path \in Paths /\ Len(path) \in Nat /\ DOMAIN path = 1..Len(path)
      /\ \A n \in 1..Len(path) : path[n] \in DOMAIN Grounded
  BY <1>1 DEF Answers, Paths
<1> DEFINE acts == [n \in 1..Len(path) |-> Grounded[path[n]]]
<1>5. Len(Answer.plan) = Len(path)
  BY <1>1, <1>4, StepsAre
<1>6. Runs(acts, state, Len(path))
  <2>1. ASSUME NEW n \in 1..Len(path) PROVE acts[n] \in Actions /\ acts[n] = Grounded[path[n]]
    BY <1>4, GroundedSeq
  <2> HIDE DEF acts
  <2> QED
    BY <1>2, <1>3, <2>1 DEF Runs, Executes
<1>7. Answer.plan = [n \in 1..Len(path) |-> StepOf(acts[n])]
  BY <1>1, <1>4 DEF Steps, StepOf
<1> HIDE DEF acts
<1> QED
  BY <1>5, <1>6, <1>7


\* What each action is there for.
LEMMA Adds ==
    ASSUME NEW a \in Actions, NEW f \in a.add
    PROVE  /\ f[1] = "exit-authorized" => f[3] \in Buffers /\ a = OpenExit(f[2], f[3])
           /\ f[1] = "at" => \E b \in Buffers : a = Park(f[2], b, f[3])
           /\ f[1] = "ready-for-pickup" => \E s \in Spots : a = Retrieve(f[2], s, f[3])
           /\ f[1] = "assigned" => f[3] \in Spots /\ a = Assign(f[2], f[3])
           /\ f[1] = "entry-authorized" => \E s \in Spots : a = OpenEntry(f[2], f[3], s)
           /\ f[1] = "assignment-shown" => \E b \in Buffers : a = ShowAssignment(f[2], f[3], b)
<1>1. ASSUME NEW d \in Cars, NEW s \in Spots, a = Assign(d, s)
      PROVE  f[1] = "assigned" /\ f[2] = d /\ f[3] = s
  <2>1. f = <<"assigned", d, s>>
    BY <1>1 DEF Assign
  <2> QED
    BY <2>1
<1>2. ASSUME NEW d \in Cars, NEW b \in Buffers, NEW s \in Spots, a = OpenEntry(d, b, s)
      PROVE  f[1] = "entry-authorized" /\ f[2] = d /\ f[3] = b
  <2>1. f = <<"entry-authorized", d, b>>
    BY <1>2 DEF OpenEntry
  <2> QED
    BY <2>1
<1>3. ASSUME NEW d \in Cars, NEW s \in Spots, NEW b \in Buffers, a = ShowAssignment(d, s, b)
      PROVE  f[1] = "assignment-shown" /\ f[2] = d /\ f[3] = s
  <2>1. f = <<"assignment-shown", d, s>>
    BY <1>3 DEF ShowAssignment
  <2> QED
    BY <2>1
<1>4. ASSUME NEW d \in Cars, NEW b \in Buffers, NEW s \in Spots, a = Park(d, b, s)
      PROVE  f[1] = "free-buffer" \/ (f[1] = "at" /\ f[2] = d /\ f[3] = s)
  <2>1. f = <<"at", d, s>> \/ f = <<"free-buffer", b>>
    BY <1>4 DEF Park
  <2> QED
    BY <2>1
<1>5. ASSUME NEW d \in Cars, NEW s \in Spots, NEW b \in Buffers, a = Retrieve(d, s, b)
      PROVE  f[1] \in {"free-spot", "in-buffer"} \/ (f[1] = "ready-for-pickup" /\ f[2] = d /\ f[3] = b)
  <2>1. f = <<"free-spot", s>> \/ f = <<"in-buffer", d, b>> \/ f = <<"ready-for-pickup", d, b>>
    BY <1>5 DEF Retrieve
  <2> QED
    BY <2>1
<1>6. ASSUME NEW d \in Cars, NEW b \in Buffers, a = OpenExit(d, b)
      PROVE  f[1] = "exit-authorized" /\ f[2] = d /\ f[3] = b
  <2>1. f = <<"exit-authorized", d, b>>
    BY <1>6 DEF OpenExit
  <2> QED
    BY <2>1
<1>7. CASE \E d \in Cars, s \in Spots : a = Assign(d, s)
  BY <1>1, <1>7
<1>8. CASE \E d \in Cars, b \in Buffers, s \in Spots : a = OpenEntry(d, b, s)
  BY <1>2, <1>8
<1>9. CASE \E d \in Cars, s \in Spots, b \in Buffers : a = ShowAssignment(d, s, b)
  BY <1>3, <1>9
<1>10. CASE \E d \in Cars, b \in Buffers, s \in Spots : a = Park(d, b, s)
  BY <1>4, <1>10
<1>11. CASE \E d \in Cars, s \in Spots, b \in Buffers : a = Retrieve(d, s, b)
  BY <1>5, <1>11
<1>12. CASE \E d \in Cars, b \in Buffers : a = OpenExit(d, b)
  BY <1>6, <1>12
<1> QED
  BY <1>7, <1>8, <1>9, <1>10, <1>11, <1>12 DEF Actions

LEMMA AddsExit ==
    ASSUME NEW a \in Actions, NEW c, NEW b, <<"exit-authorized", c, b>> \in a.add
    PROVE  b \in Buffers /\ a = OpenExit(c, b)
<1> DEFINE f == <<"exit-authorized", c, b>>
<1>1. f \in a.add /\ f[1] = "exit-authorized" /\ f[2] = c /\ f[3] = b
  OBVIOUS
<1> HIDE DEF f
<1> QED
  BY <1>1, Adds

LEMMA AddsAt ==
    ASSUME NEW a \in Actions, NEW c, NEW s, <<"at", c, s>> \in a.add
    PROVE  \E b \in Buffers : a = Park(c, b, s)
<1> DEFINE f == <<"at", c, s>>
<1>1. f \in a.add /\ f[1] = "at" /\ f[2] = c /\ f[3] = s
  OBVIOUS
<1> HIDE DEF f
<1> QED
  BY <1>1, Adds

LEMMA AddsReady ==
    ASSUME NEW a \in Actions, NEW c, NEW b, <<"ready-for-pickup", c, b>> \in a.add
    PROVE  \E s \in Spots : a = Retrieve(c, s, b)
<1> DEFINE f == <<"ready-for-pickup", c, b>>
<1>1. f \in a.add /\ f[1] = "ready-for-pickup" /\ f[2] = c /\ f[3] = b
  OBVIOUS
<1> HIDE DEF f
<1> QED
  BY <1>1, Adds

LEMMA AddsAssigned ==
    ASSUME NEW a \in Actions, NEW c, NEW s, <<"assigned", c, s>> \in a.add
    PROVE  s \in Spots /\ a = Assign(c, s)
<1> DEFINE f == <<"assigned", c, s>>
<1>1. f \in a.add /\ f[1] = "assigned" /\ f[2] = c /\ f[3] = s
  OBVIOUS
<1> HIDE DEF f
<1> QED
  BY <1>1, Adds

LEMMA AddsEntry ==
    ASSUME NEW a \in Actions, NEW c, NEW b, <<"entry-authorized", c, b>> \in a.add
    PROVE  \E s \in Spots : a = OpenEntry(c, b, s)
<1> DEFINE f == <<"entry-authorized", c, b>>
<1>1. f \in a.add /\ f[1] = "entry-authorized" /\ f[2] = c /\ f[3] = b
  OBVIOUS
<1> HIDE DEF f
<1> QED
  BY <1>1, Adds

LEMMA AddsShown ==
    ASSUME NEW a \in Actions, NEW c, NEW s, <<"assignment-shown", c, s>> \in a.add
    PROVE  \E b \in Buffers : a = ShowAssignment(c, s, b)
<1> DEFINE f == <<"assignment-shown", c, s>>
<1>1. f \in a.add /\ f[1] = "assignment-shown" /\ f[2] = c /\ f[3] = s
  OBVIOUS
<1> HIDE DEF f
<1> QED
  BY <1>1, Adds

\* What has to hold when a car is let in and told.
LEMMA EntryNeeds ==
    ASSUME NEW c, NEW b, NEW t, NEW state, Applicable(OpenEntry(c, b, t), state)
    PROVE  <<"assigned", c, t>> \in state /\ <<"free-buffer", b>> \in state
BY DEF OpenEntry, Applicable

LEMMA ShowNeeds ==
    ASSUME NEW c, NEW s, NEW b, NEW state, Applicable(ShowAssignment(c, s, b), state)
    PROVE  <<"assigned", c, s>> \in state /\ <<"entry-authorized", c, b>> \in state
BY DEF ShowAssignment, Applicable

\* A goal of one fact, not there yet, is added by the last action of the plan.
LEMMA OneStepPlan ==
    ASSUME NEW fact, goal = {fact}, fact \notin facts, Answer.solved, Len(Answer.plan) = 1
    PROVE  \E a \in Actions : Applicable(a, facts) /\ fact \in a.add /\ Answer.plan = <<StepOf(a)>>
<1>1. ~GoalReached(facts, goal)
  BY DEF GoalReached
<1>2. PICK acts : \E state : /\ Runs(acts, state, 1)
                             /\ Answer.plan = [n \in 1..1 |-> StepOf(acts[n])]
  BY <1>1, PlanRuns
<1>3. PICK state : Runs(acts, state, 1)
  BY <1>2
<1>4. acts[1] \in Actions /\ Applicable(acts[1], facts) /\ fact \in Apply(acts[1], facts)
  <2>1. 1 \in 1..1 /\ 1 - 1 = 0
    OBVIOUS
  <2> QED
    BY <1>3, <2>1 DEF Runs, GoalReached
<1>5. fact \in acts[1].add
  BY <1>4 DEF Apply
<1>6. Answer.plan = <<StepOf(acts[1])>>
  BY <1>2
<1> QED
  BY <1>4, <1>5, <1>6

\* A car that is ready is let out at once,
LEMMA DirectExit ==
    ASSUME NEW c \in Cars, NEW b \in Buffers, goal = { <<"exit-authorized", c, b>> },
           <<"exit-authorized", c, b>> \notin facts, <<"ready-for-pickup", c, b>> \in facts
    PROVE  /\ Answer.solved => Answer.plan = <<StepOf(OpenExit(c, b))>>
           /\ BoundsSuffice => Answer.solved
<1>1. OpenExit(c, b) \in Actions /\ ~GoalReached(facts, goal)
  BY DEF Actions, GoalReached
<1>2. Applicable(OpenExit(c, b), facts) /\ GoalReached(Apply(OpenExit(c, b), facts), goal)
  BY DEF OpenExit, Applicable, Apply, GoalReached
<1>3. (Answer.solved => Len(Answer.plan) = 1) /\ (BoundsSuffice => Answer.solved)
  BY <1>1, <1>2, OneStep
<1>4. ASSUME Answer.solved PROVE Answer.plan = <<StepOf(OpenExit(c, b))>>
  <2>1. PICK a \in Actions : <<"exit-authorized", c, b>> \in a.add /\ Answer.plan = <<StepOf(a)>>
    BY <1>3, <1>4, OneStepPlan
  <2> QED
    BY <2>1, AddsExit
<1> QED
  BY <1>3, <1>4

\* one that waits in its bay is parked where it was assigned to,
LEMMA DirectPark ==
    ASSUME NEW c \in Cars, NEW b \in Buffers, NEW s \in Spots, goal = { <<"at", c, s>> },
           <<"at", c, s>> \notin facts, <<"in-buffer", c, b>> \in facts, <<"assigned", c, s>> \in facts,
           \A d \in Buffers : <<"in-buffer", c, d>> \in facts => d = b
    PROVE  /\ Answer.solved => Answer.plan = <<StepOf(Park(c, b, s))>>
           /\ BoundsSuffice => Answer.solved
<1>1. Park(c, b, s) \in Actions /\ ~GoalReached(facts, goal)
  BY DEF Actions, GoalReached
<1>2. Applicable(Park(c, b, s), facts) /\ GoalReached(Apply(Park(c, b, s), facts), goal)
  BY DEF Park, Applicable, Apply, GoalReached
<1>3. (Answer.solved => Len(Answer.plan) = 1) /\ (BoundsSuffice => Answer.solved)
  BY <1>1, <1>2, OneStep
<1>4. ASSUME Answer.solved PROVE Answer.plan = <<StepOf(Park(c, b, s))>>
  <2>1. PICK a \in Actions : /\ Applicable(a, facts) /\ <<"at", c, s>> \in a.add
                             /\ Answer.plan = <<StepOf(a)>>
    BY <1>3, <1>4, OneStepPlan
  <2>2. PICK d \in Buffers : a = Park(c, d, s)
    BY <2>1, AddsAt
  <2>3. <<"in-buffer", c, d>> \in facts
    BY <2>1, <2>2 DEF Park, Applicable
  <2> QED
    BY <2>1, <2>2, <2>3
<1> QED
  BY <1>3, <1>4

\* and one that is asked for is brought out by one move, if its bay is free.
LEMMA DirectRetrieve ==
    ASSUME NEW c \in Cars, NEW b \in Buffers, NEW s \in Spots, goal = { <<"ready-for-pickup", c, b>> },
           <<"ready-for-pickup", c, b>> \notin facts, <<"at", c, s>> \in facts,
           <<"pickup-requested", c>> \in facts, <<"free-buffer", b>> \in facts,
           \A t \in Spots : <<"at", c, t>> \in facts => t = s
    PROVE  /\ Answer.solved => Answer.plan = <<StepOf(Retrieve(c, s, b))>>
           /\ BoundsSuffice => Answer.solved
<1>1. Retrieve(c, s, b) \in Actions /\ ~GoalReached(facts, goal)
  BY DEF Actions, GoalReached
<1>2. Applicable(Retrieve(c, s, b), facts) /\ GoalReached(Apply(Retrieve(c, s, b), facts), goal)
  BY DEF Retrieve, Applicable, Apply, GoalReached
<1>3. (Answer.solved => Len(Answer.plan) = 1) /\ (BoundsSuffice => Answer.solved)
  BY <1>1, <1>2, OneStep
<1>4. ASSUME Answer.solved PROVE Answer.plan = <<StepOf(Retrieve(c, s, b))>>
  <2>1. PICK a \in Actions : /\ Applicable(a, facts) /\ <<"ready-for-pickup", c, b>> \in a.add
                             /\ Answer.plan = <<StepOf(a)>>
    BY <1>3, <1>4, OneStepPlan
  <2>2. PICK t \in Spots : a = Retrieve(c, t, b)
    BY <2>1, AddsReady
  <2>3. <<"at", c, t>> \in facts
    BY <2>1, <2>2 DEF Retrieve, Applicable
  <2> QED
    BY <2>1, <2>2, <2>3
<1> QED
  BY <1>3, <1>4

\* What a state has that the one before had not is what the action adds.
LEMMA Gained ==
    ASSUME NEW acts, NEW state, NEW K \in Nat, Runs(acts, state, K), NEW n \in 1..K,
           NEW f, f \in state[n], f \notin state[n - 1]
    PROVE  acts[n] \in Actions /\ f \in acts[n].add /\ Applicable(acts[n], state[n - 1])
BY DEF Runs, Apply

\* A car at the gate is given its spot, let in and told, in this order, if the spot asked for
\* and a bay are free; which of the free bays is the planner's choice.
LEMMA DirectArrival ==
    ASSUME NEW c \in Cars, NEW s \in Spots, goal = { <<"assignment-shown", c, s>> },
           { <<"arrival-requested", c>>, <<"outside", c>>, <<"free-spot", s>> } \subseteq facts,
           \E b \in Buffers : <<"free-buffer", b>> \in facts,
           \A p : /\ <<"assigned", c, p>> \notin facts /\ <<"entry-authorized", c, p>> \notin facts
                  /\ <<"assignment-shown", c, p>> \notin facts
    PROVE  /\ Answer.solved =>
                  \E b \in Buffers :
                      /\ <<"free-buffer", b>> \in facts
                      /\ Answer.plan = << StepOf(Assign(c, s)), StepOf(OpenEntry(c, b, s)),
                                          StepOf(ShowAssignment(c, s, b)) >>
           /\ BoundsSuffice => Answer.solved
<1>0. ~GoalReached(facts, goal)
  BY DEF GoalReached
<1>1. (Answer.solved => Len(Answer.plan) \in 1..3) /\ (BoundsSuffice => Answer.solved)
  <2>1. PICK b \in Buffers : <<"free-buffer", b>> \in facts
    OBVIOUS
  <2> DEFINE x == Apply(Assign(c, s), facts)
             y == Apply(OpenEntry(c, b, s), x)
  <2>2. Assign(c, s) \in Actions /\ OpenEntry(c, b, s) \in Actions /\ ShowAssignment(c, s, b) \in Actions
    BY DEF Actions
  <2>3. Applicable(Assign(c, s), facts)
    BY DEF Assign, Applicable
  <2>4. { <<"arrival-requested", c>>, <<"outside", c>>, <<"assigned", c, s>>, <<"free-buffer", b>> } \subseteq x
    BY <2>1 DEF Assign, Apply
  <2>5. Applicable(OpenEntry(c, b, s), x)
    BY <2>4 DEF OpenEntry, Applicable
  <2>6. { <<"assigned", c, s>>, <<"entry-authorized", c, b>> } \subseteq y
    BY <2>4 DEF OpenEntry, Apply
  <2>7. Applicable(ShowAssignment(c, s, b), y) /\ GoalReached(Apply(ShowAssignment(c, s, b), y), goal)
    BY <2>6 DEF ShowAssignment, Applicable, Apply, GoalReached
  <2> HIDE DEF x, y
  <2>8. x = Apply(Assign(c, s), facts) /\ y = Apply(OpenEntry(c, b, s), x)
    BY DEF x, y
  <2> QED
    BY <1>0, <2>2, <2>3, <2>5, <2>7, <2>8, ThreeSteps
<1>2. ASSUME Answer.solved
      PROVE  \E b \in Buffers :
                 /\ <<"free-buffer", b>> \in facts
                 /\ Answer.plan = << StepOf(Assign(c, s)), StepOf(OpenEntry(c, b, s)),
                                     StepOf(ShowAssignment(c, s, b)) >>
  <2> DEFINE K == Len(Answer.plan)
  <2>1. K \in 1..3 /\ K \in Nat
    BY <1>1, <1>2
  <2>2. PICK acts : \E state : Runs(acts, state, K) /\ Answer.plan = [n \in 1..K |-> StepOf(acts[n])]
    BY <1>0, <1>2, PlanRuns
  <2>3. PICK state : Runs(acts, state, K)
    BY <2>2
  <2> HIDE DEF K
  <2>4. state[0] = facts /\ <<"assignment-shown", c, s>> \in state[K]
    BY <2>3 DEF Runs, GoalReached
  <2>5. \A n \in 1..K : n - 1 \in 0..K /\ (n = 1 => n - 1 = 0) /\ (n = 2 => n - 1 = 1) /\ (n = 3 => n - 1 = 2)
    BY <2>1
  <2>6. ASSUME NEW n \in 1..K, NEW b, <<"entry-authorized", c, b>> \in state[n],
               <<"entry-authorized", c, b>> \notin state[n - 1]
        PROVE  \E t \in Spots : /\ acts[n] = OpenEntry(c, b, t)
                                /\ <<"assigned", c, t>> \in state[n - 1]
                                /\ <<"free-buffer", b>> \in state[n - 1]
    <3>1. acts[n] \in Actions /\ <<"entry-authorized", c, b>> \in acts[n].add /\ Applicable(acts[n], state[n - 1])
      BY <2>1, <2>3, <2>6, Gained
    <3>2. PICK t \in Spots : acts[n] = OpenEntry(c, b, t)
      BY <3>1, AddsEntry
    <3> QED
      BY <3>1, <3>2, EntryNeeds
  <2>7. ASSUME NEW n \in 1..K, <<"assignment-shown", c, s>> \in state[n],
               <<"assignment-shown", c, s>> \notin state[n - 1]
        PROVE  \E b \in Buffers : /\ acts[n] = ShowAssignment(c, s, b)
                                  /\ <<"assigned", c, s>> \in state[n - 1]
                                  /\ <<"entry-authorized", c, b>> \in state[n - 1]
    <3>1. acts[n] \in Actions /\ <<"assignment-shown", c, s>> \in acts[n].add /\ Applicable(acts[n], state[n - 1])
      BY <2>1, <2>3, <2>7, Gained
    <3>2. PICK b \in Buffers : acts[n] = ShowAssignment(c, s, b)
      BY <3>1, AddsShown
    <3> QED
      BY <3>1, <3>2, ShowNeeds
  <2>8. 1 \in 1..K /\ <<"assignment-shown", c, s>> \notin state[1]
        /\ \A b : <<"entry-authorized", c, b>> \notin state[1]
    <3>1. 1 \in 1..K /\ 1 - 1 = 0
      BY <2>1
    <3>2. <<"assignment-shown", c, s>> \notin state[1]
      BY <2>4, <2>7, <3>1
    <3>3. \A b : <<"entry-authorized", c, b>> \notin state[1]
      BY <2>4, <2>6, <3>1
    <3> QED
      BY <3>1, <3>2, <3>3
  <2>9. 2 \in 1..K /\ <<"assignment-shown", c, s>> \notin state[2]
    <3>1. K # 1
      BY <2>4, <2>8
    <3>2. 2 \in 1..K /\ 2 - 1 = 1
      BY <2>1, <3>1
    <3> QED
      BY <2>7, <2>8, <3>2
  <2>10. K = 3 /\ 3 \in 1..K /\ 3 - 1 = 2 /\ 2 - 1 = 1 /\ 1 - 1 = 0
    <3>1. K # 1 /\ K # 2
      BY <2>4, <2>8, <2>9
    <3> QED
      BY <2>1, <3>1
  <2>11. PICK b \in Buffers : /\ acts[3] = ShowAssignment(c, s, b)
                              /\ <<"assigned", c, s>> \in state[2]
                              /\ <<"entry-authorized", c, b>> \in state[2]
    BY <2>4, <2>7, <2>9, <2>10
  <2>12. PICK t \in Spots : /\ acts[2] = OpenEntry(c, b, t)
                            /\ <<"assigned", c, t>> \in state[1] /\ <<"free-buffer", b>> \in state[1]
    BY <2>6, <2>8, <2>9, <2>10, <2>11
  <2>13. <<"assigned", c, s>> \in state[1]
    <3>1. state[2] = Apply(acts[2], state[1])
      BY <2>3, <2>9, <2>10 DEF Runs
    <3> QED
      BY <2>11, <2>12, <3>1 DEF Apply, OpenEntry
  <2>14. \A p : <<"assigned", c, p>> \in state[1] => acts[1] = Assign(c, p)
    <3>1. ASSUME NEW p, <<"assigned", c, p>> \in state[1] PROVE acts[1] = Assign(c, p)
      <4>1. <<"assigned", c, p>> \notin state[1 - 1]
        BY <2>4, <2>10
      <4>2. acts[1] \in Actions /\ <<"assigned", c, p>> \in acts[1].add
        BY <2>1, <2>3, <2>8, <3>1, <4>1, Gained
      <4> QED
        BY <4>2, AddsAssigned
    <3> QED
      BY <3>1
  <2>15. acts[1] = Assign(c, s) /\ t = s
    <3>1. acts[1] = Assign(c, s) /\ acts[1] = Assign(c, t)
      BY <2>12, <2>13, <2>14
    <3>2. acts[1].args = <<c, s>> /\ acts[1].args = <<c, t>>
      BY <3>1 DEF Assign
    <3> QED
      BY <3>1, <3>2
  <2>16. <<"free-buffer", b>> \in facts
    <3>1. state[1] = Apply(acts[1], facts)
      BY <2>3, <2>4, <2>8, <2>10 DEF Runs
    <3> QED
      BY <2>12, <2>15, <3>1 DEF Apply, Assign
  <2>17. Answer.plan = << StepOf(acts[1]), StepOf(acts[2]), StepOf(acts[3]) >>
    BY <2>2, <2>10
  <2> QED
    BY <2>11, <2>12, <2>15, <2>16, <2>17
<1> QED
  BY <1>1, <1>2

=============================================================================
