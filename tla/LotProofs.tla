----------------------------- MODULE LotProofs -----------------------------
(***************************************************************************)
(* What the whole loop promises in a lot of any size, however slow its     *)
(* nodes, however many valets move cars and whatever the gate's sensor     *)
(* sees.                                                                   *)
(*                                                                         *)
(* The plans of the planner name cards and places of the lot, hence so do  *)
(* the commands made of them, and every handler of the laptop is called    *)
(* with arguments that module Storage provides for: Lot implements it, and *)
(* what StorageProofs says of any messages holds in the running loop.      *)
(* About the sensors more can be said than Storage does: the last event    *)
(* under way about one says what it sees now.                              *)
(***************************************************************************)
EXTENDS Dashboard, SequenceTheorems, FiniteSetTheorems, TLAPS

Plan == INSTANCE PlanningProofs
            WITH facts <- Message.problem.init, goal <- Message.problem.goal
Store == INSTANCE StorageProofs

\* The three lists are sequences, as module Planning wants them.
LEMMA ListsOK ==
    /\ CarOrder \in Seq(Cards) /\ SpotOrder \in Seq(Spots) /\ BufferOrder \in Seq(Buffers)
    /\ Plan!PlanningAssumption
BY LotAssumption DEF Cards, Spots, Buffers, Elements, Plan!PlanningAssumption

\* Planner and Plan are instances of one module over the same lists: they agree operator by
\* operator.
LEMMA SameActions == Planner!Grounded = Plan!Grounded
<1>1. \A p, q : Planner!Pairs(p, q) = Plan!Pairs(p, q)
  BY DEF Planner!Pairs, Plan!Pairs
<1>2. \A p, q, r : Planner!Triples(p, q, r) = Plan!Triples(p, q, r)
  BY <1>1 DEF Planner!Triples, Plan!Triples, Planner!Flat, Plan!Flat
<1>3. \A s : Planner!Ground2(Planner!Assign, s) = Plan!Ground2(Plan!Assign, s)
  BY DEF Planner!Ground2, Plan!Ground2, Planner!Assign, Plan!Assign
<1>4. \A s : Planner!Ground3(Planner!OpenEntry, s) = Plan!Ground3(Plan!OpenEntry, s)
  BY DEF Planner!Ground3, Plan!Ground3, Planner!OpenEntry, Plan!OpenEntry
<1>5. \A s : Planner!Ground3(Planner!ShowAssignment, s) = Plan!Ground3(Plan!ShowAssignment, s)
  BY DEF Planner!Ground3, Plan!Ground3, Planner!ShowAssignment, Plan!ShowAssignment
<1>6. \A s : Planner!Ground3(Planner!Park, s) = Plan!Ground3(Plan!Park, s)
  BY DEF Planner!Ground3, Plan!Ground3, Planner!Park, Plan!Park
<1>7. \A s : Planner!Ground3(Planner!Retrieve, s) = Plan!Ground3(Plan!Retrieve, s)
  BY DEF Planner!Ground3, Plan!Ground3, Planner!Retrieve, Plan!Retrieve
<1>8. \A s : Planner!Ground2(Planner!OpenExit, s) = Plan!Ground2(Plan!OpenExit, s)
  BY DEF Planner!Ground2, Plan!Ground2, Planner!OpenExit, Plan!OpenExit
<1> QED
  BY <1>1, <1>2, <1>3, <1>4, <1>5, <1>6, <1>7, <1>8, Zenon DEF Planner!Grounded, Plan!Grounded

\* So do they level by level of the search,
LEMMA SameSearch == \A search, aim : Planner!Expand(search, aim) = Plan!Expand(search, aim)
<1>1. \A a, state : Planner!Applicable(a, state) <=> Plan!Applicable(a, state)
  BY DEF Planner!Applicable, Plan!Applicable
<1>2. \A node, n, a : Planner!Child(node, n, a) = Plan!Child(node, n, a)
  BY DEF Planner!Child, Plan!Child, Planner!Apply, Plan!Apply
<1>3. \A queue : Planner!Successors(queue) = Plan!Successors(queue)
  BY <1>1, <1>2, SameActions DEF Planner!Successors, Plan!Successors
<1>4. \A m, n : Planner!Ahead(m, n) <=> Plan!Ahead(m, n)
  BY DEF Planner!Ahead, Plan!Ahead
<1>5. \A succs, visited : Planner!New(succs, visited) = Plan!New(succs, visited)
  BY <1>4 DEF Planner!New, Plan!New
<1>6. \A search, new, hits : Planner!Tried(search, new, hits) = Plan!Tried(search, new, hits)
  <2> SUFFICES ASSUME NEW search, NEW new, NEW hits
               PROVE  Planner!Tried(search, new, hits) = Plan!Tried(search, new, hits)
    OBVIOUS
  <2> DEFINE Tried1 == {n \in new : \A m \in hits : Planner!Ahead(n, m)}
             Tried2 == {n \in new : \A m \in hits : Plan!Ahead(n, m)}
             Seen(tried) == search.visited \cup {n.state : n \in tried}
             Within1(tried) == Planner!Cardinality(Seen(tried)) <= MaxStates
             Within2(tried) == Plan!Cardinality(Seen(tried)) <= MaxStates
             First1(within) == {h \in hits : within /\ \A m \in hits : ~Planner!Ahead(m, h)}
             First2(within) == {h \in hits : within /\ \A m \in hits : ~Plan!Ahead(m, h)}
             After(tried, within, first) == [queue   |-> IF hits = {} /\ within THEN tried ELSE {},
                                             visited |-> Seen(tried),
                                             found   |-> {n.path : n \in first}]
  <2>1. Planner!Tried(search, new, hits) = After(Tried1, Within1(Tried1), First1(Within1(Tried1)))
    BY DEF Planner!Tried
  <2>2. Plan!Tried(search, new, hits) = After(Tried2, Within2(Tried2), First2(Within2(Tried2)))
    BY DEF Plan!Tried
  <2>3. Tried1 = Tried2
    BY <1>4
  <2>4. Within1(Tried2) = Within2(Tried2)
    <3>1. \A S : Planner!Cardinality(S) = Plan!Cardinality(S)
      BY DEF Planner!Cardinality, Plan!Cardinality
    <3> QED
      BY <3>1
  <2>5. \A within : First1(within) = First2(within)
    BY <1>4
  <2> HIDE DEF Tried1, Tried2, Within1, Within2, First1, First2, After
  <2> QED
    BY <2>1, <2>2, <2>3, <2>4, <2>5
<1>7. \A search, aim, new : Planner!TriedNew(search, aim, new) = Plan!TriedNew(search, aim, new)
  BY <1>6 DEF Planner!TriedNew, Plan!TriedNew, Planner!GoalReached, Plan!GoalReached
<1> QED
  BY <1>3, <1>5, <1>7 DEF Planner!Expand, Plan!Expand

\* and in their answers.
LEMMA SamePlans == \A init, aim : Planner!Solve(init, aim) = Plan!Solve(init, aim)
<1>1. \A start, aim : Planner!Search(start, aim) = Plan!Search(start, aim)
  BY SameSearch DEF Planner!Search, Plan!Search
<1>2. \A path : Planner!Steps(path) = Plan!Steps(path)
  BY SameActions DEF Planner!Steps, Plan!Steps
<1>3. \A found : Planner!AnswerOf(found) = Plan!AnswerOf(found)
  BY <1>2 DEF Planner!AnswerOf, Plan!AnswerOf
<1>4. \A init, aim : Planner!SearchFrom(init, aim) = Plan!SearchFrom(init, aim)
  BY <1>1, <1>3 DEF Planner!SearchFrom, Plan!SearchFrom
<1> QED
  BY <1>4 DEF Planner!Solve, Plan!Solve, Planner!GoalReached, Plan!GoalReached

-----------------------------------------------------------------------------
(* What the inboxes hold.                                                  *)

MessageOK(m) ==
    /\ m.kind = "occupancy" => m.place \in Places /\ m.taken \in BOOLEAN
    /\ m.kind = "nfc" => m.card \in Cards
    /\ m.kind = "duration" => m.hours \in 0..MaxHours
    /\ m.kind = "motion" => m.present \in BOOLEAN
    /\ m.kind = "problem" => (m.problem.purpose = "arrival" => m.problem.request \in Cards)
    /\ m.kind = "admission" => m.card \in Cards /\ m.accepted \in BOOLEAN
    /\ m.kind = "assignment" => m.card \in Cards /\ m.spot \in Spots /\ m.buffer \in Buffers
    /\ m.kind = "move" => m.card \in Cards /\ m.move \in Storage!Moves
    /\ m.kind = "exit" => m.card \in Cards

InboxOK(q) == \E S : q \in Seq(S) /\ \A m \in S : MessageOK(m)

PlanSteps ==
         {[name |-> n, args |-> a] : n \in {"assign"}, a \in Cards \X Spots}
    \cup {[name |-> n, args |-> a] : n \in {"open-entry", "park"}, a \in Cards \X Buffers \X Spots}
    \cup {[name |-> n, args |-> a] : n \in {"show-assignment", "retrieve"}, a \in Cards \X Spots \X Buffers}
    \cup {[name |-> n, args |-> a] : n \in {"open-exit"}, a \in Cards \X Buffers}

LEMMA InboxRest ==
    ASSUME NEW q, InboxOK(q), q # <<>>
    PROVE  InboxOK(Tail(q)) /\ MessageOK(Head(q))
<1>1. PICK S : q \in Seq(S) /\ \A m \in S : MessageOK(m)
  BY DEF InboxOK
<1>2. Tail(q) \in Seq(S) /\ Head(q) \in S
  BY <1>1, HeadTailProperties
<1> QED
  BY <1>1, <1>2 DEF InboxOK

LEMMA InboxConcat ==
    ASSUME NEW q, NEW r, InboxOK(q), InboxOK(r)
    PROVE  InboxOK(q \o r)
<1>1. PICK S : q \in Seq(S) /\ \A m \in S : MessageOK(m)
  BY DEF InboxOK
<1>2. PICK R : r \in Seq(R) /\ \A m \in R : MessageOK(m)
  BY DEF InboxOK
<1>3. q \in Seq(S \cup R) /\ r \in Seq(S \cup R)
  BY <1>1, <1>2, SeqMonotonic
<1>4. q \o r \in Seq(S \cup R)
  BY <1>3, ConcatProperties
<1> QED
  BY <1>1, <1>2, <1>4 DEF InboxOK

LEMMA InboxFew ==
    /\ InboxOK(<<>>)
    /\ \A m : MessageOK(m) => InboxOK(<<m>>)
    /\ \A m, n : MessageOK(m) /\ MessageOK(n) => InboxOK(<<m, n>>)
<1>1. InboxOK(<<>>)
  <2> DEFINE q == <<>>
             S == {}
  <2>1. q \in Seq(S) /\ \A x \in S : MessageOK(x)
    OBVIOUS
  <2>2. InboxOK(q)
    <3> HIDE DEF q, S
    <3> QED
      BY <2>1 DEF InboxOK
  <2> QED
    BY <2>2
<1>2. ASSUME NEW m, MessageOK(m) PROVE InboxOK(<<m>>)
  <2> DEFINE q == <<m>>
             S == {m}
  <2>1. q \in Seq(S) /\ \A x \in S : MessageOK(x)
    BY <1>2
  <2>2. InboxOK(q)
    <3> HIDE DEF q, S
    <3> QED
      BY <2>1 DEF InboxOK
  <2> QED
    BY <2>2
<1>3. ASSUME NEW m, NEW n, MessageOK(m), MessageOK(n) PROVE InboxOK(<<m, n>>)
  <2> DEFINE q == <<m, n>>
             S == {m, n}
  <2>1. q \in Seq(S) /\ \A x \in S : MessageOK(x)
    BY <1>3
  <2>2. InboxOK(q)
    <3> HIDE DEF q, S
    <3> QED
      BY <2>1 DEF InboxOK
  <2> QED
    BY <2>2
<1> QED
  BY <1>1, <1>2, <1>3

\* The messages of nodes and world.
LEMMA MessagesOK ==
    /\ \A p \in Places, taken \in BOOLEAN : MessageOK(Occupancy(p, taken))
    /\ \A reader, c : c \in Cards => MessageOK(NfcScan(reader, c))
    /\ \A h \in 0..MaxHours : MessageOK(DurationDial(h))
    /\ \A seen \in BOOLEAN : MessageOK(GateMotion(seen))
    /\ \A c \in Cards, accepted \in BOOLEAN : MessageOK(AdmissionResult(c, accepted))
    /\ \A c \in Cards, s \in Spots, b \in Buffers : MessageOK(ParkingAssignment(c, s, b))
    /\ \A c \in Cards, m \in Storage!Moves : MessageOK(VehicleMove(c, m))
    /\ \A c \in Cards : MessageOK(ExitAuthorization(c))
BY DEF MessageOK, Occupancy, NfcScan, DurationDial, GateMotion, AdmissionResult,
       ParkingAssignment, VehicleMove, ExitAuthorization

-----------------------------------------------------------------------------
(* Somebody's request is the oldest.                                       *)

\* Requests can be numbered in the order they were made.
Ranked(pairs) ==
    \E M \in Nat : \E rank \in [Cards -> 0..M] :
        \A c, d \in Cards : <<c, d>> \in pairs => rank[c] < rank[d]

LEMMA NewestRanked == ASSUME Ranked(older), NEW c \in Cards PROVE Ranked(Storage!Newest(c))
<1>0. PICK M \in Nat : \E rank \in [Cards -> 0..M] :
          \A d, e \in Cards : <<d, e>> \in older => rank[d] < rank[e]
  BY DEF Ranked
<1>1. PICK rank \in [Cards -> 0..M] : \A d, e \in Cards : <<d, e>> \in older => rank[d] < rank[e]
  BY <1>0
<1> DEFINE now == [rank EXCEPT ![c] = M + 1]
<1>2. M + 1 \in Nat /\ now \in [Cards -> 0..(M + 1)]
  OBVIOUS
<1>3. ASSUME NEW d \in Cards, NEW e \in Cards, <<d, e>> \in Storage!Newest(c)
      PROVE  now[d] < now[e]
  <2>1. CASE e = c
    <3>1. d # c
      BY <1>3, <2>1 DEF Storage!Newest
    <3>2. now[d] = rank[d] /\ now[e] = M + 1 /\ rank[d] \in 0..M
      BY <2>1, <3>1
    <3> QED
      BY <3>2
  <2>2. CASE e # c
    <3>1. <<d, e>> \in older /\ d # c
      BY <1>3, <2>2 DEF Storage!Newest
    <3> QED
      BY <1>1, <2>2, <3>1
  <2> QED
    BY <2>1, <2>2
<1> HIDE DEF now
<1> QED
  BY <1>2, <1>3 DEF Ranked

LEMMA OldestExists ==
    ASSUME NEW pairs, Ranked(pairs), NEW S \in SUBSET Cards, S # {}
    PROVE  \E c \in S : \A d \in S : <<d, c>> \notin pairs
<1>0. PICK M \in Nat : \E rank \in [Cards -> 0..M] :
          \A d, e \in Cards : <<d, e>> \in pairs => rank[d] < rank[e]
  BY DEF Ranked
<1>1. PICK rank \in [Cards -> 0..M] : \A d, e \in Cards : <<d, e>> \in pairs => rank[d] < rank[e]
  BY <1>0
<1> DEFINE numbers == {rank[c] : c \in S}
<1>2. numbers \in SUBSET Nat /\ numbers # {}
  OBVIOUS
<1>3. PICK x \in numbers : \A y \in numbers : x <= y
  <2> HIDE DEF numbers
  <2> QED
    BY <1>2, ListsOK, Plan!Least
<1>4. PICK c \in S : x = rank[c]
  BY <1>3
<1>5. ASSUME NEW d \in S, <<d, c>> \in pairs PROVE FALSE
  <2>1. rank[d] < rank[c] /\ rank[c] <= rank[d] /\ rank[c] \in Nat /\ rank[d] \in Nat
    BY <1>1, <1>3, <1>4, <1>5
  <2> QED
    BY <2>1
<1> QED
  BY <1>4, <1>5

\* Whoever is chosen as the target has a request.
LEMMA TargetWaits ==
    ASSUME NEW cs, NEW pairs, Ranked(pairs), ~Generator!NoRequest(cs)
    PROVE  \E n \in 1..4 : Generator!Target(cs, pairs) \in Generator!Waiting(cs)[n]
<1> DEFINE W == Generator!Waiting(cs)
           Most(n) == W[n] # {} /\ \A m \in 1..(n - 1) : W[m] = {}
           n0 == CHOOSE n \in 1..4 : Most(n)
           T == {n \in 1..4 : W[n] # {}}
<1>1. \A n \in 1..4 : W[n] \in SUBSET Cards
  BY DEF Generator!Waiting, Generator!With
<1> HIDE DEF W
<1>2. \E n \in 1..4 : Most(n)
  <2>1. T \in SUBSET Nat /\ T # {}
    BY DEF Generator!NoRequest, W
  <2>2. PICK n \in T : \A m \in T : n <= m
    <3> HIDE DEF T
    <3> QED
      BY <2>1, ListsOK, Plan!Least
  <2>3. \A m \in 1..(n - 1) : m \in 1..4 /\ ~(n <= m)
    BY <2>2
  <2> QED
    BY <2>2, <2>3
<1>3. n0 \in 1..4 /\ Most(n0)
  BY <1>2
<1> DEFINE S == W[n0]
<1>4. S \in SUBSET Cards /\ S # {}
  BY <1>1, <1>3
<1>5. Generator!Target(cs, pairs) = CHOOSE c \in S : \A d \in S : <<d, c>> \notin pairs
  BY DEF Generator!Target, W
<1> HIDE DEF n0, S
<1>6. \E c \in S : \A d \in S : <<d, c>> \notin pairs
  BY <1>4, OldestExists
<1>7. Generator!Target(cs, pairs) \in S
  BY <1>5, <1>6
<1> QED
  BY <1>3, <1>7 DEF S, W

\* So it is somebody with a card.
LEMMA TargetIsCard ==
    ASSUME NEW cs, NEW pairs, Ranked(pairs), ~Generator!NoRequest(cs)
    PROVE  Generator!Target(cs, pairs) \in Cards
<1>1. \A n \in 1..4 : Generator!Waiting(cs)[n] \in SUBSET Cards
  BY DEF Generator!Waiting, Generator!With
<1> QED
  BY <1>1, TargetWaits

\* A new problem is one the planner can answer.
LEMMA GeneratedOK ==
    ASSUME NEW cs, NEW pairs, Ranked(pairs), NEW occ
    PROVE  MessageOK(Problem(Generator!Generate(cs, pairs, occ)))
<1> DEFINE p == Generator!Generate(cs, pairs, occ)
<1>1. p.purpose = "arrival" => p.request \in Cards
  <2>1. CASE Generator!NoRequest(cs)
    BY <2>1 DEF Generator!Generate
  <2>2. CASE ~Generator!NoRequest(cs)
    <3>1. p.request = Generator!Target(cs, pairs)
      BY <2>2 DEF Generator!Generate
    <3> QED
      BY <2>2, <3>1, TargetIsCard
  <2> QED
    BY <2>1, <2>2
<1> HIDE DEF p
<1>2. MessageOK(Problem(p))
  BY <1>1 DEF MessageOK, Problem
<1> QED
  BY <1>2 DEF p

-----------------------------------------------------------------------------
(* What is under way tells what the sensors see.                           *)

\* The sensors the laptop hears of: those of the places, and the one at the gate.
Sensors == Places \cup {"gate"}

\* Those that see a car, and those the store believes to see one.
Covered == {p \in Places : ~Empty(p)} \cup {x \in {"gate"} : AtGate(where)}
Reported == {p \in Places : p \in occupied} \cup {x \in {"gate"} : gate_present}

About(m, x) == (m.kind = "occupancy" /\ m.place = x) \/ (m.kind = "motion" /\ x = "gate")
Taken(m) == (m.kind = "occupancy" /\ m.taken) \/ (m.kind = "motion" /\ m.present)

\* Who takes the sensors of B for covered will, having read the inbox, take x for what it is
\* if those of T are.
Follows(q, x, B, T) ==
    \/ /\ \A i \in 1..Len(q) : ~About(q[i], x)
       /\ x \in B <=> x \in T
    \/ \E i \in 1..Len(q) :
           /\ About(q[i], x) /\ (Taken(q[i]) <=> x \in T)
           /\ \A j \in 1..Len(q) : About(q[j], x) => j <= i

LEMMA FollowsConcat ==
    ASSUME NEW S, NEW q \in Seq(S), NEW r \in Seq(S), NEW x, NEW B, NEW T, NEW U,
           Follows(q, x, B, T), Follows(r, x, T, U)
    PROVE  Follows(q \o r, x, B, U)
<1> DEFINE t == q \o r
           K == Len(q)
           L == Len(r)
<1>1. /\ K \in Nat /\ L \in Nat /\ Len(t) = K + L
      /\ \A i \in 1..K : t[i] = q[i]
      /\ \A i \in 1..L : t[K + i] = r[i]
  <2>1. \A i \in 1..L : K + i \in 1..Len(t) /\ K + i > K /\ (K + i) - K = i
    OBVIOUS
  <2> QED
    BY <2>1, ConcatProperties
<1> HIDE DEF t, K, L
<1>2. \A j \in 1..Len(t) : j \in 1..K \/ (j - K \in 1..L /\ t[j] = r[j - K])
  <2>1. ASSUME NEW j \in 1..Len(t), j \notin 1..K PROVE j - K \in 1..L /\ K + (j - K) = j
    BY <1>1, <2>1
  <2> QED
    BY <1>1, <2>1
<1>3. ASSUME \A i \in 1..L : ~About(r[i], x), x \in T <=> x \in U PROVE Follows(t, x, B, U)
  <2>1. ASSUME \A i \in 1..K : ~About(q[i], x), x \in B <=> x \in T PROVE Follows(t, x, B, U)
    <3>1. \A j \in 1..Len(t) : ~About(t[j], x)
      BY <1>1, <1>2, <1>3, <2>1
    <3> QED
      BY <1>3, <2>1, <3>1 DEF Follows
  <2>2. ASSUME NEW i \in 1..K, About(q[i], x), Taken(q[i]) <=> x \in T,
               \A j \in 1..K : About(q[j], x) => j <= i
        PROVE  Follows(t, x, B, U)
    <3>1. i \in 1..Len(t) /\ t[i] = q[i]
      BY <1>1
    <3>2. \A j \in 1..Len(t) : About(t[j], x) => j <= i
      BY <1>1, <1>2, <1>3, <2>2
    <3> QED
      BY <1>3, <2>2, <3>1, <3>2 DEF Follows
  <2> QED
    BY <2>1, <2>2 DEF Follows, K
<1>4. ASSUME NEW i \in 1..L, About(r[i], x), Taken(r[i]) <=> x \in U,
             \A j \in 1..L : About(r[j], x) => j <= i
      PROVE  Follows(t, x, B, U)
  <2>1. K + i \in 1..Len(t) /\ t[K + i] = r[i]
    BY <1>1
  <2>2. ASSUME NEW j \in 1..Len(t), About(t[j], x) PROVE j <= K + i
    <3>1. CASE j \in 1..K
      BY <1>1, <3>1
    <3>2. CASE j \notin 1..K
      <4>1. j - K \in 1..L /\ About(r[j - K], x)
        BY <1>2, <2>2, <3>2
      <4>2. j - K <= i
        BY <1>4, <4>1
      <4> QED
        BY <1>1, <4>2
    <3> QED
      BY <3>1, <3>2
  <2> QED
    BY <1>4, <2>1, <2>2 DEF Follows
<1> QED
  BY <1>3, <1>4 DEF Follows, t, L

\* The first message of an inbox has the store believe what it says.
LEMMA FollowsRest ==
    ASSUME NEW S, NEW q \in Seq(S), q # <<>>, NEW x, NEW B, NEW C, NEW T,
           Follows(q, x, B, T),
           IF About(Head(q), x) THEN Taken(Head(q)) <=> x \in C ELSE x \in B <=> x \in C
    PROVE  Follows(Tail(q), x, C, T)
<1> DEFINE t == Tail(q)
<1>1. /\ Len(q) \in Nat /\ Len(q) > 0 /\ Len(t) = Len(q) - 1 /\ Head(q) = q[1]
      /\ \A i \in 1..Len(t) : t[i] = q[i + 1]
  BY HeadTailProperties, LenProperties, EmptySeq
<1> HIDE DEF t
<1>2. \A j \in 1..Len(t) : j + 1 \in 1..Len(q)
  BY <1>1
<1>3. ASSUME \A i \in 1..Len(q) : ~About(q[i], x), x \in B <=> x \in T PROVE Follows(t, x, C, T)
  <2>1. ~About(Head(q), x) /\ \A j \in 1..Len(t) : ~About(t[j], x)
    BY <1>1, <1>2, <1>3
  <2> QED
    BY <1>3, <2>1 DEF Follows
<1>4. ASSUME NEW i \in 1..Len(q), About(q[i], x), Taken(q[i]) <=> x \in T,
             \A j \in 1..Len(q) : About(q[j], x) => j <= i
      PROVE  Follows(t, x, C, T)
  <2>1. CASE i = 1
    <3>1. ASSUME NEW j \in 1..Len(t), About(t[j], x) PROVE FALSE
      <4>1. j + 1 <= 1
        BY <1>1, <1>2, <1>4, <2>1, <3>1
      <4> QED
        BY <4>1
    <3>2. x \in C <=> x \in T
      BY <1>1, <1>4, <2>1
    <3> QED
      BY <3>1, <3>2 DEF Follows
  <2>2. CASE i # 1
    <3>1. i - 1 \in 1..Len(t) /\ t[i - 1] = q[i]
      BY <1>1, <2>2
    <3>2. \A j \in 1..Len(t) : About(t[j], x) => j <= i - 1
      BY <1>1, <1>2, <1>4
    <3> QED
      BY <1>4, <3>1, <3>2 DEF Follows
  <2> QED
    BY <2>1, <2>2
<1> QED
  BY <1>3, <1>4 DEF Follows, t

LEMMA FollowsOne ==
    ASSUME NEW m, NEW x, NEW B, NEW T,
           IF About(m, x) THEN Taken(m) <=> x \in T ELSE x \in B <=> x \in T
    PROVE  Follows(<<m>>, x, B, T)
<1> DEFINE q == <<m>>
<1>1. Len(q) = 1 /\ q[1] = m
  OBVIOUS
<1> HIDE DEF q
<1>2. Follows(q, x, B, T)
  BY <1>1 DEF Follows
<1> QED
  BY <1>2 DEF q

\* Messages that are no events change nothing.
Silent(q) == \A i \in 1..Len(q) : q[i].kind \notin {"occupancy", "motion"}

LEMMA FollowsSilent ==
    ASSUME NEW q, Silent(q), NEW x, NEW B, NEW T, x \in B <=> x \in T
    PROVE  Follows(q, x, B, T)
BY DEF Follows, Silent, About

LEMMA SilentFew ==
    /\ Silent(<<>>)
    /\ \A m : m.kind \notin {"occupancy", "motion"} => Silent(<<m>>)
    /\ \A m, n : m.kind \notin {"occupancy", "motion"} /\ n.kind \notin {"occupancy", "motion"}
                     => Silent(<<m, n>>)
<1>1. Silent(<<>>)
  BY DEF Silent
<1>2. ASSUME NEW m, m.kind \notin {"occupancy", "motion"} PROVE Silent(<<m>>)
  <2>1. Len(<<m>>) = 1 /\ <<m>>[1] = m
    OBVIOUS
  <2> QED
    BY <1>2, <2>1 DEF Silent
<1>3. ASSUME NEW m, NEW n, m.kind \notin {"occupancy", "motion"}, n.kind \notin {"occupancy", "motion"}
      PROVE  Silent(<<m, n>>)
  <2>1. Len(<<m, n>>) = 2 /\ <<m, n>>[1] = m /\ <<m, n>>[2] = n
    OBVIOUS
  <2> QED
    BY <1>3, <2>1 DEF Silent
<1> QED
  BY <1>1, <1>2, <1>3

-----------------------------------------------------------------------------
(* The inductive invariant.                                                *)

StoreOK == occupied \subseteq Places /\ gate_present \in BOOLEAN /\ Ranked(older)

\* Moves are told between bays and spots, and whoever is being carried was told to be.
WorldOK ==
    /\ where \in [Cards -> Places \cup {"away", "gate", "carried", "exit"}]
    /\ ticket \in [Cards -> Buffers \cup {None}]
    /\ orders \in [Cards -> Seq(Storage!Moves)]
    /\ sensed \subseteq {"gate", "exit"}
    /\ \A c \in Cards : where[c] = "carried" => orders[c] # <<>>

\* No two cars in one place.
Apart == \A c, d \in Cards : c # d /\ where[c] = where[d] => where[c] \in {"away", "carried"}

EventsTold == \A x \in Sensors : Follows(laptop, x, Reported, Covered)

IInv ==
    /\ InboxOK(laptop) /\ pi \in Seq(PlanSteps)
    /\ StoreOK /\ WorldOK /\ Apart /\ EventsTold

\* Reading a message on the laptop, and publishing no events.
LEMMA Handled ==
    ASSUME IInv, laptop # <<>>, NEW ms, InboxOK(ms), Silent(ms), Publish(ms),
           pi' \in Seq(PlanSteps), StoreOK', UNCHANGED world,
           \A x \in Sensors : IF About(Message, x) THEN Taken(Message) <=> x \in Reported'
                              ELSE x \in Reported <=> x \in Reported'
    PROVE  IInv'
<1>1. laptop' = Tail(laptop) \o ms /\ InboxOK(Tail(laptop)) /\ InboxOK(laptop')
  BY InboxRest, InboxConcat DEF IInv, Publish
<1>2. WorldOK' /\ Apart' /\ Covered' = Covered
  BY DEF IInv, world, WorldOK, Apart, Covered, Empty, AtGate
<1>3. PICK S : laptop \in Seq(S) /\ Tail(laptop) \in Seq(S) /\ ms \in Seq(S)
  <2>1. PICK S : laptop \in Seq(S)
    BY DEF IInv, InboxOK
  <2>2. PICK R : ms \in Seq(R)
    BY DEF InboxOK
  <2>3. laptop \in Seq(S \cup R) /\ ms \in Seq(S \cup R)
    BY <2>1, <2>2, SeqMonotonic
  <2> QED
    BY <2>3, HeadTailProperties
<1>4. ASSUME NEW x \in Sensors PROVE Follows(laptop', x, Reported', Covered)
  <2>1. Follows(Tail(laptop), x, Reported', Covered)
    BY <1>3, FollowsRest DEF IInv, EventsTold, Message
  <2>2. Follows(ms, x, Covered, Covered)
    BY FollowsSilent
  <2>3. Follows(Tail(laptop) \o ms, x, Reported', Covered)
    BY <1>3, <2>1, <2>2, FollowsConcat
  <2> QED
    BY <1>1, <2>3
<1>5. EventsTold'
  BY <1>2, <1>4 DEF EventsTold
<1> QED
  BY <1>1, <1>2, <1>5 DEF IInv

\* Dispatching an action of a plan.
LEMMA Sent ==
    ASSUME IInv, pi # <<>>, NEW ms, InboxOK(ms), Silent(ms), Send(ms),
           UNCHANGED <<store, where, sensed>>, WorldOK'
    PROVE  IInv'
<1>1. laptop' = laptop \o ms /\ InboxOK(laptop') /\ pi' \in Seq(PlanSteps)
  BY InboxConcat, HeadTailProperties DEF IInv, Send
<1>2. StoreOK' /\ Apart' /\ Covered' = Covered /\ Reported' = Reported
  BY DEF IInv, StoreOK, Apart, Covered, Reported, Empty, AtGate, store
<1>3. PICK S : laptop \in Seq(S) /\ ms \in Seq(S)
  <2>1. PICK S : laptop \in Seq(S)
    BY DEF IInv, InboxOK
  <2>2. PICK R : ms \in Seq(R)
    BY DEF InboxOK
  <2>3. laptop \in Seq(S \cup R) /\ ms \in Seq(S \cup R)
    BY <2>1, <2>2, SeqMonotonic
  <2> QED
    BY <2>3
<1>4. ASSUME NEW x \in Sensors PROVE Follows(laptop', x, Reported, Covered)
  <2>1. Follows(laptop, x, Reported, Covered)
    BY DEF IInv, EventsTold
  <2>2. Follows(ms, x, Covered, Covered)
    BY FollowsSilent
  <2>3. Follows(laptop \o ms, x, Reported, Covered)
    BY <1>3, <2>1, <2>2, FollowsConcat
  <2> QED
    BY <1>1, <2>3
<1>5. EventsTold'
  BY <1>2, <1>4 DEF EventsTold
<1> QED
  BY <1>1, <1>2, <1>5 DEF IInv

\* Moving a car, if the events published about its places are those of the move.
LEMMA Driven ==
    ASSUME IInv, NEW c \in Cards, NEW place, NEW ms, InboxOK(ms), Drive(c, place, ms),
           \A i \in 1..Len(ms) : ms[i].kind # "motion",
           \A x \in Places : Follows(ms, x, Covered, Covered'),
           WorldOK', Apart'
    PROVE  IInv'
<1> DEFINE motion == IF AtGate(where) # AtGate(where')
                     THEN << GateMotion(AtGate(where')) >> ELSE <<>>
<1>1. /\ laptop' = laptop \o motion \o ms \/ laptop' = laptop \o ms \o motion
      /\ UNCHANGED <<store, pi, sensed>>
  BY DEF Drive
<1>2. StoreOK' /\ Reported' = Reported /\ pi' \in Seq(PlanSteps)
  BY <1>1 DEF IInv, StoreOK, Reported, store
<1>3. InboxOK(motion)
  <2>1. AtGate(where') \in BOOLEAN
    BY DEF AtGate
  <2> QED
    BY <2>1, InboxFew, MessagesOK
<1>4. \A T, x : x \in Places => Follows(motion, x, T, T)
  <2>1. ASSUME NEW T, NEW x \in Places PROVE Follows(motion, x, T, T)
    <3>1. ~About(GateMotion(AtGate(where')), x)
      BY LotAssumption DEF About, GateMotion
    <3>2. Follows(<<>>, x, T, T) /\ Follows(<<GateMotion(AtGate(where'))>>, x, T, T)
      BY <3>1, FollowsOne, FollowsSilent, SilentFew
    <3> QED
      BY <3>2
  <2> QED
    BY <2>1
<1>5. Follows(motion, "gate", Covered, Covered')
  <2>1. About(GateMotion(AtGate(where')), "gate") /\ (Taken(GateMotion(AtGate(where'))) <=> AtGate(where'))
    BY DEF About, Taken, GateMotion
  <2>2. ("gate" \in Covered <=> AtGate(where)) /\ ("gate" \in Covered' <=> AtGate(where'))
    BY <1>1, LotAssumption DEF Covered, AtGate
  <2>3. Follows(<<GateMotion(AtGate(where'))>>, "gate", Covered, Covered')
    BY <2>1, <2>2, FollowsOne
  <2>4. CASE AtGate(where) # AtGate(where')
    BY <2>3, <2>4
  <2>5. CASE AtGate(where) = AtGate(where')
    <3>1. Follows(<<>>, "gate", Covered, Covered')
      BY <2>2, <2>5, FollowsSilent, SilentFew
    <3> QED
      BY <2>5, <3>1
  <2> QED
    BY <2>4, <2>5
<1>6. \A T : Follows(ms, "gate", T, T)
  <2>1. \A i \in 1..Len(ms) : ~About(ms[i], "gate")
    <3>1. PICK S : ms \in Seq(S) /\ \A m \in S : MessageOK(m)
      BY DEF InboxOK
    <3>2. \A i \in 1..Len(ms) : MessageOK(ms[i])
      BY <3>1
    <3> QED
      BY <3>2, LotAssumption DEF About, MessageOK
  <2> QED
    BY <2>1 DEF Follows
<1>7. PICK S : laptop \in Seq(S) /\ ms \in Seq(S) /\ motion \in Seq(S)
  <2>1. PICK S : laptop \in Seq(S)
    BY DEF IInv, InboxOK
  <2>2. PICK R : ms \in Seq(R)
    BY DEF InboxOK
  <2>3. PICK Q : motion \in Seq(Q)
    BY <1>3 DEF InboxOK
  <2> HIDE DEF motion
  <2>4. laptop \in Seq(S \cup R \cup Q) /\ ms \in Seq(S \cup R \cup Q) /\ motion \in Seq(S \cup R \cup Q)
    BY <2>1, <2>2, <2>3, SeqMonotonic
  <2> QED
    BY <2>4
<1> HIDE DEF motion
<1>8. InboxOK(laptop')
  BY <1>1, <1>3, InboxConcat DEF IInv
<1>9. \A x \in Sensors : Follows(laptop, x, Reported, Covered)
  BY DEF IInv, EventsTold
<1>10. laptop \o motion \in Seq(S) /\ laptop \o ms \in Seq(S)
  BY <1>7, ConcatProperties
<1>11. CASE laptop' = laptop \o motion \o ms
  <2>1. ASSUME NEW x \in Sensors PROVE Follows(laptop \o motion \o ms, x, Reported, Covered')
    <3>1. CASE x = "gate"
      BY <1>5, <1>6, <1>7, <1>9, <1>10, <3>1, FollowsConcat
    <3>2. CASE x \in Places
      <4>1. Follows(laptop \o motion, x, Reported, Covered)
        BY <1>4, <1>7, <1>9, <3>2, FollowsConcat
      <4> QED
        BY <1>7, <1>10, <3>2, <4>1, FollowsConcat
    <3> QED
      BY <3>1, <3>2 DEF Sensors
  <2>2. EventsTold'
    BY <1>2, <1>11, <2>1 DEF EventsTold
  <2> QED
    BY <1>2, <1>8, <2>2 DEF IInv
<1>12. CASE laptop' = laptop \o ms \o motion
  <2>1. ASSUME NEW x \in Sensors PROVE Follows(laptop \o ms \o motion, x, Reported, Covered')
    <3>1. CASE x = "gate"
      BY <1>5, <1>6, <1>7, <1>9, <1>10, <3>1, FollowsConcat
    <3>2. CASE x \in Places
      <4>1. Follows(laptop \o ms, x, Reported, Covered')
        BY <1>7, <1>9, <3>2, FollowsConcat
      <4> QED
        BY <1>4, <1>7, <1>10, <3>2, <4>1, FollowsConcat
    <3> QED
      BY <3>1, <3>2 DEF Sensors
  <2>2. EventsTold'
    BY <1>2, <1>12, <2>1 DEF EventsTold
  <2> QED
    BY <1>2, <1>8, <2>2 DEF IInv
<1> QED
  BY <1>1, <1>11, <1>12

-----------------------------------------------------------------------------
(* The laptop: each handler is a step of the store or leaves it alone.     *)

StoreStep == [Storage!Next]_Storage!vars

LEMMA InitIInv == Init => IInv
<1> SUFFICES ASSUME Init PROVE IInv
  OBVIOUS
<1>1. /\ laptop = <<>> /\ pi = <<>> /\ occupied = {} /\ gate_present = FALSE /\ older = {}
      /\ where = [c \in Cards |-> "away"] /\ ticket = [c \in Cards |-> None]
      /\ orders = [c \in Cards |-> <<>>] /\ sensed \in Installations
  BY DEF Init, Storage!Init
<1>2. InboxOK(laptop) /\ pi \in Seq(PlanSteps)
  BY <1>1, InboxFew
<1>3. StoreOK
  <2>1. gate_present \in BOOLEAN /\ occupied \subseteq Places
    BY <1>1
  <2>2. [c \in Cards |-> 0] \in [Cards -> 0..0]
    OBVIOUS
  <2>3. \A c, d \in Cards : <<c, d>> \notin older
    BY <1>1
  <2>4. Ranked(older)
    BY <2>2, <2>3 DEF Ranked
  <2> QED
    BY <2>1, <2>4 DEF StoreOK
<1>4. WorldOK /\ Apart
  <2>1. sensed \subseteq {"gate", "exit"}
    BY <1>1, LotAssumption
  <2> QED
    BY <1>1, <2>1 DEF WorldOK, Apart
<1>5. EventsTold
  <2>1. Covered = {} /\ Reported = {}
    <3>1. \A c \in Cards : where[c] = "away"
      BY <1>1
    <3>2. ~AtGate(where)
      BY <3>1, <1>4 DEF AtGate, WorldOK
    <3>3. \A p \in Places : Empty(p)
      BY <3>1, LotAssumption DEF Empty
    <3> QED
      BY <1>1, <3>2, <3>3 DEF Covered, Reported
  <2>2. \A x \in Sensors : Follows(<<>>, x, Reported, Covered)
    BY <2>1, SilentFew, FollowsSilent
  <2> QED
    BY <1>1, <2>2 DEF EventsTold
<1> QED
  BY <1>2, <1>3, <1>4, <1>5 DEF IInv

\* A sensor event has one new problem generated.
LEMMA RegenerateOK ==
    ASSUME Ranked(older')
    PROVE  LET ms == << Problem(Generator!Generate(customers', older', occupied')) >>
           IN  InboxOK(ms) /\ Silent(ms)
<1>1. MessageOK(Problem(Generator!Generate(customers', older', occupied')))
  BY GeneratedOK
<1>2. Problem(Generator!Generate(customers', older', occupied')).kind = "problem"
  BY DEF Problem
<1> QED
  BY <1>1, <1>2, InboxFew, SilentFew

LEMMA HeadOK == ASSUME IInv, laptop # <<>> PROVE MessageOK(Message)
BY InboxRest DEF IInv, Message

LEMMA OnOccupancyIInv == ASSUME IInv, OnOccupancy PROVE IInv' /\ StoreStep
<1>1. laptop # <<>> /\ Message.kind = "occupancy"
  BY DEF OnOccupancy, Received, Message
<1>2. Message.place \in Places /\ Message.taken \in BOOLEAN
  BY <1>1, HeadOK DEF MessageOK
<1> DEFINE p == Message.place
           ms == << Problem(Generator!Generate(customers', older', occupied')) >>
<1>3. /\ IF Message.taken THEN Storage!OnOccupied(p) ELSE Storage!OnFree(p)
      /\ Publish(ms) /\ pi' = pi /\ UNCHANGED world
  BY DEF OnOccupancy, Regenerate
<1>4. /\ occupied' = IF Message.taken THEN occupied \cup {p} ELSE occupied \ {p}
      /\ older' = older /\ gate_present' = gate_present
  BY <1>3 DEF Storage!OnOccupied, Storage!OnFree
<1>5. StoreOK'
  BY <1>2, <1>4 DEF IInv, StoreOK
<1>6. InboxOK(ms) /\ Silent(ms)
  BY <1>5, RegenerateOK DEF StoreOK
<1> HIDE DEF ms
<1>7. \A x \in Sensors : IF About(Message, x) THEN Taken(Message) <=> x \in Reported'
                         ELSE x \in Reported <=> x \in Reported'
  BY <1>1, <1>2, <1>4, LotAssumption DEF About, Taken, Reported, Sensors
<1>8. IInv'
  BY <1>1, <1>3, <1>5, <1>6, <1>7, Handled DEF IInv
<1>9. Storage!Next
  BY <1>2, <1>3 DEF Storage!Next, Storage!Places, Places
<1> QED
  BY <1>8, <1>9 DEF StoreStep

LEMMA OnNfcIInv == ASSUME IInv, OnNfc PROVE IInv' /\ StoreStep
<1>1. laptop # <<>> /\ Message.kind = "nfc"
  BY DEF OnNfc, Received, Message
<1>2. Message.card \in Cards
  BY <1>1, HeadOK DEF MessageOK
<1> DEFINE c == Message.card
           ms == << Problem(Generator!Generate(customers', older', occupied')) >>
<1>3. /\ Storage!OnNfcGate(c) \/ Storage!OnNfcCheckout(c)
      /\ Publish(ms) /\ pi' = pi /\ UNCHANGED world
  BY DEF OnNfc, Regenerate
<1>4. occupied' = occupied /\ gate_present' = gate_present /\ older' = Storage!Newest(c)
  BY <1>3 DEF Storage!OnNfcGate, Storage!OnNfcCheckout
<1>5. StoreOK'
  <2>1. Ranked(Storage!Newest(c))
    BY <1>2, NewestRanked DEF IInv, StoreOK
  <2> QED
    BY <1>4, <2>1 DEF IInv, StoreOK
<1>6. InboxOK(ms) /\ Silent(ms)
  BY <1>5, RegenerateOK DEF StoreOK
<1> HIDE DEF ms
<1>7. \A x \in Sensors : IF About(Message, x) THEN Taken(Message) <=> x \in Reported'
                         ELSE x \in Reported <=> x \in Reported'
  BY <1>1, <1>4 DEF About, Reported
<1>8. IInv'
  BY <1>1, <1>3, <1>5, <1>6, <1>7, Handled DEF IInv
<1>9. Storage!Next
  BY <1>2, <1>3 DEF Storage!Next
<1> QED
  BY <1>8, <1>9 DEF StoreStep

LEMMA OnGateMotionIInv == ASSUME IInv, OnGateMotion PROVE IInv' /\ StoreStep
<1>1. laptop # <<>> /\ Message.kind = "motion"
  BY DEF OnGateMotion, Received, Message
<1>2. Message.present \in BOOLEAN
  BY <1>1, HeadOK DEF MessageOK
<1> DEFINE ms == << Problem(Generator!Generate(customers', older', occupied')) >>
<1>3. /\ Storage!OnGateMotion(Message.present)
      /\ Publish(ms) /\ pi' = pi /\ UNCHANGED world
  BY DEF OnGateMotion, Regenerate
<1>4. occupied' = occupied /\ gate_present' = Message.present /\ older' = older
  BY <1>3 DEF Storage!OnGateMotion
<1>5. StoreOK'
  BY <1>2, <1>4 DEF IInv, StoreOK
<1>6. InboxOK(ms) /\ Silent(ms)
  BY <1>5, RegenerateOK DEF StoreOK
<1> HIDE DEF ms
<1>7. \A x \in Sensors : IF About(Message, x) THEN Taken(Message) <=> x \in Reported'
                         ELSE x \in Reported <=> x \in Reported'
  BY <1>1, <1>2, <1>4, LotAssumption DEF About, Taken, Reported, Sensors
<1>8. IInv'
  BY <1>1, <1>3, <1>5, <1>6, <1>7, Handled DEF IInv
<1>9. Storage!Next
  BY <1>2, <1>3 DEF Storage!Next
<1> QED
  BY <1>8, <1>9 DEF StoreStep

LEMMA OnDurationIInv == ASSUME IInv, OnDuration PROVE IInv' /\ StoreStep
<1>1. laptop # <<>> /\ Message.kind = "duration"
  BY DEF OnDuration, Received, Message
<1>2. Message.hours \in 0..MaxHours
  BY <1>1, HeadOK DEF MessageOK
<1>3. Storage!OnDuration(Message.hours) /\ Publish(<<>>) /\ pi' = pi /\ UNCHANGED world
  BY DEF OnDuration
<1>4. occupied' = occupied /\ gate_present' = gate_present /\ older' = older
  BY <1>3 DEF Storage!OnDuration
<1>5. StoreOK'
  BY <1>4 DEF IInv, StoreOK
<1>6. \A x \in Sensors : IF About(Message, x) THEN Taken(Message) <=> x \in Reported'
                         ELSE x \in Reported <=> x \in Reported'
  BY <1>1, <1>4 DEF About, Reported
<1>7. IInv'
  BY <1>1, <1>3, <1>5, <1>6, InboxFew, SilentFew, Handled DEF IInv
<1>8. Storage!Next
  BY <1>2, <1>3 DEF Storage!Next, Storage!Hours
<1> QED
  BY <1>7, <1>8 DEF StoreStep

LEMMA OnCommandIInv == ASSUME IInv, OnCommand PROVE IInv' /\ StoreStep
<1>1. laptop # <<>> /\ Message.kind \in {"assignment", "move", "exit", "admission"}
  BY DEF OnCommand, Received, Message
<1>2. Publish(<<>>) /\ pi' = pi /\ UNCHANGED world
  BY DEF OnCommand
<1>3. MessageOK(Message)
  BY <1>1, HeadOK
<1>4. occupied' = occupied /\ gate_present' = gate_present /\ older' = older /\ Storage!Next
  <2>1. CASE Received("assignment") /\ Storage!OnAssignment(Message.card, Message.spot, Message.buffer)
    <3>1. Message.card \in Cards /\ Message.spot \in Spots /\ Message.buffer \in Buffers
      BY <1>3, <2>1 DEF MessageOK, Received, Message
    <3>2. Storage!Next
      BY <2>1, <3>1 DEF Storage!Next
    <3> QED
      BY <2>1, <3>2 DEF Storage!OnAssignment
  <2>2. CASE Received("move") /\ Storage!OnVehicleMove(Message.card, Message.move)
    <3>1. Message.card \in Cards /\ Message.move \in Storage!Moves
      BY <1>3, <2>2 DEF MessageOK, Received, Message
    <3>2. Storage!Next
      BY <2>2, <3>1 DEF Storage!Next
    <3> QED
      BY <2>2, <3>2 DEF Storage!OnVehicleMove
  <2>3. CASE Received("exit") /\ Storage!OnExitAuthorization(Message.card)
    <3>1. Message.card \in Cards
      BY <1>3, <2>3 DEF MessageOK, Received, Message
    <3>2. Storage!Next
      BY <2>3, <3>1 DEF Storage!Next
    <3> QED
      BY <2>3, <3>2 DEF Storage!OnExitAuthorization
  <2>4. CASE Received("admission") /\ Storage!OnAdmissionResult(Message.card, Message.accepted)
    <3>1. Message.card \in Cards /\ Message.accepted \in BOOLEAN
      BY <1>3, <2>4 DEF MessageOK, Received, Message
    <3>2. Storage!Next
      BY <2>4, <3>1 DEF Storage!Next
    <3> QED
      BY <2>4, <3>2 DEF Storage!OnAdmissionResult
  <2> QED
    BY <2>1, <2>2, <2>3, <2>4 DEF OnCommand
<1>5. StoreOK'
  BY <1>4 DEF IInv, StoreOK
<1>6. \A x \in Sensors : IF About(Message, x) THEN Taken(Message) <=> x \in Reported'
                         ELSE x \in Reported <=> x \in Reported'
  BY <1>1, <1>4 DEF About, Reported
<1>7. IInv'
  BY <1>1, <1>2, <1>5, <1>6, InboxFew, SilentFew, Handled DEF IInv
<1> QED
  BY <1>4, <1>7 DEF StoreStep

\* The planner's plans are made of the lot's moves.
LEMMA PlanOK == Planner!Solve(Message.problem.init, Message.problem.goal).plan \in Seq(PlanSteps)
<1>1. Plan!Answer.plan \in Seq(Plan!PlanSteps)
  BY ListsOK, Plan!PlanOfActions
<1>2. Plan!PlanSteps \subseteq PlanSteps
  <2>1. Plan!Cars = Cards /\ Plan!Spots = Spots /\ Plan!Buffers = Buffers
    BY DEF Plan!Cars, Plan!Spots, Plan!Buffers, Cards, Spots, Buffers, Elements
  <2>2. ASSUME NEW a \in Plan!Actions PROVE [name |-> a.name, args |-> a.args] \in PlanSteps
    <3>1. CASE \E c \in Cards, s \in Spots : a = Plan!Assign(c, s)
      BY <3>1 DEF Plan!Assign, PlanSteps
    <3>2. CASE \E c \in Cards, b \in Buffers, s \in Spots : a = Plan!OpenEntry(c, b, s)
      BY <3>2 DEF Plan!OpenEntry, PlanSteps
    <3>3. CASE \E c \in Cards, s \in Spots, b \in Buffers : a = Plan!ShowAssignment(c, s, b)
      BY <3>3 DEF Plan!ShowAssignment, PlanSteps
    <3>4. CASE \E c \in Cards, b \in Buffers, s \in Spots : a = Plan!Park(c, b, s)
      BY <3>4 DEF Plan!Park, PlanSteps
    <3>5. CASE \E c \in Cards, s \in Spots, b \in Buffers : a = Plan!Retrieve(c, s, b)
      BY <3>5 DEF Plan!Retrieve, PlanSteps
    <3>6. CASE \E c \in Cards, b \in Buffers : a = Plan!OpenExit(c, b)
      BY <3>6 DEF Plan!OpenExit, PlanSteps
    <3> QED
      BY <2>1, <3>1, <3>2, <3>3, <3>4, <3>5, <3>6 DEF Plan!Actions
  <2> QED
    BY <2>2 DEF Plan!PlanSteps
<1>3. Plan!Answer = Planner!Solve(Message.problem.init, Message.problem.goal)
  BY SamePlans DEF Plan!Answer
<1> QED
  BY <1>1, <1>2, <1>3, SeqMonotonic

LEMMA OnProblemIInv == ASSUME IInv, OnProblem PROVE IInv' /\ StoreStep
<1> DEFINE p == Message.problem
           answer == Planner!Solve(p.init, p.goal)
           ms == IF p.purpose = "arrival" THEN << AdmissionResult(p.request, answer.solved) >> ELSE <<>>
<1>1. laptop # <<>> /\ Message.kind = "problem"
  BY DEF OnProblem, Received, Message
<1>2. Publish(ms) /\ pi' = pi \o answer.plan /\ UNCHANGED <<store, world>>
  BY DEF OnProblem
<1>3. pi' \in Seq(PlanSteps)
  BY <1>2, PlanOK, ConcatProperties DEF IInv
<1>4. answer.solved \in BOOLEAN
  BY DEF Planner!Solve, Planner!SearchFrom, Planner!AnswerOf
<1> HIDE DEF answer
<1>5. InboxOK(ms) /\ Silent(ms)
  <2>1. CASE p.purpose = "arrival"
    <3>1. p.request \in Cards
      BY <1>1, <2>1, HeadOK DEF MessageOK
    <3>2. MessageOK(AdmissionResult(p.request, answer.solved))
      BY <1>4, <3>1, MessagesOK
    <3>3. AdmissionResult(p.request, answer.solved).kind = "admission"
      BY DEF AdmissionResult
    <3> QED
      BY <2>1, <3>2, <3>3, InboxFew, SilentFew
  <2>2. CASE p.purpose # "arrival"
    BY <2>2, InboxFew, SilentFew
  <2> QED
    BY <2>1, <2>2
<1> HIDE DEF ms
<1>6. StoreOK' /\ UNCHANGED Storage!vars
  BY <1>2 DEF IInv, StoreOK, store, Storage!vars
<1>7. \A x \in Sensors : IF About(Message, x) THEN Taken(Message) <=> x \in Reported'
                         ELSE x \in Reported <=> x \in Reported'
  BY <1>1, <1>2 DEF About, Reported, store
<1>8. IInv'
  BY <1>1, <1>2, <1>3, <1>5, <1>6, <1>7, Handled
<1> QED
  BY <1>6, <1>8 DEF StoreStep

-----------------------------------------------------------------------------
(* The dispatcher.                                                         *)

LEMMA DispatcherIInv == ASSUME IInv, Dispatcher PROVE IInv' /\ StoreStep
<1> DEFINE st == Head(pi)
<1>1. pi # <<>> /\ UNCHANGED <<store, where, sensed>>
  BY DEF Dispatcher, DispatchAssign, DispatchOpenEntry, DispatchShowAssignment, DispatchMove,
         DispatchOpenExit, Dispatched, world
<1>2. st \in PlanSteps
  BY <1>1, HeadTailProperties DEF IInv
<1>3. UNCHANGED Storage!vars
  BY <1>1 DEF store, Storage!vars
<1>. SUFFICES IInv'
  BY <1>3 DEF StoreStep
<1>4. CASE DispatchAssign
  <2>1. st.name = "assign" /\ Arg(1) \in Cards /\ Arg(2) \in Spots
    BY <1>2, <1>4 DEF DispatchAssign, Dispatched, PlanSteps, Arg
  <2>2. DefaultBuffer \in Buffers
    BY LotAssumption
  <2>3. Send(<< ParkingAssignment(Arg(1), Arg(2), DefaultBuffer) >>) /\ UNCHANGED world
    BY <1>4 DEF DispatchAssign
  <2>4. MessageOK(ParkingAssignment(Arg(1), Arg(2), DefaultBuffer))
    BY <2>1, <2>2, MessagesOK
  <2>5. ParkingAssignment(Arg(1), Arg(2), DefaultBuffer).kind = "assignment"
    BY DEF ParkingAssignment
  <2>6. WorldOK'
    BY <2>3 DEF IInv, WorldOK, world
  <2> QED
    BY <1>1, <2>3, <2>4, <2>5, <2>6, InboxFew, SilentFew, Sent
<1>5. CASE DispatchOpenEntry
  <2>1. st.name = "open-entry" /\ Arg(1) \in Cards /\ Arg(2) \in Buffers /\ Arg(3) \in Spots
    BY <1>2, <1>5 DEF DispatchOpenEntry, Dispatched, PlanSteps, Arg
  <2>2. /\ Send(<< ParkingAssignment(Arg(1), Arg(3), Arg(2)) >>)
        /\ ticket' = [ticket EXCEPT ![Arg(1)] = Arg(2)]
        /\ UNCHANGED <<where, orders, sensed>>
    BY <1>5 DEF DispatchOpenEntry
  <2>3. MessageOK(ParkingAssignment(Arg(1), Arg(3), Arg(2)))
    BY <2>1, MessagesOK
  <2>4. ParkingAssignment(Arg(1), Arg(3), Arg(2)).kind = "assignment"
    BY DEF ParkingAssignment
  <2>5. WorldOK'
    BY <2>1, <2>2 DEF IInv, WorldOK
  <2> QED
    BY <1>1, <2>2, <2>3, <2>4, <2>5, InboxFew, SilentFew, Sent
<1>6. CASE DispatchShowAssignment
  <2>1. Send(<<>>) /\ UNCHANGED world
    BY <1>6 DEF DispatchShowAssignment
  <2>2. WorldOK'
    BY <2>1 DEF IInv, WorldOK, world
  <2> QED
    BY <1>1, <2>1, <2>2, InboxFew, SilentFew, Sent
<1>7. CASE DispatchMove
  <2> DEFINE c == Arg(1)
             m == [from |-> Arg(2), to |-> Arg(3)]
             had == orders[c]
  <2>1. c \in Cards /\ m \in Storage!Moves
    <3>1. st.name \in {"park", "retrieve"}
      BY <1>7 DEF DispatchMove, Dispatched
    <3>2. c \in Cards /\ (\/ Arg(2) \in Buffers /\ Arg(3) \in Spots
                          \/ Arg(2) \in Spots /\ Arg(3) \in Buffers)
      BY <1>2, <3>1 DEF PlanSteps, Arg
    <3> QED
      BY <3>2 DEF Storage!Moves
  <2>2. /\ Send(<< VehicleMove(c, m) >>)
        /\ orders' = IF had # <<>> /\ had[Len(had)] = m THEN orders
                     ELSE [orders EXCEPT ![c] = Append(had, m)]
        /\ UNCHANGED <<where, ticket, sensed>>
    BY <1>7 DEF DispatchMove
  <2> HIDE DEF m
  <2>3. MessageOK(VehicleMove(c, m))
    BY <2>1, MessagesOK
  <2>4. VehicleMove(c, m).kind = "move"
    BY DEF VehicleMove
  <2>5. had \in Seq(Storage!Moves) /\ Append(had, m) \in Seq(Storage!Moves) /\ Append(had, m) # <<>>
    BY <2>1, AppendProperties DEF IInv, WorldOK
  <2>6. WorldOK'
    <3>1. orders' = orders \/ orders' = [orders EXCEPT ![c] = Append(had, m)]
      BY <2>2
    <3>2. CASE orders' = orders
      BY <2>2, <3>2 DEF IInv, WorldOK
    <3>3. CASE orders' = [orders EXCEPT ![c] = Append(had, m)]
      <4> DEFINE more == Append(had, m)
      <4> HIDE DEF more
      <4>1. orders' = [orders EXCEPT ![c] = more] /\ more \in Seq(Storage!Moves) /\ more # <<>>
        BY <2>5, <3>3 DEF more
      <4> QED
        BY <2>1, <2>2, <4>1 DEF IInv, WorldOK
    <3> QED
      BY <3>1, <3>2, <3>3
  <2> QED
    BY <1>1, <2>2, <2>3, <2>4, <2>6, InboxFew, SilentFew, Sent
<1>8. CASE DispatchOpenExit
  <2>1. st.name = "open-exit" /\ Arg(1) \in Cards
    BY <1>2, <1>8 DEF DispatchOpenExit, Dispatched, PlanSteps, Arg
  <2>2. Send(<< ExitAuthorization(Arg(1)) >>) /\ UNCHANGED <<where, ticket, orders, sensed>>
    BY <1>8 DEF DispatchOpenExit
  <2>3. MessageOK(ExitAuthorization(Arg(1)))
    BY <2>1, MessagesOK
  <2>4. ExitAuthorization(Arg(1)).kind = "exit"
    BY DEF ExitAuthorization
  <2>5. WorldOK'
    BY <2>2 DEF IInv, WorldOK
  <2> QED
    BY <1>1, <2>2, <2>3, <2>4, <2>5, InboxFew, SilentFew, Sent
<1> QED
  BY <1>4, <1>5, <1>6, <1>7, <1>8 DEF Dispatcher

-----------------------------------------------------------------------------
(* The world: a car moves to a free place, and the places tell.            *)

Anywhere == Places \cup {"away", "gate", "carried", "exit"}

LEMMA Moved ==
    ASSUME IInv, NEW c \in Cards, NEW place \in Anywhere, place # where[c],
           place \in {"away", "carried"} \/ Empty(place), where' = [where EXCEPT ![c] = place]
    PROVE  /\ where' \in [Cards -> Anywhere] /\ where'[c] = place /\ Apart'
           /\ \A d \in Cards : d # c => where'[d] = where[d]
           /\ \A x \in Places : x # where[c] /\ x # place => (x \in Covered <=> x \in Covered')
           /\ place \in Places => place \in Covered'
           /\ where[c] \in Places => where[c] \notin Covered'
<1>1. where \in [Cards -> Anywhere] /\ Apart
  BY DEF IInv, WorldOK, Anywhere
<1>2. /\ where' \in [Cards -> Anywhere] /\ where'[c] = place
      /\ \A d \in Cards : d # c => where'[d] = where[d]
  BY <1>1
<1>3. Apart'
  BY <1>1, <1>2 DEF Apart, Empty
<1>4. \A x \in Places : (x \in Covered <=> \E d \in Cards : where[d] = x)
                     /\ (x \in Covered' <=> \E d \in Cards : where'[d] = x)
  BY LotAssumption DEF Covered, Empty
<1>5. \A x \in Places : x # where[c] /\ x # place => (x \in Covered <=> x \in Covered')
  BY <1>2, <1>4
<1>6. where[c] \in Places => where[c] \notin Covered'
  <2>1. ASSUME where[c] \in Places, NEW d \in Cards, where'[d] = where[c] PROVE FALSE
    <3>1. d # c /\ where[d] = where[c]
      BY <1>2, <2>1
    <3> QED
      BY <1>1, <2>1, <3>1, LotAssumption DEF Apart
  <2> QED
    BY <1>4, <2>1
<1> QED
  BY <1>2, <1>3, <1>4, <1>5, <1>6

LEMMA OccupancyEvent ==
    ASSUME NEW p \in Places, NEW taken \in BOOLEAN
    PROVE  LET ms == << Occupancy(p, taken) >>
           IN  /\ InboxOK(ms) /\ \A i \in 1..Len(ms) : ms[i].kind # "motion"
               /\ \A x, B, T : (IF x = p THEN taken <=> x \in T ELSE x \in B <=> x \in T)
                                   => Follows(ms, x, B, T)
<1> DEFINE m == Occupancy(p, taken)
           ms == << m >>
<1>1. InboxOK(ms)
  BY MessagesOK, InboxFew
<1>2. m.kind = "occupancy" /\ m.place = p /\ m.taken = taken
  BY DEF Occupancy
<1> HIDE DEF m
<1>3. \A i \in 1..Len(ms) : ms[i].kind # "motion"
  BY <1>2
<1>4. \A x : (About(m, x) <=> x = p) /\ (Taken(m) <=> taken)
  BY <1>2 DEF About, Taken
<1>5. \A x, B, T : (IF x = p THEN taken <=> x \in T ELSE x \in B <=> x \in T)
                       => Follows(ms, x, B, T)
  BY <1>4, FollowsOne
<1> QED
  BY <1>1, <1>3, <1>5 DEF m

\* A car drives onto a place, leaves one, or neither.
LEMMA DrivenOnto ==
    ASSUME IInv, NEW c \in Cards, NEW place \in Places, Empty(place), where[c] \notin Places,
           Drive(c, place, << Occupancy(place, TRUE) >>), WorldOK'
    PROVE  IInv'
<1> DEFINE ms == << Occupancy(place, TRUE) >>
<1>1. where' = [where EXCEPT ![c] = place] /\ Drive(c, place, ms)
  BY DEF Drive
<1>2. place \in Anywhere /\ place # where[c]
  BY DEF Anywhere
<1>3. /\ Apart' /\ place \in Covered'
      /\ \A x \in Places : x # where[c] /\ x # place => (x \in Covered <=> x \in Covered')
  BY <1>1, <1>2, Moved
<1>4. /\ InboxOK(ms) /\ \A i \in 1..Len(ms) : ms[i].kind # "motion"
      /\ \A x \in Places : Follows(ms, x, Covered, Covered')
  BY <1>3, OccupancyEvent
<1> HIDE DEF ms
<1> QED
  BY <1>1, <1>3, <1>4, Driven

LEMMA DrivenOff ==
    ASSUME IInv, NEW c \in Cards, NEW place \in Anywhere \ Places, where[c] \in Places,
           place \in {"away", "carried"} \/ Empty(place),
           Drive(c, place, << Occupancy(where[c], FALSE) >>), WorldOK'
    PROVE  IInv'
<1> DEFINE p == where[c]
           ms == << Occupancy(p, FALSE) >>
<1>1. where' = [where EXCEPT ![c] = place] /\ Drive(c, place, ms)
  BY DEF Drive
<1>2. /\ Apart' /\ p \notin Covered'
      /\ \A x \in Places : x # p /\ x # place => (x \in Covered <=> x \in Covered')
  BY <1>1, Moved
<1> HIDE DEF p
<1>3. p \in Places
  BY DEF p
<1>4. /\ InboxOK(ms) /\ \A i \in 1..Len(ms) : ms[i].kind # "motion"
      /\ \A x \in Places : Follows(ms, x, Covered, Covered')
  BY <1>2, <1>3, OccupancyEvent
<1> HIDE DEF ms
<1> QED
  BY <1>1, <1>2, <1>4, Driven

LEMMA DrivenElsewhere ==
    ASSUME IInv, NEW c \in Cards, NEW place \in Anywhere \ Places, where[c] \notin Places,
           place # where[c], place \in {"away", "carried"} \/ Empty(place),
           NEW ms, InboxOK(ms), Silent(ms), Drive(c, place, ms), WorldOK'
    PROVE  IInv'
<1>1. where' = [where EXCEPT ![c] = place]
  BY DEF Drive
<1>2. Apart' /\ \A x \in Places : x \in Covered <=> x \in Covered'
  BY <1>1, Moved
<1>3. \A x \in Places : Follows(ms, x, Covered, Covered')
  BY <1>2, FollowsSilent
<1>4. \A i \in 1..Len(ms) : ms[i].kind # "motion"
  BY DEF Silent
<1> QED
  BY <1>2, <1>3, <1>4, Driven

LEMMA WhereTyped ==
    ASSUME IInv, NEW c \in Cards
    PROVE  where[c] \in Anywhere /\ orders[c] \in Seq(Storage!Moves) /\ ticket[c] \in Buffers \cup {None}
BY DEF IInv, WorldOK, Anywhere

\* The valets have whoever they carry under orders, before and after a move that adds none.
LEMMA WorldKept ==
    ASSUME IInv, NEW c \in Cards, NEW place \in Anywhere, where' = [where EXCEPT ![c] = place],
           place = "carried" => orders[c] # <<>>,
           UNCHANGED <<ticket, orders, sensed>>
    PROVE  WorldOK'
<1>1. where' \in [Cards -> Anywhere] /\ where'[c] = place /\ \A d \in Cards : d # c => where'[d] = where[d]
  BY DEF IInv, WorldOK, Anywhere
<1> QED
  BY <1>1 DEF IInv, WorldOK, Anywhere

LEMMA ArriveIInv == ASSUME IInv, NEW c \in Cards, NEW h \in 0..MaxHours, Arrive(c, h) PROVE IInv'
<1> DEFINE m == DurationDial(h)
           n == NfcScan("gate", c)
           ms == << m, n >>
<1>1. where[c] = "away" /\ Empty("gate") /\ Drive(c, "gate", ms) /\ UNCHANGED <<ticket, orders>>
  BY DEF Arrive
<1>2. MessageOK(m) /\ MessageOK(n) /\ m.kind = "duration" /\ n.kind = "nfc"
  BY MessagesOK DEF DurationDial, NfcScan
<1> HIDE DEF m, n
<1>3. InboxOK(ms) /\ Silent(ms)
  BY <1>2, InboxFew, SilentFew
<1> HIDE DEF ms
<1>4. "gate" \in Anywhere \ Places /\ where[c] \notin Places
  BY <1>1, LotAssumption DEF Anywhere
<1>5. where' = [where EXCEPT ![c] = "gate"] /\ UNCHANGED sensed
  BY <1>1 DEF Drive
<1>6. WorldOK'
  BY <1>1, <1>4, <1>5, WorldKept
<1> QED
  BY <1>1, <1>3, <1>4, <1>6, DrivenElsewhere

LEMMA TurnAwayIInv == ASSUME IInv, NEW c \in Cards, TurnAway(c) PROVE IInv'
<1>1. where[c] = "gate" /\ Drive(c, "away", <<>>) /\ UNCHANGED <<ticket, orders>>
  BY DEF TurnAway
<1>2. "away" \in Anywhere \ Places /\ where[c] \notin Places
  BY <1>1, LotAssumption DEF Anywhere
<1>3. where' = [where EXCEPT ![c] = "away"] /\ UNCHANGED sensed
  BY <1>1 DEF Drive
<1>4. WorldOK'
  BY <1>1, <1>2, <1>3, WorldKept
<1> QED
  BY <1>1, <1>2, <1>4, InboxFew, SilentFew, DrivenElsewhere

LEMMA PassGateIInv == ASSUME IInv, NEW c \in Cards, PassGate(c) PROVE IInv'
<1>1. where[c] = "exit" /\ Drive(c, "away", <<>>) /\ UNCHANGED <<ticket, orders>>
  BY DEF PassGate
<1>2. "away" \in Anywhere \ Places /\ where[c] \notin Places
  BY <1>1, LotAssumption DEF Anywhere
<1>3. where' = [where EXCEPT ![c] = "away"] /\ UNCHANGED sensed
  BY <1>1 DEF Drive
<1>4. WorldOK'
  BY <1>1, <1>2, <1>3, WorldKept
<1> QED
  BY <1>1, <1>2, <1>4, InboxFew, SilentFew, DrivenElsewhere

LEMMA DriveInIInv == ASSUME IInv, NEW c \in Cards, DriveIn(c) PROVE IInv'
<1> DEFINE b == ticket[c]
<1>1. /\ where[c] = "gate" /\ b # None /\ Empty(b) /\ Drive(c, b, << Occupancy(b, TRUE) >>)
      /\ ticket' = [ticket EXCEPT ![c] = None] /\ UNCHANGED orders
  BY DEF DriveIn
<1>2. b \in Places /\ where[c] \notin Places
  BY <1>1, WhereTyped, LotAssumption DEF Places
<1>3. where' = [where EXCEPT ![c] = b] /\ UNCHANGED sensed
  BY <1>1 DEF Drive
<1> HIDE DEF b
<1>4. WorldOK'
  <2>1. where' \in [Cards -> Anywhere] /\ where'[c] = b /\ \A d \in Cards : d # c => where'[d] = where[d]
    BY <1>2, <1>3 DEF IInv, WorldOK, Anywhere
  <2>2. where'[c] # "carried"
    BY <1>2, <2>1, LotAssumption
  <2>3. ticket' \in [Cards -> Buffers \cup {None}]
    BY <1>1 DEF IInv, WorldOK
  <2> QED
    BY <1>1, <1>3, <2>1, <2>2, <2>3 DEF IInv, WorldOK, Anywhere
<1> QED
  BY <1>1, <1>2, <1>4, DrivenOnto

LEMMA CheckOutIInv == ASSUME IInv, NEW c \in Cards, CheckOut(c) PROVE IInv'
<1> DEFINE m == NfcScan("checkout", c)
           ms == << m >>
<1>1. Drive(c, where[c], ms) /\ UNCHANGED <<ticket, orders>>
  BY DEF CheckOut
<1>2. MessageOK(m) /\ m.kind = "nfc"
  BY MessagesOK DEF NfcScan
<1> HIDE DEF m
<1>3. InboxOK(ms) /\ Silent(ms)
  BY <1>2, InboxFew, SilentFew
<1> HIDE DEF ms
<1>4. where' = where /\ UNCHANGED sensed
  BY <1>1 DEF Drive, IInv, WorldOK
<1>5. WorldOK' /\ Apart' /\ Covered' = Covered
  BY <1>1, <1>4 DEF IInv, WorldOK, Apart, Covered, Empty, AtGate
<1>6. \A i \in 1..Len(ms) : ms[i].kind # "motion"
  BY <1>3 DEF Silent
<1>7. \A x \in Places : Follows(ms, x, Covered, Covered')
  BY <1>3, <1>5, FollowsSilent
<1> QED
  BY <1>1, <1>3, <1>5, <1>6, <1>7, Driven

LEMMA LiftIInv == ASSUME IInv, NEW c \in Cards, Lift(c) PROVE IInv'
<1>1. /\ orders[c] # <<>> /\ where[c] = Head(orders[c]).from
      /\ Drive(c, "carried", << Occupancy(where[c], FALSE) >>) /\ UNCHANGED <<ticket, orders>>
  BY DEF Lift
<1>2. where[c] \in Places
  <2>1. Head(orders[c]) \in Storage!Moves
    BY <1>1, WhereTyped, HeadTailProperties
  <2> QED
    BY <1>1, <2>1 DEF Storage!Moves, Places
<1>3. "carried" \in Anywhere \ Places
  BY LotAssumption DEF Anywhere
<1>4. where' = [where EXCEPT ![c] = "carried"] /\ UNCHANGED sensed
  BY <1>1 DEF Drive
<1>5. WorldOK'
  BY <1>1, <1>3, <1>4, WorldKept
<1> QED
  BY <1>1, <1>2, <1>3, <1>5, DrivenOff

LEMMA PutIInv == ASSUME IInv, NEW c \in Cards, Put(c) PROVE IInv'
<1> DEFINE p == Head(orders[c]).to
           rest == Tail(orders[c])
<1>1. /\ where[c] = "carried" /\ Empty(p) /\ Drive(c, p, << Occupancy(p, TRUE) >>)
      /\ orders' = [orders EXCEPT ![c] = rest] /\ UNCHANGED ticket
  BY DEF Put
<1>2. orders[c] # <<>>
  BY <1>1 DEF IInv, WorldOK
<1>3. p \in Places /\ rest \in Seq(Storage!Moves)
  <2>1. Head(orders[c]) \in Storage!Moves /\ rest \in Seq(Storage!Moves)
    BY <1>2, WhereTyped, HeadTailProperties
  <2> QED
    BY <2>1 DEF Storage!Moves, Places
<1>4. where' = [where EXCEPT ![c] = p] /\ UNCHANGED sensed
  BY <1>1 DEF Drive
<1> HIDE DEF p, rest
<1>5. where[c] \notin Places
  BY <1>1, LotAssumption
<1>6. WorldOK'
  <2>1. where' \in [Cards -> Anywhere] /\ where'[c] = p /\ \A d \in Cards : d # c => where'[d] = where[d]
    BY <1>3, <1>4 DEF IInv, WorldOK, Anywhere
  <2>2. where'[c] # "carried"
    BY <1>3, <2>1, LotAssumption
  <2>3. orders' \in [Cards -> Seq(Storage!Moves)] /\ \A d \in Cards : d # c => orders'[d] = orders[d]
    BY <1>1, <1>3 DEF IInv, WorldOK
  <2> QED
    BY <1>1, <1>4, <2>1, <2>2, <2>3 DEF IInv, WorldOK, Anywhere
<1> QED
  BY <1>1, <1>3, <1>5, <1>6, DrivenOnto

LEMMA DriveOutIInv == ASSUME IInv, NEW c \in Cards, DriveOut(c) PROVE IInv'
<1>1. /\ where[c] \in Buffers /\ Empty("exit")
      /\ Drive(c, "exit", << Occupancy(where[c], FALSE) >>) /\ UNCHANGED <<ticket, orders>>
  BY DEF DriveOut
<1>2. where[c] \in Places /\ "exit" \in Anywhere \ Places
  BY <1>1, LotAssumption DEF Places, Anywhere
<1>3. where' = [where EXCEPT ![c] = "exit"] /\ UNCHANGED sensed
  BY <1>1 DEF Drive
<1>4. WorldOK'
  BY <1>1, <1>2, <1>3, WorldKept
<1> QED
  BY <1>1, <1>2, <1>4, DrivenOff

-----------------------------------------------------------------------------
LEMMA NextIInv == IInv /\ [Next]_vars => IInv' /\ StoreStep
<1> SUFFICES ASSUME IInv, [Next]_vars PROVE IInv' /\ StoreStep
  OBVIOUS
<1>1. CASE Laptop
  BY <1>1, OnOccupancyIInv, OnNfcIInv, OnGateMotionIInv, OnDurationIInv, OnCommandIInv,
     OnProblemIInv DEF Laptop
<1>2. CASE Dispatcher
  BY <1>2, DispatcherIInv
<1>3. ASSUME NEW c \in Cards, Attended(c) \/ CheckOut(c) \/ \E h \in 0..MaxHours : Arrive(c, h)
      PROVE  IInv' /\ StoreStep
  <2>1. IInv'
    BY <1>3, ArriveIInv, TurnAwayIInv, DriveInIInv, CheckOutIInv, LiftIInv, PutIInv, DriveOutIInv,
       PassGateIInv DEF Attended
  <2>2. UNCHANGED store
    BY <1>3 DEF Attended, Arrive, TurnAway, DriveIn, CheckOut, Lift, Put, DriveOut, PassGate, Drive
  <2> QED
    BY <2>1, <2>2 DEF StoreStep, Storage!vars, store
<1>4. CASE UNCHANGED vars
  <2>1. UNCHANGED <<store, laptop, pi, world>>
    BY <1>4 DEF vars
  <2>2. StoreOK' /\ WorldOK' /\ Apart' /\ Covered' = Covered /\ Reported' = Reported
    BY <2>1 DEF IInv, StoreOK, WorldOK, Apart, Covered, Reported, Empty, AtGate, store, world
  <2>3. EventsTold'
    BY <2>1, <2>2 DEF IInv, EventsTold
  <2>4. IInv'
    BY <2>1, <2>2, <2>3 DEF IInv
  <2> QED
    BY <2>1, <2>4 DEF StoreStep, Storage!vars, store
<1> QED
  BY <1>1, <1>2, <1>3, <1>4 DEF Next

\* Messages, plans and orders name what the lot has, no place holds two cars, and every
\* sensor's last event under way, or else the store, says what the sensor sees: what the
\* handlers of laptop and Pi, the drivers and the valets keep between them.
THEOREM InductiveInvariant == Spec => []IInv
<1> QED
  BY InitIInv, NextIInv, PTL DEF Spec

\* Everything that reaches StorageService in the loop is something module Storage lets happen:
\* what problem generation, planner, dispatcher and sensors send it, nothing else.
THEOREM StoreImplemented == Spec => Storage!Spec
<1>1. Init => Storage!Init
  BY DEF Init
<1>2. IInv /\ [Next]_vars => [Storage!Next]_Storage!vars
  BY NextIInv DEF StoreStep
<1> QED
  BY <1>1, <1>2, InductiveInvariant, PTL DEF Spec, Storage!Spec

-----------------------------------------------------------------------------
(* Storage and Store are instances of one module over the same variables.  *)

LEMMA SameStore == Storage!Spec <=> Store!Spec
<1>1. Storage!Init <=> Store!Init
  BY DEF Storage!Init, Store!Init, Storage!Unregistered, Store!Unregistered,
         Storage!NoMove, Store!NoMove
<1>2. Storage!vars = Store!vars
  BY DEF Storage!vars, Store!vars
<1>3. Storage!NoMove = Store!NoMove /\ Storage!Unregistered = Store!Unregistered
      /\ Storage!Moves = Store!Moves /\ Storage!OUTSIDE = Store!OUTSIDE
  BY DEF Storage!NoMove, Store!NoMove, Storage!Unregistered, Store!Unregistered, Storage!Moves,
         Store!Moves, Storage!OUTSIDE, Store!OUTSIDE
<1>4. \A h : Storage!OnDuration(h) <=> Store!OnDuration(h)
  BY DEF Storage!OnDuration, Store!OnDuration
<1>5. \A cs, occ, seen : Storage!CompleteDepartures(cs, occ, seen) = Store!CompleteDepartures(cs, occ, seen)
  BY DEF Storage!CompleteDepartures, Store!CompleteDepartures, Storage!Leaving, Store!Leaving,
         Storage!Departed, Store!Departed
<1>6. \A seen : Storage!OnGateMotion(seen) <=> Store!OnGateMotion(seen)
  BY <1>5 DEF Storage!OnGateMotion, Store!OnGateMotion
<1>7. \A c : Storage!Newest(c) = Store!Newest(c)
  BY DEF Storage!Newest, Store!Newest
<1>8. \A c : Storage!OnNfcGate(c) <=> Store!OnNfcGate(c)
  BY <1>3, <1>7 DEF Storage!OnNfcGate, Store!OnNfcGate
<1>9. \A k : Storage!CheckedOut(k) = Store!CheckedOut(k)
  BY <1>3 DEF Storage!CheckedOut, Store!CheckedOut
<1>10. \A c : Storage!OnNfcCheckout(c) <=> Store!OnNfcCheckout(c)
  BY <1>7, <1>9 DEF Storage!OnNfcCheckout, Store!OnNfcCheckout
<1>11. \A c : Storage!Known(c) <=> Store!Known(c)
  BY DEF Storage!Known, Store!Known
<1>12. \A c, s, b : Storage!OnAssignment(c, s, b) <=> Store!OnAssignment(c, s, b)
  BY <1>11 DEF Storage!OnAssignment, Store!OnAssignment
<1>13. \A c : Storage!OnExitAuthorization(c) <=> Store!OnExitAuthorization(c)
  BY <1>11 DEF Storage!OnExitAuthorization, Store!OnExitAuthorization
<1>14. \A c, accepted : Storage!OnAdmissionResult(c, accepted) <=> Store!OnAdmissionResult(c, accepted)
  BY DEF Storage!OnAdmissionResult, Store!OnAdmissionResult
<1>15. \A k, m : Storage!Commanded(k, m) = Store!Commanded(k, m)
  BY DEF Storage!Commanded, Store!Commanded
<1>16. \A c, m : Storage!OnVehicleMove(c, m) <=> Store!OnVehicleMove(c, m)
  BY <1>11, <1>15 DEF Storage!OnVehicleMove, Store!OnVehicleMove
<1>17. \A m, occ : Storage!Confirmed(m, occ) <=> Store!Confirmed(m, occ)
  BY <1>3 DEF Storage!Confirmed, Store!Confirmed
<1>18. \A k, m : Storage!Finished(k, m) = Store!Finished(k, m)
  BY DEF Storage!Finished, Store!Finished
<1>19. \A cs, occ : Storage!CompletePendingMoves(cs, occ) = Store!CompletePendingMoves(cs, occ)
  BY <1>17, <1>18 DEF Storage!CompletePendingMoves, Store!CompletePendingMoves
<1>20. \A p : Storage!Entrants(p) = Store!Entrants(p)
  BY DEF Storage!Entrants, Store!Entrants, Storage!Oldest, Store!Oldest
<1>21. \A k, b : Storage!Entered(k, b) = Store!Entered(k, b)
  BY DEF Storage!Entered, Store!Entered
<1>22. \A p : Storage!OnOccupied(p) <=> Store!OnOccupied(p)
  BY <1>3, <1>17, <1>19, <1>20, <1>21 DEF Storage!OnOccupied, Store!OnOccupied
<1>23. \A p : Storage!OnFree(p) <=> Store!OnFree(p)
  BY <1>3, <1>5, <1>17, <1>19 DEF Storage!OnFree, Store!OnFree
<1>24. Storage!Next <=> Store!Next
  BY <1>3, <1>4, <1>6, <1>8, <1>10, <1>12, <1>13, <1>14, <1>16, <1>22, <1>23
     DEF Storage!Next, Store!Next, Storage!Hours, Store!Hours, Storage!Places, Store!Places
<1>25. [Storage!Next]_Storage!vars <=> [Store!Next]_Store!vars
  BY <1>2, <1>24 DEF Storage!vars, Store!vars
<1> QED
  BY <1>1, <1>25, PTL DEF Storage!Spec, Store!Spec

LEMMA SameProperties ==
    /\ Storage!TypeOK <=> Store!TypeOK
    /\ Storage!RecordConsistent <=> Store!RecordConsistent
    /\ Storage!CheckoutActedOn <=> Store!CheckoutActedOn
    /\ [Storage!LocationStep]_Storage!vars <=> [Store!LocationStep]_Store!vars
    /\ [Storage!DepartureStep]_Storage!vars <=> [Store!DepartureStep]_Store!vars
    /\ [Storage!ClearingStep]_Storage!vars <=> [Store!ClearingStep]_Store!vars
<1>1. /\ Storage!vars = Store!vars /\ Storage!NoMove = Store!NoMove
      /\ Storage!Unregistered = Store!Unregistered /\ Storage!Places = Store!Places
      /\ Storage!OUTSIDE = Store!OUTSIDE /\ Storage!Moves = Store!Moves
  BY DEF Storage!vars, Store!vars, Storage!NoMove, Store!NoMove, Storage!Unregistered,
         Store!Unregistered, Storage!Places, Store!Places, Storage!OUTSIDE, Store!OUTSIDE,
         Storage!Moves, Store!Moves
<1>2. Storage!TypeOK <=> Store!TypeOK
  BY <1>1 DEF Storage!TypeOK, Store!TypeOK, Storage!Customer, Store!Customer, Storage!Status,
              Store!Status, Storage!Hours, Store!Hours
<1>3. Storage!RecordConsistent <=> Store!RecordConsistent
  BY <1>1 DEF Storage!RecordConsistent, Store!RecordConsistent, Storage!AtRest, Store!AtRest,
              Storage!InMotion, Store!InMotion
<1>4. Storage!CheckoutActedOn <=> Store!CheckoutActedOn
  BY DEF Storage!CheckoutActedOn, Store!CheckoutActedOn, Storage!Requested, Store!Requested
<1>5. Storage!LocationStep <=> Store!LocationStep
  BY <1>1 DEF Storage!LocationStep, Store!LocationStep
<1>6. Storage!DepartureStep <=> Store!DepartureStep
  BY <1>1 DEF Storage!DepartureStep, Store!DepartureStep
<1>7. Storage!ClearingStep <=> Store!ClearingStep
  BY DEF Storage!ClearingStep, Store!ClearingStep, Storage!Leaving, Store!Leaving
<1>8. Storage!vars = Store!vars /\ (UNCHANGED Storage!vars <=> UNCHANGED Store!vars)
  BY DEF Storage!vars, Store!vars
<1> QED
  BY <1>2, <1>3, <1>4, <1>5, <1>6, <1>7, <1>8

LEMMA StoreAssumed == Store!StorageAssumption
BY LotAssumption DEF Store!StorageAssumption, Store!Places, Places, Store!OUTSIDE

\* So the records stay well formed and consistent in the running loop, no checkout is
\* forgotten, and places and departures are recorded only as the sensors confirm them
\* (StorageService's handlers), also when the nodes are slow and commands come late.
THEOREM StoreKeepsPromises ==
    Spec => /\ []Storage!TypeOK /\ []Storage!RecordConsistent /\ []Storage!CheckoutActedOn
            /\ Storage!LocationConfirmed /\ Storage!DepartureConfirmed /\ Storage!DepartureNotMissed
<1>1. Spec => Store!Spec
  BY StoreImplemented, SameStore
<1>2. Spec => []Store!TypeOK /\ []Store!RecordConsistent /\ []Store!CheckoutActedOn
  BY <1>1, StoreAssumed, Store!TypeCorrect, Store!RecordAlwaysConsistent, Store!CheckoutNeverForgotten
<1>3. Spec => Store!LocationConfirmed /\ Store!DepartureConfirmed /\ Store!DepartureNotMissed
  BY <1>1, StoreAssumed, Store!LocationAlwaysConfirmed, Store!DepartureAlwaysConfirmed,
     Store!DepartureNeverMissed
<1> QED
  BY <1>2, <1>3, SameProperties, PTL
     DEF Storage!LocationConfirmed, Storage!DepartureConfirmed, Storage!DepartureNotMissed,
         Store!LocationConfirmed, Store!DepartureConfirmed, Store!DepartureNotMissed

-----------------------------------------------------------------------------
(* Once the inboxes are empty, the store believes what the sensors see.    *)

LEMMA PlacesTold == ASSUME IInv, Drained PROVE PlacesKnown
<1>1. \A x \in Sensors : x \in Reported <=> x \in Covered
  <2>1. \A x \in Sensors : Follows(<<>>, x, Reported, Covered)
    BY DEF IInv, EventsTold, Drained
  <2>2. \A i : i \notin 1..Len(<<>>)
    OBVIOUS
  <2> QED
    BY <2>1, <2>2 DEF Follows
<1>2. occupied = {p \in Places : ~Empty(p)}
  BY <1>1, LotAssumption DEF IInv, StoreOK, Sensors, Reported, Covered
<1>3. gate_present = AtGate(where)
  <2>1. gate_present \in BOOLEAN /\ AtGate(where) \in BOOLEAN
    BY DEF IInv, StoreOK, AtGate
  <2>2. gate_present <=> AtGate(where)
    BY <1>1, LotAssumption DEF Sensors, Reported, Covered
  <2> QED
    BY <2>1, <2>2
<1> QED
  BY <1>2, <1>3 DEF PlacesKnown

\* Once all messages are handled the store knows which places are taken and whether a car is
\* at the gate (StorageService._on_occupancy, _on_gate_motion), whatever the commands did.
THEOREM PlacesAlwaysKnown == Spec => []PlacesKnown
<1>1. IInv => PlacesKnown
  BY PlacesTold DEF PlacesKnown
<1> QED
  BY <1>1, InductiveInvariant, PTL

-----------------------------------------------------------------------------
(* The dashboard hears of the gate one message later.                      *)

PresentOK == IF unseen.kind = "motion" THEN unseen.present = gate_present ELSE present = gate_present

LEMMA DashStep == DashNext => [Next]_vars
BY DEF DashNext, See, Handle, Elsewhere, Next

LEMMA GateByMotion ==
    ASSUME IInv, Laptop
    PROVE  IF Message.kind = "motion" THEN gate_present' = Message.present ELSE UNCHANGED gate_present
BY DEF Laptop, OnOccupancy, OnNfc, OnGateMotion, OnDuration, OnCommand, OnProblem, Received, Message,
       Storage!OnOccupied, Storage!OnFree, Storage!OnNfcGate, Storage!OnNfcCheckout,
       Storage!OnGateMotion, Storage!OnDuration, Storage!OnAssignment, Storage!OnVehicleMove,
       Storage!OnExitAuthorization, Storage!OnAdmissionResult, store

LEMMA PresentStep == ASSUME IInv, PresentOK, [DashNext]_dvars PROVE PresentOK'
<1>1. CASE See
  <2>1. gate_present' = gate_present /\ unseen'.kind = "none"
    BY <1>1 DEF See, vars, store, Nothing
  <2>2. present' = IF unseen.kind = "motion" THEN unseen.present ELSE present
    BY <1>1 DEF See
  <2> QED
    BY <2>1, <2>2 DEF PresentOK
<1>2. CASE Handle
  <2>1. unseen.kind = "none" /\ unseen' = Message /\ present' = present /\ Laptop
    BY <1>2 DEF Handle, Nothing
  <2> QED
    BY <2>1, GateByMotion DEF PresentOK
<1>3. CASE Elsewhere
  <2>1. unseen' = unseen /\ present' = present
    BY <1>3 DEF Elsewhere, dashboard
  <2>2. UNCHANGED store
    BY <1>3 DEF Elsewhere, Dispatcher, DispatchAssign, DispatchOpenEntry, DispatchShowAssignment,
                DispatchMove, DispatchOpenExit, Attended, Arrive, TurnAway, DriveIn, CheckOut, Lift,
                Put, DriveOut, PassGate, Drive
  <2> QED
    BY <2>1, <2>2 DEF PresentOK, store
<1>4. CASE UNCHANGED dvars
  BY <1>4 DEF dvars, vars, store, dashboard, PresentOK
<1> QED
  BY <1>1, <1>2, <1>3, <1>4 DEF DashNext

LEMMA DashInv == DashSpec => [](IInv /\ PresentOK)
<1>1. DashInit => IInv /\ PresentOK
  <2> SUFFICES ASSUME DashInit PROVE IInv /\ PresentOK
    OBVIOUS
  <2>1. IInv
    BY InitIInv DEF DashInit
  <2>2. gate_present = FALSE /\ present = FALSE /\ unseen.kind = "none"
    BY DEF DashInit, Init, Storage!Init, Nothing
  <2>3. PresentOK
    BY <2>2 DEF PresentOK
  <2> QED
    BY <2>1, <2>3
<1>2. IInv /\ PresentOK /\ [DashNext]_dvars => (IInv /\ PresentOK)'
  <2> SUFFICES ASSUME IInv, PresentOK, [DashNext]_dvars PROVE IInv' /\ PresentOK'
    OBVIOUS
  <2>1. [Next]_vars
    BY DashStep DEF dvars
  <2> QED
    BY <2>1, NextIInv, PresentStep
<1> QED
  BY <1>1, <1>2, PTL DEF DashSpec

LEMMA SpotsFinite == IsFiniteSet(Spots) /\ IsFiniteSet(Places)
<1>1. ASSUME NEW q \in {SpotOrder, BufferOrder} PROVE IsFiniteSet(Elements(q))
  <2>1. q \in Seq(Elements(q))
    BY LotAssumption
  <2>2. IsFiniteSet(1..Len(q)) /\ DOMAIN q = 1..Len(q)
    BY <2>1, FS_Interval
  <2>3. q \in Surjection(1..Len(q), Elements(q))
    BY <2>1, <2>2 DEF Surjection, Elements
  <2> QED
    BY <2>2, <2>3, FS_Surjection
<1>2. IsFiniteSet(Spots) /\ IsFiniteSet(Buffers)
  BY <1>1 DEF Spots, Buffers
<1> QED
  BY <1>2, FS_Union DEF Places

\* Then the dashboard shows exactly the taken places as occupied, counts them right and shows
\* the gate as it is, although it sees every message later than the store it reads.
THEOREM PlacesAlwaysShown == DashSpec => []PlacesShown
<1>1. ASSUME IInv, PresentOK, Settled PROVE PlacesShown
  <2>1. PlacesKnown /\ unseen = Nothing /\ Drained
    BY <1>1, PlacesTold DEF Settled
  <2>2. present = AtGate(where)
    BY <1>1, <2>1 DEF PresentOK, Nothing, PlacesKnown
  <2>3. \A p : SpotState(p) = "occupied" <=> p \in occupied
    BY DEF SpotState
  <2>4. \A p \in Places : SpotState(p) = "occupied" <=> ~Empty(p)
    BY <2>1, <2>3 DEF PlacesKnown
  <2> DEFINE Occupied(S) == {p \in S : SpotState(p) = "occupied"}
             Free == {p \in Spots : Empty(p)}
  <2>5. Snapshot.occupied_count = Cardinality({p \in Places : ~Empty(p)})
    <3>1. Snapshot.occupied_count = Cardinality(Occupied(Places))
      BY DEF Snapshot
    <3>2. Occupied(Places) = {p \in Places : ~Empty(p)}
      BY <2>4
    <3> QED
      BY <3>1, <3>2
  <2>6. Snapshot.free_count = Cardinality(Free)
    <3>1. Snapshot.free_count = Cardinality(Spots) - Cardinality(Occupied(Spots))
      BY DEF Snapshot
    <3>2. Occupied(Spots) \subseteq Spots /\ Free = Spots \ Occupied(Spots)
      BY <2>4 DEF Places
    <3> HIDE DEF Occupied, Free
    <3>3. Cardinality(Free) = Cardinality(Spots) - Cardinality(Spots \cap Occupied(Spots))
      BY <3>2, SpotsFinite, FS_Difference, FS_Subset
    <3>4. Spots \cap Occupied(Spots) = Occupied(Spots)
      BY <3>2
    <3> QED
      BY <3>1, <3>3, <3>4
  <2>7. Snapshot.gate_present = AtGate(where)
    BY <2>2 DEF Snapshot
  <2> QED
    BY <2>4, <2>5, <2>6, <2>7 DEF PlacesShown
<1>2. IInv /\ PresentOK => PlacesShown
  BY <1>1 DEF PlacesShown
<1> QED
  BY <1>2, DashInv, PTL


-----------------------------------------------------------------------------
(* Every problem was generated from a consistent record.                   *)

Contents(q) == {q[i] : i \in 1..Len(q)}

LEMMA ContentsConcat ==
    ASSUME NEW q, NEW r, InboxOK(q), InboxOK(r)
    PROVE  Contents(q \o r) \subseteq Contents(q) \cup Contents(r)
<1>1. PICK S : q \in Seq(S) /\ \A m \in S : MessageOK(m)
  BY DEF InboxOK
<1>2. PICK R : r \in Seq(R) /\ \A m \in R : MessageOK(m)
  BY DEF InboxOK
<1>3. q \in Seq(S \cup R) /\ r \in Seq(S \cup R)
  BY <1>1, <1>2, SeqMonotonic
<1> DEFINE t == q \o r
           K == Len(q)
           L == Len(r)
<1>4. /\ K \in Nat /\ L \in Nat /\ Len(t) = K + L
      /\ \A i \in 1..(K + L) : t[i] = IF i <= K THEN q[i] ELSE r[i - K]
  BY <1>3, ConcatProperties
<1> HIDE DEF t, K, L
<1>5. ASSUME NEW i \in 1..Len(t) PROVE (i \in 1..K /\ t[i] = q[i]) \/ (i - K \in 1..L /\ t[i] = r[i - K])
  BY <1>4
<1> QED
  BY <1>5 DEF Contents, t, K, L

LEMMA ContentsTail ==
    ASSUME NEW q, InboxOK(q), q # <<>>
    PROVE  Contents(Tail(q)) \subseteq Contents(q) /\ Head(q) \in Contents(q)
<1>1. PICK S : q \in Seq(S) /\ \A m \in S : MessageOK(m)
  BY DEF InboxOK
<1> DEFINE t == Tail(q)
<1>2. /\ Len(q) \in Nat /\ Len(q) > 0 /\ Len(t) = Len(q) - 1 /\ Head(q) = q[1]
      /\ \A i \in 1..Len(t) : t[i] = q[i + 1]
  BY <1>1, HeadTailProperties, LenProperties, EmptySeq
<1> HIDE DEF t
<1>3. \A j \in 1..Len(t) : j + 1 \in 1..Len(q)
  BY <1>2
<1>4. 1 \in 1..Len(q)
  BY <1>2
<1> QED
  BY <1>2, <1>3, <1>4 DEF Contents, t

LEMMA ContentsFew ==
    /\ Contents(<<>>) = {}
    /\ \A m : Contents(<<m>>) = {m}
    /\ \A m, n : Contents(<<m, n>>) = {m, n}
<1>1. Contents(<<>>) = {}
  BY DEF Contents
<1>2. \A m : Contents(<<m>>) = {m}
  BY DEF Contents
<1>3. \A m, n : Contents(<<m, n>>) = {m, n}
  <2>1. ASSUME NEW m, NEW n PROVE Contents(<<m, n>>) = {m, n}
    <3> DEFINE q == <<m, n>>
    <3>1. Len(q) = 2 /\ q[1] = m /\ q[2] = n /\ 1..2 = {1, 2}
      OBVIOUS
    <3> HIDE DEF q
    <3>2. Contents(q) = {m, n}
      BY <3>1 DEF Contents
    <3> QED
      BY <3>2 DEF q
  <2> QED
    BY <2>1
<1> QED
  BY <1>1, <1>2, <1>3

\* The only problem a step of the system makes is the one about the record it leaves.
NewProblem == Problem(Generator!Generate(customers', older', occupied'))
Harmless(m) == m.kind # "problem" \/ m = NewProblem

LEMMA LaptopNews ==
    ASSUME IInv, Laptop
    PROVE  \A m \in Contents(laptop') : m \in Contents(laptop) \/ Harmless(m)
<1>1. laptop # <<>> /\ InboxOK(laptop)
  BY DEF IInv, Laptop, OnOccupancy, OnNfc, OnGateMotion, OnDuration, OnCommand, OnProblem, Received
<1>2. InboxOK(Tail(laptop)) /\ Contents(Tail(laptop)) \subseteq Contents(laptop)
  BY <1>1, InboxRest, ContentsTail
<1>3. IInv'
  BY NextIInv DEF Next
<1>4. \E ms : InboxOK(ms) /\ laptop' = Tail(laptop) \o ms /\ \A m \in Contents(ms) : Harmless(m)
  <2>1. CASE OnOccupancy \/ OnNfc \/ OnGateMotion
    <3>1. laptop' = Tail(laptop) \o <<NewProblem>>
      BY <2>1 DEF OnOccupancy, OnNfc, OnGateMotion, Regenerate, Publish, NewProblem
    <3>2. MessageOK(NewProblem)
      BY <1>3, GeneratedOK DEF IInv, StoreOK, NewProblem
    <3> QED
      BY <3>1, <3>2, InboxFew, ContentsFew DEF Harmless
  <2>2. CASE OnDuration \/ OnCommand
    <3>1. laptop' = Tail(laptop) \o <<>>
      BY <2>2 DEF OnDuration, OnCommand, Publish
    <3> QED
      BY <3>1, InboxFew, ContentsFew
  <2>3. CASE OnProblem
    <3> DEFINE p == Message.problem
               answer == Planner!Solve(p.init, p.goal)
               m == AdmissionResult(p.request, answer.solved)
    <3>1. laptop' = Tail(laptop) \o (IF p.purpose = "arrival" THEN <<m>> ELSE <<>>)
      BY <2>3 DEF OnProblem, Publish
    <3>2. m.kind = "admission" /\ (p.purpose = "arrival" => MessageOK(m))
      <4>1. answer.solved \in BOOLEAN
        BY DEF Planner!Solve, Planner!SearchFrom, Planner!AnswerOf
      <4>2. p.purpose = "arrival" => p.request \in Cards
        BY <1>1, <2>3, HeadOK DEF MessageOK, OnProblem, Received, Message
      <4> QED
        BY <4>1, <4>2, MessagesOK DEF AdmissionResult
    <3> HIDE DEF m, p
    <3> QED
      BY <3>1, <3>2, InboxFew, ContentsFew DEF Harmless
  <2> QED
    BY <2>1, <2>2, <2>3 DEF Laptop
<1> QED
  BY <1>2, <1>4, ContentsConcat

LEMMA DispatcherNews ==
    ASSUME IInv, Dispatcher
    PROVE  \A m \in Contents(laptop') : m \in Contents(laptop) \/ m.kind # "problem"
<1> DEFINE st == Head(pi)
<1>1. pi # <<>> /\ InboxOK(laptop)
  BY DEF IInv, Dispatcher, DispatchAssign, DispatchOpenEntry, DispatchShowAssignment, DispatchMove,
         DispatchOpenExit, Dispatched
<1>2. st \in PlanSteps
  BY <1>1, HeadTailProperties DEF IInv
<1>3. \E ms : InboxOK(ms) /\ laptop' = laptop \o ms /\ \A m \in Contents(ms) : m.kind # "problem"
  <2>1. CASE DispatchAssign
    <3> DEFINE m == ParkingAssignment(Arg(1), Arg(2), DefaultBuffer)
    <3>1. Arg(1) \in Cards /\ Arg(2) \in Spots
      BY <1>2, <2>1 DEF DispatchAssign, Dispatched, PlanSteps, Arg
    <3>2. DefaultBuffer \in Buffers
      BY LotAssumption
    <3>3. MessageOK(m) /\ m.kind = "assignment"
      BY <3>1, <3>2, MessagesOK DEF ParkingAssignment
    <3>4. laptop' = laptop \o <<m>>
      BY <2>1 DEF DispatchAssign, Send
    <3> HIDE DEF m
    <3> QED
      BY <3>3, <3>4, InboxFew, ContentsFew
  <2>2. CASE DispatchOpenEntry
    <3> DEFINE m == ParkingAssignment(Arg(1), Arg(3), Arg(2))
    <3>1. Arg(1) \in Cards /\ Arg(2) \in Buffers /\ Arg(3) \in Spots
      BY <1>2, <2>2 DEF DispatchOpenEntry, Dispatched, PlanSteps, Arg
    <3>2. MessageOK(m) /\ m.kind = "assignment"
      BY <3>1, MessagesOK DEF ParkingAssignment
    <3>3. laptop' = laptop \o <<m>>
      BY <2>2 DEF DispatchOpenEntry, Send
    <3> HIDE DEF m
    <3> QED
      BY <3>2, <3>3, InboxFew, ContentsFew
  <2>3. CASE DispatchShowAssignment
    <3>1. laptop' = laptop \o <<>>
      BY <2>3 DEF DispatchShowAssignment, Send
    <3> QED
      BY <3>1, InboxFew, ContentsFew
  <2>4. CASE DispatchMove
    <3> DEFINE n == [from |-> Arg(2), to |-> Arg(3)]
               m == VehicleMove(Arg(1), n)
    <3>1. Arg(1) \in Cards /\ n \in Storage!Moves
      BY <1>2, <2>4, SMTT(20) DEF DispatchMove, Dispatched, PlanSteps, Arg, Storage!Moves
    <3>2. MessageOK(m) /\ m.kind = "move"
      BY <3>1, MessagesOK DEF VehicleMove
    <3>3. laptop' = laptop \o <<m>>
      BY <2>4 DEF DispatchMove, Send
    <3> HIDE DEF m
    <3> QED
      BY <3>2, <3>3, InboxFew, ContentsFew
  <2>5. CASE DispatchOpenExit
    <3> DEFINE m == ExitAuthorization(Arg(1))
    <3>1. Arg(1) \in Cards
      BY <1>2, <2>5 DEF DispatchOpenExit, Dispatched, PlanSteps, Arg
    <3>2. MessageOK(m) /\ m.kind = "exit"
      BY <3>1, MessagesOK DEF ExitAuthorization
    <3>3. laptop' = laptop \o <<m>>
      BY <2>5 DEF DispatchOpenExit, Send
    <3> HIDE DEF m
    <3> QED
      BY <3>2, <3>3, InboxFew, ContentsFew
  <2> QED
    BY <2>1, <2>2, <2>3, <2>4, <2>5 DEF Dispatcher
<1> QED
  BY <1>1, <1>3, ContentsConcat

LEMMA DriveNews ==
    ASSUME IInv, NEW c, NEW place, NEW ms, Drive(c, place, ms), InboxOK(ms),
           \A m \in Contents(ms) : m.kind # "problem"
    PROVE  \A m \in Contents(laptop') : m \in Contents(laptop) \/ m.kind # "problem"
<1> DEFINE sign == GateMotion(AtGate(where'))
           motion == IF AtGate(where) # AtGate(where') THEN << sign >> ELSE <<>>
<1>1. MessageOK(sign) /\ sign.kind = "motion"
  <2>1. AtGate(where') \in BOOLEAN
    BY DEF AtGate
  <2> QED
    BY <2>1, MessagesOK DEF GateMotion
<1>2. laptop' = laptop \o motion \o ms \/ laptop' = laptop \o ms \o motion
  BY DEF Drive
<1> HIDE DEF sign
<1>3. InboxOK(motion) /\ \A m \in Contents(motion) : m.kind # "problem"
  BY <1>1, InboxFew, ContentsFew
<1> HIDE DEF motion
<1>4. InboxOK(laptop) /\ InboxOK(laptop \o motion) /\ InboxOK(laptop \o ms)
  BY <1>3, InboxConcat DEF IInv
<1>5. Contents(laptop') \subseteq Contents(laptop) \cup Contents(motion) \cup Contents(ms)
  <2>1. /\ Contents(laptop \o motion) \subseteq Contents(laptop) \cup Contents(motion)
        /\ Contents(laptop \o ms) \subseteq Contents(laptop) \cup Contents(ms)
    BY <1>3, <1>4, ContentsConcat
  <2>2. /\ Contents(laptop \o motion \o ms) \subseteq Contents(laptop \o motion) \cup Contents(ms)
        /\ Contents(laptop \o ms \o motion) \subseteq Contents(laptop \o ms) \cup Contents(motion)
    BY <1>3, <1>4, ContentsConcat
  <2> QED
    BY <1>2, <2>1, <2>2
<1> QED
  BY <1>3, <1>5


LEMMA WorldNews ==
    ASSUME IInv, NEW c \in Cards, Attended(c) \/ CheckOut(c) \/ \E h \in 0..MaxHours : Arrive(c, h)
    PROVE  UNCHANGED store /\ \A m \in Contents(laptop') : m \in Contents(laptop) \/ m.kind # "problem"
<1>1. UNCHANGED store
  BY DEF Attended, Arrive, TurnAway, DriveIn, CheckOut, Lift, Put, DriveOut, PassGate, Drive
<1> DEFINE Publishes(place, ms) == /\ Drive(c, place, ms) /\ InboxOK(ms)
                                   /\ \A m \in Contents(ms) : m.kind # "problem"
<1>2. \E place, ms : Publishes(place, ms)
  <2>1. ASSUME NEW h \in 0..MaxHours, Arrive(c, h) PROVE \E place, ms : Publishes(place, ms)
    <3> DEFINE d == DurationDial(h)
               n == NfcScan("gate", c)
    <3>1. MessageOK(d) /\ MessageOK(n) /\ d.kind = "duration" /\ n.kind = "nfc"
      BY MessagesOK DEF DurationDial, NfcScan
    <3>2. Drive(c, "gate", <<d, n>>)
      BY <2>1 DEF Arrive
    <3> HIDE DEF d, n
    <3>3. InboxOK(<<d, n>>) /\ \A m \in Contents(<<d, n>>) : m.kind # "problem"
      BY <3>1, InboxFew, ContentsFew
    <3> QED
      BY <3>2, <3>3
  <2>2. CASE CheckOut(c)
    <3> DEFINE n == NfcScan("checkout", c)
    <3>1. MessageOK(n) /\ n.kind = "nfc"
      BY MessagesOK DEF NfcScan
    <3>2. Drive(c, where[c], <<n>>)
      BY <2>2 DEF CheckOut
    <3> HIDE DEF n
    <3>3. InboxOK(<<n>>) /\ \A m \in Contents(<<n>>) : m.kind # "problem"
      BY <3>1, InboxFew, ContentsFew
    <3> QED
      BY <3>2, <3>3
  <2>3. CASE TurnAway(c) \/ PassGate(c)
    <3>1. Drive(c, "away", <<>>)
      BY <2>3 DEF TurnAway, PassGate
    <3> QED
      BY <3>1, InboxFew, ContentsFew
  <2>4. ASSUME NEW place, NEW p \in Places, NEW taken \in BOOLEAN, Drive(c, place, <<Occupancy(p, taken)>>)
        PROVE  \E x, ms : Publishes(x, ms)
    <3> DEFINE n == Occupancy(p, taken)
    <3>1. MessageOK(n) /\ n.kind = "occupancy"
      BY MessagesOK DEF Occupancy
    <3>2. Drive(c, place, <<n>>)
      BY <2>4
    <3> HIDE DEF n
    <3>3. InboxOK(<<n>>) /\ \A m \in Contents(<<n>>) : m.kind # "problem"
      BY <3>1, InboxFew, ContentsFew
    <3> QED
      BY <3>2, <3>3
  <2>5. CASE DriveIn(c)
    <3>1. ticket[c] \in Places
      BY <2>5 DEF DriveIn, IInv, WorldOK, Places
    <3>2. Drive(c, ticket[c], <<Occupancy(ticket[c], TRUE)>>)
      BY <2>5 DEF DriveIn
    <3> QED
      BY <2>4, <3>1, <3>2
  <2>6. ASSUME orders[c] # <<>> PROVE Head(orders[c]) \in Storage!Moves
    BY <2>6, HeadTailProperties DEF IInv, WorldOK
  <2>7. CASE Lift(c)
    <3>1. where[c] \in Places
      BY <2>6, <2>7 DEF Lift, Storage!Moves, Places
    <3>2. Drive(c, "carried", <<Occupancy(where[c], FALSE)>>)
      BY <2>7 DEF Lift
    <3> QED
      BY <2>4, <3>1, <3>2
  <2>8. CASE Put(c)
    <3>1. orders[c] # <<>>
      BY <2>8 DEF Put, IInv, WorldOK
    <3>2. Head(orders[c]).to \in Places
      BY <2>6, <3>1 DEF Storage!Moves, Places
    <3>3. Drive(c, Head(orders[c]).to, <<Occupancy(Head(orders[c]).to, TRUE)>>)
      BY <2>8 DEF Put
    <3> QED
      BY <2>4, <3>2, <3>3
  <2>9. CASE DriveOut(c)
    <3>1. where[c] \in Places
      BY <2>9 DEF DriveOut, Places
    <3>2. Drive(c, "exit", <<Occupancy(where[c], FALSE)>>)
      BY <2>9 DEF DriveOut
    <3> QED
      BY <2>4, <3>1, <3>2
  <2> QED
    BY <2>1, <2>2, <2>3, <2>5, <2>7, <2>8, <2>9 DEF Attended
<1> QED
  BY <1>1, <1>2, DriveNews

\* p is what the generator makes of some consistent record.
FromRecord(p) ==
    \E cs, ms, pairs, occ : /\ \A c \in Cards : Store!Good(cs[c], ms[c])
                            /\ Ranked(pairs)
                            /\ p = Generator!Generate(cs, pairs, occ)

ProblemsOK == \A m \in Contents(laptop) : m.kind = "problem" => FromRecord(m.problem)

Kept == Storage!TypeOK /\ Storage!RecordConsistent /\ Storage!CheckoutActedOn

\* A problem generated now would be.
RecordServes == FromRecord(Generator!Generate(customers, older, occupied))

LEMMA NewFromRecord == ASSUME IInv, Kept PROVE RecordServes
<1>1. Store!TypeOK /\ Store!RecordConsistent /\ Store!CheckoutActedOn
  BY SameProperties DEF Kept
<1>2. \A c \in Cards : Store!Good(customers[c], pending_moves[c])
  BY <1>1 DEF Store!TypeOK, Store!RecordConsistent, Store!CheckoutActedOn, Store!Good
<1>3. Ranked(older)
  BY DEF IInv, StoreOK
<1> QED
  BY <1>2, <1>3 DEF FromRecord, RecordServes

LEMMA ProblemsStep == ASSUME IInv, RecordServes', ProblemsOK, [Next]_vars PROVE ProblemsOK'
<1>1. NewProblem.problem = Generator!Generate(customers', older', occupied')
  BY DEF NewProblem, Problem
<1>2. FromRecord(NewProblem.problem)
  BY <1>1 DEF RecordServes
<1>3. \A m \in Contents(laptop') : m \in Contents(laptop) \/ Harmless(m)
  <2>1. CASE Laptop
    BY <2>1, LaptopNews
  <2>2. CASE Dispatcher
    BY <2>2, DispatcherNews DEF Harmless
  <2>3. CASE \E c \in Cards : Attended(c) \/ CheckOut(c) \/ \E h \in 0..MaxHours : Arrive(c, h)
    BY <2>3, WorldNews DEF Harmless
  <2>4. CASE UNCHANGED vars
    BY <2>4 DEF vars
  <2> QED
    BY <2>1, <2>2, <2>3, <2>4 DEF Next
<1>4. \A m \in Contents(laptop') : m.kind = "problem" => FromRecord(m.problem)
  BY <1>2, <1>3 DEF ProblemsOK, Harmless
<1> QED
  BY <1>4 DEF ProblemsOK


LEMMA ProblemsFromRecord == Spec => [](IInv /\ ProblemsOK)
<1>1. Init => ProblemsOK
  BY ContentsFew DEF Init, ProblemsOK
<1>2. IInv /\ RecordServes' /\ ProblemsOK /\ [Next]_vars => ProblemsOK'
  BY ProblemsStep
<1>3. IInv /\ Kept => RecordServes
  BY NewFromRecord
<1>4. Spec => []Kept
  BY StoreKeepsPromises, PTL DEF Kept
<1> QED
  BY <1>1, <1>2, <1>3, <1>4, InductiveInvariant, PTL DEF Spec

-----------------------------------------------------------------------------
(* What a problem says of the car it is about.                             *)

\* A fact says something of a free place, or what the record of its car says.
LEMMA FactsSay ==
    ASSUME NEW cs, NEW occ, NEW f \in Generator!Facts(cs, occ)
    PROVE  /\ f[1] \notin {"entry-authorized", "assignment-shown", "exit-authorized"}
           /\ f[1] = "at" => f[3] = cs[f[2]].location /\ f[3] \in Spots
           /\ f[1] = "in-buffer" => f[3] = cs[f[2]].location /\ f[3] \in Buffers
           /\ f[1] = "assigned" => f[3] = cs[f[2]].spot /\ f[3] # None
           /\ f[1] = "ready-for-pickup" =>
                  f[3] = cs[f[2]].buffer /\ cs[f[2]].status \in {"ready_for_pickup", "exit_authorized"}
<1> DEFINE Says(g) == /\ g \notin {"entry-authorized", "assignment-shown", "exit-authorized"}
                      /\ g = "at" => f[3] = cs[f[2]].location /\ f[3] \in Spots
                      /\ g = "in-buffer" => f[3] = cs[f[2]].location /\ f[3] \in Buffers
                      /\ g = "assigned" => f[3] = cs[f[2]].spot /\ f[3] # None
                      /\ g = "ready-for-pickup" =>
                             f[3] = cs[f[2]].buffer /\ cs[f[2]].status \in {"ready_for_pickup", "exit_authorized"}
<1>1. CASE \E s : f = <<"free-spot", s>>
  BY <1>1
<1>2. CASE \E b : f = <<"free-buffer", b>>
  BY <1>2
<1>3. ASSUME NEW c \in Cards, f \in Generator!CarFacts(c, cs[c]) PROVE Says(f[1])
  <2> DEFINE k == cs[c]
  <2>1. \/ f \in { <<"outside", c>>, <<"arrival-requested", c>>, <<"pickup-requested", c>> }
        \/ f = <<"at", c, k.location>> /\ k.location \in Generator!Elements(SpotOrder)
        \/ f = <<"in-buffer", c, k.location>> /\ k.location \in Generator!Elements(BufferOrder)
        \/ f = <<"assigned", c, k.spot>> /\ k.spot # None
        \/ f = <<"ready-for-pickup", c, k.buffer>> /\ k.status \in {"ready_for_pickup", "exit_authorized"}
    BY <1>3 DEF Generator!CarFacts
  <2>2. Generator!Elements(SpotOrder) = Spots /\ Generator!Elements(BufferOrder) = Buffers
    BY DEF Generator!Elements, Elements, Spots, Buffers
  <2>3. CASE f \in { <<"outside", c>>, <<"arrival-requested", c>>, <<"pickup-requested", c>> }
    BY <2>3
  <2>4. CASE f = <<"at", c, k.location>> /\ k.location \in Generator!Elements(SpotOrder)
    BY <2>2, <2>4
  <2>5. CASE f = <<"in-buffer", c, k.location>> /\ k.location \in Generator!Elements(BufferOrder)
    BY <2>2, <2>5
  <2>6. CASE f = <<"assigned", c, k.spot>> /\ k.spot # None
    BY <2>6
  <2>7. CASE f = <<"ready-for-pickup", c, k.buffer>> /\ k.status \in {"ready_for_pickup", "exit_authorized"}
    BY <2>7
  <2> QED
    BY <2>1, <2>3, <2>4, <2>5, <2>6, <2>7
<1> QED
  BY <1>1, <1>2, <1>3 DEF Generator!Facts

\* What is known of the car is among the facts.
LEMMA CarFactsThere ==
    ASSUME NEW cs, NEW occ, NEW c \in Cards
    PROVE  Generator!CarFacts(c, cs[c]) \subseteq Generator!Facts(cs, occ)
BY DEF Generator!Facts

LEMMA OutsideThere ==
    ASSUME NEW cs, NEW occ, NEW c \in Cards, cs[c].location = "OUTSIDE"
    PROVE  <<"outside", c>> \in Generator!Facts(cs, occ)
<1>1. <<"outside", c>> \in Generator!CarFacts(c, cs[c])
  BY DEF Generator!CarFacts
<1> QED
  BY <1>1, CarFactsThere

LEMMA ArrivalThere ==
    ASSUME NEW cs, NEW occ, NEW c \in Cards, cs[c].status = "arrival_requested"
    PROVE  <<"arrival-requested", c>> \in Generator!Facts(cs, occ)
<1>1. <<"arrival-requested", c>> \in Generator!CarFacts(c, cs[c])
  BY DEF Generator!CarFacts
<1> QED
  BY <1>1, CarFactsThere

LEMMA PickupThere ==
    ASSUME NEW cs, NEW occ, NEW c \in Cards, cs[c].checkout
    PROVE  <<"pickup-requested", c>> \in Generator!Facts(cs, occ)
<1>1. <<"pickup-requested", c>> \in Generator!CarFacts(c, cs[c])
  BY DEF Generator!CarFacts
<1> QED
  BY <1>1, CarFactsThere

LEMMA AssignedThere ==
    ASSUME NEW cs, NEW occ, NEW c \in Cards, cs[c].spot # None
    PROVE  <<"assigned", c, cs[c].spot>> \in Generator!Facts(cs, occ)
<1>1. <<"assigned", c, cs[c].spot>> \in Generator!CarFacts(c, cs[c])
  BY DEF Generator!CarFacts
<1> QED
  BY <1>1, CarFactsThere

LEMMA ReadyThere ==
    ASSUME NEW cs, NEW occ, NEW c \in Cards, cs[c].buffer # None, cs[c].status = "ready_for_pickup"
    PROVE  <<"ready-for-pickup", c, cs[c].buffer>> \in Generator!Facts(cs, occ)
<1>1. <<"ready-for-pickup", c, cs[c].buffer>> \in Generator!CarFacts(c, cs[c])
  BY DEF Generator!CarFacts
<1> QED
  BY <1>1, CarFactsThere

LEMMA InBufferThere ==
    ASSUME NEW cs, NEW occ, NEW c \in Cards, cs[c].location \in Buffers, cs[c].status = "in_buffer"
    PROVE  <<"in-buffer", c, cs[c].location>> \in Generator!Facts(cs, occ)
<1>0. Generator!Elements(BufferOrder) = Buffers
  BY DEF Generator!Elements, Elements, Buffers
<1>1. <<"in-buffer", c, cs[c].location>> \in Generator!CarFacts(c, cs[c])
  BY <1>0 DEF Generator!CarFacts
<1> QED
  BY <1>1, CarFactsThere

\* The free places the planner is told of.
LEMMA FreeFacts ==
    ASSUME NEW cs, NEW occ
    PROVE  /\ \A s : <<"free-spot", s>> \in Generator!Facts(cs, occ) <=> s \in Generator!FreeSpots(cs, occ)
           /\ \A b : <<"free-buffer", b>> \in Generator!Facts(cs, occ) <=> b \in Generator!FreeBuffers(cs, occ)
           /\ Generator!FreeSpots(cs, occ) \subseteq Spots /\ Generator!FreeBuffers(cs, occ) \subseteq Buffers
<1> DEFINE F == Generator!Facts(cs, occ)
           S == Generator!FreeSpots(cs, occ)
           B == Generator!FreeBuffers(cs, occ)
<1>1. S \subseteq Spots /\ B \subseteq Buffers
  BY DEF Generator!FreeSpots, Generator!FreeBuffers, Generator!Elements, Elements, Spots, Buffers
<1>2. \A s \in S : <<"free-spot", s>> \in F
  BY DEF Generator!Facts
<1>3. \A b \in B : <<"free-buffer", b>> \in F
  BY DEF Generator!Facts
<1>4. ASSUME NEW f \in F, f[1] = "free-spot" PROVE f[2] \in S
  <2>1. \A c \in Cards : f \in Generator!CarFacts(c, cs[c]) => f[1] # "free-spot"
    <3>1. ASSUME NEW c \in Cards, f \in Generator!CarFacts(c, cs[c]) PROVE f[1] # "free-spot"
      <4>1. \/ f \in { <<"outside", c>>, <<"arrival-requested", c>>, <<"pickup-requested", c>> }
            \/ f \in { <<"at", c, cs[c].location>>, <<"in-buffer", c, cs[c].location>> }
            \/ f \in { <<"assigned", c, cs[c].spot>>, <<"ready-for-pickup", c, cs[c].buffer>> }
        BY <3>1 DEF Generator!CarFacts
      <4> QED
        BY <4>1
    <3> QED
      BY <3>1
  <2>2. \A b : f = <<"free-buffer", b>> => f[1] # "free-spot"
    OBVIOUS
  <2>3. PICK s \in S : f = <<"free-spot", s>>
    BY <1>4, <2>1, <2>2 DEF Generator!Facts
  <2> QED
    BY <2>3
<1>5. ASSUME NEW f \in F, f[1] = "free-buffer" PROVE f[2] \in B
  <2>1. \A c \in Cards : f \in Generator!CarFacts(c, cs[c]) => f[1] # "free-buffer"
    <3>1. ASSUME NEW c \in Cards, f \in Generator!CarFacts(c, cs[c]) PROVE f[1] # "free-buffer"
      <4>1. \/ f \in { <<"outside", c>>, <<"arrival-requested", c>>, <<"pickup-requested", c>> }
            \/ f \in { <<"at", c, cs[c].location>>, <<"in-buffer", c, cs[c].location>> }
            \/ f \in { <<"assigned", c, cs[c].spot>>, <<"ready-for-pickup", c, cs[c].buffer>> }
        BY <3>1 DEF Generator!CarFacts
      <4> QED
        BY <4>1
    <3> QED
      BY <3>1
  <2>2. \A s : f = <<"free-spot", s>> => f[1] # "free-buffer"
    OBVIOUS
  <2>3. PICK b \in B : f = <<"free-buffer", b>>
    BY <1>5, <2>1, <2>2 DEF Generator!Facts
  <2> QED
    BY <2>3
<1> HIDE DEF F, S, B
<1>6. \A s : <<"free-spot", s>> \in F => s \in S
  <2>1. ASSUME NEW s, <<"free-spot", s>> \in F PROVE s \in S
    <3> DEFINE f == <<"free-spot", s>>
    <3>1. f \in F /\ f[1] = "free-spot" /\ f[2] = s
      BY <2>1
    <3> HIDE DEF f
    <3> QED
      BY <1>4, <3>1
  <2> QED
    BY <2>1
<1>7. \A b : <<"free-buffer", b>> \in F => b \in B
  <2>1. ASSUME NEW b, <<"free-buffer", b>> \in F PROVE b \in B
    <3> DEFINE f == <<"free-buffer", b>>
    <3>1. f \in F /\ f[1] = "free-buffer" /\ f[2] = b
      BY <2>1
    <3> HIDE DEF f
    <3> QED
      BY <1>5, <3>1
  <2> QED
    BY <2>1
<1> QED
  BY <1>1, <1>2, <1>3, <1>6, <1>7 DEF F, S, B


\* The bay and the spot the goal names are free if any is.
LEMMA PreferredBufferFree ==
    ASSUME NEW free \in SUBSET Buffers, free # {}
    PROVE  Generator!PreferredBuffer(free) \in free
<1> DEFINE q == BufferOrder
           T == {i \in Nat : i \in DOMAIN q /\ q[i] \in free}
           First(i) == q[i] \in free /\ \A j \in 1..(i - 1) : q[j] \notin free
<1>1. q \in Seq(Buffers) /\ DOMAIN q = 1..Len(q) /\ Len(q) \in Nat
  BY ListsOK
<1>2. T \in SUBSET Nat /\ T # {}
  BY <1>1 DEF Buffers, Elements
<1>3. PICK i \in T : \A j \in T : i <= j
  <2> HIDE DEF T
  <2> QED
    BY <1>2, ListsOK, Plan!Least
<1>4. i \in DOMAIN q /\ First(i)
  <2>1. \A j \in 1..(i - 1) : j \in DOMAIN q /\ j \in Nat /\ ~(i <= j)
    BY <1>1
  <2> QED
    BY <1>3, <2>1
<1>5. Generator!PreferredBuffer(free) = q[CHOOSE j \in DOMAIN q : First(j)]
  BY DEF Generator!PreferredBuffer
<1> HIDE DEF q, First
<1>6. \E j \in DOMAIN q : First(j)
  BY <1>4
<1>7. First(CHOOSE j \in DOMAIN q : First(j))
  BY <1>6
<1> QED
  BY <1>5, <1>7 DEF First

LEMMA PreferredSpotFree ==
    ASSUME NEW free \in SUBSET Spots, free # {}, NEW k, k.hours \in Nat
    PROVE  Generator!PreferredSpot(k, free) \in free
<1> DEFINE q == SpotOrder
           L == Len(q)
           Before(i) == {j \in 1..(i - 1) : q[j] \in free}
           Near(i) == q[i] \in free /\ Generator!Cardinality(Before(i)) <= k.hours
           Last(i) == Near(i) /\ \A j \in (i + 1)..L : ~Near(j)
           T == {i \in Nat : i \in 1..L /\ q[i] \in free}
           U == {n \in Nat : n \in 0..L /\ L - n \in 1..L /\ Near(L - n)}
<1>1. q \in Seq(Spots) /\ DOMAIN q = 1..L /\ L \in Nat
  BY ListsOK
<1>2. T \in SUBSET Nat /\ T # {}
  BY <1>1 DEF Spots, Elements
<1>3. PICK i \in T : \A j \in T : i <= j
  <2> HIDE DEF T
  <2> QED
    BY <1>2, ListsOK, Plan!Least
<1>4. i \in 1..L /\ Near(i)
  <2>1. \A j \in 1..(i - 1) : j \in 1..L /\ j \in Nat /\ ~(i <= j)
    BY <1>1
  <2>2. Before(i) = {}
    BY <1>3, <2>1
  <2>3. Generator!Cardinality({}) = 0
    <3>1. \A S : Generator!Cardinality(S) = Cardinality(S)
      BY DEF Generator!Cardinality, Cardinality
    <3> QED
      BY <3>1, FS_EmptySet
  <2> HIDE DEF Before
  <2>4. Generator!Cardinality(Before(i)) <= k.hours
    BY <2>2, <2>3
  <2> QED
    BY <1>3, <2>4
<1>5. U \in SUBSET Nat /\ U # {}
  <2>1. L - i \in 0..L /\ L - (L - i) = i /\ L - i \in Nat
    BY <1>1, <1>4
  <2> HIDE DEF Near, L
  <2>2. L - i \in U
    BY <1>4, <2>1
  <2> QED
    BY <2>2
<1>6. PICK n \in U : \A m \in U : n <= m
  <2> HIDE DEF U
  <2> QED
    BY <1>5, ListsOK, Plan!Least
<1>7. L - n \in 1..L /\ Last(L - n)
  <2> HIDE DEF Near, L
  <2>1. ASSUME NEW j \in ((L - n) + 1)..L, Near(j) PROVE FALSE
    <3>1. L - j \in Nat /\ L - j \in 0..L /\ L - (L - j) = j /\ j \in 1..L /\ L - j < n
      BY <1>1
    <3>2. L - j \in U
      BY <2>1, <3>1
    <3> QED
      BY <1>1, <1>6, <3>1, <3>2
  <2> QED
    BY <1>6, <2>1
<1>8. Generator!PreferredSpot(k, free) = q[CHOOSE j \in DOMAIN q : Last(j)]
  BY DEF Generator!PreferredSpot
<1>9. \A j : Last(j) => q[j] \in free
  OBVIOUS
<1> HIDE DEF q, Last, L
<1>10. \E j \in DOMAIN q : Last(j)
  BY <1>1, <1>7
<1>11. Last(CHOOSE j \in DOMAIN q : Last(j))
  BY <1>10
<1> QED
  BY <1>8, <1>9, <1>11

-----------------------------------------------------------------------------
(* Plans do what was asked for and nothing else.                           *)

\* A request that can be served, and for which the planner may visit all that is short of the
\* goal and three actions away: it is answered.
RequestAnswered ==
    Received("problem") /\ Servable(Message.problem) /\ Plan!BoundsSuffice =>
        Planner!Solve(Message.problem.init, Message.problem.goal).solved

\* Whose request a problem is, and what its record says.
LEMMA RequestIs ==
    ASSUME NEW p, FromRecord(p), Servable(p)
    PROVE  \E cs, ms, occ :
               LET c == p.request
                   k == cs[c]
               IN  /\ c \in Cards /\ Store!Good(k, ms[c])
                   /\ p.init = Generator!Facts(cs, occ) /\ p.goal = {Generator!Goal(c, cs, occ)}
                   /\ p.purpose = Generator!Purpose(k)
                   /\ \/ k.status \in {"ready_for_pickup", "in_buffer", "arrival_requested"}
                      \/ k.status \in {"pickup_requested", "parked"} /\ k.checkout
<1>1. PICK cs, ms, pairs, occ : /\ \A c \in Cards : Store!Good(cs[c], ms[c])
                                /\ Ranked(pairs)
                                /\ p = Generator!Generate(cs, pairs, occ)
  BY DEF FromRecord
<1> DEFINE c == Generator!Target(cs, pairs)
<1>2. ~Generator!NoRequest(cs)
  BY <1>1 DEF Servable, Generator!Generate
<1>3. /\ p.request = c /\ p.purpose = Generator!Purpose(cs[c])
      /\ p.init = Generator!Facts(cs, occ) /\ p.goal = {Generator!Goal(c, cs, occ)}
  BY <1>1, <1>2 DEF Generator!Generate
<1>4. c \in Cards /\ \E n \in 1..4 : c \in Generator!Waiting(cs)[n]
  BY <1>1, <1>2, TargetIsCard, TargetWaits
<1> HIDE DEF c
<1>5. \/ cs[c].status \in {"ready_for_pickup", "in_buffer", "arrival_requested"}
      \/ cs[c].status \in {"pickup_requested", "parked"} /\ cs[c].checkout
  <2>1. PICK n \in 1..4 : c \in Generator!Waiting(cs)[n]
    BY <1>4
  <2>2. n = 1 \/ n = 2 \/ n = 3 \/ n = 4
    OBVIOUS
  <2> QED
    BY <2>1, <2>2 DEF Generator!Waiting, Generator!With
<1> QED
  BY <1>1, <1>3, <1>4, <1>5


LEMMA ExitServed ==
    ASSUME FromRecord(Message.problem), Message.problem.purpose = "exit"
    PROVE  LET p == Message.problem
               answer == Plan!Answer
           IN  /\ answer.solved => Direct(p, answer.plan)
               /\ Plan!BoundsSuffice => answer.solved
<1> DEFINE p == Message.problem
           c == p.request
<1>1. PICK cs, ms, occ :
          /\ c \in Cards /\ Store!Good(cs[c], ms[c])
          /\ p.init = Generator!Facts(cs, occ) /\ p.goal = {Generator!Goal(c, cs, occ)}
          /\ p.purpose = Generator!Purpose(cs[c])
          /\ \/ cs[c].status \in {"ready_for_pickup", "in_buffer", "arrival_requested"}
             \/ cs[c].status \in {"pickup_requested", "parked"} /\ cs[c].checkout
  BY RequestIs DEF Servable
<1> DEFINE b == cs[c].buffer
<1>2. cs[c].status = "ready_for_pickup" /\ b \in Buffers /\ b # None
  <2>1. cs[c].status = "ready_for_pickup"
    BY <1>1 DEF Generator!Purpose, Store!Good, Store!Requested
  <2>2. b # None /\ b \in Buffers \cup {None}
    BY <1>1, <2>1 DEF Store!Good, Store!AtRest, Store!Customer
  <2> QED
    BY <2>1, <2>2
<1>3. p.goal = { <<"exit-authorized", c, b>> }
  BY <1>1 DEF Generator!Goal
<1>4. <<"ready-for-pickup", c, b>> \in p.init
  <2>1. c \in Cards /\ cs[c].buffer # None /\ cs[c].status = "ready_for_pickup"
    BY <1>1, <1>2
  <2>2. <<"ready-for-pickup", c, cs[c].buffer>> \in Generator!Facts(cs, occ)
    BY <2>1, ReadyThere
  <2> QED
    BY <1>1, <2>2
<1>5. <<"exit-authorized", c, b>> \notin p.init
  <2> DEFINE f == <<"exit-authorized", c, b>>
  <2>1. f[1] = "exit-authorized"
    OBVIOUS
  <2> HIDE DEF f
  <2>2. f \notin Generator!Facts(cs, occ)
    BY <2>1, FactsSay
  <2> QED
    BY <1>1, <2>2 DEF f
<1>6. c \in Plan!Cars /\ b \in Plan!Buffers
  BY <1>1, <1>2 DEF Plan!Cars, Plan!Buffers, Cards, Buffers, Elements
<1> HIDE DEF b
<1>7. /\ Plan!Answer.solved => Plan!Answer.plan = << Plan!StepOf(Plan!OpenExit(c, b)) >>
      /\ Plan!BoundsSuffice => Plan!Answer.solved
  BY <1>3, <1>4, <1>5, <1>6, ListsOK, Plan!DirectExit
<1>8. Plan!StepOf(Plan!OpenExit(c, b)) = Instruct("open-exit", <<c, b>>)
  BY DEF Plan!StepOf, Plan!OpenExit, Instruct
<1>9. b \in Buffers
  BY <1>2 DEF b
<1> QED
  BY <1>4, <1>7, <1>8, <1>9 DEF Direct


LEMMA ParkServed ==
    ASSUME FromRecord(Message.problem), Message.problem.purpose = "park"
    PROVE  LET p == Message.problem
               answer == Plan!Answer
           IN  /\ answer.solved => Direct(p, answer.plan)
               /\ Plan!BoundsSuffice => answer.solved
<1> DEFINE p == Message.problem
           c == p.request
<1>1. PICK cs, ms, occ :
          /\ c \in Cards /\ Store!Good(cs[c], ms[c])
          /\ p.init = Generator!Facts(cs, occ) /\ p.goal = {Generator!Goal(c, cs, occ)}
          /\ p.purpose = Generator!Purpose(cs[c])
          /\ \/ cs[c].status \in {"ready_for_pickup", "in_buffer", "arrival_requested"}
             \/ cs[c].status \in {"pickup_requested", "parked"} /\ cs[c].checkout
  BY RequestIs DEF Servable
<1> DEFINE b == cs[c].buffer
           s == cs[c].spot
<1>2. cs[c].status = "in_buffer" /\ b \in Buffers /\ s \in Spots /\ s # None /\ cs[c].location = b
  <2>1. cs[c].status = "in_buffer"
    BY <1>1 DEF Generator!Purpose
  <2>2. b # None /\ b \in Buffers \cup {None} /\ s # None /\ s \in Spots \cup {None} /\ cs[c].location = b
    BY <1>1, <2>1 DEF Store!Good, Store!AtRest, Store!Customer
  <2> QED
    BY <2>1, <2>2
<1>3. p.goal = { <<"at", c, s>> }
  BY <1>1 DEF Generator!Goal
<1>4. <<"in-buffer", c, b>> \in p.init /\ <<"assigned", c, s>> \in p.init
  <2>1. <<"assigned", c, cs[c].spot>> \in Generator!Facts(cs, occ)
    BY <1>1, <1>2, AssignedThere
  <2>2. cs[c].location \in Buffers /\ cs[c].location = b
    BY <1>2
  <2>3. <<"in-buffer", c, cs[c].location>> \in Generator!Facts(cs, occ)
    BY <1>1, <1>2, <2>2, InBufferThere
  <2>4. <<"in-buffer", c, b>> \in p.init
    BY <1>1, <2>2, <2>3
  <2> QED
    BY <1>1, <2>1, <2>4
<1>5. <<"at", c, s>> \notin p.init
  <2> DEFINE f == <<"at", c, s>>
  <2>1. f[1] = "at" /\ f[2] = c /\ f[3] = s
    OBVIOUS
  <2> HIDE DEF f
  <2>2. f \in Generator!Facts(cs, occ) => s = cs[c].location
    BY <2>1, FactsSay
  <2>3. s # b
    BY <1>2, LotAssumption
  <2> QED
    BY <1>1, <1>2, <2>2, <2>3 DEF f
<1>6. \A d \in Buffers : <<"in-buffer", c, d>> \in p.init => d = b
  <2>1. ASSUME NEW d \in Buffers, <<"in-buffer", c, d>> \in p.init PROVE d = b
    <3> DEFINE f == <<"in-buffer", c, d>>
    <3>1. f[1] = "in-buffer" /\ f[2] = c /\ f[3] = d /\ f \in Generator!Facts(cs, occ)
      BY <1>1, <2>1
    <3> HIDE DEF f
    <3>2. d = cs[c].location
      BY <3>1, FactsSay
    <3> QED
      BY <1>2, <3>2
  <2> QED
    BY <2>1
<1>7. c \in Plan!Cars /\ b \in Plan!Buffers /\ s \in Plan!Spots /\ Plan!Buffers = Buffers
  BY <1>1, <1>2 DEF Plan!Cars, Plan!Buffers, Plan!Spots, Cards, Buffers, Spots, Elements
<1>8. b \in Buffers /\ s \in Spots
  BY <1>2
<1> HIDE DEF b, s
<1>9. /\ Plan!Answer.solved => Plan!Answer.plan = << Plan!StepOf(Plan!Park(c, b, s)) >>
      /\ Plan!BoundsSuffice => Plan!Answer.solved
  BY <1>3, <1>4, <1>5, <1>6, <1>7, ListsOK, Plan!DirectPark
<1>10. Plan!StepOf(Plan!Park(c, b, s)) = Instruct("park", <<c, b, s>>)
  BY DEF Plan!StepOf, Plan!Park, Instruct
<1> QED
  BY <1>4, <1>8, <1>9, <1>10 DEF Direct

LEMMA RetrieveServed ==
    ASSUME FromRecord(Message.problem), Servable(Message.problem), Message.problem.purpose = "retrieve"
    PROVE  LET p == Message.problem
               answer == Plan!Answer
           IN  /\ answer.solved => Direct(p, answer.plan)
               /\ Plan!BoundsSuffice => answer.solved
<1> DEFINE p == Message.problem
           c == p.request
<1>1. PICK cs, ms, occ :
          /\ c \in Cards /\ Store!Good(cs[c], ms[c])
          /\ p.init = Generator!Facts(cs, occ) /\ p.goal = {Generator!Goal(c, cs, occ)}
          /\ p.purpose = Generator!Purpose(cs[c])
          /\ \/ cs[c].status \in {"ready_for_pickup", "in_buffer", "arrival_requested"}
             \/ cs[c].status \in {"pickup_requested", "parked"} /\ cs[c].checkout
  BY RequestIs
<1> DEFINE free == Generator!FreeBuffers(cs, occ)
           b == Generator!PreferredBuffer(free)
<1>2. PICK s \in Spots : <<"at", c, s>> \in p.init
  BY DEF Servable
<1>3. cs[c].status \in {"pickup_requested", "parked"} /\ cs[c].checkout
  BY <1>1 DEF Generator!Purpose
<1>4. free \subseteq Buffers /\ b \in free /\ <<"free-buffer", b>> \in p.init
  <2>1. PICK d \in Buffers : <<"free-buffer", d>> \in p.init
    BY DEF Servable
  <2>2. d \in free /\ free \subseteq Buffers
    BY <1>1, <2>1, FreeFacts
  <2>3. b \in free
    <3> HIDE DEF free
    <3> QED
      BY <2>2, PreferredBufferFree
  <2> QED
    BY <1>1, <2>2, <2>3, FreeFacts
<1>5. p.goal = { <<"ready-for-pickup", c, b>> }
  BY <1>1 DEF Generator!Goal
<1>6. <<"pickup-requested", c>> \in p.init
  BY <1>1, <1>3, PickupThere
<1> HIDE DEF free, b
<1>7. <<"ready-for-pickup", c, b>> \notin p.init
  <2> DEFINE f == <<"ready-for-pickup", c, b>>
  <2>1. f[1] = "ready-for-pickup" /\ f[2] = c
    OBVIOUS
  <2> HIDE DEF f
  <2>2. f \in Generator!Facts(cs, occ) => cs[c].status \in {"ready_for_pickup", "exit_authorized"}
    BY <2>1, FactsSay
  <2> QED
    BY <1>1, <1>3, <2>2 DEF f
<1>8. \A t \in Spots : <<"at", c, t>> \in p.init => t = s
  <2>1. ASSUME NEW t \in Spots, <<"at", c, t>> \in p.init PROVE t = cs[c].location
    <3> DEFINE f == <<"at", c, t>>
    <3>1. f[1] = "at" /\ f[2] = c /\ f[3] = t /\ f \in Generator!Facts(cs, occ)
      BY <1>1, <2>1
    <3> HIDE DEF f
    <3> QED
      BY <3>1, FactsSay
  <2> QED
    BY <1>2, <2>1
<1>9. c \in Plan!Cars /\ b \in Plan!Buffers /\ s \in Plan!Spots /\ Plan!Spots = Spots
  BY <1>1, <1>4 DEF Plan!Cars, Plan!Buffers, Plan!Spots, Cards, Buffers, Spots, Elements
<1>10. /\ Plan!Answer.solved => Plan!Answer.plan = << Plan!StepOf(Plan!Retrieve(c, s, b)) >>
       /\ Plan!BoundsSuffice => Plan!Answer.solved
  <2>1. \A t \in Plan!Spots : <<"at", c, t>> \in p.init => t = s
    BY <1>8, <1>9
  <2>2. c \in Plan!Cars /\ b \in Plan!Buffers /\ s \in Plan!Spots
    BY <1>9
  <2>3. <<"at", c, s>> \in p.init /\ <<"free-buffer", b>> \in p.init
    BY <1>2, <1>4
  <2> QED
    BY <1>5, <1>6, <1>7, <2>1, <2>2, <2>3, ListsOK, Plan!DirectRetrieve
<1>11. Plan!StepOf(Plan!Retrieve(c, s, b)) = Instruct("retrieve", <<c, s, b>>)
  BY DEF Plan!StepOf, Plan!Retrieve, Instruct
<1>12. b \in Buffers
  BY <1>4
<1> QED
  BY <1>2, <1>4, <1>10, <1>11, <1>12 DEF Direct

LEMMA ArrivalServed ==
    ASSUME FromRecord(Message.problem), Servable(Message.problem), Message.problem.purpose = "arrival"
    PROVE  LET p == Message.problem
               answer == Plan!Answer
           IN  /\ answer.solved => Direct(p, answer.plan)
               /\ Plan!BoundsSuffice => answer.solved
<1> DEFINE p == Message.problem
           c == p.request
<1>1. PICK cs, ms, occ :
          /\ c \in Cards /\ Store!Good(cs[c], ms[c])
          /\ p.init = Generator!Facts(cs, occ) /\ p.goal = {Generator!Goal(c, cs, occ)}
          /\ p.purpose = Generator!Purpose(cs[c])
          /\ \/ cs[c].status \in {"ready_for_pickup", "in_buffer", "arrival_requested"}
             \/ cs[c].status \in {"pickup_requested", "parked"} /\ cs[c].checkout
  BY RequestIs
<1> DEFINE k == cs[c]
           free == Generator!FreeSpots(cs, occ)
           s == Generator!PreferredSpot(k, free)
<1>2. k.status = "arrival_requested"
  BY <1>1 DEF Generator!Purpose
<1>3. k.location = "OUTSIDE" /\ k.spot = None /\ k.hours \in Nat
  <2>1. k.hours \in 0..MaxHours
    BY <1>1 DEF Store!Good, Store!Customer, Store!Hours
  <2>2. k.location = "OUTSIDE" /\ k.spot = None
    BY <1>1, <1>2 DEF Store!Good, Store!AtRest, Store!OUTSIDE
  <2> QED
    BY <2>1, <2>2, LotAssumption
<1>4. free \subseteq Spots /\ s \in free /\ <<"free-spot", s>> \in p.init
  <2>1. PICK t \in Spots : <<"free-spot", t>> \in p.init
    BY DEF Servable
  <2>2. t \in free /\ free \subseteq Spots
    BY <1>1, <2>1, FreeFacts
  <2>3. s \in free
    <3> HIDE DEF free
    <3> QED
      BY <1>3, <2>2, PreferredSpotFree
  <2> QED
    BY <1>1, <2>2, <2>3, FreeFacts
<1>5. p.goal = { <<"assignment-shown", c, s>> }
  BY <1>1 DEF Generator!Goal
<1>6. <<"arrival-requested", c>> \in p.init /\ <<"outside", c>> \in p.init
  <2>1. <<"arrival-requested", c>> \in Generator!Facts(cs, occ)
    BY <1>1, <1>2, ArrivalThere
  <2>2. <<"outside", c>> \in Generator!Facts(cs, occ)
    BY <1>1, <1>3, OutsideThere
  <2> QED
    BY <1>1, <2>1, <2>2
<1> HIDE DEF free, s
<1>7. \A x : /\ <<"assigned", c, x>> \notin p.init /\ <<"entry-authorized", c, x>> \notin p.init
             /\ <<"assignment-shown", c, x>> \notin p.init
  <2>1. ASSUME NEW x, <<"assigned", c, x>> \in p.init PROVE FALSE
    <3> DEFINE f == <<"assigned", c, x>>
    <3>1. f[1] = "assigned" /\ f[2] = c /\ f[3] = x /\ f \in Generator!Facts(cs, occ)
      BY <1>1, <2>1
    <3> HIDE DEF f
    <3> QED
      BY <1>3, <3>1, FactsSay
  <2>2. ASSUME NEW x, <<"entry-authorized", c, x>> \in p.init PROVE FALSE
    <3> DEFINE f == <<"entry-authorized", c, x>>
    <3>1. f[1] = "entry-authorized" /\ f \in Generator!Facts(cs, occ)
      BY <1>1, <2>2
    <3> HIDE DEF f
    <3> QED
      BY <3>1, FactsSay
  <2>3. ASSUME NEW x, <<"assignment-shown", c, x>> \in p.init PROVE FALSE
    <3> DEFINE f == <<"assignment-shown", c, x>>
    <3>1. f[1] = "assignment-shown" /\ f \in Generator!Facts(cs, occ)
      BY <1>1, <2>3
    <3> HIDE DEF f
    <3> QED
      BY <3>1, FactsSay
  <2> QED
    BY <2>1, <2>2, <2>3
<1>8. c \in Plan!Cars /\ s \in Plan!Spots /\ Plan!Buffers = Buffers
  BY <1>1, <1>4 DEF Plan!Cars, Plan!Spots, Plan!Buffers, Cards, Spots, Buffers, Elements
<1>9. \E b \in Plan!Buffers : <<"free-buffer", b>> \in p.init
  BY <1>8 DEF Servable
<1>10. { <<"arrival-requested", c>>, <<"outside", c>>, <<"free-spot", s>> } \subseteq p.init
  BY <1>4, <1>6
<1>11. /\ Plan!Answer.solved =>
              \E b \in Plan!Buffers :
                  /\ <<"free-buffer", b>> \in p.init
                  /\ Plan!Answer.plan = << Plan!StepOf(Plan!Assign(c, s)), Plan!StepOf(Plan!OpenEntry(c, b, s)),
                                           Plan!StepOf(Plan!ShowAssignment(c, s, b)) >>
       /\ Plan!BoundsSuffice => Plan!Answer.solved
  BY <1>5, <1>7, <1>8, <1>9, <1>10, ListsOK, Plan!DirectArrival
<1>12. s \in Spots
  BY <1>4
<1>13. ASSUME Plan!Answer.solved PROVE Direct(p, Plan!Answer.plan)
  <2>1. PICK b \in Buffers :
            /\ <<"free-buffer", b>> \in p.init
            /\ Plan!Answer.plan = << Plan!StepOf(Plan!Assign(c, s)), Plan!StepOf(Plan!OpenEntry(c, b, s)),
                                     Plan!StepOf(Plan!ShowAssignment(c, s, b)) >>
    BY <1>8, <1>11, <1>13
  <2>2. /\ Plan!StepOf(Plan!Assign(c, s)) = Instruct("assign", <<c, s>>)
        /\ Plan!StepOf(Plan!OpenEntry(c, b, s)) = Instruct("open-entry", <<c, b, s>>)
        /\ Plan!StepOf(Plan!ShowAssignment(c, s, b)) = Instruct("show-assignment", <<c, s, b>>)
    BY DEF Plan!StepOf, Plan!Assign, Plan!OpenEntry, Plan!ShowAssignment, Instruct
  <2> QED
    BY <1>4, <1>12, <2>1, <2>2 DEF Direct
<1> QED
  BY <1>11, <1>13

\* What the request of a received problem comes to.
LEMMA Served ==
    ASSUME IInv, ProblemsOK, Received("problem"), Servable(Message.problem)
    PROVE  LET answer == Planner!Solve(Message.problem.init, Message.problem.goal)
           IN  /\ answer.solved => Direct(Message.problem, answer.plan)
               /\ Plan!BoundsSuffice => answer.solved
<1>1. FromRecord(Message.problem)
  BY ContentsTail DEF ProblemsOK, Received, Message, IInv
<1>2. Planner!Solve(Message.problem.init, Message.problem.goal) = Plan!Answer
  BY SamePlans DEF Plan!Answer
<1>3. Message.problem.purpose \in {"exit", "park", "retrieve", "arrival"}
  BY DEF Servable
<1> QED
  BY <1>1, <1>2, <1>3, ExitServed, ParkServed, RetrieveServed, ArrivalServed

\* Every problem the planner receives was generated (PddlProblemGenerator.generate) from a
\* consistent record, and the plan it is answered with (PlannerService) serves the request
\* alone: an exit is one open-exit at the car's bay, parking one move to the spot assigned to
\* it, a retrieval one move from its spot to a free bay, an arrival a free spot, a free bay,
\* the gate and the display, in this order.  No other car is moved, let in or let out.
THEOREM RequestsServedDirectly == Spec => []ServedDirectly
<1>1. IInv /\ ProblemsOK => ServedDirectly
  BY Served DEF ServedDirectly
<1> QED
  BY <1>1, ProblemsFromRecord, PTL

\* If the planner may visit the states that three actions lead to, no request that can be
\* served goes without a plan: PlannerService rejects an arrival only if the record its problem
\* was generated from had no free spot or no free bay.
THEOREM RequestsAnswered == Spec => []RequestAnswered
<1>1. IInv /\ ProblemsOK => RequestAnswered
  BY Served DEF RequestAnswered
<1> QED
  BY <1>1, ProblemsFromRecord, PTL

=============================================================================
