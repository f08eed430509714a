------------------------- MODULE ProblemGeneration -------------------------
(***************************************************************************)
(* parking/problem_generation: PddlProblemGenerator turns the state store  *)
(* into one planning problem, for the most urgent request in it.           *)
(*                                                                         *)
(* A problem is the set of facts that hold, the facts to be reached, whose *)
(* request it serves and why; the PDDL text that carries them through the  *)
(* broker is not modelled.  The operators take the store's contents as     *)
(* arguments: the generator runs after the store's own handler has changed *)
(* them.  cs is the customer table, older the order of their requests and  *)
(* occ the occupied places, as in module Storage.                          *)
(***************************************************************************)
EXTENDS Naturals, Sequences, FiniteSets

CONSTANTS Cards,        \* RFID cards, each with its vehicle
          SpotOrder,    \* parking spots, nearest to the entrance first
          BufferOrder,  \* hand-over bays, in configuration order
          None

Elements(q) == {q[i] : i \in DOMAIN q}

-----------------------------------------------------------------------------
(* _select_request                                                         *)

With(cs, statuses) == {c \in Cards : cs[c].status \in statuses}

\* The requests waiting, most urgent kind first: whoever blocks a bay comes before a queued
\* pickup, and a pickup before an arrival.
Waiting(cs) == << With(cs, {"ready_for_pickup"}),
                  With(cs, {"in_buffer"}),
                  {c \in With(cs, {"pickup_requested", "parked"}) : cs[c].checkout},
                  With(cs, {"arrival_requested"}) >>

NoRequest(cs) == \A n \in 1..4 : Waiting(cs)[n] = {}

\* The oldest request of the most urgent kind.
Target(cs, older) ==
    LET n == CHOOSE n \in 1..4 : Waiting(cs)[n] # {} /\ \A m \in 1..(n - 1) : Waiting(cs)[m] = {}
    IN  CHOOSE c \in Waiting(cs)[n] : \A d \in Waiting(cs)[n] : <<d, c>> \notin older

Purpose(k) == CASE k.status = "ready_for_pickup" -> "exit"
                [] k.status = "in_buffer" -> IF k.checkout THEN "exit" ELSE "park"
                [] k.status = "arrival_requested" -> "arrival"
                [] OTHER -> "retrieve"

-----------------------------------------------------------------------------
(* generate                                                                *)

ReservedSpots(cs) ==
    {cs[c].spot : c \in {d \in Cards : cs[d].status \notin {"parked", "exit_authorized"}}} \ {None}

\* Faulty variant: the bay a car is being brought to is not reserved.
HoldsBufferNotRetrieving == {"entry_authorized", "in_buffer", "ready_for_pickup", "exit_authorized"}

HoldsBuffer == {"entry_authorized", "in_buffer", "retrieving", "ready_for_pickup", "exit_authorized"}

ReservedBuffers(cs) == {cs[c].buffer : c \in With(cs, HoldsBuffer)} \ {None}

\* Faulty variant: the spots' sensors are not consulted.
FreeSpotsUnsensed(cs, occ) == Elements(SpotOrder) \ ReservedSpots(cs)

FreeSpots(cs, occ) == Elements(SpotOrder) \ (occ \cup ReservedSpots(cs))

FreeBuffers(cs, occ) == Elements(BufferOrder) \ (occ \cup ReservedBuffers(cs))

\* What the planner is told about one car.
CarFacts(c, k) ==
    LET let_go == k.status \in {"ready_for_pickup", "exit_authorized"}
    IN  {f \in { <<"outside", c>> } : k.location = "OUTSIDE"}
        \cup {f \in { <<"at", c, k.location>> } : k.location \in Elements(SpotOrder)}
        \cup {f \in { <<"in-buffer", c, k.location>> } :
                  k.location \in Elements(BufferOrder) /\ ~let_go}
        \cup {f \in { <<"arrival-requested", c>> } : k.status = "arrival_requested"}
        \cup {f \in { <<"pickup-requested", c>> } : k.checkout \/ k.status = "pickup_requested"}
        \cup {f \in { <<"assigned", c, k.spot>> } : k.spot # None}
        \cup {f \in { <<"ready-for-pickup", c, k.buffer>> } : let_go /\ k.buffer # None}

Facts(cs, occ) ==
    { <<"free-spot", s>> : s \in FreeSpots(cs, occ) }
    \cup { <<"free-buffer", b>> : b \in FreeBuffers(cs, occ) }
    \cup UNION {CarFacts(c, cs[c]) : c \in Cards}

\* Faulty variant: the nearest spot is asked for, free or not.
PreferredSpotNearest(k, free) == SpotOrder[1]

\* Each hour of expected stay moves the assignment one free spot farther away: it goes to the
\* last free spot with no more free ones before it than hours.
PreferredSpot(k, free) ==
    LET Near(i) == SpotOrder[i] \in free
                   /\ Cardinality({j \in 1..(i - 1) : SpotOrder[j] \in free}) <= k.hours
    IN  IF free = {} THEN SpotOrder[1]
        ELSE SpotOrder[CHOOSE i \in DOMAIN SpotOrder :
                           Near(i) /\ \A j \in (i + 1)..Len(SpotOrder) : ~Near(j)]

\* With nothing free the goal names the first bay, and reaching it is the planner's problem.
PreferredBuffer(free) ==
    IF free = {} THEN BufferOrder[1]
    ELSE BufferOrder[CHOOSE i \in DOMAIN BufferOrder :
                         BufferOrder[i] \in free /\ \A j \in 1..(i - 1) : BufferOrder[j] \notin free]

Goal(c, cs, occ) ==
    CASE Purpose(cs[c]) = "arrival"  -> <<"assignment-shown", c, PreferredSpot(cs[c], FreeSpots(cs, occ))>>
      [] Purpose(cs[c]) = "park"     -> <<"at", c, cs[c].spot>>
      [] Purpose(cs[c]) = "retrieve" -> <<"ready-for-pickup", c, PreferredBuffer(FreeBuffers(cs, occ))>>
      [] Purpose(cs[c]) = "exit"     -> <<"exit-authorized", c, cs[c].buffer>>

Generate(cs, older, occ) ==
    IF NoRequest(cs)
    THEN [request |-> None, purpose |-> "", init |-> Facts(cs, occ), goal |-> {}]
    ELSE LET c == Target(cs, older)
         IN  [request |-> c, purpose |-> Purpose(cs[c]),
              init |-> Facts(cs, occ), goal |-> {Goal(c, cs, occ)}]
=============================================================================
