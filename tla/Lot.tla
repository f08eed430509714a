-------------------------------- MODULE Lot --------------------------------
(***************************************************************************)
(* The whole loop of the car park: sensors report to the laptop, its store *)
(* is brought up to date, a planning problem is generated and solved, and  *)
(* the dispatcher on the Pi turns the plan into commands, to the store, to *)
(* the gate and to the people who move the cars.                           *)
(*                                                                         *)
(* Messages go through the MQTT broker, which hands every node the         *)
(* messages it subscribed to in the order the broker received them: a node *)
(* has one inbox.  The laptop's holds the messages for storage, problem    *)
(* generation and planning, in that order of subscription; the Pi's holds  *)
(* the actions of the plans not yet dispatched.                            *)
(*                                                                         *)
(* The cars, their drivers and the valets are the environment.  They act   *)
(* as the guided demo and the hardware set-up let them: a card is scanned  *)
(* at the gate, a car moves only when told to, a place holds one car.      *)
(***************************************************************************)
EXTENDS Naturals, Sequences, FiniteSets

CONSTANTS CarOrder,     \* the cards, each with its vehicle, in the order of vehicle ids
          SpotOrder,    \* parking spots, nearest to the entrance first
          BufferOrder,  \* hand-over bays
          DefaultBuffer,\* the bay of an assignment that does not name one: dispatcher.py's "B1"
          None,
          MaxHours,     \* bound: longest stay the dial can request, in hours
          MaxStates,    \* states the planner visits before it gives up
          MaxLevels,    \* bound: no plan of the modelled lot is longer
          Prompt,       \* the nodes have handled everything before the world moves on
          Installations,\* the ways the gate's motion sensor may be set up
          Valets,       \* cars that can be on the move at the same time
          Patient       \* nobody scans at the gate while a car is to be parked

Elements(q) == {q[i] : i \in DOMAIN q}

Cards == Elements(CarOrder)
Spots == Elements(SpotOrder)
Buffers == Elements(BufferOrder)

VARIABLES customers, older, occupied, pending_moves, latest_duration, gate_present,
          laptop,   \* messages the laptop has not handled
          pi,       \* plan actions the dispatcher has not carried out
          where,    \* where each car really is
          ticket,   \* the bay the gate was opened for, until the car is in it
          orders,   \* the moves the valets were told to make, oldest first
          released, \* cars the gate was opened for on their way out
          leaving,  \* cars whose customers have checked out
          sensed    \* where by the gate its motion sensor sees a car; never changes

store == <<customers, older, occupied, pending_moves, latest_duration, gate_present>>
world == <<where, ticket, orders, released, leaving, sensed>>
vars == <<store, laptop, pi, world>>

Storage == INSTANCE Storage
Generator == INSTANCE ProblemGeneration
Planner == INSTANCE Planning

Places == Spots \cup Buffers

\* PddlProblemGenerator refuses an empty list of spots or of bays; names are unique.
\* Off the lot a car is at the gate, on its way out, being carried, or away.
ASSUME LotAssumption ==
    /\ \A q \in {CarOrder, SpotOrder, BufferOrder} :
           q \in Seq(Elements(q)) /\ Len(q) > 0 /\ Cardinality(Elements(q)) = Len(q)
    /\ DefaultBuffer \in Buffers /\ Spots \cap Buffers = {} /\ None # "OUTSIDE"
    /\ Places \cap {None, "OUTSIDE", "gate", "exit", "carried", "away"} = {}
    /\ MaxHours \in Nat /\ MaxStates \in Nat /\ MaxLevels \in Nat \ {0} /\ Valets \in Nat
    /\ Prompt \in BOOLEAN /\ Patient \in BOOLEAN
    /\ Installations \subseteq SUBSET {"gate", "exit"}

Inside(c) == where[c] \in Places \cup {"carried"}
Empty(p) == \A c \in Cards : where[c] # p

-----------------------------------------------------------------------------
(* Messages.                                                               *)

Occupancy(p, taken) == [kind |-> "occupancy", place |-> p, taken |-> taken]
NfcScan(reader, c) == [kind |-> "nfc", reader |-> reader, card |-> c]
DurationDial(h) == [kind |-> "duration", hours |-> h]
GateMotion(present) == [kind |-> "motion", present |-> present]
Problem(p) == [kind |-> "problem", problem |-> p]
AdmissionResult(c, accepted) == [kind |-> "admission", card |-> c, accepted |-> accepted]
ParkingAssignment(c, s, b) == [kind |-> "assignment", card |-> c, spot |-> s, buffer |-> b]
VehicleMove(c, m) == [kind |-> "move", card |-> c, move |-> m]
ExitAuthorization(c) == [kind |-> "exit", card |-> c]

Init ==
    /\ Storage!Init
    /\ laptop = <<>> /\ pi = <<>>
    /\ where = [c \in Cards |-> "away"]
    /\ ticket = [c \in Cards |-> None]
    /\ orders = [c \in Cards |-> <<>>]
    /\ released = {} /\ leaving = {}
    /\ sensed \in Installations

-----------------------------------------------------------------------------
(* The laptop.  Every message goes to storage first; a sensor event then   *)
(* has a new problem generated from what storage has made of it.           *)

Received(kind) == laptop # <<>> /\ Head(laptop).kind = kind
Message == Head(laptop)
Publish(ms) == laptop' = Tail(laptop) \o ms
Regenerate == Publish(<< Problem(Generator!Generate(customers', older', occupied')) >>)

OnOccupancy ==
    /\ Received("occupancy")
    /\ IF Message.taken THEN Storage!OnOccupied(Message.place) ELSE Storage!OnFree(Message.place)
    /\ Regenerate
    /\ UNCHANGED <<pi, world>>

OnNfc ==
    /\ Received("nfc")
    /\ IF Message.reader = "gate" THEN Storage!OnNfcGate(Message.card)
                                  ELSE Storage!OnNfcCheckout(Message.card)
    /\ Regenerate
    /\ UNCHANGED <<pi, world>>

OnGateMotion ==
    /\ Received("motion")
    /\ Storage!OnGateMotion(Message.present)
    /\ Regenerate
    /\ UNCHANGED <<pi, world>>

OnDuration ==
    /\ Received("duration")
    /\ Storage!OnDuration(Message.hours)
    /\ Publish(<<>>)
    /\ UNCHANGED <<pi, world>>

OnCommand ==
    /\ \/ /\ Received("assignment")
          /\ Storage!OnAssignment(Message.card, Message.spot, Message.buffer)
       \/ Received("move") /\ Storage!OnVehicleMove(Message.card, Message.move)
       \/ Received("exit") /\ Storage!OnExitAuthorization(Message.card)
       \/ Received("admission") /\ Storage!OnAdmissionResult(Message.card, Message.accepted)
    /\ Publish(<<>>)
    /\ UNCHANGED <<pi, world>>

\* Faulty variant: nobody hears of an arrival that cannot be planned.
OnProblemNoRejection ==
    /\ Received("problem")
    /\ LET p == Message.problem
           answer == Planner!Solve(p.init, p.goal)
       IN  /\ Publish(IF p.purpose = "arrival" /\ answer.solved
                      THEN << AdmissionResult(p.request, TRUE) >> ELSE <<>>)
           /\ pi' = pi \o answer.plan
    /\ UNCHANGED <<store, world>>

\* PlannerService: an arrival is answered either way; a plan is published even if empty.
OnProblem ==
    /\ Received("problem")
    /\ LET p == Message.problem
           answer == Planner!Solve(p.init, p.goal)
       IN  /\ Publish(IF p.purpose = "arrival"
                      THEN << AdmissionResult(p.request, answer.solved) >> ELSE <<>>)
           /\ pi' = pi \o answer.plan
    /\ UNCHANGED <<store, world>>

-----------------------------------------------------------------------------
(* The dispatcher: each action of a plan becomes commands, at once and     *)
(* without waiting for the world to catch up.                              *)

Dispatched(name) == pi # <<>> /\ Head(pi).name = name
Arg(n) == Head(pi).args[n]
Send(ms) == laptop' = laptop \o ms /\ pi' = Tail(pi)

DispatchAssign ==
    /\ Dispatched("assign")
    /\ Send(<< ParkingAssignment(Arg(1), Arg(2), DefaultBuffer) >>)
    /\ UNCHANGED <<store, world>>

DispatchOpenEntry ==
    /\ Dispatched("open-entry")
    /\ Send(<< ParkingAssignment(Arg(1), Arg(3), Arg(2)) >>)
    /\ ticket' = [ticket EXCEPT ![Arg(1)] = Arg(2)]
    /\ UNCHANGED <<store, where, orders, released, leaving, sensed>>

DispatchShowAssignment ==
    /\ Dispatched("show-assignment")
    /\ Send(<<>>)
    /\ UNCHANGED <<store, world>>

\* Faulty variant: an order that is repeated is carried out again.
DispatchMoveAgain ==
    /\ Dispatched("park") \/ Dispatched("retrieve")
    /\ LET m == [from |-> Arg(2), to |-> Arg(3)]
       IN  /\ Send(<< VehicleMove(Arg(1), m) >>)
           /\ orders' = [orders EXCEPT ![Arg(1)] = Append(@, m)]
    /\ UNCHANGED <<store, where, ticket, released, leaving, sensed>>

\* An order the valets already have is not a second order.
DispatchMove ==
    /\ Dispatched("park") \/ Dispatched("retrieve")
    /\ LET m == [from |-> Arg(2), to |-> Arg(3)]
           had == orders[Arg(1)]
       IN  /\ Send(<< VehicleMove(Arg(1), m) >>)
           /\ orders' = IF had # <<>> /\ had[Len(had)] = m THEN orders
                        ELSE [orders EXCEPT ![Arg(1)] = Append(had, m)]
    /\ UNCHANGED <<store, where, ticket, released, leaving, sensed>>

DispatchOpenExit ==
    /\ Dispatched("open-exit")
    /\ Send(<< ExitAuthorization(Arg(1)) >>)
    /\ released' = released \cup {Arg(1)}
    /\ UNCHANGED <<store, where, ticket, orders, leaving, sensed>>

-----------------------------------------------------------------------------
(* Drivers, customers and valets, as the sensors see them.                 *)

Drained == laptop = <<>> /\ pi = <<>>
AtGate(w) == \E c \in Cards : w[c] \in sensed

\* c moves to a place: the places' sensors say so, and the gate's, before or after them.
Drive(c, place, ms) ==
    /\ Prompt => Drained
    /\ where' = [where EXCEPT ![c] = place]
    /\ LET motion == IF AtGate(where) # AtGate(where')
                     THEN << GateMotion(AtGate(where')) >> ELSE <<>>
       IN  laptop' = laptop \o motion \o ms \/ laptop' = laptop \o ms \o motion
    /\ UNCHANGED <<store, pi, sensed>>

\* A driver dials the length of the stay, drives up to the gate and scans the card.
Arrive(c, h) ==
    /\ where[c] = "away" /\ Empty("gate")
    /\ Patient => \A d \in Cards : \A m \in Elements(orders[d]) : m.to \notin Spots
    /\ Drive(c, "gate", << DurationDial(h), NfcScan("gate", c) >>)
    /\ released' = released \ {c}
    /\ leaving' = leaving \ {c}
    /\ UNCHANGED <<ticket, orders>>

TurnAway(c) ==
    /\ where[c] = "gate" /\ customers[c].status = "rejected"
    /\ Drive(c, "away", <<>>)
    /\ UNCHANGED <<ticket, orders, released, leaving>>

DriveIn(c) ==
    /\ where[c] = "gate" /\ ticket[c] # None /\ Empty(ticket[c]) /\ Empty("exit")
    /\ Drive(c, ticket[c], << Occupancy(ticket[c], TRUE) >>)
    /\ ticket' = [ticket EXCEPT ![c] = None]
    /\ UNCHANGED <<orders, released, leaving>>

\* A customer may check out at any time while the car is in the lot.
CheckOut(c) ==
    /\ Inside(c) /\ c \notin leaving
    /\ Drive(c, where[c], << NfcScan("checkout", c) >>)
    /\ leaving' = leaving \cup {c}
    /\ UNCHANGED <<ticket, orders, released>>

Lift(c) ==
    /\ orders[c] # <<>> /\ where[c] = Head(orders[c]).from /\ Empty(Head(orders[c]).to)
    /\ Cardinality({d \in Cards : where[d] = "carried"}) < Valets
    /\ Drive(c, "carried", << Occupancy(where[c], FALSE) >>)
    /\ UNCHANGED <<ticket, orders, released, leaving>>

Put(c) ==
    /\ where[c] = "carried" /\ Empty(Head(orders[c]).to)
    /\ Drive(c, Head(orders[c]).to, << Occupancy(Head(orders[c]).to, TRUE) >>)
    /\ orders' = [orders EXCEPT ![c] = Tail(@)]
    /\ UNCHANGED <<ticket, released, leaving>>

DriveOut(c) ==
    /\ c \in released /\ where[c] \in Buffers /\ Empty("exit")
    /\ Drive(c, "exit", << Occupancy(where[c], FALSE) >>)
    /\ UNCHANGED <<ticket, orders, released, leaving>>

PassGate(c) ==
    /\ where[c] = "exit"
    /\ Drive(c, "away", <<>>)
    /\ UNCHANGED <<ticket, orders, released, leaving>>

-----------------------------------------------------------------------------
Laptop == OnOccupancy \/ OnNfc \/ OnGateMotion \/ OnDuration \/ OnCommand \/ OnProblem
Dispatcher == DispatchAssign \/ DispatchOpenEntry \/ DispatchShowAssignment
              \/ DispatchMove \/ DispatchOpenExit
Attended(c) == TurnAway(c) \/ DriveIn(c) \/ Lift(c) \/ Put(c) \/ DriveOut(c) \/ PassGate(c)

Next ==
    \/ Laptop
    \/ Dispatcher
    \/ \E c \in Cards : Attended(c) \/ CheckOut(c) \/ \E h \in 0..MaxHours : Arrive(c, h)

Spec == Init /\ [][Next]_vars

\* Weak fairness of the two nodes, whose steps are possible exactly when something is in
\* their inbox.
LaptopRuns == []<>(laptop = <<>>) \/ []<><<Laptop>>_vars
DispatcherRuns == []<>(pi = <<>>) \/ []<><<Dispatcher>>_vars

\* Nodes keep handling messages; drivers and valets do what they are again and again free
\* to do, the world pausing only for the nodes.  Nobody has to arrive or to check out.
LiveSpec == Spec /\ LaptopRuns /\ DispatcherRuns /\ \A c \in Cards : SF_vars(Attended(c))

-----------------------------------------------------------------------------
(* What the record and the lot have to do with each other.                 *)

\* No spot is ever promised to two customers at a time, be they about to enter, parked or
\* being brought out (PddlProblemGenerator's reservations, StorageService's releases).
SpotsNotShared ==
    \A c, d \in Cards : c # d /\ customers[c].spot # None => customers[c].spot # customers[d].spot

\* The bay is in use by d, or d is on the way to it.
BayTaken(b, d) == where[d] = b \/ ticket[d] = b \/ \E m \in Elements(orders[d]) : m.to = b

\* While the gate is open for a car, nobody else is in the bay it was sent to or is being
\* brought there: an arrival is admitted only if a bay is free (docs/message-flow.md).
EntryBayFree == \A c, d \in Cards : c # d /\ ticket[c] # None => ~BayTaken(ticket[c], d)

\* Whether p is where storage ought to believe c to be: a car on the move is where it was
\* last seen, and one that has left may still count as in its bay while the gate is blocked.
Believed(c, p) ==
    CASE where[c] = "gate" -> p = IF customers[c].status = "rejected" THEN None ELSE "OUTSIDE"
      [] where[c] = "carried" -> p = Head(orders[c]).from
      [] where[c] \in Places -> p = where[c]
      [] where[c] \in {"exit", "away"} -> p = None \/ (gate_present /\ p \in Buffers)

\* Once all messages are handled, the store knows which places are taken and whether a car
\* is at the gate, however late and mixed the sensors' events came and whatever the commands
\* did (StorageService._on_occupancy, _on_gate_motion).
PlacesKnown ==
    Drained => occupied = {p \in Places : ~Empty(p)} /\ gate_present = AtGate(where)

\* Once all messages are handled, the store knows of every car where it is, and waits for the
\* move somebody was told to make with it: none is lost and none waited for in vain.
RecordIsTrue ==
    Drained => \A c \in Cards :
        /\ Believed(c, customers[c].location)
        /\ pending_moves[c] = IF orders[c] = <<>> THEN Storage!NoMove ELSE Head(orders[c])

SpotTaken(s, d) == where[d] = s \/ (customers[d].spot = s /\ (Inside(d) \/ ticket[d] # None))

\* An arrival is rejected only when every spot is taken or promised, or every bay is
\* (PlannerService publishes the rejection when there is no plan).
RejectedOnlyWhenFull ==
    [][\A c \in Cards : customers[c].status # "rejected" /\ customers'[c].status = "rejected" =>
          \/ \A s \in Spots : \E d \in Cards \ {c} : SpotTaken(s, d)
          \/ \A b \in Buffers : \E d \in Cards \ {c} : BayTaken(b, d) \/ where[d] = "exit"]_vars

\* The problem says that what its request needs is there: a spot and a bay to arrive, a bay
\* to be brought to from one's spot.
Servable(p) ==
    LET Bay == \E b \in Buffers : <<"free-buffer", b>> \in p.init
    IN  \/ p.purpose \in {"exit", "park"}
        \/ p.purpose = "retrieve" /\ Bay /\ \E s \in Spots : <<"at", p.request, s>> \in p.init
        \/ p.purpose = "arrival" /\ Bay /\ \E s \in Spots : <<"free-spot", s>> \in p.init

Instruct(name, args) == [name |-> name, args |-> args]

\* The plan serves the request alone, with the places the record keeps for it or has free.
Direct(p, plan) ==
    LET c == p.request
    IN  \E b \in Buffers :
            \/ /\ p.purpose = "exit" /\ <<"ready-for-pickup", c, b>> \in p.init
               /\ plan = << Instruct("open-exit", <<c, b>>) >>
            \/ /\ p.purpose = "park"
               /\ \E s \in Spots : /\ { <<"in-buffer", c, b>>, <<"assigned", c, s>> } \subseteq p.init
                                   /\ plan = << Instruct("park", <<c, b, s>>) >>
            \/ /\ p.purpose = "retrieve"
               /\ \E s \in Spots : /\ { <<"at", c, s>>, <<"free-buffer", b>> } \subseteq p.init
                                   /\ plan = << Instruct("retrieve", <<c, s, b>>) >>
            \/ /\ p.purpose = "arrival"
               /\ \E s \in Spots :
                     /\ { <<"free-spot", s>>, <<"free-buffer", b>> } \subseteq p.init
                     /\ plan = << Instruct("assign", <<c, s>>), Instruct("open-entry", <<c, b, s>>),
                                  Instruct("show-assignment", <<c, s, b>>) >>

\* The plan for a request that can be served moves, admits and lets out no other car: the
\* search could as well reach the goal after somebody else's move, or with a spot that the
\* record of an earlier visit still assigns (PlannerService, PddlProblemGenerator.generate).
ServedDirectly ==
    Received("problem") /\ Servable(Message.problem) =>
        LET answer == Planner!Solve(Message.problem.init, Message.problem.goal)
        IN  answer.solved => Direct(Message.problem, answer.plan)

\* The visit of c as its customer sees it.
Phase(c) ==
    CASE where[c] = "away" -> "away"
      [] where[c] = "gate" /\ ticket[c] = None -> "waiting"
      [] where[c] = "gate" /\ ticket[c] # None -> "admitted"
      [] where[c] \notin {"away", "gate"} ->
             IF c \in released THEN "released" ELSE IF c \in leaving THEN "claimed" ELSE "staying"

Visits == INSTANCE Visits WITH phase <- [c \in Cards |-> Phase(c)], Room <- Cardinality(Spots)

\* The lot keeps the promises of module Visits: everybody at the gate is let in or turned
\* away, also one whose scan was overtaken by more urgent requests; no more guests than
\* spots; nobody's car is let out unasked, and whoever checks out gets the car, whatever was
\* happening to it then and whoever else waits for the bay (docs/message-flow.md).
VisitsKept == Visits!Spec

\* Every arrival is answered: the customer is admitted or turned away, even one whose scan
\* was overtaken by more urgent requests and got no plan of its own.
ArrivalAnswered == \A c \in Cards : where[c] = "gate" ~> where[c] # "gate"

\* A move command reserves its bay: no two cars are on their way to the same bay, or told to
\* be brought there (storage/README.md: move commands reserve resources).
BayPromisedOnce ==
    \A c, d \in Cards : c # d =>
        \A m \in Elements(orders[c]), n \in Elements(orders[d]) :
            m.to \in Buffers => m.to # n.to
=============================================================================
