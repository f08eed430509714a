------------------------------ MODULE Dashboard ------------------------------
(***************************************************************************)
(* parking/visualization/model.py beside the rest of the lot: what the     *)
(* operator's dashboard makes of the shared store and of the messages it   *)
(* sees.                                                                   *)
(*                                                                         *)
(* DashboardModel is the last subscriber on the laptop, so it hears of a   *)
(* message when storage has already handled it; a web thread may take a    *)
(* snapshot in between.  Snapshots change nothing: they are the operators  *)
(* SpotState and Instruction.  Plans, admissions, gate commands and the    *)
(* list of recent messages are shown as they come and are left out.        *)
(***************************************************************************)
EXTENDS Lot

VARIABLES unseen,    \* the message the laptop is handling and the dashboard has not seen
          moves,     \* the last move commanded for each car, done or not
          present    \* _gate_present, the dashboard's own

dashboard == <<unseen, moves, present>>
dvars == <<vars, dashboard>>

Nothing == [kind |-> "none"]

DashInit ==
    /\ Init
    /\ unseen = Nothing
    /\ moves = [c \in Cards |-> Storage!NoMove]
    /\ present = FALSE

\* Faulty variant: only the first move of a car is kept.
SeeFirstMove ==
    /\ unseen # Nothing /\ unseen' = Nothing
    /\ moves' = IF unseen.kind = "move" /\ moves[unseen.card] = Storage!NoMove
                THEN [moves EXCEPT ![unseen.card] = unseen.move] ELSE moves
    /\ present' = IF unseen.kind = "motion" THEN unseen.present ELSE present
    /\ UNCHANGED vars

\* _on_message.
See ==
    /\ unseen # Nothing /\ unseen' = Nothing
    /\ moves' = IF unseen.kind = "move" THEN [moves EXCEPT ![unseen.card] = unseen.move] ELSE moves
    /\ present' = IF unseen.kind = "motion" THEN unseen.present ELSE present
    /\ UNCHANGED vars

\* The other subscribers of the laptop, before the dashboard.
Handle ==
    /\ unseen = Nothing /\ Laptop /\ unseen' = Message
    /\ UNCHANGED <<moves, present>>

\* The Pi does not wait for the laptop; the world does, if it is Prompt.
Elsewhere ==
    /\ \/ Dispatcher
       \/ Prompt => unseen = Nothing
    /\ \/ Dispatcher
       \/ \E c \in Cards : Attended(c) \/ CheckOut(c) \/ \E h \in 0..MaxHours : Arrive(c, h)
    /\ UNCHANGED dashboard

DashNext == See \/ Handle \/ Elsewhere

DashSpec == DashInit /\ [][DashNext]_dvars

-----------------------------------------------------------------------------
(* Snapshots.                                                              *)

With(S) == {c \in Cards : customers[c].status \in S}
Active == {c \in Cards : customers[c].status \notin {"unregistered", "departed", "rejected"}}

\* Faulty variant: an arriving car's bay is not shown as assigned.
VisibleBufferLate(k) ==
    IF k.status \in {"in_buffer", "retrieving", "ready_for_pickup", "exit_authorized"}
    THEN k.buffer ELSE None

\* _visible_buffer_assignment.
VisibleBuffer(k) ==
    IF k.status \in {"entry_authorized", "in_buffer", "retrieving", "ready_for_pickup", "exit_authorized"}
    THEN k.buffer ELSE None

\* _spot.
Assigned(p) == \E c \in Active : p = (IF p \in Spots THEN customers[c].spot ELSE VisibleBuffer(customers[c]))
Moving(p) == \E c \in With({"parking", "retrieving"}) : p \in {moves[c].from, moves[c].to}

\* Faulty variant: a move is shown until it is confirmed, whatever the sensor says.
SpotStateMoving(p) == CASE Moving(p) -> "moving"
                        [] ~Moving(p) /\ p \in occupied -> "occupied"
                        [] ~Moving(p) /\ p \notin occupied /\ Assigned(p) -> "assigned"
                        [] OTHER -> "free"

SpotState(p) == CASE p \in occupied -> "occupied"
                  [] p \notin occupied /\ Moving(p) -> "moving"
                  [] p \notin occupied /\ ~Moving(p) /\ Assigned(p) -> "assigned"
                  [] OTHER -> "free"

\* The statuses an instruction is looked for in, in this order.
Urgency == << {"parking"}, {"retrieving"}, {"entry_authorized"}, {"ready_for_pickup", "exit_authorized"},
              {"in_buffer"}, {"pickup_requested"}, {"arrival_requested"}, {"parked"} >>

\* The customer the instruction is about: the oldest with the most urgent status.
Subjects == IF Active = {} THEN {}
            ELSE Storage!Oldest(With(Urgency[CHOOSE i \in DOMAIN Urgency :
                     With(Urgency[i]) # {} /\ \A j \in 1..(i - 1) : With(Urgency[j]) = {}]))

Told(c, mode, from, to) == [mode |-> mode, card |-> c, from |-> from, to |-> to]

InstructionTo(c) ==
    LET k == customers[c]
    IN  CASE k.status \in {"parking", "retrieving"} ->
                 IF moves[c] = Storage!NoMove THEN Told(c, "waiting", None, None)
                 ELSE Told(c, "action", moves[c].from, moves[c].to)
          [] k.status = "entry_authorized" -> Told(c, "action", "gate", k.buffer)
          [] k.status \in {"ready_for_pickup", "exit_authorized"} ->
                 Told(c, "ready", IF k.buffer # None THEN k.buffer ELSE k.location, "exit")
          [] k.status = "parked" -> Told(c, "idle", None, k.location)
          [] OTHER -> Told(c, "waiting", None, None)

\* The customer turned away whose request is the latest.
TurnedAway == LET R == With({"rejected"}) IN {c \in R : \A d \in R : <<c, d>> \notin older}

\* _instruction; without an active customer, the latest rejection if there is one, or nothing.
Instruction ==
    IF Subjects # {} THEN InstructionTo(CHOOSE c \in Subjects : TRUE)
    ELSE IF TurnedAway # {} THEN Told(CHOOSE c \in TurnedAway : TRUE, "error", None, None)
    ELSE Told(None, "idle", None, None)

\* _assignment, a row of the table of customers.
Assignment(c) == [card |-> c, spot |-> customers[c].spot, buffer |-> VisibleBuffer(customers[c]),
                  location |-> customers[c].location, status |-> customers[c].status]

\* The car named in the picture of a place.
Vehicles(p) == {c \in Cards : customers[c].location = p}

\* snapshot.
Snapshot ==
    LET Occupied(S) == Cardinality({p \in S : SpotState(p) = "occupied"})
    IN  [gate_present         |-> present,
         assignments          |-> {Assignment(c) : c \in {d \in Cards : customers[d].status # "unregistered"}},
         occupied_count       |-> Occupied(Places),
         free_count           |-> Cardinality(Spots) - Occupied(Spots),
         active_requests      |-> Cardinality(Active),
         operator_instruction |-> Instruction]

-----------------------------------------------------------------------------
Settled == Drained /\ unseen = Nothing

\* Jobs somebody has been given and not finished: a car to be driven in, or to be moved.
Jobs == {Told(c, "action", "gate", ticket[c]) : c \in {d \in Cards : ticket[d] # None}}
        \cup UNION {{Told(c, "action", orders[c][1].from, orders[c][1].to)} : c \in {d \in Cards : orders[d] # <<>>}}

\* The one instruction on the screen is a job that somebody really has, and there is one
\* whenever anybody has a job; a car called ready stands in the bay named, its way out released;
\* a car for which the gate must stay closed has not been let in.
InstructionTrue ==
    /\ Instruction.mode = "action" => Instruction \in Jobs
    /\ Jobs # {} => Instruction.mode = "action"
    /\ Instruction.mode = "ready" =>
           /\ Instruction.card \in released
           /\ where[Instruction.card] \in {Instruction.from, "exit"}
    /\ Instruction.mode = "error" => where[Instruction.card] \in {"gate", "away"}

\* The cars to be counted as requests, and those that still may: a departure is completed
\* once the gate is clear.
Asking == {c \in Cards : Inside(c) \/ (where[c] = "gate" /\ customers[c].status # "rejected")}
Gone == IF gate_present THEN {c \in Cards : where[c] \in {"exit", "away"}} ELSE {}

\* The table and the count of requests are right about the cars, nobody is on the way to a
\* place shown as free, and an occupied one names the car in it.
TableTrue ==
    /\ \A r \in Snapshot.assignments : where[r.card] \in Places => r.location = where[r.card]
    /\ Cardinality(Asking) <= Snapshot.active_requests
    /\ Snapshot.active_requests <= Cardinality(Asking) + Cardinality(Gone)
    /\ \A p \in Places :
          /\ SpotState(p) = "free" => \A c \in Cards :
                 ticket[c] # p /\ \A m \in Elements(orders[c]) : p \notin {m.from, m.to}
          /\ SpotState(p) = "occupied" => Vehicles(p) = {c \in Cards : where[c] = p}

\* Once all messages are handled, what is said of the cars is true: the current human
\* instruction (README.md:84-85), the table of customers and the cars named in the places.
CarsShown == Settled => InstructionTrue /\ TableTrue

\* Once all messages are handled, exactly the places shown as occupied are taken, the two
\* counts above them are those of the lot, and the gate is shown as it is (DashboardModel's
\* snapshot, which joins the store with an event seen later than storage sees it).
PlacesShown ==
    Settled =>
        /\ \A p \in Places : SpotState(p) = "occupied" <=> ~Empty(p)
        /\ Snapshot.free_count = Cardinality({p \in Spots : Empty(p)})
        /\ Snapshot.occupied_count = Cardinality({p \in Places : ~Empty(p)})
        /\ Snapshot.gate_present = AtGate(where)
=============================================================================
