------------------------------ MODULE Storage ------------------------------
(***************************************************************************)
(* parking/storage: the vehicle lifecycle database that StorageService     *)
(* keeps current from bus messages, over the in-memory StateStore.         *)
(*                                                                         *)
(* One action per bus handler.  The module leaves open which messages      *)
(* arrive and in which order: an MQTT subscriber handles whatever the      *)
(* broker delivers.  Module Lot composes it with the rest of the system.   *)
(*                                                                         *)
(* A card stands for the vehicle registered under it.  The entry of the    *)
(* store's vehicle-to-spot mapping is kept in the card's own record, as    *)
(* `location`; minutes are kept as whole hours, the only thing a reader of *)
(* them tells apart; request timestamps are kept as the order they induce. *)
(***************************************************************************)
EXTENDS Naturals

CONSTANTS Cards,      \* RFID cards, each with the vehicle registered under it
          Spots,      \* parking spots
          Buffers,    \* hand-over bays between the gate and the spots
          None,       \* the code's "" or None
          MaxHours    \* bound: longest stay the dial can request, in hours

Places == Spots \cup Buffers
OUTSIDE == "OUTSIDE"
Hours == 0..MaxHours

ASSUME StorageAssumption ==
    /\ Spots \cap Buffers = {}
    /\ None \notin Places /\ OUTSIDE \notin Places /\ None # OUTSIDE
    /\ MaxHours \in Nat

VARIABLES customers,      \* the registered customers and where their cars are
          older,          \* pairs of cards whose requests were made in that order
          occupied,       \* places whose sensor last reported a car
          pending_moves,  \* the last move commanded for each car, if unfinished
          latest_duration,\* hours dialled since the last gate scan
          gate_present    \* the gate sensor last reported a car

vars == <<customers, older, occupied, pending_moves, latest_duration, gate_present>>

Status == {"unregistered", "arrival_requested", "entry_authorized", "in_buffer",
           "parking", "parked", "pickup_requested", "retrieving",
           "ready_for_pickup", "exit_authorized", "departed", "rejected"}

Customer == [status : Status, hours : Hours, ready : BOOLEAN, checkout : BOOLEAN,
             spot : Spots \cup {None}, buffer : Buffers \cup {None},
             location : Places \cup {OUTSIDE, None}]

\* No record yet: what a new Customer starts from, apart from its status.
Unregistered == [status |-> "unregistered", hours |-> 0, ready |-> FALSE,
                 checkout |-> FALSE, spot |-> None, buffer |-> None, location |-> None]

\* The only moves the dispatcher ever commands: parking and retrieval.
Moves == [from : Buffers, to : Spots] \cup [from : Spots, to : Buffers]
NoMove == [from |-> None, to |-> None]

TypeOK ==
    /\ customers \in [Cards -> Customer]
    /\ older \in SUBSET (Cards \X Cards)
    /\ occupied \in SUBSET Places
    /\ pending_moves \in [Cards -> Moves \cup {NoMove}]
    /\ latest_duration \in Hours
    /\ gate_present \in BOOLEAN

Init ==
    /\ customers = [c \in Cards |-> Unregistered]
    /\ older = {}
    /\ occupied = {}
    /\ pending_moves = [c \in Cards |-> NoMove]
    /\ latest_duration = 0
    /\ gate_present = FALSE

-----------------------------------------------------------------------------
(* Lookups and the record changes the handlers share.                      *)

Known(c) == customers[c].status # "unregistered"

\* The members of S whose request no other member of S precedes.
Oldest(S) == {c \in S : \A d \in S : <<d, c>> \notin older}

\* c has just made a request: every other card's request is now older.
Newest(c) == {pr \in older : c \notin {pr[1], pr[2]}} \cup ((Cards \ {c}) \X {c})

\* The car has been seen to enter the bay b it was sent to.
Entered(k, b) == [k EXCEPT !.status = IF k.checkout THEN "ready_for_pickup" ELSE "in_buffer",
                           !.ready = k.checkout,
                           !.location = b]

\* Faulty variant: the bay stays reserved for a car that is already parked.
FinishedKeepsBay(k, m) ==
    IF m.to = k.buffer
    THEN [k EXCEPT !.location = m.to, !.status = "ready_for_pickup", !.ready = TRUE, !.spot = None]
    ELSE [k EXCEPT !.location = m.to,
                   !.status = IF k.checkout THEN "pickup_requested" ELSE "parked"]

\* Faulty variant: a checkout made while the car was being parked is not looked at.
FinishedForgetsCheckout(k, m) ==
    IF m.to = k.buffer
    THEN [k EXCEPT !.location = m.to, !.status = "ready_for_pickup", !.ready = TRUE, !.spot = None]
    ELSE [k EXCEPT !.location = m.to, !.status = "parked", !.buffer = None]

\* Both sensors confirm the move m.
Finished(k, m) ==
    IF m.to = k.buffer
    THEN [k EXCEPT !.location = m.to, !.status = "ready_for_pickup", !.ready = TRUE, !.spot = None]
    ELSE [k EXCEPT !.location = m.to,
                   !.status = IF k.checkout THEN "pickup_requested" ELSE "parked",
                   !.buffer = None]

\* Faulty variant: the sensor of the place the car left is not consulted.
ConfirmedByArrival(m, occ) == m # NoMove /\ m.to \in occ

Confirmed(m, occ) == m # NoMove /\ m.from \notin occ /\ m.to \in occ

\* The car has left its bay, and the gate, after it was let out.
Leaving(k, occ) == /\ k.status = "exit_authorized"
                   /\ k.buffer # None /\ k.buffer \notin occ
                   /\ k.location = k.buffer

Departed(k) == [k EXCEPT !.status = "departed", !.ready = FALSE, !.checkout = FALSE,
                         !.spot = None, !.buffer = None, !.location = None]

\* Faulty variant: the gate may still be blocked.
CompleteDeparturesAnyGate(cs, occ, present) ==
    [c \in Cards |-> IF Leaving(cs[c], occ) THEN Departed(cs[c]) ELSE cs[c]]

CompleteDepartures(cs, occ, present) ==
    [c \in Cards |-> IF ~present /\ Leaving(cs[c], occ) THEN Departed(cs[c]) ELSE cs[c]]

CompletePendingMoves(cs, occ) ==
    [c \in Cards |-> IF Confirmed(pending_moves[c], occ)
                     THEN Finished(cs[c], pending_moves[c]) ELSE cs[c]]

-----------------------------------------------------------------------------
(* Handlers.                                                               *)

OnDuration(h) ==
    /\ latest_duration' = h
    /\ UNCHANGED <<customers, older, occupied, pending_moves, gate_present>>

\* Faulty variant: a departure is completed by the bay's sensor only.
OnGateMotionNoDeparture(present) ==
    /\ gate_present' = present
    /\ UNCHANGED <<customers, older, occupied, pending_moves, latest_duration>>

OnGateMotion(present) ==
    /\ gate_present' = present
    /\ customers' = CompleteDepartures(customers, occupied, present)
    /\ UNCHANGED <<older, occupied, pending_moves, latest_duration>>

OnNfcGate(c) ==
    /\ customers' = [customers EXCEPT ![c] =
            [Unregistered EXCEPT !.status = "arrival_requested",
                                 !.hours = latest_duration,
                                 !.location = OUTSIDE]]
    /\ older' = Newest(c)
    /\ latest_duration' = 0
    /\ UNCHANGED <<occupied, pending_moves, gate_present>>

\* A card never seen before becomes a customer with the default status.
CheckedOut(k) ==
    LET inside == k.status \in {"in_buffer", "entry_authorized"} /\ k.location # OUTSIDE
    IN  [k EXCEPT !.checkout = TRUE,
                  !.ready = @ \/ inside,
                  !.status = CASE inside -> "ready_for_pickup"
                               [] @ = "parked" -> "pickup_requested"
                               [] @ = "unregistered" -> "departed"
                               [] OTHER -> @]

OnNfcCheckout(c) ==
    /\ customers' = [customers EXCEPT ![c] = CheckedOut(@)]
    /\ older' = Newest(c)
    /\ UNCHANGED <<occupied, pending_moves, latest_duration, gate_present>>

\* A message about a vehicle nobody registered is dropped.
OnAssignment(c, s, b) ==
    /\ customers' = IF Known(c)
                    THEN [customers EXCEPT ![c] = [@ EXCEPT !.spot = s, !.buffer = b,
                                                            !.status = "entry_authorized"]]
                    ELSE customers
    /\ UNCHANGED <<older, occupied, pending_moves, latest_duration, gate_present>>

OnExitAuthorization(c) ==
    /\ customers' = IF Known(c)
                    THEN [customers EXCEPT ![c].status = "exit_authorized"]
                    ELSE customers
    /\ UNCHANGED <<older, occupied, pending_moves, latest_duration, gate_present>>

OnAdmissionResult(c, accepted) ==
    /\ customers' = IF ~accepted /\ customers[c].status = "arrival_requested"
                    THEN [customers EXCEPT ![c] = [@ EXCEPT !.status = "rejected", !.location = None]]
                    ELSE customers
    /\ UNCHANGED <<older, occupied, pending_moves, latest_duration, gate_present>>

\* Faulty variant: every commanded move is taken for a retrieval.
CommandedUnguarded(k, m) == [k EXCEPT !.buffer = m.to, !.status = "retrieving"]

\* A retrieval chooses the bay only now; a parking keeps the one it has.
Commanded(k, m) ==
    IF k.spot # None /\ m.from = k.spot
    THEN [k EXCEPT !.buffer = m.to, !.status = "retrieving"]
    ELSE [k EXCEPT !.status = "parking"]

OnVehicleMove(c, m) ==
    /\ customers' = IF Known(c) THEN [customers EXCEPT ![c] = Commanded(@, m)] ELSE customers
    /\ pending_moves' = IF Known(c) THEN [pending_moves EXCEPT ![c] = m] ELSE pending_moves
    /\ UNCHANGED <<older, occupied, latest_duration, gate_present>>

\* Whom a car seen in place p is taken to be: the oldest one sent there.
Entrants(p) == Oldest({c \in Cards : /\ customers[c].status = "entry_authorized"
                                     /\ customers[c].buffer = p})

OnOccupied(p) ==
    LET occ == occupied \cup {p}
    IN  /\ occupied' = occ
        /\ IF Entrants(p) = {}
           THEN customers' = CompletePendingMoves(customers, occ)
           ELSE \E e \in Entrants(p) :
                    customers' = CompletePendingMoves(
                                    [customers EXCEPT ![e] = Entered(@, p)], occ)
        /\ pending_moves' = [c \in Cards |-> IF Confirmed(pending_moves[c], occ)
                                             THEN NoMove ELSE pending_moves[c]]
        /\ UNCHANGED <<older, latest_duration, gate_present>>

\* Faulty variant: a place behind the blocked gate counts as taken until the gate is clear.
OnFreeBehindGate(p) ==
    LET occ == IF gate_present THEN occupied ELSE occupied \ {p}
    IN  /\ occupied' = occ
        /\ customers' = CompleteDepartures(CompletePendingMoves(customers, occ), occ, gate_present)
        /\ pending_moves' = [c \in Cards |-> IF Confirmed(pending_moves[c], occ)
                                             THEN NoMove ELSE pending_moves[c]]
        /\ UNCHANGED <<older, latest_duration, gate_present>>

OnFree(p) ==
    LET occ == occupied \ {p}
    IN  /\ occupied' = occ
        /\ customers' = CompleteDepartures(CompletePendingMoves(customers, occ), occ, gate_present)
        /\ pending_moves' = [c \in Cards |-> IF Confirmed(pending_moves[c], occ)
                                             THEN NoMove ELSE pending_moves[c]]
        /\ UNCHANGED <<older, latest_duration, gate_present>>

-----------------------------------------------------------------------------
Next ==
    \/ \E h \in Hours : OnDuration(h)
    \/ \E present \in BOOLEAN : OnGateMotion(present)
    \/ \E p \in Places : OnOccupied(p) \/ OnFree(p)
    \/ \E c \in Cards :
         \/ OnNfcGate(c)
         \/ OnNfcCheckout(c)
         \/ \E s \in Spots, b \in Buffers : OnAssignment(c, s, b)
         \/ OnExitAuthorization(c)
         \/ \E accepted \in BOOLEAN : OnAdmissionResult(c, accepted)
         \/ \E m \in Moves : OnVehicleMove(c, m)

Spec == Init /\ [][Next]_vars

-----------------------------------------------------------------------------
(* What the record promises whatever arrives, in whatever order.           *)

\* A car at rest is where sensors saw it, with no command outstanding once it is parked; one
\* let in has a spot and a bay, one to be picked up a bay.
AtRest(k, m) ==
    /\ k.status \in {"entry_authorized", "in_buffer"} => k.spot # None /\ k.buffer # None
    /\ k.status = "in_buffer" => k.location = k.buffer
    /\ k.status = "ready_for_pickup" => k.buffer # None
    /\ k.status \in {"parked", "pickup_requested"} =>
           k.location \in Places /\ k.buffer = None /\ m = NoMove
    /\ k.status \in {"unregistered", "departed", "rejected"} => k.location = None
    /\ k.status = "unregistered" => k = Unregistered /\ m = NoMove
    /\ k.status = "arrival_requested" => k.location = OUTSIDE /\ k.spot = None /\ k.buffer = None

\* A car in motion has the move it is carrying out.
InMotion(k, m) ==
    /\ k.status = "parking" => m # NoMove
    /\ k.status = "retrieving" => m # NoMove /\ m.from = k.spot /\ m.to = k.buffer

\* A request to leave is visible in the status.
Requested(k) ==
    /\ k.checkout => k.status \notin {"in_buffer", "parked"}
    /\ k.status = "pickup_requested" => k.checkout
    /\ k.status = "ready_for_pickup" => k.ready

\* StorageService never believes a car to be in a bay or a spot it has not been confirmed
\* in, keeps no location for a car that is gone, and never loses the move a moving car is
\* carrying out: status, location and pending move agree after every handler, also when
\* commands and sensor events are late, repeated or out of order.
RecordConsistent == \A c \in Cards : /\ AtRest(customers[c], pending_moves[c])
                                      /\ InMotion(customers[c], pending_moves[c])

\* A checkout scan is never forgotten: however it races the car's own parking, entry or
\* retrieval, a car whose customer has checked out is not left in a status
\* (in_buffer, parked) from which the planner would go on as if nobody had asked.
CheckoutActedOn == \A c \in Cards : Requested(customers[c])

LocationStep ==
    \A c \in Cards :
        LET place == customers'[c].location IN
        place # customers[c].location /\ place \in Places =>
            /\ place \in occupied'
            /\ pending_moves'[c] # pending_moves[c] => pending_moves[c].from \notin occupied'

\* A car's recorded place changes only to one whose sensor reports a car, and a commanded
\* move ends only with its origin seen free too (StorageService._complete_pending_moves).
LocationConfirmed == [][LocationStep]_vars

DepartureStep ==
    \A c \in Cards :
        customers[c].location \in Places /\ customers'[c].location = None =>
            /\ customers[c].status = "exit_authorized"
            /\ customers[c].location \notin occupied'
            /\ ~gate_present'

\* A car is recorded as gone only when it was let out, its bay is free and nothing is at
\* the gate (StorageService._complete_departures).
DepartureConfirmed == [][DepartureStep]_vars

ClearingStep ==
    /\ (gate_present /\ ~gate_present') \/ (occupied' # occupied /\ occupied' \subseteq occupied)
    /\ ~gate_present'
    => \A c \in Cards : ~Leaving(customers'[c], occupied')

\* Bay and gate may clear in either order: whichever sensor clears last completes the
\* departure of every car that has been let out (the two callers of _complete_departures).
DepartureNotMissed == [][ClearingStep]_vars
=============================================================================
