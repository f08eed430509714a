------------------------------ MODULE Sensing ------------------------------
(***************************************************************************)
(* From the photoresistors to the lot-full lamp and to storage's table of  *)
(* occupied places.  An OccupancySensor publishes what has changed; the    *)
(* LotFullIndicator on the same node hears of it through the broker, as    *)
(* storage on the laptop does, and publishes when the lot becomes full or  *)
(* is full no more; StatusLed hears of that through the broker, too.       *)
(*                                                                         *)
(* Messages have quality of service 0 and clients start clean sessions:    *)
(* what is published without a connection, or while the receiver has not   *)
(* (yet, again) subscribed, is gone.                                       *)
(***************************************************************************)
EXTENDS Naturals, Sequences

CONSTANTS Spots,      \* parking spots, watched by the indicator
          Buffers,    \* hand-over bays
          None,       \* not known yet
          Conditions, \* the values that `failing` may have
          MaxPending  \* bound: messages under way to a node

Places == Spots \cup Buffers

ASSUME SensingAssumption ==
    /\ Spots \cap Buffers = {} /\ None \notin BOOLEAN
    /\ Conditions \subseteq SUBSET {"broker", "board"} /\ MaxPending \in Nat

VARIABLES covered,        \* what is really parked: the light is blocked
          last_occupied,  \* each sensor's _last_occupied
          spots,          \* the indicator's _occupied
          last_full,      \* the indicator's _last_full
          led,            \* the lamp
          occupied,       \* storage's occupied places
          pi, laptop,     \* the nodes' connections: down, connected, subscribed
          pi_inbox, laptop_inbox,
          failing,        \* what may fail; never changes.  "broker": connections are lost,
                          \* nodes restart, sensors report before everybody has subscribed;
                          \* "board": the Mega is reset
          stale           \* history: for each node the places whose last event it lost

node == <<spots, last_full, led>>
net == <<pi, laptop, failing>>
vars == <<covered, last_occupied, node, occupied, net, pi_inbox, laptop_inbox, stale>>

Occupancy(p, taken) == [kind |-> "occupancy", place |-> p, taken |-> taken]

LotFull(full) == [kind |-> "full", full |-> full]

Messages == [kind : {"occupancy"}, place : Places, taken : BOOLEAN]
            \cup [kind : {"full"}, full : BOOLEAN]

TypeOK ==
    /\ covered \in [Places -> BOOLEAN] /\ last_occupied \in [Places -> BOOLEAN \cup {None}]
    /\ spots \in [Spots -> BOOLEAN] /\ last_full \in BOOLEAN \cup {None} /\ led \in BOOLEAN
    /\ occupied \in SUBSET Places
    /\ pi \in {"down", "connected", "subscribed"} /\ laptop \in {"down", "subscribed"}
    /\ pi_inbox \in Seq(Messages) /\ laptop_inbox \in Seq(Messages)
    /\ failing \in SUBSET {"broker", "board"}
    /\ stale \in [pi : SUBSET Places, laptop : SUBSET Places]

\* OccupancySensor.__init__, one sensor for each place; LotFullIndicator.__init__; a lamp
\* that nothing has been sent to yet.
SensorInit == last_occupied = [p \in Places |-> None]
IndicatorInit == spots = [s \in Spots |-> FALSE] /\ last_full = None
LedInit == led = FALSE

Init ==
    /\ covered \in [Places -> BOOLEAN]
    /\ SensorInit /\ IndicatorInit /\ LedInit
    /\ occupied = {}
    /\ failing \in Conditions
    /\ pi = (IF "broker" \in failing THEN "down" ELSE "subscribed")
    /\ laptop = (IF "broker" \in failing THEN "down" ELSE "subscribed")
    /\ pi_inbox = <<>> /\ laptop_inbox = <<>>
    /\ stale = [pi |-> {}, laptop |-> {}]

-----------------------------------------------------------------------------
\* MqttBus.publish on the Pi, for a node that listens to such messages.
Reached(receiver) == pi # "down" /\ receiver = "subscribed"
Delivered(inbox, receiver, m) == IF Reached(receiver) THEN Append(inbox, m) ELSE inbox

\* OccupancySensor._on_line: every reading is looked at, a changed one is published.
OnLine(p) ==
    /\ last_occupied[p] # covered[p]
    /\ last_occupied' = [last_occupied EXCEPT ![p] = covered[p]]
    /\ pi_inbox' = Delivered(pi_inbox, pi, Occupancy(p, covered[p]))
    /\ laptop_inbox' = Delivered(laptop_inbox, laptop, Occupancy(p, covered[p]))
    /\ stale' = [pi     |-> IF Reached(pi) THEN stale.pi \ {p} ELSE stale.pi \cup {p},
                 laptop |-> IF Reached(laptop) THEN stale.laptop \ {p} ELSE stale.laptop \cup {p}]
    /\ UNCHANGED <<covered, node, occupied, net>>

Received(inbox, kind) == inbox # <<>> /\ Head(inbox).kind = kind

\* Faulty variant: only that the lot became full is news.
FlippedToFull(full) == full /\ last_full # TRUE

Flipped(full) == full # last_full

\* LotFullIndicator._on_occupancy.
OnOccupancy ==
    /\ Received(pi_inbox, "occupancy")
    /\ LET m == Head(pi_inbox)
           known == IF m.place \in Spots THEN [spots EXCEPT ![m.place] = m.taken] ELSE spots
           full == \A s \in Spots : known[s]
       IN  /\ spots' = known
           /\ IF m.place \in Spots /\ Flipped(full)
              THEN last_full' = full /\ pi_inbox' = Delivered(Tail(pi_inbox), pi, LotFull(full))
              ELSE pi_inbox' = Tail(pi_inbox) /\ UNCHANGED last_full
    /\ UNCHANGED <<covered, last_occupied, led, occupied, net, laptop_inbox, stale>>

\* StatusLed._on_command.
OnLotFull ==
    /\ Received(pi_inbox, "full")
    /\ led' = Head(pi_inbox).full
    /\ pi_inbox' = Tail(pi_inbox)
    /\ UNCHANGED <<covered, last_occupied, spots, last_full, occupied, net, laptop_inbox, stale>>

\* Faulty variant: a place once taken stays taken.
StoreOccupancyNeverFrees ==
    /\ laptop_inbox # <<>>
    /\ LET m == Head(laptop_inbox)
       IN  occupied' = IF m.taken THEN occupied \cup {m.place} ELSE occupied
    /\ laptop_inbox' = Tail(laptop_inbox)
    /\ UNCHANGED <<covered, last_occupied, node, net, pi_inbox, stale>>

\* StorageService._on_occupancy, as far as the table of places is concerned.
StoreOccupancy ==
    /\ laptop_inbox # <<>>
    /\ LET m == Head(laptop_inbox)
       IN  occupied' = IF m.taken THEN occupied \cup {m.place} ELSE occupied \ {m.place}
    /\ laptop_inbox' = Tail(laptop_inbox)
    /\ UNCHANGED <<covered, last_occupied, node, net, pi_inbox, stale>>

-----------------------------------------------------------------------------
(* Cars, connections, nodes.                                               *)

\* The places of the events in an inbox.
UnderWay(inbox) == {p \in Places : \E i \in DOMAIN inbox : inbox[i].kind = "occupancy" /\ inbox[i].place = p}

\* A car is put in a place or taken out of it.
Change(p) ==
    /\ Len(pi_inbox) < MaxPending /\ Len(laptop_inbox) < MaxPending
    /\ covered' = [covered EXCEPT ![p] = ~@]
    /\ UNCHANGED <<last_occupied, node, occupied, net, pi_inbox, laptop_inbox, stale>>

\* The Pi loses its connection, and what was under way to it.
PiDown ==
    /\ "broker" \in failing /\ pi # "down"
    /\ pi' = "down" /\ pi_inbox' = <<>>
    /\ stale' = [stale EXCEPT !.pi = @ \cup UnderWay(pi_inbox)]
    /\ UNCHANGED <<covered, last_occupied, node, occupied, laptop, failing, laptop_inbox>>

\* The connection is there; the subscriptions follow in MqttBus._on_connect.
PiConnect ==
    /\ pi = "down" /\ pi' = "connected"
    /\ UNCHANGED <<covered, last_occupied, node, occupied, laptop, failing, pi_inbox, laptop_inbox, stale>>

PiSubscribe ==
    /\ pi = "connected" /\ pi' = "subscribed"
    /\ UNCHANGED <<covered, last_occupied, node, occupied, laptop, failing, pi_inbox, laptop_inbox, stale>>

LaptopDown ==
    /\ "broker" \in failing /\ laptop # "down"
    /\ laptop' = "down" /\ laptop_inbox' = <<>>
    /\ stale' = [stale EXCEPT !.laptop = @ \cup UnderWay(laptop_inbox)]
    /\ UNCHANGED <<covered, last_occupied, node, occupied, pi, failing, pi_inbox>>

\* After a lost connection storage goes on; a restarted node starts with an empty store.
LaptopUp ==
    /\ laptop = "down" /\ laptop' = "subscribed"
    /\ \/ UNCHANGED <<occupied, stale>>
       \/ occupied' = {} /\ stale' = [stale EXCEPT !.laptop = Places]
    /\ UNCHANGED <<covered, last_occupied, node, pi, failing, pi_inbox, laptop_inbox>>

\* The lamp is off after the board was reset.
Reset ==
    /\ "board" \in failing /\ led
    /\ led' = FALSE
    /\ UNCHANGED <<covered, last_occupied, spots, last_full, occupied, net, pi_inbox, laptop_inbox, stale>>

-----------------------------------------------------------------------------
Nodes == OnOccupancy \/ OnLotFull
Up == PiConnect \/ PiSubscribe

Next ==
    \/ \E p \in Places : OnLine(p) \/ Change(p)
    \/ Nodes \/ StoreOccupancy
    \/ Up \/ LaptopUp \/ PiDown \/ LaptopDown \/ Reset

Spec == Init /\ [][Next]_vars

\* The Mega prints a line per sensor twice a second, the nodes handle their messages, and a
\* lost connection is taken up again.
LiveSpec ==
    /\ Spec
    /\ \A p \in Places : WF_vars(OnLine(p))
    /\ WF_vars(Nodes) /\ WF_vars(StoreOccupancy) /\ WF_vars(Up) /\ WF_vars(LaptopUp)

-----------------------------------------------------------------------------
Full == \A s \in Spots : covered[s]

\* A place's last event in an inbox.
LastEvent(inbox, p) ==
    LET at == {i \in DOMAIN inbox : inbox[i].kind = "occupancy" /\ inbox[i].place = p}
    IN  {inbox[i].taken : i \in {n \in at : \A m \in at : m <= n}}

\* The indicator's and storage's tables differ from what the sensors have last seen only by
\* events under way and by places whose last event was lost: what a node missed of one
\* place harms no other, and the place's next event repairs it (OccupancySensor._on_line,
\* LotFullIndicator._on_occupancy, StorageService._on_occupancy).
TablesFollow ==
    \A p \in Places : last_occupied[p] # None =>
        /\ p \notin stale.laptop =>
               LET event == LastEvent(laptop_inbox, p)
               IN  last_occupied[p] = IF event = {} THEN p \in occupied ELSE TRUE \in event
        /\ p \in Spots \ stale.pi =>
               LET event == LastEvent(pi_inbox, p)
               IN  last_occupied[p] = IF event = {} THEN spots[p] ELSE TRUE \in event

Parked == <>[][FALSE]_covered

\* Once no car moves the lamp comes to tell whether every spot is taken, whatever events of
\* other places came between, if nothing ever fails (LotFullIndicator, StatusLed).
LedFollows == (failing = {} /\ Parked) => <>[](led = Full)

\* Once no car moves and the Pi is connected for good, the lamp comes to tell whether every
\* spot is taken, if only the broker fails (hardware/README.md: "the LED keeps working even
\* if the broker/laptop is briefly unreachable").
LedRecovers ==
    (failing = {"broker"} /\ Parked /\ <>[](pi = "subscribed")) => <>[](led = Full)
=============================================================================
