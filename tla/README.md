# Verification of the smart parking lot

A TLA+ model of this repository's valet car park: what the nodes keep and do,
checked on small lots with TLC and, where marked, proved for lots of any size
with TLAPS. Paths below are relative to the repository.

## 1. The system

Two nodes talk through an MQTT broker (`deploy/broker.py`, QoS 0, nothing
retained). The laptop keeps the records and plans; the Pi has the sensors, the
gate and the dispatcher. People move the cars.

```
 sensors (Pi) --occupancy, nfc, dial, motion--> storage + problem generation (laptop)
                                                        | ProblemMessage
                                                     planner --AdmissionResult--> storage
                                                        | PlanMessage
 gate servo, valets <--GateCommand, VehicleMove-- dispatcher (Pi)
                     storage <--Assignment, Move, ExitAuthorization--+
```

### Components

| Component | State | Operations | Interacts by | Hard part | Correct when |
|---|---|---|---|---|---|
| `parking/storage` | customer records, vehicle locations, occupied places, pending moves, dial value, gate presence | one handler per message | subscribes to 8 topics, read directly by problem generation and dashboard | events in any order, checkout racing a move | record agrees with the sensors and with itself, no request is lost |
| `parking/problem_generation` | none but a counter | after every occupancy, NFC and motion event, one problem for the most urgent request | reads the store, publishes a problem | reservations are inferred from statuses | never promises what is promised |
| `parking/planning` | last error | solve a problem; answer arrivals | problem in; plan and admission result out | completeness, search limit | executable shortest plan, or there is none |
| `parking/dispatching` `PlanDispatcher` | none | one command (or two) per plan action, without waiting | plan in, commands out | plan runs ahead of the world | commands are what the world allows |
| `GateSafetyController` | open, delay elapsed, latest distance, timer, lock | gate command, distance reading, timer callback | bus thread, timer threads | stale callbacks, publish after unlock | an open gate is always timed and closes |
| `LotFullIndicator` | occupancy, last value | occupancy event | publishes changes only | lost change is never repeated | LED agrees with the spots |
| `parking/sensors` | last value, debounce window, dial | serial line to event | `MegaLink` listener | change detection, debouncing | one event per change |
| `parking/actuators` | none | command to serial line | bus | gate servo handles commands before the controller | |
| `parking/mega_link.py` | port, lock, listeners | read loop, write, reconnect | two threads | both reconnect at once | a broken port is replaced, once |
| `parking/common/messaging` | subscriptions, broker filters | publish, subscribe, reconnect | network thread | filters rebuilt during a subscribe | every topic subscribed once |
| `parking/common/models`, `topics` | none | encode, match | | | |
| `parking/visualization` | last moves, gate, recent messages | message, snapshot | last subscriber on the laptop; reads the store from web threads | store and messages seen at different times | the one instruction shown is a job to be done |
| `parking/simulation` | scenario thread, events, status, the demo's system | start, advance, reset, close | a thread per scenario, one per click | reset in the middle of a step, two starts at once | one runtime, no step unclicked, every click ends |
| `apps`, `deploy`, `config` | none | wiring | fixes the order of subscription | | |
| `hardware/mega/firmware` | receive ring, line, dial position, readers | interrupt, main loop | serial line | full ring, overlong line, 16-bit dial | commands are whole lines |

`PROJECT.json` lists, under `hazards`, the places in this code that are hard to
test, with the property that would catch each of them going wrong.

## 2. Modules

* **Storage** — `storage/service.py` over `memory_store.py`. One action per
  bus handler, each including the completions it triggers (`_complete_pending_moves`,
  `_complete_departures`). It leaves open which message arrives when. A card and
  its vehicle are one; the vehicle's location is kept in the card's record;
  minutes are whole hours, the only thing `_preferred_spot` tells apart;
  `requested_at` is the order it induces (`older`). A card never scanned is
  `unregistered`; everything else is a status of the code.
* **ProblemGeneration** — `pddl_generator.py` as operators on the store's
  contents: which request (`Target`), what is reserved, free and known
  (`Facts`), and the goal. A problem is a set of fact tuples, not PDDL text.
* **Planning** — `domain.pddl` and `forward_search.py`: the six action schemas,
  grounding in the planner's order, and the breadth-first search with its state
  limit. The search is written level by level: a FIFO queue takes all nodes of
  one length before the first longer one. A level is a set of nodes, whose order
  in the queue is the lexicographic order of their paths (`Ahead`), since every
  node's actions are tried in the same order; so the plan is the very plan the
  code returns. `Search` is a recursive function bounded by `MaxLevels`.
* **Lot** — the whole loop: instances of the three modules above, the message
  queues, `PlannerService`, `PlanDispatcher`, and drivers and valets. `laptop`
  is the laptop's inbox, `pi` the plan actions the dispatcher has still to carry
  out. A message goes to storage first, then (if a sensor event) to problem
  generation, in the order of subscription of `apps/laptop_node.py`; a published
  message joins the end of the inbox. The world (`where`, `ticket`, `orders`,
  `released`, `leaving`) is what the commands and sensors are about: a car is
  away, at the gate, in a place, carried by a valet, or at the exit.
* **GateSafety** — `gate_safety.py` with its threads: the bus thread hands each
  gate command to the servo driver and then to the controller; a timer thread
  fires, waits for the lock, decides, and publishes after releasing it. A
  command can be lost between driver and gate, on the serial link. A
  distance is `near` or `far` of `clear_distance_cm`; a reading out of range
  counts as far, as in `_is_blocked_locked`.
* **MegaLink** — `mega_link.py`: the reader thread and the bus thread, each
  taking the port under the lock, using it outside, and on failure detaching,
  closing and reopening it in three steps; `start` and `stop`. A connection is
  a number that works until it is closed or the board goes away; what the lines
  say is left out.
* **Sensing** — from the light sensors to the lot-full lamp and to storage's
  table of places: `OccupancySensor` and `LotFullIndicator`, which publish
  changes only, `StatusLed`, and an MQTT broker that keeps nothing for a node
  that is not connected or has not yet subscribed. The Pi's process does not
  restart in it; its connection may fail, the laptop may fail or restart, and
  the Mega may be reset.
* **Firmware** — the command input of `mega_controller.c`: the receive
  interrupt and its ring, `uart_try_getc` in two steps so that the interrupt can
  come between them, `gate_poll_uart`, `gate_handle_line`, and resets. A byte is
  known by its position in everything sent, which tells what became of it.
* **Visits** — the abstract specification of a customer's visit: `away`,
  `waiting` at the gate, `admitted`, `staying`, `claimed` (checked out),
  `released` (the gate opened on the way out); no more guests than spots, and
  nobody waits forever. `Lot` maps every car to a phase (`Phase`) and is shown
  to implement it (`VisitsKept`): messages, plans and moves are stutters.
* **Dashboard** — `visualization/model.py` over `Lot`: the last subscriber of the
  laptop, one message behind (`unseen`), remembering each car's last move; the
  state of a place (`SpotState`), the table of customers and the counts
  (`Snapshot`) and the one instruction for the staff
  (`Instruction`) are operators, for a snapshot changes nothing. Plans,
  distances and the list of activities are shown as they come and left out.
* **Guided** — `guided_demo.py`: a scenario thread with its two events,
  polled where the code polls them; the buttons, each click on a thread of the
  web server, with `_cancel_active`, `_replace_system` and their callers split
  at every statement another thread can observe. A script is the list of what
  it waits for after each click; whether the lot answers is `Lot`'s business, so
  here an answer comes or a timeout does. A system is a number; old ones, and
  dead threads, are used again.
* **Panel** — from the customer's card and dial to the record: the Mega's loop
  polling a reader that may miss a card, `NfcReader`, `DurationDial`, and
  storage pairing dial and scan. Time is counted in polls of the reader. The
  serial line works throughout: what is lost while it is reconnected is
  `MegaLink`'s subject.
* **MCStorage, MCPlanning, MCLot, MCGateSafety, MCMegaLink, MCSensing,
  MCFirmware, MCDashboard, MCGuided, MCPanel** — instances for TLC.
  MCPlanning also states what planning is compared with.
* **StorageProofs, PlanningProofs, LotProofs, ThreadsProofs, SensingProofs,
  FirmwareProofs, PanelProofs, GuidedProofs** — theorems about the module each is
  named after (PlanningProofs: about what MCPlanning states; LotProofs: also about
  Dashboard; ThreadsProofs: about GateSafety and MegaLink, the two components
  whose own threads share state).

Definitions commented *Faulty variant* are not part of the model. Each is a
plausible bug of the definition next to it; replacing the definition by its
variant makes the property named in `PROJECT.json` (`mutants`) fail, which shows
that the property says something about the code.

## 3. Runs

| Run | Question | Instance | Result |
|---|---|---|---|
| `storage` | Do the records stay consistent whatever arrives? | 2 cards (symmetric), 1 spot, 1 bay; every handler with every argument at any time | holds, 415 thousand states |
| `planning` | Is the planner's answer right? | every fact set that the domain's own actions and the generator's facts lead to, from an empty lot of 2 spots and 1 bay with 2 cars, with every goal | holds, 26 thousand problems |
| `gate` | Is an open gate ever forgotten? | 3 openings, any readings, stop at any time | holds |
| `lot` | Does the whole loop keep its promises? | 3 cars, 2 spots, 1 bay, patient drivers, one valet | holds, 44 thousand states |
| `lot_gate` | Is every arrival answered when a gate sensor sees waiting cars? | as `lot`, with that sensor | **violated** |
| `dashboard` | Is what the dashboard shows and orders true? | as `lot`, safety only | holds, 289 thousand states |
| `link` | Do the two threads get along when the port breaks? | no bounds: everything any time | holds, 2 thousand states |
| `firmware` | Is every command that got through carried out, and nothing else? | 3 commands of 2 or 3 bytes and their ends, ring of 6, line of 6, one reset | holds, 359 thousand states |
| `sensing` | Do lamp and storage know which places are taken? | 2 spots, 3 messages under way, nothing or everything fails | holds, 466 thousand states |
| `panel` | Is a tap a scan, and the dial the right customer's? | 2 cards, 3 detents each way, debounce of 3 polls, cards held for up to 7 | holds, 119 thousand states |
| `guided` | Do scripts, clicks and resets leave one clean runtime? | the three real scripts, one click handled at a time | holds, 19 thousand states |
| `guided_two` | Is there one scenario at a time? | two clicks handled at the same time | **violated** |

**storage.** `RecordConsistent` relates status, location, bay and pending move;
`CheckoutActedOn` says a checkout stays visible in the status; the action
properties say a location follows the sensors (`LocationConfirmed`), a departure
needs bay and gate clear (`DepartureConfirmed`) and is completed by whichever of
them clears last (`DepartureNotMissed`). With one spot and one bay every
handler can still meet every record: a handler touches one record, and a place
matters only as origin, destination, or neither of a car's move; a second card
is there for the choice of the oldest entrant.

**planning.** `MaxLevels` is 18: the run itself checks, for every problem found to
have no plan, that the last of these actions reaches nothing new. `MaxStates` is 19
(the code's is 100 000): in 154 of the problems the search gives up although there is
a plan, and in 19 it meets the goal when it has visited just as many as it may.
`SearchIsComplete` says when the planner may report that there is no plan: when nothing
reaches the goal, or when in as many actions as do more than `MaxStates` states short of
it are reached too.

**gate.** Three openings: a stale callback, the opening it disturbs, and one
more that the orphaned timer of the second can disturb. The serial link may give
any command up (`MegaLink`). When it is a close, the controller takes the gate for
closed and nobody closes it (`missed`): `ServoIsWatched` and `GateCloses` say that
this, and for the latter `stop()`, is the only way a gate stays open.

**lot.** The properties relate what is recorded to where the cars really are, once
all messages are handled: which places are taken (`PlacesKnown`), and of every
car where it is and which move is to be made with it (`RecordIsTrue`). Others hold
all the time (`SpotsNotShared`, `EntryBayFree`), say that nobody is rejected except for
want of room (`RejectedOnlyWhenFull`), or that a request whose spot and bay are there is
served without touching another car (`ServedDirectly`). `VisitsKept` is the refinement: `Lot`
with its fairness implements `Visits` with its own, so everybody at the gate is
let in or turned away, whoever checks out gets the car, and no car is let out
unasked. Three cars on two spots and one bay make the lot full, queue pickups,
and let one visit follow another by the same card.

**dashboard.** There is one instruction on the screen, for the most urgent
customer. `CarsShown` says that with all messages handled it is a job somebody has
really been given, that there is one whenever there is a job, that a car called
ready stands in the bay named and may leave, that a car called rejected has not been
let in (`InstructionTrue`), and that the
table of customers, the cars named in the places and the number of requests are
right (`TableTrue`; a car that has left may still count while the gate is
blocked). `PlacesShown` compares the places, their counts and the gate with the
lot. Neither says anything of a snapshot taken
between storage's handling of a message and the dashboard's: it can pair a new
status with the move of the customer's previous visit. And a rejection is not
shown while any customer's car is inside, since every active customer goes first.

**link.** A command is dropped only if the board was away during it or another
thread took its port (`DroppedOnlyIfDisturbed`); once board and senders rest,
the threads stop reopening each other's ports and no dead port is kept
(`LinkSettles`); a command that got through leaves a link that is read as well
(`SendHealsReader`); `stop` ends the reader (`ReaderStops`). There are no
constants to choose: port and threads hold at most three connections, so four
numbers are enough to have a fresh one.

**firmware.** The real ring holds 31 bytes, between two and three commands with
their ends, and a line 15 characters, some pairs of commands and not others;
the instance keeps these relations at small numbers, with commands that share a
beginning. `RingIsQueue` relates the ring to what arrived, and `WholeObeyed`,
`NoOtherObeyed` and `LastWins` say that a loss stays with the commands it hit. They do not say that
commands cut by a loss do nothing: `LED O` of one and `N` of another, the bytes
between lost, is `LED ON`; and of a line that is too long only the part that
overflowed is dropped, its rest is read as a line of its own.

**sensing.** `TablesFollow` says exactly when the two tables may be wrong about
a place, with `stale`, a history of the places whose last event a node lost;
`LedFollows` says that the lamp ends at the truth if nothing fails. `MaxPending`
bounds the messages under way at which a car still moves: three let the lot
become full, free and full again before the first event is handled. A bay would
add events that the indicator ignores and that storage treats like those of
spots.

**panel.** `OneScanPerTap` bounds the scans of a card by the time it has lain
there, however often the reader loses it; `CardKnown` says that debouncing
overlooks no card, the same card laid down again, or one swapped for another
between two polls, included; `DurationPaired` that a scan takes the minutes the
LCD showed when the card was read, if the dial was turned since the scan before,
and none otherwise, although dial events and scans are still under way then. The
dial reaches either end of its range in two detents and has one more beyond. The
debounce time is three polls instead of twenty, the dial's range shorter: what
matters is that a card can be lost and found within the time and beyond it.
`PanelAssumption` keeps the dial within 6547 detents of zero; beyond, the Mega's
16-bit product wraps and the LCD shows something else than the Pi computes.

**guided.** `RuntimeKept` says that no script talks to a system that is being
replaced, `OneRuntime` and `StatusTrue` what is left once a click has been
handled, also when the new system could not connect; `StepsClicked` that a step
is carried out only if clicked while it was shown, `ClickHonoured` that such a
click is not lost, `RequestEnds` that a reset always gets its thread to end.
Two threads and two systems are enough: at one click at a time a second one of
either is there only while the first is being replaced. An operator may close
the demo, so the run may stop. `thread.join` gives up after three seconds; the
model waits for the thread's end, which polls several times a second.

### Bounds and assumptions of the Lot runs

* `Prompt`: drivers and valets act when both nodes have handled everything, as
  the scripts of `guided_demo.py` do and as a human's pace makes likely. Messages
  of one event still interleave between the nodes in every order.
* `Patient`: nobody scans at the gate while a car is on its way to a spot. With
  `Patient = FALSE`, `EntryBayFree` fails already with two cars: a car being
  parked is still recorded in the bay, so for an arrival the planner first
  "parks" that car, which frees the bay within the plan, and the dispatcher
  opens the gate in the same breath, against `docs/message-flow.md:113-115`. So
  does `SpotsNotShared` with one spot: promised to a car being parked whose
  owner has checked out, it is freed within the plan by retrieving that car,
  and assigned once more.
* `Valets = 1`: one car is moved at a time. With two, a bay can be taken by the
  next car before the sensor of the parked one confirms its move, and
  `RecordIsTrue` fails: the sensors cannot tell the cars apart.
* `Installations`: no gate sensor (the Pi's hardware, `gate_safety.py:3`) or one
  that sees cars on their way out; in `lot_gate` the simulation's, which sees
  waiting cars as well.
* One bay, the default configuration, and so the one `dispatcher.py` names
  (`DefaultBuffer`). With two, plans may retrieve and re-park a
  car to make room, and a spot can be promised twice even to patient drivers.
* `MaxHours = 0`: the dial shifts the choice among free spots only; the choice
  with hours is in ProblemGeneration and not exercised by these runs.
* The gate stays open until its car has passed (the delay of `GateSafety` is not
  composed with `Lot`).

### Fairness

`GateSafety`: threads run, the broker delivers, and the ranger, which reports
about once a second whatever happens, keeps finding the gate clear in the end.
Opening the gate and stopping the node are not fair. `Lot`: each node handles
its inbox (weak fairness, written out: an inbox is empty again and again, or the
node keeps taking steps); drivers and valets do what they are again and again
free to do (strong fairness, since under `Prompt` the world pauses whenever the
nodes work and since a place or the only valet may be taken in between). Nobody
has to arrive or to check out.

`Guided`: scenario threads and the handling of a click run; what a script waits
for comes or is given up after eight seconds. Nobody has to click.

`MegaLink`: both threads run (a thread that waits for I/O is woken by data, an
error or the timeout). Board, senders, start and stop are not fair. `Sensing`:
the Mega prints every sensor's line twice a second, nodes handle their
messages, and a lost connection is taken up again (paho reconnects); nothing
has to fail and no car has to move. `Firmware`: the main loop runs and bytes
that were sent arrive; nothing has to be sent.

## 4. Where code and documentation part

Two runs expect a violation.

1. **lot_gate** (`docs/message-flow.md:113-115`, a driver is let in or rejected).
   The next driver waiting at the gate keeps `_gate_present` true, so the departure before is not
   completed and the bay stays reserved; a pickup queued before the arrival
   takes every planning round without success. Nobody moves again.
2. **guided_two** (`guided_demo.py:199`, "A scenario is already running").
   `start_scenario` tests for a running thread under the lock and starts one
   after releasing it: two clicks at once start two scenarios on shared state.

Five more configurations show disagreements that are not runs of the project;
TLC finds the property of each violated, `tlc -config <cfg> <module>`.

* `MCGateDelay.cfg` (MCGateSafety, `ClosesAfterDelay`; `gate_safety.py:4-5`, a
  fixed delay). A timer whose delay is over cannot be cancelled. Its callback,
  waiting for the lock while the gate is opened again, closes it at once; so
  does a close already published.
* `MCLotBay.cfg` (MCLot, `BayPromisedOnce`; `parking/storage/README.md:13`, move
  commands reserve resources). While a third car is being parked, two pickups
  both get a plan that frees the bay, and both cars are ordered to it.
* `MCMegaLinkHeal.cfg` (MCMegaLink, `ReaderHeals`; `mega_link.py:32-35`, both
  directions self-heal). `_reconnect` tries once, after half a second. If the
  board is not back by then there is no port, and the reader only waits for one;
  only a command opens it again.
* `MCSensingLed.cfg` (MCSensing, `LedRecovers`; `hardware/README.md:207-209`,
  Pi-local end to end). Both hops go through the broker, and neither sensor nor
  indicator repeats a change.
* `MCPanelLcd.cfg` (MCPanel, `LcdIsUsed`; `mega_controller.c:486-488`, the LCD
  shows the duration the rest of the system uses). A customer who does not touch
  the dial sees the last one's minutes, or 30, and is registered with none.

## 5. Proofs

`StorageProofs`, for any sets of cards, spots and bays and any bound on hours,
assuming only `StorageAssumption` (spots and bays differ, and are not `""` or
`OUTSIDE`):

* `TypeCorrect` (proved only; no run repeats it), `RecordAlwaysConsistent`, `CheckoutNeverForgotten`, and three
  action properties, `LocationAlwaysConfirmed`, `DepartureAlwaysConfirmed` and
  `DepartureNeverMissed`. The first two of these rest on `StepPlace`, the list of what a
  step can do to one car's place, itself drawn from one lemma per handler.
* The invariant `IInv` is `TypeOK` with `Good(record, pending move)` for every
  card. The three properties are not inductive one by one: that a parked car has
  no pending move needs that a moving one has its own, and that a finished move
  does not lose a checkout needs the status it had. Handlers change one record,
  or each record on its own, so there is one lemma per record change
  (`EnteredGood`, `FinishedGood`, ...) and one per handler.

`ThreadsProofs` on `GateSafety`, for any number of openings, assuming
`GateAssumption`:

* `OpeningIsAlwaysTimed` and `ServoIsAlwaysWatched`.
* `IInv` adds to the two properties that the timer of the opening in force is
  the one in `_timer` (`TimerOK`: a stale callback may forget it, but then the
  delay counts as elapsed), and that between the two subscribers of a close the
  gate is shut or the link has given the close up (`HandingOK`).

`PlanningProofs`, for any cars, spots and bays, any facts and any goal, assuming
`PlanningAssumption` (the three lists are sequences, the bounds numbers):

* `PlansAreExecutable` and `PlansAreShortest`; and `NoPlanIsMissed`, wherever
  `MaxLevels` actions reach all there is (which the run checks of its own problems);
  the planner's limit on states is part of what is proved. It needs that all the search
  has visited is short of the goal (`Misses`, in `Complete`), so that a goal within
  `MaxStates` such states (`Fits`) is found before the limit is met.
* What holds after every level (`LevelOK`): each node of the queue can be reached
  as its path says (`Leads`), and while the queue is not empty all that as many
  actions reach has been visited in vain (`Covers`). That needs `Closed`: what a
  visited state leads to has been visited unless the state is still queued. A
  duplicate within a level is harmless because among nodes of one length one is
  tried first (`FirstNode`, the least path). A step of a plan gives only name and
  arguments; `ActionFound` shows that these determine the action.
* The induction over levels is not the library's rule, whose parameter is an
  operator. `Levels` is an induction rule for a set of numbers, drawn from the
  least member that every set of numbers has, and that from the order of the
  naturals being well-founded. With it the recursive functions (`Search`,
  `Layers`, `Trace`) are shown to exist and to be what they are defined to be.

`ThreadsProofs` on `MegaLink`: `NoCommandDroppedUndisturbed`. `LinkInv` says which attempt each
step of a send belongs to, and, of a send that nobody has disturbed, that the
board is there, that the reader is not about to close what the send writes to,
and that from its own reopening on it has a connection that works.

`SensingProofs`, for any places and any faults, assuming `SensingAssumption`:
`TablesFollowSensors`. `IInv` says of every place not lost track of that the last
event about it under way tells what its sensor has seen, or, if there is none,
the table does; a node's restart or a lost connection changes `stale` as well.

`FirmwareProofs`, for any size of ring and line and any commands, assuming
`FirmwareAssumption` and `CommandAssumption` (a command fits the line, contains
no end of line, and none ends like another, as the four of the code do):

* `TypesHold` (ring and line stay within their buffers), `NoLockNeeded`
  (`RingIsQueue`), `LossIsLocal` (`WholeObeyed`) and `NoCommandMistaken`
  (`NoOtherObeyed`).
* `QueueInv` says that what waits in the ring is, in rising order, exactly what
  arrived, was not dropped and has not been read, and that the byte held between
  the two steps of `uart_try_getc` is its first; it is inductive alone. `StreamOK`
  tells where each command lies in all that was sent, and `LineOK` that the line
  ends with what was read of a command that has lost nothing so far, and is
  that alone if it began behind the end of another.

`PanelProofs`, for any cards, debounce time and bounds, and any range of the dial
within the Mega's 16 bits, assuming `PanelAssumption`: `NoCardOverlooked`,
`OneScan` and `MinutesAreTheirs`. `IInv` says what the one line on its way can be,
that each scan but the first took the debounce time (`ScanOK`), and, for every
scan under way on the bus, that the last dial event before it since the previous
scan carries the minutes shown at it (`PairOK`).

`GuidedProofs`, for any number of threads and systems, assuming
`GuidedAssumption` and `OneClick`, that clicks are handled one at a time (the
run `guided_two` shows what happens if they are not): `RuntimeIsKept`,
`RuntimeIsOne`, `StatusIsTrue`, `ScenarioIsOne`, and the action property
`StepsAreClicked`. `IInv` has one part for the living thread, which is the one the
controller knows and uses the running system (`ThreadOK`), one for each place of
its program (`ProgressOK`), and one for each stage a click can be in
(`RequestOK`): which of event, thread, system shown and system running have been
changed already.

`LotProofs`, for any lot, any number of valets, any gate sensor, patient or
impatient drivers and also where the nodes are slow (`Prompt = FALSE`), assuming
`LotAssumption` (the configured names differ, and from the words for being off
the lot):

* `StoreImplemented`: every step of `Lot` is a step of `Storage` or leaves the
  store alone. It needs that what reaches a handler is something `Storage`
  provides for: the message names cards and places of the lot (`InboxOK`), because
  the actions of a plan do (`PlanOfActions` of `PlanningProofs`) and a new
  problem's target is a customer (`TargetIsCard`: the order of requests has no
  cycles, `Ranked`, so somebody's is the oldest).
* `StoreKeepsPromises`: hence the theorems of `StorageProofs` hold in the loop.
* `PlacesAlwaysKnown` and, of the dashboard, `PlacesAlwaysShown`. `EventsTold` says
  of every sensor that the last event under way about it tells what it sees, or
  else the store does (`Follows`). A car that moves adds the events of its two
  places, with the gate's before or after them; that a place is seen free when its
  car leaves needs that no two cars are in one place (`Apart`).
* `RequestsServedDirectly` (`ServedDirectly`): if the problem says that there is a spot
  and a bay for its request, its plan is the one action, or for an arrival the three, that
  the request needs, with places the record keeps for it or has free. And
  `RequestsAnswered`: there is such a plan, if the planner may visit all states short of
  the goal that three actions reach (`BoundsSuffice`); so an arrival is rejected only if the record its problem was made
  from had no free spot or no free bay.
  - A problem is handled some messages after it was generated. `ProblemsOK` says of each
    one under way that it was generated from some consistent record (`FromRecord`); that
    the record is consistent then is `StoreKeepsPromises`.
  - What such a record says of the car: the fact the plan starts from is there, its place
    is one, and nothing the goal needs is there already (`ReadyThere`, `InBufferThere`, ..., `FactsSay`); the
    spot and the bay of the goal are free if any is (`PreferredSpotFree`,
    `PreferredBufferFree`).
  - That plan is, up to the choice of an arrival's bay, the shortest there is: lemmas
    `DirectExit`, `DirectPark`, `DirectRetrieve`, `DirectArrival` of `PlanningProofs`, for any
    facts and goal of that form. They rest on what `PlansAreShortest` and `NoPlanIsMissed` do: an answer
    has no more actions than a plan that is known (`AnswerWithin`, `AnswerExists`), and
    what a fact of the goal needs is added by one action only (`AddsReady`, `AddsShown`, ...).
  - Without a free bay nothing of the kind holds: a plan may then repeat the moves of other
    cars first, to have the bay freed (section 3, `Patient`).
* The modules composed are instances of the ones proved about: lemmas `Same...`
  show, operator by operator, that two instances over the same constants agree.

Only model-checked: `SpotsNotShared`, `EntryBayFree`, `RecordIsTrue`,
`RejectedOnlyWhenFull` (of which `RequestsAnswered` proves the planner's part, about the
record and not about the cars) and `CarsShown`, the refinement `VisitsKept` and every
liveness property (`GateCloses` and those of `MegaLink`, `Sensing`, `Firmware` and
`Guided`); the prover has no rules for the last. The others hold only under the
assumptions of their runs (prompt, patient, one bay, one valet; section 3 says
what breaks them), and an inductive invariant would have to say how each of these
keeps records, plans, orders and the world in step. For example, with two bays, one
spot and two cars, `SpotsNotShared` fails even for patient drivers and prompt nodes:
while `c1` is being brought to `b1`, the plan for arriving `c2` brings it to `b2`
instead, gives its spot to `c2`, and parks it there again.

## 6. Not modelled

PDDL text, JSON and topic matching (data); the dashboard's layout, its list of
activities and the console view; configuration and wiring; LED stubs;
`simulation/controllers.py` (a stand-in no node runs); device access in the
firmware, the decoding of the encoder's contacts and of a card's answer, and the
calibration command; lost MQTT messages and restarts of the laptop other than in
`Sensing` (the store is in memory and nothing is retained: a restart is a new,
empty system); `runnable`, the demo's pause event, which nothing ever clears.
The rest of what is missing is in the plan.

## 7. Plan

Done: Storage, ProblemGeneration, Planning, Lot and its refinement of Visits,
GateSafety, MegaLink, Sensing, Firmware (its command input), Panel, Dashboard,
Guided, and the proofs above.

Next, in this order:

1. **One bay**: the inductive invariant of `Lot` for one bay, one valet, prompt
   nodes and patient drivers, for `RecordIsTrue` and with it `SpotsNotShared` and
   `EntryBayFree` for any number of cars and spots.
2. **Slower nodes**: `Lot` with `Prompt = FALSE`. What is proved in `LotProofs` holds
   there too. Known from the model: a repeated move command can overtake its
   confirmation, and a checkout right after entry can leave a pending move on a
   departed card. Say what else still holds.
3. **Gate and lot**: `GateSafety` composed with entry and exit: the gate may
   close before its car has passed.
4. **MqttBus**: subscriptions against `_on_connect`.
5. **Two bays**, and bays of other names than the dispatcher's default.
