---------------------------- MODULE GateSafety ----------------------------
(***************************************************************************)
(* parking/dispatching/gate_safety.py: GateSafetyController closes the     *)
(* gate a fixed delay after it was opened, unless the distance ranger      *)
(* reports something near.                                                 *)
(*                                                                         *)
(* Its handlers run on the bus thread, the delay callback on a thread of   *)
(* its own per timer; both take the controller's lock, and both publish    *)
(* the close command only after releasing it.  Cancelling a timer does not *)
(* stop one whose delay has passed and whose callback waits for the lock.  *)
(* Gate commands, the controller's own included, come back to the node     *)
(* through the broker, in the order published; the bus thread hands each   *)
(* to the servo driver and then to the controller.  The driver writes it   *)
(* to the serial link, which gives a command up when two attempts to write *)
(* it fail: the gate then stays as it is, and nobody is told.              *)
(***************************************************************************)
EXTENDS Naturals, Sequences

CONSTANTS MaxOpens,   \* bound: how many times the plan dispatcher opens the gate
          None

Timers == 1..MaxOpens     \* one timer per opening, named after it
Close == 0
Commands == {Close} \cup Timers   \* a close command, or the n-th open command

ASSUME GateAssumption == MaxOpens \in Nat /\ None \notin Nat

VARIABLES open,           \* _open
          delay_elapsed,  \* _delay_elapsed
          latest,         \* _latest_distance_cm, against clear_distance_cm
          timer,          \* _timer: the one the controller would cancel
          timers,         \* every timer ever started, and what its thread is doing
          last_open,      \* the last opening the controller was told of
          bus,            \* the bus thread: idle, between the two subscribers of the
                          \* first command of inbox, or about to publish a close
          inbox,          \* gate commands on their way to the node
          servo,          \* the gate itself
          missed,         \* the last command for it was a close that the serial link gave up
          requested,      \* number of opens published by the dispatcher
          running         \* stop() not called yet

vars == <<open, delay_elapsed, latest, timer, timers, last_open, bus,
          inbox, servo, missed, requested, running>>

TypeOK ==
    /\ open \in BOOLEAN /\ delay_elapsed \in BOOLEAN /\ running \in BOOLEAN
    /\ latest \in {"none", "near", "far"}
    /\ timer \in Timers \cup {None}
    /\ timers \in [Timers -> {"unused", "armed", "firing", "closing", "done"}]
    /\ last_open \in 0..MaxOpens /\ requested \in 0..MaxOpens
    /\ bus \in {"idle", "handing", "closing"}
    /\ inbox \in Seq(Commands)
    /\ servo \in {"open", "close"} /\ missed \in BOOLEAN

Init ==
    /\ open = FALSE /\ delay_elapsed = FALSE /\ latest = "none"
    /\ timer = None /\ timers = [i \in Timers |-> "unused"] /\ last_open = 0
    /\ bus = "idle" /\ inbox = <<>> /\ servo = "close" /\ missed = FALSE
    /\ requested = 0 /\ running = TRUE

-----------------------------------------------------------------------------
Blocked(d) == d = "near"

\* _cancel_timer_locked, on the timers: only one still waiting can be stopped.
Cancelled == [i \in Timers |-> IF i = timer /\ timers[i] = "armed" THEN "done" ELSE timers[i]]

\* PlanDispatcher opens the gate for an entry or an exit; it runs on the bus thread.
RequestOpen ==
    /\ bus = "idle" /\ requested < MaxOpens
    /\ requested' = requested + 1
    /\ inbox' = Append(inbox, requested')
    /\ UNCHANGED <<open, delay_elapsed, latest, timer, timers, last_open, bus, servo, missed,
                   running>>

\* GateServo._on_command: the servo's driver is the first subscriber.  The gate obeys, or
\* MegaLink.send drops the command.
OnServoCommand ==
    /\ bus = "idle" /\ inbox # <<>>
    /\ bus' = "handing"
    /\ \/ /\ servo' = IF Head(inbox) = Close THEN "close" ELSE "open"
          /\ missed' = FALSE
       \/ /\ missed' = (Head(inbox) = Close)
          /\ UNCHANGED servo
    /\ UNCHANGED <<open, delay_elapsed, latest, timer, timers, last_open, inbox, requested,
                   running>>

\* Faulty variant: the new timer is stored before the old one is cancelled.
OnGateOpenCancelsNew ==
    /\ bus = "handing" /\ Head(inbox) # Close
    /\ bus' = "idle" /\ inbox' = Tail(inbox)
    /\ open' = TRUE /\ delay_elapsed' = FALSE
    /\ last_open' = Head(inbox) /\ timer' = None
    /\ timers' = [timers EXCEPT ![Head(inbox)] = "done"]
    /\ UNCHANGED <<latest, servo, missed, requested, running>>

\* _on_gate_command(open): a new opening starts the delay again.
OnGateOpen ==
    /\ bus = "handing" /\ Head(inbox) # Close
    /\ bus' = "idle" /\ inbox' = Tail(inbox)
    /\ open' = TRUE
    /\ delay_elapsed' = FALSE
    /\ last_open' = Head(inbox)
    /\ timer' = Head(inbox)
    /\ timers' = [Cancelled EXCEPT ![Head(inbox)] = "armed"]
    /\ UNCHANGED <<latest, servo, missed, requested, running>>

\* _on_gate_command(close), whoever published it.
OnGateClose ==
    /\ bus = "handing" /\ Head(inbox) = Close
    /\ bus' = "idle" /\ inbox' = Tail(inbox)
    /\ open' = FALSE
    /\ timer' = None
    /\ timers' = Cancelled
    /\ UNCHANGED <<delay_elapsed, latest, last_open, servo, missed, requested, running>>

\* The delay of timer i is over: its thread goes for the lock.  All timers have the same
\* delay, so those still waiting end in the order they were started.
Fire(i) ==
    /\ timers[i] = "armed" /\ \A j \in Timers : j < i => timers[j] # "armed"
    /\ timers' = [timers EXCEPT ![i] = "firing"]
    /\ UNCHANGED <<open, delay_elapsed, latest, timer, last_open, bus, inbox, servo, missed,
                   requested, running>>

\* Faulty variant: the gate counts as closed although something stands in it.
OnDelayElapsedForgets(i) ==
    /\ timers[i] = "firing"
    /\ timer' = None
    /\ delay_elapsed' = TRUE
    /\ open' = FALSE
    /\ timers' = [timers EXCEPT ![i] = IF open /\ ~Blocked(latest) THEN "closing" ELSE "done"]
    /\ UNCHANGED <<latest, last_open, bus, inbox, servo, missed, requested, running>>

\* _on_delay_elapsed, under the lock; it cannot tell whether it is the current timer's.
OnDelayElapsed(i) ==
    /\ timers[i] = "firing"
    /\ timer' = None
    /\ delay_elapsed' = TRUE
    /\ open' = (open /\ Blocked(latest))
    /\ timers' = [timers EXCEPT ![i] = IF open /\ ~Blocked(latest) THEN "closing" ELSE "done"]
    /\ UNCHANGED <<latest, last_open, bus, inbox, servo, missed, requested, running>>

\* _publish_close on the timer's thread, the lock released.
PublishClose(i) ==
    /\ timers[i] = "closing"
    /\ timers' = [timers EXCEPT ![i] = "done"]
    /\ inbox' = Append(inbox, Close)
    /\ UNCHANGED <<open, delay_elapsed, latest, timer, last_open, bus, servo, missed,
                   requested, running>>

\* Faulty variant: a reading that finds the gate clear is only remembered.
OnDistanceRemembered(d) ==
    /\ bus = "idle"
    /\ latest' = d
    /\ UNCHANGED <<open, delay_elapsed, timer, timers, last_open, bus, inbox, servo, missed,
                   requested, running>>

\* _on_distance, under the lock.
OnDistance(d) ==
    /\ bus = "idle"
    /\ latest' = d
    /\ IF open /\ delay_elapsed /\ ~Blocked(d)
       THEN open' = FALSE /\ bus' = "closing"
       ELSE UNCHANGED <<open, bus>>
    /\ UNCHANGED <<delay_elapsed, timer, timers, last_open, inbox, servo, missed, requested,
                   running>>

\* _publish_close on the bus thread.
BusPublishClose ==
    /\ bus = "closing"
    /\ bus' = "idle"
    /\ inbox' = Append(inbox, Close)
    /\ UNCHANGED <<open, delay_elapsed, latest, timer, timers, last_open, servo, missed,
                   requested, running>>

\* stop(): the timer is cancelled and forgotten, the gate stays as it is.
Stop ==
    /\ running
    /\ running' = FALSE
    /\ timer' = None
    /\ timers' = Cancelled
    /\ UNCHANGED <<open, delay_elapsed, latest, last_open, bus, inbox, servo, missed, requested>>

Next ==
    \/ RequestOpen
    \/ OnServoCommand
    \/ OnGateOpen
    \/ OnGateClose
    \/ \E i \in Timers : Fire(i) \/ OnDelayElapsed(i) \/ PublishClose(i)
    \/ \E d \in {"near", "far"} : OnDistance(d)
    \/ BusPublishClose
    \/ Stop

Spec == Init /\ [][Next]_vars

\* Threads run, the broker delivers, and whatever stands at the gate drives on: the ranger,
\* which reports every few hundred milliseconds, keeps reporting it clear.
Fairness ==
    /\ WF_vars(OnServoCommand) /\ WF_vars(OnGateOpen) /\ WF_vars(OnGateClose)
    /\ WF_vars(BusPublishClose) /\ WF_vars(OnDistance("far"))
    /\ \A i \in Timers : WF_vars(Fire(i)) /\ WF_vars(OnDelayElapsed(i)) /\ WF_vars(PublishClose(i))

LiveSpec == Spec /\ Fairness

-----------------------------------------------------------------------------
\* A close command has been decided on or is under way.
Closing == \/ bus = "closing"
           \/ \E i \in Timers : timers[i] = "closing"
           \/ \E n \in 1..Len(inbox) : inbox[n] = Close

\* An open command is being handed to the subscribers.
Opening == bus = "handing" /\ Head(inbox) # Close

\* The controller never forgets an open gate: while it runs, an opening it knows of whose
\* delay is not over has a timer that will still call back, whatever stale callbacks and
\* closes of earlier openings have done to _timer in between.
OpenIsTimed ==
    running /\ open /\ ~delay_elapsed => \E i \in Timers : timers[i] \in {"armed", "firing"}

\* The servo is open only while the controller counts the gate as open, a close is under way,
\* or the serial link gave up the last close (which the controller takes for done).
ServoIsWatched == servo = "open" => open \/ Opening \/ Closing \/ missed

\* GateCommand(open) starts a fixed delay, after which the gate closes (module docstring):
\* the gate does not close before the delay of the last opening is over.
ClosesAfterDelay ==
    [][servo = "open" /\ servo' = "close" => last_open # 0 /\ timers[last_open] # "armed"]_vars

\* Every opened gate closes in the end, unless the node is stopped or the serial link gives
\* the close up.
GateCloses == servo = "open" ~> servo = "close" \/ missed \/ ~running
=============================================================================
