------------------------------- MODULE Guided -------------------------------
(***************************************************************************)
(* parking/simulation/guided_demo.py: GuidedScenarioController, which runs *)
(* one of three scripts in a thread of its own, replaces the whole demo    *)
(* system under it whenever a scenario is started or reset, and is driven  *)
(* by the buttons of the dashboard, each click on a thread of the server.  *)
(*                                                                         *)
(* A script is what it waits for after each click of "advance"; that the   *)
(* lot answers is module Lot's business, here an answer comes or does not. *)
(* thread.join gives up after three seconds, scripts look at _cancel       *)
(* several times a second and their publications do not block, so a join   *)
(* is taken to last until its thread has ended.  _runnable is set by       *)
(* everybody and cleared by nobody.  The demo's broker is up as long as    *)
(* the demo; a new system's clients may all the same connect too late.     *)
(***************************************************************************)
EXTENDS Naturals, Sequences, FiniteSets

CONSTANTS Requests,  \* threads of the web server that may handle a click at the same time
          Threads,   \* scenario threads, dead ones being used again
          Systems,   \* demo systems, stopped ones being used again
          None

ASSUME GuidedAssumption == None \notin Threads \cup Systems /\ Systems # {}

\* What a script waits for, step by step.
Admit == <<"admission", "assignment", "open">>
Depart == <<"close", "departed">>
Lifecycle == << Admit, <<"move">>, <<>>, <<"move">>, <<"exit", "open">>, Depart >>
Contention == << Admit, <<"move">>, <<>>, Admit, <<"move">>, <<>>, <<"move">>, <<"exit", "open">>,
                 <<>>, Depart \o <<"move">>, <<"exit", "open">>, Depart >>
FullLot == << <<>>, <<"admission">>, <<>> >>
Script == [lifecycle |-> Lifecycle, contention |-> Contention, full_lot |-> FullLot]

\* Faulty variant: one step was added to a script and not counted.
TotalStepsOfBefore == [lifecycle |-> 6, contention |-> 11, full_lot |-> 3]

TotalSteps == [lifecycle |-> 6, contention |-> 12, full_lot |-> 3]

VARIABLES cancel, advance,  \* the two events
          thread,           \* the scenario thread the controller knows
          status,           \* what the dashboard shows of the scenario
          system,           \* the system scripts use
          shown,            \* the system whose model the dashboard shows
          running,          \* systems connected to the broker
          script,           \* where each scenario thread is
          request,          \* where each click's handling is
          clicked,          \* history: "advance" was clicked for the step being shown
          closed

controls == <<cancel, advance>>
systems == <<system, shown, running>>
vars == <<controls, thread, status, systems, script, request, clicked, closed>>

Dead == [at |-> "dead", id |-> "", step |-> 0, awaited |-> <<>>, home |-> None]
Free == [at |-> "free", goal |-> "", id |-> "", again |-> FALSE, joined |-> None, new |-> None]

Alive(t) == t # None /\ script[t] # Dead

Init ==
    /\ cancel = FALSE /\ advance = FALSE
    /\ thread = None
    /\ status = [state |-> "idle", step |-> 0, total |-> 0]
    /\ system \in Systems /\ shown = system /\ running = {system}
    /\ script = [t \in Threads |-> Dead]
    /\ request = [r \in Requests |-> Free]
    /\ clicked = FALSE /\ closed = FALSE

-----------------------------------------------------------------------------
(* A scenario thread.  _check and the two loops that poll are split where  *)
(* another thread may come between.                                        *)

At(t, place) == script[t].at = place
Go(t, place) == script' = [script EXCEPT ![t].at = place]
Cancelled(t) == script' = [script EXCEPT ![t] = Dead]
Waited == UNCHANGED <<thread, systems, request, closed>>

\* _step: a reset has ended the scenario, or the click for the step before is forgotten.
Check(t) ==
    /\ At(t, "check")
    /\ IF cancel THEN Cancelled(t) ELSE Go(t, "clear")
    /\ Waited /\ UNCHANGED <<controls, status, clicked>>

\* Faulty variant: a click too many for the step before counts for this one.
ClearNothing(t) ==
    /\ At(t, "clear") /\ Go(t, "show")
    /\ Waited /\ UNCHANGED <<controls, status, clicked>>

Clear(t) ==
    /\ At(t, "clear") /\ Go(t, "show")
    /\ advance' = FALSE
    /\ Waited /\ UNCHANGED <<cancel, status, clicked>>

Show(t) ==
    /\ At(t, "show")
    /\ script' = [script EXCEPT ![t].at = "await", ![t].step = @ + 1]
    /\ status' = [status EXCEPT !.state = "waiting_for_advance", !.step = @ + 1]
    /\ clicked' = FALSE
    /\ Waited /\ UNCHANGED controls

\* Faulty variant: a click is forgotten once it has been seen.
AwaitForgetful(t) ==
    /\ At(t, "await")
    /\ \/ advance /\ advance' = FALSE /\ UNCHANGED script
       \/ ~advance /\ cancel /\ Cancelled(t) /\ UNCHANGED advance
    /\ Waited /\ UNCHANGED <<cancel, status, clicked>>

Await(t) ==
    /\ At(t, "await")
    /\ \/ advance /\ Go(t, "recheck")
       \/ ~advance /\ cancel /\ Cancelled(t)
    /\ Waited /\ UNCHANGED <<controls, status, clicked>>

Recheck(t) ==
    /\ At(t, "recheck")
    /\ IF cancel THEN Cancelled(t) ELSE Go(t, "apply")
    /\ Waited /\ UNCHANGED <<controls, status, clicked>>

Apply(t) ==
    /\ At(t, "apply") /\ Go(t, "sense")
    /\ status' = [status EXCEPT !.state = "running"]
    /\ Waited /\ UNCHANGED <<controls, clicked>>

\* Where a script goes on that still waits for ms in its step.
After(t, ms) ==
    script' = [script EXCEPT ![t].awaited = ms,
                             ![t].at = IF ms # <<>> THEN "wait"
                                       ELSE IF script[t].step < Len(Script[script[t].id]) THEN "check" ELSE "end"]

\* The simulated sensors report what the step is about; nothing is checked on the way.
Sense(t) ==
    /\ At(t, "sense")
    /\ After(t, Script[script[t].id][script[t].step])
    /\ Waited /\ UNCHANGED <<controls, status, clicked>>

\* MessageInbox.wait_for, _wait_for_customer_status: a cancellation, what is waited for,
\* or, after eight seconds or with an answer the script does not expect, an error.
Wait(t) ==
    /\ At(t, "wait")
    /\ \/ cancel /\ Cancelled(t)
       \/ ~cancel /\ After(t, Tail(script[t].awaited))
       \/ ~cancel /\ Go(t, "fail")
    /\ Waited /\ UNCHANGED <<controls, status, clicked>>

\* _run: the last thing a thread does is to say how it ended.
End(t) ==
    /\ \/ At(t, "end") /\ status' = [status EXCEPT !.state = "completed", !.step = status.total]
       \/ At(t, "fail") /\ status' = [status EXCEPT !.state = "failed"]
    /\ Cancelled(t)
    /\ Waited /\ UNCHANGED <<controls, clicked>>

Run(t) == Check(t) \/ Clear(t) \/ Show(t) \/ Await(t) \/ Recheck(t) \/ Apply(t)
          \/ Sense(t) \/ Wait(t) \/ End(t)

-----------------------------------------------------------------------------
(* Clicks.                                                                 *)

Handling(r, place) == request[r].at = place
Then(r, place) == request' = [request EXCEPT ![r].at = place]
Done(r) == request' = [request EXCEPT ![r] = Free]

\* advance, all of it under the lock.
Advance ==
    /\ ~closed /\ Alive(thread) /\ status.state = "waiting_for_advance"
    /\ advance' = TRUE
    /\ clicked' = TRUE
    /\ UNCHANGED <<cancel, thread, status, systems, script, request, closed>>

\* start_scenario refuses while a scenario is running; reset goes through _cancel_active
\* twice; close comes from the main program once the web server is stopped.
Begin(r) ==
    /\ Handling(r, "free") /\ ~closed
    /\ LET Take(goal, id) == request' = [request EXCEPT ![r] =
               [Free EXCEPT !.at = "cancel", !.goal = goal, !.id = id, !.again = (goal = "reset")]]
       IN  \/ ~Alive(thread) /\ \E id \in DOMAIN Script : Take("start", id)
           \/ Take("reset", "")
           \/ (\A q \in Requests : Handling(q, "free")) /\ Take("close", "")
    /\ UNCHANGED <<controls, thread, status, systems, script, clicked, closed>>

\* _cancel_active, in the order of its statements.
Cancel(r) ==
    /\ Handling(r, "cancel") /\ Then(r, "wake")
    /\ cancel' = TRUE
    /\ UNCHANGED <<advance, thread, status, systems, script, clicked, closed>>

\* Faulty variant: _cancel is cleared as soon as the thread has been woken.
WakeCleared(r) ==
    /\ Handling(r, "wake")
    /\ cancel' = FALSE /\ advance' = TRUE
    /\ request' = [request EXCEPT ![r].at = "join", ![r].joined = thread]
    /\ UNCHANGED <<thread, status, systems, script, clicked, closed>>

Wake(r) ==
    /\ Handling(r, "wake")
    /\ advance' = TRUE
    /\ request' = [request EXCEPT ![r].at = "join", ![r].joined = thread]
    /\ UNCHANGED <<cancel, thread, status, systems, script, clicked, closed>>

\* Faulty variant: nobody waits for the thread.
JoinNobody(r) ==
    /\ Handling(r, "join")
    /\ thread' = None
    /\ request' = [request EXCEPT ![r].at = IF request[r].again THEN "cancel" ELSE "stop",
                                  ![r].again = FALSE, ![r].joined = None]
    /\ UNCHANGED <<controls, status, systems, script, clicked, closed>>

Join(r) ==
    /\ Handling(r, "join") /\ ~Alive(request[r].joined)
    /\ thread' = None
    /\ request' = [request EXCEPT ![r].at = IF request[r].again THEN "cancel" ELSE "stop",
                                  ![r].again = FALSE, ![r].joined = None]
    /\ UNCHANGED <<controls, status, systems, script, clicked, closed>>

\* _replace_system, or the last line of close.
\* Faulty variant: the old system is left to itself.
StopNothing(r) ==
    /\ Handling(r, "stop")
    /\ IF request[r].goal = "close" THEN Done(r) /\ closed' = TRUE ELSE Then(r, "create") /\ UNCHANGED closed
    /\ UNCHANGED <<controls, thread, status, systems, script, clicked>>

Stop(r) ==
    /\ Handling(r, "stop")
    /\ running' = running \ {system}
    /\ IF request[r].goal = "close" THEN Done(r) /\ closed' = TRUE ELSE Then(r, "create") /\ UNCHANGED closed
    /\ UNCHANGED <<controls, thread, status, system, shown, script, clicked>>

\* MqttDemoSystem.start: both clients connect, or the system is stopped again and the
\* exception ends the request where it is.
Create(r) ==
    /\ Handling(r, "create")
    /\ \/ \E y \in Systems \ (running \cup {system, shown} \cup {request[q].new : q \in Requests}) :
              /\ running' = running \cup {y}
              /\ request' = [request EXCEPT ![r].at = "swap", ![r].new = y]
       \/ Done(r) /\ UNCHANGED running
    /\ UNCHANGED <<controls, thread, status, system, shown, script, clicked, closed>>

Swap(r) ==
    /\ Handling(r, "swap") /\ Then(r, "replace")
    /\ system' = request[r].new
    /\ UNCHANGED <<controls, thread, status, shown, running, script, clicked, closed>>

\* SwappableDashboardSource.replace.
Replace(r) ==
    /\ Handling(r, "replace")
    /\ shown' = request[r].new
    /\ Then(r, IF request[r].goal = "start" THEN "uncancel" ELSE "idle")
    /\ UNCHANGED <<controls, thread, status, system, running, script, clicked, closed>>

\* The rest of start_scenario.
Uncancel(r) ==
    /\ \/ Handling(r, "uncancel") /\ Then(r, "unadvance") /\ cancel' = FALSE /\ UNCHANGED advance
       \/ Handling(r, "unadvance") /\ Then(r, "launch") /\ advance' = FALSE /\ UNCHANGED cancel
    /\ UNCHANGED <<thread, status, systems, script, clicked, closed>>

Launch(r) ==
    /\ Handling(r, "launch") /\ Done(r)
    /\ \E t \in Threads :
          /\ ~Alive(t) /\ thread' = t
          /\ script' = [script EXCEPT ![t] = [Dead EXCEPT !.at = "check", !.id = request[r].id, !.home = system]]
    /\ status' = [state |-> "running", step |-> 0, total |-> TotalSteps[request[r].id]]
    /\ UNCHANGED <<controls, systems, clicked, closed>>

\* The rest of reset.
Idle(r) ==
    /\ Handling(r, "idle") /\ Done(r)
    /\ status' = [state |-> "idle", step |-> 0, total |-> 0]
    /\ UNCHANGED <<controls, thread, systems, script, clicked, closed>>

Handle(r) == Cancel(r) \/ Wake(r) \/ Join(r) \/ Stop(r) \/ Create(r) \/ Swap(r) \/ Replace(r)
             \/ Uncancel(r) \/ Launch(r) \/ Idle(r)

Next ==
    \/ Advance
    \/ \E r \in Requests : Begin(r) \/ Handle(r)
    \/ \E t \in Threads : Run(t)

Spec == Init /\ [][Next]_vars

\* Threads run, and what a script waits for comes or is given up.  Nobody has to click.
FairSpec == Spec /\ (\A t \in Threads : WF_vars(Run(t))) /\ (\A r \in Requests : WF_vars(Handle(r)))

-----------------------------------------------------------------------------
Active == status.state \in {"running", "waiting_for_advance"}
AtRest == \A r \in Requests : request[r] = Free

\* A script only ever talks to the system it was started with, and that one is running:
\* _replace_system stops a system after the thread that uses it has ended.
RuntimeKept ==
    \A t \in Threads : script[t].at \in {"sense", "wait"} => script[t].home = system /\ system \in running

\* Between clicks no system but the one shown and scripted is connected to the broker, where
\* a second one would plan and command as well, and only the thread the controller knows is
\* alive; after close nothing is.
OneRuntime ==
    AtRest => /\ running \subseteq {system} /\ shown = system
              /\ \A t \in Threads : Alive(t) => t = thread
              /\ closed => running = {} /\ thread = None

\* Between clicks the status is that of the living script and counts its steps, an ended or
\* cancelled script does not overwrite it, and "completed" means the last step; a scenario
\* may be shown as under way without a thread only when its reset found no broker.
StatusTrue ==
    /\ AtRest => IF Alive(thread) THEN Active /\ status.step = script[thread].step
                 ELSE Active => running = {}
    /\ \A t \in Threads : At(t, "end") => status.step = status.total

\* A step is carried out only after a click made while it was being shown: clicking twice
\* skips nothing, and neither does the wake-up of a reset (_step, advance, _cancel_active).
StepsClicked ==
    [][\A t \in Threads : At(t, "recheck") /\ script'[t].at = "apply" => clicked]_vars

\* No click is lost: a step that was clicked is carried out, or the scenario is over.
ClickHonoured ==
    (clicked /\ status.state = "waiting_for_advance")
        ~> (status.state # "waiting_for_advance" \/ running = {})

\* Every start, reset and close comes to an end: the thread joined always notices.
RequestEnds == \A r \in Requests : request[r] # Free ~> request[r] = Free

\* One scenario at a time ("A scenario is already running").
OneScenario == Cardinality({t \in Threads : Alive(t)}) <= 1
=============================================================================
