------------------------------ MODULE MegaLink ------------------------------
(***************************************************************************)
(* parking/mega_link.py: the one serial port to the Mega, read by a thread *)
(* of its own and written to by the bus thread, which carries out one      *)
(* command after the other.  Either may find the port broken, closes it    *)
(* and opens it again; the lock protects the assignment of the port only.  *)
(*                                                                         *)
(* A connection works from the moment it is opened until somebody closes   *)
(* it or the board goes away, even for a moment.  What lines say is left   *)
(* out.  Pauses (sleeps, the read timeout) are only delays.                *)
(***************************************************************************)
EXTENDS Naturals

CONSTANT NoPort

\* Connections, by a number that is used again once nobody holds it: the port and each of
\* the two threads hold at most one.
Connections == 1..4
Threads == {"reader", "sender"}

ASSUME LinkAssumption == NoPort \notin Connections

VARIABLES board,      \* the Mega is on the bus
          serial,     \* _serial
          working,    \* the connections on which reading and writing succeed
          main,       \* the node's life: new, running, stopping (join), stopped
          pc,         \* what each thread is about to do
          held,       \* the connection in the thread's local variable
          attempt,    \* _write calls of the current send
          result,     \* what became of the last command
          disturbed   \* since the last send began the board was away, or the send's port
                      \* was taken away by another thread

linkvars == <<board, serial, working, main, pc, held, attempt, result, disturbed>>

LinkTypeOK ==
    /\ board \in BOOLEAN /\ disturbed \in BOOLEAN
    /\ serial \in Connections \cup {NoPort} /\ held \in [Threads -> Connections \cup {NoPort}]
    /\ working \in SUBSET Connections
    /\ main \in {"new", "running", "stopping", "stopped"}
    /\ pc \in [Threads -> {"off", "rest", "take", "io", "detach", "close", "open"}]
    /\ attempt \in 0..2
    /\ result \in {"none", "sent", "dropped"}

LinkInit ==
    /\ board = TRUE /\ serial = NoPort /\ working = {}
    /\ main = "new" /\ pc = [reader |-> "off", sender |-> "rest"]
    /\ held = [t \in Threads |-> NoPort]
    /\ attempt = 0 /\ result = "none" /\ disturbed = FALSE

-----------------------------------------------------------------------------
(* Shared steps.                                                           *)

Goto(t, label) == pc' = [pc EXCEPT ![t] = label]
Hold(t, c) == held' = [held EXCEPT ![t] = c]
Sending == pc["sender"] # "rest"

\* A connection nobody holds is closed by the garbage collector; its number is free.
Unheld == CHOOSE c \in Connections : c # serial /\ \A t \in Threads : c # held[t]
Connect == serial' = Unheld /\ working' = working \cup {Unheld}

\* _reconnect: take the port, whosever it is by now, ...
Detach(t) ==
    /\ pc[t] = "detach"
    /\ Hold(t, serial) /\ serial' = NoPort
    /\ Goto(t, "close")
    /\ disturbed' = (disturbed \/ (t = "reader" /\ Sending))
    /\ UNCHANGED <<board, working, main, attempt, result>>

\* Faulty variant: what is closed is the port as it is now, not as it was taken.
CloseCurrent(t) ==
    /\ pc[t] = "close"
    /\ working' = working \ {serial, held[t]}
    /\ Hold(t, NoPort)
    /\ Goto(t, "open")
    /\ UNCHANGED <<board, serial, main, attempt, result, disturbed>>

\* ... close it outside the lock, ...
CloseStale(t) ==
    /\ pc[t] = "close"
    /\ working' = working \ {held[t]}
    /\ Hold(t, NoPort)
    /\ Goto(t, "open")
    /\ UNCHANGED <<board, serial, main, attempt, result, disturbed>>

\* ... and after a pause open it anew, if the board is there; the reader goes on with its
\* loop, the sender with its second attempt.
Open(t) ==
    /\ pc[t] = "open"
    /\ IF board THEN Connect ELSE UNCHANGED <<serial, working>>
    /\ Goto(t, "take")
    /\ UNCHANGED <<board, main, held, attempt, result, disturbed>>

-----------------------------------------------------------------------------
(* _run, the reader thread.                                                *)

\* Faulty variant: the loop waits for a port without looking whether it is to stop.
ReaderTakeDeaf ==
    /\ pc["reader"] = "take" /\ serial # NoPort
    /\ Goto("reader", IF main \in {"stopping", "stopped"} THEN "off" ELSE "io")
    /\ Hold("reader", IF main \in {"stopping", "stopped"} THEN NoPort ELSE serial)
    /\ UNCHANGED <<board, serial, working, main, attempt, result, disturbed>>

\* Faulty variant: a missing port ends the loop.
ReaderTakeGivesUp ==
    /\ pc["reader"] = "take"
    /\ IF main \in {"stopping", "stopped"} \/ serial = NoPort
       THEN Goto("reader", "off") /\ Hold("reader", NoPort)
       ELSE Goto("reader", "io") /\ Hold("reader", serial)
    /\ UNCHANGED <<board, serial, working, main, attempt, result, disturbed>>

\* The head of the loop.  Without a port it only waits.
ReaderTake ==
    /\ pc["reader"] = "take"
    /\ IF main \in {"stopping", "stopped"}
       THEN Goto("reader", "off") /\ Hold("reader", NoPort)
       ELSE serial # NoPort /\ Goto("reader", "io") /\ Hold("reader", serial)
    /\ UNCHANGED <<board, serial, working, main, attempt, result, disturbed>>

\* Faulty variant: a read error is taken for a read without a line.
ReadIgnoringErrors ==
    /\ pc["reader"] = "io"
    /\ Goto("reader", "take") /\ Hold("reader", NoPort)
    /\ UNCHANGED <<board, serial, working, main, attempt, result, disturbed>>

\* A line, or none within the timeout; or an error.
Read ==
    /\ pc["reader"] = "io"
    /\ Goto("reader", IF held["reader"] \in working THEN "take" ELSE "detach")
    /\ Hold("reader", NoPort)
    /\ UNCHANGED <<board, serial, working, main, attempt, result, disturbed>>

-----------------------------------------------------------------------------
(* send, on the bus thread.                                                *)

Send ==
    /\ pc["sender"] = "rest"
    /\ Goto("sender", "take")
    /\ attempt' = 1 /\ result' = "none" /\ disturbed' = ~board
    /\ UNCHANGED <<board, serial, working, main, held>>

\* _write has failed: reconnect and try again, or give the command up.
Failed ==
    /\ Hold("sender", NoPort)
    /\ IF attempt = 1
       THEN Goto("sender", "detach") /\ attempt' = 2 /\ UNCHANGED result
       ELSE Goto("sender", "rest") /\ attempt' = 0 /\ result' = "dropped"

SenderTake ==
    /\ pc["sender"] = "take"
    /\ IF serial = NoPort THEN Failed
       ELSE Goto("sender", "io") /\ Hold("sender", serial) /\ UNCHANGED <<attempt, result>>
    /\ UNCHANGED <<board, serial, working, main, disturbed>>

Write ==
    /\ pc["sender"] = "io"
    /\ IF held["sender"] \notin working THEN Failed
       ELSE Goto("sender", "rest") /\ Hold("sender", NoPort) /\ attempt' = 0 /\ result' = "sent"
    /\ UNCHANGED <<board, serial, working, main, disturbed>>

-----------------------------------------------------------------------------
(* start and stop, on the node's main thread.                              *)

\* Without the board the node does not get beyond this.
Start ==
    /\ main = "new" /\ board
    /\ Connect
    /\ main' = "running" /\ Goto("reader", "take")
    /\ UNCHANGED <<board, held, attempt, result, disturbed>>

StopLink ==
    /\ main = "running"
    /\ main' = "stopping"
    /\ UNCHANGED <<board, serial, working, pc, held, attempt, result, disturbed>>

\* The reader is waited for, but not if opening the port keeps it longer than the timeout.
StopJoined ==
    /\ main = "stopping" /\ pc["reader"] \in {"off", "open"}
    /\ main' = "stopped"
    /\ serial' = NoPort /\ working' = working \ {serial}
    /\ disturbed' = (disturbed \/ Sending)
    /\ UNCHANGED <<board, pc, held, attempt, result>>

-----------------------------------------------------------------------------
(* The board: reset, reflashed or replugged.                               *)

Unplug ==
    /\ board
    /\ board' = FALSE /\ working' = {} /\ disturbed' = TRUE
    /\ UNCHANGED <<serial, main, pc, held, attempt, result>>

Plug ==
    /\ ~board
    /\ board' = TRUE
    /\ UNCHANGED <<serial, working, main, pc, held, attempt, result, disturbed>>

-----------------------------------------------------------------------------
Reconnecting(t) == Detach(t) \/ CloseStale(t) \/ Open(t)
Reader == ReaderTake \/ Read \/ Reconnecting("reader")
Sender == SenderTake \/ Write \/ Reconnecting("sender")

LinkNext == Reader \/ Sender \/ Send \/ Start \/ StopLink \/ StopJoined \/ Unplug \/ Plug

LinkSpec == LinkInit /\ [][LinkNext]_linkvars

\* Both threads run; nobody need send, stop, or plug the board in again.
LinkLiveSpec == LinkSpec /\ WF_linkvars(Reader) /\ WF_linkvars(Sender)

-----------------------------------------------------------------------------
Reading == pc["reader"] = "io" /\ held["reader"] = serial /\ serial \in working
Undisturbed == board /\ main = "running" /\ ~Sending

\* A command is dropped only if the board was away while it was sent or another thread took
\* the port down meanwhile: what a reconnection of the reader begun earlier still does, and
\* the opening of the port by start(), harm no command (MegaLink.send, _reconnect).
DroppedOnlyIfDisturbed == result = "dropped" => disturbed

\* When board and bus thread have come to rest, so has the link: the reader reads from the
\* working port, or there is no port; threads do not close each other's ports for ever, and
\* no dead port is kept (MegaLink._reconnect, _run).
LinkSettles ==
    <>[]Undisturbed => \/ <>[](serial = NoPort /\ pc["reader"] = "take")
                       \/ <>[](serial \in working) /\ []<>Reading

\* A command that got through with the board there leaves a link that works in both
\* directions, even if the reader had lost its port before (MegaLink.send).
SendHealsReader ==
    <>[](Undisturbed /\ result = "sent" /\ ~disturbed) => <>[](serial \in working) /\ []<>Reading

\* stop() ends the reader thread, whatever it is doing (MegaLink.stop, _run).
ReaderStops == main = "stopping" ~> pc["reader"] = "off"

\* "Both directions self-heal" (parking/mega_link.py): with the board back for good, the
\* reader reads again.
ReaderHeals == <>[](board /\ main = "running") => []<>Reading
=============================================================================
