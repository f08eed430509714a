--------------------------- MODULE ThreadsProofs ---------------------------
(***************************************************************************)
(* The two parts of the Pi whose threads share state without handing it    *)
(* over: the gate's controller and the serial link.                        *)
(*                                                                         *)
(* GateSafety: however many openings, stale callbacks and closes overlap,  *)
(* an open gate is timed, and the servo is watched until it has closed or  *)
(* the serial link has given the close up.                                 *)
(*                                                                         *)
(* MegaLink: a command is dropped only if the board was away or another    *)
(* thread took the port down while it was sent: the second attempt of an   *)
(* undisturbed send works on a connection that nobody closes.              *)
(***************************************************************************)
EXTENDS GateSafety, MegaLink, SequenceTheorems, TLAPS

\* Between the two subscribers of a close, the gate is shut or the link has given the close up.
HandingOK ==
    bus = "handing" => inbox # <<>> /\ (Head(inbox) = Close => servo = "close" \/ missed)

\* The timer of the opening in force is the one the controller would cancel.
TimerOK ==
    running /\ open /\ ~delay_elapsed => timer \in Timers /\ timers[timer] \in {"armed", "firing"}

IInv == TypeOK /\ HandingOK /\ TimerOK /\ ServoIsWatched

-----------------------------------------------------------------------------
\* Publishing appends to the inbox and hides nothing that is in it.
LEMMA AppendKeeps ==
    ASSUME NEW q \in Seq(Commands), NEW x \in Commands
    PROVE  /\ Append(q, x) \in Seq(Commands) /\ Append(q, x) # <<>>
           /\ q # <<>> => Head(Append(q, x)) = Head(q)
           /\ \A n \in 1..Len(q) : n \in 1..Len(Append(q, x)) /\ Append(q, x)[n] = q[n]
           /\ \E n \in 1..Len(Append(q, x)) : Append(q, x)[n] = x
<1>1. /\ Len(q) \in Nat
      /\ Append(q, x) \in Seq(Commands) /\ Append(q, x) # <<>>
      /\ Len(Append(q, x)) = Len(q) + 1
      /\ \A n \in 1..Len(q) : Append(q, x)[n] = q[n]
      /\ Append(q, x)[Len(q) + 1] = x
  BY AppendProperties
<1>2. q # <<>> => Head(Append(q, x)) = Head(q)
  BY HeadTailAppend
<1>3. Len(q) + 1 \in 1..Len(Append(q, x))
  BY <1>1
<1> QED
  BY <1>1, <1>2, <1>3

\* Cancelling a timer keeps every timer in a state a timer can be in.
LEMMA CancelledOK ==
    ASSUME TypeOK
    PROVE  /\ Cancelled \in [Timers -> {"unused", "armed", "firing", "closing", "done"}]
           /\ \A i \in Timers : Cancelled[i] = "closing" <=> timers[i] = "closing"
BY DEF TypeOK, Cancelled

\* A freshly started controller satisfies the inductive invariant.
LEMMA InitIInv == Init => IInv
<1> SUFFICES ASSUME Init PROVE IInv
  OBVIOUS
<1>1. inbox \in Seq(Commands)
  BY DEF Init
<1>2. TypeOK
  <2>1. last_open \in 0..MaxOpens /\ requested \in 0..MaxOpens
    BY GateAssumption DEF Init
  <2>2. timers \in [Timers -> {"unused", "armed", "firing", "closing", "done"}]
    BY DEF Init
  <2> QED
    BY <1>1, <2>1, <2>2 DEF Init, TypeOK
<1>3. HandingOK
  BY DEF Init, HandingOK
<1>4. TimerOK
  BY DEF Init, TimerOK
<1>5. ServoIsWatched
  BY DEF Init, ServoIsWatched
<1> QED
  BY <1>2, <1>3, <1>4, <1>5 DEF IInv

\* The step RequestOpen preserves the inductive invariant.
LEMMA RequestOpenIInv == ASSUME IInv, RequestOpen PROVE IInv'
<1>1. requested' \in Timers /\ requested' \in Commands /\ requested' \in 0..MaxOpens
  BY GateAssumption DEF IInv, TypeOK, RequestOpen, Timers, Commands
<1>2. inbox \in Seq(Commands) /\ inbox' = Append(inbox, requested')
  BY DEF IInv, TypeOK, RequestOpen
<1>3. TypeOK'
  BY <1>1, <1>2, AppendKeeps DEF IInv, TypeOK, RequestOpen
<1>4. HandingOK' /\ TimerOK'
  BY DEF IInv, HandingOK, TimerOK, RequestOpen
<1>5. Closing => Closing'
  <2>1. \A n \in 1..Len(inbox) : n \in 1..Len(inbox') /\ inbox'[n] = inbox[n]
    BY <1>1, <1>2, AppendKeeps
  <2> QED
    BY <2>1 DEF Closing, RequestOpen
<1>6. ServoIsWatched'
  BY <1>5 DEF IInv, ServoIsWatched, Opening, RequestOpen
<1> QED
  BY <1>3, <1>4, <1>6 DEF IInv

\* The step OnServoCommand preserves the inductive invariant.
LEMMA OnServoCommandIInv == ASSUME IInv, OnServoCommand PROVE IInv'
<1>1. TypeOK'
  BY DEF IInv, TypeOK, OnServoCommand
<1>2. HandingOK' /\ TimerOK'
  BY DEF IInv, HandingOK, TimerOK, OnServoCommand
<1>3. ServoIsWatched'
  BY DEF ServoIsWatched, Opening, OnServoCommand
<1> QED
  BY <1>1, <1>2, <1>3 DEF IInv

\* The step OnGateOpen preserves the inductive invariant.
LEMMA OnGateOpenIInv == ASSUME IInv, OnGateOpen PROVE IInv'
<1>1. Head(inbox) \in Timers /\ Head(inbox) \in 0..MaxOpens /\ inbox' \in Seq(Commands)
  BY GateAssumption DEF IInv, TypeOK, HandingOK, OnGateOpen, Commands, Timers
<1>2. TypeOK'
  BY <1>1, CancelledOK DEF IInv, TypeOK, OnGateOpen
<1>3. timers'[timer'] = "armed" /\ timer' \in Timers
  BY <1>1, CancelledOK DEF IInv, OnGateOpen
<1>4. HandingOK' /\ TimerOK' /\ ServoIsWatched'
  BY <1>3 DEF HandingOK, TimerOK, ServoIsWatched, OnGateOpen
<1> QED
  BY <1>2, <1>4 DEF IInv

\* The step OnGateClose preserves the inductive invariant.
LEMMA OnGateCloseIInv == ASSUME IInv, OnGateClose PROVE IInv'
<1>1. inbox' \in Seq(Commands)
  BY DEF IInv, TypeOK, HandingOK, OnGateClose
<1>2. TypeOK'
  BY <1>1, CancelledOK DEF IInv, TypeOK, OnGateClose
<1>3. servo' # "open" \/ missed'
  BY DEF IInv, HandingOK, OnGateClose
<1>4. HandingOK' /\ TimerOK' /\ ServoIsWatched'
  BY <1>3 DEF HandingOK, TimerOK, ServoIsWatched, OnGateClose
<1> QED
  BY <1>2, <1>4 DEF IInv

\* The step Fire preserves the inductive invariant.
LEMMA FireIInv == ASSUME IInv, NEW i \in Timers, Fire(i) PROVE IInv'
<1>1. TypeOK'
  BY DEF IInv, TypeOK, Fire
<1>2. HandingOK' /\ TimerOK'
  BY DEF IInv, TypeOK, HandingOK, TimerOK, Fire
<1>3. Closing => Closing'
  BY DEF IInv, TypeOK, Closing, Fire
<1>4. ServoIsWatched'
  BY <1>3 DEF IInv, ServoIsWatched, Opening, Fire
<1> QED
  BY <1>1, <1>2, <1>4 DEF IInv

\* The step OnDelayElapsed preserves the inductive invariant.
LEMMA OnDelayElapsedIInv == ASSUME IInv, NEW i \in Timers, OnDelayElapsed(i) PROVE IInv'
<1>1. TypeOK'
  BY DEF IInv, TypeOK, OnDelayElapsed
<1>2. HandingOK' /\ TimerOK'
  BY DEF IInv, HandingOK, TimerOK, OnDelayElapsed
<1>3. Closing => Closing'
  BY DEF IInv, TypeOK, Closing, OnDelayElapsed
<1>4. open => open' \/ timers'[i] = "closing"
  BY DEF IInv, TypeOK, OnDelayElapsed
<1>5. ServoIsWatched'
  BY <1>3, <1>4 DEF IInv, ServoIsWatched, Opening, Closing, OnDelayElapsed
<1> QED
  BY <1>1, <1>2, <1>5 DEF IInv

\* The step PublishClose preserves the inductive invariant.
LEMMA PublishCloseIInv == ASSUME IInv, NEW i \in Timers, PublishClose(i) PROVE IInv'
<1>1. inbox \in Seq(Commands) /\ Close \in Commands /\ inbox' = Append(inbox, Close)
  BY DEF IInv, TypeOK, PublishClose, Commands
<1>2. TypeOK'
  BY <1>1, AppendKeeps DEF IInv, TypeOK, PublishClose
<1>3. HandingOK'
  BY <1>1, AppendKeeps DEF IInv, HandingOK, PublishClose
<1>4. TimerOK'
  BY DEF IInv, TypeOK, TimerOK, PublishClose
<1>5. ServoIsWatched'
  BY <1>1, AppendKeeps DEF ServoIsWatched, Closing
<1> QED
  BY <1>2, <1>3, <1>4, <1>5 DEF IInv

\* The step OnDistance preserves the inductive invariant.
LEMMA OnDistanceIInv == ASSUME IInv, NEW d \in {"near", "far"}, OnDistance(d) PROVE IInv'
<1>1. TypeOK'
  BY DEF IInv, TypeOK, OnDistance
<1>2. HandingOK' /\ TimerOK'
  BY DEF IInv, HandingOK, TimerOK, OnDistance
<1>3. ServoIsWatched'
  BY DEF IInv, ServoIsWatched, Opening, Closing, OnDistance
<1> QED
  BY <1>1, <1>2, <1>3 DEF IInv

\* The step BusPublishClose preserves the inductive invariant.
LEMMA BusPublishCloseIInv == ASSUME IInv, BusPublishClose PROVE IInv'
<1>1. inbox \in Seq(Commands) /\ Close \in Commands /\ inbox' = Append(inbox, Close)
  BY DEF IInv, TypeOK, BusPublishClose, Commands
<1>2. TypeOK'
  BY <1>1, AppendKeeps DEF IInv, TypeOK, BusPublishClose
<1>3. HandingOK' /\ TimerOK'
  BY DEF IInv, HandingOK, TimerOK, BusPublishClose
<1>4. ServoIsWatched'
  BY <1>1, AppendKeeps DEF ServoIsWatched, Closing
<1> QED
  BY <1>2, <1>3, <1>4 DEF IInv

\* The step Stop preserves the inductive invariant.
LEMMA StopIInv == ASSUME IInv, Stop PROVE IInv'
<1>1. TypeOK'
  BY CancelledOK DEF IInv, TypeOK, Stop
<1>2. HandingOK' /\ TimerOK'
  BY DEF IInv, HandingOK, TimerOK, Stop
<1>3. ServoIsWatched'
  BY CancelledOK DEF IInv, ServoIsWatched, Opening, Closing, Stop
<1> QED
  BY <1>1, <1>2, <1>3 DEF IInv

-----------------------------------------------------------------------------
\* The inductive invariant holds of every interleaving of the threads.
THEOREM InductiveInvariant == Spec => []IInv
<1>1. ASSUME IInv, [Next]_vars PROVE IInv'
  <2>1. CASE UNCHANGED vars
    BY <1>1, <2>1 DEF IInv, TypeOK, HandingOK, TimerOK, ServoIsWatched, Opening, Closing, vars
  <2>2. CASE Next
    BY <1>1, <2>2, RequestOpenIInv, OnServoCommandIInv, OnGateOpenIInv, OnGateCloseIInv, FireIInv,
       OnDelayElapsedIInv, PublishCloseIInv, OnDistanceIInv, BusPublishCloseIInv, StopIInv DEF Next
  <2> QED
    BY <1>1, <2>1, <2>2
<1>2. IInv /\ [Next]_vars => IInv'
  BY <1>1
<1> QED
  BY InitIInv, <1>2, PTL DEF Spec

\* Every opening the running controller knows of, and whose delay is not over, has a timer
\* that will call back: no stale callback or close of an earlier opening can lose it.
THEOREM OpeningIsAlwaysTimed == Spec => []OpenIsTimed
<1>1. IInv => OpenIsTimed
  BY DEF IInv, TimerOK, OpenIsTimed
<1> QED
  BY <1>1, InductiveInvariant, PTL

\* The servo is never open with the controller believing it closed and no close under way,
\* unless the serial link gave the last close up.
THEOREM ServoIsAlwaysWatched == Spec => []ServoIsWatched
<1>1. IInv => ServoIsWatched
  BY DEF IInv
<1> QED
  BY <1>1, InductiveInvariant, PTL

-----------------------------------------------------------------------------
(* MegaLink.                                                               *)

\* The attempt that each step of a send belongs to: only the second one reconnects.
AttemptOK ==
    /\ pc["sender"] = "rest" <=> attempt = 0
    /\ pc["sender"] \in {"detach", "close", "open"} => attempt = 2

\* While a send goes on undisturbed the board is there, ...
BoardOK == Sending /\ ~disturbed => board

\* ... what the reader is about to close is neither the port nor what the send writes to, ...
CloseOK ==
    pc["reader"] = "close" /\ held["reader"] # NoPort =>
        /\ held["reader"] # serial
        /\ pc["sender"] = "io" /\ ~disturbed => held["reader"] # held["sender"]

\* ... and from the moment it has opened the port anew the send has a working connection.
SecondOK ==
    attempt = 2 /\ ~disturbed =>
        /\ pc["sender"] = "take" => serial \in working
        /\ pc["sender"] = "io" => held["sender"] \in working

LinkInv == LinkTypeOK /\ AttemptOK /\ BoardOK /\ CloseOK /\ SecondOK /\ DroppedOnlyIfDisturbed

USE DEF Threads

-----------------------------------------------------------------------------
\* Four numbers are enough for a new connection besides those in use.
LEMMA UnheldIsNew ==
    Unheld \in Connections /\ Unheld # serial /\ \A t \in Threads : Unheld # held[t]
<1>1. \E c \in Connections : c # serial /\ \A t \in Threads : c # held[t]
  <2>1. \E c \in 1..4 : c # serial /\ c # held["reader"] /\ c # held["sender"]
    OBVIOUS
  <2> QED
    BY <2>1 DEF Connections
<1> QED
  BY <1>1 DEF Unheld

\* A fresh link satisfies the inductive invariant.
LEMMA InitLinkInv == LinkInit => LinkInv
<1> SUFFICES ASSUME LinkInit PROVE LinkInv
  OBVIOUS
<1>1. pc \in [Threads -> {"off", "rest"}] /\ pc["reader"] = "off" /\ pc["sender"] = "rest"
  BY DEF LinkInit
<1>2. LinkTypeOK
  <2>1. /\ serial = NoPort /\ held = [t \in Threads |-> NoPort] /\ working = {} /\ main = "new"
        /\ attempt = 0 /\ result = "none" /\ board = TRUE /\ disturbed = FALSE
    BY DEF LinkInit
  <2>2. held \in [Threads -> Connections \cup {NoPort}] /\ working \in SUBSET Connections
    BY <2>1
  <2>3. pc \in [Threads -> {"off", "rest", "take", "io", "detach", "close", "open"}]
    BY <1>1
  <2>4. board \in BOOLEAN /\ disturbed \in BOOLEAN
    BY <2>1
  <2> QED
    BY <2>1, <2>2, <2>3, <2>4 DEF LinkTypeOK
<1>3. AttemptOK /\ BoardOK /\ CloseOK /\ SecondOK /\ DroppedOnlyIfDisturbed
  BY <1>1 DEF LinkInit, AttemptOK, BoardOK, CloseOK, SecondOK, DroppedOnlyIfDisturbed, Sending
<1> QED
  BY <1>2, <1>3 DEF LinkInv

\* The step Detach preserves the inductive invariant.
LEMMA DetachLinkInv == ASSUME LinkInv, NEW t \in Threads, Detach(t) PROVE LinkInv'
<1> USE DEF LinkInv, Detach, Goto, Hold
<1>1. LinkTypeOK'
  BY DEF LinkTypeOK, Sending
<1>2. AttemptOK' /\ BoardOK'
  BY DEF LinkTypeOK, AttemptOK, BoardOK, Sending
<1>3. CloseOK'
  BY DEF LinkTypeOK, CloseOK, Sending
<1>4. SecondOK' /\ DroppedOnlyIfDisturbed'
  BY DEF LinkTypeOK, AttemptOK, SecondOK, DroppedOnlyIfDisturbed, Sending
<1> QED
  BY <1>1, <1>2, <1>3, <1>4

\* The step CloseStale preserves the inductive invariant.
LEMMA CloseStaleLinkInv == ASSUME LinkInv, NEW t \in Threads, CloseStale(t) PROVE LinkInv'
<1> USE DEF LinkInv, CloseStale, Goto, Hold
<1>1. LinkTypeOK'
  BY DEF LinkTypeOK
<1>2. AttemptOK' /\ BoardOK' /\ DroppedOnlyIfDisturbed'
  BY DEF LinkTypeOK, AttemptOK, BoardOK, DroppedOnlyIfDisturbed, Sending
<1>3. CloseOK'
  BY DEF LinkTypeOK, CloseOK
<1>4. SecondOK'
  <2>1. CASE t = "reader"
    BY <2>1, LinkAssumption DEF LinkTypeOK, CloseOK, SecondOK
  <2>2. CASE t = "sender"
    BY <2>2 DEF LinkTypeOK, SecondOK
  <2> QED
    BY <2>1, <2>2
<1> QED
  BY <1>1, <1>2, <1>3, <1>4

\* The step Open preserves the inductive invariant.
LEMMA OpenLinkInv == ASSUME LinkInv, NEW t \in Threads, Open(t) PROVE LinkInv'
<1> USE UnheldIsNew DEF LinkInv, Open, Goto, Connect
<1>1. LinkTypeOK'
  BY DEF LinkTypeOK
<1>2. AttemptOK' /\ BoardOK' /\ DroppedOnlyIfDisturbed'
  BY DEF LinkTypeOK, AttemptOK, BoardOK, DroppedOnlyIfDisturbed, Sending
<1>3. CloseOK'
  BY DEF LinkTypeOK, CloseOK
<1>4. SecondOK'
  BY DEF LinkTypeOK, SecondOK, BoardOK, Sending
<1> QED
  BY <1>1, <1>2, <1>3, <1>4

\* The step ReaderTake preserves the inductive invariant.
LEMMA ReaderTakeLinkInv == ASSUME LinkInv, ReaderTake PROVE LinkInv'
BY DEF LinkInv, ReaderTake, Goto, Hold, LinkTypeOK, AttemptOK, BoardOK, CloseOK, SecondOK,
       DroppedOnlyIfDisturbed, Sending

\* The step Read preserves the inductive invariant.
LEMMA ReadLinkInv == ASSUME LinkInv, Read PROVE LinkInv'
BY DEF LinkInv, Read, Goto, Hold, LinkTypeOK, AttemptOK, BoardOK, CloseOK, SecondOK,
       DroppedOnlyIfDisturbed, Sending

\* The step Send preserves the inductive invariant.
LEMMA SendLinkInv == ASSUME LinkInv, Send PROVE LinkInv'
<1>1. disturbed' \in BOOLEAN /\ (~disturbed' => board)
  BY DEF LinkInv, LinkTypeOK, Send
<1>2. LinkTypeOK'
  BY <1>1 DEF LinkInv, LinkTypeOK, Send, Goto
<1>3. AttemptOK' /\ BoardOK' /\ CloseOK' /\ SecondOK' /\ DroppedOnlyIfDisturbed'
  BY <1>1 DEF LinkInv, Send, Goto, LinkTypeOK, AttemptOK, BoardOK, CloseOK, SecondOK,
              DroppedOnlyIfDisturbed, Sending
<1> QED
  BY <1>2, <1>3 DEF LinkInv

\* A failed write gives the command up only if it was disturbed.
LEMMA FailedLinkInv ==
    ASSUME LinkInv, Failed, UNCHANGED <<board, serial, working, main, disturbed>>,
           pc["sender"] \in {"take", "io"}, attempt = 2 => disturbed
    PROVE  LinkInv'
<1> USE DEF LinkInv, Failed, Goto, Hold
<1>1. LinkTypeOK' /\ AttemptOK'
  BY DEF LinkTypeOK, AttemptOK
<1>2. BoardOK' /\ CloseOK' /\ SecondOK'
  BY DEF LinkTypeOK, AttemptOK, BoardOK, CloseOK, SecondOK, Sending
<1>3. DroppedOnlyIfDisturbed'
  BY DEF LinkTypeOK, AttemptOK, DroppedOnlyIfDisturbed
<1> QED
  BY <1>1, <1>2, <1>3

\* The step SenderTake preserves the inductive invariant.
LEMMA SenderTakeLinkInv == ASSUME LinkInv, SenderTake PROVE LinkInv'
<1>1. CASE serial = NoPort
  <2>1. attempt = 2 => disturbed
    BY <1>1, LinkAssumption DEF LinkInv, SenderTake, LinkTypeOK, SecondOK
  <2> QED
    BY <1>1, <2>1, FailedLinkInv DEF SenderTake
<1>2. CASE serial # NoPort
  BY <1>2 DEF SenderTake, Goto, Hold, LinkInv, LinkTypeOK, AttemptOK, BoardOK, CloseOK, SecondOK,
              DroppedOnlyIfDisturbed, Sending
<1> QED
  BY <1>1, <1>2

\* The step Write preserves the inductive invariant.
LEMMA WriteLinkInv == ASSUME LinkInv, Write PROVE LinkInv'
<1>1. CASE held["sender"] \notin working
  <2>1. attempt = 2 => disturbed
    BY <1>1 DEF LinkInv, Write, SecondOK
  <2> QED
    BY <1>1, <2>1, FailedLinkInv DEF Write
<1>2. CASE held["sender"] \in working
  BY <1>2 DEF Write, Goto, Hold, LinkInv, LinkTypeOK, AttemptOK, BoardOK, CloseOK, SecondOK,
              DroppedOnlyIfDisturbed, Sending
<1> QED
  BY <1>1, <1>2

\* The step Start preserves the inductive invariant.
LEMMA StartLinkInv == ASSUME LinkInv, Start PROVE LinkInv'
BY UnheldIsNew DEF LinkInv, Start, Connect, Goto, LinkTypeOK, AttemptOK, BoardOK, CloseOK, SecondOK,
                   DroppedOnlyIfDisturbed, Sending

\* The steps StopLink and StopJoined preserve the inductive invariant.
LEMMA StopLinkInv == ASSUME LinkInv, StopLink \/ StopJoined PROVE LinkInv'
BY DEF LinkInv, StopLink, StopJoined, LinkTypeOK, AttemptOK, BoardOK, CloseOK, SecondOK,
       DroppedOnlyIfDisturbed, Sending

\* The board's going and coming preserve the inductive invariant.
LEMMA BoardLinkInv == ASSUME LinkInv, Unplug \/ Plug PROVE LinkInv'
BY DEF LinkInv, Unplug, Plug, LinkTypeOK, AttemptOK, BoardOK, CloseOK, SecondOK,
       DroppedOnlyIfDisturbed, Sending

-----------------------------------------------------------------------------
\* The inductive invariant holds whatever the threads, the main program and the board do.
THEOREM LinkInductiveInvariant == LinkSpec => []LinkInv
<1>1. ASSUME LinkInv, [LinkNext]_linkvars PROVE LinkInv'
  <2>1. CASE UNCHANGED linkvars
    BY <1>1, <2>1 DEF linkvars, LinkInv, LinkTypeOK, AttemptOK, BoardOK, CloseOK, SecondOK,
                      DroppedOnlyIfDisturbed, Sending
  <2>2. CASE LinkNext
    BY <1>1, <2>2, DetachLinkInv, CloseStaleLinkInv, OpenLinkInv, ReaderTakeLinkInv, ReadLinkInv, SendLinkInv,
       SenderTakeLinkInv, WriteLinkInv, StartLinkInv, StopLinkInv, BoardLinkInv
       DEF LinkNext, Reader, Sender, Reconnecting
  <2> QED
    BY <1>1, <2>1, <2>2
<1>2. LinkInv /\ [LinkNext]_linkvars => LinkInv'
  BY <1>1
<1> QED
  BY InitLinkInv, <1>2, PTL DEF LinkSpec

\* No command is dropped while the board is there and nobody else takes the port down,
\* whatever a reconnection begun before still does (MegaLink.send, _write, _reconnect).
THEOREM NoCommandDroppedUndisturbed == LinkSpec => []DroppedOnlyIfDisturbed
<1>1. LinkInv => DroppedOnlyIfDisturbed
  BY DEF LinkInv
<1> QED
  BY <1>1, LinkInductiveInvariant, PTL
=============================================================================
