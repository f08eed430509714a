------------------------------ MODULE Firmware ------------------------------
(***************************************************************************)
(* hardware/mega/firmware/mega_controller: how a command of the Pi reaches *)
(* the gate or the lamp.  A received byte is put into a ring by an         *)
(* interrupt, whatever the main loop is doing; the main loop now and then  *)
(* drains the ring, puts the bytes together to lines and carries out the   *)
(* lines it knows.                                                         *)
(*                                                                         *)
(* A byte is known by its position in the stream of everything ever sent,  *)
(* so that the model can tell what became of it.                           *)
(***************************************************************************)
EXTENDS Integers, Sequences

CONSTANTS Commands,   \* what the Pi may send, and what it does to the board
          Bytes, Devices,
          Return, Eol, \* the bytes that end a line
          RingSize,   \* UART_RX_BUFFER_SIZE
          LineMax,    \* GATE_LINE_MAX
          MaxSent,    \* bound: commands sent
          MaxResets   \* bound: resets of the board

ASSUME FirmwareAssumption ==
    /\ RingSize \in Nat \ {0, 1} /\ LineMax \in Nat \ {0} /\ MaxSent \in Nat /\ MaxResets \in Nat

\* GATE OPEN, GATE CLOSE, LED ON and LED OFF: each fits the line, and none ends like another.
ASSUME CommandAssumption ==
    /\ Return \in Bytes /\ Eol \in Bytes /\ Return # Eol
    /\ Commands \subseteq [line : Seq(Bytes), device : Devices, on : BOOLEAN]
    /\ \A k \in Commands :
          /\ \A i \in 1..Len(k.line) : k.line[i] \notin {Return, Eol}
          /\ Len(k.line) < LineMax
    /\ \A k, l \in Commands : k # l /\ Len(k.line) <= Len(l.line) =>
          \E i \in 0..(Len(k.line) - 1) : k.line[Len(k.line) - i] # l.line[Len(l.line) - i]

VARIABLES sent,       \* the commands sent, with the first and last position of their bytes
          stream,     \* all bytes sent
          arrived,    \* how many of them have reached the board
          ring, head, tail,
          pc,         \* the main loop: boot, busy (elsewhere), poll, advance (byte copied)
          held,       \* the byte copied by uart_try_getc
          line,       \* gate_poll_uart's line, `length` bytes of it
          device,     \* gate open, lamp on
          resets,
          dropped,    \* history: the bytes that did not get into the ring or died with a reset
          read,       \* history: the last byte taken from the ring
          obeyed      \* history: the commands carried out and where their line ended

link == <<sent, stream>>
rx == <<ring, head>>
history == <<dropped, read, obeyed>>
vars == <<link, arrived, rx, tail, pc, held, line, device, resets, history>>

Slots == 0..(RingSize - 1)
Pos == 1..Len(stream)

\* The one that matters is the line's length: line[length] = '\0' has to fit, too.
TypeOK ==
    /\ arrived \in 0..Len(stream)
    /\ ring \in [Slots -> Pos \cup {0}] /\ head \in Slots /\ tail \in Slots
    /\ pc \in {"boot", "busy", "poll", "advance"} /\ held \in Pos \cup {0}
    /\ line \in Seq(Pos) /\ Len(line) < LineMax
    /\ device \in [Devices -> BOOLEAN]
    /\ resets \in 0..MaxResets
    /\ dropped \subseteq Pos /\ read \in 0..arrived
    /\ obeyed \subseteq [at : Pos, command : Commands]

\* closed and off on boot
Off == [d \in Devices |-> FALSE]

Init ==
    /\ sent = <<>> /\ stream = <<>> /\ arrived = 0
    /\ ring = [i \in Slots |-> 0] /\ head = 0 /\ tail = 0
    /\ pc = "busy" /\ held = 0 /\ line = <<>> /\ device = Off
    /\ resets = 0
    /\ dropped = {} /\ read = 0 /\ obeyed = {}

-----------------------------------------------------------------------------
\* MegaLink._write: the line and its end, in one go.
Write(k) ==
    /\ Len(sent) < MaxSent
    /\ LET bytes == k.line \o <<Return, Eol>>
       IN  /\ stream' = stream \o bytes
           /\ sent' = Append(sent, [command |-> k, from |-> Len(stream) + 1, to |-> Len(stream) + Len(bytes)])
    /\ UNCHANGED <<arrived, rx, tail, pc, held, line, device, resets, history>>

\* Faulty variant: the ring is never found full.
FullNever(next_head) == FALSE

Full(next_head) == next_head = tail

\* ISR(USART0_RX_vect), at any time; before it is enabled the byte is lost.
Receive ==
    /\ arrived < Len(stream)
    /\ LET next_head == (head + 1) % RingSize
       IN  IF pc = "boot" \/ Full(next_head)
           THEN dropped' = dropped \cup {arrived + 1} /\ UNCHANGED rx
           ELSE ring' = [ring EXCEPT ![head] = arrived + 1] /\ head' = next_head /\ UNCHANGED dropped
    /\ arrived' = arrived + 1
    /\ UNCHANGED <<link, tail, pc, held, line, device, resets, read, obeyed>>

\* The main loop comes to gate_poll_uart.
Poll ==
    /\ pc = "busy" /\ pc' = "poll"
    /\ UNCHANGED <<link, arrived, rx, tail, held, line, device, resets, history>>

\* uart_try_getc finds nothing: gate_poll_uart returns.
Drained ==
    /\ pc = "poll" /\ head = tail
    /\ pc' = "busy"
    /\ UNCHANGED <<link, arrived, rx, tail, held, line, device, resets, dropped, read, obeyed>>

\* uart_try_getc copies a byte ...
Fetch ==
    /\ pc = "poll" /\ head # tail
    /\ held' = ring[tail] /\ pc' = "advance"
    /\ UNCHANGED <<link, arrived, rx, tail, line, device, resets, history>>

Text(l) == [i \in DOMAIN l |-> stream[l[i]]]

\* Faulty variant: a known command may be followed by anything.
MatchingPrefix(l) ==
    {k \in Commands : Len(k.line) <= Len(l) /\ SubSeq(Text(l), 1, Len(k.line)) = k.line}

\* gate_handle_line: the commands that the line is.
Matching(l) == {k \in Commands : k.line = Text(l)}

\* gate_set, led_set.
Obey ==
    LET known == Matching(line)
    IN  /\ device' = [d \in Devices |->
               IF \E k \in known : k.device = d THEN (CHOOSE k \in known : k.device = d).on ELSE device[d]]
        /\ obeyed' = obeyed \cup [at : {held}, command : known]

\* Faulty variant: the length is checked against the whole buffer.
LongerByOne(l, p) == IF Len(l) < LineMax THEN Append(l, p) ELSE <<>>

\* A line that gets too long is forgotten, and what is left of it begins a new one.
Longer(l, p) == IF Len(l) < LineMax - 1 THEN Append(l, p) ELSE <<>>

\* Faulty variant: the length is reset only when a line was understood.
AfterEolIfKnown(l) == IF Matching(l) = {} THEN l ELSE <<>>

\* The line after its end was handled.
AfterEol(l) == <<>>

\* ... and frees its slot, and the loop of gate_poll_uart deals with the byte.
Advance ==
    /\ pc = "advance"
    /\ tail' = (tail + 1) % RingSize
    /\ CASE stream[held] = Return -> UNCHANGED <<line, device, obeyed>>
         [] stream[held] = Eol    -> Obey /\ line' = AfterEol(line)
         [] OTHER                 -> line' = Longer(line, held) /\ UNCHANGED <<device, obeyed>>
    /\ read' = held /\ pc' = "poll"
    /\ UNCHANGED <<link, arrived, rx, held, resets, dropped>>

Waiting == [i \in 1..((head - tail) % RingSize) |-> ring[(tail + i - 1) % RingSize]]
Members(s) == {s[i] : i \in DOMAIN s}

\* The board is reset, for instance because the Pi opens the port anew.
Reset ==
    /\ resets < MaxResets /\ resets' = resets + 1
    /\ pc' = "boot"
    /\ ring' = [i \in Slots |-> 0] /\ head' = 0 /\ tail' = 0 /\ held' = 0
    /\ line' = <<>> /\ device' = Off
    /\ dropped' = dropped \cup Members(Waiting) \cup Members(line)
    /\ read' = arrived
    /\ UNCHANGED <<link, arrived, obeyed>>

\* main comes to its loop.
Boot ==
    /\ pc = "boot" /\ pc' = "busy"
    /\ UNCHANGED <<link, arrived, rx, tail, held, line, device, resets, history>>

-----------------------------------------------------------------------------
Loop == Boot \/ Poll \/ Drained \/ Fetch \/ Advance

Next == (\E k \in Commands : Write(k)) \/ Receive \/ Loop \/ Reset

Spec == Init /\ [][Next]_vars

\* The main loop runs and what was written arrives.
LiveSpec == Spec /\ WF_vars(Loop) /\ WF_vars(Receive)

-----------------------------------------------------------------------------
\* The ring holds what has arrived and is not yet read, in order, except for what was
\* dropped, and the byte being copied is not overwritten by the interrupt (ISR, uart_try_getc).
RingIsQueue ==
    /\ \A i \in 2..Len(Waiting) : Waiting[i - 1] < Waiting[i]
    /\ Members(Waiting) = ((read + 1)..arrived) \ dropped
    /\ pc = "advance" => Waiting # <<>> /\ held = Waiting[1]

Whole(s) == s.from..s.to \cap dropped = {}

\* A loss harms no command but those that lost a byte and the one right behind: every command
\* received as a whole, behind the end of another, is carried out (gate_poll_uart).
WholeObeyed ==
    \A s \in Members(sent) :
        Whole(s) /\ (s.from = 1 \/ s.from - 1 \notin dropped) /\ s.to <= read =>
            [at |-> s.to, command |-> s.command] \in obeyed

\* Where a command was received as a whole, no other one is carried out in its place,
\* whatever fragments came before it (gate_handle_line, gate_poll_uart).
NoOtherObeyed ==
    \A o \in obeyed : \A s \in Members(sent) : o.at = s.to /\ Whole(s) => o.command = s.command

\* The last command for a device that was written to it, if nothing was lost from there on.
Last(d) == {s \in Members(sent) :
               /\ s.command.device = d
               /\ \A o \in Members(sent) : o.command.device = d => o.to <= s.to
               /\ \A p \in dropped : p < s.from - 1}

\* In the end gate and lamp are as last commanded, if nothing was lost since and the board
\* was not reset (gate_set, led_set).
LastWins == <>[](resets = 0 => \A d \in Devices : \A s \in Last(d) : device[d] = s.command.on)
=============================================================================
