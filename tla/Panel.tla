-------------------------------- MODULE Panel --------------------------------
(***************************************************************************)
(* The entrance panel, from the customer's hands to the record: the card   *)
(* reader and the dial as the Mega's main loop polls them, the lines it    *)
(* prints, NfcReader and DurationDial on the Pi, which make events of      *)
(* them, and storage, which pairs the dial with the next gate scan.        *)
(*                                                                         *)
(* Time is counted in polls of the reader, a tenth of a second each: the   *)
(* Pi handles a line well before the next poll, and customers are slower   *)
(* still.  Events may take their time from the Pi to the laptop.  A read   *)
(* of a card that lies on the reader may fail at any poll.  The decoding   *)
(* of the encoder's contacts into detents and the card's bytes are left    *)
(* out; the second reader is the same code with another number.            *)
(***************************************************************************)
EXTENDS Integers, Sequences

CONSTANTS Uids,        \* cards
          None,
          Debounce,    \* debounce_s, in polls
          MinMinutes, MaxMinutes, \* what the dial is clamped to, on both sides
          MaxTicks,    \* bound: detents the dial is turned away from zero; beyond 6547 the Mega's
                       \* 16 bits overflow
          MaxHeld,     \* bound: polls a customer holds a card on the reader
          MaxEvents    \* bound: events under way to the laptop when a customer acts

ASSUME PanelAssumption ==
    /\ None \notin Uids
    /\ Debounce \in Nat \ {0} /\ MaxTicks \in 0..6547 /\ MaxHeld \in Nat /\ MaxEvents \in Nat
    /\ MinMinutes \in Nat /\ MaxMinutes \in Nat /\ MinMinutes <= MaxMinutes

VARIABLES field,           \* the card on the reader
          had_card, uid,   \* what the reader's last poll found, and the card last printed
          position,        \* detents, counted from the last reset
          serial,          \* lines printed and not handled by the Pi
          last_uid, age,   \* NfcReader: the last card published, and for how many polls
          bus,             \* events published and not handled by storage
          latest_duration, \* storage: minutes dialled since the last gate scan
          held,            \* history: polls since the card in the field was laid there
          scans,           \* history: events published for it
          turned           \* history: a dial event was published since the last scan

mega == <<had_card, uid, position>>
pi == <<last_uid, age>>
vars == <<field, mega, serial, pi, bus, latest_duration, held, scans, turned>>

\* What 16 bits make of an integer.
Int16(n) == ((n + 32768) % 65536) - 32768

Clamped(n) == IF n < MinMinutes THEN MinMinutes ELSE IF n > MaxMinutes THEN MaxMinutes ELSE n

\* The minutes on the LCD.
LcdMinutes == Clamped(Int16(30 + position * (-5)))

\* What DurationDial is made with, and its minutes for a line.
Dial == [default |-> 30, per_tick |-> -5, min |-> MinMinutes, max |-> MaxMinutes]

DialMinutes(ticks) ==
    LET minutes == Dial.default + ticks * Dial.per_tick
    IN  CASE minutes < Dial.min -> Dial.min
          [] minutes > Dial.max -> Dial.max
          [] OTHER -> minutes

Rotary(ticks) == [kind |-> "rotary", ticks |-> ticks]
Nfc(c) == [kind |-> "nfc", uid |-> c, lcd |-> LcdMinutes]

\* main, before its loop.
MegaInit == had_card = FALSE /\ uid = None /\ position = 0 /\ serial = << Rotary(0) >>

\* NfcReader.__init__: no scan is a scan long ago.
ReaderInit == last_uid = None /\ age = Debounce

\* The sensors listen before the port is opened: they hear what the Mega prints at its start.
Init ==
    /\ field = None
    /\ ReaderInit /\ MegaInit
    /\ bus = <<>> /\ latest_duration = None
    /\ held = 0 /\ scans = 0 /\ turned = FALSE

-----------------------------------------------------------------------------
(* Customers.                                                              *)

Idle == serial = <<>> /\ Len(bus) <= MaxEvents

Lay(c) ==
    /\ Idle /\ field = None
    /\ field' = c /\ held' = 0 /\ scans' = 0
    /\ UNCHANGED <<mega, serial, pi, bus, latest_duration, turned>>

\* A card may be changed for another between two polls.
Take ==
    /\ Idle /\ field # None
    /\ field' = None
    /\ UNCHANGED <<mega, serial, pi, bus, latest_duration, held, scans, turned>>

\* A detent is counted, shown and printed.
Turn(d) ==
    /\ Idle /\ position + d \in (-MaxTicks)..MaxTicks
    /\ position' = position + d
    /\ serial' = << Rotary(position') >>
    /\ UNCHANGED <<field, had_card, uid, pi, bus, latest_duration, held, scans, turned>>

-----------------------------------------------------------------------------
(* The Mega.                                                               *)

Read(c) ==
    /\ had_card' = TRUE
    /\ uid' = c
    /\ serial' = IF had_card /\ c = uid THEN <<>> ELSE << Nfc(c) >>

Missed == had_card' = FALSE /\ UNCHANGED <<uid, serial>>

\* One poll of the reader, and a tenth of a second more since the last scan.
Poll ==
    /\ Idle /\ (field # None => held < MaxHeld)
    /\ \/ field # None /\ Read(field)
       \/ Missed
    /\ held' = IF field = None THEN held ELSE held + 1
    /\ age' = IF age < Debounce THEN age + 1 ELSE age
    /\ UNCHANGED <<field, position, last_uid, bus, latest_duration, scans, turned>>

\* main starts anew: no card seen, the dial at zero and printed.
Reset ==
    /\ Idle
    /\ had_card' = FALSE /\ uid' = None /\ position' = 0
    /\ serial' = << Rotary(0) >>
    /\ UNCHANGED <<field, pi, bus, latest_duration, held, scans, turned>>

-----------------------------------------------------------------------------
(* The Pi and storage.                                                     *)

Line(kind) == serial # <<>> /\ Head(serial).kind = kind

\* Faulty variant: within the window of any card's scan every other card is dropped too.
RepeatedForAnyone(c) == age < Debounce

Repeated(c) == c = last_uid /\ age < Debounce

\* Faulty variant: every line is a scan.
OnNfcLineAlways ==
    /\ Line("nfc") /\ serial' = Tail(serial)
    /\ last_uid' = Head(serial).uid /\ age' = 0
    /\ bus' = Append(bus, [kind |-> "scan", uid |-> Head(serial).uid, shown |-> Head(serial).lcd, turned |-> turned])
    /\ scans' = scans + 1 /\ turned' = FALSE
    /\ UNCHANGED <<field, mega, latest_duration, held>>

\* NfcReader._on_line.
OnNfcLine ==
    /\ Line("nfc") /\ serial' = Tail(serial)
    /\ LET c == Head(serial).uid
       IN  IF Repeated(c) THEN UNCHANGED <<pi, bus, scans, turned>>
           ELSE /\ last_uid' = c /\ age' = 0
                /\ bus' = Append(bus, [kind |-> "scan", uid |-> c, shown |-> Head(serial).lcd, turned |-> turned])
                /\ scans' = scans + 1 /\ turned' = FALSE
    /\ UNCHANGED <<field, mega, latest_duration, held>>

\* DurationDial._on_line.
OnRotaryLine ==
    /\ Line("rotary") /\ serial' = Tail(serial)
    /\ bus' = Append(bus, [kind |-> "dial", minutes |-> DialMinutes(Head(serial).ticks)])
    /\ turned' = TRUE
    /\ UNCHANGED <<field, mega, pi, latest_duration, held, scans>>

Event(kind) == bus # <<>> /\ Head(bus).kind = kind

OnDuration ==
    /\ Event("dial") /\ bus' = Tail(bus)
    /\ latest_duration' = Head(bus).minutes
    /\ UNCHANGED <<field, mega, serial, pi, held, scans, turned>>

\* Faulty variant: the dial's value is kept for the next customer too.
OnNfcKept ==
    /\ Event("scan") /\ bus' = Tail(bus)
    /\ UNCHANGED <<field, mega, serial, pi, latest_duration, held, scans, turned>>

\* The gate scan takes the dial's value for its customer.
OnNfc ==
    /\ Event("scan") /\ bus' = Tail(bus)
    /\ latest_duration' = None
    /\ UNCHANGED <<field, mega, serial, pi, held, scans, turned>>

Next ==
    \/ \E c \in Uids : Lay(c)
    \/ Take
    \/ \E d \in {-1, 1} : Turn(d)
    \/ Poll \/ Reset
    \/ OnNfcLine \/ OnRotaryLine \/ OnDuration \/ OnNfc

Spec == Init /\ [][Next]_vars

-----------------------------------------------------------------------------
\* A card laid on the reader once is one scan, however often it is read anew, until it has
\* lain there for the debounce time; and one more at most for each time that passes again.
OneScanPerTap == held > 0 => scans <= 1 + ((held - 1) \div Debounce)

\* No card is overlooked: the card a poll has just read is the last one published, be it
\* the same as before, another one, or one laid there in the place of another; or its line is
\* on the way.
CardKnown == had_card /\ serial = <<>> => last_uid = uid

\* A customer is registered with the minutes the LCD showed when the card was read, whatever
\* is turned afterwards, if the dial had been turned since the scan before, and else with
\* none: nobody inherits the last customer's minutes (storage/README.md: "pairs the duration
\* dial with the next gate scan").
DurationPaired ==
    Event("scan") => latest_duration = IF Head(bus).turned THEN Head(bus).shown ELSE None

\* The minutes on the LCD are the ones the customer is registered with (mega_controller.c:
\* "the LCD shows the same duration the rest of the system actually uses").
LcdIsUsed == Event("scan") => latest_duration = Head(bus).shown
=============================================================================
