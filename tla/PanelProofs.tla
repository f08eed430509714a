----------------------------- MODULE PanelProofs -----------------------------
(***************************************************************************)
(* For any cards, any range of the dial and any debounce time: a card laid *)
(* on the reader once is one scan within that time, no card is overlooked, *)
(* and every customer gets the minutes dialled since the last scan.        *)
(***************************************************************************)
EXTENDS Panel, SequenceTheorems, TLAPS

Scans == [kind : {"scan"}, uid : Uids, shown : Int, turned : BOOLEAN]
Dials == [kind : {"dial"}, minutes : Int]

TypeOK ==
    /\ field \in Uids \cup {None} /\ had_card \in BOOLEAN /\ uid \in Uids \cup {None}
    /\ position \in (-MaxTicks)..MaxTicks
    /\ last_uid \in Uids \cup {None} /\ age \in 0..Debounce
    /\ bus \in Seq(Scans \cup Dials)
    /\ held \in Nat /\ scans \in Nat /\ turned \in BOOLEAN

\* The one line that may be on its way tells of the dial as it is or of the card in the field.
SerialOK ==
    \/ serial = <<>>
    \/ serial = << Rotary(position) >>
    \/ serial = << Nfc(uid) >> /\ field = uid /\ uid \in Uids /\ had_card /\ held > 0

\* CardKnown, and while the dial's line or the card's own is still to be handled.
CardOK == had_card => last_uid = uid \/ serial = << Nfc(uid) >>

\* Every scan but the first took the debounce time, and so will the next one.
ScanOK ==
    scans > 0 =>
        /\ held > 0 /\ (scans - 1) * Debounce <= held - 1
        /\ field # None => last_uid = field /\ (scans - 1) * Debounce + age <= held - 1

\* What storage will have dialled after the first n events.
Dialled(n) == IF n = 0 THEN latest_duration
              ELSE IF bus[n].kind = "dial" THEN bus[n].minutes ELSE None

\* Every scan under way will find what was dialled for it, and so will the next one.
PairOK ==
    /\ \A n \in 1..Len(bus) : bus[n].kind = "scan" =>
           Dialled(n - 1) = IF bus[n].turned THEN bus[n].shown ELSE None
    /\ ~turned => Dialled(Len(bus)) = None
    /\ turned /\ serial # << Rotary(position) >> => Dialled(Len(bus)) = LcdMinutes

IInv == TypeOK /\ SerialOK /\ CardOK /\ ScanOK /\ PairOK

USE PanelAssumption

-----------------------------------------------------------------------------
\* Zero is a position of the dial and an age of a scan.
LEMMA Bounds == 0 \in (-MaxTicks)..MaxTicks /\ 0 \in 0..Debounce /\ Debounce \in 0..Debounce
<1>1. MaxTicks \in Int /\ MaxTicks >= 0 /\ Debounce \in Int /\ Debounce >= 0
  OBVIOUS
<1> QED
  BY <1>1

\* Within the bound of the dial the Mega's 16 bits lose nothing: both sides of the serial
\* line make the same minutes of a position (dial_minutes_from_ticks, DurationDial._on_line).
LEMMA MinutesAgree ==
    ASSUME NEW p \in (-MaxTicks)..MaxTicks
    PROVE  Clamped(Int16(30 + p * (-5))) = DialMinutes(p) /\ DialMinutes(p) \in Int
<1>1. ASSUME NEW n \in Int, n + 32768 >= 0, n <= 32767 PROVE Int16(n) = n
  <2>1. (n + 32768) % 65536 = n + 32768
    BY <1>1
  <2> QED
    BY <2>1 DEF Int16
<1>2. MaxTicks \in Int /\ MaxTicks <= 6547 /\ p \in Int /\ p <= MaxTicks /\ p + MaxTicks >= 0
  OBVIOUS
<1>3. 30 + p * (-5) \in Int /\ (30 + p * (-5)) + 32768 >= 0 /\ 30 + p * (-5) <= 32767
  BY <1>2
<1>4. Int16(30 + p * (-5)) = 30 + p * (-5)
  BY <1>1, <1>3
<1>5. MinMinutes \in Int /\ MaxMinutes \in Int /\ MinMinutes <= MaxMinutes
  OBVIOUS
<1> QED
  BY <1>2, <1>4, <1>5 DEF Clamped, DialMinutes, Dial

LEMMA LcdIsDial == ASSUME TypeOK PROVE LcdMinutes = DialMinutes(position) /\ LcdMinutes \in Int
<1>1. position \in (-MaxTicks)..MaxTicks
  BY DEF TypeOK
<1>2. Clamped(Int16(30 + position * (-5))) = DialMinutes(position) /\ DialMinutes(position) \in Int
  BY <1>1, MinutesAgree
<1> QED
  BY <1>2 DEF LcdMinutes

\* The lines are told apart, and handling the one there is leaves none.
LEMMA Lines ==
    /\ \A p : Head(<< Rotary(p) >>) = Rotary(p) /\ Tail(<< Rotary(p) >>) = <<>> /\ << Rotary(p) >> # <<>>
    /\ \A c : Head(<< Nfc(c) >>) = Nfc(c) /\ Tail(<< Nfc(c) >>) = <<>> /\ << Nfc(c) >> # <<>>
    /\ \A p, c : << Rotary(p) >> # << Nfc(c) >>
<1>1. \A x : Head(<<x>>) = x /\ Tail(<<x>>) = <<>> /\ <<x>> # <<>>
  OBVIOUS
<1>2. \A p, c : Rotary(p) # Nfc(c)
  <2>1. \A p, c : Rotary(p).kind = "rotary" /\ Nfc(c).kind = "nfc"
    BY DEF Rotary, Nfc
  <2> QED
    BY <2>1
<1>3. \A x, y : <<x>> = <<y>> => x = y
  OBVIOUS
<1> QED
  BY <1>1, <1>2, <1>3

\* A line of the reader is the one of the card in the field; a line of the dial tells of it
\* as it is.
LEMMA LineIs ==
    ASSUME SerialOK
    PROVE  /\ Line("nfc") => /\ serial = << Nfc(uid) >> /\ Head(serial) = Nfc(uid) /\ Tail(serial) = <<>>
                             /\ field = uid /\ uid \in Uids /\ had_card /\ held > 0
           /\ Line("rotary") => serial = << Rotary(position) >> /\ Head(serial) = Rotary(position)
                                /\ Tail(serial) = <<>>
<1>1. \A p, c : Rotary(p).kind = "rotary" /\ Nfc(c).kind = "nfc"
  BY DEF Rotary, Nfc
<1>2. CASE serial = <<>>
  BY <1>2 DEF Line
<1>3. CASE serial = << Rotary(position) >>
  <2>1. Head(serial) = Rotary(position) /\ Tail(serial) = <<>> /\ Head(serial).kind = "rotary"
    BY <1>1, <1>3, Lines
  <2> QED
    BY <1>3, <2>1 DEF Line
<1>4. CASE serial = << Nfc(uid) >> /\ field = uid /\ uid \in Uids /\ had_card /\ held > 0
  <2>1. Head(serial) = Nfc(uid) /\ Tail(serial) = <<>> /\ Head(serial).kind = "nfc"
    BY <1>1, <1>4, Lines
  <2> QED
    BY <1>4, <2>1 DEF Line
<1> QED
  BY <1>2, <1>3, <1>4 DEF SerialOK

\* The dial's past values do not depend on what is published after them.
LEMMA DialledAppend ==
    ASSUME bus \in Seq(Scans \cup Dials), NEW e \in Scans \cup Dials,
           bus' = Append(bus, e), latest_duration' = latest_duration
    PROVE  /\ Len(bus) \in Nat /\ Len(bus') = Len(bus) + 1 /\ bus' \in Seq(Scans \cup Dials)
           /\ bus'[Len(bus) + 1] = e
           /\ \A n \in 1..Len(bus) : bus'[n] = bus[n]
           /\ \A n \in 0..Len(bus) : Dialled(n)' = Dialled(n)
           /\ Dialled(Len(bus))' = IF e.kind = "dial" THEN e.minutes ELSE None
<1>1. /\ Len(bus) \in Nat /\ Len(bus') = Len(bus) + 1 /\ bus' \in Seq(Scans \cup Dials)
      /\ bus'[Len(bus) + 1] = e /\ \A n \in 1..Len(bus) : bus'[n] = bus[n]
  BY AppendProperties, LenProperties
<1>2. ASSUME NEW n \in 0..Len(bus) PROVE Dialled(n)' = Dialled(n)
  BY <1>1 DEF Dialled
<1>3. Dialled(Len(bus))' = IF e.kind = "dial" THEN e.minutes ELSE None
  BY <1>1 DEF Dialled
<1> QED
  BY <1>1, <1>2, <1>3

\* Handling the first event moves the others one place up.
LEMMA DialledTail ==
    ASSUME bus \in Seq(Scans \cup Dials), bus # <<>>, bus' = Tail(bus),
           latest_duration' = Dialled(1)
    PROVE  /\ Len(bus) \in Nat /\ Len(bus') = Len(bus) - 1 /\ bus' \in Seq(Scans \cup Dials)
           /\ \A n \in 1..Len(bus') : bus'[n] = bus[n + 1]
           /\ \A n \in 0..Len(bus') : Dialled(n)' = Dialled(n + 1)
<1>1. /\ Len(bus) \in Nat /\ Len(bus') = Len(bus) - 1 /\ bus' \in Seq(Scans \cup Dials)
      /\ \A n \in 1..Len(bus') : bus'[n] = bus[n + 1]
  BY HeadTailProperties, LenProperties
<1>2. ASSUME NEW n \in 0..Len(bus') PROVE Dialled(n)' = Dialled(n + 1)
  BY <1>1 DEF Dialled
<1> QED
  BY <1>1, <1>2
-----------------------------------------------------------------------------
\* A panel just started satisfies the inductive invariant.
LEMMA InitIInv == Init => IInv
<1> SUFFICES ASSUME Init PROVE IInv
  OBVIOUS
<1> USE DEF Init, ReaderInit, MegaInit
<1>1. bus \in Seq(Scans \cup Dials) /\ Len(bus) = 0
  BY EmptySeq
<1>2. TypeOK
  <2>1. position \in (-MaxTicks)..MaxTicks /\ age \in 0..Debounce /\ held \in Nat /\ scans \in Nat
    BY Bounds
  <2>2. had_card \in BOOLEAN /\ turned \in BOOLEAN
    <3>1. had_card = FALSE /\ turned = FALSE
      OBVIOUS
    <3> QED
      BY ONLY <3>1
  <2>3. field \in Uids \cup {None} /\ uid \in Uids \cup {None} /\ last_uid \in Uids \cup {None}
    OBVIOUS
  <2> QED
    BY <1>1, <2>1, <2>2, <2>3 DEF TypeOK
<1>3. SerialOK /\ CardOK /\ ScanOK
  BY DEF SerialOK, CardOK, ScanOK
<1>4. PairOK
  BY <1>1 DEF PairOK, Dialled
<1> QED
  BY <1>2, <1>3, <1>4 DEF IInv

\* Customers leave what is under way alone.
LEMMA PairKept ==
    ASSUME PairOK, UNCHANGED <<bus, latest_duration, turned>>,
           turned /\ serial' # << Rotary(position') >> =>
               serial # << Rotary(position) >> /\ position' = position
    PROVE  PairOK'
BY DEF PairOK, Dialled, LcdMinutes

\* The step Lay preserves the inductive invariant.
LEMMA LayIInv == ASSUME IInv, NEW c \in Uids, Lay(c) PROVE IInv'
<1> USE DEF IInv, Lay, Idle, mega, pi
<1>1. TypeOK'
  BY DEF TypeOK
<1>2. SerialOK' /\ CardOK' /\ ScanOK'
  BY DEF SerialOK, CardOK, ScanOK
<1>3. PairOK'
  BY PairKept
<1> QED
  BY <1>1, <1>2, <1>3

\* The step Take preserves the inductive invariant.
LEMMA TakeIInv == ASSUME IInv, Take PROVE IInv'
<1> USE DEF IInv, Take, Idle, mega, pi
<1>1. TypeOK'
  BY DEF TypeOK
<1>2. SerialOK' /\ CardOK' /\ ScanOK'
  BY DEF SerialOK, CardOK, ScanOK
<1>3. PairOK'
  BY PairKept
<1> QED
  BY <1>1, <1>2, <1>3

\* The step Turn preserves the inductive invariant.
LEMMA TurnIInv == ASSUME IInv, NEW d \in {-1, 1}, Turn(d) PROVE IInv'
<1> USE DEF IInv, Turn, Idle, mega, pi
<1>1. TypeOK'
  BY DEF TypeOK
<1>2. SerialOK' /\ ScanOK'
  BY DEF SerialOK, ScanOK
<1>3. CardOK'
  BY Lines DEF CardOK
<1>4. PairOK'
  BY PairKept
<1> QED
  BY <1>1, <1>2, <1>3, <1>4

\* The step Reset preserves the inductive invariant.
LEMMA ResetIInv == ASSUME IInv, Reset PROVE IInv'
<1> USE DEF IInv, Reset, Idle, pi
<1>1. TypeOK'
  <2>1. position' \in (-MaxTicks)..MaxTicks
    BY Bounds
  <2>2. had_card' \in BOOLEAN
    <3>1. had_card' = FALSE
      OBVIOUS
    <3> QED
      BY ONLY <3>1
  <2> QED
    BY <2>1, <2>2 DEF TypeOK
<1>2. SerialOK' /\ CardOK' /\ ScanOK'
  BY DEF SerialOK, CardOK, ScanOK
<1>3. PairOK'
  BY PairKept
<1> QED
  BY <1>1, <1>2, <1>3

\* The step Poll preserves the inductive invariant.
LEMMA PollIInv == ASSUME IInv, Poll PROVE IInv'
<1> USE DEF IInv, Poll, Idle
<1>1. TypeOK'
  <2>1. had_card' \in BOOLEAN /\ uid' \in Uids \cup {None}
    <3>1. CASE Missed
      <4>0. had_card' = FALSE
        BY <3>1 DEF Missed
      <4>1. had_card' \in BOOLEAN
        BY ONLY <4>0
      <4> QED
        BY <3>1, <4>1 DEF Missed, TypeOK
    <3>2. CASE field # None /\ Read(field)
      BY <3>2 DEF Read, TypeOK
    <3> QED
      BY <3>1, <3>2
  <2>2. age' \in 0..Debounce
    <3>1. Debounce \in Int /\ age \in Int /\ age >= 0 /\ age <= Debounce
      BY DEF TypeOK
    <3> QED
      BY <3>1
  <2>3. held' \in Nat
    BY DEF TypeOK
  <2> QED
    BY <2>1, <2>2, <2>3 DEF TypeOK
<1>2. SerialOK'
  <2>1. CASE Missed
    BY <2>1 DEF SerialOK, Missed
  <2>2. CASE field # None /\ Read(field)
    <3>1. serial' = <<>> \/ serial' = << Nfc(field) >>
      BY <2>2 DEF Read
    <3>2. (serial = <<>>)' \/ (serial = << Nfc(uid) >>)'
      BY <2>2, <3>1 DEF Read, Nfc, LcdMinutes
    <3>3. (field = uid /\ uid \in Uids /\ had_card /\ held > 0)'
      BY <2>2 DEF TypeOK, Read
    <3> QED
      BY <3>2, <3>3 DEF SerialOK
  <2> QED
    BY <2>1, <2>2
<1>3. CardOK'
  BY Lines DEF CardOK, Read, Missed, Nfc, LcdMinutes
<1>4. ScanOK'
  BY DEF ScanOK, TypeOK
<1>5. PairOK'
  <2>1. serial # << Rotary(position) >>
    BY Lines
  <2> QED
    BY <2>1, PairKept
<1> QED
  BY <1>1, <1>2, <1>3, <1>4, <1>5

\* The step OnNfcLine preserves the inductive invariant.
LEMMA OnNfcLineIInv == ASSUME IInv, OnNfcLine PROVE IInv'
<1>1. /\ serial = << Nfc(uid) >> /\ Head(serial) = Nfc(uid) /\ serial' = <<>>
      /\ field = uid /\ uid \in Uids /\ had_card /\ held > 0 /\ serial # << Rotary(position) >>
      /\ Nfc(uid).uid = uid /\ Nfc(uid).lcd = LcdMinutes
  BY LineIs, Lines DEF IInv, OnNfcLine, Nfc
<1>2. CASE Repeated(uid)
  <2>1. UNCHANGED <<last_uid, age, bus, scans, turned, field, had_card, uid, position, latest_duration, held>>
    BY <1>1, <1>2 DEF OnNfcLine, mega, pi
  <2>2. TypeOK' /\ SerialOK' /\ ScanOK'
    BY <1>1, <2>1 DEF IInv, TypeOK, SerialOK, ScanOK
  <2>3. CardOK'
    BY <1>2, <2>1 DEF CardOK, Repeated
  <2>4. PairOK'
    BY <1>1, <2>1, PairKept DEF IInv
  <2> QED
    BY <2>2, <2>3, <2>4 DEF IInv
<1>3. CASE ~Repeated(uid)
  <2> DEFINE e == [kind |-> "scan", uid |-> uid, shown |-> LcdMinutes, turned |-> turned]
  <2>1. /\ last_uid' = uid /\ age' = 0 /\ bus' = Append(bus, e) /\ scans' = scans + 1 /\ turned' = FALSE
        /\ UNCHANGED <<field, had_card, uid, position, latest_duration, held>>
    BY <1>1, <1>3 DEF OnNfcLine, mega
  <2>2. e \in Scans \cup Dials /\ e.kind = "scan" /\ e.turned = turned /\ e.shown = LcdMinutes
    BY <1>1, LcdIsDial DEF IInv, TypeOK, Scans
  <2> HIDE DEF e
  <2>3. /\ Len(bus) \in Nat /\ Len(bus') = Len(bus) + 1 /\ bus' \in Seq(Scans \cup Dials)
        /\ bus'[Len(bus) + 1] = e
        /\ \A n \in 1..Len(bus) : bus'[n] = bus[n]
        /\ \A n \in 0..Len(bus) : Dialled(n)' = Dialled(n)
        /\ Dialled(Len(bus))' = None
    BY <2>1, <2>2, DialledAppend DEF IInv, TypeOK
  <2>4. TypeOK'
    <3>1. age' \in 0..Debounce /\ last_uid' \in Uids \cup {None}
      BY <1>1, <2>1, Bounds
    <3>2. turned' \in BOOLEAN
      <4>1. turned' = FALSE
        BY <2>1
      <4> QED
        BY ONLY <4>1
    <3>3. scans' \in Nat
      BY <2>1 DEF IInv, TypeOK
    <3> QED
      BY <1>1, <2>1, <2>3, <3>1, <3>2, <3>3 DEF IInv, TypeOK
  <2>5. SerialOK' /\ CardOK'
    BY <1>1, <2>1 DEF SerialOK, CardOK
  <2>6. ScanOK'
    <3>1. scans > 0 => age = Debounce
      BY <1>1, <1>3 DEF IInv, TypeOK, ScanOK, Repeated
    <3>2. scans > 0 => scans * Debounce <= held - 1
      BY <1>1, <3>1 DEF IInv, TypeOK, ScanOK
    <3>3. scans = 0 => scans * Debounce = 0
      OBVIOUS
    <3>4. scans \in Nat /\ held \in Nat /\ scans' - 1 = scans
      BY <2>1 DEF IInv, TypeOK
    <3>5. scans * Debounce \in Int /\ scans * Debounce <= held - 1
      BY <1>1, <3>2, <3>3, <3>4
    <3> QED
      BY <1>1, <2>1, <3>4, <3>5 DEF ScanOK
  <2>7. PairOK'
    <3>1. Dialled(Len(bus)) = IF turned THEN LcdMinutes ELSE None
      BY <1>1 DEF IInv, TypeOK, PairOK
    <3>2. ASSUME NEW n \in 1..Len(bus'), bus'[n].kind = "scan"
          PROVE  Dialled(n - 1)' = IF bus'[n].turned THEN bus'[n].shown ELSE None
      <4>1. CASE n = Len(bus) + 1
        BY <2>2, <2>3, <3>1, <4>1
      <4>2. CASE n \in 1..Len(bus)
        BY <2>3, <3>2, <4>2 DEF IInv, PairOK
      <4> QED
        BY <2>3, <4>1, <4>2
    <3>3. ~turned' /\ Dialled(Len(bus))' = None
      BY <2>1, <2>2, <2>3
    <3> QED
      BY <3>2, <3>3 DEF PairOK
  <2> QED
    BY <2>4, <2>5, <2>6, <2>7 DEF IInv
<1> QED
  BY <1>2, <1>3

\* The step OnRotaryLine preserves the inductive invariant.
LEMMA OnRotaryLineIInv == ASSUME IInv, OnRotaryLine PROVE IInv'
<1> DEFINE e == [kind |-> "dial", minutes |-> LcdMinutes]
<1>1. /\ serial = << Rotary(position) >> /\ Head(serial) = Rotary(position) /\ serial' = <<>>
      /\ serial # << Nfc(uid) >> /\ Rotary(position).ticks = position
  BY LineIs, Lines DEF IInv, OnRotaryLine, Rotary
<1>2. LcdMinutes = DialMinutes(position) /\ LcdMinutes \in Int
  BY LcdIsDial DEF IInv
<1>3. /\ bus' = Append(bus, e) /\ turned' = TRUE
      /\ UNCHANGED <<field, had_card, uid, position, last_uid, age, latest_duration, held, scans>>
  BY <1>1, <1>2 DEF OnRotaryLine, mega, pi
<1>4. e \in Scans \cup Dials /\ e.kind = "dial" /\ e.minutes = LcdMinutes
  BY <1>2 DEF Dials
<1> HIDE DEF e
<1>5. /\ Len(bus) \in Nat /\ Len(bus') = Len(bus) + 1 /\ bus' \in Seq(Scans \cup Dials)
      /\ bus'[Len(bus) + 1] = e
      /\ \A n \in 1..Len(bus) : bus'[n] = bus[n]
      /\ \A n \in 0..Len(bus) : Dialled(n)' = Dialled(n)
      /\ Dialled(Len(bus))' = LcdMinutes
  BY <1>3, <1>4, DialledAppend DEF IInv, TypeOK
<1>6. TypeOK'
  <2>1. turned' \in BOOLEAN
    BY <1>3
  <2> QED
    BY <1>3, <1>5, <2>1 DEF IInv, TypeOK
<1>7. SerialOK' /\ CardOK' /\ ScanOK'
  BY <1>1, <1>3 DEF IInv, SerialOK, CardOK, ScanOK
<1>8. PairOK'
  <2>1. LcdMinutes' = LcdMinutes
    BY <1>3 DEF LcdMinutes
  <2>2. ASSUME NEW n \in 1..Len(bus'), bus'[n].kind = "scan"
        PROVE  Dialled(n - 1)' = IF bus'[n].turned THEN bus'[n].shown ELSE None
    <3>1. n \in 1..Len(bus)
      BY <1>4, <1>5, <2>2
    <3> QED
      BY <1>5, <2>2, <3>1 DEF IInv, PairOK
  <2>3. turned' /\ Dialled(Len(bus))' = LcdMinutes'
    BY <1>3, <1>5, <2>1
  <2> QED
    BY <2>2, <2>3 DEF PairOK
<1> QED
  BY <1>6, <1>7, <1>8 DEF IInv

\* The first event leaves the invariants of the events after it as they were.
LEMMA HeadHandled ==
    ASSUME IInv, bus # <<>>, bus' = Tail(bus), latest_duration' = Dialled(1),
           UNCHANGED <<field, had_card, uid, position, serial, last_uid, age, held, scans, turned>>
    PROVE  IInv'
<1>1. /\ Len(bus) \in Nat /\ Len(bus') = Len(bus) - 1 /\ bus' \in Seq(Scans \cup Dials)
      /\ \A n \in 1..Len(bus') : bus'[n] = bus[n + 1]
      /\ \A n \in 0..Len(bus') : Dialled(n)' = Dialled(n + 1)
  BY DialledTail DEF IInv, TypeOK
<1>2. TypeOK'
  BY <1>1 DEF IInv, TypeOK
<1>3. LcdMinutes' = LcdMinutes /\ Rotary(position)' = Rotary(position) /\ Nfc(uid)' = Nfc(uid)
  BY DEF LcdMinutes, Rotary, Nfc
<1>4. SerialOK' /\ CardOK' /\ ScanOK'
  BY <1>3 DEF IInv, SerialOK, CardOK, ScanOK
<1>5. PairOK'
  <2>1. ASSUME NEW n \in 1..Len(bus'), bus'[n].kind = "scan"
        PROVE  Dialled(n - 1)' = IF bus'[n].turned THEN bus'[n].shown ELSE None
    <3>1. n + 1 \in 1..Len(bus) /\ (n + 1) - 1 = n /\ n - 1 \in 0..Len(bus') /\ (n - 1) + 1 = n
      BY <1>1
    <3>2. bus'[n] = bus[n + 1] /\ Dialled(n - 1)' = Dialled(n)
      BY <1>1, <3>1
    <3> QED
      BY <2>1, <3>1, <3>2 DEF IInv, PairOK
  <2>2. (Dialled(Len(bus)))' = Dialled(Len(bus))
    <3>1. Len(bus) > 0
      BY <1>1
    <3> QED
      BY <1>1, <3>1 DEF Dialled
  <2> QED
    BY <1>1, <1>3, <2>1, <2>2 DEF IInv, PairOK
<1> QED
  BY <1>2, <1>4, <1>5 DEF IInv

\* The step OnDuration preserves the inductive invariant.
LEMMA OnDurationIInv == ASSUME IInv, OnDuration PROVE IInv'
<1>1. bus # <<>> /\ bus[1].kind = "dial" /\ latest_duration' = bus[1].minutes
  BY HeadTailProperties DEF OnDuration, Event, IInv, TypeOK
<1>2. latest_duration' = Dialled(1)
  BY <1>1 DEF Dialled
<1> QED
  BY <1>1, <1>2, HeadHandled DEF OnDuration, mega, pi

\* The step OnNfc preserves the inductive invariant.
LEMMA OnNfcIInv == ASSUME IInv, OnNfc PROVE IInv'
<1>1. bus # <<>> /\ bus[1].kind = "scan"
  BY HeadTailProperties DEF OnNfc, Event, IInv, TypeOK
<1>2. latest_duration' = Dialled(1)
  BY <1>1 DEF OnNfc, Dialled
<1> QED
  BY <1>1, <1>2, HeadHandled DEF OnNfc, mega, pi

-----------------------------------------------------------------------------
\* Types, the line on its way, the last card, the time between scans and the minutes dialled
\* for every scan under way are invariants of the panel.
THEOREM InductiveInvariant == Spec => []IInv
<1>1. ASSUME IInv, [Next]_vars PROVE IInv'
  <2>1. ASSUME NEW c \in Uids, Lay(c) PROVE IInv'
    BY <1>1, <2>1, LayIInv
  <2>2. CASE Take
    BY <1>1, <2>2, TakeIInv
  <2>3. ASSUME NEW d \in {-1, 1}, Turn(d) PROVE IInv'
    BY <1>1, <2>3, TurnIInv
  <2>4. CASE Poll
    BY <1>1, <2>4, PollIInv
  <2>5. CASE Reset
    BY <1>1, <2>5, ResetIInv
  <2>6. CASE OnNfcLine
    BY <1>1, <2>6, OnNfcLineIInv
  <2>7. CASE OnRotaryLine
    BY <1>1, <2>7, OnRotaryLineIInv
  <2>8. CASE OnDuration
    BY <1>1, <2>8, OnDurationIInv
  <2>9. CASE OnNfc
    BY <1>1, <2>9, OnNfcIInv
  <2>10. CASE UNCHANGED vars
    BY <1>1, <2>10 DEF vars, mega, pi, IInv, TypeOK, SerialOK, CardOK, ScanOK, PairOK,
                       Dialled, LcdMinutes, Rotary, Nfc
  <2> QED
    BY <1>1, <2>1, <2>2, <2>3, <2>4, <2>5, <2>6, <2>7, <2>8, <2>9, <2>10 DEF Next
<1> QED
  BY <1>1, InitIInv, PTL DEF Spec

\* No card is overlooked: NfcReader publishes every card the Mega reads or has just published it.
THEOREM NoCardOverlooked == Spec => []CardKnown
<1>1. IInv => CardKnown
  BY DEF IInv, CardOK, CardKnown
<1> QED
  BY <1>1, InductiveInvariant, PTL

\* Nobody inherits the last customer's minutes: storage registers a scan with the minutes the
\* LCD showed at it, or with none.
THEOREM MinutesAreTheirs == Spec => []DurationPaired
<1>1. IInv => DurationPaired
  <2> SUFFICES ASSUME IInv, Event("scan")
               PROVE  latest_duration = IF Head(bus).turned THEN Head(bus).shown ELSE None
    BY DEF DurationPaired
  <2>1. bus # <<>> /\ bus[1] = Head(bus) /\ bus[1].kind = "scan" /\ 1 \in 1..Len(bus)
    BY HeadTailProperties, EmptySeq, LenProperties DEF IInv, TypeOK, Event
  <2>2. Dialled(1 - 1) = latest_duration
    BY DEF Dialled
  <2> QED
    BY <2>1, <2>2 DEF IInv, PairOK
<1> QED
  BY <1>1, InductiveInvariant, PTL

\* A card that lies on the reader is one scan per debounce time, however often its reading
\* fails and starts anew.
THEOREM OneScan == Spec => []OneScanPerTap
<1>1. ASSUME NEW k \in Nat, NEW m \in Nat, NEW d \in Nat \ {0}, k * d <= m PROVE k <= m \div d
  <2>1. m = d * (m \div d) + (m % d) /\ m % d < d /\ m \div d \in Nat
    OBVIOUS
  <2>2. SUFFICES ASSUME k >= (m \div d) + 1 PROVE FALSE
    BY <2>1
  <2>3. k * d >= ((m \div d) + 1) * d
    BY <2>1, <2>2
  <2> QED
    BY <1>1, <2>1, <2>3
<1>2. IInv => OneScanPerTap
  <2> SUFFICES ASSUME IInv, held > 0 PROVE scans <= 1 + ((held - 1) \div Debounce)
    BY DEF OneScanPerTap
  <2>1. scans \in Nat /\ held - 1 \in Nat /\ Debounce \in Nat \ {0}
    BY DEF IInv, TypeOK
  <2>2. CASE scans = 0
    <3>1. (held - 1) \div Debounce \in Int
      BY <2>1
    <3>2. 0 <= (held - 1) \div Debounce
      BY <1>1, <2>1
    <3> QED
      BY <2>2, <3>1, <3>2
  <2>3. CASE scans > 0
    <3>1. scans - 1 \in Nat /\ (scans - 1) * Debounce <= held - 1
      BY <2>1, <2>3 DEF IInv, ScanOK
    <3>2. scans - 1 <= (held - 1) \div Debounce /\ (held - 1) \div Debounce \in Int
      BY <1>1, <2>1, <3>1
    <3> QED
      BY <2>1, <3>2
  <2> QED
    BY <2>1, <2>2, <2>3
<1> QED
  BY <1>2, InductiveInvariant, PTL
=============================================================================
