---------------------------- MODULE SensingProofs ----------------------------
(***************************************************************************)
(* For any places, and whatever is lost on the way: the indicator's and    *)
(* storage's tables differ from what the sensors have seen by the events   *)
(* under way and by the places whose last event was lost, and by no more.  *)
(***************************************************************************)
EXTENDS Sensing, Integers, SequenceTheorems, TLAPS

Tells(m, p) == m.kind = "occupancy" /\ m.place = p

\* The last event of a place in an inbox tells what its sensor has seen; if there is none
\* the table of taken places does.
Follows(inbox, p, seen, taken) ==
    \/ /\ \A i \in 1..Len(inbox) : ~Tells(inbox[i], p)
       /\ seen = TRUE <=> p \in taken
    \/ \E i \in 1..Len(inbox) :
           /\ Tells(inbox[i], p) /\ inbox[i].taken = seen
           /\ \A j \in 1..Len(inbox) : Tells(inbox[j], p) => j <= i

Taken == {s \in Spots : spots[s] = TRUE}

LaptopOK == \A p \in Places :
    last_occupied[p] # None /\ p \notin stale.laptop => Follows(laptop_inbox, p, last_occupied[p], occupied)

PiOK == \A p \in Spots :
    last_occupied[p] # None /\ p \notin stale.pi => Follows(pi_inbox, p, last_occupied[p], Taken)

\* Storage's inbox has events only.
LaptopInbox == \A i \in 1..Len(laptop_inbox) : laptop_inbox[i].kind = "occupancy"

IInv == TypeOK /\ LaptopOK /\ PiOK /\ LaptopInbox

-----------------------------------------------------------------------------
\* A new event of a place is its last one; other messages change nothing for it.
LEMMA FollowsAppend ==
    ASSUME NEW s \in Seq(Messages), NEW m \in Messages, NEW p, NEW seen, NEW taken,
           IF Tells(m, p) THEN m.taken = seen ELSE Follows(s, p, seen, taken)
    PROVE  Follows(Append(s, m), p, seen, taken)
<1> DEFINE t == Append(s, m)
<1>1. /\ Len(s) \in Nat /\ Len(t) = Len(s) + 1 /\ t[Len(s) + 1] = m
      /\ \A i \in 1..Len(s) : t[i] = s[i]
  BY AppendProperties, LenProperties
<1> HIDE DEF t
<1>2. CASE Tells(m, p)
  BY <1>1, <1>2 DEF Follows
<1>3. CASE ~Tells(m, p)
  <2>1. \A j \in 1..Len(t) : Tells(t[j], p) => j \in 1..Len(s) /\ Tells(s[j], p)
    BY <1>1, <1>3
  <2>2. CASE (\A i \in 1..Len(s) : ~Tells(s[i], p)) /\ (seen = TRUE <=> p \in taken)
    BY <2>1, <2>2 DEF Follows
  <2>3. ASSUME NEW i \in 1..Len(s), Tells(s[i], p), s[i].taken = seen,
               \A j \in 1..Len(s) : Tells(s[j], p) => j <= i
        PROVE  Follows(t, p, seen, taken)
    <3>1. i \in 1..Len(t) /\ t[i] = s[i]
      BY <1>1
    <3> QED
      BY <2>1, <2>3, <3>1 DEF Follows
  <2> QED
    BY <1>3, <2>2, <2>3 DEF Follows
<1> QED
  BY <1>2, <1>3 DEF t

\* The first message of an inbox does to the table what it says, and to nothing else.
LEMMA FollowsTail ==
    ASSUME NEW s \in Seq(Messages), s # <<>>, NEW p, NEW seen \in BOOLEAN, NEW taken, NEW after,
           Follows(s, p, seen, taken),
           IF Tells(Head(s), p) THEN Head(s).taken = TRUE <=> p \in after ELSE p \in taken <=> p \in after
    PROVE  Follows(Tail(s), p, seen, after)
<1> DEFINE t == Tail(s)
<1>1. /\ Len(s) \in Nat /\ Len(s) > 0 /\ Len(t) = Len(s) - 1 /\ Head(s) = s[1]
      /\ \A i \in 1..Len(t) : t[i] = s[i + 1]
  BY HeadTailProperties, LenProperties, EmptySeq
<1> HIDE DEF t
<1>2. \A j \in 1..Len(t) : j + 1 \in 1..Len(s)
  BY <1>1
<1>3. CASE (\A i \in 1..Len(s) : ~Tells(s[i], p)) /\ (seen = TRUE <=> p \in taken)
  <2>1. ~Tells(Head(s), p)
    BY <1>1, <1>3
  <2>2. \A j \in 1..Len(t) : ~Tells(t[j], p)
    BY <1>1, <1>2, <1>3
  <2> QED
    BY <1>3, <2>1, <2>2 DEF Follows
<1>4. ASSUME NEW i \in 1..Len(s), Tells(s[i], p), s[i].taken = seen,
             \A j \in 1..Len(s) : Tells(s[j], p) => j <= i
      PROVE  Follows(t, p, seen, after)
  <2>1. CASE i = 1
    <3>1. \A j \in 1..Len(t) : ~Tells(t[j], p)
      <4>1. ASSUME NEW j \in 1..Len(t), Tells(t[j], p) PROVE FALSE
        <5>1. j + 1 <= 1
          BY <1>1, <1>2, <1>4, <2>1, <4>1
        <5> QED
          BY <5>1
      <4> QED
        BY <4>1
    <3>2. seen = TRUE <=> p \in after
      BY <1>1, <1>4, <2>1
    <3> QED
      BY <3>1, <3>2 DEF Follows
  <2>2. CASE i # 1
    <3>1. i - 1 \in 1..Len(t) /\ t[i - 1] = s[i]
      BY <1>1, <2>2
    <3>2. \A j \in 1..Len(t) : Tells(t[j], p) => j <= i - 1
      BY <1>1, <1>2, <1>4
    <3> QED
      BY <1>4, <3>1, <3>2 DEF Follows
  <2> QED
    BY <2>1, <2>2
<1> QED
  BY <1>3, <1>4 DEF Follows, t

\* Nothing is under way of a place that has no event in the inbox.
LEMMA FollowsNothing ==
    ASSUME NEW inbox, NEW p \in Places, NEW seen, NEW taken, Follows(inbox, p, seen, taken),
           inbox \in Seq(Messages), p \notin UnderWay(inbox)
    PROVE  Follows(<<>>, p, seen, taken)
<1>1. \A i \in 1..Len(inbox) : ~Tells(inbox[i], p)
  BY LenProperties DEF UnderWay, Tells
<1>2. seen = TRUE <=> p \in taken
  BY <1>1 DEF Follows
<1> QED
  BY <1>2 DEF Follows

\* Messages the components publish.
LEMMA Published ==
    /\ \A p \in Places, b \in BOOLEAN :
           /\ Occupancy(p, b) \in Messages
           /\ \A q : Tells(Occupancy(p, b), q) <=> q = p
           /\ Occupancy(p, b).taken = b
    /\ \A b \in BOOLEAN : LotFull(b) \in Messages /\ \A q : ~Tells(LotFull(b), q)
<1>1. ASSUME NEW b \in BOOLEAN PROVE LotFull(b) \in Messages /\ \A q : ~Tells(LotFull(b), q)
  BY DEF LotFull, Messages, Tells
<1>2. ASSUME NEW p \in Places, NEW b \in BOOLEAN
      PROVE  /\ Occupancy(p, b) \in Messages
             /\ \A q : Tells(Occupancy(p, b), q) <=> q = p
             /\ Occupancy(p, b).taken = b
  BY DEF Occupancy, Messages, Tells
<1> QED
  BY <1>1, <1>2

-----------------------------------------------------------------------------
\* Nothing seen yet, nothing to tell.
LEMMA InitIInv == ASSUME Init PROVE IInv
<1>1. /\ covered \in [Places -> BOOLEAN] /\ last_occupied = [p \in Places |-> None]
      /\ spots = [p \in Spots |-> FALSE] /\ last_full = None /\ led = FALSE /\ occupied = {}
      /\ failing \in Conditions /\ pi \in {"down", "subscribed"} /\ laptop \in {"down", "subscribed"}
      /\ pi_inbox = <<>> /\ laptop_inbox = <<>> /\ stale = [pi |-> {}, laptop |-> {}]
  BY DEF Init, SensorInit, IndicatorInit, LedInit
<1>2. led \in BOOLEAN
  BY <1>1
<1>3. last_occupied \in [Places -> BOOLEAN \cup {None}] /\ spots \in [Spots -> BOOLEAN]
      /\ last_full \in BOOLEAN \cup {None} /\ occupied \in SUBSET Places
  BY <1>1
<1>4. failing \in SUBSET {"broker", "board"}
  BY <1>1, SensingAssumption
<1>5. pi_inbox \in Seq(Messages) /\ laptop_inbox \in Seq(Messages)
      /\ stale \in [pi : SUBSET Places, laptop : SUBSET Places]
  BY <1>1
<1>6. TypeOK
  BY <1>1, <1>2, <1>3, <1>4, <1>5 DEF TypeOK
<1>7. LaptopOK /\ PiOK /\ LaptopInbox
  BY <1>1 DEF LaptopOK, PiOK, LaptopInbox, Places
<1> QED
  BY <1>6, <1>7 DEF IInv

\* The step OnLine preserves the inductive invariant.
LEMMA OnLineIInv == ASSUME IInv, NEW p \in Places, OnLine(p) PROVE IInv'
<1> DEFINE seen == covered[p]
           m == Occupancy(p, covered[p])
<1>1. /\ last_occupied' = [last_occupied EXCEPT ![p] = seen]
      /\ pi_inbox' = IF Reached(pi) THEN Append(pi_inbox, m) ELSE pi_inbox
      /\ laptop_inbox' = IF Reached(laptop) THEN Append(laptop_inbox, m) ELSE laptop_inbox
      /\ stale' = [pi     |-> IF Reached(pi) THEN stale.pi \ {p} ELSE stale.pi \cup {p},
                   laptop |-> IF Reached(laptop) THEN stale.laptop \ {p} ELSE stale.laptop \cup {p}]
      /\ UNCHANGED <<covered, spots, last_full, led, occupied, pi, laptop, failing>>
  BY DEF OnLine, Delivered, node, net
<1>2. /\ seen \in BOOLEAN /\ m \in Messages /\ m.taken = seen /\ \A q : Tells(m, q) <=> q = p
  BY Published DEF IInv, TypeOK
<1> HIDE DEF seen, m
<1>3. /\ pi_inbox' \in Seq(Messages) /\ laptop_inbox' \in Seq(Messages)
  BY <1>1, <1>2, AppendProperties DEF IInv, TypeOK
<1>4. /\ last_occupied' \in [Places -> BOOLEAN \cup {None}] /\ last_occupied'[p] = seen
      /\ \A q \in Places \ {p} : last_occupied'[q] = last_occupied[q]
      /\ stale' \in [pi : SUBSET Places, laptop : SUBSET Places]
  BY <1>1, <1>2 DEF IInv, TypeOK
<1>5. TypeOK'
  BY <1>1, <1>3, <1>4 DEF IInv, TypeOK
<1>6. LaptopOK'
  <2> SUFFICES ASSUME NEW q \in Places, last_occupied'[q] # None, q \notin stale'.laptop
               PROVE  Follows(laptop_inbox', q, last_occupied'[q], occupied)
    BY <1>1 DEF LaptopOK
  <2>1. laptop_inbox \in Seq(Messages)
    BY DEF IInv, TypeOK
  <2>2. CASE q = p
    <3>1. Reached(laptop) /\ laptop_inbox' = Append(laptop_inbox, m)
      BY <1>1, <2>2
    <3> QED
      BY <1>2, <1>4, <2>1, <2>2, <3>1, FollowsAppend
  <2>3. CASE q # p
    <3>1. Follows(laptop_inbox, q, last_occupied[q], occupied) /\ last_occupied'[q] = last_occupied[q]
      BY <1>1, <1>4, <2>3 DEF IInv, LaptopOK
    <3>2. CASE laptop_inbox' = laptop_inbox
      BY <3>1, <3>2
    <3>3. CASE laptop_inbox' = Append(laptop_inbox, m)
      BY <1>2, <2>1, <2>3, <3>1, <3>3, FollowsAppend
    <3> QED
      BY <1>1, <3>2, <3>3
  <2> QED
    BY <2>2, <2>3
<1>7. PiOK'
  <2> SUFFICES ASSUME NEW q \in Spots, last_occupied'[q] # None, q \notin stale'.pi
               PROVE  Follows(pi_inbox', q, last_occupied'[q], Taken)
    BY <1>1 DEF PiOK, Taken
  <2>1. pi_inbox \in Seq(Messages) /\ q \in Places
    BY DEF IInv, TypeOK, Places
  <2>2. CASE q = p
    <3>1. Reached(pi) /\ pi_inbox' = Append(pi_inbox, m)
      BY <1>1, <2>2
    <3> QED
      BY <1>2, <1>4, <2>1, <2>2, <3>1, FollowsAppend
  <2>3. CASE q # p
    <3>1. Follows(pi_inbox, q, last_occupied[q], Taken) /\ last_occupied'[q] = last_occupied[q]
      BY <1>1, <1>4, <2>1, <2>3 DEF IInv, PiOK
    <3>2. CASE pi_inbox' = pi_inbox
      BY <3>1, <3>2
    <3>3. CASE pi_inbox' = Append(pi_inbox, m)
      BY <1>2, <2>1, <2>3, <3>1, <3>3, FollowsAppend
    <3> QED
      BY <1>1, <3>2, <3>3
  <2> QED
    BY <2>2, <2>3
<1>8. LaptopInbox'
  <2>1. laptop_inbox \in Seq(Messages) /\ m.kind = "occupancy"
    BY DEF IInv, TypeOK, m, Occupancy
  <2>2. ASSUME laptop_inbox' = Append(laptop_inbox, m) PROVE LaptopInbox'
    BY <1>2, <2>1, <2>2, AppendProperties, LenProperties DEF IInv, LaptopInbox
  <2> QED
    BY <1>1, <2>2 DEF IInv, LaptopInbox
<1> QED
  BY <1>5, <1>6, <1>7, <1>8 DEF IInv

\* The step OnOccupancy preserves the inductive invariant.
LEMMA OnOccupancyIInv == ASSUME IInv, OnOccupancy PROVE IInv'
<1> DEFINE m == Head(pi_inbox)
           full == \A s \in Spots : spots'[s]
<1>1. /\ pi_inbox # <<>> /\ m.kind = "occupancy"
      /\ spots' = IF m.place \in Spots THEN [spots EXCEPT ![m.place] = m.taken] ELSE spots
      /\ \/ /\ last_full' = full /\ pi_inbox' = Delivered(Tail(pi_inbox), pi, LotFull(full))
         \/ last_full' = last_full /\ pi_inbox' = Tail(pi_inbox)
      /\ UNCHANGED <<covered, last_occupied, led, occupied, pi, laptop, failing, laptop_inbox, stale>>
  BY DEF OnOccupancy, Received, net
<1>2. /\ m \in Messages /\ Tail(pi_inbox) \in Seq(Messages) /\ pi_inbox \in Seq(Messages)
  BY <1>1, HeadTailProperties DEF IInv, TypeOK
<1>3. m.place \in Places /\ m.taken \in BOOLEAN /\ \A q : Tells(m, q) <=> q = m.place
  BY <1>1, <1>2 DEF Messages, Tells
<1>4. full \in BOOLEAN
  OBVIOUS
<1>5. LotFull(full) \in Messages /\ \A q : ~Tells(LotFull(full), q)
  BY <1>4, Published
<1> HIDE DEF m, full
<1>6. spots' \in [Spots -> BOOLEAN]
  BY <1>1, <1>3 DEF IInv, TypeOK
<1>7. pi_inbox' = Tail(pi_inbox) \/ pi_inbox' = Append(Tail(pi_inbox), LotFull(full))
  BY <1>1 DEF Delivered
<1>8. pi_inbox' \in Seq(Messages)
  BY <1>2, <1>5, <1>7, AppendProperties
<1>9. TypeOK'
  BY <1>1, <1>4, <1>6, <1>8 DEF IInv, TypeOK
<1>10. LaptopOK' /\ LaptopInbox'
  BY <1>1 DEF IInv, LaptopOK, LaptopInbox
<1>11. PiOK'
  <2> SUFFICES ASSUME NEW q \in Spots, last_occupied[q] # None, q \notin stale.pi
               PROVE  Follows(pi_inbox', q, last_occupied[q], Taken')
    BY <1>1 DEF PiOK
  <2>1. last_occupied[q] \in BOOLEAN /\ Follows(pi_inbox, q, last_occupied[q], Taken)
    BY DEF IInv, TypeOK, PiOK, Places
  <2>2. CASE q = m.place
    <3>1. m.taken = TRUE <=> q \in Taken'
      BY <1>1, <1>3, <1>6, <2>2 DEF Taken, IInv, TypeOK
    <3>2. Follows(Tail(pi_inbox), q, last_occupied[q], Taken')
      BY <1>1, <1>2, <1>3, <2>1, <2>2, <3>1, FollowsTail DEF m
    <3> QED
      BY <1>2, <1>5, <1>7, <3>2, FollowsAppend
  <2>3. CASE q # m.place
    <3>1. q \in Taken <=> q \in Taken'
      BY <1>1, <2>3 DEF Taken, IInv, TypeOK
    <3>2. Follows(Tail(pi_inbox), q, last_occupied[q], Taken')
      BY <1>1, <1>2, <1>3, <2>1, <2>3, <3>1, FollowsTail DEF m
    <3> QED
      BY <1>2, <1>5, <1>7, <3>2, FollowsAppend
  <2> QED
    BY <2>2, <2>3
<1> QED
  BY <1>9, <1>10, <1>11 DEF IInv

\* The step OnLotFull preserves the inductive invariant.
LEMMA OnLotFullIInv == ASSUME IInv, OnLotFull PROVE IInv'
<1> DEFINE m == Head(pi_inbox)
<1>1. /\ pi_inbox # <<>> /\ m.kind = "full" /\ pi_inbox' = Tail(pi_inbox) /\ led' = m.full
      /\ UNCHANGED <<covered, last_occupied, spots, last_full, occupied, pi, laptop, failing, laptop_inbox, stale>>
  BY DEF OnLotFull, Received, net
<1>2. /\ m \in Messages /\ Tail(pi_inbox) \in Seq(Messages) /\ pi_inbox \in Seq(Messages)
  BY <1>1, HeadTailProperties DEF IInv, TypeOK
<1>3. m.full \in BOOLEAN /\ \A q : ~Tells(m, q)
  BY <1>1, <1>2 DEF Messages, Tells
<1> HIDE DEF m
<1>4. TypeOK'
  BY <1>1, <1>2, <1>3 DEF IInv, TypeOK
<1>5. LaptopOK' /\ LaptopInbox'
  BY <1>1 DEF IInv, LaptopOK, LaptopInbox
<1>6. PiOK'
  <2> SUFFICES ASSUME NEW q \in Spots, last_occupied[q] # None, q \notin stale.pi
               PROVE  Follows(Tail(pi_inbox), q, last_occupied[q], Taken)
    BY <1>1 DEF PiOK, Taken
  <2>1. last_occupied[q] \in BOOLEAN /\ Follows(pi_inbox, q, last_occupied[q], Taken)
    BY DEF IInv, TypeOK, PiOK, Places
  <2> QED
    BY <1>1, <1>2, <1>3, <2>1, FollowsTail DEF m
<1> QED
  BY <1>4, <1>5, <1>6 DEF IInv

\* The step StoreOccupancy preserves the inductive invariant.
LEMMA StoreOccupancyIInv == ASSUME IInv, StoreOccupancy PROVE IInv'
<1> DEFINE m == Head(laptop_inbox)
<1>1. /\ laptop_inbox # <<>> /\ laptop_inbox' = Tail(laptop_inbox)
      /\ occupied' = IF m.taken THEN occupied \cup {m.place} ELSE occupied \ {m.place}
      /\ UNCHANGED <<covered, last_occupied, spots, last_full, led, pi, laptop, failing, pi_inbox, stale>>
  BY DEF StoreOccupancy, node, net
<1>2. m \in Messages /\ Tail(laptop_inbox) \in Seq(Messages) /\ laptop_inbox \in Seq(Messages)
  BY <1>1, HeadTailProperties DEF IInv, TypeOK
<1>3. m.kind = "occupancy"
  BY <1>1, HeadTailProperties DEF IInv, LaptopInbox
<1>4. m.place \in Places /\ m.taken \in BOOLEAN /\ \A q : Tells(m, q) <=> q = m.place
  BY <1>2, <1>3 DEF Messages, Tells
<1> HIDE DEF m
<1>5. TypeOK'
  BY <1>1, <1>2, <1>4 DEF IInv, TypeOK
<1>6. PiOK'
  BY <1>1 DEF IInv, PiOK, Taken
<1>7. LaptopOK'
  <2> SUFFICES ASSUME NEW q \in Places, last_occupied[q] # None, q \notin stale.laptop
               PROVE  Follows(Tail(laptop_inbox), q, last_occupied[q], occupied')
    BY <1>1 DEF LaptopOK
  <2>1. last_occupied[q] \in BOOLEAN /\ Follows(laptop_inbox, q, last_occupied[q], occupied)
    BY DEF IInv, TypeOK, LaptopOK
  <2>2. CASE q = m.place
    <3>1. m.taken = TRUE <=> q \in occupied'
      BY <1>1, <1>4, <2>2
    <3> QED
      BY <1>1, <1>2, <1>4, <2>1, <2>2, <3>1, FollowsTail DEF m
  <2>3. CASE q # m.place
    <3>1. q \in occupied <=> q \in occupied'
      BY <1>1, <2>3
    <3> QED
      BY <1>1, <1>2, <1>4, <2>1, <2>3, <3>1, FollowsTail DEF m
  <2> QED
    BY <2>2, <2>3
<1>8. LaptopInbox'
  BY <1>1, <1>2, HeadTailProperties, LenProperties DEF IInv, LaptopInbox
<1> QED
  BY <1>5, <1>6, <1>7, <1>8 DEF IInv

\* Cars, connections that come back and a reset of the lamp touch neither tables nor inboxes.
LEMMA TablesKept ==
    ASSUME IInv, UNCHANGED <<last_occupied, spots, occupied, pi_inbox, laptop_inbox, stale>>
    PROVE  LaptopOK' /\ PiOK' /\ LaptopInbox'
BY DEF IInv, LaptopOK, PiOK, LaptopInbox, Taken

\* The step Change preserves the inductive invariant.
LEMMA ChangeIInv == ASSUME IInv, NEW p \in Places, Change(p) PROVE IInv'
<1>1. /\ covered' = [covered EXCEPT ![p] = ~covered[p]]
      /\ UNCHANGED <<last_occupied, spots, last_full, led, occupied, pi, laptop, failing, pi_inbox,
                     laptop_inbox, stale>>
  BY DEF Change, node, net
<1>2. covered' \in [Places -> BOOLEAN]
  BY <1>1 DEF IInv, TypeOK
<1> QED
  BY <1>1, <1>2, TablesKept DEF IInv, TypeOK

\* The steps of a connection that comes back preserve the inductive invariant.
LEMMA UpIInv == ASSUME IInv, Up PROVE IInv'
<1>1. /\ pi' \in {"connected", "subscribed"}
      /\ UNCHANGED <<covered, last_occupied, spots, last_full, led, occupied, laptop, failing, pi_inbox,
                     laptop_inbox, stale>>
  BY DEF Up, PiConnect, PiSubscribe, node
<1> QED
  BY <1>1, TablesKept DEF IInv, TypeOK

\* The step Reset preserves the inductive invariant.
LEMMA ResetIInv == ASSUME IInv, Reset PROVE IInv'
<1>1. /\ led' = FALSE
      /\ UNCHANGED <<covered, last_occupied, spots, last_full, occupied, pi, laptop, failing, pi_inbox,
                     laptop_inbox, stale>>
  BY DEF Reset, net
<1>2. led' \in BOOLEAN
  BY <1>1
<1> QED
  BY <1>1, <1>2, TablesKept DEF IInv, TypeOK

\* The step PiDown preserves the inductive invariant.
LEMMA PiDownIInv == ASSUME IInv, PiDown PROVE IInv'
<1>1. /\ pi' = "down" /\ pi_inbox' = <<>> /\ stale' = [stale EXCEPT !.pi = stale.pi \cup UnderWay(pi_inbox)]
      /\ UNCHANGED <<covered, last_occupied, spots, last_full, led, occupied, laptop, failing, laptop_inbox>>
  BY DEF PiDown, node
<1>2. /\ stale' \in [pi : SUBSET Places, laptop : SUBSET Places]
      /\ stale'.pi = stale.pi \cup UnderWay(pi_inbox) /\ stale'.laptop = stale.laptop
  BY <1>1 DEF IInv, TypeOK, UnderWay
<1>3. TypeOK'
  BY <1>1, <1>2 DEF IInv, TypeOK
<1>4. LaptopOK' /\ LaptopInbox'
  BY <1>1, <1>2 DEF IInv, LaptopOK, LaptopInbox
<1>5. PiOK'
  <2> SUFFICES ASSUME NEW q \in Spots, last_occupied[q] # None, q \notin stale'.pi
               PROVE  Follows(<<>>, q, last_occupied[q], Taken)
    BY <1>1 DEF PiOK, Taken
  <2>1. Follows(pi_inbox, q, last_occupied[q], Taken) /\ pi_inbox \in Seq(Messages) /\ q \in Places
        /\ q \notin UnderWay(pi_inbox)
    BY <1>2 DEF IInv, TypeOK, PiOK, Places
  <2> QED
    BY <2>1, FollowsNothing
<1> QED
  BY <1>3, <1>4, <1>5 DEF IInv

\* The step LaptopDown preserves the inductive invariant.
LEMMA LaptopDownIInv == ASSUME IInv, LaptopDown PROVE IInv'
<1>1. /\ laptop' = "down" /\ laptop_inbox' = <<>>
      /\ stale' = [stale EXCEPT !.laptop = stale.laptop \cup UnderWay(laptop_inbox)]
      /\ UNCHANGED <<covered, last_occupied, spots, last_full, led, occupied, pi, failing, pi_inbox>>
  BY DEF LaptopDown, node
<1>2. /\ stale' \in [pi : SUBSET Places, laptop : SUBSET Places]
      /\ stale'.laptop = stale.laptop \cup UnderWay(laptop_inbox) /\ stale'.pi = stale.pi
  BY <1>1 DEF IInv, TypeOK, UnderWay
<1>3. TypeOK'
  BY <1>1, <1>2 DEF IInv, TypeOK
<1>4. PiOK' /\ LaptopInbox'
  BY <1>1, <1>2 DEF IInv, PiOK, LaptopInbox, Taken
<1>5. LaptopOK'
  <2> SUFFICES ASSUME NEW q \in Places, last_occupied[q] # None, q \notin stale'.laptop
               PROVE  Follows(<<>>, q, last_occupied[q], occupied)
    BY <1>1 DEF LaptopOK
  <2>1. Follows(laptop_inbox, q, last_occupied[q], occupied) /\ laptop_inbox \in Seq(Messages)
        /\ q \notin UnderWay(laptop_inbox)
    BY <1>2 DEF IInv, TypeOK, LaptopOK
  <2> QED
    BY <2>1, FollowsNothing
<1> QED
  BY <1>3, <1>4, <1>5 DEF IInv

\* The step LaptopUp preserves the inductive invariant.
LEMMA LaptopUpIInv == ASSUME IInv, LaptopUp PROVE IInv'
<1>1. /\ laptop' = "subscribed"
      /\ UNCHANGED <<covered, last_occupied, spots, last_full, led, pi, failing, pi_inbox, laptop_inbox>>
  BY DEF LaptopUp, node
<1>2. CASE UNCHANGED <<occupied, stale>>
  BY <1>1, <1>2, TablesKept DEF IInv, TypeOK
<1>3. CASE occupied' = {} /\ stale' = [stale EXCEPT !.laptop = Places]
  <2>1. /\ stale' \in [pi : SUBSET Places, laptop : SUBSET Places]
        /\ stale'.laptop = Places /\ stale'.pi = stale.pi
    BY <1>3 DEF IInv, TypeOK
  <2>2. TypeOK'
    BY <1>1, <1>3, <2>1 DEF IInv, TypeOK
  <2>3. LaptopOK' /\ PiOK' /\ LaptopInbox'
    BY <1>1, <2>1 DEF IInv, LaptopOK, PiOK, LaptopInbox, Taken
  <2> QED
    BY <2>2, <2>3 DEF IInv
<1> QED
  BY <1>2, <1>3 DEF LaptopUp

-----------------------------------------------------------------------------
\* Types and what the tables and the events under way tell are invariants of the nodes.
THEOREM InductiveInvariant == Spec => []IInv
<1>1. Init => IInv
  BY InitIInv
<1>2. ASSUME IInv, [Next]_vars PROVE IInv'
  <2>1. ASSUME NEW p \in Places, OnLine(p) PROVE IInv'
    BY <1>2, <2>1, OnLineIInv
  <2>2. ASSUME NEW p \in Places, Change(p) PROVE IInv'
    BY <1>2, <2>2, ChangeIInv
  <2>3. CASE Nodes
    BY <1>2, <2>3, OnOccupancyIInv, OnLotFullIInv DEF Nodes
  <2>4. CASE StoreOccupancy
    BY <1>2, <2>4, StoreOccupancyIInv
  <2>5. CASE Up
    BY <1>2, <2>5, UpIInv
  <2>6. CASE LaptopUp
    BY <1>2, <2>6, LaptopUpIInv
  <2>7. CASE PiDown \/ LaptopDown
    BY <1>2, <2>7, PiDownIInv, LaptopDownIInv
  <2>8. CASE Reset
    BY <1>2, <2>8, ResetIInv
  <2>9. CASE UNCHANGED vars
    BY <1>2, <2>9, TablesKept DEF vars, node, net, IInv, TypeOK
  <2> QED
    BY <1>2, <2>1, <2>2, <2>3, <2>4, <2>5, <2>6, <2>7, <2>8, <2>9 DEF Next
<1> QED
  BY <1>1, <1>2, PTL DEF Spec

\* What the last event of a place says is what Follows says of it.
LEMMA LastEventTells ==
    ASSUME NEW inbox \in Seq(Messages), NEW p \in Places, NEW seen \in BOOLEAN, NEW taken,
           Follows(inbox, p, seen, taken)
    PROVE  LET event == LastEvent(inbox, p)
           IN  IF event = {} THEN seen = TRUE <=> p \in taken ELSE seen = TRUE <=> TRUE \in event
<1> DEFINE at == {i \in DOMAIN inbox : Tells(inbox[i], p)}
           event == {inbox[i].taken : i \in {n \in at : \A m \in at : m <= n}}
<1>1. LastEvent(inbox, p) = event
  BY DEF LastEvent, Tells
<1>2. DOMAIN inbox = 1..Len(inbox) /\ Len(inbox) \in Nat
  BY LenProperties
<1>3. CASE (\A i \in 1..Len(inbox) : ~Tells(inbox[i], p)) /\ (seen = TRUE <=> p \in taken)
  <2>1. at = {}
    BY <1>2, <1>3
  <2>2. event = {}
    BY <2>1
  <2> QED
    BY <1>1, <1>3, <2>2
<1>4. ASSUME NEW i \in 1..Len(inbox), Tells(inbox[i], p), inbox[i].taken = seen,
             \A j \in 1..Len(inbox) : Tells(inbox[j], p) => j <= i
      PROVE  event = {seen}
  <2>1. i \in at /\ \A n \in at : n <= i
    BY <1>2, <1>4
  <2>2. \A n \in at : (\A k \in at : k <= n) => n = i
    BY <1>2, <2>1
  <2>3. {n \in at : \A k \in at : k <= n} = {i}
    BY <2>1, <2>2
  <2> QED
    BY <1>4, <2>3
<1>5. CASE event = {seen}
  BY <1>1, <1>5
<1> QED
  BY <1>3, <1>4, <1>5 DEF Follows

\* The indicator's and storage's tables follow the sensors: each differs from what they have
\* seen by events under way and by the places whose last event its node lost.
THEOREM TablesFollowSensors == Spec => []TablesFollow
<1>1. ASSUME NEW b \in BOOLEAN, NEW x, NEW S, b = TRUE <=> x \in S PROVE b = (x \in S)
  BY <1>1
<1>2. IInv => TablesFollow
  <2> SUFFICES ASSUME IInv, NEW p \in Places, last_occupied[p] # None
               PROVE  /\ p \notin stale.laptop =>
                             LET event == LastEvent(laptop_inbox, p)
                             IN  last_occupied[p] = IF event = {} THEN p \in occupied ELSE TRUE \in event
                      /\ p \in Spots \ stale.pi =>
                             LET event == LastEvent(pi_inbox, p)
                             IN  last_occupied[p] = IF event = {} THEN spots[p] ELSE TRUE \in event
    BY DEF TablesFollow
  <2>1. /\ last_occupied[p] \in BOOLEAN
        /\ pi_inbox \in Seq(Messages) /\ laptop_inbox \in Seq(Messages) /\ spots \in [Spots -> BOOLEAN]
    BY DEF IInv, TypeOK
  <2>2. ASSUME p \notin stale.laptop
        PROVE  LET event == LastEvent(laptop_inbox, p)
               IN  last_occupied[p] = IF event = {} THEN p \in occupied ELSE TRUE \in event
    <3> DEFINE event == LastEvent(laptop_inbox, p)
    <3>1. IF event = {} THEN last_occupied[p] = TRUE <=> p \in occupied
                        ELSE last_occupied[p] = TRUE <=> TRUE \in event
      BY <2>1, <2>2, LastEventTells DEF IInv, LaptopOK
    <3> HIDE DEF event
    <3>2. event = {} => last_occupied[p] = (p \in occupied)
      BY <1>1, <2>1, <3>1
    <3>3. event # {} => last_occupied[p] = (TRUE \in event)
      BY <1>1, <2>1, <3>1
    <3> QED
      BY <3>2, <3>3 DEF event
  <2>3. ASSUME p \in Spots \ stale.pi
        PROVE  LET event == LastEvent(pi_inbox, p)
               IN  last_occupied[p] = IF event = {} THEN spots[p] ELSE TRUE \in event
    <3> DEFINE event == LastEvent(pi_inbox, p)
    <3>1. IF event = {} THEN last_occupied[p] = TRUE <=> p \in Taken
                        ELSE last_occupied[p] = TRUE <=> TRUE \in event
      BY <2>1, <2>3, LastEventTells DEF IInv, PiOK
    <3> HIDE DEF event
    <3>2. p \in Taken <=> spots[p] = TRUE
      BY <2>3 DEF Taken
    <3>3. spots[p] \in BOOLEAN
      BY <2>1, <2>3
    <3>4. event = {} => last_occupied[p] = spots[p]
      BY <2>1, <3>1, <3>2, <3>3
    <3>5. event # {} => last_occupied[p] = (TRUE \in event)
      BY <1>1, <2>1, <3>1
    <3> QED
      BY <3>4, <3>5 DEF event
  <2> QED
    BY <2>2, <2>3
<1> QED
  BY <1>2, InductiveInvariant, PTL
=============================================================================
