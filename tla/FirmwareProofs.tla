--------------------------- MODULE FirmwareProofs ---------------------------
(***************************************************************************)
(* For any ring, any line buffer that the commands fit in and any commands *)
(* of which none ends like another: the ring is a queue that only loses    *)
(* what does not fit, a command received as a whole behind the end of      *)
(* another is carried out, and none other is in its place.                 *)
(***************************************************************************)
EXTENDS Firmware, SequenceTheorems, TLAPS

\* Every command sent is in the stream, behind the end of another and with its own.
StreamOK ==
    /\ sent \in Seq([command : Commands, from : Nat, to : Nat])
    /\ Len(stream) > 0 => stream[Len(stream)] = Eol
    /\ \A s \in Members(sent) :
          /\ s.from > 0 /\ s.to = s.from + Len(s.command.line) + 1 /\ s.to <= Len(stream)
          /\ \A i \in 1..Len(s.command.line) : stream[s.from + i - 1] = s.command.line[i]
          /\ stream[s.to - 1] = Return /\ stream[s.to] = Eol
          /\ s.from > 1 => stream[s.from - 1] = Eol

Rising(w) == \A i, j \in 1..Len(w) : i < j => w[i] < w[j]

\* RingIsQueue, for any two bytes that wait.
QueueOK ==
    /\ Rising(Waiting)
    /\ Members(Waiting) = ((read + 1)..arrived) \ dropped
    /\ pc = "advance" => Waiting # <<>> /\ held = Waiting[1]
    /\ \A p \in dropped : p <= arrived
    /\ \A i \in 1..Len(line) : line[i] <= read

QueueInv == TypeOK /\ stream \in Seq(Bytes) /\ QueueOK

\* The last byte of a command's line that has been read.
LastRead(s) == IF read < s.to - 1 THEN read ELSE s.to - 2

\* While a command is being read and has lost nothing, the line ends with what was read of it,
\* and is that and no more if the end of the command before it has been read.
Reading(s) ==
    s.from <= read /\ read < s.to /\ (s.from..read) \cap dropped = {} =>
        /\ \A d \in 0..(LastRead(s) - s.from) : d < Len(line) => line[Len(line) - d] = LastRead(s) - d
        /\ s.from = 1 \/ s.from - 1 \notin dropped => Len(line) = LastRead(s) - s.from + 1

LineOK ==
    /\ read = 0 \/ stream[read] = Eol => line = <<>>
    /\ \A s \in Members(sent) : Reading(s)

IInv == QueueInv /\ StreamOK /\ LineOK /\ WholeObeyed /\ NoOtherObeyed

-----------------------------------------------------------------------------
(* The ring.                                                               *)

\* One turn of the ring at most.
LEMMA OneTurn ==
    ASSUME NEW n \in Nat \ {0}, NEW x \in Int
    PROVE  /\ 0 <= x /\ x < n => x % n = x
           /\ n <= x /\ x < 2 * n => x % n = x - n
           /\ -n <= x /\ x < 0 => x % n = x + n
<1> DEFINE q == x \div n
           m == x % n
<1>1. q \in Int /\ m \in Int /\ x = n * q + m /\ 0 <= m /\ m < n
  OBVIOUS
<1> HIDE DEF q, m
<1>2. q >= 2 => n * q >= 2 * n
  BY <1>1
<1>3. q <= -2 => n * q <= -(2 * n)
  BY <1>1
<1>4. q = 1 => n * q = n
  BY <1>1
<1>5. q = -1 => n * q = -n
  BY <1>1
<1>6. q = 0 => n * q = 0
  BY <1>1
<1>7. /\ 0 <= x /\ x < n => m = x
      /\ n <= x /\ x < 2 * n => m = x - n
      /\ -n <= x /\ x < 0 => m = x + n
  BY <1>1, <1>2, <1>3, <1>4, <1>5, <1>6
<1> QED
  BY <1>7 DEF m

Count(h, t) == (h - t) % RingSize
Slot(t, i) == (t + i - 1) % RingSize
Succ(i) == (i + 1) % RingSize

\* How many bytes wait, and where.
LEMMA Places ==
    ASSUME NEW h \in Slots, NEW t \in Slots
    PROVE  /\ RingSize \in Nat /\ RingSize > 1
           /\ Count(h, t) \in Nat /\ Count(h, t) < RingSize
           /\ Count(h, t) = IF h >= t THEN h - t ELSE h - t + RingSize
           /\ \A i \in 1..RingSize : Slot(t, i) = IF t + i - 1 < RingSize THEN t + i - 1
                                               ELSE t + i - 1 - RingSize
           /\ \A i \in 1..RingSize : Slot(t, i) \in Slots
           /\ Slot(t, Count(h, t) + 1) = h
<1>1. RingSize \in Nat \ {0} /\ RingSize > 1
  BY FirmwareAssumption
<1>2. h \in Int /\ 0 <= h /\ h < RingSize /\ t \in Int /\ 0 <= t /\ t < RingSize
  BY <1>1 DEF Slots
<1>3. Count(h, t) = IF h >= t THEN h - t ELSE h - t + RingSize
  <2>1. h - t \in Int /\ -RingSize <= h - t /\ h - t < RingSize
    BY <1>1, <1>2
  <2>2. CASE h >= t
    <3>1. 0 <= h - t
      BY <1>2, <2>2
    <3> QED
      BY <1>1, <2>1, <2>2, <3>1, OneTurn DEF Count
  <2>3. CASE ~(h >= t)
    <3>1. h - t < 0
      BY <1>2, <2>3
    <3> QED
      BY <1>1, <2>1, <2>3, <3>1, OneTurn DEF Count
  <2> QED
    BY <2>2, <2>3
<1>4. Count(h, t) \in Nat /\ Count(h, t) < RingSize
  BY <1>1, <1>2, <1>3
<1>5. ASSUME NEW i \in 1..RingSize
      PROVE  Slot(t, i) = IF t + i - 1 < RingSize THEN t + i - 1 ELSE t + i - 1 - RingSize
  <2>1. t + i - 1 \in Int /\ 0 <= t + i - 1 /\ t + i - 1 < 2 * RingSize
    BY <1>1, <1>2
  <2> QED
    <3>1. CASE t + i - 1 < RingSize
      BY <1>1, <2>1, <3>1, OneTurn DEF Slot
    <3>2. CASE ~(t + i - 1 < RingSize)
      <4>1. RingSize <= t + i - 1
        BY <1>1, <2>1, <3>2
      <4> QED
        <5> DEFINE x == t + i - 1
        <5>1. x \in Int /\ RingSize <= x /\ x < 2 * RingSize
          BY <2>1, <4>1
        <5> HIDE DEF x
        <5>2. x % RingSize = x - RingSize
          BY <1>1, <5>1, OneTurn
        <5> QED
          BY <1>1, <1>2, <2>1, <3>2, <5>2 DEF Slot, x
    <3> QED
      BY <3>1, <3>2
<1>6. \A i \in 1..RingSize : Slot(t, i) \in Slots
  BY <1>1, <1>2, <1>5 DEF Slots
<1>7. Slot(t, Count(h, t) + 1) = h
  <2>1. Count(h, t) + 1 \in 1..RingSize
    BY <1>1, <1>4
  <2> QED
    BY <1>1, <1>2, <1>3, <1>5, <2>1
<1> QED
  BY <1>1, <1>3, <1>4, <1>5, <1>6, <1>7

Queue(h, t, f) == [i \in 1..Count(h, t) |-> f[Slot(t, i)]]

\* What waits is a sequence of bytes.
LEMMA QueueIs ==
    ASSUME NEW h \in Slots, NEW t \in Slots, NEW S, NEW f \in [Slots -> S]
    PROVE  /\ Queue(h, t, f) \in Seq(S) /\ Len(Queue(h, t, f)) = Count(h, t)
           /\ Queue(h, t, f) = <<>> <=> h = t
<1> DEFINE n == Count(h, t)
           w == Queue(h, t, f)
<1>1. n \in Nat /\ n < RingSize /\ RingSize \in Nat
      /\ \A i \in 1..RingSize : Slot(t, i) \in Slots
  BY Places
<1>2. w = [i \in 1..n |-> f[Slot(t, i)]]
  BY DEF Queue
<1> HIDE DEF n, w
<1>3. \A i \in 1..n : f[Slot(t, i)] \in S
  BY <1>1
<1>4. w \in [1..n -> S]
  BY <1>2, <1>3
<1>5. w \in Seq(S)
  BY <1>1, <1>4, SeqDef
<1>6. DOMAIN w = 1..n /\ \A i \in 1..n : w[i] = f[Slot(t, i)]
  BY <1>2
<1>7. Len(w) \in Nat /\ DOMAIN w = 1..Len(w)
  BY <1>5, LenProperties
<1>8. Len(w) = n
  BY <1>1, <1>6, <1>7
<1>9. w = <<>> <=> n = 0
  BY <1>1, <1>5, <1>8, EmptySeq
<1>10. n = 0 <=> h = t
  <2>1. h \in Int /\ t \in Int /\ 0 <= h /\ h < RingSize /\ 0 <= t /\ t < RingSize
    BY <1>1 DEF Slots
  <2>2. n = IF h >= t THEN h - t ELSE h - t + RingSize
    BY Places DEF n
  <2> QED
    BY <1>1, <2>1, <2>2
<1> QED
  BY <1>5, <1>6, <1>8, <1>9, <1>10 DEF n, w

\* A byte put into a ring that is not full waits behind the others.
LEMMA Enqueued ==
    ASSUME NEW h \in Slots, NEW t \in Slots, NEW g, g = Succ(h), g # t
    PROVE  /\ g \in Slots /\ Count(g, t) = Count(h, t) + 1
           /\ Slot(t, Count(h, t) + 1) = h
           /\ \A i \in 1..Count(h, t) : Slot(t, i) # h
<1>1. RingSize \in Nat /\ RingSize > 1 /\ h \in Int /\ 0 <= h /\ h < RingSize
      /\ t \in Int /\ 0 <= t /\ t < RingSize
  BY Places DEF Slots
<1>2. g = Slot(h, 2) /\ 2 \in 1..RingSize
  BY <1>1 DEF Slot, Succ
<1>3. g \in Slots /\ g = IF h + 1 < RingSize THEN h + 1 ELSE 0
  BY <1>1, <1>2, Places
<1>4. Count(g, t) = IF g >= t THEN g - t ELSE g - t + RingSize
  BY <1>3, Places
<1>5. Count(h, t) = IF h >= t THEN h - t ELSE h - t + RingSize
  BY Places
<1>6. g # t
  OBVIOUS
<1>7. Count(g, t) = Count(h, t) + 1
  BY <1>1, <1>3, <1>4, <1>5, <1>6
<1>8. ASSUME NEW i \in 1..Count(h, t) PROVE Slot(t, i) # h
  <2>1. i \in 1..RingSize /\ i <= Count(h, t) /\ i \in Int
    BY <1>1, Places
  <2>2. Slot(t, i) = IF t + i - 1 < RingSize THEN t + i - 1 ELSE t + i - 1 - RingSize
    BY <2>1, Places
  <2> QED
    BY <1>1, <1>5, <2>1, <2>2
<1> QED
  BY <1>3, <1>7, <1>8, Places

\* When the first byte is taken the others are one place nearer.
LEMMA Dequeued ==
    ASSUME NEW h \in Slots, NEW t \in Slots, h # t, NEW u, u = Succ(t)
    PROVE  /\ u \in Slots /\ Count(h, t) \in Nat \ {0} /\ Count(h, u) = Count(h, t) - 1
           /\ \A i \in 1..Count(h, u) : Slot(u, i) = Slot(t, i + 1)
<1>1. RingSize \in Nat /\ RingSize > 1 /\ h \in Int /\ 0 <= h /\ h < RingSize
      /\ t \in Int /\ 0 <= t /\ t < RingSize
  BY Places DEF Slots
<1>2. u = Slot(t, 2) /\ 2 \in 1..RingSize
  BY <1>1 DEF Slot, Succ
<1>3. u \in Slots /\ u = IF t + 1 < RingSize THEN t + 1 ELSE 0
  BY <1>1, <1>2, Places
<1>4. Count(h, t) = IF h >= t THEN h - t ELSE h - t + RingSize
  BY Places
<1>5. Count(h, u) = IF h >= u THEN h - u ELSE h - u + RingSize
  BY <1>3, Places
<1>6. Count(h, t) \in Nat \ {0} /\ Count(h, u) = Count(h, t) - 1 /\ Count(h, t) < RingSize
  BY <1>1, <1>3, <1>4, <1>5
<1>7. ASSUME NEW i \in 1..Count(h, u) PROVE Slot(u, i) = Slot(t, i + 1)
  <2>1. i \in 1..RingSize /\ i + 1 \in 1..RingSize /\ i \in Int
    BY <1>1, <1>6
  <2>2. Slot(u, i) = IF u + i - 1 < RingSize THEN u + i - 1 ELSE u + i - 1 - RingSize
    BY <1>3, <2>1, Places
  <2>3. Slot(t, i + 1) = IF t + (i + 1) - 1 < RingSize THEN t + (i + 1) - 1 ELSE t + (i + 1) - 1 - RingSize
    BY <2>1, Places
  <2> QED
    BY <1>1, <1>3, <1>6, <2>1, <2>2, <2>3
<1> QED
  BY <1>3, <1>6, <1>7

Stored(f, f2, h, p) == f2[h] = p /\ \A x \in Slots : x # h => f2[x] = f[x]

Pushes(w2, w, p) == w2 = Append(w, p)

\* Receive puts a byte behind the others.
LEMMA Pushed ==
    ASSUME NEW h \in Slots, NEW t \in Slots, NEW g, g = Succ(h), g # t,
           NEW S, NEW f \in [Slots -> S], NEW p \in S,
           NEW f2 \in [Slots -> S], Stored(f, f2, h, p)
    PROVE  g \in Slots /\ Pushes(Queue(g, t, f2), Queue(h, t, f), p)
<1> DEFINE n == Count(h, t)
<1>1. /\ g \in Slots /\ Count(g, t) = n + 1 /\ Slot(t, n + 1) = h
      /\ \A i \in 1..n : Slot(t, i) # h
  BY Enqueued
<1>2. n \in Nat /\ n < RingSize /\ RingSize \in Nat /\ \A i \in 1..RingSize : Slot(t, i) \in Slots
  BY Places
<1>3. f2 \in [Slots -> S] /\ f2[h] = p /\ \A x \in Slots : x # h => f2[x] = f[x]
  BY DEF Stored
<1>4. Queue(g, t, f2) \in Seq(S) /\ Len(Queue(g, t, f2)) = n + 1
      /\ \A i \in 1..(n + 1) : Queue(g, t, f2)[i] = f2[Slot(t, i)]
  <2>1. Queue(g, t, f2) \in Seq(S) /\ Len(Queue(g, t, f2)) = Count(g, t)
    <3>1. g \in Slots
      BY <1>1
    <3>2. f2 \in [Slots -> S]
      BY <1>3
    <3> QED
      BY <3>1, <3>2, QueueIs
  <2>2. \A i \in 1..Count(g, t) : Queue(g, t, f2)[i] = f2[Slot(t, i)]
    BY DEF Queue
  <2> QED
    BY <1>1, <2>1, <2>2
<1>5. Queue(h, t, f) \in Seq(S) /\ Len(Queue(h, t, f)) = n
      /\ \A i \in 1..n : Queue(h, t, f)[i] = f[Slot(t, i)]
  <2>1. Queue(h, t, f) \in Seq(S) /\ Len(Queue(h, t, f)) = Count(h, t)
    BY QueueIs
  <2>2. \A i \in 1..Count(h, t) : Queue(h, t, f)[i] = f[Slot(t, i)]
    BY DEF Queue
  <2> QED
    BY <2>1, <2>2
<1> DEFINE w == Queue(h, t, f)
           w2 == Queue(g, t, f2)
<1> HIDE DEF n, w, w2
<1>6. Append(w, p) \in Seq(S) /\ Len(Append(w, p)) = n + 1
      /\ \A i \in 1..(n + 1) : Append(w, p)[i] = IF i <= n THEN w[i] ELSE p
  BY <1>2, <1>5, AppendProperties DEF w
<1>7. ASSUME NEW i \in 1..(n + 1) PROVE w2[i] = Append(w, p)[i]
  <2>1. CASE i \in 1..n
    <3>1. i \in 1..RingSize /\ i <= n
      BY <1>2, <2>1
    <3> QED
      BY <1>1, <1>2, <1>3, <1>4, <1>5, <1>6, <2>1, <3>1 DEF w, w2
  <2>2. CASE i = n + 1
    <3>1. ~(i <= n)
      BY <1>2, <2>2
    <3> QED
      BY <1>1, <1>3, <1>4, <1>6, <2>2, <3>1 DEF w2
  <2>3. n \in Nat /\ i \in 1..(n + 1)
    BY <1>2
  <2>4. i \in 1..n \/ i = n + 1
    BY <2>3
  <2> QED
    BY <2>1, <2>2, <2>4
<1>8. w2 = Append(w, p)
  BY <1>4, <1>6, <1>7, SeqEqual DEF w2
<1> QED
  BY <1>1, <1>8 DEF w, w2, Pushes

Pops(w2, w) == w2 = Tail(w)

\* Advance takes the first one away.
LEMMA Popped ==
    ASSUME NEW h \in Slots, NEW t \in Slots, h # t, NEW u, u = Succ(t), NEW S, NEW f \in [Slots -> S]
    PROVE  u \in Slots /\ Pops(Queue(h, u, f), Queue(h, t, f))
<1> DEFINE n == Count(h, t)
           w == Queue(h, t, f)
           w2 == Queue(h, u, f)
<1>1. u \in Slots /\ n \in Nat \ {0} /\ Count(h, u) = n - 1
      /\ \A i \in 1..(n - 1) : Slot(u, i) = Slot(t, i + 1)
  BY Dequeued
<1>2. w2 \in Seq(S) /\ Len(w2) = n - 1 /\ \A i \in 1..(n - 1) : w2[i] = f[Slot(u, i)]
  <2>1. w2 \in Seq(S) /\ Len(w2) = Count(h, u)
    BY <1>1, QueueIs
  <2>2. \A i \in 1..Count(h, u) : w2[i] = f[Slot(u, i)]
    BY DEF Queue
  <2> QED
    BY <1>1, <2>1, <2>2
<1>3. w \in Seq(S) /\ Len(w) = n /\ \A i \in 1..n : w[i] = f[Slot(t, i)]
  <2>1. w \in Seq(S) /\ Len(w) = Count(h, t)
    BY QueueIs
  <2>2. \A i \in 1..Count(h, t) : w[i] = f[Slot(t, i)]
    BY DEF Queue
  <2> QED
    BY <2>1, <2>2
<1> HIDE DEF n, w, w2
<1>4. w # <<>>
  BY <1>1, <1>3, EmptySeq
<1>5. Tail(w) \in Seq(S) /\ Len(Tail(w)) = n - 1 /\ \A i \in 1..(n - 1) : Tail(w)[i] = w[i + 1]
  BY <1>1, <1>3, <1>4, HeadTailProperties
<1>6. ASSUME NEW i \in 1..(n - 1) PROVE w2[i] = Tail(w)[i]
  <2>1. i + 1 \in 1..n
    BY <1>1
  <2> QED
    BY <1>1, <1>2, <1>3, <1>5, <2>1
<1>7. w2 = Tail(w)
  BY <1>2, <1>5, <1>6, SeqEqual
<1> QED
  BY <1>1, <1>7 DEF w, w2, Pops

\* Waiting is the queue of the ring.
LEMMA WaitingIs ==
    ASSUME TypeOK
    PROVE  /\ Waiting = Queue(head, tail, ring) /\ Waiting \in Seq(Pos \cup {0})
           /\ Waiting = <<>> <=> head = tail
           /\ head # tail => ring[tail] = Waiting[1]
<1>1. Waiting = Queue(head, tail, ring)
  BY DEF Waiting, Queue, Count, Slot
<1>2. head \in Slots /\ tail \in Slots /\ ring \in [Slots -> Pos \cup {0}]
  BY DEF TypeOK
<1>3. ASSUME head # tail PROVE ring[tail] = Waiting[1]
  <2>1. 1 \in 1..Count(head, tail)
    BY <1>2, <1>3, Dequeued
  <2>2. 1 \in 1..RingSize /\ tail + 1 - 1 = tail /\ tail < RingSize
    BY <1>2, Places DEF Slots
  <2>3. Slot(tail, 1) = tail
    BY <1>2, <2>2, Places
  <2> QED
    BY <1>1, <2>1, <2>3 DEF Queue
<1> QED
  BY <1>1, <1>2, <1>3, QueueIs

-----------------------------------------------------------------------------
(* Sequences that rise.                                                    *)

LEMMA RisingAppend ==
    ASSUME NEW S, S \subseteq Int, NEW w \in Seq(S), NEW p \in S, Rising(w), \A x \in Members(w) : x < p
    PROVE  /\ Rising(Append(w, p)) /\ Members(Append(w, p)) = Members(w) \cup {p}
           /\ w # <<>> => Append(w, p)[1] = w[1]
<1> DEFINE v == Append(w, p)
           n == Len(w)
<1>1. v \in Seq(S) /\ Len(v) = n + 1 /\ (\A i \in 1..n : v[i] = w[i]) /\ v[n + 1] = p
  BY AppendProperties
<1>2. n \in Nat /\ DOMAIN w = 1..n /\ \A i \in 1..n : w[i] \in S
  BY LenProperties, ElementOfSeq
<1>3. DOMAIN v = 1..(n + 1)
  BY <1>1, LenProperties
<1>4. \A i \in 1..n : w[i] < p /\ w[i] \in Int
  BY <1>2 DEF Members
<1>5. w # <<>> => n > 0
  BY EmptySeq
<1> HIDE DEF v, n
<1>6. ASSUME NEW i \in 1..(n + 1), NEW j \in 1..(n + 1), i < j PROVE v[i] < v[j]
  <2>1. i \in 1..n
    BY <1>2, <1>6
  <2>2. CASE j = n + 1
    BY <1>1, <1>4, <2>1, <2>2
  <2>3. CASE j \in 1..n
    BY <1>1, <1>6, <2>1, <2>3 DEF Rising, n
  <2>4. j = n + 1 \/ j \in 1..n
    BY <1>2, <1>6
  <2> QED
    BY <2>2, <2>3, <2>4
<1>7. Rising(v)
  BY <1>1, <1>6 DEF Rising
<1>8. Members(v) = Members(w) \cup {p}
  <2>1. \A i \in 1..(n + 1) : i \in 1..n \/ i = n + 1
    BY <1>2
  <2>2. \A i \in 1..n : i \in 1..(n + 1)
    BY <1>2
  <2>3. n + 1 \in 1..(n + 1)
    BY <1>2
  <2> QED
    BY <1>1, <1>2, <1>3, <2>1, <2>2, <2>3 DEF Members
<1>9. w # <<>> => v[1] = w[1]
  <2>1. n > 0 => 1 \in 1..n
    BY <1>2
  <2> QED
    BY <1>1, <1>5, <2>1
<1> QED
  BY <1>7, <1>8, <1>9 DEF v

LEMMA RisingTail ==
    ASSUME NEW S, S \subseteq Int, NEW w \in Seq(S), Rising(w), w # <<>>
    PROVE  /\ Rising(Tail(w)) /\ Members(Tail(w)) = Members(w) \ {w[1]}
           /\ w[1] \in Members(w) /\ \A x \in Members(w) : w[1] <= x
<1> DEFINE v == Tail(w)
           n == Len(w)
<1>1. v \in Seq(S) /\ Len(v) = n - 1 /\ \A i \in 1..(n - 1) : v[i] = w[i + 1]
  BY HeadTailProperties
<1>2. n \in Nat \ {0} /\ DOMAIN w = 1..n /\ \A i \in 1..n : w[i] \in S
  BY LenProperties, ElementOfSeq, EmptySeq
<1>3. DOMAIN v = 1..(n - 1)
  BY <1>1, LenProperties
<1>4. \A i \in 1..n : w[i] \in Int
  BY <1>2
<1> HIDE DEF v, n
<1>5. ASSUME NEW i \in 1..(n - 1), NEW j \in 1..(n - 1), i < j PROVE v[i] < v[j]
  <2>1. i + 1 \in 1..n /\ j + 1 \in 1..n /\ i + 1 < j + 1
    BY <1>2, <1>5
  <2>2. w[i + 1] < w[j + 1]
    BY <2>1 DEF Rising, n
  <2> QED
    BY <1>1, <2>2
<1>6. Rising(v)
  BY <1>1, <1>5 DEF Rising
<1>7. 1 \in 1..n /\ \A i \in 1..n : i # 1 => 1 < i
  BY <1>2
<1>8. \A i \in 1..n : i # 1 => w[1] < w[i]
  BY <1>7 DEF Rising, n
<1>9. w[1] \in Members(w) /\ \A x \in Members(w) : w[1] <= x
  BY <1>2, <1>4, <1>7, <1>8 DEF Members
<1>10. Members(v) = Members(w) \ {w[1]}
  <2>1. ASSUME NEW x \in Members(v) PROVE x \in Members(w) \ {w[1]}
    <3>1. PICK i \in 1..(n - 1) : x = w[i + 1]
      BY <1>1, <1>3 DEF Members
    <3>2. i + 1 \in 1..n /\ i + 1 # 1
      BY <1>2
    <3>3. w[1] < w[i + 1] /\ w[1] \in Int
      BY <1>4, <1>7, <1>8, <3>2
    <3> QED
      BY <1>2, <3>1, <3>2, <3>3 DEF Members
  <2>2. ASSUME NEW x \in Members(w) \ {w[1]} PROVE x \in Members(v)
    <3>1. PICK i \in 1..n : x = w[i] /\ i # 1
      BY <1>2 DEF Members
    <3>2. i - 1 \in 1..(n - 1) /\ (i - 1) + 1 = i
      BY <1>2, <3>1
    <3>3. v[i - 1] = w[i]
      BY <1>1, <3>2
    <3> QED
      BY <1>3, <3>1, <3>2, <3>3 DEF Members
  <2> QED
    BY <2>1, <2>2
<1> QED
  BY <1>6, <1>9, <1>10 DEF v

-----------------------------------------------------------------------------
(* The ring is a queue.                                                    *)

LEMMA InitQueueInv == Init => QueueInv
<1> SUFFICES ASSUME Init PROVE QueueInv
  OBVIOUS
<1> USE DEF Init
<1>1. Pos = {} /\ stream \in Seq(Bytes) /\ Len(stream) = 0
  BY EmptySeq DEF Pos
<1>2. RingSize \in Nat /\ RingSize > 1 /\ LineMax \in Nat /\ LineMax > 0 /\ MaxResets \in Nat
  BY FirmwareAssumption
<1>3. 0 \in Slots /\ ring \in [Slots -> Pos \cup {0}]
  BY <1>2 DEF Slots
<1>4. line \in Seq(Pos) /\ Len(line) = 0
  BY EmptySeq
<1>5. TypeOK
  BY <1>1, <1>2, <1>3, <1>4 DEF TypeOK, Off
<1>6. Waiting = <<>> /\ Waiting \in Seq(Pos \cup {0})
  BY <1>5, WaitingIs
<1>7. DOMAIN Waiting = {} /\ Len(Waiting) = 0
  BY <1>6, LenProperties, EmptySeq
<1>8. Members(Waiting) = {} /\ Rising(Waiting)
  BY <1>7 DEF Members, Rising
<1>9. QueueOK
  BY <1>4, <1>8 DEF QueueOK
<1> QED
  BY <1>1, <1>5, <1>9 DEF QueueInv

\* The byte copied by uart_try_getc is the next that was not dropped.
LEMMA HeldIs ==
    ASSUME QueueInv, pc = "advance"
    PROVE  /\ head # tail /\ Waiting # <<>> /\ held = Waiting[1]
           /\ held \in Pos /\ held \notin dropped /\ held \in (read + 1)..arrived
           /\ \A p \in (read + 1)..(held - 1) : p \in dropped
<1>1. Waiting # <<>> /\ held = Waiting[1] /\ Rising(Waiting)
      /\ Members(Waiting) = ((read + 1)..arrived) \ dropped
  BY DEF QueueInv, QueueOK
<1>2. Waiting \in Seq(Pos \cup {0}) /\ head # tail
  BY <1>1, WaitingIs DEF QueueInv
<1>3. Len(stream) \in Nat /\ arrived \in 0..Len(stream) /\ read \in 0..arrived
  BY LenProperties DEF QueueInv, TypeOK
<1>4. Pos \cup {0} \subseteq Int
  BY <1>3 DEF Pos
<1>5. held \in Members(Waiting) /\ \A x \in Members(Waiting) : held <= x
  BY <1>1, <1>2, <1>4, RisingTail
<1>6. held \in (read + 1)..arrived /\ held \notin dropped
  BY <1>1, <1>5
<1>7. held \in Pos
  BY <1>3, <1>6 DEF Pos
<1>8. ASSUME NEW p \in (read + 1)..(held - 1) PROVE p \in dropped
  <2>1. p \in (read + 1)..arrived /\ ~(held <= p)
    BY <1>3, <1>6
  <2> QED
    BY <1>1, <1>5, <2>1
<1> QED
  BY <1>1, <1>2, <1>6, <1>7, <1>8

\* The byte that arrives comes behind all that wait.
LEMMA ArrivedIsLast ==
    ASSUME QueueInv
    PROVE  \A x \in Members(Waiting) : x < arrived + 1
<1>1. arrived \in Int /\ read \in Int
  BY LenProperties DEF QueueInv, TypeOK
<1> QED
  BY <1>1 DEF QueueInv, QueueOK

LEMMA WriteQueue ==
    ASSUME QueueInv, NEW k \in Commands, Write(k)
    PROVE  /\ QueueInv'
           /\ Len(stream') = Len(stream) + Len(k.line) + 2
           /\ \A i \in 1..Len(stream) : stream'[i] = stream[i]
           /\ \A i \in 1..Len(k.line) : stream'[Len(stream) + i] = k.line[i]
           /\ stream'[Len(stream) + Len(k.line) + 1] = Return
           /\ stream'[Len(stream) + Len(k.line) + 2] = Eol
           /\ Len(k.line) \in Nat
           /\ sent' = Append(sent, [command |-> k, from |-> Len(stream) + 1,
                                    to |-> Len(stream) + Len(k.line) + 2])
<1> DEFINE bytes == k.line \o <<Return, Eol>>
           n == Len(stream)
           m == Len(k.line)
<1>1. k.line \in Seq(Bytes) /\ <<Return, Eol>> \in Seq(Bytes) /\ stream \in Seq(Bytes)
  BY CommandAssumption DEF QueueInv
<1>2. n \in Nat /\ m \in Nat
  BY <1>1, LenProperties
<1>3. bytes \in Seq(Bytes) /\ Len(bytes) = m + 2
      /\ \A i \in 1..(m + 2) : bytes[i] = IF i <= m THEN k.line[i] ELSE <<Return, Eol>>[i - m]
  BY <1>1, ConcatProperties
<1>4. stream' = stream \o bytes /\ UNCHANGED <<arrived, rx, tail, pc, held, line, device, resets, history>>
      /\ sent' = Append(sent, [command |-> k, from |-> n + 1, to |-> n + Len(bytes)])
  BY DEF Write
<1>5. (\A i \in 1..m : bytes[i] = k.line[i]) /\ bytes[m + 1] = Return /\ bytes[m + 2] = Eol
  <2>1. \A i \in 1..m : i \in 1..(m + 2) /\ i <= m
    BY <1>2
  <2>2. m + 1 \in 1..(m + 2) /\ m + 2 \in 1..(m + 2) /\ ~(m + 1 <= m) /\ ~(m + 2 <= m)
        /\ m + 1 - m = 1 /\ m + 2 - m = 2
    BY <1>2
  <2> QED
    BY <1>3, <2>1, <2>2
<1> HIDE DEF bytes, m
<1>6. stream' \in Seq(Bytes) /\ Len(stream') = n + (m + 2)
      /\ \A i \in 1..(n + (m + 2)) : stream'[i] = IF i <= n THEN stream[i] ELSE bytes[i - n]
  <2>1. stream \o bytes \in Seq(Bytes) /\ Len(stream \o bytes) = Len(stream) + Len(bytes)
        /\ \A i \in 1..(Len(stream) + Len(bytes)) :
              (stream \o bytes)[i] = IF i <= Len(stream) THEN stream[i] ELSE bytes[i - Len(stream)]
    BY <1>1, <1>3, ConcatProperties, Zenon
  <2> QED
    BY <1>3, <1>4, <2>1
<1> HIDE DEF n
<1>7. \A i \in 1..n : stream'[i] = stream[i]
  <2>1. \A i \in 1..n : i \in 1..(n + (m + 2)) /\ i <= n
    BY <1>2
  <2> QED
    BY <1>6, <2>1
<1>8. \A i \in 1..(m + 2) : stream'[n + i] = bytes[i]
  <2> TAKE i \in 1..(m + 2)
  <2>1. n + i \in 1..(n + (m + 2)) /\ ~(n + i <= n) /\ (n + i) - n = i
    BY <1>2
  <2>2. stream'[n + i] = IF n + i <= n THEN stream[n + i] ELSE bytes[(n + i) - n]
    BY <1>6, <2>1
  <2> QED
    BY <2>1, <2>2
<1>9. Len(stream') = n + m + 2 /\ n + Len(bytes) = n + m + 2
  BY <1>2, <1>3, <1>6
<1>10. (\A i \in 1..m : stream'[n + i] = k.line[i]) /\ stream'[n + m + 1] = Return /\ stream'[n + m + 2] = Eol
  <2>1. \A i \in 1..m : i \in 1..(m + 2)
    BY <1>2
  <2>2. m + 1 \in 1..(m + 2) /\ m + 2 \in 1..(m + 2) /\ n + (m + 1) = n + m + 1 /\ n + (m + 2) = n + m + 2
    BY <1>2
  <2>3. stream'[n + (m + 1)] = bytes[m + 1] /\ stream'[n + (m + 2)] = bytes[m + 2]
    BY <1>8, <2>2
  <2> QED
    BY <1>5, <1>8, <2>1, <2>2, <2>3
<1>11. Pos \subseteq Pos' /\ Len(stream) \in Nat /\ Len(stream') \in Nat /\ Len(stream) <= Len(stream')
  BY <1>2, <1>9 DEF Pos, n
<1>12. TypeOK'
  <2>1. arrived' \in 0..Len(stream')
    BY <1>4, <1>11 DEF QueueInv, TypeOK
  <2>2. ring' \in [Slots -> Pos' \cup {0}] /\ head' \in Slots /\ tail' \in Slots
    BY <1>4, <1>11 DEF QueueInv, TypeOK, rx
  <2>3. line' \in Seq(Pos') /\ Len(line') < LineMax
    BY <1>4, <1>11, SeqMonotonic DEF QueueInv, TypeOK
  <2>4. dropped' \subseteq Pos' /\ read' \in 0..arrived'
    BY <1>4, <1>11 DEF QueueInv, TypeOK, history
  <2>5. obeyed' \subseteq [at : Pos', command : Commands]
    BY <1>4, <1>11 DEF QueueInv, TypeOK, history
  <2> QED
    BY <1>4, <1>11, <2>1, <2>2, <2>3, <2>4, <2>5 DEF QueueInv, TypeOK
<1>13. Waiting' = Waiting
  BY <1>4 DEF Waiting, rx
<1>14. QueueOK'
  BY <1>4, <1>13 DEF QueueInv, QueueOK, Rising, Members, history
<1> QED
  BY <1>2, <1>4, <1>6, <1>7, <1>9, <1>10, <1>12, <1>14 DEF QueueInv, n, m

LEMMA ReceiveQueue ==
    ASSUME QueueInv, Receive
    PROVE  QueueInv'
<1> DEFINE g == Succ(head)
<1>1. arrived < Len(stream) /\ arrived' = arrived + 1
      /\ UNCHANGED <<link, tail, pc, held, line, device, resets, read, obeyed>>
  BY DEF Receive
<1>2. Len(stream) \in Nat /\ arrived \in Nat /\ read \in Nat /\ read <= arrived
  BY LenProperties DEF QueueInv, TypeOK
<1>3. Pos' = Pos /\ stream' = stream /\ Pos \cup {0} \subseteq Int /\ arrived + 1 \in Pos
  BY <1>1, <1>2 DEF link, Pos
<1>4. head \in Slots /\ tail \in Slots /\ ring \in [Slots -> Pos \cup {0}]
  BY DEF QueueInv, TypeOK
<1>5. Waiting \in Seq(Pos \cup {0}) /\ Waiting = Queue(head, tail, ring)
  BY WaitingIs DEF QueueInv
<1>6. \A x \in Members(Waiting) : x < arrived + 1
  BY ArrivedIsLast
<1>7. Members(Waiting) = ((read + 1)..arrived) \ dropped /\ \A q \in dropped : q <= arrived
  BY DEF QueueInv, QueueOK
<1>8. CASE dropped' = dropped \cup {arrived + 1} /\ UNCHANGED rx
  <2>1. TypeOK'
    BY <1>1, <1>2, <1>3, <1>8 DEF QueueInv, TypeOK, rx
  <2>2. Waiting' = Waiting
    BY <1>1, <1>8 DEF Waiting, rx
  <2>3. ((read + 1)..(arrived + 1)) \ (dropped \cup {arrived + 1}) = ((read + 1)..arrived) \ dropped
    BY <1>2
  <2>4. \A q \in dropped \cup {arrived + 1} : q <= arrived + 1
    <3>1. \A q \in dropped : q \in Int
      BY <1>3 DEF QueueInv, TypeOK
    <3> QED
      BY <1>2, <1>7, <3>1
  <2>5. QueueOK'
    BY <1>1, <1>7, <1>8, <2>2, <2>3, <2>4 DEF QueueInv, QueueOK, Rising, Members
  <2> QED
    BY <1>3, <2>1, <2>5 DEF QueueInv
<1>9. CASE /\ g # tail /\ ring' = [ring EXCEPT ![head] = arrived + 1]
           /\ head' = g /\ UNCHANGED dropped
  <2>1. g \in Slots /\ Queue(g, tail, ring') = Append(Waiting, arrived + 1)
    <3> DEFINE S == Pos \cup {0}
    <3>1. arrived + 1 \in S /\ head \in Slots /\ tail \in Slots /\ ring \in [Slots -> S]
      BY <1>3, <1>4
    <3> HIDE DEF S
    <3>2. g \in Slots /\ Pushes(Queue(g, tail, ring'), Queue(head, tail, ring), arrived + 1)
      <4>1. g # tail /\ g = Succ(head)
        BY <1>9
      <4>2. ring' \in [Slots -> S] /\ Stored(ring, ring', head, arrived + 1)
        BY <1>9, <3>1 DEF Stored
      <4> HIDE DEF g
      <4> QED
        BY <3>1, <4>1, <4>2, Pushed
    <3> QED
      BY <1>5, <1>9, <3>2 DEF Pushes
  <2>2. TypeOK'
    <3>1. ring' \in [Slots -> Pos \cup {0}]
      BY <1>3, <1>4, <1>9
    <3>2. head' \in Slots
      BY <1>9, <2>1
    <3>3. arrived' \in 0..Len(stream) /\ read' \in 0..arrived'
      BY <1>1, <1>2
    <3> QED
      BY <1>1, <1>3, <1>9, <3>1, <3>2, <3>3 DEF QueueInv, TypeOK
  <2>3. Waiting' = Append(Waiting, arrived + 1)
    <3>1. Waiting' = Queue(head', tail', ring')
      BY DEF Waiting, Queue, Count, Slot
    <3> QED
      BY <1>1, <1>9, <2>1, <3>1
  <2>4. Rising(Waiting') /\ Members(Waiting') = Members(Waiting) \cup {arrived + 1}
        /\ (Waiting # <<>> => Waiting'[1] = Waiting[1])
    BY <1>3, <1>5, <1>6, <2>3, RisingAppend DEF QueueInv, QueueOK
  <2>5. ((read + 1)..(arrived + 1)) \ dropped = (((read + 1)..arrived) \ dropped) \cup {arrived + 1}
    BY <1>2, <1>7
  <2>6. pc' = "advance" => Waiting' # <<>> /\ held' = Waiting'[1]
    BY <1>1, <1>3, <1>5, <2>3, <2>4, AppendProperties DEF QueueInv, QueueOK
  <2>7. \A q \in dropped : q <= arrived + 1
    <3>1. \A q \in dropped : q \in Int
      BY <1>3 DEF QueueInv, TypeOK
    <3> QED
      BY <1>2, <1>7, <3>1
  <2>8. Members(Waiting)' = ((read' + 1)..arrived') \ dropped'
    BY <1>1, <1>7, <1>9, <2>4, <2>5 DEF Members
  <2>9. QueueOK'
    BY <1>1, <1>9, <2>4, <2>6, <2>7, <2>8 DEF QueueInv, QueueOK, Rising
  <2> QED
    BY <1>3, <2>2, <2>9 DEF QueueInv
<1> QED
  BY <1>8, <1>9 DEF Receive, Full, Succ

\* Boot, Poll, Drained and Fetch, and a step that changes nothing.
Quiet == UNCHANGED <<link, arrived, rx, tail, line, device, resets, history>>

LEMMA QuietQueue ==
    ASSUME QueueInv, Boot \/ Poll \/ Drained \/ Fetch \/ UNCHANGED vars
    PROVE  QueueInv' /\ Quiet
<1>1. Quiet
  BY DEF Boot, Poll, Drained, Fetch, vars, Quiet, history
<1>2. Waiting' = Waiting /\ stream' = stream /\ Pos' = Pos
  BY <1>1 DEF Quiet, Waiting, rx, link, Pos
<1>3. Waiting \in Seq(Pos \cup {0}) /\ (Waiting = <<>> <=> head = tail)
      /\ (head # tail => ring[tail] = Waiting[1])
  BY WaitingIs DEF QueueInv
<1>4. /\ pc' \in {"boot", "busy", "poll", "advance"} /\ held' \in Pos \cup {0}
      /\ pc' = "advance" => Waiting # <<>> /\ held' = Waiting[1]
  <2>1. CASE Boot \/ Poll \/ Drained
    BY <2>1 DEF Boot, Poll, Drained, QueueInv, TypeOK
  <2>2. CASE Fetch
    BY <1>3, <2>2 DEF Fetch, QueueInv, TypeOK
  <2>3. CASE UNCHANGED vars
    BY <2>3 DEF vars, QueueInv, QueueOK, TypeOK
  <2> QED
    BY <2>1, <2>2, <2>3
<1>5. TypeOK'
  BY <1>1, <1>2, <1>4 DEF Quiet, rx, history, QueueInv, TypeOK
<1>6. QueueOK'
  BY <1>1, <1>2, <1>4 DEF Quiet, history, QueueInv, QueueOK, Rising, Members
<1> QED
  BY <1>1, <1>2, <1>5, <1>6 DEF QueueInv

LEMMA AdvanceQueue ==
    ASSUME QueueInv, Advance
    PROVE  QueueInv'
<1>1. /\ pc = "advance" /\ tail' = Succ(tail) /\ read' = held /\ pc' = "poll"
      /\ UNCHANGED <<link, arrived, rx, held, resets, dropped>>
  BY DEF Advance, Succ
<1>2. /\ head # tail /\ Waiting # <<>> /\ held = Waiting[1]
      /\ held \in Pos /\ held \notin dropped /\ held \in (read + 1)..arrived
      /\ \A p \in (read + 1)..(held - 1) : p \in dropped
  BY <1>1, HeldIs
<1>3. Len(stream) \in Nat /\ arrived \in 0..Len(stream) /\ read \in 0..arrived
  BY LenProperties DEF QueueInv, TypeOK
<1>4. Pos' = Pos /\ stream' = stream /\ Pos \cup {0} \subseteq Int /\ ring' = ring /\ head' = head
  BY <1>1, <1>3 DEF Pos, link, rx
<1>5. head \in Slots /\ tail \in Slots /\ ring \in [Slots -> Pos \cup {0}]
  BY DEF QueueInv, TypeOK
<1>6. Waiting \in Seq(Pos \cup {0}) /\ Waiting = Queue(head, tail, ring)
  BY WaitingIs DEF QueueInv
<1>7. tail' \in Slots /\ Pops(Queue(head, tail', ring), Queue(head, tail, ring))
  BY <1>1, <1>2, <1>5, Popped
<1>8. Waiting' = Tail(Waiting)
  <2>1. Waiting' = Queue(head', tail', ring')
    BY DEF Waiting, Queue, Count, Slot
  <2> QED
    BY <1>4, <1>6, <1>7, <2>1 DEF Pops
<1>9. Rising(Waiting') /\ Members(Waiting') = Members(Waiting) \ {held}
  BY <1>2, <1>4, <1>6, <1>8, RisingTail DEF QueueInv, QueueOK
<1>10. line \in Seq(Pos) /\ Len(line) \in Nat /\ (\A i \in 1..Len(line) : line[i] <= read /\ line[i] \in Int)
  BY <1>4, LenProperties, ElementOfSeq DEF QueueInv, QueueOK, TypeOK
<1>11. line' \in Seq(Pos) /\ Len(line') < LineMax /\ \A i \in 1..Len(line') : line'[i] <= held
  <2>1. CASE line' = line
    <3>1. \A i \in 1..Len(line) : line[i] <= held
      BY <1>2, <1>3, <1>10
    <3> QED
      BY <1>10, <2>1, <3>1 DEF QueueInv, TypeOK
  <2>2. CASE line' = <<>>
    <3>1. <<>> \in Seq(Pos) /\ Len(<<>>) = 0 /\ LineMax > 0 /\ LineMax \in Nat
      BY EmptySeq, FirmwareAssumption
    <3> QED
      BY <2>2, <3>1
  <2>3. CASE Len(line) < LineMax - 1 /\ line' = Append(line, held)
    <3>1. /\ line' \in Seq(Pos) /\ Len(line') = Len(line) + 1
          /\ \A i \in 1..Len(line) : line'[i] = line[i]
          /\ line'[Len(line) + 1] = held
      BY <1>2, <1>10, <2>3, AppendProperties
    <3>2. ASSUME NEW i \in 1..Len(line') PROVE line'[i] <= held
      <4>1. i \in 1..Len(line) \/ i = Len(line) + 1
        BY <1>10, <3>1
      <4> QED
        BY <1>2, <1>3, <1>10, <3>1, <4>1
    <3>3. Len(line') < LineMax
      BY <1>10, <2>3, <3>1, FirmwareAssumption
    <3> QED
      BY <3>1, <3>2, <3>3
  <2>4. line' = line \/ line' = <<>> \/ (Len(line) < LineMax - 1 /\ line' = Append(line, held))
    BY DEF Advance, AfterEol, Longer
  <2> QED
    BY <2>1, <2>2, <2>3, <2>4
<1>12. device' \in [Devices -> BOOLEAN] /\ obeyed' \subseteq [at : Pos, command : Commands]
  <2>1. CASE UNCHANGED <<device, obeyed>>
    BY <2>1 DEF QueueInv, TypeOK
  <2>2. CASE Obey
    <3>1. Matching(line) \subseteq Commands
      BY DEF Matching
    <3>2. obeyed' \subseteq [at : Pos, command : Commands]
      BY <1>2, <2>2, <3>1 DEF Obey, QueueInv, TypeOK
    <3>3. \A k \in Commands : k.on \in BOOLEAN
      BY CommandAssumption
    <3>4. ASSUME NEW d \in Devices, \E k \in Matching(line) : k.device = d
          PROVE  (CHOOSE k \in Matching(line) : k.device = d).on \in BOOLEAN
      <4>1. (CHOOSE k \in Matching(line) : k.device = d) \in Matching(line)
        BY <3>4
      <4> QED
        BY <3>1, <3>3, <4>1
    <3>5. device \in [Devices -> BOOLEAN]
      BY DEF QueueInv, TypeOK
    <3>6. device' \in [Devices -> BOOLEAN]
      BY <2>2, <3>4, <3>5 DEF Obey
    <3> QED
      BY <3>2, <3>6
  <2> QED
    BY <2>1, <2>2 DEF Advance
<1>13. TypeOK'
  <2>1. held \in 0..arrived
    BY <1>2, <1>3
  <2> QED
    BY <1>1, <1>2, <1>4, <1>5, <1>7, <1>11, <1>12, <2>1 DEF QueueInv, TypeOK
<1>14. QueueOK'
  <2>1. ((held + 1)..arrived) \ dropped = (((read + 1)..arrived) \ dropped) \ {held}
    <3>1. \A p \in (read + 1)..arrived : p \notin dropped /\ p # held => p \in (held + 1)..arrived
      BY <1>2, <1>3
    <3>2. \A p \in (held + 1)..arrived : p \in (read + 1)..arrived /\ p # held
      BY <1>2, <1>3
    <3> QED
      BY <3>1, <3>2
  <2>2. Members(Waiting)' = ((read' + 1)..arrived') \ dropped'
    BY <1>1, <1>9, <2>1 DEF QueueInv, QueueOK, Members
  <2>3. pc' # "advance"
    BY <1>1
  <2> QED
    BY <1>1, <1>9, <1>11, <2>2, <2>3 DEF QueueInv, QueueOK, Rising
<1> QED
  BY <1>4, <1>13, <1>14 DEF QueueInv

LEMMA ResetQueue ==
    ASSUME QueueInv, Reset
    PROVE  QueueInv'
<1>1. /\ resets < MaxResets /\ resets' = resets + 1 /\ pc' = "boot"
      /\ ring' = [i \in Slots |-> 0] /\ head' = 0 /\ tail' = 0 /\ held' = 0
      /\ line' = <<>> /\ device' = Off
      /\ dropped' = dropped \cup Members(Waiting) \cup Members(line)
      /\ read' = arrived /\ UNCHANGED <<link, arrived, obeyed>>
  BY DEF Reset
<1>2. Len(stream) \in Nat /\ arrived \in 0..Len(stream) /\ read \in 0..arrived
  BY LenProperties DEF QueueInv, TypeOK
<1>3. Pos' = Pos /\ stream' = stream
  BY <1>1 DEF Pos, link
<1>4. \A p \in Members(Waiting) : p \in Pos /\ p <= arrived
  <2>1. \A p \in (read + 1)..arrived : p \in Pos /\ p <= arrived
    BY <1>2 DEF Pos
  <2> QED
    BY <2>1 DEF QueueInv, QueueOK
<1>5. \A p \in Members(line) : p \in Pos /\ p <= arrived
  <2>1. ASSUME NEW i \in DOMAIN line PROVE line[i] \in Pos /\ line[i] <= arrived
    <3>1. line \in Seq(Pos) /\ i \in 1..Len(line)
      BY LenProperties DEF QueueInv, TypeOK
    <3>2. line[i] \in Pos /\ line[i] <= read
      BY <3>1, ElementOfSeq DEF QueueInv, QueueOK
    <3> QED
      BY <1>2, <3>2 DEF Pos
  <2> QED
    BY <2>1 DEF Members
<1>6. 0 \in Slots /\ LineMax \in Nat /\ LineMax > 0 /\ MaxResets \in Nat
  BY FirmwareAssumption DEF Slots
<1>7. TypeOK'
  <2>1. resets' \in 0..MaxResets
    BY <1>1, <1>6 DEF QueueInv, TypeOK
  <2>2. line' \in Seq(Pos) /\ Len(line') < LineMax
    BY <1>1, <1>6, EmptySeq
  <2>3. device' \in [Devices -> BOOLEAN]
    BY <1>1 DEF Off
  <2>4. dropped' \subseteq Pos
    BY <1>1, <1>4, <1>5 DEF QueueInv, TypeOK
  <2>5. read' \in 0..arrived'
    BY <1>1, <1>2
  <2> QED
    BY <1>1, <1>3, <1>6, <2>1, <2>2, <2>3, <2>4, <2>5 DEF QueueInv, TypeOK
<1>8. QueueOK'
  <2>1. Waiting' = <<>> /\ Waiting' \in Seq(Pos' \cup {0})
    <3>1. head' \in Slots /\ tail' \in Slots /\ ring' \in [Slots -> Pos' \cup {0}] /\ head' = tail'
      BY <1>1, <1>6
    <3>2. Waiting' = Queue(head', tail', ring')
      BY DEF Waiting, Queue, Count, Slot
    <3> QED
      BY <3>1, <3>2, QueueIs
  <2>2. DOMAIN Waiting' = {} /\ Len(Waiting') = 0
    BY <2>1, LenProperties, EmptySeq
  <2>3. Rising(Waiting') /\ Members(Waiting') = {}
    BY <2>2 DEF Rising, Members
  <2>4. ((read' + 1)..arrived') \ dropped' = {}
    BY <1>1, <1>2
  <2>5. \A p \in dropped' : p <= arrived'
    BY <1>1, <1>4, <1>5 DEF QueueInv, QueueOK
  <2>6. Len(line') = 0
    BY <1>1, EmptySeq
  <2>7. pc' # "advance"
    BY <1>1
  <2>8. Members(Waiting)' = {}
    BY <2>3 DEF Members
  <2> QED
    BY <2>3, <2>4, <2>5, <2>6, <2>7, <2>8 DEF QueueOK, Rising
<1> QED
  BY <1>3, <1>7, <1>8 DEF QueueInv

-----------------------------------------------------------------------------
(* The line.                                                               *)

\* The bytes of a command sent: its line, of text only, then Return and Eol.
LEMMA SentIs ==
    ASSUME StreamOK, NEW s \in Members(sent)
    PROVE  /\ s.command \in Commands /\ s.command.line \in Seq(Bytes)
           /\ s.from \in Nat /\ s.to \in Nat /\ s.from > 0 /\ s.to <= Len(stream)
           /\ Len(s.command.line) \in Nat /\ Len(s.command.line) < LineMax
           /\ s.to = s.from + Len(s.command.line) + 1
           /\ \A i \in 1..Len(s.command.line) : stream[s.from + i - 1] = s.command.line[i]
           /\ \A q \in s.from..(s.to - 2) : stream[q] \notin {Return, Eol}
           /\ stream[s.to - 1] = Return /\ stream[s.to] = Eol /\ Return # Eol
           /\ s.from > 1 => stream[s.from - 1] = Eol
<1>1. s \in [command : Commands, from : Nat, to : Nat]
  <2>1. PICK i \in DOMAIN sent : s = sent[i]
    BY DEF Members
  <2>2. sent \in Seq([command : Commands, from : Nat, to : Nat])
    BY DEF StreamOK
  <2> QED
    BY <2>1, <2>2, LenProperties, ElementOfSeq
<1>2. s.command \in Commands /\ s.from \in Nat /\ s.to \in Nat
  BY <1>1
<1>3. s.command.line \in Seq(Bytes) /\ Len(s.command.line) < LineMax
  BY <1>2, CommandAssumption
<1>4. Len(s.command.line) \in Nat
  BY <1>3, LenProperties
<1>5. /\ s.from > 0 /\ s.to = s.from + Len(s.command.line) + 1 /\ s.to <= Len(stream)
      /\ \A i \in 1..Len(s.command.line) : stream[s.from + i - 1] = s.command.line[i]
      /\ stream[s.to - 1] = Return /\ stream[s.to] = Eol
      /\ s.from > 1 => stream[s.from - 1] = Eol
  BY DEF StreamOK
<1>6. ASSUME NEW q \in s.from..(s.to - 2) PROVE stream[q] \notin {Return, Eol}
  <2>1. q - s.from + 1 \in 1..Len(s.command.line) /\ s.from + (q - s.from + 1) - 1 = q
    <3> DEFINE m == Len(s.command.line)
               a == s.from
    <3>1. m \in Nat /\ a \in Nat /\ s.to = a + m + 1 /\ q \in a..(s.to - 2)
      BY <1>2, <1>4, <1>5
    <3> HIDE DEF m, a
    <3>2. q - a + 1 \in 1..m /\ a + (q - a + 1) - 1 = q
      BY <3>1
    <3> QED
      BY <3>2 DEF m, a
  <2>2. stream[q] = s.command.line[q - s.from + 1]
    BY <1>5, <2>1
  <2> QED
    BY <1>2, <2>1, <2>2, CommandAssumption
<1> QED
  BY <1>2, <1>3, <1>4, <1>5, <1>6, CommandAssumption

LEMMA InitIInv == Init => IInv
<1> SUFFICES ASSUME Init PROVE IInv
  OBVIOUS
<1>1. QueueInv
  BY InitQueueInv
<1>2. sent = <<>> /\ stream = <<>> /\ read = 0 /\ line = <<>> /\ obeyed = {}
  BY DEF Init
<1>3. Members(sent) = {}
  <2>1. sent \in Seq(Nat) /\ Len(sent) = 0
    BY <1>2, EmptySeq
  <2> QED
    BY <2>1, LenProperties DEF Members
<1>4. StreamOK
  <2>1. sent \in Seq([command : Commands, from : Nat, to : Nat]) /\ Len(stream) = 0
    BY <1>2, EmptySeq
  <2> QED
    BY <1>3, <2>1 DEF StreamOK
<1> QED
  BY <1>1, <1>2, <1>3, <1>4 DEF IInv, LineOK, WholeObeyed, NoOtherObeyed

LEMMA QuietIInv ==
    ASSUME IInv, Boot \/ Poll \/ Drained \/ Fetch \/ UNCHANGED vars
    PROVE  IInv'
<1>1. QueueInv' /\ Quiet
  BY QuietQueue DEF IInv
<1>2. UNCHANGED <<sent, stream, line, dropped, read, obeyed>>
  BY <1>1 DEF Quiet, link, history
<1>3. StreamOK'
  BY <1>2 DEF IInv, StreamOK, Members
<1>4. LineOK'
  BY <1>2 DEF IInv, LineOK, Reading, LastRead, Members
<1>5. WholeObeyed' /\ NoOtherObeyed'
  BY <1>2 DEF IInv, WholeObeyed, NoOtherObeyed, Whole, Members
<1> QED
  BY <1>1, <1>3, <1>4, <1>5 DEF IInv

\* The new command is behind all that was read and obeyed.
LEMMA WriteIInv ==
    ASSUME IInv, NEW k \in Commands, Write(k)
    PROVE  IInv'
<1> DEFINE n == Len(stream)
           m == Len(k.line)
           new == [command |-> k, from |-> n + 1, to |-> n + m + 2]
           Sent == [command : Commands, from : Nat, to : Nat]
<1>1. /\ QueueInv' /\ Len(stream') = n + m + 2
      /\ \A i \in 1..n : stream'[i] = stream[i]
      /\ \A i \in 1..m : stream'[n + i] = k.line[i]
      /\ stream'[n + m + 1] = Return /\ stream'[n + m + 2] = Eol
      /\ m \in Nat /\ sent' = Append(sent, new)
  BY WriteQueue DEF IInv
<1>2. UNCHANGED <<line, dropped, read, obeyed>>
  BY DEF Write, history
<1>3. n \in Nat /\ read \in 0..n
  <2>1. n \in Nat
    BY LenProperties DEF IInv, QueueInv
  <2> QED
    BY <2>1 DEF IInv, QueueInv, TypeOK
<1>4. new \in Sent /\ sent \in Seq(Sent) /\ new.command = k /\ new.from = n + 1 /\ new.to = n + m + 2
  BY <1>1, <1>3 DEF IInv, StreamOK
<1> HIDE DEF n, m, new, Sent
<1>5. sent' \in Seq(Sent) /\ Len(sent') = Len(sent) + 1 /\ (\A i \in 1..Len(sent) : sent'[i] = sent[i])
      /\ sent'[Len(sent) + 1] = new
  BY <1>1, <1>4, AppendProperties
<1>6. Len(sent) \in Nat /\ DOMAIN sent = 1..Len(sent) /\ DOMAIN sent' = 1..(Len(sent) + 1)
  BY <1>4, <1>5, LenProperties
<1>7. ASSUME NEW s \in Members(sent') PROVE s \in Members(sent) \/ s = new
  <2>1. PICK i \in 1..(Len(sent) + 1) : s = sent'[i]
    BY <1>6 DEF Members
  <2>2. i \in 1..Len(sent) \/ i = Len(sent) + 1
    BY <1>6
  <2> QED
    BY <1>5, <1>6, <2>1, <2>2 DEF Members
<1>8. ASSUME NEW s \in Members(sent)
      PROVE  s.from \in Nat /\ s.to \in Nat /\ s.to <= n
  BY SentIs DEF IInv, n
<1>9. StreamOK'
  <2>1. ASSUME NEW s \in Members(sent')
        PROVE  /\ s.from > 0 /\ s.to = s.from + Len(s.command.line) + 1 /\ s.to <= Len(stream')
               /\ \A i \in 1..Len(s.command.line) : stream'[s.from + i - 1] = s.command.line[i]
               /\ stream'[s.to - 1] = Return /\ stream'[s.to] = Eol
               /\ s.from > 1 => stream'[s.from - 1] = Eol
    <3>1. CASE s \in Members(sent)
      <4>1. /\ s.from \in Nat /\ s.to \in Nat /\ s.from > 0 /\ s.to <= n
            /\ Len(s.command.line) \in Nat /\ s.to = s.from + Len(s.command.line) + 1
            /\ \A i \in 1..Len(s.command.line) : stream[s.from + i - 1] = s.command.line[i]
            /\ stream[s.to - 1] = Return /\ stream[s.to] = Eol
            /\ s.from > 1 => stream[s.from - 1] = Eol
        BY <3>1, SentIs DEF IInv, n
      <4>2. ASSUME NEW i \in 1..Len(s.command.line) PROVE stream'[s.from + i - 1] = s.command.line[i]
        <5>1. s.from + i - 1 \in 1..n
          <6> DEFINE l == Len(s.command.line)
                     a == s.from
          <6>1. l \in Nat /\ a \in Nat /\ a > 0 /\ a + l + 1 <= n /\ i \in 1..l
            BY <4>1
          <6> HIDE DEF l, a
          <6>2. a + i - 1 \in 1..n
            BY <1>3, <6>1
          <6> QED
            BY <6>2 DEF a
        <5> QED
          BY <1>1, <4>1, <5>1
      <4>3. s.to - 1 \in 1..n /\ s.to \in 1..n /\ s.to <= Len(stream')
        <5> DEFINE l == Len(s.command.line)
                   a == s.from
        <5>1. l \in Nat /\ a \in Nat /\ a > 0 /\ s.to = a + l + 1 /\ s.to <= n /\ n \in Nat
              /\ m \in Nat /\ Len(stream') = n + m + 2
          BY <1>1, <1>3, <4>1
        <5> HIDE DEF l, a
        <5> QED
          BY <5>1
      <4>4. s.from > 1 => s.from - 1 \in 1..n
        BY <1>3, <4>1
      <4> QED
        BY <1>1, <4>1, <4>2, <4>3, <4>4
    <3>2. CASE s = new
      <4>1. s.command = k /\ s.from = n + 1 /\ s.to = n + m + 2
        BY <1>4, <3>2
      <4>2. s.from > 0 /\ s.to = s.from + m + 1 /\ s.to <= Len(stream')
        BY <1>1, <1>3, <4>1
      <4>7. Len(s.command.line) = m
        BY <4>1 DEF m
      <4>3. ASSUME NEW i \in 1..m PROVE stream'[s.from + i - 1] = k.line[i]
        <5>1. s.from + i - 1 = n + i
          BY <1>1, <1>3, <4>1
        <5> QED
          BY <1>1, <5>1
      <4>4. s.to - 1 = n + m + 1 /\ s.from - 1 = n
        BY <1>1, <1>3, <4>1
      <4>5. s.from > 1 => n \in 1..n /\ n > 0
        BY <1>3, <4>1
      <4>6. n > 0 => stream[n] = Eol
        BY DEF IInv, StreamOK, n
      <4> QED
        BY <1>1, <4>1, <4>2, <4>3, <4>4, <4>5, <4>6, <4>7
    <3> QED
      BY <1>7, <3>1, <3>2
  <2>2. stream'[Len(stream')] = Eol
    BY <1>1
  <2> QED
    BY <1>5, <2>1, <2>2 DEF StreamOK, Members, Sent
<1>10. new.from > read /\ ~(new.to <= read) /\ \A o \in obeyed : o.at # new.to
  <2>1. \A o \in obeyed : o.at \in 1..n
    BY DEF IInv, QueueInv, TypeOK, Pos, n
  <2>2. ~(new.to \in 1..n)
    BY <1>1, <1>3, <1>4
  <2> QED
    BY <1>1, <1>3, <1>4, <2>1, <2>2
<1>11. LineOK'
  <2>1. read' = 0 \/ stream'[read'] = Eol => line' = <<>>
    <3>1. read = 0 \/ read \in 1..n
      BY <1>3
    <3> QED
      BY <1>1, <1>2, <3>1 DEF IInv, LineOK
  <2>2. ASSUME NEW s \in Members(sent') PROVE Reading(s)'
    <3>1. CASE s \in Members(sent)
      BY <1>2, <3>1 DEF IInv, LineOK, Reading, LastRead
    <3>2. CASE s = new
      <4>1. ~(s.from <= read)
        BY <1>3, <1>4, <1>10, <3>2
      <4> QED
        BY <1>2, <4>1 DEF Reading
    <3> QED
      BY <1>7, <3>1, <3>2
  <2> QED
    BY <2>1, <2>2 DEF LineOK, Members
<1>12. WholeObeyed'
  BY <1>2, <1>7, <1>10 DEF IInv, WholeObeyed, Whole, Members
<1>13. NoOtherObeyed'
  BY <1>2, <1>7, <1>10 DEF IInv, NoOtherObeyed, Whole, Members
<1> QED
  BY <1>1, <1>9, <1>11, <1>12, <1>13 DEF IInv

\* What gets lost on arrival was not yet read.
LEMMA ReceiveIInv ==
    ASSUME IInv, Receive
    PROVE  IInv'
<1>1. QueueInv'
  BY ReceiveQueue DEF IInv
<1>2. UNCHANGED <<sent, stream, line, read, obeyed>> /\ dropped \subseteq dropped'
      /\ dropped' \subseteq dropped \cup {arrived + 1}
  BY DEF Receive, link
<1>3. arrived \in Nat /\ read \in Nat /\ read <= arrived
  BY LenProperties DEF IInv, QueueInv, TypeOK
<1>4. \A q \in Int : q <= read => q # arrived + 1
  BY <1>3
<1>5. StreamOK'
  BY <1>2 DEF IInv, StreamOK, Members
<1>6. LineOK'
  <2>1. ASSUME NEW s \in Members(sent) PROVE Reading(s)'
    <3>1. s.from \in Nat /\ s.to \in Nat
      BY SentIs DEF IInv
    <3>2. s.from <= read => s.from - 1 <= read /\ s.from - 1 \in Int
      BY <1>3, <3>1
    <3>3. s.from <= read => (s.from - 1 \in dropped' <=> s.from - 1 \in dropped)
      BY <1>2, <1>4, <3>2
    <3>4. (s.from..read) \cap dropped' = {} => (s.from..read) \cap dropped = {}
      BY <1>2
    <3>5. Reading(s)
      BY DEF IInv, LineOK
    <3> QED
      BY <1>2, <3>3, <3>4, <3>5 DEF Reading, LastRead
  <2> QED
    BY <1>2, <2>1 DEF IInv, LineOK, Members
<1>7. \A s \in Members(sent) : (s.from..s.to) \cap dropped' = {} => Whole(s)
  BY <1>2 DEF Whole
<1>8. WholeObeyed'
  BY <1>2, <1>7 DEF IInv, WholeObeyed, Whole, Members
<1>9. NoOtherObeyed'
  BY <1>2, <1>7 DEF IInv, NoOtherObeyed, Whole, Members
<1> QED
  BY <1>1, <1>5, <1>6, <1>8, <1>9 DEF IInv

\* A reset loses the line and all that waits: no command is half-read behind it.
LEMMA ResetIInv ==
    ASSUME IInv, Reset
    PROVE  IInv'
<1>1. QueueInv'
  BY ResetQueue DEF IInv
<1>2. UNCHANGED <<sent, stream, obeyed>> /\ line' = <<>> /\ read' = arrived
      /\ dropped' = dropped \cup Members(Waiting) \cup Members(line)
  BY DEF Reset, link
<1>3. arrived \in Nat /\ read \in Nat /\ read <= arrived /\ Len(line) \in Nat
      /\ DOMAIN line = 1..Len(line)
  BY LenProperties DEF IInv, QueueInv, TypeOK
<1>4. \A q \in (read + 1)..arrived : q \in dropped'
  BY <1>2 DEF IInv, QueueInv, QueueOK
<1>5. Len(line') = 0
  BY <1>2, EmptySeq
<1>6. StreamOK'
  BY <1>2 DEF IInv, StreamOK, Members
<1>7. ASSUME NEW s \in Members(sent) PROVE Reading(s)'
  <2>1. s.from \in Nat /\ s.to \in Nat
    BY SentIs DEF IInv
  <2>2. SUFFICES ASSUME s.from <= arrived, arrived < s.to, (s.from..arrived) \cap dropped' = {}
                 PROVE  /\ \A d \in 0..(LastRead(s)' - s.from) : d < Len(line') => line'[Len(line') - d] = LastRead(s)' - d
                        /\ s.from = 1 \/ s.from - 1 \notin dropped' => Len(line') = LastRead(s)' - s.from + 1
    BY <1>2 DEF Reading
  <2>3. read = arrived
    <3>1. arrived \in s.from..arrived
      BY <1>3, <2>1, <2>2
    <3>2. arrived \notin (read + 1)..arrived
      BY <1>4, <2>2, <3>1
    <3> QED
      BY <1>3, <3>2
  <2>4. LastRead(s)' = LastRead(s) /\ LastRead(s) \in Int
    BY <1>2, <1>3, <2>1, <2>3 DEF LastRead
  <2> HIDE DEF LastRead
  <2>5. (s.from..read) \cap dropped = {} /\ (s.from - 1 \notin dropped' => s.from - 1 \notin dropped)
    BY <1>2, <2>2, <2>3
  <2>6. /\ \A d \in 0..(LastRead(s) - s.from) : d < Len(line) => line[Len(line) - d] = LastRead(s) - d
        /\ s.from = 1 \/ s.from - 1 \notin dropped => Len(line) = LastRead(s) - s.from + 1
    BY <2>2, <2>3, <2>5 DEF IInv, LineOK, Reading
  <2>7. \A d \in 0..(LastRead(s) - s.from) : ~(d < Len(line'))
    BY <1>5, <2>1, <2>4
  <2>8. ASSUME s.from = 1 \/ s.from - 1 \notin dropped' PROVE LastRead(s) - s.from + 1 = 0
    <3>1. Len(line) = LastRead(s) - s.from + 1
      BY <2>5, <2>6, <2>8
    <3>2. ASSUME Len(line) > 0 PROVE FALSE
      <4>1. 0 \in 0..(LastRead(s) - s.from) /\ 0 < Len(line) /\ Len(line) - 0 = Len(line) /\ LastRead(s) - 0 = LastRead(s)
        BY <1>3, <2>1, <2>4, <3>1, <3>2
      <4>2. line[Len(line)] = LastRead(s)
        BY <2>6, <4>1
      <4>3. Len(line) \in DOMAIN line
        BY <1>3, <4>1
      <4>4. LastRead(s) \in dropped'
        BY <1>2, <4>2, <4>3 DEF Members
      <4>5. LastRead(s) \in s.from..arrived
        <5>1. LastRead(s) >= s.from
          BY <2>1, <2>4, <4>1
        <5>2. LastRead(s) <= arrived
          BY <1>3, <2>1, <2>3 DEF LastRead
        <5> QED
          BY <1>3, <2>1, <2>4, <5>1, <5>2
      <4> QED
        BY <2>2, <4>4, <4>5
    <3> QED
      BY <1>3, <3>1, <3>2
  <2> QED
    BY <1>5, <2>4, <2>7, <2>8
<1>8. LineOK'
  BY <1>2, <1>7 DEF LineOK, Members
<1>9. \A s \in Members(sent) : (s.from..s.to) \cap dropped' = {} => Whole(s)
  BY <1>2 DEF Whole
<1>10. ASSUME NEW s \in Members(sent), (s.from..s.to) \cap dropped' = {}, s.to <= arrived
       PROVE  s.to <= read
  <2>1. s.from \in Nat /\ s.to \in Nat /\ s.to \in s.from..s.to
    BY SentIs DEF IInv
  <2>2. s.to \notin (read + 1)..arrived
    BY <1>4, <1>10, <2>1
  <2> QED
    BY <1>3, <1>10, <2>1, <2>2
<1>11. WholeObeyed'
  <2>1. ASSUME NEW s \in Members(sent), (s.from..s.to) \cap dropped' = {},
               s.from = 1 \/ s.from - 1 \notin dropped', s.to <= arrived
        PROVE  [at |-> s.to, command |-> s.command] \in obeyed
    <3>1. s.from = 1 \/ s.from - 1 \notin dropped
      BY <1>2, <2>1
    <3> QED
      BY <1>9, <1>10, <2>1, <3>1 DEF IInv, WholeObeyed
  <2> QED
    BY <1>2, <2>1 DEF WholeObeyed, Whole, Members
<1>12. NoOtherObeyed'
  BY <1>2, <1>9 DEF IInv, NoOtherObeyed, Whole, Members
<1> QED
  BY <1>1, <1>6, <1>8, <1>11, <1>12 DEF IInv

\* Between the last byte read and the one held everything was dropped, so that of a command
\* that lost nothing the byte before was the last one read.
LEMMA ReadBefore ==
    ASSUME QueueInv, pc = "advance", NEW q \in Int, q < held, q \notin dropped, read < held, q >= held - 1
    PROVE  read = q
<1>1. held \in (read + 1)..arrived /\ \A p \in (read + 1)..(held - 1) : p \in dropped
  BY HeldIs
<1>2. read \in Int /\ held \in Int
  BY <1>1, LenProperties DEF QueueInv, TypeOK
<1>3. q = held - 1
  BY <1>2
<1>4. q \notin (read + 1)..(held - 1)
  BY <1>1
<1> QED
  BY <1>2, <1>3, <1>4

\* What the line holds when the end of a command that lost nothing is held.
LEMMA LineAtEnd ==
    ASSUME IInv, pc = "advance", NEW s \in Members(sent), Whole(s), held = s.to
    PROVE  /\ \A d \in 0..(Len(s.command.line) - 1) : d < Len(line) =>
                 stream[line[Len(line) - d]] = s.command.line[Len(s.command.line) - d]
           /\ s.from = 1 \/ s.from - 1 \notin dropped => Len(line) = Len(s.command.line)
<1> DEFINE a == s.from
           b == s.to
           k == s.command.line
           m == Len(k)
<1>1. /\ a \in Nat /\ b \in Nat /\ a > 0 /\ m \in Nat /\ b = a + m + 1
      /\ \A i \in 1..m : stream[a + i - 1] = k[i]
  BY SentIs DEF IInv
<1>2. (a..b) \cap dropped = {} /\ held = b
  BY DEF Whole
<1>3. Reading(s)
  BY DEF IInv, LineOK
<1>4. held \in (read + 1)..arrived /\ read \in Nat
  BY HeldIs, LenProperties DEF IInv, QueueInv, TypeOK
<1> HIDE DEF m, k
<1>5. read = b - 1
  <2>1. b - 1 \in a..b /\ b - 1 \in Int /\ b - 1 < held /\ read < held /\ b - 1 >= held - 1
    BY <1>1, <1>2, <1>4
  <2> QED
    BY <1>2, <2>1, ReadBefore DEF IInv
<1>6. a <= read /\ read < b /\ (a..read) \cap dropped = {} /\ LastRead(s) = b - 2
  <2>1. a <= read /\ read < b /\ ~(read < b - 1) /\ \A q \in a..read : q \in a..b
    BY <1>1, <1>5
  <2> QED
    BY <1>2, <2>1 DEF LastRead
<1>7. /\ \A d \in 0..(b - 2 - a) : d < Len(line) => line[Len(line) - d] = b - 2 - d
      /\ a = 1 \/ a - 1 \notin dropped => Len(line) = b - 2 - a + 1
  BY <1>3, <1>6 DEF Reading
<1>8. b - 2 - a = m - 1 /\ b - 2 - a + 1 = m
  BY <1>1
<1>9. ASSUME NEW d \in 0..(m - 1), d < Len(line) PROVE stream[line[Len(line) - d]] = k[m - d]
  <2>1. m - d \in 1..m /\ a + (m - d) - 1 = b - 2 - d
    BY <1>1
  <2>2. stream[b - 2 - d] = k[m - d]
    BY <1>1, <2>1
  <2> QED
    BY <1>7, <1>8, <1>9, <2>2
<1> QED
  BY <1>7, <1>8, <1>9 DEF m, k

\* The bytes of the line are text of the stream.
LEMMA TextIs ==
    ASSUME QueueInv
    PROVE  /\ Len(line) \in Nat /\ Text(line) \in Seq(Bytes) /\ Len(Text(line)) = Len(line)
           /\ \A i \in 1..Len(line) : Text(line)[i] = stream[line[i]]
<1> DEFINE n == Len(line)
<1>1. line \in Seq(Pos) /\ stream \in Seq(Bytes)
  BY DEF QueueInv, TypeOK
<1>2. n \in Nat /\ DOMAIN line = 1..n /\ \A i \in 1..n : line[i] \in 1..Len(stream)
  BY <1>1, LenProperties, ElementOfSeq DEF Pos
<1>3. \A q \in 1..Len(stream) : stream[q] \in Bytes
  BY <1>1, ElementOfSeq
<1>4. Text(line) = [i \in 1..n |-> stream[line[i]]]
  BY <1>2 DEF Text
<1> DEFINE t == Text(line)
<1> HIDE DEF n, t
<1>5. t \in [1..n -> Bytes]
  BY <1>2, <1>3, <1>4 DEF t
<1>6. t \in Seq(Bytes)
  BY <1>2, <1>5, SeqDef
<1>7. Len(t) \in Nat /\ DOMAIN t = 1..Len(t) /\ DOMAIN t = 1..n
  BY <1>5, <1>6, LenProperties
<1>8. Len(t) = n
  <2> DEFINE l == Len(t)
  <2>1. l \in Nat /\ n \in Nat /\ 1..l = 1..n
    BY <1>2, <1>7
  <2> HIDE DEF l
  <2>2. l > 0 => l \in 1..l
    BY <2>1
  <2>3. n > 0 => n \in 1..n
    BY <2>1
  <2>4. l = n
    BY <2>1, <2>2, <2>3
  <2> QED
    BY <2>4 DEF l
<1>9. \A i \in 1..n : t[i] = stream[line[i]]
  BY <1>4 DEF t
<1> QED
  BY <1>2, <1>6, <1>8, <1>9 DEF n, t

\* No other command ends like the one received.
LEMMA AdvanceNoOther ==
    ASSUME IInv, pc = "advance", NEW s \in Members(sent), Whole(s), held = s.to,
           NEW c \in Commands, c.line = Text(line)
    PROVE  c = s.command
<1> DEFINE k == s.command.line
           m == Len(k)
           l == Len(line)
<1>1. \A d \in 0..(m - 1) : d < l => stream[line[l - d]] = k[m - d]
  BY LineAtEnd
<1>2. l \in Nat /\ Len(c.line) = l /\ \A i \in 1..l : c.line[i] = stream[line[i]]
  BY TextIs DEF IInv
<1>3. m \in Nat /\ s.command \in Commands
  BY SentIs DEF IInv
<1> HIDE DEF k, m, l
<1>4. ASSUME NEW d \in 0..(m - 1), d < l PROVE c.line[l - d] = k[m - d]
  <2>1. l - d \in 1..l
    BY <1>2, <1>3, <1>4
  <2> QED
    BY <1>1, <1>2, <1>4, <2>1
<1>5. SUFFICES ASSUME c # s.command PROVE FALSE
  OBVIOUS
<1>6. CASE l <= m
  <2>1. PICK i \in 0..(l - 1) : c.line[l - i] # k[m - i]
    BY <1>2, <1>3, <1>5, <1>6, CommandAssumption DEF k, m
  <2>2. i \in 0..(m - 1) /\ i < l
    BY <1>2, <1>3, <1>6
  <2> QED
    BY <1>4, <2>1, <2>2
<1>7. CASE m <= l
  <2>1. PICK i \in 0..(m - 1) : k[m - i] # c.line[l - i]
    BY <1>2, <1>3, <1>5, <1>7, CommandAssumption DEF k, m
  <2>2. i < l
    BY <1>2, <1>3, <1>7
  <2> QED
    BY <1>4, <2>1, <2>2
<1> QED
  BY <1>2, <1>3, <1>6, <1>7

\* A command that lost nothing and did not begin behind a loss is the line at its end.
LEMMA AdvanceWhole ==
    ASSUME IInv, pc = "advance", NEW s \in Members(sent), Whole(s), held = s.to,
           s.from = 1 \/ s.from - 1 \notin dropped
    PROVE  s.command \in Matching(line)
<1> DEFINE k == s.command.line
           m == Len(k)
           t == Text(line)
<1>1. (\A d \in 0..(m - 1) : d < Len(line) => stream[line[Len(line) - d]] = k[m - d])
      /\ Len(line) = m
  BY LineAtEnd
<1>2. t \in Seq(Bytes) /\ Len(t) = Len(line) /\ \A i \in 1..Len(line) : t[i] = stream[line[i]]
  BY TextIs DEF IInv
<1>3. m \in Nat /\ s.command \in Commands /\ k \in Seq(Bytes)
  BY SentIs DEF IInv
<1> HIDE DEF k, m, t
<1>4. ASSUME NEW i \in 1..m PROVE k[i] = t[i]
  <2>1. m - i \in 0..(m - 1) /\ m - i < m /\ m - (m - i) = i
    BY <1>3
  <2>2. stream[line[m - (m - i)]] = k[m - (m - i)]
    BY <1>1, <2>1
  <2> QED
    BY <1>1, <1>2, <2>1, <2>2
<1>5. Len(k) = m /\ Len(t) = m
  BY <1>1, <1>2 DEF m
<1>6. k = t
  BY <1>2, <1>3, <1>4, <1>5, SeqEqual
<1> QED
  BY <1>3, <1>6 DEF Matching, k, t

\* The line after a byte of a command that is being read.
LEMMA AdvanceReading ==
    ASSUME IInv, Advance, NEW s \in Members(sent)
    PROVE  Reading(s)'
<1> DEFINE a == s.from
           b == s.to
           l == Len(line)
<1>1. /\ pc = "advance" /\ read' = held /\ UNCHANGED <<sent, stream, dropped>>
      /\ CASE stream[held] = Return -> UNCHANGED <<line, device, obeyed>>
           [] stream[held] = Eol    -> Obey /\ line' = AfterEol(line)
           [] OTHER                 -> line' = Longer(line, held) /\ UNCHANGED <<device, obeyed>>
  BY DEF Advance, link
<1>2. /\ held \in Nat /\ held \notin dropped /\ read \in Nat /\ read < held /\ held \in Pos
      /\ line \in Seq(Pos) /\ l \in Nat /\ LineMax \in Nat
  BY <1>1, HeldIs, LenProperties, FirmwareAssumption DEF IInv, QueueInv, TypeOK
<1>3. /\ a \in Nat /\ b \in Nat /\ a > 0 /\ b - a <= LineMax /\ b > a
      /\ \A q \in a..(b - 2) : stream[q] \notin {Return, Eol}
      /\ stream[b - 1] = Return
      /\ a > 1 => stream[a - 1] = Eol
  <2> DEFINE m == Len(s.command.line)
  <2>1. m \in Nat /\ m < LineMax /\ b = a + m + 1 /\ a \in Nat /\ b \in Nat /\ a > 0
        /\ (\A q \in a..(b - 2) : stream[q] \notin {Return, Eol})
        /\ stream[b - 1] = Return /\ (a > 1 => stream[a - 1] = Eol)
    BY SentIs DEF IInv
  <2> HIDE DEF m
  <2> QED
    BY <1>2, <2>1
<1>4. SUFFICES ASSUME a <= held, held < b, (a..held) \cap dropped = {}
               PROVE  /\ \A d \in 0..(LastRead(s)' - a) : d < Len(line') => line'[Len(line') - d] = LastRead(s)' - d
                      /\ a = 1 \/ a - 1 \notin dropped => Len(line') = LastRead(s)' - a + 1
  BY <1>1 DEF Reading
<1>5. LastRead(s)' = IF held < b - 1 THEN held ELSE b - 2
  BY <1>1 DEF LastRead
<1> DEFINE r == LastRead(s)'
<1> HIDE DEF l, r
<1>6. held < b - 1 => line' = IF l < LineMax - 1 THEN Append(line, held) ELSE <<>>
  <2>1. held < b - 1 => held \in a..(b - 2)
    BY <1>2, <1>3, <1>4
  <2> QED
    BY <1>1, <1>3, <2>1 DEF Longer, l
<1>7. ASSUME held = b - 1 PROVE line' = line
  <2>1. stream[held] = Return
    BY <1>3, <1>7
  <2> QED
    BY <1>1, <2>1, CommandAssumption
<1>8. held < b - 1 \/ held = b - 1
  BY <1>2, <1>3, <1>4
<1>9. l < LineMax - 1 => /\ Len(Append(line, held)) = l + 1 /\ Append(line, held)[l + 1] = held
                         /\ \A i \in 1..l : Append(line, held)[i] = line[i]
  BY <1>2, AppendProperties DEF l
<1>10. Len(<<>>) = 0
  BY EmptySeq
<1>11. CASE held = a
  <2>1. ASSUME a = 1 \/ a - 1 \notin dropped PROVE l = 0
    <3>1. read = 0 \/ stream[read] = Eol
      <4>1. CASE a = 1
        BY <1>2, <1>11, <4>1
      <4>2. CASE a > 1
        <5>1. a - 1 \notin dropped /\ a - 1 \in Int /\ a - 1 < held /\ a - 1 >= held - 1
          BY <1>3, <1>11, <2>1, <4>2
        <5>2. read = a - 1
          BY <1>1, <1>2, <5>1, ReadBefore DEF IInv
        <5> QED
          BY <1>3, <4>2, <5>2
      <4> QED
        BY <1>3, <4>1, <4>2
    <3>2. line = <<>>
      BY <3>1 DEF IInv, LineOK
    <3> QED
      BY <1>10, <3>2 DEF l
  <2>2. CASE held < b - 1
    <3>1. r = a /\ 1 < LineMax
      BY <1>2, <1>3, <1>5, <1>11, <2>2 DEF r
    <3>2. ASSUME NEW d \in 0..(r - a), d < Len(line') PROVE line'[Len(line') - d] = r - d
      <4>1. d = 0
        BY <1>3, <3>1
      <4>2. line' = Append(line, held) /\ l < LineMax - 1
        BY <1>6, <1>10, <2>2, <3>2, <4>1
      <4> QED
        BY <1>2, <1>9, <1>11, <3>1, <4>1, <4>2
    <3>3. ASSUME a = 1 \/ a - 1 \notin dropped PROVE Len(line') = r - a + 1
      <4>1. l = 0 /\ l < LineMax - 1
        BY <1>2, <2>1, <3>1, <3>3
      <4> QED
        BY <1>3, <1>6, <1>9, <2>2, <3>1, <4>1
    <3> QED
      BY <3>2, <3>3 DEF r
  <2>3. CASE held = b - 1
    <3>1. r = a - 1 /\ line' = line
      BY <1>2, <1>3, <1>5, <1>7, <1>11, <2>3 DEF r
    <3>2. \A d \in 0..(r - a) : FALSE
      BY <1>3, <3>1
    <3>3. ASSUME a = 1 \/ a - 1 \notin dropped PROVE Len(line') = r - a + 1
      BY <1>3, <2>1, <3>1, <3>3 DEF l
    <3> QED
      BY <3>2, <3>3 DEF r
  <2> QED
    BY <1>8, <2>2, <2>3
<1>12. CASE held # a
  <2>1. read = held - 1
    <3>1. held - 1 \in a..held /\ held - 1 \in Int /\ held - 1 < held /\ held - 1 >= held - 1
      BY <1>2, <1>3, <1>4, <1>12
    <3>2. held - 1 \notin dropped
      BY <1>4, <3>1
    <3> QED
      BY <1>1, <1>2, <3>1, <3>2, ReadBefore DEF IInv
  <2>2. a <= read /\ read < b /\ (a..read) \cap dropped = {}
    <3>1. a <= read /\ read < b /\ \A q \in a..read : q \in a..held
      BY <1>2, <1>3, <1>4, <1>12, <2>1
    <3> QED
      BY <1>4, <3>1
  <2>3. LastRead(s) = held - 1
    BY <1>2, <1>3, <1>8, <2>1 DEF LastRead
  <2>4. /\ \A d \in 0..(held - 1 - a) : d < l => line[l - d] = held - 1 - d
        /\ a = 1 \/ a - 1 \notin dropped => l = held - 1 - a + 1
    BY <2>2, <2>3 DEF IInv, LineOK, Reading, l
  <2>5. CASE held < b - 1
    <3>1. r = held
      BY <1>5, <2>5 DEF r
    <3>2. ASSUME NEW d \in 0..(r - a), d < Len(line') PROVE line'[Len(line') - d] = r - d
      <4>1. l < LineMax - 1 /\ line' = Append(line, held)
        <5>1. ~(d < 0)
          BY <1>2, <1>3, <3>1
        <5> QED
          BY <1>6, <1>10, <2>5, <3>2, <5>1
      <4>2. Len(line') = l + 1
        BY <1>9, <4>1
      <4>3. CASE d = 0
        BY <1>2, <1>9, <3>1, <4>1, <4>2, <4>3
      <4>4. CASE d > 0
        <5>1. d - 1 \in 0..(held - 1 - a) /\ d - 1 < l /\ l + 1 - d \in 1..l
              /\ l - (d - 1) = l + 1 - d /\ held - 1 - (d - 1) = held - d
          BY <1>2, <1>3, <3>1, <3>2, <4>2, <4>4
        <5>2. line[l - (d - 1)] = held - 1 - (d - 1)
          BY <2>4, <5>1
        <5>3. line'[l + 1 - d] = line[l + 1 - d]
          BY <1>9, <4>1, <5>1
        <5> QED
          <6>1. line'[l + 1 - d] = held - d
            BY <5>1, <5>2, <5>3
          <6>2. Len(line') - d = l + 1 - d
            BY <1>2, <1>3, <3>1, <4>2
          <6> QED
            BY <3>1, <6>1, <6>2
      <4> QED
        BY <1>2, <1>3, <3>1, <4>3, <4>4
    <3>3. ASSUME a = 1 \/ a - 1 \notin dropped PROVE Len(line') = r - a + 1
      <4>1. l = held - 1 - a + 1
        BY <2>4, <3>3
      <4>2. l < LineMax - 1
        BY <1>2, <1>3, <2>5, <4>1
      <4> QED
        <5>1. Len(line') = l + 1
          BY <1>6, <1>9, <2>5, <4>2
        <5> QED
          BY <1>2, <1>3, <3>1, <4>1, <5>1
    <3> QED
      BY <3>2, <3>3 DEF r
  <2>6. CASE held = b - 1
    <3>1. r = held - 1 /\ line' = line
      BY <1>2, <1>3, <1>5, <1>7, <2>6 DEF r
    <3> QED
      BY <2>4, <3>1 DEF r, l
  <2> QED
    BY <1>8, <2>5, <2>6
<1> QED
  BY <1>11, <1>12

LEMMA AdvanceIInv ==
    ASSUME IInv, Advance
    PROVE  IInv'
<1>1. QueueInv'
  BY AdvanceQueue DEF IInv
<1>2. /\ pc = "advance" /\ read' = held /\ UNCHANGED <<sent, stream, dropped>>
      /\ CASE stream[held] = Return -> UNCHANGED <<line, device, obeyed>>
           [] stream[held] = Eol    -> Obey /\ line' = AfterEol(line)
           [] OTHER                 -> line' = Longer(line, held) /\ UNCHANGED <<device, obeyed>>
  BY DEF Advance, link
<1>3. /\ held \in Nat /\ held > 0 /\ held \notin dropped /\ read \in Nat /\ read < held
      /\ \A p \in (read + 1)..(held - 1) : p \in dropped
  BY <1>2, HeldIs, LenProperties DEF IInv, QueueInv, TypeOK
<1>4. StreamOK'
  BY <1>2 DEF IInv, StreamOK, Members
<1>5. LineOK'
  <2>1. read' = 0 \/ stream'[read'] = Eol => line' = <<>>
    BY <1>2, <1>3, CommandAssumption DEF AfterEol
  <2>2. \A s \in Members(sent) : Reading(s)'
    BY AdvanceReading
  <2> QED
    BY <1>2, <2>1, <2>2 DEF LineOK, Members
<1>6. obeyed \subseteq obeyed'
  BY <1>2 DEF Obey
<1>7. WholeObeyed'
  <2>1. ASSUME NEW s \in Members(sent), Whole(s), s.from = 1 \/ s.from - 1 \notin dropped, s.to <= held
        PROVE  [at |-> s.to, command |-> s.command] \in obeyed'
    <3>1. s.to \in Nat /\ s.from \in Nat /\ s.to \in s.from..s.to /\ stream[s.to] = Eol /\ Return # Eol
      BY SentIs DEF IInv
    <3>2. CASE s.to <= read
      BY <1>6, <2>1, <3>2 DEF IInv, WholeObeyed
    <3>3. CASE ~(s.to <= read)
      <4>1. s.to \notin dropped
        BY <2>1, <3>1 DEF Whole
      <4>2. s.to \notin (read + 1)..(held - 1)
        BY <1>3, <4>1
      <4>3. s.to = held
        BY <1>3, <2>1, <3>1, <3>3, <4>2
      <4>4. s.command \in Matching(line)
        BY <1>2, <2>1, <4>3, AdvanceWhole
      <4>5. Obey
        BY <1>2, <3>1, <4>3
      <4> QED
        BY <4>3, <4>4, <4>5 DEF Obey
    <3> QED
      BY <3>2, <3>3
  <2> QED
    BY <1>2, <2>1 DEF WholeObeyed, Whole, Members
<1>8. NoOtherObeyed'
  <2>1. ASSUME NEW o \in obeyed', NEW s \in Members(sent), o.at = s.to, Whole(s)
        PROVE  o.command = s.command
    <3>1. CASE o \in obeyed
      BY <2>1, <3>1 DEF IInv, NoOtherObeyed
    <3>2. CASE o \notin obeyed
      <4>1. Obey
        BY <1>2, <3>2
      <4>2. o.at = held /\ o.command \in Matching(line)
        BY <3>2, <4>1 DEF Obey
      <4>3. o.command \in Commands /\ o.command.line = Text(line)
        BY <4>2 DEF Matching
      <4> QED
        BY <1>2, <2>1, <4>2, <4>3, AdvanceNoOther
    <3> QED
      BY <3>1, <3>2
  <2> QED
    BY <1>2, <2>1 DEF NoOtherObeyed, Whole, Members
<1> QED
  BY <1>1, <1>4, <1>5, <1>7, <1>8 DEF IInv

-----------------------------------------------------------------------------
(* Together.                                                               *)

LEMMA NextIInv == IInv /\ [Next]_vars => IInv'
<1> SUFFICES ASSUME IInv, [Next]_vars PROVE IInv'
  OBVIOUS
<1>1. CASE \E k \in Commands : Write(k)
  BY <1>1, WriteIInv
<1>2. CASE Receive
  BY <1>2, ReceiveIInv
<1>3. CASE Advance
  BY <1>3, AdvanceIInv
<1>4. CASE Reset
  BY <1>4, ResetIInv
<1>5. CASE Boot \/ Poll \/ Drained \/ Fetch \/ UNCHANGED vars
  BY <1>5, QuietIInv
<1> QED
  BY <1>1, <1>2, <1>3, <1>4, <1>5 DEF Next, Loop

\* What waits is what was received and not read, and the line is what of it makes up a command:
\* whatever the interrupt, the loop and the resets do (ISR, gate_poll_uart).
THEOREM InductiveInvariant == Spec => []IInv
<1> QED
  BY InitIInv, NextIInv, PTL DEF Spec

\* Every variable keeps its type; above all the line fits its buffer with the 0 behind it,
\* whatever is received (gate_poll_uart).
THEOREM TypesHold == Spec => []TypeOK
<1>1. IInv => TypeOK
  BY DEF IInv, QueueInv
<1> QED
  BY <1>1, InductiveInvariant, PTL

\* The interrupt and the loop share a ring without a lock, and it is a queue (ISR, uart_try_getc).
THEOREM NoLockNeeded == Spec => []RingIsQueue
<1>1. ASSUME IInv PROVE RingIsQueue
  <2>1. Rising(Waiting) /\ Members(Waiting) = ((read + 1)..arrived) \ dropped
        /\ (pc = "advance" => Waiting # <<>> /\ held = Waiting[1])
    BY <1>1 DEF IInv, QueueInv, QueueOK
  <2>2. Len(Waiting) \in Nat
    BY <1>1, WaitingIs, LenProperties DEF IInv, QueueInv
  <2>3. ASSUME NEW i \in 2..Len(Waiting) PROVE Waiting[i - 1] < Waiting[i]
    <3>1. i \in 1..Len(Waiting) /\ i - 1 \in 1..Len(Waiting) /\ i - 1 < i
      BY <2>2
    <3> QED
      BY <2>1, <3>1 DEF Rising
  <2> QED
    BY <2>1, <2>3 DEF RingIsQueue
<1> QED
  BY <1>1, InductiveInvariant, PTL

\* A loss harms no command but those that lost a byte and the one right behind (gate_poll_uart).
THEOREM LossIsLocal == Spec => []WholeObeyed
<1>1. IInv => WholeObeyed
  BY DEF IInv
<1> QED
  BY <1>1, InductiveInvariant, PTL

\* No fragment of an earlier line makes of a command another one (gate_handle_line).
THEOREM NoCommandMistaken == Spec => []NoOtherObeyed
<1>1. IInv => NoOtherObeyed
  BY DEF IInv
<1> QED
  BY <1>1, InductiveInvariant, PTL
=============================================================================
