--------------------------- MODULE StorageProofs ---------------------------
(***************************************************************************)
(* What StorageService promises for any number of cards, spots and bays,   *)
(* whatever messages arrive in whatever order.                             *)
(*                                                                         *)
(* A handler changes one record, or each record on its own, so the         *)
(* inductive invariant is a condition Good(k, m) on a single record k and  *)
(* its pending move m: one lemma per record change, one per handler.       *)
(***************************************************************************)
EXTENDS Storage, TLAPS

Good(k, m) == /\ k \in Customer
              /\ m \in Moves \cup {NoMove}
              /\ AtRest(k, m)
              /\ InMotion(k, m)
              /\ Requested(k)

Records == \A c \in Cards : Good(customers[c], pending_moves[c])

IInv == TypeOK /\ Records

-----------------------------------------------------------------------------
(* The record changes.                                                     *)

\* A move is never the absence of one.
LEMMA MoveIsMove ==
    ASSUME NEW m \in Moves
    PROVE  /\ m # NoMove /\ m.from \in Places /\ m.to \in Places
           /\ m.from \in Spots => m.to \in Buffers
           /\ m.to \in Spots \cup Buffers
BY StorageAssumption DEF Moves, NoMove, Places

\* Seeing an expected car enter its bay leaves a consistent record.
LEMMA EnteredGood ==
    ASSUME NEW k, NEW m, NEW b \in Buffers, Good(k, m), k.buffer = b,
           k.status = "entry_authorized"
    PROVE  Good(Entered(k, b), m)
BY StorageAssumption DEF Good, Entered, AtRest, InMotion, Requested, Customer, Status, Places, Unregistered

\* Finishing the move a record is carrying out leaves a consistent record.
LEMMA FinishedGood ==
    ASSUME NEW k, NEW m \in Moves, Good(k, m)
    PROVE  Good(Finished(k, m), NoMove)
<1>1. m.to \in Places /\ m.to # None
  BY MoveIsMove, StorageAssumption
<1>2. Finished(k, m) \in Customer
  BY <1>1 DEF Good, Finished, Customer, Status, Places
<1>3. AtRest(Finished(k, m), NoMove) /\ InMotion(Finished(k, m), NoMove) /\ Requested(Finished(k, m))
  BY <1>1 DEF Good, Finished, AtRest, InMotion, Requested, Customer
<1> QED
  BY <1>2, <1>3 DEF Good

\* A completed departure leaves a consistent record.
LEMMA DepartedGood ==
    ASSUME NEW k, NEW m, Good(k, m)
    PROVE  Good(Departed(k), m)
BY DEF Good, Departed, AtRest, InMotion, Requested, Customer, Status

\* A checkout scan leaves a consistent record, whatever its status was.
LEMMA CheckedOutGood ==
    ASSUME NEW k, NEW m, Good(k, m)
    PROVE  Good(CheckedOut(k), m)
<1>1. CheckedOut(k) \in Customer
  <2>1. k \in Customer
    BY DEF Good
  <2> DEFINE inside == k.status \in {"in_buffer", "entry_authorized"} /\ k.location # OUTSIDE
             status == CASE inside -> "ready_for_pickup"
                         [] k.status = "parked" -> "pickup_requested"
                         [] k.status = "unregistered" -> "departed"
                         [] OTHER -> k.status
             ready == k.ready \/ inside
  <2>2. CheckedOut(k) = [k EXCEPT !.checkout = TRUE, !.ready = ready, !.status = status]
    BY <2>1 DEF CheckedOut, Customer
  <2>3. status \in Status /\ ready \in BOOLEAN
    BY <2>1 DEF Customer, Status
  <2> HIDE DEF status, ready
  <2> QED
    BY <2>1, <2>2, <2>3 DEF Customer
<1>2. Requested(CheckedOut(k))
  <2>1. k \in Customer /\ Requested(k)
    BY DEF Good
  <2>2. k.status = "in_buffer" => k.location # OUTSIDE
    BY <2>1, StorageAssumption DEF Good, AtRest, Customer, Places
  <2> QED
    BY <2>1, <2>2 DEF CheckedOut, Requested, Customer, Status
<1>3. AtRest(CheckedOut(k), m) /\ InMotion(CheckedOut(k), m)
  BY StorageAssumption DEF Good, CheckedOut, AtRest, InMotion, Customer, Status, Places, Unregistered
<1> QED
  BY <1>1, <1>2, <1>3 DEF Good

\* A commanded move leaves a consistent record, with that move pending.
LEMMA CommandedGood ==
    ASSUME NEW k, NEW m, NEW n \in Moves, Good(k, m), k.status # "unregistered"
    PROVE  Good(Commanded(k, n), n)
<1>1. n # NoMove /\ (n.from \in Spots => n.to \in Buffers)
  BY MoveIsMove
<1>2. Commanded(k, n) \in Customer
  BY <1>1 DEF Good, Commanded, Customer, Status
<1>3. AtRest(Commanded(k, n), n) /\ InMotion(Commanded(k, n), n) /\ Requested(Commanded(k, n))
  BY <1>1 DEF Good, Commanded, AtRest, InMotion, Requested, Customer
<1> QED
  BY <1>2, <1>3 DEF Good

-----------------------------------------------------------------------------
(* The two sweeps over all records.                                        *)

\* Completing all confirmed moves leaves every record consistent.
LEMMA CompletePendingMovesGood ==
    ASSUME NEW cs, cs \in [Cards -> Customer],
           pending_moves \in [Cards -> Moves \cup {NoMove}],
           \A c \in Cards : Good(cs[c], pending_moves[c]),
           NEW occ
    PROVE  LET left == [c \in Cards |-> IF Confirmed(pending_moves[c], occ)
                                        THEN NoMove ELSE pending_moves[c]]
           IN  /\ CompletePendingMoves(cs, occ) \in [Cards -> Customer]
               /\ left \in [Cards -> Moves \cup {NoMove}]
               /\ \A c \in Cards : Good(CompletePendingMoves(cs, occ)[c], left[c])
<1> DEFINE left == [c \in Cards |-> IF Confirmed(pending_moves[c], occ)
                                    THEN NoMove ELSE pending_moves[c]]
<1>1. ASSUME NEW c \in Cards
      PROVE  Good(CompletePendingMoves(cs, occ)[c], left[c])
  <2>1. CASE Confirmed(pending_moves[c], occ)
    <3>1. pending_moves[c] \in Moves
      BY <2>1 DEF Confirmed
    <3>2. Good(Finished(cs[c], pending_moves[c]), NoMove)
      BY <3>1, FinishedGood
    <3> QED
      BY <2>1, <3>2 DEF CompletePendingMoves
  <2>2. CASE ~Confirmed(pending_moves[c], occ)
    BY <2>2 DEF CompletePendingMoves
  <2> QED
    BY <2>1, <2>2
<1>2. \A c \in Cards : CompletePendingMoves(cs, occ)[c] \in Customer
  BY <1>1 DEF Good
<1>3. CompletePendingMoves(cs, occ) \in [Cards -> Customer]
  BY <1>2 DEF CompletePendingMoves
<1> QED
  BY <1>1, <1>3

\* Completing departures leaves every record consistent.
LEMMA CompleteDeparturesGood ==
    ASSUME NEW cs, cs \in [Cards -> Customer],
           NEW ms,
           \A c \in Cards : Good(cs[c], ms[c]),
           NEW occ, NEW present
    PROVE  /\ CompleteDepartures(cs, occ, present) \in [Cards -> Customer]
           /\ \A c \in Cards : Good(CompleteDepartures(cs, occ, present)[c], ms[c])
<1>1. ASSUME NEW c \in Cards
      PROVE  Good(CompleteDepartures(cs, occ, present)[c], ms[c])
  BY DepartedGood DEF CompleteDepartures
<1>2. \A c \in Cards : CompleteDepartures(cs, occ, present)[c] \in Customer
  BY <1>1 DEF Good
<1>3. CompleteDepartures(cs, occ, present) \in [Cards -> Customer]
  BY <1>2 DEF CompleteDepartures
<1> QED
  BY <1>1, <1>3

-----------------------------------------------------------------------------
(* The handlers.                                                           *)

\* A freshly started service satisfies the inductive invariant.
LEMMA InitIInv == Init => IInv
<1> SUFFICES ASSUME Init PROVE IInv
  OBVIOUS
<1>1. Unregistered \in Customer
  BY StorageAssumption DEF Unregistered, Customer, Status, Hours
<1>2. Good(Unregistered, NoMove)
  BY <1>1 DEF Good, AtRest, InMotion, Requested, Unregistered
<1>3. Records
  BY <1>2 DEF Init, Records
<1>4. latest_duration \in Hours
  BY StorageAssumption DEF Init, Hours
<1>5. TypeOK
  BY <1>1, <1>4 DEF Init, TypeOK
<1> QED
  BY <1>3, <1>5 DEF IInv

\* A new request keeps the order of requests a relation on cards.
LEMMA OrderOK ==
    ASSUME NEW c \in Cards, older \in SUBSET (Cards \X Cards)
    PROVE  Newest(c) \in SUBSET (Cards \X Cards)
BY DEF Newest

\* The step OnDuration preserves the inductive invariant.
LEMMA OnDurationIInv ==
    ASSUME IInv, NEW h \in Hours, OnDuration(h) PROVE IInv'
BY DEF IInv, TypeOK, Records, OnDuration, Good, AtRest, InMotion, Requested

\* The step OnGateMotion preserves the inductive invariant.
LEMMA OnGateMotionIInv ==
    ASSUME IInv, NEW present \in BOOLEAN, OnGateMotion(present) PROVE IInv'
<1>1. customers \in [Cards -> Customer] /\ \A c \in Cards : Good(customers[c], pending_moves[c])
  BY DEF IInv, TypeOK, Records
<1>2. /\ customers' \in [Cards -> Customer]
      /\ \A c \in Cards : Good(customers'[c], pending_moves[c])
  BY <1>1, CompleteDeparturesGood DEF OnGateMotion
<1> QED
  BY <1>2 DEF IInv, TypeOK, Records, OnGateMotion, Good, AtRest, InMotion, Requested

\* The step OnNfcGate preserves the inductive invariant.
LEMMA OnNfcGateIInv ==
    ASSUME IInv, NEW c \in Cards, OnNfcGate(c) PROVE IInv'
<1> DEFINE fresh == [Unregistered EXCEPT !.status = "arrival_requested",
                                         !.hours = latest_duration,
                                         !.location = OUTSIDE]
<1>1. Good(fresh, pending_moves[c])
  BY StorageAssumption
  DEF IInv, TypeOK, Good, AtRest, InMotion, Requested, Unregistered, Customer, Status
<1>2. customers' = [customers EXCEPT ![c] = fresh] /\ pending_moves' = pending_moves
  BY DEF OnNfcGate
<1>3. Records'
  BY <1>1, <1>2 DEF IInv, TypeOK, Records
<1>4. customers' \in [Cards -> Customer]
  BY <1>1, <1>2 DEF IInv, TypeOK, Good
<1>5. 0 \in Hours
  BY StorageAssumption DEF Hours
<1>6. TypeOK'
  BY <1>4, <1>5, OrderOK DEF IInv, TypeOK, OnNfcGate
<1> QED
  BY <1>3, <1>6 DEF IInv

\* The step OnNfcCheckout preserves the inductive invariant.
LEMMA OnNfcCheckoutIInv ==
    ASSUME IInv, NEW c \in Cards, OnNfcCheckout(c) PROVE IInv'
<1>1. Good(CheckedOut(customers[c]), pending_moves[c])
  BY CheckedOutGood DEF IInv, Records
<1>2. customers' = [customers EXCEPT ![c] = CheckedOut(customers[c])] /\ pending_moves' = pending_moves
  BY DEF OnNfcCheckout
<1>3. Records'
  BY <1>1, <1>2 DEF IInv, TypeOK, Records
<1>4. customers' \in [Cards -> Customer]
  BY <1>1, <1>2 DEF IInv, TypeOK, Good
<1>5. TypeOK'
  BY <1>4, OrderOK DEF IInv, TypeOK, OnNfcCheckout
<1> QED
  BY <1>3, <1>5 DEF IInv

\* A handler that rewrites one record and leaves the rest of the state alone.
LEMMA OneRecordIInv ==
    ASSUME IInv, NEW c \in Cards, NEW k, Good(k, pending_moves[c]),
           customers' = [customers EXCEPT ![c] = k],
           UNCHANGED <<older, occupied, pending_moves, latest_duration, gate_present>>
    PROVE  IInv'
<1>1. Records'
  BY DEF IInv, TypeOK, Records
<1>2. TypeOK'
  BY DEF IInv, TypeOK, Good
<1> QED
  BY <1>1, <1>2 DEF IInv

\* A step that changes nothing preserves the inductive invariant.
LEMMA StutterIInv ==
    ASSUME IInv, UNCHANGED vars PROVE IInv'
BY DEF IInv, TypeOK, Records, vars

\* The step OnAssignment preserves the inductive invariant.
LEMMA OnAssignmentIInv ==
    ASSUME IInv, NEW c \in Cards, NEW s \in Spots, NEW b \in Buffers, OnAssignment(c, s, b)
    PROVE  IInv'
<1> DEFINE k == [customers[c] EXCEPT !.spot = s, !.buffer = b, !.status = "entry_authorized"]
<1>1. CASE ~Known(c)
  BY <1>1, StutterIInv DEF OnAssignment, vars
<1>2. CASE Known(c)
  <2>1. Good(customers[c], pending_moves[c])
    BY DEF IInv, Records
  <2>2. Good(k, pending_moves[c])
    <3>1. s # None /\ b # None
      BY StorageAssumption DEF Places
    <3> QED
      BY <2>1, <3>1 DEF Good, AtRest, InMotion, Requested, Customer, Status
  <2>3. customers' = [customers EXCEPT ![c] = k]
    BY <1>2 DEF OnAssignment
  <2> QED
    BY <2>2, <2>3, OneRecordIInv DEF OnAssignment
<1> QED
  BY <1>1, <1>2

\* The step OnExitAuthorization preserves the inductive invariant.
LEMMA OnExitAuthorizationIInv ==
    ASSUME IInv, NEW c \in Cards, OnExitAuthorization(c) PROVE IInv'
<1> DEFINE k == [customers[c] EXCEPT !.status = "exit_authorized"]
<1>1. CASE ~Known(c)
  BY <1>1, StutterIInv DEF OnExitAuthorization, vars
<1>2. CASE Known(c)
  <2>1. Good(customers[c], pending_moves[c])
    BY DEF IInv, Records
  <2>2. Good(k, pending_moves[c])
    BY <2>1 DEF Good, AtRest, InMotion, Requested, Customer, Status
  <2>3. customers' = [customers EXCEPT ![c] = k]
    BY <1>2 DEF OnExitAuthorization, IInv, TypeOK, Customer
  <2> QED
    BY <2>2, <2>3, OneRecordIInv DEF OnExitAuthorization
<1> QED
  BY <1>1, <1>2

\* The step OnAdmissionResult preserves the inductive invariant.
LEMMA OnAdmissionResultIInv ==
    ASSUME IInv, NEW c \in Cards, NEW accepted \in BOOLEAN, OnAdmissionResult(c, accepted)
    PROVE  IInv'
<1> DEFINE k == [customers[c] EXCEPT !.status = "rejected", !.location = None]
           turned_away == ~accepted /\ customers[c].status = "arrival_requested"
<1>1. CASE ~turned_away
  BY <1>1, StutterIInv DEF OnAdmissionResult, vars
<1>2. CASE turned_away
  <2>1. Good(customers[c], pending_moves[c])
    BY DEF IInv, Records
  <2>2. Good(k, pending_moves[c])
    BY <1>2, <2>1 DEF Good, AtRest, InMotion, Requested, Customer, Status
  <2>3. customers' = [customers EXCEPT ![c] = k]
    BY <1>2 DEF OnAdmissionResult
  <2> QED
    BY <2>2, <2>3, OneRecordIInv DEF OnAdmissionResult
<1> QED
  BY <1>1, <1>2

\* The step OnVehicleMove preserves the inductive invariant.
LEMMA OnVehicleMoveIInv ==
    ASSUME IInv, NEW c \in Cards, NEW m \in Moves, OnVehicleMove(c, m) PROVE IInv'
<1>1. CASE ~Known(c)
  BY <1>1, StutterIInv DEF OnVehicleMove, vars
<1>2. CASE Known(c)
  <2>1. Good(Commanded(customers[c], m), m)
    BY <1>2, CommandedGood DEF IInv, Records, Known
  <2>2. /\ customers' = [customers EXCEPT ![c] = Commanded(customers[c], m)]
        /\ pending_moves' = [pending_moves EXCEPT ![c] = m]
    BY <1>2 DEF OnVehicleMove
  <2>3. Records'
    BY <2>1, <2>2 DEF IInv, TypeOK, Records
  <2>4. TypeOK'
    BY <2>1, <2>2 DEF IInv, TypeOK, Good, OnVehicleMove
  <2> QED
    BY <2>3, <2>4 DEF IInv
<1> QED
  BY <1>1, <1>2

\* The step OnOccupied preserves the inductive invariant.
LEMMA OnOccupiedIInv ==
    ASSUME IInv, NEW p \in Places, OnOccupied(p) PROVE IInv'
<1> DEFINE occ == occupied \cup {p}
<1>1. PICK cs \in [Cards -> Customer] :
          /\ \A c \in Cards : Good(cs[c], pending_moves[c])
          /\ customers' = CompletePendingMoves(cs, occ)
  <2>1. CASE Entrants(p) = {}
    BY <2>1 DEF OnOccupied, IInv, TypeOK, Records
  <2>2. CASE Entrants(p) # {}
    <3>1. PICK e \in Entrants(p) :
              customers' = CompletePendingMoves([customers EXCEPT ![e] = Entered(@, p)], occ)
      BY <2>2 DEF OnOccupied
    <3>2. /\ e \in Cards /\ customers[e].status = "entry_authorized"
          /\ customers[e].buffer = p
      BY <3>1 DEF Entrants, Oldest
    <3>3. p \in Buffers
      BY <3>2, StorageAssumption DEF IInv, TypeOK, Customer
    <3>4. Good(Entered(customers[e], p), pending_moves[e])
      BY <3>2, <3>3, EnteredGood DEF IInv, Records
    <3> DEFINE cs == [customers EXCEPT ![e] = Entered(customers[e], p)]
    <3>5. \A c \in Cards : Good(cs[c], pending_moves[c])
      BY <3>2, <3>4 DEF IInv, TypeOK, Records
    <3>6. cs \in [Cards -> Customer]
      BY <3>2, <3>4 DEF IInv, TypeOK, Good
    <3> QED
      BY <3>1, <3>5, <3>6
  <2> QED
    BY <2>1, <2>2
<1>2. pending_moves \in [Cards -> Moves \cup {NoMove}]
  BY DEF IInv, TypeOK
<1>3. /\ customers' \in [Cards -> Customer]
      /\ pending_moves' \in [Cards -> Moves \cup {NoMove}]
      /\ \A c \in Cards : Good(customers'[c], pending_moves'[c])
  BY <1>1, <1>2, CompletePendingMovesGood DEF OnOccupied
<1>4. TypeOK'
  BY <1>3 DEF IInv, TypeOK, OnOccupied
<1> QED
  BY <1>3, <1>4 DEF IInv, Records

\* The step OnFree preserves the inductive invariant.
LEMMA OnFreeIInv ==
    ASSUME IInv, NEW p \in Places, OnFree(p) PROVE IInv'
<1> DEFINE occ == occupied \ {p}
           moved == CompletePendingMoves(customers, occ)
<1>1. /\ customers \in [Cards -> Customer]
      /\ pending_moves \in [Cards -> Moves \cup {NoMove}]
      /\ \A c \in Cards : Good(customers[c], pending_moves[c])
  BY DEF IInv, TypeOK, Records
<1>2. /\ moved \in [Cards -> Customer]
      /\ pending_moves' \in [Cards -> Moves \cup {NoMove}]
      /\ \A c \in Cards : Good(moved[c], pending_moves'[c])
  BY <1>1, CompletePendingMovesGood DEF OnFree
<1>3. /\ customers' \in [Cards -> Customer]
      /\ \A c \in Cards : Good(customers'[c], pending_moves'[c])
  <2>1. customers' = CompleteDepartures(moved, occ, gate_present)
    BY DEF OnFree
  <2> HIDE DEF moved
  <2> QED
    BY <1>2, <2>1, CompleteDeparturesGood
<1>4. TypeOK'
  BY <1>2, <1>3 DEF IInv, TypeOK, OnFree
<1> QED
  BY <1>3, <1>4 DEF IInv, Records

-----------------------------------------------------------------------------
\* Every handler, in any order, preserves the inductive invariant.
LEMMA NextIInv ==
    ASSUME IInv, [Next]_vars PROVE IInv'
<1>1. ASSUME NEW h \in Hours, OnDuration(h) PROVE IInv'
  BY <1>1, OnDurationIInv
<1>2. ASSUME NEW present \in BOOLEAN, OnGateMotion(present) PROVE IInv'
  BY <1>2, OnGateMotionIInv
<1>3. ASSUME NEW p \in Places, OnOccupied(p) \/ OnFree(p) PROVE IInv'
  BY <1>3, OnOccupiedIInv, OnFreeIInv
<1>4. ASSUME NEW c \in Cards, OnNfcGate(c) \/ OnNfcCheckout(c) \/ OnExitAuthorization(c) PROVE IInv'
  BY <1>4, OnNfcGateIInv, OnNfcCheckoutIInv, OnExitAuthorizationIInv
<1>5. ASSUME NEW c \in Cards, NEW s \in Spots, NEW b \in Buffers, OnAssignment(c, s, b) PROVE IInv'
  BY <1>5, OnAssignmentIInv
<1>6. ASSUME NEW c \in Cards, NEW accepted \in BOOLEAN, OnAdmissionResult(c, accepted) PROVE IInv'
  BY <1>6, OnAdmissionResultIInv
<1>7. ASSUME NEW c \in Cards, NEW m \in Moves, OnVehicleMove(c, m) PROVE IInv'
  BY <1>7, OnVehicleMoveIInv
<1>8. CASE UNCHANGED vars
  BY <1>8, StutterIInv
<1> QED
  BY <1>1, <1>2, <1>3, <1>4, <1>5, <1>6, <1>7, <1>8 DEF Next

\* The inductive invariant holds of every reachable state of the record.
THEOREM InductiveInvariant == Spec => []IInv
<1>1. IInv /\ [Next]_vars => IInv'
  BY NextIInv
<1> QED
  BY InitIInv, <1>1, PTL DEF Spec

\* Every variable keeps its type whatever the bus delivers.
THEOREM TypeCorrect == Spec => []TypeOK
<1>1. IInv => TypeOK
  BY DEF IInv
<1> QED
  BY <1>1, InductiveInvariant, PTL

\* Status, location and pending move of every car agree in every reachable state
\* (StorageService's handlers, taken in any order).
THEOREM RecordAlwaysConsistent == Spec => []RecordConsistent
<1>1. IInv => RecordConsistent
  BY DEF IInv, Records, Good, RecordConsistent
<1> QED
  BY <1>1, InductiveInvariant, PTL

\* No interleaving of a checkout scan with entry, parking or retrieval loses the request
\* (StorageService._on_nfc, _on_occupancy and _complete_pending_moves).
THEOREM CheckoutNeverForgotten == Spec => []CheckoutActedOn
<1>1. IInv => CheckoutActedOn
  BY DEF IInv, Records, Good, CheckoutActedOn
<1> QED
  BY <1>1, InductiveInvariant, PTL

-----------------------------------------------------------------------------
(* Steps: what may become of a car's recorded place.                       *)

\* A finished move ends where it was to end, in a status from which no car departs.
LEMMA FinishedPlace ==
    ASSUME NEW k \in Customer, NEW m
    PROVE  Finished(k, m).location = m.to /\ Finished(k, m).status # "exit_authorized"
BY DEF Finished, Customer

\* Completing departures moves no car to a place.
LEMMA DeparturesPlace ==
    ASSUME NEW cs \in [Cards -> Customer], NEW occ, NEW present, NEW c \in Cards
    PROVE  LET k == CompleteDepartures(cs, occ, present)[c]
           IN  \/ k = cs[c]
               \/ k = Departed(cs[c]) /\ k.location = None /\ k.status = "departed"
                  /\ ~present /\ Leaving(cs[c], occ)
BY DEF CompleteDepartures, Departed, Customer

\* A sensor event moves a car that has no confirmed move only into the bay it was sent to.
LEMMA OccupiedPlace ==
    ASSUME IInv, NEW p \in Places, OnOccupied(p), NEW c \in Cards
    PROVE  LET m == pending_moves[c]
               place == customers'[c].location
           IN  IF Confirmed(m, occupied') THEN m \in Moves /\ place = m.to
               ELSE place \in {p, customers[c].location} /\ pending_moves'[c] = m
<1> DEFINE occ == occupied \cup {p}
<1>1. PICK cs \in [Cards -> Customer] :
          /\ cs[c].location \in {p, customers[c].location}
          /\ customers' = CompletePendingMoves(cs, occ)
  <2>1. CASE Entrants(p) = {}
    BY <2>1 DEF OnOccupied, IInv, TypeOK
  <2>2. CASE Entrants(p) # {}
    <3>1. PICK e \in Entrants(p) :
              customers' = CompletePendingMoves([customers EXCEPT ![e] = Entered(@, p)], occ)
      BY <2>2 DEF OnOccupied
    <3>2. e \in Cards
      BY <3>1 DEF Entrants, Oldest
    <3>3. Entered(customers[e], p) \in Customer /\ Entered(customers[e], p).location = p
      <4>1. customers[e] \in Customer
        BY <3>2 DEF IInv, TypeOK
      <4> QED
        BY <4>1 DEF Entered, Customer, Status, Places
    <3> QED
      BY <3>1, <3>2, <3>3 DEF IInv, TypeOK
  <2> QED
    BY <2>1, <2>2
<1>2. occupied' = occ
  BY DEF OnOccupied
<1>3. CASE Confirmed(pending_moves[c], occ)
  <2>1. pending_moves[c] \in Moves
    BY <1>3 DEF Confirmed, IInv, TypeOK
  <2>2. customers'[c] = Finished(cs[c], pending_moves[c])
    BY <1>1, <1>3 DEF CompletePendingMoves
  <2> QED
    BY <1>1, <1>2, <1>3, <2>1, <2>2, FinishedPlace
<1>4. CASE ~Confirmed(pending_moves[c], occ)
  BY <1>1, <1>2, <1>4 DEF CompletePendingMoves, OnOccupied
<1> QED
  BY <1>3, <1>4

\* When a place becomes free, a car is where its confirmed move ended, where it was, or gone.
LEMMA FreePlace ==
    ASSUME IInv, NEW p \in Places, OnFree(p), NEW c \in Cards
    PROVE  LET m == pending_moves[c]
               place == customers'[c].location
           IN  IF Confirmed(m, occupied') THEN m \in Moves /\ place = m.to
               ELSE /\ pending_moves'[c] = m
                    /\ \/ place = customers[c].location
                       \/ place = None /\ ~gate_present /\ Leaving(customers[c], occupied')
<1> DEFINE occ == occupied \ {p}
           moved == CompletePendingMoves(customers, occ)
<1>1. /\ occupied' = occ
      /\ customers' = CompleteDepartures(moved, occ, gate_present)
  BY DEF OnFree
<1>2. customers \in [Cards -> Customer]
  BY DEF IInv, TypeOK
<1>3. moved \in [Cards -> Customer]
  BY <1>2, CompletePendingMovesGood DEF IInv, TypeOK, Records
<1>4. \/ customers'[c] = moved[c]
      \/ /\ customers'[c].location = None /\ ~gate_present
         /\ Leaving(moved[c], occ)
  <2> HIDE DEF moved
  <2> QED
    BY <1>1, <1>3, DeparturesPlace
<1>5. CASE Confirmed(pending_moves[c], occ)
  <2>1. pending_moves[c] \in Moves
    BY <1>5 DEF Confirmed, IInv, TypeOK
  <2>2. moved[c] = Finished(customers[c], pending_moves[c])
    BY <1>5 DEF CompletePendingMoves
  <2>3. moved[c].location = pending_moves[c].to /\ moved[c].status # "exit_authorized"
    BY <1>2, <2>2, FinishedPlace
  <2>4. ~Leaving(moved[c], occ)
    BY <2>3 DEF Leaving
  <2> QED
    BY <1>1, <1>4, <1>5, <2>1, <2>3, <2>4
<1>6. CASE ~Confirmed(pending_moves[c], occ)
  <2>1. moved[c] = customers[c] /\ pending_moves'[c] = pending_moves[c]
    BY <1>6 DEF CompletePendingMoves, OnFree
  <2> QED
    BY <1>1, <1>4, <1>6, <2>1
<1> QED
  BY <1>5, <1>6

\* No other handler moves a car to a place, or takes one out of a place unless it scans anew.
LEMMA ScanPlace ==
    ASSUME IInv, NEW c \in Cards, NEW d \in Cards,
           \/ OnNfcGate(d) \/ OnNfcCheckout(d) \/ OnExitAuthorization(d)
           \/ \E s \in Spots, b \in Buffers : OnAssignment(d, s, b)
           \/ \E accepted \in BOOLEAN : OnAdmissionResult(d, accepted)
           \/ \E n \in Moves : OnVehicleMove(d, n)
    PROVE  LET place == customers'[c].location
           IN  \/ place = customers[c].location
               \/ place = OUTSIDE
               \/ place = None /\ customers[c].location = OUTSIDE
<1>1. customers \in [Cards -> Customer] /\ customers[d] \in Customer
  BY DEF IInv, TypeOK
<1>2. CASE OnNfcGate(d)
  BY <1>1, <1>2 DEF OnNfcGate, Unregistered
<1>3. CASE OnNfcCheckout(d)
  BY <1>1, <1>3 DEF OnNfcCheckout, CheckedOut, Customer
<1>4. CASE OnExitAuthorization(d)
  BY <1>1, <1>4 DEF OnExitAuthorization, Customer
<1>5. CASE \E s \in Spots, b \in Buffers : OnAssignment(d, s, b)
  <2>1. PICK s \in Spots, b \in Buffers : OnAssignment(d, s, b)
    BY <1>5
  <2>2. CASE Known(d)
    <3>1. customers' = [customers EXCEPT ![d] = [@ EXCEPT !.spot = s, !.buffer = b,
                                                         !.status = "entry_authorized"]]
      BY <2>1, <2>2 DEF OnAssignment
    <3> QED
      BY <1>1, <3>1 DEF Customer
  <2>3. CASE ~Known(d)
    BY <2>1, <2>3 DEF OnAssignment
  <2> QED
    BY <2>2, <2>3
<1>6. CASE \E accepted \in BOOLEAN : OnAdmissionResult(d, accepted)
  <2>1. customers[d].status = "arrival_requested" => customers[d].location = OUTSIDE
    BY DEF IInv, Records, Good, AtRest
  <2> QED
    BY <1>1, <1>6, <2>1 DEF OnAdmissionResult, Customer
<1>7. CASE \E n \in Moves : OnVehicleMove(d, n)
  <2>1. PICK n \in Moves : OnVehicleMove(d, n)
    BY <1>7
  <2>2. Commanded(customers[d], n).location = customers[d].location
    BY <1>1 DEF Commanded, Customer
  <2>3. \/ customers' = customers
        \/ customers' = [customers EXCEPT ![d] = Commanded(@, n)]
    BY <2>1 DEF OnVehicleMove
  <2> QED
    BY <1>1, <2>2, <2>3
<1> QED
  BY <1>2, <1>3, <1>4, <1>5, <1>6, <1>7

\* What every step does to the place of one car, from the invariant.
LEMMA StepPlace ==
    ASSUME IInv, [Next]_vars, NEW c \in Cards
    PROVE  LET m == pending_moves[c]
               old == customers[c].location
               place == customers'[c].location
           IN  \/ place = old
               \/ place = OUTSIDE
               \/ place = None /\ old = OUTSIDE
               \/ m \in Moves /\ place = m.to /\ Confirmed(m, occupied')
               \/ place \in occupied' /\ pending_moves'[c] = m /\ place \in Places
               \/ place = None /\ ~gate_present' /\ Leaving(customers[c], occupied')
<1> DEFINE m == pending_moves[c]
           old == customers[c].location
           place == customers'[c].location
           Result == \/ place = old
                     \/ place = OUTSIDE
                     \/ place = None /\ old = OUTSIDE
                     \/ m \in Moves /\ place = m.to /\ Confirmed(m, occupied')
                     \/ place \in occupied' /\ pending_moves'[c] = m /\ place \in Places
                     \/ place = None /\ ~gate_present' /\ Leaving(customers[c], occupied')
<1>1. ASSUME NEW p \in Places, OnOccupied(p) PROVE Result
  <2>1. p \in occupied'
    BY <1>1 DEF OnOccupied
  <2> QED
    BY <1>1, <2>1, OccupiedPlace
<1>2. ASSUME NEW p \in Places, OnFree(p) PROVE Result
  <2>1. gate_present' = gate_present
    BY <1>2 DEF OnFree
  <2> QED
    BY <1>2, <2>1, FreePlace
<1>3. ASSUME NEW present \in BOOLEAN, OnGateMotion(present) PROVE Result
  <2>1. customers \in [Cards -> Customer]
    BY DEF IInv, TypeOK
  <2> QED
    BY <1>3, <2>1, DeparturesPlace DEF OnGateMotion
<1>4. ASSUME NEW h \in Hours, OnDuration(h) PROVE Result
  BY <1>4 DEF OnDuration
<1>5. CASE UNCHANGED vars
  BY <1>5 DEF vars
<1>6. ASSUME NEW d \in Cards,
             \/ OnNfcGate(d) \/ OnNfcCheckout(d) \/ OnExitAuthorization(d)
             \/ \E s \in Spots, b \in Buffers : OnAssignment(d, s, b)
             \/ \E accepted \in BOOLEAN : OnAdmissionResult(d, accepted)
             \/ \E n \in Moves : OnVehicleMove(d, n)
      PROVE  Result
  BY <1>6, ScanPlace
<1> HIDE DEF Result
<1> QED
  BY <1>1, <1>2, <1>3, <1>4, <1>5, <1>6 DEF Next, Result

\* In every step a car's recorded place changes only to one whose sensor reports a car, and
\* only with the origin of its move seen free (StorageService._complete_pending_moves).
THEOREM LocationAlwaysConfirmed == Spec => LocationConfirmed
<1>1. ASSUME IInv, [Next]_vars PROVE LocationStep
  <2> SUFFICES ASSUME NEW c \in Cards,
                      customers'[c].location # customers[c].location,
                      customers'[c].location \in Places
               PROVE  /\ customers'[c].location \in occupied'
                      /\ pending_moves'[c] # pending_moves[c] => pending_moves[c].from \notin occupied'
    BY DEF LocationStep
  <2>1. \/ /\ customers'[c].location = pending_moves[c].to
           /\ Confirmed(pending_moves[c], occupied')
        \/ customers'[c].location \in occupied' /\ pending_moves'[c] = pending_moves[c]
    BY <1>1, StepPlace, StorageAssumption
  <2> QED
    BY <2>1 DEF Confirmed
<1> QED
  BY <1>1, InductiveInvariant, PTL DEF Spec, LocationConfirmed

\* In every step a car is recorded as gone only when it was let out, its bay is free and
\* nothing is at the gate (StorageService._complete_departures).
THEOREM DepartureAlwaysConfirmed == Spec => DepartureConfirmed
<1>1. ASSUME IInv, [Next]_vars PROVE DepartureStep
  <2> SUFFICES ASSUME NEW c \in Cards,
                      customers[c].location \in Places,
                      customers'[c].location = None
               PROVE  /\ customers[c].status = "exit_authorized"
                      /\ customers[c].location \notin occupied'
                      /\ ~gate_present'
    BY DEF DepartureStep
  <2>1. pending_moves[c] \in Moves => pending_moves[c].to # None
    BY MoveIsMove, StorageAssumption
  <2>2. ~gate_present' /\ Leaving(customers[c], occupied')
    BY <1>1, <2>1, StepPlace, StorageAssumption
  <2> QED
    BY <2>2 DEF Leaving
<1> QED
  BY <1>1, InductiveInvariant, PTL DEF Spec, DepartureConfirmed

\* Whichever of bay and gate clears last, the step that reports it leaves no car that has
\* been let out and has left its bay (the two callers of _complete_departures).
THEOREM DepartureNeverMissed == Spec => DepartureNotMissed
<1>1. ASSUME IInv, [Next]_vars PROVE ClearingStep
  <2> SUFFICES ASSUME \/ gate_present /\ ~gate_present'
                      \/ occupied' # occupied /\ occupied' \subseteq occupied,
                      ~gate_present',
                      NEW c \in Cards
               PROVE  ~Leaving(customers'[c], occupied')
    BY DEF ClearingStep
  <2>1. ASSUME NEW cs \in [Cards -> Customer], NEW occ
        PROVE  ~Leaving(CompleteDepartures(cs, occ, FALSE)[c], occ)
    <3>1. CASE Leaving(cs[c], occ)
      <4>1. CompleteDepartures(cs, occ, FALSE)[c] = Departed(cs[c])
        BY <3>1 DEF CompleteDepartures
      <4>2. Departed(cs[c]).status = "departed"
        BY <2>1 DEF Departed, Customer
      <4> QED
        BY <4>1, <4>2 DEF Leaving
    <3>2. CASE ~Leaving(cs[c], occ)
      <4>1. CompleteDepartures(cs, occ, FALSE)[c] = cs[c]
        BY <3>2 DEF CompleteDepartures
      <4> QED
        BY <3>2, <4>1
    <3> QED
      BY <3>1, <3>2
  <2>2. ASSUME NEW present \in BOOLEAN, OnGateMotion(present)
        PROVE  ~Leaving(customers'[c], occupied')
    <3>1. customers \in [Cards -> Customer]
      BY <1>1 DEF IInv, TypeOK
    <3>2. occupied' = occupied /\ customers' = CompleteDepartures(customers, occupied, FALSE)
      BY <2>2 DEF OnGateMotion
    <3> QED
      BY <2>1, <3>1, <3>2
  <2>3. ASSUME NEW p \in Places, OnFree(p)
        PROVE  ~Leaving(customers'[c], occupied')
    <3> DEFINE occ == occupied \ {p}
               moved == CompletePendingMoves(customers, occ)
    <3>1. moved \in [Cards -> Customer]
      BY <1>1, CompletePendingMovesGood DEF IInv, TypeOK, Records
    <3>2. occupied' = occ /\ customers' = CompleteDepartures(moved, occ, gate_present)
      BY <2>3 DEF OnFree
    <3>3. gate_present = FALSE
      BY <1>1, <2>3 DEF OnFree, IInv, TypeOK
    <3> HIDE DEF moved
    <3> QED
      BY <2>1, <3>1, <3>2, <3>3
  <2>4. ASSUME NEW p \in Places, OnOccupied(p) PROVE FALSE
    BY <2>4 DEF OnOccupied
  <2>5. ASSUME gate_present' = gate_present, occupied' = occupied PROVE FALSE
    BY <2>5
  <2> QED
    BY <1>1, <2>2, <2>3, <2>4, <2>5
       DEF Next, OnDuration, OnNfcGate, OnNfcCheckout, OnAssignment, OnExitAuthorization,
           OnAdmissionResult, OnVehicleMove, vars
<1> QED
  BY <1>1, InductiveInvariant, PTL DEF Spec, DepartureNotMissed
=============================================================================
