------------------------ MODULE BurnleyTickets_proofs ------------------------
(***************************************************************************)
(* Proofs about BurnleyTickets for any fixtures, customers, quantities and *)
(* number of instants: type correctness, which includes that no count of  *)
(* tickets becomes negative, that callers and process agree on the         *)
(* bookings, and that seats available and seats booked add up.             *)
(*                                                                         *)
(* BookingsAreKnown is not inductive: it needs to know that nobody holds a *)
(* receipt of an instant to come or of a booking that was not made, and    *)
(* that all ids in use are of the running process (IdsAreOfNow).  The      *)
(* seats are counted with and without the booking under one id             *)
(* (SeatsOfOneBooking).                                                    *)
(***************************************************************************)
EXTENDS BurnleyTickets, FiniteSetTheorems, TLAPS

IdsAreOfNow ==
  /\ \A id \in Instants : issued[id] # 0 => bootedAt <= id /\ id <= clock
  /\ \A id \in Instants : bookings[id] # None => issued[id] # 0
  /\ \A receipt \in receipts :
       receipt.id <= clock /\ (receipt.id >= bootedAt => issued[receipt.id] # 0)

IInv == TypeOK /\ IdsAreOfNow /\ BookingsAreKnown

-----------------------------------------------------------------------------
LEMMA TypeStep == TypeOK /\ [Next]_vars => TypeOK'
<1> SUFFICES ASSUME TypeOK, [Next]_vars PROVE TypeOK'
  OBVIOUS
<1> USE BoundsAssumption DEF TypeOK, Instants, processVars
<1>1. ASSUME NEW b \in Booking, Book(b) PROVE TypeOK'
  <2>1. b.fixtureId \in Fixtures /\ b.quantity \in Nat
    BY DEF Booking
  <2>2. available[b.fixtureId] - b.quantity \in Nat
    BY <1>1, <2>1 DEF Book
  <2>3. available' \in [Fixtures -> Nat]
    BY <1>1, <2>1, <2>2 DEF Book
  <2>4. [id |-> clock, booking |-> b] \in Receipt
    BY DEF Receipt
  <2>5. issued' \in [Instants -> 0..2]
    BY <1>1 DEF Book
  <2> QED BY <1>1, <2>3, <2>4, <2>5 DEF Book
<1>2. ASSUME NEW id \in Instants, Cancel(id) PROVE TypeOK'
  <2>1. receipts' \subseteq receipts
    BY <1>2 DEF Cancel, Answered
  <2>2. CASE bookings[id] = None
    BY <1>2, <2>1, <2>2 DEF Cancel
  <2>3. CASE bookings[id] # None
    <3> DEFINE b == bookings[id]
    <3>1. b.fixtureId \in Fixtures /\ b.quantity \in Nat
      BY <2>3 DEF Booking
    <3>2. available[b.fixtureId] + b.quantity \in Nat
      BY <3>1
    <3>3. available' = [available EXCEPT ![b.fixtureId] = @ + b.quantity]
      BY <1>2, <2>3 DEF Cancel
    <3>4. available' \in [Fixtures -> Nat]
      BY <3>1, <3>2, <3>3
    <3> QED BY <1>2, <2>1, <2>3, <3>4 DEF Cancel
  <2> QED BY <2>2, <2>3
<1>3. CASE Tick
  BY <1>3 DEF Tick
<1>4. CASE Restart
  BY <1>4, CapacityAssumption DEF Restart
<1>5. CASE UNCHANGED vars
  BY <1>5 DEF vars
<1> QED BY <1>1, <1>2, <1>3, <1>4, <1>5 DEF Next

LEMMA IdsStep == TypeOK /\ IdsAreOfNow /\ [Next]_vars => IdsAreOfNow'
<1> SUFFICES ASSUME TypeOK, IdsAreOfNow, [Next]_vars PROVE IdsAreOfNow'
  OBVIOUS
<1> USE BoundsAssumption DEF TypeOK, Instants, IdsAreOfNow, Receipt, processVars
<1>1. ASSUME NEW b \in Booking, Book(b) PROVE IdsAreOfNow'
  BY <1>1 DEF Book
<1>2. ASSUME NEW id \in Instants, Cancel(id) PROVE IdsAreOfNow'
  BY <1>2 DEF Cancel, Answered
<1>3. CASE Tick
  BY <1>3 DEF Tick
<1>4. CASE Restart
  BY <1>4 DEF Restart
<1>5. CASE UNCHANGED vars
  BY <1>5 DEF vars
<1> QED BY <1>1, <1>2, <1>3, <1>4, <1>5 DEF Next

(* A new booking is under an id nobody holds, and a cancellation, whoever  *)
(* calls it, takes away the booking of its own id only.                    *)
LEMMA BookingsStep == IInv /\ [Next]_vars => BookingsAreKnown'
<1> SUFFICES ASSUME IInv, [Next]_vars PROVE BookingsAreKnown'
  OBVIOUS
<1> USE BoundsAssumption
    DEF IInv, TypeOK, Instants, IdsAreOfNow, Receipt, BookingsAreKnown, ReceiptsHonoured, NoOrphanBooking, processVars
<1>1. ASSUME NEW b \in Booking, Book(b) PROVE BookingsAreKnown'
  BY <1>1 DEF Book
<1>2. ASSUME NEW id \in Instants, Cancel(id) PROVE BookingsAreKnown'
  BY <1>2 DEF Cancel, Answered
<1>3. CASE Tick
  BY <1>3 DEF Tick
<1>4. CASE Restart
  BY <1>4 DEF Restart
<1>5. CASE UNCHANGED vars
  BY <1>5 DEF vars
<1> QED BY <1>1, <1>2, <1>3, <1>4, <1>5 DEF Next

LEMMA Invariance == Spec => []IInv
<1>1. Init => IInv
  BY BoundsAssumption, CapacityAssumption
     DEF Init, IInv, TypeOK, Instants, IdsAreOfNow, BookingsAreKnown, ReceiptsHonoured, NoOrphanBooking
<1>2. IInv /\ [Next]_vars => IInv'
  BY TypeStep, IdsStep, BookingsStep DEF IInv
<1> QED BY <1>1, <1>2, PTL DEF Spec

-----------------------------------------------------------------------------
(* The seats of a fixture in any Map of bookings, and how they are counted *)
(* when the booking under one id comes or goes.                            *)
SeatsIn(map, f) ==
  {seat \in Instants \X (1..MaxQuantity) :
     /\ map[seat[1]] # None
     /\ map[seat[1]].fixtureId = f
     /\ seat[2] <= map[seat[1]].quantity}

SeatsUnder(map, id, f) == IF map[id] # None /\ map[id].fixtureId = f THEN map[id].quantity ELSE 0

Without(map, id) == [map EXCEPT ![id] = None]

LEMMA SeatsAreFinite ==
  ASSUME NEW map, NEW f
  PROVE  IsFiniteSet(SeatsIn(map, f)) /\ Cardinality(SeatsIn(map, f)) \in Nat
<1>1. IsFiniteSet(Instants) /\ IsFiniteSet(1..MaxQuantity)
  BY BoundsAssumption, FS_Interval DEF Instants
<1>2. IsFiniteSet(Instants \X (1..MaxQuantity))
  BY <1>1, FS_Product
<1>3. SeatsIn(map, f) \in SUBSET (Instants \X (1..MaxQuantity))
  BY DEF SeatsIn
<1>4. IsFiniteSet(SeatsIn(map, f))
  BY <1>2, <1>3, FS_Subset
<1> QED BY <1>4, FS_CardinalityType

LEMMA SeatsOfOneBooking ==
  ASSUME NEW map \in [Instants -> Booking \cup {None}], NEW id \in Instants, NEW f \in Fixtures
  PROVE  /\ SeatsUnder(map, id, f) \in Nat
         /\ Cardinality(SeatsIn(map, f)) = Cardinality(SeatsIn(Without(map, id), f)) + SeatsUnder(map, id, f)
<1> DEFINE rest == SeatsIn(Without(map, id), f)
<1>1. Without(map, id)[id] = None /\ \A other \in Instants : other # id => Without(map, id)[other] = map[other]
  BY DEF Without
<1>2. IsFiniteSet(rest) /\ Cardinality(rest) \in Nat
  BY SeatsAreFinite
<1>3. CASE map[id] # None /\ map[id].fixtureId = f
  <2> DEFINE q == map[id].quantity
             own == {id} \X (1..q)
  <2>1. q \in 1..MaxQuantity /\ q \in Nat
    BY <1>3 DEF Booking
  <2>2. IsFiniteSet(1..q) /\ Cardinality(1..q) = q
    <3> HIDE DEF q
    <3> QED BY ONLY <2>1, FS_Interval
  <2>3. IsFiniteSet({id}) /\ Cardinality({id}) = 1
    BY FS_Singleton
  <2>4. IsFiniteSet(own) /\ Cardinality(own) = q
    <3>1. IsFiniteSet(own) /\ Cardinality(own) = Cardinality({id}) * Cardinality(1..q)
      BY ONLY <2>2, <2>3, FS_Product
    <3> QED BY ONLY <2>1, <2>2, <2>3, <3>1
  <2>5. SeatsIn(map, f) = rest \cup own
    <3>1. ASSUME NEW seat \in SeatsIn(map, f) PROVE seat \in rest \/ seat \in own
      BY <1>1, <2>1, <3>1 DEF SeatsIn
    <3>2. ASSUME NEW seat \in rest PROVE seat \in SeatsIn(map, f)
      BY <1>1, <3>2 DEF SeatsIn
    <3>3. ASSUME NEW seat \in own PROVE seat \in SeatsIn(map, f)
      <4>1. PICK n \in 1..q : seat = <<id, n>>
        OBVIOUS
      <4>2. n \in 1..MaxQuantity /\ n <= q
        BY BoundsAssumption, <2>1
      <4>3. seat \in Instants \X (1..MaxQuantity) /\ seat[1] = id /\ seat[2] = n
        BY <4>1, <4>2
      <4> QED BY <1>3, <4>2, <4>3 DEF SeatsIn
    <3> QED BY <3>1, <3>2, <3>3
  <2>6. rest \cap own = {}
    BY <1>1 DEF SeatsIn
  <2>7. SeatsUnder(map, id, f) = q
    BY <1>3 DEF SeatsUnder
  <2> HIDE DEF rest, own, q
  <2>8. Cardinality(rest \cup own) = Cardinality(rest) + Cardinality(own) - Cardinality(rest \cap own)
    BY <1>2, <2>4, FS_Union
  <2>9. Cardinality(rest \cap own) = 0
    BY <2>6, FS_EmptySet
  <2>10. Cardinality(rest \cup own) = Cardinality(rest) + q
    BY ONLY <1>2, <2>1, <2>4, <2>8, <2>9
  <2>11. Cardinality(SeatsIn(map, f)) = Cardinality(rest) + SeatsUnder(map, id, f) /\ SeatsUnder(map, id, f) \in Nat
    BY ONLY <2>1, <2>5, <2>7, <2>10
  <2> QED BY <2>11 DEF rest
<1>4. CASE ~(map[id] # None /\ map[id].fixtureId = f)
  <2>1. SeatsIn(map, f) = rest
    BY <1>1, <1>4 DEF SeatsIn
  <2> QED BY <1>2, <1>4, <2>1 DEF SeatsUnder
<1> QED BY <1>3, <1>4

LEMMA SeatsStep == IInv /\ SeatsAccounted /\ [Next]_vars => SeatsAccounted'
<1> SUFFICES ASSUME IInv, SeatsAccounted, [Next]_vars, NEW f \in Fixtures
             PROVE  /\ available'[f] + TicketsBooked(f)' <= Capacity[f]
                    /\ (\A id \in Instants : issued'[id] < 2) => available'[f] + TicketsBooked(f)' = Capacity[f]
  BY DEF SeatsAccounted
<1>0. /\ available \in [Fixtures -> Nat] /\ bookings \in [Instants -> Booking \cup {None}]
      /\ clock \in Instants /\ issued \in [Instants -> 0..2] /\ receipts \subseteq Receipt
      /\ \A id \in Instants : bookings[id] # None => issued[id] # 0
      /\ Capacity[f] \in Nat
  BY CapacityAssumption DEF IInv, TypeOK, IdsAreOfNow
<1>1. /\ TicketsBooked(f) = Cardinality(SeatsIn(bookings, f)) /\ TicketsBooked(f) \in Nat
      /\ TicketsBooked(f)' = Cardinality(SeatsIn(bookings', f)) /\ TicketsBooked(f)' \in Nat
  <2>1. SeatsBooked(f) = SeatsIn(bookings, f) /\ SeatsBooked(f)' = SeatsIn(bookings', f)
    BY DEF SeatsBooked, SeatsIn
  <2> QED BY <2>1, SeatsAreFinite DEF TicketsBooked
<1>2. /\ available[f] + TicketsBooked(f) <= Capacity[f]
      /\ (\A id \in Instants : issued[id] < 2) => available[f] + TicketsBooked(f) = Capacity[f]
  BY DEF SeatsAccounted
<1>3. ASSUME NEW b \in Booking, Book(b)
      PROVE  /\ available'[f] + TicketsBooked(f)' <= Capacity[f]
             /\ (\A id \in Instants : issued'[id] < 2) => available'[f] + TicketsBooked(f)' = Capacity[f]
  <2> DEFINE map == bookings'
             rest == Without(bookings, clock)
             old == SeatsUnder(bookings, clock, f)
             new == SeatsUnder(map, clock, f)
  <2>1. /\ map = [bookings EXCEPT ![clock] = b] /\ available' = [available EXCEPT ![b.fixtureId] = @ - b.quantity]
        /\ issued' = [issued EXCEPT ![clock] = IF @ = 0 THEN 1 ELSE 2]
        /\ b.quantity <= available[b.fixtureId] /\ b.fixtureId \in Fixtures /\ b.quantity \in Nat
    BY <1>3 DEF Book, Booking
  <2>2. map \in [Instants -> Booking \cup {None}] /\ Without(map, clock) = rest /\ map[clock] = b
    BY <1>0, <2>1 DEF Without
  <2>3. /\ old \in Nat /\ TicketsBooked(f) = Cardinality(SeatsIn(rest, f)) + old
        /\ new \in Nat /\ TicketsBooked(f)' = Cardinality(SeatsIn(rest, f)) + new
        /\ Cardinality(SeatsIn(rest, f)) \in Nat
    <3> HIDE DEF map, rest, old, new
    <3>1. old \in Nat /\ TicketsBooked(f) = Cardinality(SeatsIn(rest, f)) + old
      BY <1>0, <1>1, SeatsOfOneBooking DEF old, rest
    <3>2. new \in Nat /\ Cardinality(SeatsIn(map, f)) = Cardinality(SeatsIn(rest, f)) + new
      BY <1>0, <2>2, SeatsOfOneBooking DEF new
    <3> QED BY <1>1, <3>1, <3>2, SeatsAreFinite DEF map
  <2>4. available'[f] + new = available[f]
    <3>1. b # None
      BY NoneAssumption
    <3>2. new = IF b.fixtureId = f THEN b.quantity ELSE 0
      BY <2>2, <3>1 DEF SeatsUnder
    <3> HIDE DEF map, rest, old, new
    <3> QED BY <1>0, <2>1, <3>2
  <2>5. available[f] \in Nat /\ available'[f] \in Int
    BY <1>0, <2>1
  <2>6. ASSUME \A id \in Instants : issued'[id] < 2
        PROVE  (\A id \in Instants : issued[id] < 2) /\ old = 0
    <3>1. issued[clock] = 0
      BY <1>0, <2>1, <2>6
    <3>2. bookings[clock] = None
      BY <1>0, <3>1
    <3>3. \A id \in Instants : issued[id] < 2
      BY <1>0, <2>1, <2>6, <3>1
    <3> QED BY <3>2, <3>3 DEF SeatsUnder
  <2> HIDE DEF map, rest, old, new
  <2> QED BY <1>0, <1>1, <1>2, <2>3, <2>4, <2>5, <2>6
<1>4. ASSUME NEW key \in Instants, Cancel(key)
      PROVE  /\ available'[f] + TicketsBooked(f)' <= Capacity[f]
             /\ (\A id \in Instants : issued'[id] < 2) => available'[f] + TicketsBooked(f)' = Capacity[f]
  <2> DEFINE held == SeatsUnder(bookings, key, f)
  <2>1. UNCHANGED issued
    BY <1>4 DEF Cancel, processVars
  <2>2. CASE bookings[key] = None
    <3>1. UNCHANGED processVars
      BY <1>4, <2>2 DEF Cancel
    <3> QED BY <1>1, <1>2, <3>1 DEF processVars
  <2>3. CASE bookings[key] # None
    <3>1. /\ available' = [available EXCEPT ![bookings[key].fixtureId] = @ + bookings[key].quantity]
          /\ bookings' = Without(bookings, key)
          /\ bookings[key].fixtureId \in Fixtures /\ bookings[key].quantity \in Nat
      BY <1>0, <1>4, <2>1, <2>3 DEF Cancel, Without, Booking
    <3>2. available'[f] = available[f] + held
      BY <1>0, <2>3, <3>1 DEF SeatsUnder
    <3> HIDE DEF held
    <3>3. held \in Nat /\ TicketsBooked(f) = TicketsBooked(f)' + held
      BY <1>0, <1>1, <2>1, <3>1, SeatsOfOneBooking DEF held
    <3> QED BY <1>0, <1>1, <1>2, <2>1, <3>2, <3>3
  <2> QED BY <2>2, <2>3
<1>5. CASE Tick \/ UNCHANGED vars
  <2>1. UNCHANGED processVars
    BY <1>5 DEF Tick, vars
  <2> QED BY <1>1, <1>2, <2>1 DEF processVars
<1>6. CASE Restart
  <2>1. available' = Capacity /\ SeatsIn(bookings', f) = {}
    BY <1>6 DEF Restart, SeatsIn
  <2>2. TicketsBooked(f)' = 0
    BY <1>1, <2>1, FS_EmptySet
  <2> QED BY <1>0, <2>1, <2>2
<1> QED BY <1>3, <1>4, <1>5, <1>6 DEF Next

-----------------------------------------------------------------------------
(* The state keeps its types; no fixture's tickets become negative.        *)
THEOREM TypeCorrect == Spec => []TypeOK
<1>1. IInv => TypeOK BY DEF IInv
<1> QED BY Invariance, <1>1, PTL

(* book and cancel: a booking id that was told names the caller's booking, *)
(* as it was told, until somebody cancels that id; and a booking whose id  *)
(* nobody was told has a lost answer or an instant with two bookings       *)
(* behind it.                                                              *)
THEOREM CallersKnowTheirBookings == Spec => []BookingsAreKnown
<1>1. IInv => BookingsAreKnown BY DEF IInv
<1> QED BY Invariance, <1>1, PTL

(* The counts of book and cancel: through any sequence of calls, lost      *)
(* answers and restarts no seat is sold twice, and none is lost unless two *)
(* bookings of one process share a millisecond.                            *)
THEOREM SeatsAddUp == Spec => []SeatsAccounted
<1>1. Init => SeatsAccounted
  <2> SUFFICES ASSUME Init, NEW f \in Fixtures PROVE available[f] + TicketsBooked(f) = Capacity[f]
    BY CapacityAssumption DEF SeatsAccounted, Init
  <2>1. SeatsBooked(f) = {}
    BY DEF Init, SeatsBooked
  <2>2. TicketsBooked(f) = 0
    BY <2>1, FS_EmptySet DEF TicketsBooked
  <2> QED BY <2>2, CapacityAssumption DEF Init
<1> QED BY <1>1, SeatsStep, Invariance, PTL DEF Spec
=============================================================================
