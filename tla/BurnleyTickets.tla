--------------------------- MODULE BurnleyTickets ---------------------------
(***************************************************************************)
(* The fixture-list tool of the Burnley MCP server: fixtures with a count  *)
(* of available tickets, and the bookings made against them, both kept in  *)
(* the memory of one process.  A handler runs without an await, so each    *)
(* call is one step; what is concurrent is the world around it: callers    *)
(* retry a call whose answer was lost, two calls may be handled in the     *)
(* same millisecond, and a restart puts the fixtures and bookings back to  *)
(* their literals.                                                         *)
(*                                                                         *)
(* A booking id is the clock, `BKG-${Date.now().toString(36)}', so an id   *)
(* is the instant it was made at.  A call that the tool refuses, and its   *)
(* list action, change nothing and are stuttering steps.                   *)
(***************************************************************************)
EXTENDS Naturals, FiniteSets

CONSTANTS
  Fixtures,     \* the fixture ids of the list
  Capacity,     \* ticketsAvailable of each fixture in the source
  Customers,    \* the customer names callers book for
  MaxQuantity,  \* bound: tickets asked for in one call
  MaxClock,     \* bound: milliseconds the clock runs for
  None          \* no booking

ASSUME CapacityAssumption == Capacity \in [Fixtures -> Nat]
ASSUME BoundsAssumption == MaxQuantity \in Nat /\ MaxClock \in Nat

VARIABLES
  available,   \* ticketsAvailable of each fixture
  bookings,    \* ticketBookings, by the instant in the id
  clock,       \* Date.now()
  bootedAt,    \* the first instant of the running process
  issued,      \* how many bookings of this process were given an id, up to 2
  receipts,    \* the confirmations callers hold: [id, booking]
  unanswered,  \* the ids of bookings whose confirmation was lost on the way
  cancelled    \* the ids that a call of cancel took out of the Map

processVars == <<available, bookings, issued>>
vars == <<processVars, clock, bootedAt, receipts, unanswered, cancelled>>

Instants == 0..MaxClock
Booking == [fixtureId : Fixtures, customerName : Customers, quantity : 1..MaxQuantity]

ASSUME NoneAssumption == None \notin Booking

Init ==
  /\ available = Capacity
  /\ bookings = [id \in Instants |-> None]
  /\ clock = 0
  /\ bootedAt = 0
  /\ issued = [id \in Instants |-> 0]
  /\ receipts = {}
  /\ unanswered = {}
  /\ cancelled = {}

(* Mutant: the number of available tickets is not checked.                 *)
BookUnchecked(b) ==
  /\ available' = [available EXCEPT ![b.fixtureId] = @ - b.quantity]
  /\ bookings' = [bookings EXCEPT ![clock] = b]
  /\ issued' = [issued EXCEPT ![clock] = IF @ = 0 THEN 1 ELSE 2]
  /\ receipts' = receipts \cup {[id |-> clock, booking |-> b]}
  /\ UNCHANGED <<clock, bootedAt, unanswered, cancelled>>

(* The book action: check, decrement, and Map.set under the id of the      *)
(* moment, which replaces a booking that already has this id.  The answer  *)
(* reaches the caller or is lost.                                          *)
Book(b) ==
  /\ b.quantity <= available[b.fixtureId]
  /\ available' = [available EXCEPT ![b.fixtureId] = @ - b.quantity]
  /\ bookings' = [bookings EXCEPT ![clock] = b]
  /\ issued' = [issued EXCEPT ![clock] = IF @ = 0 THEN 1 ELSE 2]
  /\ \/ receipts' = receipts \cup {[id |-> clock, booking |-> b]} /\ UNCHANGED unanswered
     \/ unanswered' = unanswered \cup {clock} /\ UNCHANGED receipts
  /\ UNCHANGED <<clock, bootedAt, cancelled>>

(* A caller that is told its booking is cancelled drops its receipt; one   *)
(* whose booking somebody else cancels, or whose answer is lost, keeps it. *)
Answered(id) ==
  \/ UNCHANGED receipts
  \/ \E receipt \in receipts : receipt.id = id /\ receipts' = receipts \ {receipt}

(* Mutant: the tickets of a cancelled booking are not given back.          *)
CancelWithoutRestore(id) ==
  /\ bookings' = [bookings EXCEPT ![id] = None]
  /\ cancelled' = IF bookings[id] = None THEN cancelled ELSE cancelled \cup {id}
  /\ Answered(id)
  /\ UNCHANGED <<available, issued, clock, bootedAt, unanswered>>

(* Mutant: the booking is looked up by the name of its customer.           *)
CancelByName(id) ==
  /\ bookings[id] # None
  /\ \E other \in Instants :
       /\ bookings[other] # None
       /\ bookings[other].customerName = bookings[id].customerName
       /\ available' = [available EXCEPT ![bookings[other].fixtureId] = @ + bookings[other].quantity]
       /\ bookings' = [bookings EXCEPT ![other] = None]
  /\ cancelled' = cancelled \cup {id}
  /\ Answered(id)
  /\ UNCHANGED <<issued, clock, bootedAt, unanswered>>

(* The cancel action, for any id and any caller: whatever booking is under *)
(* the id is given back and deleted; with none there it answers "No        *)
(* booking found".                                                         *)
Cancel(id) ==
  /\ IF bookings[id] = None
       THEN UNCHANGED <<processVars, cancelled>>
       ELSE /\ available' = [available EXCEPT ![bookings[id].fixtureId] = @ + bookings[id].quantity]
            /\ bookings' = [bookings EXCEPT ![id] = None]
            /\ cancelled' = cancelled \cup {id}
            /\ UNCHANGED issued
  /\ Answered(id)
  /\ UNCHANGED <<clock, bootedAt, unanswered>>

Tick ==
  /\ clock < MaxClock
  /\ clock' = clock + 1
  /\ UNCHANGED <<processVars, bootedAt, receipts, unanswered, cancelled>>

(* The process restarts, later than the last instant: module state is what *)
(* the source says again, while callers still hold their receipts.         *)
Restart ==
  /\ clock < MaxClock
  /\ clock' = clock + 1
  /\ bootedAt' = clock + 1
  /\ available' = Capacity
  /\ bookings' = [id \in Instants |-> None]
  /\ issued' = [id \in Instants |-> 0]
  /\ UNCHANGED <<receipts, unanswered, cancelled>>

Next ==
  \/ \E b \in Booking : Book(b)
  \/ \E id \in Instants : Cancel(id)
  \/ Tick
  \/ Restart

Spec == Init /\ [][Next]_vars

-----------------------------------------------------------------------------
Receipt == [id : Instants, booking : Booking]

(* The type invariant; ticketsAvailable is never negative.                 *)
TypeOK ==
  /\ available \in [Fixtures -> Nat]
  /\ bookings \in [Instants -> Booking \cup {None}]
  /\ clock \in Instants
  /\ bootedAt \in 0..clock
  /\ issued \in [Instants -> 0..2]
  /\ receipts \subseteq Receipt
  /\ unanswered \subseteq Instants /\ cancelled \subseteq Instants

(* The seats of a fixture that a booking holds, each named by its booking  *)
(* and its number there: as many as the quantities add up to.              *)
SeatsBooked(f) ==
  {seat \in Instants \X (1..MaxQuantity) :
     /\ bookings[seat[1]] # None
     /\ bookings[seat[1]].fixtureId = f
     /\ seat[2] <= bookings[seat[1]].quantity}

TicketsBooked(f) == Cardinality(SeatsBooked(f))

(* No seat is sold twice, and none gets lost: what is available and what   *)
(* is booked add up to the fixture's tickets through any sequence of       *)
(* bookings, cancellations, repeated calls and restarts.  Only two         *)
(* bookings of the same millisecond can lose seats: the first one is       *)
(* overwritten and can no longer be given back.                            *)
SeatsAccounted ==
  \A f \in Fixtures :
    /\ available[f] + TicketsBooked(f) <= Capacity[f]
    /\ (\A id \in Instants : issued[id] < 2) => available[f] + TicketsBooked(f) = Capacity[f]

(* A caller that was told a booking id finds its own booking under it,     *)
(* with the quantity it was told, until somebody cancels that very id      *)
(* (cancel asks for no more than the id), the process is restarted or the  *)
(* id is given out twice in the same millisecond: no booking, and no       *)
(* cancellation of another id, touches it.                                 *)
ReceiptsHonoured ==
  \A receipt \in receipts :
    (receipt.id >= bootedAt /\ issued[receipt.id] = 1 /\ receipt.id \notin cancelled) =>
      bookings[receipt.id] = receipt.booking

(* Seats are held by a booking nobody can cancel only after a lost answer  *)
(* or a second booking in the same millisecond: in every other case some   *)
(* caller knows the id.                                                    *)
NoOrphanBooking ==
  \A id \in Instants :
    (bookings[id] # None /\ issued[id] = 1 /\ id \notin unanswered) =>
      [id |-> id, booking |-> bookings[id]] \in receipts

(* Callers and the process agree on the bookings, both ways.               *)
BookingsAreKnown == ReceiptsHonoured /\ NoOrphanBooking
=============================================================================
