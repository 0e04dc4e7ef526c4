------------------------------- MODULE BankCrm -------------------------------
(***************************************************************************)
(* The tools of the bank CRM MCP server that change state: payments, cards *)
(* standing instructions, contact details, and the three registers that    *)
(* calls append to (support cases, disputes, appointments).  Everything is *)
(* kept in module-level arrays of one process and is back to its literals  *)
(* after a restart.  A handler has no await, so a call is one step.        *)
(*                                                                         *)
(* Amounts and balances are doubles.  They are counted in the smallest     *)
(* step between two of them, so that their exact differences are integers; *)
(* a difference that no double holds is rounded to the nearest, as IEEE    *)
(* 754 does.                                                               *)
(*                                                                         *)
(* A record id is the register's prefix and base plus its number; the      *)
(* register and the number stand for it.  Customer ids are compared in     *)
(* lower case and stored as the caller spelled them.  The listing tools,   *)
(* and every call that is refused, change nothing; the two that list a     *)
(* register by customer are operators, the others are left out.            *)
(***************************************************************************)
EXTENDS Integers, Sequences

CONSTANTS
  Accounts,          \* the account ids of the literals
  OpeningBalance,    \* balance of each account there
  OpeningAvailable,  \* availableBalance of each account there
  Cards,             \* the card ids
  Instructions,      \* the standing orders and direct debits
  Customers,         \* the customer ids of the literals
  Given,             \* the ids callers give for a customer, the literals among them
  Lower,             \* each of them in lower case
  Transactions,      \* the transaction ids
  Fields,            \* what crm-update-details can change
  Details,           \* the values it may be given
  Doubles,           \* the doubles in the range of the accounts
  Even,              \* those whose significand is even
  HalfGap,           \* half the largest gap between two neighbours among them
  Lowest,            \* bound: the lowest balance
  MaxRoundings,      \* bound: rounded differences of an account
  MaxRecords,        \* bound: records in a register
  MaxBoots           \* bound: restarts of the process

Abs(z) == IF z < 0 THEN -z ELSE z

(* The doubles closest to a number; the one with the even significand is   *)
(* taken when there are two.                                               *)
Nearest(z) == {d \in Doubles : \A e \in Doubles : Abs(d - z) <= Abs(e - z)}
BreaksTie(d, z) == \A e \in Nearest(z) : e = d \/ (d \in Even /\ e \notin Even)
Differences == {d - e : d, e \in Doubles}
Round == [z \in Differences |-> CHOOSE d \in Nearest(z) : BreaksTie(d, z)]

ASSUME DoublesAssumption ==
  /\ Doubles \subseteq Int /\ 0 \in Doubles /\ HalfGap \in Nat /\ Lowest \in Int /\ Lowest <= 0
  /\ \A d, e \in Doubles : e >= 0 /\ d - e >= Lowest =>
       \E n \in Nearest(d - e) : BreaksTie(n, d - e) /\ Abs(n - (d - e)) <= HalfGap
ASSUME OpeningAssumption ==
  /\ OpeningBalance \in [Accounts -> Doubles] /\ OpeningAvailable \in [Accounts -> Doubles]
  /\ \A a \in Accounts : OpeningBalance[a] >= Lowest /\ OpeningAvailable[a] >= 0
ASSUME CustomersAssumption == Customers # {} /\ Details # {}
ASSUME GivenAssumption == Customers \subseteq Given /\ Lower \in [Given -> Given]
ASSUME BoundsAssumption == MaxRoundings \in Nat /\ {MaxRecords, MaxBoots} \subseteq Nat \ {0}

VARIABLES
  accounts,      \* balance and availableBalance of each account
  roundings,     \* history: how many differences of each account were rounded
  cards,         \* status and contactlessEnabled of each card
  instructions,  \* status of each instruction
  contact,       \* the contact fields of each customer
  records,       \* supportCases, disputes and appointments
  receipts,      \* the records whose id the running process has told a caller
  boot           \* which process is running

memory == <<accounts, roundings, cards, instructions, contact, records>>
vars == <<memory, receipts, boot>>

Registers == {"case", "dispute", "appointment"}
Record == [number : 1..MaxRecords, customerId : Given]

(* The literals of the source.  The case and the appointment registers     *)
(* hold one record each, the disputes none.                                *)
SeedAccounts == [a \in Accounts |-> [balance |-> OpeningBalance[a], available |-> OpeningAvailable[a]]]
SeedCards == [c \in Cards |-> [status |-> "active", contactless |-> TRUE]]
SeedInstructions == [i \in Instructions |-> "active"]
SeedContact == [c \in Customers |-> [f \in Fields |-> CHOOSE d \in Details : TRUE]]
SeedRecords ==
  LET someone == CHOOSE c \in Customers : TRUE IN
    [k \in Registers |-> IF k = "dispute" THEN <<>> ELSE <<[number |-> 1, customerId |-> someone]>>]

Init ==
  /\ accounts = SeedAccounts
  /\ roundings = [a \in Accounts |-> 0]
  /\ cards = SeedCards
  /\ instructions = SeedInstructions
  /\ contact = SeedContact
  /\ records = SeedRecords
  /\ receipts = {}
  /\ boot = 1

Same(one, other) == Lower[one] = Lower[other]

(* findCustomer                                                            *)
Found(given) == {c \in Customers : Same(c, given)}

Rounded(z) == IF Round[z] = z THEN 0 ELSE 1

(* An account with these two differences as its balances, each rounded for *)
(* itself.                                                                 *)
Settle(account, balance, available) ==
  LET rounded == roundings[account] + Rounded(balance) + Rounded(available) IN
    /\ balance >= Lowest
    /\ rounded <= MaxRoundings
    /\ accounts' = [accounts EXCEPT ![account] = [balance |-> Round[balance], available |-> Round[available]]]
    /\ roundings' = [roundings EXCEPT ![account] = rounded]

(* Mutant: the available balance is not checked.                           *)
ProcessUnchecked(from, amount) ==
  /\ amount > 0
  /\ accounts[from].available - amount >= Lowest
  /\ Settle(from, accounts[from].balance - amount, accounts[from].available - amount)
  /\ UNCHANGED <<cards, instructions, contact, records, receipts, boot>>

(* Mutant: the available balance is not debited.                           *)
ProcessBalanceOnly(from, amount) ==
  /\ amount > 0
  /\ amount <= accounts[from].available
  /\ Settle(from, accounts[from].balance - amount, accounts[from].available)
  /\ UNCHANGED <<cards, instructions, contact, records, receipts, boot>>

(* crm-process: debits the source; the destination is only text.           *)
Process(from, amount) ==
  /\ amount > 0
  /\ amount <= accounts[from].available
  /\ Settle(from, accounts[from].balance - amount, accounts[from].available - amount)
  /\ UNCHANGED <<cards, instructions, contact, records, receipts, boot>>

(* crm-card-manage, by its action argument.                                *)
CardManage(card, action) ==
  /\ cards' = [cards EXCEPT ![card] =
       CASE action = "freeze" -> [@ EXCEPT !.status = "frozen"]
         [] action = "unfreeze" -> [@ EXCEPT !.status = "active"]
         [] action = "report-lost" -> [@ EXCEPT !.status = "blocked"]
         [] action = "contactless-on" -> [@ EXCEPT !.contactless = TRUE]
         [] action = "contactless-off" -> [@ EXCEPT !.contactless = FALSE]]
  /\ UNCHANGED <<accounts, roundings, instructions, contact, records, receipts, boot>>

(* crm-cancel-regular-payment.                                             *)
CancelRegularPayment(i) ==
  /\ instructions' = [instructions EXCEPT ![i] = "cancelled"]
  /\ UNCHANGED <<accounts, roundings, cards, contact, records, receipts, boot>>

(* crm-update-details: each field that is given replaces the old value.    *)
UpdateDetails(given, changes) ==
  /\ \E c \in Found(given) :
       contact' = [contact EXCEPT ![c] = [f \in Fields |-> IF f \in DOMAIN changes THEN changes[f] ELSE @[f]]]
  /\ UNCHANGED <<accounts, roundings, cards, instructions, records, receipts, boot>>

(* The number of a new record is the length of its array plus one.         *)
NextNumber(register) == Len(records[register]) + 1

Raise(register, given) ==
  /\ Len(records[register]) < MaxRecords
  /\ LET entry == [number |-> NextNumber(register), customerId |-> given] IN
       /\ records' = [records EXCEPT ![register] = Append(@, entry)]
       /\ receipts' = receipts \cup {[register |-> register, record |-> entry]}
  /\ UNCHANGED <<accounts, roundings, cards, instructions, contact, boot>>

(* crm-raise-support-case and crm-book-appointment look the customer up;   *)
(* crm-raise-transaction-dispute looks the transaction up, and takes any   *)
(* customer id.                                                            *)
RaiseSupportCase(given) == Found(given) # {} /\ Raise("case", given)
BookAppointment(given) == Found(given) # {} /\ Raise("appointment", given)
RaiseDispute(given, transactionId) == transactionId \in Transactions /\ Raise("dispute", given)

(* Mutant: the stored id is compared as it was spelled.                    *)
ListedAsSpelled(register, given) ==
  {n \in DOMAIN records[register] : records[register][n].customerId = given}

(* The listing tools filter a register by the customer id; a list is given *)
(* by the places of the register that it shows, in their order.            *)
Listed(register, given) ==
  {n \in DOMAIN records[register] : Same(records[register][n].customerId, given)}
ListSupportCases(given) == Listed("case", given)
ListAppointments(given) == Listed("appointment", given)

(* What was told before a restart names nothing of the new process.        *)
Restart ==
  /\ boot < MaxBoots
  /\ boot' = boot + 1
  /\ accounts' = SeedAccounts
  /\ roundings' = [a \in Accounts |-> 0]
  /\ cards' = SeedCards
  /\ instructions' = SeedInstructions
  /\ contact' = SeedContact
  /\ records' = SeedRecords
  /\ receipts' = {}

CardActions == {"freeze", "unfreeze", "report-lost", "contactless-on", "contactless-off"}

Next ==
  \/ \E from \in Accounts, amount \in Doubles : Process(from, amount)
  \/ \E card \in Cards, action \in CardActions : CardManage(card, action)
  \/ \E i \in Instructions : CancelRegularPayment(i)
  \/ \E given \in Given :
       \/ \E fields \in SUBSET Fields : \E changes \in [fields -> Details] : UpdateDetails(given, changes)
       \/ RaiseSupportCase(given)
       \/ BookAppointment(given)
       \/ \E transactionId \in Transactions : RaiseDispute(given, transactionId)
  \/ Restart

Spec == Init /\ [][Next]_vars

-----------------------------------------------------------------------------
(* The type invariant; the available balance is never negative.            *)
TypeOK ==
  /\ accounts \in [Accounts -> [balance : Doubles, available : {d \in Doubles : d >= 0}]]
  /\ roundings \in [Accounts -> 0..MaxRoundings]
  /\ cards \in [Cards -> [status : {"active", "frozen", "blocked"}, contactless : BOOLEAN]]
  /\ instructions \in [Instructions -> {"active", "cancelled"}]
  /\ contact \in [Customers -> [Fields -> Details]]
  /\ DOMAIN records = Registers
  /\ \A k \in Registers : records[k] \in Seq(Record)
  /\ receipts \subseteq [register : Registers, record : Record]
  /\ boot \in 1..MaxBoots

(* The balance and the available balance are debited separately and only   *)
(* the second is checked.  However many payments are made or repeated, an  *)
(* account is drawn beyond the overdraft or credit limit it opened with    *)
(* by no more than the roundings account for, half a gap for each: not at  *)
(* all while every difference is a double.                                 *)
LimitRespected ==
  \A a \in Accounts :
    accounts[a].balance >= OpeningBalance[a] - OpeningAvailable[a] - HalfGap * roundings[a]

(* The places among these that hold a record of the receipt's number.      *)
Numbered(places, receipt) ==
  {n \in places : records[receipt.register][n].number = receipt.record.number}

NamesItAt(places, receipt) ==
  \E n \in DOMAIN records[receipt.register] :
    Numbered(places, receipt) = {n} /\ records[receipt.register][n] = receipt.record

(* The id a caller was told names one record of its register, and it is    *)
(* the caller's own, as long as the process that told it is running: ids   *)
(* made from the length of the array are never given out twice.            *)
ReceiptNamesOneRecord ==
  \A receipt \in receipts : NamesItAt(DOMAIN records[receipt.register], receipt)

(* A case or an appointment whose id was told is listed for its customer,  *)
(* exactly once and however the two calls spelled the customer's id, and   *)
(* is listed for no other customer.                                        *)
ToldRecordsAreListed ==
  \A receipt \in receipts, given \in Given :
    LET due(list) == IF Same(receipt.record.customerId, given)
                     THEN NamesItAt(list, receipt) ELSE Numbered(list, receipt) = {} IN
      /\ receipt.register = "case" => due(ListSupportCases(given))
      /\ receipt.register = "appointment" => due(ListAppointments(given))

(* What a caller was told of a record stays true of the register and of    *)
(* the lists made from it.                                                 *)
ToldRecordsHold == ReceiptNamesOneRecord /\ ToldRecordsAreListed

(* "reporting lost is irreversible" (CrmMcpTools.ts:655-656) and a lost    *)
(* card is "permanently blocked" (CrmMcpTools.ts:684): within one process  *)
(* a blocked card stays blocked, whatever is called on it afterwards.      *)
LostCardStaysBlocked ==
  [][boot' = boot =>
       \A c \in Cards : cards[c].status = "blocked" => cards'[c].status = "blocked"]_vars
=============================================================================
