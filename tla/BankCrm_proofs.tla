---------------------------- MODULE BankCrm_proofs ----------------------------
(***************************************************************************)
(* Proofs about BankCrm for any accounts, cards, customers and bounds:     *)
(* type correctness, which includes that no available balance becomes      *)
(* negative, that no account is drawn further beyond its limit than the    *)
(* roundings account for, and that what was told of a record holds.        *)
(*                                                                         *)
(* LimitRespected is not inductive: a payment checks the available balance *)
(* and not the balance.  It follows from TypeOK and from what every        *)
(* payment keeps, a bound on how far the two drift apart (Headroom).  That *)
(* rests on what is known of a rounded difference (RoundFacts).  What was  *)
(* told holds because a record's number is its place in the register, and  *)
(* every receipt is of the record at its number (RecordsInPlace).          *)
(***************************************************************************)
EXTENDS BankCrm, TLAPS

Headroom ==
  \A a \in Accounts :
    accounts[a].balance - accounts[a].available >= OpeningBalance[a] - OpeningAvailable[a] - HalfGap * roundings[a]

Balances == [balance : Doubles, available : {d \in Doubles : d >= 0}]

IInv == TypeOK /\ Headroom

-----------------------------------------------------------------------------
(* The literals, which also a restart puts back, are well typed.           *)
LEMMA SeedTypes ==
  /\ SeedAccounts \in [Accounts -> Balances]
  /\ SeedCards \in [Cards -> [status : {"active", "frozen", "blocked"}, contactless : BOOLEAN]]
  /\ SeedInstructions \in [Instructions -> {"active", "cancelled"}]
  /\ SeedContact \in [Customers -> [Fields -> Details]]
  /\ DOMAIN SeedRecords = Registers
  /\ \A k \in Registers : SeedRecords[k] \in Seq(Record)
<1>1. SeedAccounts \in [Accounts -> Balances]
  BY OpeningAssumption DEF SeedAccounts, Balances
<1>2. SeedCards \in [Cards -> [status : {"active", "frozen", "blocked"}, contactless : BOOLEAN]]
  BY DEF SeedCards
<1>3. SeedInstructions \in [Instructions -> {"active", "cancelled"}]
  BY DEF SeedInstructions
<1>4. SeedContact \in [Customers -> [Fields -> Details]]
  BY CustomersAssumption DEF SeedContact
<1>5. (CHOOSE c \in Customers : TRUE) \in Given
  BY CustomersAssumption, GivenAssumption
<1>6. [number |-> 1, customerId |-> CHOOSE c \in Customers : TRUE] \in Record
  BY <1>5, BoundsAssumption DEF Record
<1>7. DOMAIN SeedRecords = Registers
  BY DEF SeedRecords
<1>8. ASSUME NEW k \in Registers PROVE SeedRecords[k] \in Seq(Record)
  BY <1>6 DEF SeedRecords
<1> QED BY <1>1, <1>2, <1>3, <1>4, <1>7, <1>8

(* A difference is rounded to a double at most half a gap away, to itself  *)
(* when it is one, and never across zero.                                  *)
LEMMA RoundFacts ==
  ASSUME NEW d \in Doubles, NEW e \in Doubles, e >= 0, d - e >= Lowest
  PROVE  /\ Round[d - e] \in Doubles
         /\ Rounded(d - e) \in {0, 1}
         /\ Round[d - e] <= d - e + HalfGap * Rounded(d - e)
         /\ Round[d - e] >= d - e - HalfGap * Rounded(d - e)
         /\ d - e >= 0 => Round[d - e] >= 0
<1> DEFINE z == d - e
           n == Round[z]
<1>1. d \in Int /\ e \in Int /\ Doubles \subseteq Int /\ 0 \in Doubles /\ HalfGap \in Nat
  BY DoublesAssumption
<1>2. z \in Int /\ z \in Differences
  BY <1>1 DEF Differences
<1>3. PICK m \in Nearest(z) : BreaksTie(m, z) /\ Abs(m - z) <= HalfGap
  BY DoublesAssumption
<1>4. n = CHOOSE k \in Nearest(z) : BreaksTie(k, z)
  BY <1>2 DEF Round
<1> HIDE DEF n
<1>5. n \in Nearest(z) /\ BreaksTie(n, z)
  BY <1>3, <1>4
<1> HIDE DEF z
<1>6. n \in Doubles /\ n \in Int /\ m \in Int /\ \A k \in Doubles : Abs(n - z) <= Abs(k - z)
  BY <1>1, <1>3, <1>5 DEF Nearest
<1>7. Abs(n - z) <= HalfGap
  <2>1. m \in Doubles
    BY <1>3 DEF Nearest
  <2>2. Abs(n - z) <= Abs(m - z)
    BY <1>6, <2>1
  <2> QED BY <1>1, <1>2, <1>3, <1>6, <2>2 DEF Abs
<1>8. n <= z + HalfGap /\ n >= z - HalfGap
  BY <1>1, <1>2, <1>6, <1>7 DEF Abs
<1>9. z >= 0 => n >= 0
  <2>1. Abs(n - z) <= Abs(0 - z)
    BY <1>1, <1>6
  <2> QED BY <1>2, <1>6, <2>1 DEF Abs
<1>10. CASE n = z
  <2>1. Rounded(z) = 0
    BY <1>10 DEF Rounded, n
  <2>2. HalfGap * Rounded(z) = 0
    BY <1>1, <2>1
  <2> QED BY <1>2, <1>6, <1>9, <1>10, <2>1, <2>2 DEF n, z
<1>11. CASE n # z
  <2>1. Rounded(z) = 1
    BY <1>11 DEF Rounded, n
  <2>2. HalfGap * Rounded(z) = HalfGap
    BY <1>1, <2>1
  <2> QED BY <1>6, <1>8, <1>9, <2>1, <2>2 DEF n, z
<1> QED BY <1>10, <1>11

(* A register that has room stays a sequence of records.                   *)
LEMMA RaiseTypes ==
  ASSUME TypeOK, NEW register \in Registers, NEW given \in Given, Raise(register, given)
  PROVE  TypeOK'
<1> DEFINE entry == [number |-> NextNumber(register), customerId |-> given]
<1>1. records[register] \in Seq(Record) /\ Len(records[register]) < MaxRecords
  BY DEF TypeOK, Raise
<1>2. entry \in Record
  BY <1>1, BoundsAssumption DEF NextNumber, Record
<1>3. records' = [records EXCEPT ![register] = Append(@, entry)]
  BY DEF Raise
<1>4. Append(records[register], entry) \in Seq(Record)
  BY <1>1, <1>2
<1>5. DOMAIN records' = Registers /\ \A k \in Registers : records'[k] \in Seq(Record)
  BY <1>3, <1>4 DEF TypeOK
<1>6. receipts' \subseteq [register : Registers, record : Record]
  BY <1>2 DEF TypeOK, Raise
<1> QED BY <1>5, <1>6 DEF TypeOK, Raise

(* A payment: both balances stay doubles, the available one not negative,  *)
(* and the distance shrinks by half a gap for each difference rounded.     *)
LEMMA PaymentFacts ==
  ASSUME TypeOK, NEW from \in Accounts, NEW amount \in Doubles, Process(from, amount)
  PROVE  \E settled \in Balances, n \in 0..MaxRoundings :
           /\ accounts' = [accounts EXCEPT ![from] = settled]
           /\ roundings' = [roundings EXCEPT ![from] = n]
           /\ settled.balance - settled.available
                >= accounts[from].balance - accounts[from].available - HalfGap * (n - roundings[from])
<1> DEFINE b == accounts[from].balance
           a == accounts[from].available
           r == roundings[from]
           n == r + Rounded(b - amount) + Rounded(a - amount)
           settled == [balance |-> Round[b - amount], available |-> Round[a - amount]]
<1>1. /\ b \in Doubles /\ a \in Doubles /\ r \in 0..MaxRoundings
      /\ amount > 0 /\ amount <= a /\ b - amount >= Lowest /\ n <= MaxRoundings
      /\ accounts' = [accounts EXCEPT ![from] = settled] /\ roundings' = [roundings EXCEPT ![from] = n]
  BY DEF TypeOK, Process, Settle
<1>2. Doubles \subseteq Int /\ HalfGap \in Nat /\ Lowest \in Int /\ Lowest <= 0 /\ MaxRoundings \in Nat
  BY DoublesAssumption, BoundsAssumption
<1> HIDE DEF b, a, r
<1>3. a - amount >= 0 /\ a - amount >= Lowest /\ amount >= 0
  BY <1>1, <1>2
<1>4. /\ Round[b - amount] \in Doubles /\ Rounded(b - amount) \in {0, 1}
      /\ Round[b - amount] >= b - amount - HalfGap * Rounded(b - amount)
  BY <1>1, <1>3, RoundFacts
<1>5. /\ Round[a - amount] \in Doubles /\ Rounded(a - amount) \in {0, 1} /\ Round[a - amount] >= 0
      /\ Round[a - amount] <= a - amount + HalfGap * Rounded(a - amount)
  BY <1>1, <1>3, RoundFacts
<1>6. settled \in Balances
  BY <1>4, <1>5 DEF Balances
<1>7. n \in 0..MaxRoundings
  BY <1>1, <1>2, <1>4, <1>5
<1>8. settled.balance - settled.available >= b - a - HalfGap * (n - r)
  <2> DEFINE x == Rounded(b - amount)
             y == Rounded(a - amount)
             nb == Round[b - amount]
             na == Round[a - amount]
  <2>1. x \in {0, 1} /\ y \in {0, 1} /\ nb >= b - amount - HalfGap * x /\ na <= a - amount + HalfGap * y
    BY <1>4, <1>5
  <2>2. n = r + x + y /\ settled.balance = nb /\ settled.available = na
    OBVIOUS
  <2>3. nb \in Doubles /\ na \in Doubles
    BY <1>4, <1>5
  <2> HIDE DEF x, y, nb, na, n, settled
  <2>4. /\ b \in Int /\ a \in Int /\ amount \in Int /\ r \in Int /\ HalfGap \in Int
        /\ nb \in Int /\ na \in Int /\ x \in Int /\ y \in Int
    <3>1. b \in Int /\ a \in Int /\ amount \in Int /\ nb \in Int /\ na \in Int
      BY <1>1, <1>2, <2>3
    <3>2. r \in Int /\ HalfGap \in Int
      BY <1>1, <1>2
    <3> QED BY <2>1, <3>1, <3>2
  <2>5. n - r = x + y
    BY <2>4, <2>2
  <2>6. HalfGap * (x + y) = HalfGap * x + HalfGap * y
    BY <2>4
  <2>7. HalfGap * x \in Int /\ HalfGap * y \in Int
    BY <2>4
  <2> QED BY <2>1, <2>2, <2>4, <2>5, <2>6, <2>7
<1> QED BY <1>1, <1>6, <1>7, <1>8 DEF b, a, r

LEMMA TypeStep == TypeOK /\ [Next]_vars => TypeOK'
<1> SUFFICES ASSUME TypeOK, [Next]_vars PROVE TypeOK'
  OBVIOUS
<1>1. ASSUME NEW from \in Accounts, NEW amount \in Doubles, Process(from, amount) PROVE TypeOK'
  <2>1. PICK settled \in Balances : accounts' = [accounts EXCEPT ![from] = settled]
    BY <1>1, PaymentFacts
  <2>2. accounts' \in [Accounts -> Balances]
    BY <2>1 DEF TypeOK, Balances
  <2>3. roundings' \in [Accounts -> 0..MaxRoundings]
    <3>1. PICK n \in 0..MaxRoundings : roundings' = [roundings EXCEPT ![from] = n]
      BY <1>1, PaymentFacts
    <3> QED BY <3>1 DEF TypeOK
  <2> QED BY <1>1, <2>2, <2>3 DEF TypeOK, Process, Balances
<1>2. ASSUME NEW card \in Cards, NEW action \in CardActions, CardManage(card, action) PROVE TypeOK'
  <2>1. cards[card].status \in {"active", "frozen", "blocked"} /\ cards[card].contactless \in BOOLEAN
    BY DEF TypeOK
  <2>2. cards' \in [Cards -> [status : {"active", "frozen", "blocked"}, contactless : BOOLEAN]]
    <3>1. CASE action = "freeze" BY <1>2, <3>1 DEF TypeOK, CardManage
    <3>2. CASE action = "unfreeze" BY <1>2, <3>2 DEF TypeOK, CardManage
    <3>3. CASE action = "report-lost" BY <1>2, <3>3 DEF TypeOK, CardManage
    <3>4. CASE action = "contactless-on" BY <1>2, <3>4 DEF TypeOK, CardManage
    <3>5. CASE action = "contactless-off" BY <1>2, <3>5 DEF TypeOK, CardManage
    <3> QED BY <3>1, <3>2, <3>3, <3>4, <3>5 DEF CardActions
  <2> QED BY <1>2, <2>2 DEF TypeOK, CardManage
<1>3. ASSUME NEW i \in Instructions, CancelRegularPayment(i) PROVE TypeOK'
  BY <1>3 DEF TypeOK, CancelRegularPayment
<1>4. ASSUME NEW given \in Given, NEW fields \in SUBSET Fields, NEW changes \in [fields -> Details],
             UpdateDetails(given, changes)
      PROVE  TypeOK'
  <2>1. PICK c \in Customers :
          contact' = [contact EXCEPT ![c] = [f \in Fields |-> IF f \in DOMAIN changes THEN changes[f] ELSE @[f]]]
    BY <1>4 DEF UpdateDetails, Found
  <2>2. contact' \in [Customers -> [Fields -> Details]]
    BY <2>1 DEF TypeOK
  <2> QED BY <1>4, <2>2 DEF TypeOK, UpdateDetails
<1>5. ASSUME NEW given \in Given,
             RaiseSupportCase(given) \/ BookAppointment(given) \/ \E t \in Transactions : RaiseDispute(given, t)
      PROVE  TypeOK'
  BY <1>5, RaiseTypes DEF RaiseSupportCase, BookAppointment, RaiseDispute, Registers
<1>6. CASE Restart
  BY <1>6, SeedTypes, BoundsAssumption DEF TypeOK, Restart, Balances
<1>7. CASE UNCHANGED vars
  BY <1>7 DEF TypeOK, vars, memory
<1> QED BY <1>1, <1>2, <1>3, <1>4, <1>5, <1>6, <1>7 DEF Next

(* The drift of an account, in terms that need no multiplication.          *)
LEMMA HeadroomOf ==
  ASSUME NEW n \in Nat, NEW m \in Nat
  PROVE  HalfGap * n \in Nat /\ HalfGap * m = HalfGap * n + HalfGap * (m - n)
<1>1. HalfGap \in Nat
  BY DoublesAssumption
<1> QED BY <1>1

(* The literals have the distance they have.                               *)
LEMMA HeadroomAtFirst ==
  \A a \in Accounts :
    SeedAccounts[a].balance - SeedAccounts[a].available
      >= OpeningBalance[a] - OpeningAvailable[a] - HalfGap * [b \in Accounts |-> 0][a]
<1> TAKE a \in Accounts
<1>1. OpeningBalance[a] \in Int /\ OpeningAvailable[a] \in Int
  BY OpeningAssumption, DoublesAssumption
<1>2. HalfGap * 0 = 0
  BY DoublesAssumption
<1>3. [b \in Accounts |-> 0][a] = 0
  OBVIOUS
<1>4. SeedAccounts[a].balance = OpeningBalance[a] /\ SeedAccounts[a].available = OpeningAvailable[a]
  BY DEF SeedAccounts
<1> QED BY <1>1, <1>2, <1>3, <1>4

(* Only a payment writes an account.                                       *)
LEMMA HeadroomStep == TypeOK /\ Headroom /\ [Next]_vars => Headroom'
<1> SUFFICES ASSUME TypeOK, Headroom, [Next]_vars PROVE Headroom'
  OBVIOUS
<1>1. ASSUME NEW from \in Accounts, NEW amount \in Doubles, Process(from, amount) PROVE Headroom'
  <2>1. PICK settled \in Balances, n \in 0..MaxRoundings :
          /\ accounts' = [accounts EXCEPT ![from] = settled]
          /\ roundings' = [roundings EXCEPT ![from] = n]
          /\ settled.balance - settled.available
               >= accounts[from].balance - accounts[from].available - HalfGap * (n - roundings[from])
    BY <1>1, PaymentFacts
  <2> SUFFICES ASSUME NEW a \in Accounts
               PROVE  accounts'[a].balance - accounts'[a].available
                        >= OpeningBalance[a] - OpeningAvailable[a] - HalfGap * roundings'[a]
    BY DEF Headroom
  <2>2. accounts[a].balance - accounts[a].available >= OpeningBalance[a] - OpeningAvailable[a] - HalfGap * roundings[a]
    BY DEF Headroom
  <2>3. CASE a # from
    <3>1. accounts'[a] = accounts[a] /\ roundings'[a] = roundings[a]
      BY <2>1, <2>3 DEF TypeOK
    <3> QED BY <2>2, <3>1
  <2>4. CASE a = from
    <3> DEFINE b == accounts[a].balance
               v == accounts[a].available
               r == roundings[a]
               opening == OpeningBalance[a] - OpeningAvailable[a]
    <3>1. accounts'[a] = settled /\ roundings'[a] = n
      BY <2>1, <2>4 DEF TypeOK
    <3>2. /\ b \in Int /\ v \in Int /\ r \in Nat /\ n \in Nat /\ opening \in Int
          /\ settled.balance \in Int /\ settled.available \in Int
      <4>1. b \in Doubles /\ v \in Doubles /\ r \in 0..MaxRoundings
        BY DEF TypeOK
      <4>2. OpeningBalance[a] \in Doubles /\ OpeningAvailable[a] \in Doubles
        BY OpeningAssumption
      <4>3. settled.balance \in Doubles /\ settled.available \in Doubles
        BY DEF Balances
      <4>4. Doubles \subseteq Int /\ MaxRoundings \in Nat
        BY DoublesAssumption, BoundsAssumption
      <4> HIDE DEF b, v, r
      <4>5. r \in Nat /\ n \in Nat
        BY <4>1, <4>4
      <4>6. b \in Int /\ v \in Int /\ settled.balance \in Int /\ settled.available \in Int
        BY <4>1, <4>3, <4>4
      <4>7. opening \in Int
        <5>1. OpeningBalance[a] \in Int /\ OpeningAvailable[a] \in Int
          BY <4>2, <4>4
        <5> QED BY <5>1
      <4> QED BY <4>5, <4>6, <4>7
    <3>3. HalfGap * r \in Nat /\ HalfGap * n \in Nat /\ HalfGap * n = HalfGap * r + HalfGap * (n - r)
      BY <3>2, HeadroomOf
    <3>4. b - v >= opening - HalfGap * r
      BY <2>2
    <3>5. settled.balance - settled.available >= b - v - HalfGap * (n - r)
      BY <2>1, <2>4
    <3> HIDE DEF b, v, r, opening
    <3>6. HalfGap * (n - r) \in Int
      BY <3>2, DoublesAssumption
    <3>7. settled.balance - settled.available >= opening - HalfGap * n
      BY <3>2, <3>3, <3>4, <3>5, <3>6
    <3> QED BY <3>1, <3>7 DEF opening
  <2> QED BY <2>3, <2>4
<1>2. CASE Restart
  BY <1>2, HeadroomAtFirst DEF Restart, Headroom
<1>3. CASE UNCHANGED <<accounts, roundings>>
  BY <1>3 DEF Headroom
<1> QED BY <1>1, <1>2, <1>3 DEF Next, vars, memory, CardManage, CancelRegularPayment, UpdateDetails,
          RaiseSupportCase, BookAppointment, RaiseDispute, Raise

RecordsInPlace ==
  /\ \A k \in Registers : \A n \in DOMAIN records[k] : records[k][n].number = n
  /\ \A receipt \in receipts :
       /\ receipt.record.number \in DOMAIN records[receipt.register]
       /\ records[receipt.register][receipt.record.number] = receipt.record

(* A record is added at the end, under the number of that place, and those *)
(* that were there stay where they are.                                    *)
LEMMA RaiseInPlace ==
  ASSUME TypeOK, RecordsInPlace, NEW register \in Registers, NEW given \in Given, Raise(register, given)
  PROVE  RecordsInPlace'
<1> DEFINE entry == [number |-> NextNumber(register), customerId |-> given]
           place == Len(records[register]) + 1
<1>1. records[register] \in Seq(Record) /\ DOMAIN records = Registers /\ Len(records[register]) < MaxRecords
  BY DEF TypeOK, Raise
<1>2. entry \in Record /\ entry.number = place /\ place \in Nat /\ Len(records[register]) \in Nat
  BY <1>1, BoundsAssumption DEF NextNumber, Record
<1>3. /\ records' = [records EXCEPT ![register] = Append(@, entry)]
      /\ receipts' = receipts \cup {[register |-> register, record |-> entry]}
  BY DEF Raise
<1> HIDE DEF entry
<1>4. /\ DOMAIN records[register] = 1..Len(records[register])
      /\ DOMAIN records'[register] = 1..place
      /\ records'[register][place] = entry
      /\ \A n \in DOMAIN records[register] : n \in DOMAIN records'[register] /\ records'[register][n] = records[register][n]
  BY <1>1, <1>2, <1>3
<1>5. \A k \in Registers : k # register => records'[k] = records[k]
  BY <1>1, <1>3
<1>6. ASSUME NEW k \in Registers, NEW n \in DOMAIN records'[k] PROVE records'[k][n].number = n
  <2>1. CASE k # register
    BY <1>5, <1>6, <2>1 DEF RecordsInPlace
  <2>2. CASE k = register /\ n = place
    BY <1>2, <1>4, <2>2
  <2>3. CASE k = register /\ n \in DOMAIN records[register]
    BY <1>4, <2>3 DEF RecordsInPlace
  <2> QED BY <1>1, <1>2, <1>4, <1>6, <2>1, <2>2, <2>3
<1>7. ASSUME NEW receipt \in receipts'
      PROVE  /\ receipt.record.number \in DOMAIN records'[receipt.register]
             /\ records'[receipt.register][receipt.record.number] = receipt.record
  <2>1. CASE receipt \in receipts
    <3>1. receipt.register \in Registers
      BY <2>1 DEF TypeOK
    <3>2. /\ receipt.record.number \in DOMAIN records[receipt.register]
          /\ records[receipt.register][receipt.record.number] = receipt.record
      BY <2>1 DEF RecordsInPlace
    <3> QED BY <1>4, <1>5, <3>1, <3>2
  <2>2. CASE receipt = [register |-> register, record |-> entry]
    <3>1. place \in 1..place
      BY <1>2
    <3> QED BY <1>2, <1>4, <2>2, <3>1
  <2> QED BY <1>3, <2>1, <2>2
<1> QED BY <1>6, <1>7 DEF RecordsInPlace

LEMMA SeedInPlace == \A k \in Registers : \A n \in DOMAIN SeedRecords[k] : SeedRecords[k][n].number = n
<1> SUFFICES ASSUME NEW k \in Registers, NEW n \in DOMAIN SeedRecords[k] PROVE SeedRecords[k][n].number = n
  OBVIOUS
<1>1. CASE k = "dispute"
  BY <1>1 DEF SeedRecords
<1>2. CASE k # "dispute"
  <2> DEFINE record == [number |-> 1, customerId |-> CHOOSE c \in Customers : TRUE]
  <2>1. SeedRecords[k] = <<record>>
    BY <1>2 DEF SeedRecords
  <2>2. record.number = 1
    OBVIOUS
  <2> HIDE DEF record
  <2> QED BY <2>1, <2>2
<1> QED BY <1>1, <1>2

LEMMA InPlaceStep == TypeOK /\ RecordsInPlace /\ [Next]_vars => RecordsInPlace'
<1> SUFFICES ASSUME TypeOK, RecordsInPlace, [Next]_vars PROVE RecordsInPlace'
  OBVIOUS
<1>1. ASSUME NEW given \in Given,
             RaiseSupportCase(given) \/ BookAppointment(given) \/ \E t \in Transactions : RaiseDispute(given, t)
      PROVE  RecordsInPlace'
  BY <1>1, RaiseInPlace DEF RaiseSupportCase, BookAppointment, RaiseDispute, Registers
<1>2. CASE Restart
  BY <1>2, SeedInPlace DEF Restart, RecordsInPlace
<1>3. CASE UNCHANGED <<records, receipts>>
  BY <1>3 DEF RecordsInPlace
<1> QED BY <1>1, <1>2, <1>3
        DEF Next, vars, memory, Process, CardManage, CancelRegularPayment, UpdateDetails

LEMMA Invariance == Spec => []IInv
<1>1. Init => IInv
  BY SeedTypes, HeadroomAtFirst, BoundsAssumption DEF Init, IInv, TypeOK, Headroom, Balances
<1>2. IInv /\ [Next]_vars => IInv'
  BY TypeStep, HeadroomStep DEF IInv
<1> QED BY <1>1, <1>2, PTL DEF Spec

-----------------------------------------------------------------------------
(* The state keeps its types; crm-process lets no available balance become *)
(* negative.                                                               *)
THEOREM TypeCorrect == Spec => []TypeOK
<1>1. IInv => TypeOK BY DEF IInv
<1> QED BY Invariance, <1>1, PTL

(* crm-process: through any sequence of payments and restarts no account   *)
(* goes further below the overdraft or credit limit it opened with than    *)
(* half a gap for each difference that was rounded.                        *)
THEOREM LimitsHold == Spec => []LimitRespected
<1>1. IInv => LimitRespected
  <2> SUFFICES ASSUME IInv, NEW a \in Accounts
               PROVE  accounts[a].balance >= OpeningBalance[a] - OpeningAvailable[a] - HalfGap * roundings[a]
    BY DEF LimitRespected
  <2>1. accounts[a].balance \in Int /\ accounts[a].available \in Int /\ accounts[a].available >= 0
    BY DoublesAssumption DEF IInv, TypeOK
  <2>2. accounts[a].balance - accounts[a].available >= OpeningBalance[a] - OpeningAvailable[a] - HalfGap * roundings[a]
    BY DEF IInv, Headroom
  <2>3. OpeningBalance[a] \in Int /\ OpeningAvailable[a] \in Int
    BY OpeningAssumption, DoublesAssumption
  <2>4. HalfGap * roundings[a] \in Int
    <3>1. roundings[a] \in Int /\ HalfGap \in Int
      BY DoublesAssumption, BoundsAssumption DEF IInv, TypeOK
    <3> QED BY <3>1
  <2> QED BY <2>1, <2>2, <2>3, <2>4
<1> QED BY Invariance, <1>1, PTL

(* The numbers of support cases, disputes and appointments: an id that was *)
(* told names the caller's record and no other, and the lists show it      *)
(* once, to its customer, however the id of the customer is spelled.       *)
THEOREM WhatWasToldHolds == Spec => []ToldRecordsHold
<1>1. Init => RecordsInPlace
  BY SeedInPlace DEF Init, RecordsInPlace
<1>2. ASSUME TypeOK, RecordsInPlace PROVE ToldRecordsHold
  <2>1. ASSUME NEW receipt \in receipts, NEW places \in SUBSET DOMAIN records[receipt.register]
        PROVE  IF receipt.record.number \in places
               THEN NamesItAt(places, receipt) ELSE Numbered(places, receipt) = {}
    <3>1. /\ receipt.register \in Registers
          /\ receipt.record.number \in DOMAIN records[receipt.register]
          /\ records[receipt.register][receipt.record.number] = receipt.record
          /\ \A n \in places : records[receipt.register][n].number = n
      BY <1>2 DEF RecordsInPlace, TypeOK
    <3>2. Numbered(places, receipt) = {n \in places : n = receipt.record.number}
      BY <3>1 DEF Numbered
    <3> QED BY <3>1, <3>2 DEF NamesItAt
  <2>2. ReceiptNamesOneRecord
    BY <1>2, <2>1 DEF ReceiptNamesOneRecord, RecordsInPlace
  <2>3. ASSUME NEW receipt \in receipts, NEW given \in Given
        PROVE  IF Same(receipt.record.customerId, given)
               THEN NamesItAt(Listed(receipt.register, given), receipt)
               ELSE Numbered(Listed(receipt.register, given), receipt) = {}
    <3>1. /\ receipt.record.number \in DOMAIN records[receipt.register]
          /\ records[receipt.register][receipt.record.number] = receipt.record
      BY <1>2 DEF RecordsInPlace
    <3>2. receipt.record.number \in Listed(receipt.register, given) <=> Same(receipt.record.customerId, given)
      BY <3>1 DEF Listed
    <3>3. Listed(receipt.register, given) \in SUBSET DOMAIN records[receipt.register]
      BY DEF Listed
    <3> QED BY <2>1, <3>2, <3>3
  <2>4. ToldRecordsAreListed
    BY <2>3 DEF ToldRecordsAreListed, ListSupportCases, ListAppointments
  <2> QED BY <2>2, <2>4 DEF ToldRecordsHold
<1>3. IInv => TypeOK
  BY DEF IInv
<1> QED BY <1>1, <1>2, <1>3, InPlaceStep, Invariance, PTL DEF Spec
=============================================================================
