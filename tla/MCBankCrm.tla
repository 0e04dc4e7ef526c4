------------------------------ MODULE MCBankCrm ------------------------------
(* A current account with an overdraft, whose available balance is of a    *)
(* larger scale than its balance, and a credit card drawn to its limit;    *)
(* two customers, one of them spelled in two ways, and a caller who gives  *)
(* the id of no customer.  The significand of a double has two bits: the   *)
(* gap is 1 up to 4 and 2 up to 8.                                         *)
EXTENDS BankCrm, TLC

CONSTANTS current, credit, card, order, ann, shoutedAnn, bob, nobody, txn, email, oldMail, newMail

MCAccounts == {current, credit}
MCOpeningBalance == (current :> 1 @@ credit :> -1)
MCOpeningAvailable == (current :> 8 @@ credit :> 0)
MCDoubles == {-8, -6, -4, -3, -2, -1, 0, 1, 2, 3, 4, 6, 8}
MCEven == {-8, -4, -2, 0, 2, 4, 8}
MCLowest == -8
MCCards == {card}
MCInstructions == {order}
MCCustomers == {ann, bob}
MCGiven == {ann, shoutedAnn, bob, nobody}
MCLower == (ann :> ann @@ shoutedAnn :> ann @@ bob :> bob @@ nobody :> nobody)
MCTransactions == {txn}
MCFields == {email}
MCDetails == {oldMail, newMail}
=============================================================================
