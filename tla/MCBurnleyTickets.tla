-------------------------- MODULE MCBurnleyTickets --------------------------
(* Two fixtures, one of them with a single ticket, and two customers that  *)
(* share the two instants of the clock.                                    *)
EXTENDS BurnleyTickets, TLC

CONSTANTS f1, f2, c1, c2

MCFixtures == {f1, f2}
MCCapacity == (f1 :> 2 @@ f2 :> 1)
MCCustomers == {c1, c2}
MCSymmetry == Permutations(MCCustomers)
=============================================================================
