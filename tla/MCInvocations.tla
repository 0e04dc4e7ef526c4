---------------------------- MODULE MCInvocations ----------------------------
(* Two invocations on one session.                                         *)
EXTENDS Invocations, TLC

CONSTANTS i1, i2

MCInvocationSet == {i1, i2}
MCSymmetry == Permutations(MCInvocationSet)
=============================================================================
