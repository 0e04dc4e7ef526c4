--------------------------- MODULE MCWorldcupFans ---------------------------
(* Two fans of different diets and confederations; the least and the most  *)
(* packs an album can start with.                                          *)
EXTENDS WorldcupFans, TLC

CONSTANTS ann, bob, vegan, halal, UEFA, CAF

MCFans == {ann, bob}
MCPackCounts == {1, 50}
MCPoints == {1}
MCDietOf == (ann :> vegan @@ bob :> halal)
MCConfOf == (ann :> UEFA @@ bob :> CAF)
=============================================================================
