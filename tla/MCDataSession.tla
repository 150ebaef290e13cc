--------------------------- MODULE MCDataSession ---------------------------
(***************************************************************************)
(* Two texts and the empty one, the first link and one reconnection.       *)
(***************************************************************************)
EXTENDS DataSession, TLC

CONSTANTS m1, m2, l1, l2

SameTexts == Permutations({m1, m2})
=============================================================================
