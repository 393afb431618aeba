------------------------- MODULE MCAccountSessions -------------------------
(* A small instance of AccountSessions for TLC.                              *)
EXTENDS AccountSessions, TLC

CONSTANTS c1, c2

TwoCalls == {c1, c2}
CallSymmetry == Permutations(TwoCalls)
=============================================================================
