---------------------------- MODULE MCWindowCycle ----------------------------
(* Up to four windows on two displays; windows are interchangeable.        *)
EXTENDS WindowCycle

CONSTANTS a, b, w1, w2, w3, w4

MCDisplays == {a, b}

MCWindows == {w1, w2, w3, w4}

MCSymmetry == Permutations(MCWindows)
=============================================================================
