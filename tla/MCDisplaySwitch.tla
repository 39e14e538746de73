--------------------------- MODULE MCDisplaySwitch ---------------------------
(* Four displays, two of them always there; a hotkey of each kind.         *)
EXTENDS DisplaySwitch

CONSTANTS a, b, c, d

MCDisplays == {a, b, c, d}

MCArrangements == {<<a, b, c, d>>, <<a, c>>}

MCRequests ==
  {[action |-> "right", index |-> 0, wrap |-> TRUE],
   [action |-> "left",  index |-> 0, wrap |-> FALSE],
   [action |-> "go_to", index |-> 3, wrap |-> FALSE]}
=============================================================================
