-------------------------- MODULE MCWorkspaceSwitch --------------------------
(* A display with three spaces, the middle one empty, and one with two.    *)
EXTENDS WorkspaceSwitch, TLC

CONSTANTS left, right

MCNumSpaces == (left :> 3) @@ (right :> 2) @@ (Main :> 2)

MCOccupied == {<<left, 0>>, <<left, 2>>, <<right, 0>>, <<right, 1>>, <<Main, 0>>, <<Main, 1>>}

Request(action, index, wrap, focused) ==
  [action |-> action, index |-> index, wrap |-> wrap, target_focused_display |-> focused]

MCRequests ==
  {Request("left", 0, FALSE, FALSE), Request("right", 0, TRUE, TRUE)}
=============================================================================
