----------------------------- MODULE DisplayWalk -----------------------------
(***************************************************************************)
(* What display switching promises: unless a disturbance is still at work, *)
(* or one press comes on the heels of two others, a display hotkey steps   *)
(* from the display the focus was last sent to, or does nothing; it never  *)
(* steps from a display the user has already left.  Of other presses only  *)
(* that the focus stays on a connected display.                            *)
(***************************************************************************)
EXTENDS DisplayPlan

CONSTANTS
  Arrangements,  \* the left-to-right arrangements the displays may be in
  Requests       \* the display requests the hotkeys are bound to

VARIABLES
  displays,  \* the connected displays, left to right
  at,        \* the display the focus was last sent to
  disturbed, \* whether something other than hotkeys may mislead a press
  hurried    \* whether more than one change of focus is unreported

vars == <<displays, at, disturbed, hurried>>

Init ==
  /\ displays \in Arrangements
  /\ at \in Connected(displays)
  /\ disturbed = FALSE
  /\ hurried = FALSE

Changes == disturbed' \in BOOLEAN /\ hurried' \in BOOLEAN

(* A press: from where we just went, unless that cannot be told.           *)
Walk(req) ==
  /\ at' \in IF disturbed \/ hurried
             THEN Connected(displays)
             ELSE {at, StepFrom(displays, at, req)}
  /\ Changes
  /\ UNCHANGED displays

(* The focus moves for a reason other than a hotkey.                       *)
MovedElsewhere ==
  /\ at' \in Connected(displays)
  /\ disturbed' = TRUE
  /\ hurried' \in BOOLEAN
  /\ UNCHANGED displays

(* A display is connected, disconnected or moved.  The focus moves only if *)
(* its display is gone.                                                    *)
Rearrange ==
  /\ displays' \in Arrangements
  /\ at' \in IF at \in Connected(displays') THEN {at} ELSE Connected(displays')
  /\ Changes

(* Reports come in, the record goes, a disturbance begins or ends.         *)
Quiet ==
  /\ Changes
  /\ UNCHANGED <<displays, at>>

Next ==
  \/ \E req \in Requests : Walk(req)
  \/ MovedElsewhere
  \/ Rearrange
  \/ Quiet

Spec == Init /\ [][Next]_vars
=============================================================================
