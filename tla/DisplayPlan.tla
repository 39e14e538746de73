----------------------------- MODULE DisplayPlan -----------------------------
(***************************************************************************)
(* The display planner of spacehound-core: which display a display hotkey  *)
(* goes to, given the connected displays sorted from left to right and the *)
(* display the request starts from.  Pure: no state, no side effect.       *)
(***************************************************************************)
EXTENDS Naturals, Sequences

DisplayActions == {"left", "right", "go_to"}

(* control::display_request; `index` is 1-based and only go_to reads it,   *)
(* `wrap` is read by left and right.                                       *)
DisplayRequests == [action : DisplayActions, index : Nat, wrap : BOOLEAN]

NoTarget == 0

(* The 1-based position a request that starts at position `cur` of `n`     *)
(* displays goes to, or NoTarget when the request does nothing.            *)
PlanDisplayRequest(req, cur, n) ==
  CASE req.action = "left" ->
         IF cur > 1 THEN cur - 1 ELSE IF req.wrap THEN n ELSE NoTarget
    [] req.action = "right" ->
         IF cur < n THEN cur + 1 ELSE IF req.wrap THEN 1 ELSE NoTarget
    [] req.action = "go_to" ->
         IF req.index \in (1 .. n) \ {cur} THEN req.index ELSE NoTarget

(* Positions of a left-to-right arrangement, and the displays in it.       *)
Connected(displays) == {displays[i] : i \in 1 .. Len(displays)}

PositionOf(displays, d) == CHOOSE i \in 1 .. Len(displays) : displays[i] = d

(* The display a request that starts on display `d` focuses; `d` itself    *)
(* when the plan is to do nothing.                                         *)
StepFrom(displays, d, req) ==
  LET target == PlanDisplayRequest(req, PositionOf(displays, d), Len(displays))
  IN  IF target = NoTarget THEN d ELSE displays[target]
=============================================================================
