---------------------------- MODULE WorkspacePlan ----------------------------
(***************************************************************************)
(* The workspace planner of spacehound-core: the swipes that take a        *)
(* display from one of its spaces to the one a workspace request asks for. *)
(* Pure: no state, no side effect.  Spaces are counted from 0.             *)
(***************************************************************************)
EXTENDS Integers

WorkspaceActions == {"left", "right", "go_to"}

Horizontal == {"left", "right"}

Motions == [direction : Horizontal, count : Nat]

(* The swipes from space `from` to space `to`; none, should_execute being  *)
(* false, when they are the same.                                          *)
Swipes(from, to) ==
  IF to < from THEN [direction |-> "left",  count |-> from - to]
               ELSE [direction |-> "right", count |-> to - from]

(* The space a request asks for on a display that shows space `cur` of `n`. *)
SpaceAskedFor(req, cur, n) ==
  CASE req.action = "left" ->
         IF cur > 0 THEN cur - 1 ELSE IF req.wrap THEN n - 1 ELSE cur
    [] req.action = "right" ->
         IF cur < n - 1 THEN cur + 1 ELSE IF req.wrap THEN 0 ELSE cur
    [] req.action = "go_to" ->
         IF req.index \in 1 .. n THEN req.index - 1 ELSE cur

PlanWorkspaceRequest(req, cur, n) == Swipes(cur, SpaceAskedFor(req, cur, n))

(* Where the Dock is after one swipe on a display with `n` spaces: at the  *)
(* last space, and at the first, it stays.                                 *)
AfterSwipe(dir, cur, n) ==
  CASE dir = "left" -> IF cur > 0 THEN cur - 1 ELSE cur
    [] dir = "right" -> IF cur < n - 1 THEN cur + 1 ELSE cur
    [] OTHER -> cur
=============================================================================
