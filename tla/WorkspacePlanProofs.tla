------------------------- MODULE WorkspacePlanProofs -------------------------
(***************************************************************************)
(* Proofs about the workspace planner, for any number of spaces: what it   *)
(* plans leads to the space asked for, within the edges, whatever the Dock *)
(* has handled of it so far.                                               *)
(***************************************************************************)
EXTENDS WorkspacePlan, TLAPS

(* A swipe and a request stay on the display's spaces.                     *)
LEMMA AfterSwipeInRange ==
  ASSUME NEW n \in Nat \ {0}, NEW dir, NEW cur \in 0 .. n - 1
  PROVE  AfterSwipe(dir, cur, n) \in 0 .. n - 1
BY DEF AfterSwipe

LEMMA AskedInRange ==
  ASSUME NEW n \in Nat \ {0}, NEW cur \in 0 .. n - 1,
         NEW req, req.action \in WorkspaceActions, req.index \in Nat
  PROVE  SpaceAskedFor(req, cur, n) \in 0 .. n - 1
<1>1. CASE req.action = "left"
  BY <1>1 DEF SpaceAskedFor
<1>2. CASE req.action = "right"
  BY <1>2 DEF SpaceAskedFor
<1>3. CASE req.action = "go_to"
  BY <1>3 DEF SpaceAskedFor
<1> QED
  BY <1>1, <1>2, <1>3 DEF WorkspaceActions

(* The swipes between two spaces lead from the one to the other.           *)
LEMMA SwipesLead ==
  ASSUME NEW from \in Int, NEW to \in Int
  PROVE  /\ Swipes(from, to) \in Motions
         /\ Swipes(from, to).direction = "left" => from - Swipes(from, to).count = to
         /\ Swipes(from, to).direction = "right" => from + Swipes(from, to).count = to
BY DEF Swipes, Motions, Horizontal

(* plan_workspace_request: the motion leads to the space asked for.        *)
THEOREM MotionPlanned ==
  ASSUME NEW n \in Nat \ {0}, NEW cur \in 0 .. n - 1,
         NEW req, req.action \in WorkspaceActions, req.index \in Nat
  PROVE  LET motion == PlanWorkspaceRequest(req, cur, n)
             asked == SpaceAskedFor(req, cur, n)
         IN  /\ asked \in 0 .. n - 1
             /\ motion \in Motions
             /\ motion.direction \in Horizontal
             /\ motion.count \in Nat
             /\ motion.direction = "left" => cur - motion.count = asked
             /\ motion.direction = "right" => cur + motion.count = asked
<1> DEFINE motion == PlanWorkspaceRequest(req, cur, n)
           asked == SpaceAskedFor(req, cur, n)
<1>2. asked \in 0 .. n - 1
  BY AskedInRange
<1>3. motion = Swipes(cur, asked) /\ cur \in Int /\ asked \in Int
  BY <1>2 DEF PlanWorkspaceRequest
<1> HIDE DEF motion, asked
<1>4. /\ motion \in Motions
      /\ motion.direction = "left" => cur - motion.count = asked
      /\ motion.direction = "right" => cur + motion.count = asked
  BY <1>3, SwipesLead
<1>5. motion.direction \in Horizontal /\ motion.count \in Nat
  BY <1>4 DEF Motions
<1> QED BY <1>2, <1>4, <1>5 DEF motion, asked

-----------------------------------------------------------------------------
(***************************************************************************)
(* Where `k` swipes in one direction take a display that shows `cur`.      *)
(***************************************************************************)
Landed(dir, cur, k, n) ==
  CASE dir = "left"  -> IF cur >= k THEN cur - k ELSE 0
    [] dir = "right" -> IF cur + k <= n - 1 THEN cur + k ELSE n - 1
    [] OTHER         -> cur

LEMMA LandedInRange ==
  ASSUME NEW n \in Nat \ {0}, NEW dir, NEW cur \in 0 .. n - 1, NEW k \in Nat
  PROVE  Landed(dir, cur, k, n) \in 0 .. n - 1
BY DEF Landed

LEMMA LandedNone ==
  ASSUME NEW n \in Nat \ {0}, NEW dir, NEW cur \in 0 .. n - 1
  PROVE  Landed(dir, cur, 0, n) = cur
BY DEF Landed

(* The Dock handles the first of them, or one is added behind the last.    *)
LEMMA LandedOne ==
  ASSUME NEW n \in Nat \ {0}, NEW dir, NEW cur \in 0 .. n - 1, NEW k \in Nat
  PROVE  Landed(dir, AfterSwipe(dir, cur, n), k, n) = Landed(dir, cur, k + 1, n)
BY DEF Landed, AfterSwipe

LEMMA LandedMore ==
  ASSUME NEW n \in Nat \ {0}, NEW dir, NEW cur \in 0 .. n - 1, NEW k \in Nat
  PROVE  AfterSwipe(dir, Landed(dir, cur, k, n), n) = Landed(dir, cur, k + 1, n)
BY DEF Landed, AfterSwipe

(* A motion that is posted whole lands on the space asked for.             *)
LEMMA MotionLands ==
  ASSUME NEW n \in Nat \ {0}, NEW cur \in 0 .. n - 1,
         NEW req, req.action \in WorkspaceActions, req.index \in Nat
  PROVE  LET motion == PlanWorkspaceRequest(req, cur, n)
         IN  Landed(motion.direction, cur, motion.count, n) = SpaceAskedFor(req, cur, n)
<1> DEFINE motion == PlanWorkspaceRequest(req, cur, n)
           asked == SpaceAskedFor(req, cur, n)
<1>1. /\ asked \in 0 .. n - 1
      /\ motion.direction \in Horizontal
      /\ motion.count \in Nat
      /\ motion.direction = "left" => cur - motion.count = asked
      /\ motion.direction = "right" => cur + motion.count = asked
  BY MotionPlanned
<1> HIDE DEF motion, asked
<1>2. Landed(motion.direction, cur, motion.count, n) = asked
  BY <1>1 DEF Landed, Horizontal
<1> QED BY <1>2 DEF motion, asked
=============================================================================
