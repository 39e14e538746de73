----------------------------- MODULE WindowCycle -----------------------------
(***************************************************************************)
(* Focusing the next or the previous window of the active display, with no *)
(* overlay showing.  The first press of a cycle freezes the front-to-back  *)
(* order of the display's windows; later presses within the timeout step   *)
(* through that frozen order, because focusing a window reorders them.     *)
(* Between presses the user and the programs raise, open, close and move   *)
(* windows, and the focus goes to other displays.                          *)
(***************************************************************************)
EXTENDS Integers, SequencesExt, Positions

CONSTANTS
  Displays,
  Windows,    \* windows that may be open
  NoWindow,
  NoCycle,    \* no cycle is remembered
  Timeout     \* window_cycle_timeout_ms, in ticks

ASSUME CycleAssumption ==
  /\ Timeout \in Nat \ {0}
  /\ IsFiniteSet(Windows)
  /\ NoWindow \notin Windows
  /\ NoCycle \notin [order : Seq(Windows), index : Nat, age : 0 .. Timeout]

Directions == {"next", "previous"}

VARIABLES
  stacks,   \* the ordinary windows on each display, front to back
  active,   \* the active display
  cycle,    \* window_cycle_state_cache
  heading,  \* history: the direction of the last press of this cycle
  before,   \* history: the window in focus, or aimed at, before the last press
  owed,     \* history: windows not aimed at since each one was last aimed at
  settled   \* history: the last press took, and nothing was raised since

vars == <<stacks, active, cycle, heading, before, owed, settled>>

Ids == stacks[active]                    \* collect_window_ids_on_display

Open == UNION {Range(stacks[d]) : d \in Displays}

HomeOf(w) == CHOOSE d \in Displays : w \in Range(stacks[d])

Ages == 0 .. Timeout

Cycles == [order : Seq(Windows), index : Nat, age : Ages]

Without(stack, w) == AtPositions(stack, {i \in DOMAIN stack : stack[i] # w})

NothingOwed == [w \in Windows |-> {}]

-----------------------------------------------------------------------------
(***************************************************************************)
(* plan_window_focus_request, for a display with at least two windows.     *)
(***************************************************************************)
CanContinueAnywhere ==   \* mutant: windows that have gone are not noticed
  cycle # NoCycle /\ cycle.age < Timeout

CanContinueForever ==    \* mutant: the cycle does not time out
  cycle # NoCycle /\ Range(cycle.order) \subseteq Range(Ids)

CanContinue ==
  /\ cycle # NoCycle
  /\ cycle.age < Timeout
  /\ Range(cycle.order) \subseteq Range(Ids)

FreshAtFront(dir) ==     \* mutant: the window in front is not passed over
  [order |-> Ids, index |-> IF dir = "next" THEN 1 ELSE Len(Ids), age |-> 0]

Fresh(dir) ==
  [order |-> Ids, index |-> IF dir = "next" THEN 2 ELSE Len(Ids), age |-> 0]

ExtendedBlindly == cycle.order \o Ids   \* mutant: nothing is left out

(* Windows that appeared since the cycle began go to its end.              *)
Newcomers == {i \in DOMAIN Ids : Ids[i] \notin Range(cycle.order)}

Extended == cycle.order \o AtPositions(Ids, Newcomers)

StepClamped(index, dir, n) ==      \* mutant: the last window is never passed
  IF dir = "next" THEN (IF index < n THEN index + 1 ELSE n)
                  ELSE (IF index > 1 THEN index - 1 ELSE 1)

Step(index, dir, n) ==
  IF dir = "next" THEN (index % n) + 1
                  ELSE IF index = 1 THEN n ELSE index - 1

Continued(dir) ==
  [order |-> Extended, index |-> Step(cycle.index, dir, Len(Extended)), age |-> 0]

PlanNewest(dir) ==      \* mutant: every press starts from what is in front
  Fresh(dir)

Plan(dir) == IF CanContinue THEN Continued(dir) ELSE Fresh(dir)

Aim(plan) == plan.order[plan.index]

-----------------------------------------------------------------------------
Raised(w) ==
  [stacks EXCEPT ![HomeOf(w)] = <<w>> \o Without(@, w)]

RecordIfFocused(plan, took) ==     \* mutant: a failed focus does not count
  cycle' = IF took THEN plan ELSE cycle

RecordPlan(plan, took) == cycle' = plan

Chronicle(dir, plan, took) ==
  LET w == Aim(plan)
      same == CanContinue /\ heading = dir
  IN  /\ heading' = dir
      /\ before' = IF CanContinue THEN Aim(cycle) ELSE Head(Ids)
      /\ owed' = [v \in Windows |->
                    IF v = w THEN Range(Ids) \ {w}
                    ELSE IF same THEN owed[v] \ {w} ELSE {}]
      /\ settled' = took

(* focus_window: it may match no window of the program, or not be obeyed.  *)
FocusWindow(w, took) ==
  /\ took => w \in Open
  /\ stacks' = IF took THEN Raised(w) ELSE stacks
  /\ active' = IF took THEN HomeOf(w) ELSE active

(***************************************************************************)
(* execute_window_focus_request.  The plan is remembered before the window *)
(* is focused, and stays when that fails.                                  *)
(***************************************************************************)
Cycle(dir) ==
  \/ /\ Len(Ids) <= 1
     /\ cycle' = NoCycle
     /\ heading' = "none"
     /\ before' = NoWindow
     /\ owed' = NothingOwed
     /\ UNCHANGED <<stacks, active, settled>>
  \/ /\ Len(Ids) > 1
     /\ LET plan == Plan(dir)
            w == Aim(plan)
        IN  \E took \in BOOLEAN :
              /\ RecordPlan(plan, took)
              /\ FocusWindow(w, took)
              /\ Chronicle(dir, plan, took)

(* The user clicks a window, or a program brings one forward.              *)
Click(w) ==
  /\ w \in Open
  /\ stacks' = Raised(w)
  /\ active' = HomeOf(w)
  /\ settled' = FALSE
  /\ UNCHANGED <<cycle, heading, before, owed>>

OpenWindow(w, d) ==
  /\ w \notin Open
  /\ stacks' = [stacks EXCEPT ![d] = <<w>> \o @]
  /\ active' = d
  /\ settled' = FALSE
  /\ UNCHANGED <<cycle, heading, before, owed>>

CloseWindow(w) ==
  /\ w \in Open
  /\ stacks' = [stacks EXCEPT ![HomeOf(w)] = Without(@, w)]
  /\ UNCHANGED <<active, cycle, heading, before, owed, settled>>

(* A window goes to the front of another display.                          *)
MoveWindow(w, d) ==
  /\ w \in Open
  /\ d # HomeOf(w)
  /\ stacks' = [stacks EXCEPT ![HomeOf(w)] = Without(@, w),
                              ![d] = <<w>> \o @]
  /\ settled' = FALSE
  /\ UNCHANGED <<active, cycle, heading, before, owed>>

(* A display switch (DisplaySwitch): it focuses the display's front window. *)
SwitchDisplay(d) ==
  /\ active' = d
  /\ UNCHANGED <<stacks, cycle, heading, before, owed, settled>>

Tick ==
  /\ cycle # NoCycle
  /\ cycle.age < Timeout
  /\ cycle' = [cycle EXCEPT !.age = @ + 1]
  /\ UNCHANGED <<stacks, active, heading, before, owed, settled>>

Orders == {s \in SeqOf(Windows, Cardinality(Windows)) : IsInjective(s)}

Init ==
  /\ stacks \in [Displays -> Orders]
  /\ \A d, e \in Displays : d # e => Range(stacks[d]) \cap Range(stacks[e]) = {}
  /\ active \in Displays
  /\ cycle = NoCycle
  /\ heading = "none"
  /\ before = NoWindow
  /\ owed = NothingOwed
  /\ settled = FALSE

Next ==
  \/ \E dir \in Directions : Cycle(dir)
  \/ \E w \in Windows : Click(w) \/ CloseWindow(w)
  \/ \E w \in Windows, d \in Displays : OpenWindow(w, d) \/ MoveWindow(w, d)
  \/ \E d \in Displays : SwitchDisplay(d)
  \/ Tick

Spec == Init /\ [][Next]_vars

-----------------------------------------------------------------------------
TypeOK ==
  /\ DOMAIN stacks = Displays
  /\ \A d \in Displays : stacks[d] \in Seq(Windows) /\ IsInjective(stacks[d])
  /\ active \in Displays
  /\ cycle \in Cycles \cup {NoCycle}
  /\ cycle # NoCycle => cycle.index \in 1 .. Len(cycle.order) /\ IsInjective(cycle.order)
  /\ heading \in Directions \cup {"none"}
  /\ before \in Windows \cup {NoWindow}
  /\ owed \in [Windows -> SUBSET Windows]
  /\ settled \in BOOLEAN

(***************************************************************************)
(* Whatever happened to the windows since the order was frozen, the window *)
(* the next press would focus is open and on the active display: a press   *)
(* neither fails for a window that has gone nor throws the focus to        *)
(* another display (display_switch.cpp:720-728).                           *)
(***************************************************************************)
AimIsHere ==
  Len(Ids) > 1 => \A dir \in Directions : Aim(Plan(dir)) \in Range(Ids)

(***************************************************************************)
(* No window is skipped or comes round early: a press that goes on in the  *)
(* same direction aims at a window only when every other window that was   *)
(* on the display when it was last aimed at has had its turn, although     *)
(* each focus reorders the windows, some fail and others are opened or     *)
(* clicked meanwhile (display_switch.cpp:742-766, 923-941).                *)
(***************************************************************************)
EveryWindowHasItsTurn ==
  [][\A dir \in Directions :
       (Cycle(dir) /\ Len(Ids) > 1 /\ CanContinue /\ heading = dir)
          => owed[Aim(Plan(dir))] = {}]_vars

(***************************************************************************)
(* Turning back returns: a press against the direction of the cycle aims   *)
(* at the window the last press left, the one in front when the cycle      *)
(* began included, unless windows joined the cycle (display_switch.cpp:    *)
(* 730-760).                                                               *)
(***************************************************************************)
TurningBackReturns ==
  [][\A dir \in Directions :
       (Cycle(dir) /\ Len(Ids) > 1 /\ CanContinue /\ heading # dir
          /\ Range(Ids) = Range(cycle.order))
          => Aim(Plan(dir)) = before]_vars

(***************************************************************************)
(* After a press that took, and until something else raises a window, the  *)
(* next press aims at a window that is not already in front, in a running  *)
(* cycle, after the timeout, and after windows were closed or the focus    *)
(* went to another display and back (display_switch.cpp:720-744).          *)
(***************************************************************************)
EveryPressMoves ==
  (settled /\ Len(Ids) > 1) => \A dir \in Directions : Aim(Plan(dir)) # Head(Ids)
=============================================================================
