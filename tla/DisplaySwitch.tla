---------------------------- MODULE DisplaySwitch ----------------------------
(***************************************************************************)
(* Display switching with no overlay showing: a display hotkey focuses a   *)
(* window on the target display, or clicks an empty one, and remembers the *)
(* switch, because the window server goes on reporting the previous        *)
(* display for a while.  Every later request that asks which display is    *)
(* active is answered by combining the server's report with that record.   *)
(*                                                                         *)
(* Time is counted in ticks.  A request is handled within a tick; the      *)
(* server reports a change of focus after at most Lag ticks; a record is   *)
(* believed while it is at most Ttl ticks old.                             *)
(***************************************************************************)
EXTENDS DisplayPlan

CONSTANTS
  Displays,      \* displays that may be connected
  NoDisplay,     \* the window server gave no answer
  NoSwitch,      \* no switch is remembered
  Arrangements,  \* the left-to-right arrangements of displays that may occur
  Requests,      \* the display requests the hotkeys are bound to
  Ttl,           \* pending_display_switch_ttl, in ticks
  Lag,           \* the longest the server takes to report a change, in ticks
  MaxInFlight,   \* bound: changes of focus the server has yet to report
  Disturbances   \* which of the things below the instance lets happen

Disturbing == {"click", "phantom", "unrecorded", "silent", "rearrange"}

ASSUME DisplayAssumption ==
  /\ NoDisplay \notin Displays
  /\ Arrangements # {}
  /\ \A s \in Arrangements :
       /\ s \in Seq(Displays)
       /\ s # <<>>
       /\ \A i, j \in 1 .. Len(s) : s[i] = s[j] => i = j

ASSUME RequestAssumption ==
  \A req \in Requests :
    /\ req.action \in DisplayActions
    /\ req.index \in Nat
    /\ req.wrap \in BOOLEAN

ASSUME TimeAssumption ==
  /\ Ttl \in Nat
  /\ Lag \in Nat
  /\ Lag <= Ttl
  /\ MaxInFlight \in Nat

ASSUME NoSwitchAssumption ==
  /\ NoSwitch \notin [from : Displays, to : Displays, age : 0 .. Ttl + 1]
  /\ Disturbances \subseteq Disturbing

VARIABLES
  displays,  \* what load_active_displays returns: the displays, left to right
  focus,     \* the display the focus was last sent to
  reported,  \* the active menu-bar display the window server reports
  inflight,  \* changes of focus not yet reported, oldest first
  pending,   \* pending_display_switch_cache
  astray,    \* history: a disturbance may still mislead a request
  since      \* history: ticks since a display had, or was said to have, focus

vars == <<displays, focus, reported, inflight, pending, astray, since>>

Ages == 0 .. Ttl + 1     \* an age stops counting once it is past Ttl

(* A switch goes from one display to another.                              *)
Switch == {s \in [from : Displays, to : Displays, age : Ages] : s.from # s.to}

Change == [to : Displays, age : 0 .. Lag]

Older(age) == IF age <= Ttl THEN age + 1 ELSE age

-----------------------------------------------------------------------------
(***************************************************************************)
(* active_display_identifier: the answer to "which display is active?"     *)
(* when the server reports `seen`, and what is left of the record.         *)
(***************************************************************************)
BelievesForever(seen) ==           \* mutant: the record never expires
  pending # NoSwitch /\ seen = pending.from

BelievesPending(seen) ==
  /\ pending # NoSwitch
  /\ pending.age <= Ttl        \* not expired
  /\ seen = pending.from       \* the server has not caught up

ActiveDisplay(seen) == IF BelievesPending(seen) THEN pending.to ELSE seen

Remembered(seen) == IF BelievesPending(seen) THEN pending ELSE NoSwitch

(* What the server answers; NoDisplay when the call fails.                 *)
Answers == {reported} \cup (IF "silent" \in Disturbances THEN {NoDisplay} ELSE {})

(* Reading while two changes are unreported, or while the server is        *)
(* silent, drops the record of a switch the server still has to report.    *)
Misread(seen) ==
  Len(inflight) > 1 \/ (seen = NoDisplay /\ inflight # <<>>)

(* Nothing is left that could mislead a request.                           *)
Clean(changes, record) ==
  changes = <<>> /\ (record = NoSwitch \/ record.age > Ttl)

Settle(disturbed) == astray' = (disturbed /\ ~Clean(inflight', pending'))

FocusMovesTo(d) ==
  /\ Len(inflight) < MaxInFlight
  /\ inflight' = Append(inflight, [to |-> d, age |-> 0])
  /\ focus' = d
  /\ since' = [since EXCEPT ![d] = 0]

-----------------------------------------------------------------------------
Init ==
  /\ displays \in Arrangements
  /\ focus \in Connected(displays)
  /\ reported = focus
  /\ inflight = <<>>
  /\ pending = NoSwitch
  /\ astray = FALSE
  /\ since = [d \in Displays |-> IF d = focus THEN 0 ELSE Ttl + 1]

(***************************************************************************)
(* A request that asks for the active display and changes no focus: a      *)
(* window cycle, a workspace switch, an overlay poll; or a display request *)
(* that stops early (no match, nothing to do, a step that failed).         *)
(***************************************************************************)
ReadActiveDisplay(seen) ==
  /\ pending' = Remembered(seen)
  /\ UNCHANGED <<displays, focus, reported, inflight, since>>
  /\ Settle(astray \/ Misread(seen))

(* record_display_switch.                                                  *)
RecordFromReported(from, to) ==    \* mutant: `from` is what the server says
  pending' = [from |-> reported, to |-> to, age |-> 0]

RecordSwitch(from, to) ==
  pending' = [from |-> from, to |-> to, age |-> 0]

(* The switch took: a window was focused, or an empty display clicked.     *)
SwitchTakes(active, target, seen) ==
  /\ FocusMovesTo(target)
  /\ RecordSwitch(active, target)
  /\ UNCHANGED <<displays, reported>>
  /\ Settle(astray \/ Misread(seen))

(* focus_window answers true although nothing moved: the results of its    *)
(* accessibility calls are not looked at.                                  *)
SwitchIsPhantom(active, target) ==
  /\ "phantom" \in Disturbances
  /\ RecordSwitch(active, target)
  /\ since' = [since EXCEPT ![target] = 0]
  /\ UNCHANGED <<displays, focus, reported, inflight>>
  /\ Settle(TRUE)

(* The click on an empty display landed, but the cursor could not be put   *)
(* back: the request fails and nothing is recorded.                        *)
ClickUnrecorded(target, seen) ==
  /\ "unrecorded" \in Disturbances
  /\ FocusMovesTo(target)
  /\ pending' = Remembered(seen)
  /\ UNCHANGED <<displays, reported>>
  /\ Settle(TRUE)

AlwaysExecutes(active, target) ==  \* mutant: the plan is not looked at
  TRUE

(* should_execute: the plan leads to another display.                      *)
ShouldExecute(active, target) == target # active

(***************************************************************************)
(* execute_display_request.  It returns before it asks for the active      *)
(* display when fewer than two are connected, and index 0 is rejected      *)
(* before it runs.                                                         *)
(***************************************************************************)
Press(req, seen) ==
  LET active == ActiveDisplay(seen)
  IN  /\ req.action = "go_to" => req.index > 0
      /\ Len(displays) > 1
      /\ \/ ReadActiveDisplay(seen)
         \/ /\ active \in Connected(displays)
            /\ LET target == StepFrom(displays, active, req)
               IN  /\ ShouldExecute(active, target)
                   /\ \/ SwitchTakes(active, target, seen)
                      \/ SwitchIsPhantom(active, target)
                      \/ ClickUnrecorded(target, seen)

(* The user, or another program, moves the focus to another display.       *)
OutsideClick(d) ==
  /\ "click" \in Disturbances
  /\ d \in Connected(displays) \ {focus}
  /\ FocusMovesTo(d)
  /\ UNCHANGED <<displays, reported, pending>>
  /\ Settle(TRUE)

(* The server reports the oldest k changes at once.                        *)
ServerReports(k) ==
  /\ reported' = inflight[k].to
  /\ inflight' = SubSeq(inflight, k + 1, Len(inflight))
  /\ UNCHANGED <<displays, focus, pending, since>>
  /\ Settle(astray)

(* Displays are connected, disconnected or moved; the server puts the      *)
(* focus on a connected display and starts afresh.                         *)
Rearrange(s) ==
  /\ "rearrange" \in Disturbances
  /\ displays' = s
  /\ \E d \in IF focus \in Connected(s) THEN {focus} ELSE Connected(s) :
       /\ focus' = d
       /\ reported' = d
       /\ since' = [since EXCEPT ![d] = 0]
  /\ inflight' = <<>>
  /\ UNCHANGED pending
  /\ Settle(TRUE)

(* A tick passes.  No change stays unreported for longer than Lag.         *)
Tick ==
  /\ \A i \in 1 .. Len(inflight) : inflight[i].age < Lag
  /\ inflight' = [i \in 1 .. Len(inflight) |-> [inflight[i] EXCEPT !.age = @ + 1]]
  /\ pending' = IF pending = NoSwitch
                THEN NoSwitch
                ELSE [pending EXCEPT !.age = Older(@)]
  /\ since' = [d \in Displays |-> IF d = focus THEN 0 ELSE Older(since[d])]
  /\ UNCHANGED <<displays, focus, reported>>
  /\ Settle(astray)

Next ==
  \/ \E req \in Requests, seen \in Answers : Press(req, seen)
  \/ \E seen \in Answers : ReadActiveDisplay(seen)
  \/ \E d \in Displays : OutsideClick(d)
  \/ \E k \in 1 .. Len(inflight) : ServerReports(k)
  \/ \E s \in Arrangements : Rearrange(s)
  \/ Tick

Spec == Init /\ [][Next]_vars

-----------------------------------------------------------------------------
TypeOK ==
  /\ displays \in Arrangements
  /\ focus \in Displays
  /\ reported \in Displays
  /\ inflight \in Seq(Change)
  /\ pending \in Switch \cup {NoSwitch}
  /\ astray \in BOOLEAN
  /\ since \in [Displays -> Ages]

(***************************************************************************)
(* Whatever the user, the server or a failing step does, the display a     *)
(* request is told is active is the focused one, or had the focus, or was  *)
(* said to have been given it, at most Ttl ticks ago (the record and its   *)
(* expiry, display_switch.cpp:513-530).                                    *)
(***************************************************************************)
AnswerIsRecent ==
  LET answer == ActiveDisplay(reported) IN answer = focus \/ since[answer] <= Ttl

(***************************************************************************)
(* Presses walk: a press made while the server has at most one change to   *)
(* report and no disturbance is still at work steps from the display the   *)
(* previous switch went to, although the server may not report it yet, and *)
(* goes where that very request leads from there, or nowhere               *)
(* (display_switch.cpp:45-47).                                             *)
(***************************************************************************)
Walk == INSTANCE DisplayWalk
          WITH at <- focus, disturbed <- astray, hurried <- Len(inflight) > 1

EachPressWalks ==
  \A req \in Requests : (\E seen \in Answers : Press(req, seen)) => Walk!Walk(req)

PressesWalk == Walk!Spec /\ [][EachPressWalks]_vars

(***************************************************************************)
(* The comment at display_switch.cpp:45-47 taken at its word: a request    *)
(* that is handled while the server still reports an earlier display plans *)
(* from where the previous switch went.                                    *)
(***************************************************************************)
PlansFromLastSwitch ==
  [][(pending' # NoSwitch /\ pending'.age = 0 /\ Len(inflight') > Len(inflight))
       => pending'.from = focus]_vars

-----------------------------------------------------------------------------
(***************************************************************************)
(* The inductive invariant behind the two properties.                      *)
(***************************************************************************)
(* The focus is where the newest unreported change went.                   *)
FocusInv ==
  /\ focus \in Connected(displays)
  /\ inflight = <<>> => focus = reported
  /\ inflight # <<>> => focus = inflight[Len(inflight)].to

(* A display the server or the record may still name lost the focus no     *)
(* longer ago than the change that took it away.                           *)
RecentInv ==
  /\ since[focus] = 0
  /\ inflight # <<>> => since[reported] <= inflight[1].age
  /\ \A i \in 1 .. Len(inflight) - 1 : since[inflight[i].to] <= inflight[i + 1].age
  /\ pending # NoSwitch => since[pending.to] <= pending.age

(* With no disturbance at work the record is that of the newest change,    *)
(* and starts where the change before it went.                             *)
CalmInv ==
  ~astray =>
    /\ inflight = <<>> =>
         (pending # NoSwitch /\ pending.age <= Ttl => pending.to = focus)
    /\ inflight # <<>> =>
         /\ pending # NoSwitch
         /\ pending.to = focus
         /\ pending.age = inflight[Len(inflight)].age
         /\ Len(inflight) = 1 => pending.from = reported
         /\ Len(inflight) > 1 => pending.from = inflight[Len(inflight) - 1].to

IInv == TypeOK /\ FocusInv /\ RecentInv /\ CalmInv
=============================================================================
