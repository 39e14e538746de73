------------------------------ MODULE EventTap ------------------------------
(***************************************************************************)
(* The event tap of the runtime.  Key presses that match an active hotkey  *)
(* are swallowed and their request is deferred to the main queue; the      *)
(* swipes of the user are swallowed and replaced by quick synthetic ones,  *)
(* which come through the tap again and reach the Dock; everything else    *)
(* passes.  The tap can be started, stopped, reloaded, disabled by the     *)
(* system and told to leave the keys alone at any moment, also between the *)
(* phases of a gesture and between a press and the action it deferred.     *)
(*                                                                         *)
(* One display, with NumSpaces spaces counted from 0; where requests act   *)
(* with several displays or an overlay is in WorkspaceSwitch,              *)
(* DisplaySwitch and Overlay.                                              *)
(***************************************************************************)
EXTENDS RuntimeConfig, WorkspacePlan

CONSTANTS
  Documents,   \* the settings documents that settings.json may hold
  Presses,     \* the key presses of the user: key, flags and repeat
  Gestures,    \* the directions the user swipes in
  NumSpaces,   \* spaces of the display
  MaxUnderWay  \* bound: deferred actions and synthetic swipes under way

Directions == Horizontal \cup {"up", "down"}

Phases == {"begin", "update", "end", "other"}

ASSUME EventTapAssumption ==
  /\ NumSpaces \in Nat \ {0}
  /\ MaxUnderWay \in Nat
  /\ Gestures \subseteq Directions
  /\ \A doc \in Documents :
       /\ doc.fast_swipe \in BOOLEAN
       /\ doc.workspace_wrap \in BOOLEAN
       /\ doc.display_wrap \in BOOLEAN
       /\ doc.workspace_targets_focused_display \in BOOLEAN
       /\ doc.move_cursor_to_target_display \in BOOLEAN

ASSUME NoneAssumption ==
  /\ None \notin Directions
  /\ None \notin 0 .. NumSpaces - 1

VARIABLES
  file,       \* the document in settings.json
  config,     \* the config of the running runtime
  tap,        \* off, on, or disabled by the system: timeout or user
  suspended,  \* input_suspended of the running runtime
  queue,      \* the requests of the deferred actions, oldest first
  stream,     \* the synthetic swipes on their way to the Dock, oldest first
  at,         \* the space the display shows
  finger,     \* the direction of the gesture under way
  got,        \* the phases of the last gesture that reached the Dock
  replays,    \* how often the last gesture was replayed
  applied,    \* history: the document last started with or reloaded
  owed,       \* history: the requests that presses should still bring about
  goal,       \* history: the space that was asked for, if nothing interfered
  excused     \* history: the filter changed in mid-gesture or a replay failed

gesture == <<finger, got, replays>>
keys == <<queue, owed>>
swipes == <<stream, at, goal>>
runtime == <<config, tap, suspended, applied>>
vars == <<file, runtime, keys, swipes, gesture, excused>>

(* Gestures are filtered while the tap is on and fast_swipe is set.        *)
Filters == tap = "on" /\ config.fast_swipe

FilterKept ==
  excused' = (excused \/ (finger # None /\ Filters' # Filters))

-----------------------------------------------------------------------------
(***************************************************************************)
(* Starting, reloading and stopping the runtime.                           *)
(***************************************************************************)
(* runtime::start, when the settings load and access is granted.           *)
Start ==
  /\ tap = "off"
  /\ config' = CompileRuntimeConfig(file)
  /\ applied' = file
  /\ tap' = "on"
  /\ suspended' = FALSE
  /\ UNCHANGED <<file, keys, swipes, gesture>>
  /\ FilterKept

(* runtime::reload_settings: only the config is replaced.                  *)
ReloadKeepsSwipe ==    \* mutant: only the hotkeys are replaced
  /\ tap # "off"
  /\ config' = [CompileRuntimeConfig(file) EXCEPT !.fast_swipe = config.fast_swipe]
  /\ applied' = file
  /\ UNCHANGED <<file, tap, suspended, keys, swipes, gesture>>
  /\ FilterKept

ReloadSettings ==
  /\ tap # "off"
  /\ config' = CompileRuntimeConfig(file)
  /\ applied' = file
  /\ UNCHANGED <<file, tap, suspended, keys, swipes, gesture>>
  /\ FilterKept

(* runtime::stop: the deferred actions stay on the main queue.             *)
StopDropsActions ==    \* mutant: the deferred actions go with the runtime
  /\ tap # "off"
  /\ tap' = "off"
  /\ config' = None
  /\ applied' = None
  /\ suspended' = FALSE
  /\ queue' = <<>>
  /\ UNCHANGED <<file, owed, swipes, gesture>>
  /\ FilterKept

Stop ==
  /\ tap # "off"
  /\ tap' = "off"
  /\ config' = None
  /\ applied' = None
  /\ suspended' = FALSE
  /\ UNCHANGED <<file, keys, swipes, gesture>>
  /\ FilterKept

SetInputSuspended ==
  /\ tap # "off"
  /\ suspended' = ~suspended
  /\ UNCHANGED <<file, config, tap, applied, keys, swipes, gesture, excused>>

(* The system disables a tap that is too slow, or for the user.            *)
Disable ==
  /\ tap = "on"
  /\ tap' \in {"timeout", "user"}
  /\ UNCHANGED <<file, config, suspended, applied, keys, swipes, gesture>>
  /\ FilterKept

(* The callback for kCGEventTapDisabledByTimeout and ...ByUserInput.       *)
Reenable ==
  /\ tap \in {"timeout", "user"}
  /\ tap' = "on"
  /\ UNCHANGED <<file, config, suspended, applied, keys, swipes, gesture>>
  /\ FilterKept

EditFile ==
  /\ file' \in Documents \ {file}
  /\ UNCHANGED <<runtime, keys, swipes, gesture, excused>>

-----------------------------------------------------------------------------
(***************************************************************************)
(* Keys.                                                                   *)
(***************************************************************************)
(* The request that a press calls for: that of the action with the first   *)
(* id among the enabled ones with its shortcut.                            *)
RankOf(id) == CHOOSE i \in DOMAIN Alphabetical : Alphabetical[i] = id

Called(doc, press) ==
  {id \in ActionIds : Active(id, doc) /\ HotkeyMatches(CompileAction(id, doc), press)}

OwedFor(doc, press) ==
  LET ids == Called(doc, press)
  IN  RequestOf(CHOOSE id \in ids : \A other \in ids : RankOf(id) <= RankOf(other), doc)

(* The callback for kCGEventKeyDown: the hotkey is executed from the main  *)
(* queue, with the request and the event source it has now.                *)
KeyDown(press) ==
  /\ tap = "on"
  /\ ~suspended
  /\ FirstMatch(config, press) # None
  /\ Len(queue) + Len(stream) < MaxUnderWay
  /\ queue' = Append(queue, FirstMatch(config, press).request)
  /\ owed' = Append(owed, OwedFor(applied, press))
  /\ UNCHANGED <<file, runtime, swipes, gesture, excused>>

-----------------------------------------------------------------------------
(***************************************************************************)
(* Swipes.  A synthetic swipe is marked with the user data of the source   *)
(* it was made with; making its events may fail, and then none is posted.  *)
(***************************************************************************)
SwipeUnmarked(dir, parked) ==    \* mutant: the raw payload loses the mark
  [direction |-> dir, parked |-> parked, synthetic |-> FALSE]

SyntheticSwipe(dir, parked) ==
  [direction |-> dir, parked |-> parked, synthetic |-> TRUE]

(* What active_display_space_bounds tells of a swipe at the edge, when it  *)
(* can be read.                                                            *)
BoundaryAlways(dir) == dir \in Horizontal   \* mutant: never across spaces

AtBoundary(dir) ==
  \/ dir = "left" /\ at = 0
  \/ dir = "right" /\ at >= NumSpaces - 1

(* The beginning of a gesture that is filtered: it is swallowed and        *)
(* replayed, after the cursor was parked if a swipe down will close an     *)
(* overlay, unless it is seen to run over the edge; a replay that fails    *)
(* lets it pass.  `rest` are the swipes that come before the replay.       *)
Replay(dir, rest) ==
  /\ Len(queue) + Len(rest) < MaxUnderWay
  /\ \E overlay \in BOOLEAN :
       stream' = Append(rest, SyntheticSwipe(dir, dir = "down" /\ overlay))

FilteredBegin(dir, rest) ==
  \/ /\ AtBoundary(dir)
     /\ stream' = rest
     /\ got' = {}
     /\ replays' = 0
     /\ excused' = FALSE
     /\ goal' = IF rest = <<>> THEN AfterSwipe(dir, at, NumSpaces) ELSE None
  \/ /\ Replay(dir, rest)
     /\ got' = {}
     /\ replays' = 1
     /\ excused' = FALSE
     /\ goal' = IF rest = <<>> THEN AfterSwipe(dir, at, NumSpaces) ELSE None
  \/ /\ stream' = rest
     /\ got' = {"begin"}
     /\ replays' = 0
     /\ excused' = TRUE
     /\ goal' = None

(* The callback for the beginning of a gesture of the user.                *)
SuspensionComesFirst(dir) ==    \* mutant: suspension lets gestures pass
  /\ finger = None
  /\ finger' = dir
  /\ IF Filters /\ ~suspended
     THEN FilteredBegin(dir, stream)
     ELSE /\ got' = {"begin"}
          /\ replays' = 0
          /\ excused' = FALSE
          /\ UNCHANGED <<stream, goal>>
  /\ UNCHANGED <<file, runtime, keys, at>>

BeginGesture(dir) ==
  /\ finger = None
  /\ finger' = dir
  /\ IF Filters
     THEN FilteredBegin(dir, stream)
     ELSE /\ got' = {"begin"}
          /\ replays' = 0
          /\ excused' = FALSE
          /\ UNCHANGED <<stream, goal>>
  /\ UNCHANGED <<file, runtime, keys, at>>

(* An update of a gesture; while gestures are filtered it is swallowed.    *)
UpdateGesture ==
  /\ finger # None
  /\ got' = IF Filters THEN got ELSE got \cup {"update"}
  /\ UNCHANGED <<file, runtime, keys, swipes, finger, replays, excused>>

(* The end of a gesture.  The Dock, if it followed the gesture, switches   *)
(* the space or lets it spring back.                                       *)
EndGesture ==
  /\ finger # None
  /\ finger' = None
  /\ got' = IF Filters THEN got ELSE got \cup {"end"}
  /\ IF ~Filters /\ "begin" \in got
     THEN /\ at' \in {at, AfterSwipe(finger, at, NumSpaces)}
          /\ goal' = None
     ELSE UNCHANGED <<at, goal>>
  /\ UNCHANGED <<file, runtime, keys, stream, replays, excused>>

(* A gesture that ends in a phase decode_swipe_phase does not know, as a   *)
(* cancelled one does: that event passes, filtered gesture or not.         *)
CancelGesture ==
  /\ finger # None
  /\ finger' = None
  /\ got' = got \cup {"other"}
  /\ UNCHANGED <<file, runtime, keys, swipes, replays, excused>>

(* A synthetic swipe comes to the tap, which passes it if it is marked, or *)
(* takes it for one of the user, and from there to the Dock.               *)
SwipeArrives ==
  /\ stream # <<>>
  /\ IF Filters /\ ~Head(stream).synthetic
     THEN /\ FilteredBegin(Head(stream).direction, Tail(stream))
          /\ UNCHANGED at
     ELSE /\ stream' = Tail(stream)
          /\ at' = AfterSwipe(Head(stream).direction, at, NumSpaces)
          /\ UNCHANGED <<got, replays, excused, goal>>
  /\ UNCHANGED <<file, runtime, keys, finger>>

(* run_deferred_action: it runs after the runtime was stopped as well.     *)
(* The swipes of a workspace request are posted until one cannot be made.  *)
PostsFor(request) ==
  IF request.kind # "workspace"
  THEN UNCHANGED swipes
  ELSE LET motion == PlanWorkspaceRequest(request, at, NumSpaces)
       IN  \E made \in 0 .. motion.count :
             /\ Len(queue') + Len(stream) + made <= MaxUnderWay
             /\ stream' = stream \o [i \in 1 .. made |->
                                       SyntheticSwipe(motion.direction, FALSE)]
             /\ goal' = IF stream = <<>> /\ made = motion.count
                        THEN SpaceAskedFor(request, at, NumSpaces) ELSE None
             /\ UNCHANGED at

RunWhileRunning ==    \* mutant: an action is left alone once the runtime stops
  /\ queue # <<>>
  /\ tap # "off"
  /\ queue' = Tail(queue)
  /\ owed' = Tail(owed)
  /\ PostsFor(Head(queue))
  /\ UNCHANGED <<file, runtime, gesture, excused>>

RunDeferred ==
  /\ queue # <<>>
  /\ queue' = Tail(queue)
  /\ owed' = Tail(owed)
  /\ PostsFor(Head(queue))
  /\ UNCHANGED <<file, runtime, gesture, excused>>

-----------------------------------------------------------------------------
Init ==
  /\ file \in Documents
  /\ config = None
  /\ applied = None
  /\ tap = "off"
  /\ suspended = FALSE
  /\ queue = <<>>
  /\ owed = <<>>
  /\ stream = <<>>
  /\ at \in 0 .. NumSpaces - 1
  /\ goal = None
  /\ finger = None
  /\ got = {}
  /\ replays = 0
  /\ excused = FALSE

Next ==
  \/ Start \/ ReloadSettings \/ Stop \/ SetInputSuspended
  \/ Disable \/ Reenable \/ EditFile
  \/ \E press \in Presses : KeyDown(press)
  \/ \E dir \in Gestures : BeginGesture(dir)
  \/ UpdateGesture \/ EndGesture \/ CancelGesture
  \/ SwipeArrives
  \/ RunDeferred

(* The tap and the main queue are served; the user owes nothing.           *)
Spec ==
  /\ Init
  /\ [][Next]_vars
  /\ WF_vars(SwipeArrives)
  /\ WF_vars(RunDeferred)

-----------------------------------------------------------------------------
Swipe == [direction : Directions, parked : BOOLEAN, synthetic : BOOLEAN]

TypeOK ==
  /\ file \in Documents
  /\ tap \in {"off", "on", "timeout", "user"}
  /\ IF tap = "off" THEN config = None /\ applied = None
     ELSE applied \in Documents /\ config = CompileRuntimeConfig(applied)
  /\ suspended \in BOOLEAN
  /\ suspended => tap # "off"
  /\ queue \in Seq(Requests)
  /\ stream \in Seq(Swipe)
  /\ at \in 0 .. NumSpaces - 1
  /\ goal \in (0 .. NumSpaces - 1) \cup {None}
  /\ finger \in Directions \cup {None}
  /\ got \subseteq Phases
  /\ replays \in 0 .. 1
  /\ excused \in BOOLEAN

(***************************************************************************)
(* A gesture of the user whose beginning the tap swallows gives the Dock   *)
(* no update and no end either; one whose beginning it passes reaches the  *)
(* Dock up to its last phase; and none is both passed and replayed         *)
(* (daemon.cpp:655-710).  Excused, each for that one gesture, are          *)
(*   - a gesture during which filtering is switched on or off: by a start, *)
(*     a stop, a reload, or a tap disabled and enabled again;              *)
(*   - a gesture whose replay fails: it begins, and the rest is swallowed. *)
(* Of a swallowed gesture the Dock still gets a last phase that the tap    *)
(* cannot decode (daemon.cpp:662-665): "other" may arrive alone.           *)
(***************************************************************************)
WholeGestures ==
  /\ ~excused =>
       /\ "begin" \notin got => got \subseteq {"other"}
       /\ finger = None /\ "begin" \in got => got \cap {"end", "other"} # {}
  /\ replays > 0 => "begin" \notin got

(***************************************************************************)
(* A swipe or a workspace hotkey that finds no swipe on its way, and is    *)
(* not interfered with, ends in the space it asked for: a swipe goes one   *)
(* space further and stops at the edge, whatever was reloaded, stopped,    *)
(* suspended or deferred meanwhile (daemon.cpp:655-710, control.cpp).      *)
(***************************************************************************)
AskedIsReached == stream = <<>> /\ goal # None => at = goal

(***************************************************************************)
(* What is deferred is what the user pressed for: the requests on the main *)
(* queue are, in the order of the presses, those of the first action with  *)
(* the shortcut in the settings in force at the press, whatever was        *)
(* reloaded or stopped since (daemon.cpp:570-594, 711-731, 846-875).       *)
(***************************************************************************)
DeferredIsOwed == queue = owed

(***************************************************************************)
(* Once no more keys are pressed, all deferred actions get done, also when *)
(* the runtime is stopped (daemon.cpp:570-594).                            *)
(***************************************************************************)
PressesGetDone ==
  <>[][~(\E press \in Presses : KeyDown(press))]_vars => <>[](queue = <<>>)

(***************************************************************************)
(* Once no more gestures begin and no more actions run, all synthetic      *)
(* swipes have reached the Dock: the tap never takes its own swipe for one *)
(* of the user and replays it again (daemon.cpp:656, 909-911,              *)
(* gesture.hpp:240-245).                                                   *)
(***************************************************************************)
SwipesArrive ==
  <>[][~RunDeferred /\ ~(\E dir \in Gestures : BeginGesture(dir))]_vars
    => <>[](stream = <<>>)
=============================================================================
