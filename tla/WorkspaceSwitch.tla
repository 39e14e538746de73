--------------------------- MODULE WorkspaceSwitch ---------------------------
(***************************************************************************)
(* Workspace switching with several displays.  A request is resolved to a  *)
(* display, the swipes that lead to the space asked for are planned from   *)
(* the current space the window server reports, and posted; the Dock       *)
(* handles them one by one, later.  In Mission Control a job is left       *)
(* behind that polls until the space asked for is shown and at rest, and   *)
(* then highlights its frontmost window.                                   *)
(*                                                                         *)
(* The window server keeps one list of spaces per display, or a single one *)
(* for all of them, "Main", when displays have no separate spaces.         *)
(***************************************************************************)
EXTENDS WorkspacePlan, Sequences, FiniteSetsExt

CONSTANTS
  Displays,   \* the displays
  Main,       \* the entry that stands for all displays in unified mode
  NumSpaces,  \* the number of spaces of each entry
  Occupied,   \* the spaces that have windows: pairs of an entry and an index
  Requests,   \* the workspace requests the hotkeys are bound to
  Nothing,    \* no place, no session, no job, no aim, no highlight
  MaxUnderWay,\* bound: swipes the Dock has not handled, and highlight jobs
  Polls       \* bound: how often a job polls before its deadline

AllEntries == Displays \cup {Main}

ASSUME WorkspaceAssumption ==
  /\ Main \notin Displays
  /\ NumSpaces \in [AllEntries -> Nat \ {0}]
  /\ MaxUnderWay \in Nat /\ Polls \in Nat
  /\ \A req \in Requests : /\ req.action \in WorkspaceActions
                           /\ req.index \in Nat
                           /\ req.wrap \in BOOLEAN
                           /\ req.target_focused_display \in BOOLEAN

Indices == UNION {0 .. NumSpaces[e] - 1 : e \in AllEntries}

Layouts ==
  {f \in [AllEntries -> Indices] : \A e \in AllEntries : f[e] \in 0 .. NumSpaces[e] - 1}

ASSUME NothingAssumption == Nothing \notin Displays \cup Layouts

VARIABLES
  unified,     \* displays have no separate spaces
  at,          \* the space every entry shows
  moving,      \* the Dock animates a change of space
  swipes,      \* swipes posted, not yet handled by the Dock, oldest first
  cursor,      \* the display the cursor is on
  active,      \* the display active_display_identifier names
  overlay,     \* the overlay the Dock shows: hidden, mission_control, expose
  animating,   \* the overlay is opening or closing
  session,     \* the display of the thumbnail session, when it is current
  jobs,        \* the overlay_highlight_jobs for a space
  aim,         \* history: the layout that was asked for, if nothing interfered
  promised,    \* history: the space whose front window should get highlighted
  highlighted  \* history: the space whose front window is, since the promise

dock == <<at, moving, swipes>>
surface == <<overlay, animating>>
user == <<unified, cursor, active>>
highlight == <<promised, highlighted>>
vars == <<user, dock, surface, session, jobs, aim, highlight>>

NoPromise == promised' = Nothing /\ highlighted' = Nothing

-----------------------------------------------------------------------------
(***************************************************************************)
(* What the window server and the Dock report.                             *)
(***************************************************************************)
(* The entries of copy_managed_display_spaces, and that of a display.      *)
Entries == IF unified THEN {Main} ELSE Displays

EntryOf(d) == IF unified THEN Main ELSE d

OverlayIsShowing == overlay # "hidden"

(* detect_dock_view_state: in an animation the accessibility hierarchy may *)
(* not hold the overlay.                                                   *)
DockStates == {overlay} \cup (IF animating THEN {"hidden"} ELSE {})

-----------------------------------------------------------------------------
(***************************************************************************)
(* resolve_workspace_display: the entry the request is planned for, the    *)
(* place its swipes are reported at (the cursor's when there is none), and *)
(* the display a highlight belongs on, if one was resolved.  Under an      *)
(* overlay overlay_display goes first: in unified mode it knows a display  *)
(* only by its session, and the window server then has no such entry.      *)
(***************************************************************************)
ResolveAtCursor(req) ==    \* mutant: swipes always land at the cursor
  IF OverlayIsShowing /\ session # Nothing
  THEN [entry |-> session, place |-> Nothing, display |-> session]
  ELSE IF unified THEN [entry |-> Main, place |-> Nothing, display |-> Nothing]
  ELSE IF OverlayIsShowing THEN [entry |-> active, place |-> Nothing, display |-> active]
  ELSE IF req.target_focused_display
  THEN [entry |-> active, place |-> Nothing, display |-> Nothing]
  ELSE [entry |-> cursor, place |-> Nothing, display |-> Nothing]

ResolveWorkspaceDisplay(req) ==
  IF OverlayIsShowing /\ session # Nothing
  THEN [entry |-> session, place |-> session, display |-> session]
  ELSE IF unified THEN [entry |-> Main, place |-> Nothing, display |-> Nothing]
  ELSE IF OverlayIsShowing THEN [entry |-> active, place |-> active, display |-> active]
  ELSE IF req.target_focused_display
  THEN [entry |-> active, place |-> active, display |-> Nothing]
  ELSE [entry |-> cursor, place |-> Nothing, display |-> Nothing]

(* In App Expose left and right swipe once, whatever the spaces are.       *)
MotionUnbounded(req, e, seen) ==    \* mutant: in Mission Control as well
  IF seen # "hidden" /\ req.action \in Horizontal
  THEN [direction |-> req.action, count |-> 1]
  ELSE PlanWorkspaceRequest(req, at[e], NumSpaces[e])

Motion(req, e, seen) ==
  IF seen = "expose" /\ req.action \in Horizontal
  THEN [direction |-> req.action, count |-> 1]
  ELSE PlanWorkspaceRequest(req, at[e], NumSpaces[e])

(* The space a motion leads to: the one the highlight waits for.           *)
TargetNextDoor(e, motion) ==    \* mutant: taken to be one step away
  IF motion.direction = "left" THEN at[e] - 1 ELSE at[e] + 1

TargetIndex(e, motion) ==
  IF motion.direction = "left" THEN at[e] - motion.count ELSE at[e] + motion.count

-----------------------------------------------------------------------------
(***************************************************************************)
(* What the user asked for, told from what is on the screen.               *)
(***************************************************************************)
MeantEntry(req) ==
  CASE OverlayIsShowing /\ session # Nothing -> EntryOf(session)
    [] OverlayIsShowing /\ session = Nothing -> EntryOf(active)
    [] OTHER -> EntryOf(IF req.target_focused_display THEN active ELSE cursor)

(* A press on top of swipes under way adds up only when it goes the same   *)
(* way, step by step, on the same display.                                 *)
LandsOn(s) == EntryOf(IF s.place = Nothing THEN cursor ELSE s.place)

AddsUp(req) ==
  /\ req.action \in Horizontal
  /\ ~req.wrap
  /\ \A i \in DOMAIN swipes : /\ swipes[i].direction = req.action
                              /\ LandsOn(swipes[i]) = MeantEntry(req)

Asked(req) ==
  LET e == MeantEntry(req)
  IN  IF overlay = "expose"
      THEN IF ~animating /\ req.action \in Horizontal /\ swipes = <<>> THEN at ELSE Nothing
      ELSE IF swipes = <<>>
      THEN [at EXCEPT ![e] = SpaceAskedFor(req, at[e], NumSpaces[e])]
      ELSE IF aim # Nothing /\ AddsUp(req)
      THEN [aim EXCEPT ![e] = AfterSwipe(req.action, aim[e], NumSpaces[e])]
      ELSE Nothing

(* The highlight a press may count on: nothing else is on its way, no job  *)
(* of another display may come in between, and the space has a window.     *)
HighlightAsked(req) ==
  LET e == MeantEntry(req)
      space == SpaceAskedFor(req, at[e], NumSpaces[e])
  IN  IF /\ overlay = "mission_control" /\ ~animating /\ ~unified
         /\ swipes = <<>>
         /\ \A job \in jobs : job.display = e
         /\ space # at[e]
         /\ <<e, space>> \in Occupied
      THEN [entry |-> e, space |-> space]
      ELSE Nothing

-----------------------------------------------------------------------------
(***************************************************************************)
(* execute_workspace_request.  A request that cannot be resolved or that   *)
(* finds no spaces fails and changes nothing; so does one with no motion.  *)
(* The list of spaces is read again for the space to highlight; when it    *)
(* cannot be read, the swipes go without a job.  Making a swipe may fail:  *)
(* the swipes before it were posted, no job is left, an error is reported. *)
(***************************************************************************)
HighlightWhenSpaceAppears(d, space) ==
  /\ jobs' = jobs \cup {[display |-> d, space |-> space, still |-> FALSE, left |-> Polls]}

PostSwipes(motion, made, place) ==
  /\ swipes' = swipes \o [i \in 1 .. made |->
                            [direction |-> motion.direction, place |-> place]]

Post(req, r, motion, seen) ==
  \/ /\ PostSwipes(motion, motion.count, r.place)
     /\ IF seen = "mission_control" /\ r.display # Nothing
        THEN HighlightWhenSpaceAppears(r.display, TargetIndex(r.entry, motion))
        ELSE UNCHANGED jobs
     /\ aim' = Asked(req)
     /\ promised' = HighlightAsked(req)
     /\ highlighted' = Nothing
  \/ /\ seen = "mission_control"
     /\ PostSwipes(motion, motion.count, r.place)
     /\ UNCHANGED jobs
     /\ aim' = Asked(req)
     /\ NoPromise
  \/ /\ \E made \in 0 .. motion.count - 1 : PostSwipes(motion, made, r.place)
     /\ UNCHANGED jobs
     /\ aim' = Nothing
     /\ NoPromise

Press(req) ==
  LET r == ResolveWorkspaceDisplay(req)
  IN  /\ r.entry \in Entries
      /\ \E seen \in DockStates :
           LET motion == Motion(req, r.entry, seen)
           IN  /\ motion.count > 0
               /\ Post(req, r, motion, seen)
      /\ Len(swipes') + Cardinality(jobs') <= MaxUnderWay
      /\ UNCHANGED <<user, at, moving, surface, session>>

-----------------------------------------------------------------------------
(***************************************************************************)
(* poll_overlay_highlight for a space.  A job that is not done looks at    *)
(* the clock and polls again or gives up.                                  *)
(***************************************************************************)
RescheduleForever(job, still) ==    \* mutant: the deadline is not looked at
  /\ jobs' = (jobs \ {job}) \cup {[job EXCEPT !.still = still]}
  /\ UNCHANGED highlight

(* A job that runs out while the Dock is still busy breaks no promise.     *)
Reschedule(job, still) ==
  IF job.left > 0
  THEN /\ jobs' = (jobs \ {job}) \cup {[job EXCEPT !.still = still, !.left = job.left - 1]}
       /\ UNCHANGED highlight
  ELSE /\ jobs' = jobs \ {job}
       /\ IF moving \/ swipes # <<>> THEN NoPromise ELSE UNCHANGED highlight

(* current_space_id_for_display and load_overlay_snapshot.                 *)
SpaceIsShown(job) == at[EntryOf(job.display)] = job.space

HasWindows(job) == <<EntryOf(job.display), job.space>> \in Occupied

(* In App Expose only the windows of one program are looked at.            *)
PollAgain(job) ==
  /\ \/ /\ ~SpaceIsShown(job) \/ ~HasWindows(job) \/ overlay = "expose"
        /\ Reschedule(job, job.still)
     \/ /\ SpaceIsShown(job) /\ HasWindows(job)
        /\ moving \/ ~job.still
        /\ Reschedule(job, ~moving)
  /\ UNCHANGED session

(* The frame of the front window was the same twice: it is hovered.        *)
HoverFront(job) ==
  /\ SpaceIsShown(job) /\ HasWindows(job)
  /\ job.still /\ ~moving
  /\ jobs' = jobs \ {job}
  /\ \/ /\ session' = job.display
        /\ highlighted' = IF promised = Nothing THEN Nothing
                          ELSE [entry |-> EntryOf(job.display), space |-> job.space]
        /\ UNCHANGED promised
     \/ UNCHANGED session /\ NoPromise     \* the hop fails

Poll ==
  /\ \E job \in jobs : PollAgain(job) \/ HoverFront(job)
  /\ UNCHANGED <<user, dock, surface, aim>>

-----------------------------------------------------------------------------
(***************************************************************************)
(* The Dock.  Where a swipe lands that names no place is decided when it   *)
(* is handled.  In App Expose a swipe switches to another program.         *)
(***************************************************************************)
Shows(e, space) ==
  /\ at' = [at EXCEPT ![e] = space]
  /\ moving' = (moving \/ space # at[e])

HandleSwipe ==
  /\ swipes # <<>>
  /\ swipes' = Tail(swipes)
  /\ LET e == LandsOn(Head(swipes))
     IN  \/ /\ overlay # "expose" \/ animating
            /\ Shows(e, AfterSwipe(Head(swipes).direction, at[e], NumSpaces[e]))
         \/ /\ overlay = "expose"
            /\ UNCHANGED <<at, moving>>
  /\ UNCHANGED <<user, surface, session, jobs, aim, highlight>>

(* The new space comes to rest; a job needs two polls more, and may by now *)
(* be too close to its deadline for that.                                  *)
ComesToRest ==
  /\ moving
  /\ moving' = FALSE
  /\ IF \E job \in jobs : job.left = 0 THEN NoPromise ELSE UNCHANGED highlight
  /\ UNCHANGED <<user, at, swipes, surface, session, jobs, aim>>

-----------------------------------------------------------------------------
(***************************************************************************)
(* The user, and the rest of the runtime.                                  *)
(***************************************************************************)
(* The cursor moves, and with it goes the session.  Swipes that name no    *)
(* place may land on another display now.                                  *)
MoveCursor(d) ==
  /\ cursor' = d
  /\ session' = Nothing
  /\ NoPromise
  /\ aim' = IF ~unified /\ d # cursor /\ \E i \in DOMAIN swipes : swipes[i].place = Nothing
            THEN Nothing ELSE aim
  /\ UNCHANGED <<unified, active, dock, surface, jobs>>

Focus(d) ==
  /\ active' = d
  /\ UNCHANGED <<unified, cursor, dock, surface, session, jobs, aim, highlight>>

(* A swipe of the user's own that the Dock follows.                        *)
NativeSwipe(dir) ==
  /\ overlay # "expose"
  /\ LET e == EntryOf(cursor)
     IN  /\ AfterSwipe(dir, at[e], NumSpaces[e]) # at[e]
         /\ Shows(e, AfterSwipe(dir, at[e], NumSpaces[e]))
  /\ aim' = Nothing
  /\ NoPromise
  /\ UNCHANGED <<swipes, user, surface, session, jobs>>

(* The overlay opens and closes, with an animation.  A dismissal through   *)
(* the runtime ends the session.                                           *)
OverlayMoves ==
  /\ animating' = ~animating
  /\ \/ ~animating /\ overlay = "hidden" /\ overlay' \in {"mission_control", "expose"}
     \/ ~animating /\ overlay # "hidden" /\ UNCHANGED overlay
     \/ animating /\ overlay' \in {overlay, "hidden"}
  /\ session' \in {session, Nothing}
  /\ NoPromise
  /\ aim' = IF swipes # <<>> /\ "expose" \in {overlay, overlay'} THEN Nothing ELSE aim
  /\ UNCHANGED <<user, dock, jobs>>

(* A display or window hotkey, or the job of a toggle, moves the highlight *)
(* and with it the session to a display.                                   *)
HighlightMoves(d) ==
  /\ OverlayIsShowing
  /\ session' = d
  /\ NoPromise
  /\ UNCHANGED <<user, dock, surface, jobs, aim>>

-----------------------------------------------------------------------------
Init ==
  /\ unified \in BOOLEAN
  /\ at \in Layouts
  /\ \A e \in AllEntries \ Entries : at[e] = 0
  /\ moving = FALSE
  /\ swipes = <<>>
  /\ cursor \in Displays
  /\ active \in Displays
  /\ overlay = "hidden"
  /\ animating = FALSE
  /\ session = Nothing
  /\ jobs = {}
  /\ aim = Nothing
  /\ promised = Nothing
  /\ highlighted = Nothing

Next ==
  \/ \E req \in Requests : Press(req)
  \/ Poll
  \/ HandleSwipe
  \/ ComesToRest
  \/ \E d \in Displays : MoveCursor(d) \/ Focus(d) \/ HighlightMoves(d)
  \/ \E dir \in Horizontal : NativeSwipe(dir)
  \/ OverlayMoves

(* The Dock handles what it is given, and the main queue is served.        *)
Spec ==
  /\ Init
  /\ [][Next]_vars
  /\ WF_vars(HandleSwipe)
  /\ WF_vars(Poll)

-----------------------------------------------------------------------------
Swipe == [direction : Horizontal, place : Displays \cup {Nothing}]

Job == [display : Displays, space : Indices, still : BOOLEAN, left : 0 .. Polls]

TypeOK ==
  /\ unified \in BOOLEAN
  /\ at \in Layouts
  /\ moving \in BOOLEAN
  /\ swipes \in Seq(Swipe)
  /\ cursor \in Displays
  /\ active \in Displays
  /\ overlay \in {"hidden", "mission_control", "expose"}
  /\ animating \in BOOLEAN
  /\ session \in Displays \cup {Nothing}
  /\ jobs \subseteq Job
  /\ \A job \in jobs : ~unified /\ job.space < NumSpaces[job.display]
  /\ aim # Nothing => aim \in Layouts

(***************************************************************************)
(* A workspace hotkey pressed with no swipe on its way ends with the space *)
(* it asks for on the display it is meant for, and every other display as  *)
(* it was; presses in the same direction on top of it add up.  The cursor, *)
(* when the hotkey does not follow it, the focus, the session and Mission  *)
(* Control may change meanwhile (control.cpp:253-405, 619-691).            *)
(***************************************************************************)
AskedSpaceShown == swipes = <<>> /\ aim # Nothing => at = aim

(***************************************************************************)
(* In Mission Control, once the swipes are handled and the jobs are done,  *)
(* the highlight is on the front window of the space that was asked for,   *)
(* whatever jobs of earlier presses on the display were still around       *)
(* (control.cpp:383-404, mission_control.cpp:495-604).                     *)
(***************************************************************************)
HighlightFollows ==
  promised # Nothing /\ swipes = <<>> /\ ~moving /\ jobs = {} => highlighted = promised

(***************************************************************************)
(* Once no more keys are pressed, the swipes get handled and every job     *)
(* ends, whether or not its space ever appears (mission_control.cpp:498).  *)
(***************************************************************************)
ComesToAnEnd ==
  <>[][~(\E req \in Requests : Press(req))]_vars => <>[](swipes = <<>> /\ jobs = {})
=============================================================================
