------------------------------- MODULE Overlay -------------------------------
(***************************************************************************)
(* Mission Control and App Expose.  The Dock opens and closes an overlay   *)
(* on swipes, with an animation, and shows each window as a thumbnail; the *)
(* one the mouse last moved over is highlighted, and the one under the     *)
(* cursor when a swipe closes the overlay is activated.  The runtime moves *)
(* the highlight with mouse events posted in an invisible hop of the       *)
(* cursor, remembers it as a session, and before a swipe that closes the   *)
(* overlay parks the hidden cursor on it.  Two kinds of polling job run    *)
(* from the main queue: one highlights the front window of an overlay that *)
(* was just opened, one brings the cursor back after a dismissal.          *)
(*                                                                         *)
(* A point is named after the window whose thumbnail it lies in, or is one *)
(* of the anchors of the displays, which lie in no thumbnail.              *)
(***************************************************************************)
EXTENDS DisplayPlan, SequencesExt

CONSTANTS
  Displays,      \* the displays, left to right
  Reading,       \* the windows, in the reading order of their thumbnails
  DisplayOf,     \* the display each point and each window is on
  AppOf,         \* the program each window belongs to
  Anchor,        \* cursor_anchor_point of each display
  Requests,      \* the display requests the hotkeys are bound to
  MoveCursor,    \* move_cursor_to_target_display
  Nothing,       \* no window, no display, no frame, no session, no job
  MousePoints,   \* the points the user moves the mouse to
  OldCentres,    \* where the centre of a window or a moving thumbnail may be
  MaxSwipes,     \* bound: swipes posted that the Dock has not handled
  MaxJobs,       \* bound: jobs of each kind at a time
  MaxHighlights, \* bound: highlight jobs at a time, if fewer
  Polls,         \* bound: how often a job polls before its deadline
  MaxUnshown,    \* bound: how often showing the cursor fails
  Disturbances   \* which of the things below the instance lets happen

Disturbing == {"native", "mouse", "lost", "slow", "failure", "expose_swipe"}

Windows == Range(Reading)

Points == Windows \cup Range(Anchor)

Frames == [window : Windows, kind : {"window", "thumbnail"}]

Elements == {"mission_control", "expose"}

(* A session remembers the display and the window of the hover, where the  *)
(* cursor was left and the point to go back to; a highlight job the frame  *)
(* it saw last, a dismissal job where the cursor belongs and the window it *)
(* will bring forward.                                                     *)
Sessions ==
  [display : Connected(Displays), window : Windows \cup {Nothing},
   cursor : Points, target : Points]

HighlightJobs ==
  [display : Connected(Displays) \cup {Nothing}, last : Frames \cup {Nothing},
   left : 0 .. Polls]

DismissalJobs == [home : Points, window : Windows, left : 0 .. Polls]

ASSUME OverlayAssumption ==
  /\ Displays \in Seq(Connected(Displays))
  /\ Reading \in Seq(Windows) /\ Reading # <<>>
  /\ Connected(Displays) \subseteq DOMAIN Anchor
  /\ \A p \in Points : DisplayOf[p] \in Connected(Displays)
  /\ \A d \in Connected(Displays) : DisplayOf[Anchor[d]] = d
  /\ Requests \subseteq DisplayRequests
  /\ MaxJobs \in Nat
  /\ MaxHighlights \in Nat
  /\ Polls \in Nat
  /\ MaxUnshown \in Nat
  /\ MousePoints \cup OldCentres \subseteq Points
  /\ Disturbances \subseteq Disturbing

ASSUME NothingAssumption ==
  /\ Nothing \notin Points \cup Connected(Displays) \cup Frames
  /\ Nothing \notin Sessions
  /\ Nothing \notin HighlightJobs
  /\ Nothing \notin DismissalJobs

VARIABLES
  view,       \* the overlay the Dock shows, or shows the closing of
  phase,      \* hidden, appearing, up or vanishing
  swipes,     \* swipes posted, not yet handled by the Dock, oldest first
  stack,      \* the windows, front to back
  cursor,     \* where the cursor is
  hovered,    \* the window whose thumbnail the overlay highlights
  session,    \* thumbnail_cycle_state_cache
  highlights, \* the overlay_highlight_jobs
  dismissals, \* the overlay_dismissal_jobs
  hides,      \* how often the cursor was hidden and not shown again
  unshown,    \* history: how often showing the hidden cursor failed
  home,       \* history: where the cursor was put last, hops aside
  astray,     \* history: the highlight is not one the code knows of
  promised    \* history: the window highlighted when a dismissal began

(***************************************************************************)
(* The runtime cannot ask what is highlighted.  The highlight is astray    *)
(*   - once an overlay has opened or closed, or its animation has ended    *)
(*     (a session from before may still seem current);                     *)
(*   - after a hover aimed at windows that are not at rest;                *)
(*   - after a hover whose mouse event is not applied in time;             *)
(*   - after a hover that failed with the cursor moved;                    *)
(*   - when a session that was current has ended, timed out or prepared    *)
(*     for a dismissal;                                                    *)
(*   - when a dismissal has put the cursor back under an open overlay;     *)
(*   - when the cursor has left the place where the session had it and     *)
(*     come back to it, which makes the session current again;             *)
(* until the next hover that succeeds, or the next movement of the mouse.  *)
(***************************************************************************)
dock == <<view, phase, swipes, stack>>
mouse == <<cursor, hides, unshown, home>>
jobs == <<highlights, dismissals>>
vars == <<dock, mouse, jobs, hovered, session, astray, promised>>

Slots == 1 .. MaxJobs

-----------------------------------------------------------------------------
(* What a handler sees of the overlay.                                     *)
OverlayIsShowing == phase # "hidden"

(* detect_dock_view_state: during the animations the Dock's accessibility  *)
(* hierarchy may or may not hold the overlay.                              *)
DockStates ==
  CASE phase = "hidden" -> {"hidden"}
    [] phase = "up" -> {view}
    [] OTHER -> {view, "hidden"}

(* thumbnails_on_display, with the filter of overlay_app_filter.           *)
Thumbnails(d, seen) ==
  {w \in Windows : /\ DisplayOf[w] = d
                   /\ seen = "expose" => AppOf[w] = AppOf[Head(stack)]}

FrontOf(ws) == stack[Min({i \in DOMAIN stack : stack[i] \in ws})]

ActiveDisplay == DisplayOf[Head(stack)]

(* A session names the window the highlight is on, if any; one that has    *)
(* timed out is as good as none, and is dropped at once.                   *)
SessionIsCurrentAnywhere ==     \* mutant: a moved cursor is not noticed
  session # Nothing

SessionIsCurrent == session # Nothing /\ cursor = session.cursor

SessionWindow == IF SessionIsCurrent THEN session.window ELSE Nothing

(* Putting the cursor back where the session left it makes the session     *)
(* current again, although the highlight has gone.                         *)
Revives(p) == session # Nothing /\ session.cursor = p /\ cursor # p

ActiveAlways == ActiveDisplay      \* mutant: the menu bar's display, always

OverlayDisplay == IF SessionIsCurrent THEN session.display ELSE ActiveDisplay

(* The window a point hits; while thumbnails move it may be any.           *)
Under(p) ==
  CASE phase = "hidden" -> {Nothing}
    [] phase = "up" -> {IF p \in Windows /\ p \in Thumbnails(DisplayOf[p], view)
                        THEN p ELSE Nothing}
    [] OTHER -> Windows \cup {Nothing}

Raised(w) == IF w = Nothing THEN stack
             ELSE [i \in DOMAIN stack |->
                     CASE i = 1 -> w
                       [] i \in 2 .. PositionOf(stack, w) -> stack[i - 1]
                       [] OTHER -> stack[i]]

-----------------------------------------------------------------------------
(***************************************************************************)
(* hover_and_remember, with the cursor at `at`.  A hop brings the cursor   *)
(* back and leaves no trace but the highlight; when the warp there or back *)
(* fails, nothing is remembered.                                           *)
(***************************************************************************)
RememberSession(d, w, at, target) ==
  session' = [display |-> d, window |-> w, cursor |-> at, target |-> target]

(* Showing a cursor that is not hidden changes nothing.                    *)
HidesAfterShow(h) == Max({h - 1, 0})

(* show_cursor, after the cursor was hidden h times; nobody looks at the   *)
(* result.                                                                 *)
ShowCursor(h) ==
  \/ hides' = HidesAfterShow(h) /\ UNCHANGED unshown
  \/ /\ "failure" \in Disturbances
     /\ unshown < MaxUnshown
     /\ hides' = h
     /\ unshown' = unshown + 1

(* While nothing is at rest the point aimed at is soon another's.          *)
Targets(w) == IF phase = "up" THEN {w} ELSE OldCentres

HighlightsAt(w) ==
  CASE phase = "up" -> {w}
    [] phase = "hidden" -> {Nothing}
    [] OTHER -> {w, Nothing}

HoverHops(d, w, at) ==
  /\ cursor' = at
  /\ hovered' \in HighlightsAt(w)
  /\ \E target \in Targets(w) : RememberSession(d, w, at, target)
  /\ astray' = (phase # "up")

(* cursor_hop waits 50 ms for the event to be applied, and succeeds without *)
(* it.  An event applied later is a movement of the mouse.                 *)
HoverIsLate(d, w, at) ==
  /\ "slow" \in Disturbances
  /\ cursor' = at
  /\ \E target \in Targets(w) : RememberSession(d, w, at, target)
  /\ astray' = TRUE
  /\ UNCHANGED hovered

(* The warp there fails, or the one back, with the event applied or not.   *)
HoverFails(w, at) ==
  /\ "failure" \in Disturbances
  /\ \/ /\ cursor' = at
        /\ astray' = (astray \/ at # cursor)
        /\ UNCHANGED hovered
     \/ /\ cursor' \in Targets(w)
        /\ astray' = TRUE
        /\ hovered' \in HighlightsAt(w) \cup {hovered}
  /\ UNCHANGED session

Hover(d, w, at) ==
  /\ HoverHops(d, w, at) \/ HoverIsLate(d, w, at) \/ HoverFails(w, at)
  /\ ShowCursor(hides + 1)
  /\ home' = IF cursor' = cursor THEN home ELSE cursor'
  /\ promised' = Nothing

-----------------------------------------------------------------------------
(***************************************************************************)
(* Cycling between thumbnails: execute_window_focus_request with an        *)
(* overlay showing, plan_thumbnail_cycle.                                  *)
(***************************************************************************)
(* The neighbour of window w among the windows ws, in reading order.       *)
StepFromWindow(ws, w, dir) ==
  LET places == {k \in DOMAIN Reading : Reading[k] \in ws}
      here   == PositionOf(Reading, w)
      after  == {k \in places : k > here}
      before == {k \in places : k < here}
  IN  Reading[IF dir = "next" THEN Min(IF after = {} THEN places ELSE after)
                              ELSE Max(IF before = {} THEN places ELSE before)]

CurrentUnder(ws, under) ==         \* mutant: the session is not looked at
  IF under \in ws THEN under ELSE Nothing

Current(ws, under) ==
  IF SessionWindow \in ws THEN SessionWindow
  ELSE IF under \in ws THEN under ELSE Nothing

PlanThumbnailCycle(ws, dir, under) ==
  LET current == Current(ws, under)
  IN  IF current # Nothing THEN StepFromWindow(ws, current, dir) ELSE FrontOf(ws)

PressCycle(dir) ==
  /\ OverlayIsShowing
  /\ \E seen \in DockStates :
       LET ws == Thumbnails(OverlayDisplay, seen)
       IN  /\ ws # {}
           /\ \E w \in {PlanThumbnailCycle(ws, dir, under) : under \in Under(cursor)} :
                Hover(OverlayDisplay, w, cursor)
  /\ UNCHANGED <<dock, jobs>>

(***************************************************************************)
(* Switching displays with an overlay showing: execute_display_request and *)
(* highlight_frontmost_on_display.  In App Expose left and right skip the  *)
(* displays that have no thumbnails.                                       *)
(***************************************************************************)
NextWithThumbnails(start, req, seen) ==
  LET n == Len(Displays)
      ahead == IF req.action = "right" THEN start .. (start + n - 1)
                                       ELSE (start - n + 1) .. start
      reached == IF req.wrap THEN ahead ELSE ahead \cap (1 .. n)
      At(k) == Displays[((k + n - 1) % n) + 1]
      shown == {k \in reached : Thumbnails(At(k), seen) # {}}
  IN  IF shown = {} THEN Nothing
      ELSE At(IF req.action = "right" THEN Min(shown) ELSE Max(shown))

OverlayTarget(req, seen) ==
  LET d == StepFrom(Displays, OverlayDisplay, req)
  IN  IF seen = "expose" /\ req.action # "go_to" /\ d # OverlayDisplay
      THEN NextWithThumbnails(PositionOf(Displays, d), req, seen)
      ELSE d

(* With no thumbnail to hover the display alone is remembered, unless the  *)
(* windows cannot be read.                                                 *)
ComesToEmpty(d, at) ==
  /\ cursor' = at
  /\ home' = IF at = cursor THEN home ELSE at
  /\ \/ RememberSession(d, Nothing, at, at) /\ astray' = FALSE
     \/ /\ "failure" \in Disturbances
        /\ astray' = (astray \/ at # cursor)
        /\ UNCHANGED session
  /\ promised' = Nothing
  /\ UNCHANGED <<hovered, hides, unshown>>

PressDisplay(req) ==
  /\ OverlayIsShowing
  /\ Len(Displays) > 1
  /\ \E seen \in DockStates :
       LET d == OverlayTarget(req, seen)
           ws == Thumbnails(d, seen)
           at == IF MoveCursor /\ DisplayOf[cursor] # d THEN Anchor[d] ELSE cursor
       IN  /\ d \notin {Nothing, OverlayDisplay}
           /\ \/ ws = {} /\ ComesToEmpty(d, at)
              \/ ws # {} /\ Hover(d, FrontOf(ws), at)
  /\ UNCHANGED <<dock, jobs>>

-----------------------------------------------------------------------------
(***************************************************************************)
(* prepare_overlay_dismissal: park the hidden cursor on the highlight and  *)
(* start the job that brings it back.  It ends the session in any case.    *)
(***************************************************************************)
NoDismissal == UNCHANGED <<cursor, hides, unshown, dismissals>>

Free(js) == {s \in Slots : js[s] = Nothing}

(* The cursor may stay visible: hiding it may fail.                        *)
ParkCursor ==
  /\ Free(dismissals) # {}
  /\ cursor' = session.target
  /\ \/ hides' = hides + 1
     \/ "failure" \in Disturbances /\ UNCHANGED hides
  /\ dismissals' = [dismissals EXCEPT ![Min(Free(dismissals))] =
       [home |-> cursor, window |-> SessionWindow, left |-> Polls]]
  /\ UNCHANGED unshown

ParkFailsHidden ==                 \* mutant: it is not shown again
  /\ "failure" \in Disturbances
  /\ hides' = hides + 1
  /\ UNCHANGED <<cursor, unshown, dismissals>>

(* The warp failed: the cursor is shown again, if it could be hidden.      *)
ParkFails ==
  /\ "failure" \in Disturbances
  /\ ShowCursor(hides + 1)
  /\ UNCHANGED <<cursor, dismissals>>

ParksForAnySession ==              \* mutant: the index is not looked at
  SessionIsCurrent

Parks == SessionWindow # Nothing

(* What the user may expect a dismissal to bring to the front.             *)
Promise ==
  IF \/ astray
     \/ phase # "up"
     \/ swipes # <<>>
     \/ \E s \in Slots : dismissals[s] # Nothing
     \/ SessionIsCurrent /\ SessionWindow = Nothing
  THEN Nothing ELSE hovered

PrepareOverlayDismissal ==
  /\ session' = Nothing
  /\ \/ /\ Parks
        /\ \/ ParkCursor /\ promised' = Promise
           \/ ParkFails /\ promised' = Nothing
     \/ /\ ~Parks
        /\ NoDismissal
        /\ promised' = Promise
  /\ astray' = (astray \/ SessionIsCurrent)
  /\ UNCHANGED home

Unprepared == UNCHANGED <<session, dismissals, mouse, astray>>

(* A swipe that cannot be posted leaves what was prepared as it is.        *)
PostSwipe(dir) ==
  /\ \/ Len(swipes) < MaxSwipes /\ swipes' = Append(swipes, dir)
     \/ "failure" \in Disturbances /\ UNCHANGED swipes
  /\ UNCHANGED <<view, phase, stack>>

(***************************************************************************)
(* execute_system_ui_request, for Mission Control and for App Expose.      *)
(***************************************************************************)
ToggleDirection(element, seen) ==
  IF element = "mission_control"
  THEN IF seen = "mission_control" THEN "down" ELSE "up"
  ELSE IF seen = "expose" THEN "up" ELSE "down"

Dismisses(dir, seen) ==
  \/ seen = "mission_control" /\ dir = "down"
  \/ seen = "expose" /\ dir = "up"

HighlightWhenOverlayAppears ==
  /\ Free(highlights) # {}
  /\ Cardinality(Slots \ Free(highlights)) < MaxHighlights
  /\ highlights' = [highlights EXCEPT ![Min(Free(highlights))] =
       [display |-> Nothing, last |-> Nothing, left |-> Polls]]

PressToggle(element) ==
  \E seen \in DockStates :
    LET dir == ToggleDirection(element, seen)
    IN  /\ IF Dismisses(dir, seen)
           THEN PrepareOverlayDismissal
           ELSE Unprepared /\ promised' = Nothing
        /\ PostSwipe(dir)
        /\ IF seen = "hidden" /\ swipes' # swipes
           THEN HighlightWhenOverlayAppears
           ELSE UNCHANGED highlights
        /\ UNCHANGED hovered

(***************************************************************************)
(* A vertical swipe of the user's that the event tap replays: only a swipe *)
(* down with an overlay showing prepares a dismissal, whichever overlay.   *)
(***************************************************************************)
FastSwipe(dir) ==
  /\ view = "expose" => "expose_swipe" \in Disturbances
  /\ IF dir = "down" /\ OverlayIsShowing
     THEN PrepareOverlayDismissal
     ELSE Unprepared /\ promised' = IF Dismisses(dir, view) THEN Promise ELSE Nothing
  /\ PostSwipe(dir)
  /\ UNCHANGED <<highlights, hovered>>

-----------------------------------------------------------------------------
(***************************************************************************)
(* poll_overlay_highlight.  A job that has polls left waits for the frame  *)
(* of the front window to be the same twice, then hovers it.               *)
(***************************************************************************)
(* The displays with the active one first, which the first one makes way   *)
(* for, and the first of them that has thumbnails.                         *)
ActiveFirst ==
  [i \in DOMAIN Displays |->
     CASE i = 1 -> ActiveDisplay
       [] i # 1 /\ Displays[i] = ActiveDisplay -> Displays[1]
       [] OTHER -> Displays[i]]

JobDisplay(job, seen) ==
  LET shown == {i \in DOMAIN Displays : Thumbnails(ActiveFirst[i], seen) # {}}
  IN  IF job.display # Nothing THEN job.display
      ELSE IF shown = {} THEN Nothing ELSE ActiveFirst[Min(shown)]

(* Where a window is; no two looks at a moving thumbnail agree.            *)
FrameOf(w) ==
  CASE phase = "hidden" -> [window |-> w, kind |-> "window"]
    [] phase = "up" -> [window |-> w, kind |-> "thumbnail"]
    [] OTHER -> Nothing

Wait(slot, d, frame) ==
  highlights' = [highlights EXCEPT ![slot] =
                   IF @.left = 0 THEN Nothing
                   ELSE [display |-> d, last |-> frame, left |-> @.left - 1]]

PollHighlight(slot) ==
  /\ highlights[slot] # Nothing
  /\ \/ \E seen \in DockStates :
          LET job == highlights[slot]
              d == JobDisplay(job, seen)
              ws == Thumbnails(d, seen)
              frame == FrameOf(FrontOf(ws))
          IN  IF d = Nothing \/ ws = {} \/ frame = Nothing \/ frame # job.last
              THEN /\ Wait(slot, d, IF d = Nothing \/ ws = {} THEN job.last ELSE frame)
                   /\ UNCHANGED <<mouse, hovered, session, astray, promised>>
              ELSE /\ highlights' = [highlights EXCEPT ![slot] = Nothing]
                   /\ Hover(d, FrontOf(ws), cursor)
     \/ /\ "failure" \in Disturbances   \* the windows cannot be read
        /\ Wait(slot, highlights[slot].display, highlights[slot].last)
        /\ UNCHANGED <<mouse, hovered, session, astray, promised>>
  /\ UNCHANGED <<dock, dismissals>>

(***************************************************************************)
(* finish_overlay_dismissal: when the overlay has gone, or at the          *)
(* deadline, the cursor returns, and the window is focused unless it is in *)
(* front on its display already.                                           *)
(***************************************************************************)
WaitsForOverlay(job) ==            \* mutant: there is no deadline
  OverlayIsShowing

StillDismissing(job) == OverlayIsShowing /\ job.left > 0

FocusNothing(w) ==                 \* mutant: it trusts the overlay
  UNCHANGED stack

FocusHighlighted(w) ==
  IF FrontOf(Thumbnails(DisplayOf[w], "hidden")) = w
  THEN UNCHANGED stack
  ELSE stack' = Raised(w)

PollDismissal(slot) ==
  /\ dismissals[slot] # Nothing
  /\ LET job == dismissals[slot]
     IN  IF StillDismissing(job)
         THEN /\ dismissals' = [dismissals EXCEPT ![slot].left = Max({@ - 1, 0})]
              /\ UNCHANGED <<stack, mouse, promised, astray>>
         ELSE /\ dismissals' = [dismissals EXCEPT ![slot] = Nothing]
              /\ \/ cursor' = job.home
                 \/ "failure" \in Disturbances /\ UNCHANGED cursor
              /\ ShowCursor(hides)
              /\ \/ /\ FocusHighlighted(job.window)
                    /\ promised' = IF phase = "up" /\ cursor' \in Windows \ {job.window}
                                   THEN Nothing ELSE promised
                 \/ /\ "failure" \in Disturbances
                    /\ UNCHANGED stack
                    /\ promised' = Nothing
              /\ astray' = (astray \/ OverlayIsShowing \/ Revives(cursor'))
              /\ UNCHANGED home
  /\ UNCHANGED <<view, phase, swipes, highlights, hovered, session>>

-----------------------------------------------------------------------------
(***************************************************************************)
(* The Dock and the user.                                                  *)
(***************************************************************************)
Opens(v) ==
  /\ view' = v
  /\ phase' = "appearing"
  /\ hovered' = Nothing
  /\ astray' = TRUE
  /\ promised' = Nothing
  /\ UNCHANGED stack

Closes(w) ==
  /\ phase' = "vanishing"
  /\ hovered' = Nothing
  /\ stack' = Raised(w)
  /\ astray' = TRUE
  /\ UNCHANGED view

(* The Dock handles a swipe: it opens or closes an overlay, or does        *)
(* nothing.  The thumbnail under the cursor is activated on closing.       *)
HandleSwipe ==
  /\ swipes # <<>>
  /\ swipes' = Tail(swipes)
  /\ LET dir == Head(swipes)
     IN  \/ /\ phase \in {"hidden", "vanishing"}
            /\ Opens(IF dir = "up" THEN "mission_control" ELSE "expose")
         \/ /\ phase \in {"appearing", "up"}
            /\ Dismisses(dir, view)
            /\ \E w \in Under(cursor) : Closes(w)
            /\ UNCHANGED promised
         \/ /\ phase \in {"appearing", "up"}
            /\ ~Dismisses(dir, view)
            /\ promised' = Nothing
            /\ UNCHANGED <<view, phase, stack, hovered, astray>>
  /\ UNCHANGED <<mouse, jobs, session>>

LoseSwipe ==
  /\ "lost" \in Disturbances
  /\ swipes # <<>>
  /\ swipes' = Tail(swipes)
  /\ promised' = Nothing
  /\ UNCHANGED <<view, phase, stack, mouse, jobs, hovered, session, astray>>

Appeared ==
  /\ phase = "appearing"
  /\ phase' = "up"
  /\ hovered' = Nothing
  /\ astray' = TRUE
  /\ UNCHANGED <<view, swipes, stack, mouse, jobs, session, promised>>

Vanished ==
  /\ phase = "vanishing"
  /\ phase' = "hidden"
  /\ view' = "hidden"
  /\ UNCHANGED <<swipes, stack, mouse, jobs, hovered, session, astray, promised>>

(* Esc, a click on a thumbnail or a key of the system's own.               *)
NativeOpen(v) ==
  /\ "native" \in Disturbances
  /\ phase = "hidden"
  /\ Opens(v)
  /\ UNCHANGED <<swipes, mouse, jobs, session>>

NativeClose(w) ==
  /\ "native" \in Disturbances
  /\ phase \in {"appearing", "up"}
  /\ w \in Under(cursor) \cup {Nothing}
  /\ Closes(w)
  /\ promised' = Nothing
  /\ UNCHANGED <<swipes, mouse, jobs, session>>

(* A window is clicked, with no overlay in the way.                        *)
ClickWindow(w) ==
  /\ "native" \in Disturbances
  /\ phase = "hidden"
  /\ stack' = Raised(w)
  /\ promised' = Nothing
  /\ UNCHANGED <<view, phase, swipes, mouse, jobs, hovered, session, astray>>

(* The user moves the mouse.                                               *)
MoveMouse(p) ==
  /\ "mouse" \in Disturbances
  /\ p # cursor
  /\ cursor' = p
  /\ hovered' \in IF phase = "up" THEN Under(p) ELSE {Nothing}
  /\ astray' = Revives(p)
  /\ IF \E s \in Slots : dismissals[s] # Nothing
     THEN UNCHANGED <<home, promised>>
     ELSE home' = p /\ promised' = IF phase = "up" THEN Nothing ELSE promised
  /\ UNCHANGED <<dock, jobs, session, hides, unshown>>

(* thumbnail_cycle_timeout_ms passes.                                      *)
SessionExpires ==
  /\ session # Nothing
  /\ session' = Nothing
  /\ astray' = (astray \/ SessionIsCurrent)
  /\ UNCHANGED <<dock, mouse, jobs, hovered, promised>>

Init ==
  /\ view = "hidden"
  /\ phase = "hidden"
  /\ swipes = <<>>
  /\ stack \in SetToSeqs(Windows)
  /\ cursor \in MousePoints
  /\ hovered = Nothing
  /\ session = Nothing
  /\ highlights = [s \in Slots |-> Nothing]
  /\ dismissals = [s \in Slots |-> Nothing]
  /\ hides = 0
  /\ unshown = 0
  /\ home = cursor
  /\ astray = FALSE
  /\ promised = Nothing

Next ==
  \/ \E dir \in {"next", "previous"} : PressCycle(dir)
  \/ \E req \in Requests : PressDisplay(req)
  \/ \E element \in Elements : PressToggle(element)
  \/ \E dir \in {"up", "down"} : FastSwipe(dir)
  \/ \E slot \in Slots : PollHighlight(slot) \/ PollDismissal(slot)
  \/ HandleSwipe \/ LoseSwipe \/ Appeared \/ Vanished
  \/ \E v \in Elements : NativeOpen(v)
  \/ \E w \in Windows \cup {Nothing} : NativeClose(w)
  \/ \E w \in Windows : ClickWindow(w)
  \/ \E p \in MousePoints : MoveMouse(p)
  \/ SessionExpires

(* The main queue runs the timers of the dismissal jobs.                   *)
Spec == Init /\ [][Next]_vars /\ \A slot \in Slots : WF_vars(PollDismissal(slot))

-----------------------------------------------------------------------------
TypeOK ==
  /\ view \in Elements \cup {"hidden"}
  /\ phase \in {"hidden", "appearing", "up", "vanishing"}
  /\ phase = "hidden" <=> view = "hidden"
  /\ swipes \in Seq({"up", "down"})
  /\ stack \in SetToSeqs(Windows)
  /\ {cursor, home} \subseteq Points
  /\ {hovered, promised} \subseteq Windows \cup {Nothing}
  /\ session \in Sessions \cup {Nothing}
  /\ highlights \in [Slots -> HighlightJobs \cup {Nothing}]
  /\ dismissals \in [Slots -> DismissalJobs \cup {Nothing}]
  /\ hides \in Nat
  /\ unshown \in 0 .. MaxUnshown
  /\ astray \in BOOLEAN

(***************************************************************************)
(* A session that requests go by is what the overlay shows: with the       *)
(* overlay up and the cursor where the hover left it, the window the       *)
(* session stands on is the highlighted one, unless the highlight is       *)
(* astray in one of the ways listed at that variable                       *)
(* (mission_control.cpp:215-224, 447-482).                                 *)
(***************************************************************************)
SessionIsTheHighlight ==
  (phase = "up" /\ ~astray /\ SessionWindow # Nothing)
    => hovered = SessionWindow

(***************************************************************************)
(* Requests made under an overlay act on the display the highlight is on,  *)
(* which need not be the active one: hovering does not move the menu bar   *)
(* (control_internal.hpp:311-317).  Again only while it is not astray.     *)
(* After a move to a display without thumbnails they act on that one,      *)
(* where the cursor is if it follows (mission_control.cpp:654-664).        *)
(***************************************************************************)
RequestsActOnHighlight ==
  /\ phase = "up" /\ ~astray /\ SessionWindow # Nothing
       => OverlayDisplay = DisplayOf[hovered]
  /\ MoveCursor /\ SessionIsCurrent /\ session.window = Nothing
       => OverlayDisplay = DisplayOf[cursor]

(***************************************************************************)
(* The cycle keys step on from the window that is highlighted, by a hover  *)
(* or by the mouse, and not from where a session or the cursor was before  *)
(* (README.md:121-130, mission_control.cpp:287-303), unless the highlight  *)
(* is astray in one of the ways listed at that variable.                   *)
(***************************************************************************)
KeysStepOn ==
  LET ws == Thumbnails(OverlayDisplay, view)
  IN  (phase = "up" /\ ~astray /\ hovered \in ws)
        => \A dir \in {"next", "previous"}, under \in Under(cursor) :
             PlanThumbnailCycle(ws, dir, under) = StepFromWindow(ws, hovered, dir)

(***************************************************************************)
(* Dismissing the overlay through SpaceHound brings the window that was    *)
(* highlighted to the front of its display, however the cursor's return,   *)
(* the mouse, a session's end and the deadline fall before, between and    *)
(* after the Dock's steps (README.md:128-130, control_internal.hpp:        *)
(* 325-334).  Nothing is promised                                          *)
(*   - while the highlight is astray, the overlay moves, or another swipe  *)
(*     or dismissal is under way, nor for a session on an empty display,   *)
(* and the promise lapses when                                             *)
(*   - a call fails, or the Dock loses the swipe or ignores it;            *)
(*   - the user presses another key, clicks, or opens or closes something; *)
(*   - the mouse moves with the overlay still up and no cursor parked;     *)
(*   - the deadline passes with the overlay still up, and the cursor it    *)
(*     puts back lies in the thumbnail of another window.                  *)
(***************************************************************************)
NoneUnderWay == \A s \in Slots : dismissals[s] = Nothing

AtRest == phase = "hidden" /\ swipes = <<>> /\ NoneUnderWay

DismissalBringsHighlightForward ==
  (AtRest /\ promised # Nothing)
    => FrontOf(Thumbnails(DisplayOf[promised], "hidden")) = promised

(***************************************************************************)
(* When no dismissal is under way the cursor is hidden no more often than  *)
(* a call that should have shown it failed: the hops and the dismissals,   *)
(* however they overlap and whatever else fails in them, undo each hide    *)
(* that took effect (mission_control.cpp:722-723, 776-784,                 *)
(* display_switch.cpp:370-390).                                            *)
(***************************************************************************)
CursorVisibleAtRest == NoneUnderWay => hides <= unshown

(***************************************************************************)
(* When no dismissal is under way any more, and nothing fails, the cursor  *)
(* is back where the user, or the move to a display, put it                *)
(* (control_internal.hpp:328-330).                                         *)
(***************************************************************************)
CursorReturns == NoneUnderWay => cursor = home

(***************************************************************************)
(* Every dismissal comes to an end, even if the overlay never goes away    *)
(* (mission_control.cpp:714-723).                                          *)
(***************************************************************************)
DismissalEnds ==
  \A s \in Slots : dismissals[s] # Nothing ~> dismissals[s] = Nothing

(***************************************************************************)
(* The highlight job hovers a window only once Mission Control or App      *)
(* Expose has appeared (control_internal.hpp:279-282).                     *)
(***************************************************************************)
HighlightsOnlyOverlay ==
  [][\A s \in Slots :
       (highlights[s] # Nothing /\ highlights'[s] = Nothing /\ session' # session)
          => OverlayIsShowing]_vars
=============================================================================
