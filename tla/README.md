# SpaceHound: specifications and proofs

TLA+ specifications of SpaceHound, the menu bar program that switches spaces,
displays and windows of macOS from hotkeys and trackpad gestures. The modules
are translated from the source; TLC checks them on small instances, and TLAPS
proves the theorems of the `*Proofs` modules for all instances.

Paths are relative to `src/`. `display_switch.cpp`, `mission_control.cpp`,
`control.cpp`, `daemon.cpp` and `settings.cpp` are in `spacehound-core/lib/`, the
files of the app in `SpaceHoundApp/Sources/`.

## 1. The system

The C++ runtime `spacehound-core` is linked into an AppKit app. Everything runs
on the **main thread**: the event tap is a source of the main run loop, hotkeys
are deferred to the main queue, polling jobs are `dispatch_after` blocks, space
changes are notifications that queue blocks. So no handler interrupts another,
and there are no locks to reason about. What makes the program hard is that the
handlers interleave *with each other* and with a world that answers late, or not
at all: the window server, the Dock and its animations, the user, the file
system. Most components are, at heart, a remembered claim about that world
(the last display switch, the frozen window order, the highlighted thumbnail,
the last space told) and rules for when to stop believing it.

### Inventory

| Component | State | Operations | Talks to |
|---|---|---|---|
| **Display switching** (`display_switch.cpp:35-560, 770-905`) | `pending_display_switch_cache`: origin, target, time of the last switch | `plan_display_request`, `execute_display_request`, `active_display_identifier`, `record_display_switch` | window server (active menu-bar display, late), accessibility (focus), the mouse (click on an empty display) |
| **Window cycling** (`display_switch.cpp:600-765, 907-957`) | `window_cycle_state_cache`: frozen order, index, time | `plan_window_focus_request`, `execute_window_focus_request` | display switching (which display is active), window list |
| **Overlay navigation and dismissal** (`mission_control.cpp`, `control.cpp:464-508`, `daemon.cpp:664-709`) | `thumbnail_cycle_state_cache` (the session), `overlay_highlight_job`s, `overlay_dismissal_job`s | thumbnail cycling, display switching under an overlay, toggles, fast swipes, two kinds of polling jobs | the Dock (posted swipes, mouse events, animations), the cursor |
| **Workspace switching** (`control.cpp:127-405, 619-691`) | none of its own | `resolve_workspace_display`, `plan_workspace_request`, sequences of swipes | window server (spaces of a display), the Dock, overlay jobs |
| **Event tap and hotkeys** (`daemon.cpp:431-749, 846-915`) | compiled hotkeys, gesture phase, `input_suspended` | the tap callback, `deferred_action`, replay of fast swipes, compile | all requests above |
| **Runtime lifecycle** (`daemon.cpp:775-832, 925-1006`, `SHRuntimeHost.mm`, `AppDelegate.m`) | running runtime, `last_workspace_state`, `menuBarTitle`, `startError`, menu items, `accessibilityPollTimer` | launch, prompt, poll, start, reload, stop, space notification, queued block | permission database, settings file, status menu |
| **Settings window** (`SHSettingsWindowController.mm`, `SHLoginItemManager.m`) | baseline, controls, recorder, unsaved flag | load, edit, record, apply, OK, cancel, close, quit | settings file, host, login item, Sparkle, crash reporter |
| **Settings file** (`settings.cpp`, `SHSettingsStore.mm`) | `settings.json` | parse, validate, load, save | runtime, window |
| **Crash reporting** (`SHSentryMonitoring.m`, `SHCrashReporting.m`) | preference, reporter running | start, stop | settings window, consent at launch |
| **Updates and release pipeline** (`scripts/`, `.github/workflows/`, `SHUpdateChannel.m`) | stable and beta feed | package, append, promote | CI |
| **Wrappers** (`cf.hpp`, `cg.hpp`, `ax.hpp`, `ns.hpp`, ...) | ownership of handles only | | system libraries |

### What makes each one correct, and what is hard about it

* **Display switching**: a request never plans from a display the user left
  long ago; presses in quick succession walk. Hard: the server reports a
  change late, two changes in order; every read of the active display may drop
  the record; a focus that moved nothing is recorded, a click that moved the
  focus may not be.
* **Window cycling**: a press aims at a window that is still there, not at the
  one already in front; nothing is skipped or repeated; turning back returns.
  Hard: each focus reorders the list the next press reads, and windows open,
  close, move and are clicked between presses.
* **Overlay**: the session is what the overlay highlights; the keys step on from
  it; dismissing brings that window forward; the cursor always comes back.
  Hard: the Dock's animations, jobs that overlap, mouse movements at any
  moment, calls that fail one by one.
* **Workspace switching**: a press ends in the space it asked for, on the display
  it was meant for, and presses in one direction add up; in Mission Control the
  highlight follows. Hard: the current space is read while swipes of the press
  before are still to be handled, and the jobs of several presses poll side by
  side.
* **Event tap**: the Dock sees a gesture whole, as a replay, or not at all; what
  runs is what was pressed for. Hard: start, reload, suspension, stop and a tap
  the system disabled, in the middle of a gesture or before a deferred hotkey
  runs.
* **Runtime lifecycle**: a runtime that is down is explained or watched for;
  the menu does not contradict the host; the title shows the current space.
  Hard: access comes and goes between check and use, queued blocks carry old
  spaces.
* **Settings**: nothing unsaved is lost without a question; what the window
  shows as saved is what file, runtime, reporter and login item have; a file the
  app writes is one the runtime loads. Hard: a save has five steps in five
  places, each may fail and leaves the earlier ones done; prompts queue behind
  each other; the app can be told to quit at any moment.

Every hazard is listed with its line under `hazards` in `PROJECT.json`.

## 2. Modules

```
DisplayPlan            the arithmetic of displays: positions, steps, wrapping
  +- DisplayWalk         abstract: presses walk across the displays
  +- DisplaySwitch       detailed: record, server, lag     -- implements DisplayWalk
  |    +- DisplaySwitchProofs
  +- Overlay             overlays, sessions, jobs, the Dock
       +- OverlayProofs
Positions              lists made by going through another and taking some of it
  +- WindowCycle         frozen window orders
  |    +- WindowCycleProofs
  +- SettingsFile        (below)
WorkspacePlan          the arithmetic of spaces: the swipes that lead to one
  +- WorkspacePlanProofs
  +- WorkspaceSwitch     displays, spaces, the Dock, the job that highlights
  |    +- WorkspaceSwitchProofs   (also over WorkspacePlanProofs)
  +- EventTap            keys and gestures (also over RuntimeConfig)
       +- EventTapProofs
RuntimeConfig          hotkeys compiled from a settings document
  +- SettingsFile        settings.json parsed, shown and saved (also over Positions)
       +- SettingsWindow   the window, its save, its prompts, the app around it
            +- SettingsWindowProofs
AppLifecycle           the runtime in the app
  +- AppLifecycleProofs
MC*                    instances of each for TLC
```

The components meet in requests, so the modules are composed by what they share
rather than by one state space: `EventTap` and `WorkspaceSwitch` plan with the
same `WorkspacePlan`, `SettingsWindow` and `EventTap` compile with the same
`RuntimeConfig`, `Overlay` takes its display steps from the `DisplayPlan` of
`DisplaySwitch`. Where one module stops, another begins: `EventTap` has one
display, `WorkspaceSwitch` says which one is meant when there are several;
`Overlay` has the jobs of toggles and cycles, `WorkspaceSwitch` that of a change
of space; `AppLifecycle` has the menu, `SettingsWindow` the quitting.

### DisplaySwitch (over DisplayPlan)

| Specification | Code |
|---|---|
| `pending` with `from`, `to`, `age` | `pending_display_switch_cache` |
| `displays` | `load_active_displays`, ordered left to right |
| `reported`, `inflight` | the active menu-bar display and changes of it the server has not reported (external) |
| `BelievesPending`, `ActiveDisplay`, `Remembered` | `active_display_identifier` |
| `RecordSwitch` | `record_display_switch` |
| `StepFrom` | `plan_display_request` |
| `Press` | `execute_display_request` with its early returns and three outcomes: it took (`SwitchTakes`), `focus_window` said so though nothing moved (`SwitchIsPhantom`), the click landed but the cursor could not be put back (`ClickUnrecorded`) |
| `ReadActiveDisplay` | every other caller of `active_display_identifier`: window cycles, workspace switches, overlay polls |
| `OutsideClick`, `ServerReports`, `Rearrange`, `Tick` | the world |

Times are ticks: the record lives `Ttl` ticks, the server reports within `Lag`.
History variables, which no action reads to decide anything: `astray` (a
disturbance may still mislead a request) and `since` (ticks since a display had,
or was said to have been given, the focus).

`DisplayWalk` is what users are promised: a press steps from where the last one
went, or does nothing. It allows anything else only while a disturbance is at
work, or when more than one change of focus is unreported. `DisplaySwitch`
implements it with `at <- focus, disturbed <- astray, hurried <- Len(inflight) > 1`;
`EachPressWalks` adds that a press maps to the walk of that very request.

### WindowCycle (over Positions)

`stacks` are the windows of each display front to back; `cycle` is the frozen
order with its index and age; `Plan` is `plan_window_focus_request`, `Cycle` is
`execute_window_focus_request` (recorded before the focus is tried, so a focus
may fail after it). Between presses windows are clicked, opened, closed and
moved, the active display changes and time passes. What the code does by filtering
a list (the windows that joined since the order was frozen, the windows but the
one raised) is said with `AtPositions`: the elements at a set of positions, in
their order, as a function that can be reasoned about without induction. `before`, `owed`, `heading`
and `settled` are history.

### Overlay

`view` and `phase` are the Dock's overlay and its animation, `swipes` the swipes
it has not handled. A point is named by the thumbnail it lies in, or is the
anchor of a display. The session and both kinds of jobs are the program's.
`Hover` is the invisible hop of the cursor with a remembered session and its
failures; `PressCycle`, `PressDisplay`, `PressToggle`, `FastSwipe` are the four
user operations, `PollHighlight` and `PollDismissal` one run of a job's timer.
`Opens`, `Closes`, `HandleSwipe`, `Appeared`, `Vanished` are the Dock;
`NativeOpen`, `NativeClose`, `ClickWindow`, `MoveMouse` the user;
`Disturbances` picks what an instance lets happen. With `"failure"` each of these
may fail by itself: hiding the cursor, warping it there and back, showing it,
posting a swipe, reading the windows, focusing one; with `"slow"` a hop may give
up waiting for its mouse event after 50 ms and be taken for a success
(`HoverIsLate`; the event comes later as a movement of the mouse, or never).
Nobody opens or closes a window under an overlay.

History: `astray`, `promised` (the window a dismissal owes the front to), `home`
(where the cursor was put last) and `unshown` (how often showing a hidden cursor
failed). The runtime cannot ask what is highlighted. `astray` says that the
highlight may be another than it knows of: an overlay opened, closed or ended its
animation; a hover was aimed at windows in motion, was not applied in time, or
failed with the cursor moved; a session that was current ended, timed out or was
prepared for a dismissal; a dismissal put the cursor back under an open overlay;
the cursor left the place where the session had it and came back. The next hover
that succeeds at rest, or the next movement of the mouse, ends it. `promised`
lapses in the cases listed at `DismissalBringsHighlightForward`.

### WorkspaceSwitch (over WorkspacePlan)

| Specification | Code |
|---|---|
| `at`, `moving`, `swipes` | the spaces the window server reports, the Dock's animation, the swipes it has not handled (external) |
| `unified`, `Entries`, `EntryOf` | displays without separate spaces: the server then has the one entry "Main" |
| `cursor`, `active`, `overlay`, `animating`, `session` | what `resolve_workspace_display` asks |
| `ResolveWorkspaceDisplay`, `Motion` | `resolve_workspace_display`, `plan_workspace_request` |
| `Press` | `execute_workspace_request`: resolve, plan, post the sequence, start the job unless the spaces cannot be listed |
| `jobs`, `Poll` | an `overlay_highlight_job` with a space, one run of its timer |
| `HandleSwipe`, `ComesToRest`, `OverlayMoves` | the Dock |
| `MoveCursor`, `Focus`, `HighlightMoves`, `NativeSwipe` | the user, and the other requests |

`aim` is the layout that was asked for, as long as nothing interfered: a press
with no swipe on its way sets it, a press in the same direction adds to it,
anything else drops it. `promised` and `highlighted` say likewise which space's
front window should be highlighted.

### EventTap (over RuntimeConfig and WorkspacePlan)

`RuntimeConfig` is `compile_runtime_config`: the actions in alphabetical order,
keys and modifiers by their lower-case names and aliases, and which actions are
inert. `EventTap` has the tap (`off`, `on`, or disabled by the system), the
config of the running runtime, `suspended`, the main `queue` of deferred
requests, the `stream` of synthetic swipes that come through the tap again, and
the gesture of the user: `finger`, the phases that `got` through, `replays`.
`Start`, `ReloadSettings`, `Stop`, `SetInputSuspended` are the operations of
`runtime`, `Disable` and `Reenable` what the system and the callback do to the
tap; `KeyDown`, `BeginGesture`, `UpdateGesture`, `EndGesture`, `CancelGesture` and
`SwipeArrives` are the callback for one event each; `RunDeferred` is a block of
the main queue. `applied`, `owed`, `goal` and `excused` are history: the document
in force, the requests presses should still bring about, the space asked for if
nothing interfered, and whether in the middle of the gesture the filter changed
or its replay failed. `WholeGestures` excuses a gesture in these two cases and
only that one; and of a gesture that is swallowed it lets a last phase pass alone
that the tap cannot decode, as of a cancelled one, because the code does
(`daemon.cpp:662-665`).

### SettingsFile and SettingsWindow

`SettingsFile` is the parser with its errors and defaults (`Load`), what the
window shows of a document (`Show`) and the merge that a save writes (`SHSettingsStore`):
members and hotkeys the window does not know are kept, the version becomes 1,
what is not a JSON object is not written over. The members of an object are total
functions in which what is missing is absent; a modifier is a word, and joining
modifiers for a text field and splitting them again is the sequence of words.
Writing drops doubled modifiers at their first positions (`Positions`).

`SettingsWindow` keeps the *stores* (`file`, `beta`, `crash`, `login`), the *runtime*
(`reporting`, `loaded`, `suspended`), the *controls* (`shown`, `baseline`, `status`,
`footer`), the *recorder* (`recording`, `listening`) and the *window* (`visible`,
`key`, `sheets`, `pending`). A save is the chain write, apply to the runtime,
channel, reporter, login item; `PerformSave` is the set of its possible outcomes,
one per step that may fail, and each handler that saves (`Apply`, `Ok`,
`SavePrompted`) picks one. `OpenSettings`, `Cancel`, `Reload`, `QuitAsks`, `Quit`,
`SuddenTermination`, `DontSave`, `CancelPrompt`, `DiscardForReload`, `DeclineBeta`,
`Dismiss`, the controls, the recorder, `Launch`, `RuntimeStarts` and `Exit` are one
handler each; `EditFile` and `EditLoginItem` are others at work. Escape with no
modifier ends a recording; any other key the table of the window names becomes
the hotkey. History: `outside`
(parts others changed since they were read), `restarted` (the runtime was
started since it was last told whether to leave the keys alone) and `untold` (a
recorder went with its row, or was closed upon, without being told).

What AppKit does is taken to be: sheets queue, and the one in front blocks the
controls and the close button, but a request to quit may reach the delegate all
the same; a reply given before `NSTerminateLater` is returned counts; a recorder
that is removed with its row, or closed with the window, may or may not be told
that it is no longer first responder.

### AppLifecycle

`stage` is the app (launching, the prompt up, up, gone), `running` and `last` the
runtime, `blocks` the observer's blocks on the main queue, `title`/`error` the
host, `items` the badge and items of the status menu, `polling` the timer.
`access`, `file` and `space` change under every handler. `HostStart` is
`[SHRuntimeHost start]`; a start or reload reads the space twice, once to notify
(which queues a block) and once for the title; either read may fail and the
space may change in between (`NotifyAndRefresh`). `Launch`, `AnswerPrompt`,
`GrantAccess`, `PollTick`, `ApplySettings`, `Quit`, `Notice`, `RunBlock` are one
handler each. `missed` is history: the last change of space could not be read.

## 3. Runs

| Run | Instance | Shows |
|---|---|---|
| `display_switch` | 4 displays of which 2 can be unplugged, 3 kinds of request, `Ttl` 2, `Lag` 1, 3 unreported changes, all disturbances | `AnswerIsRecent`: the display a request starts from is focused, or had (or was said to have been given) the focus at most `Ttl` ago. `PressesWalk`: implements `DisplayWalk` |
| `display_burst` (violation) | no disturbance at all | `PlansFromLastSwitch` fails, see Findings |
| `window_cycle` | up to 4 windows, 2 displays, symmetric windows | `AimIsHere`, `EveryPressMoves`, `EveryWindowHasItsTurn`, `TurningBackReturns` |
| `overlay` | 2 windows of 2 programs, 1 display, all disturbances but swipes in App Expose and a failing show | `SessionIsTheHighlight`, `KeysStepOn`, `DismissalBringsHighlightForward` |
| `overlay_displays` | a display with 1 window beside an empty one, the cursor follows, 2 dismissals that overlap, no highlight jobs; any call may fail, showing the cursor once | `RequestsActOnHighlight`, `CursorVisibleAtRest`, `DismissalEnds` |
| `overlay_expose_swipe`, `overlay_early_highlight`, `overlay_two_dismissals` (violations) | nothing but what is in their names | see Findings |
| `app_lifecycle` | 3 spaces, 2 notifications and 3 blocks on their way; access, file and space change at will | `NeverSilentlyDown`, `MenuTellsTruth`, `StopsAsking`, `TitleCatchesUp` |
| `workspace_switch` | displays with 3 and 2 spaces, or unified with 2; the middle space of the first is empty; requests left at the cursor, right and wrapping on the focused display; 3 swipes and jobs under way | `AskedSpaceShown`, `HighlightFollows`, `ComesToAnEnd` |
| `event_tap` | 2 documents, 3 spaces, gestures left and down, one key with two modifiers and repeats, 2 deferred actions and swipes under way | `WholeGestures`, `AskedIsReached`, `DeferredIsOwed`, `PressesGetDone`, `SwipesArrive` |
| `settings_window` | 5 files (one of another release, one in other words, one unsupported, one broken, none), a hotkey known and one unknown, any step of a save fails, 2 sheets | `CleanMeansStored`, `EditsLostOnlyIfTold`, `RequestsAreSettled`, `SavedIsLive`, `SavesKeepTheRest`, `SuspendedWhileRecording`, `ReportingFollowsChoice` |

`TypeOK` of each module is checked with them, that of `Overlay` in
`overlay_displays`. `PROJECT.json` holds, for every
property, a mutated definition (the operators commented `mutant`) under which
that property fails, so none of them holds by the shape of the model.

### Bounds

* *Displays*: four are needed for a walk across a display in the middle that
  differs from wrapping; arrangements `<<a, b, c, d>>` and `<<a, c>>` let the
  target, the origin and neither of them be unplugged.
* *Unreported changes* (`MaxInFlight` 3): one is the ordinary case, two is where
  the single record can fail, the third shows what comes after.
* *Ticks* (`Ttl` 2, `Lag` 1): the record outlives the lag and then expires; ages
  stop counting once past `Ttl`, where the code no longer tells them apart.
* *Windows* (4): two frozen, one that joins and one that leaves or moves; with
  fewer, wrapping and stepping back coincide.
* *Overlay*: one job of each kind and one swipe, or two jobs where overlapping is
  the question (`overlay_displays`, `overlay_two_dismissals`); `Polls` 1 makes "before
  the deadline" and "at the deadline" two states. Two windows suffice for the wrong
  one to be in front. Where the centre of a moving thumbnail may be
  (`OldCentres`) is one thumbnail in `overlay`: the right one for one of the windows,
  the wrong one for the other. `MaxUnshown` bounds how often showing the cursor fails: not at
  all where the cursor is not the question, once in `overlay_displays`, where one of
  two dismissals can fail at it and the other not. `MaxHighlights` bounds the
  highlight jobs: none in `overlay_displays`, whose questions are the steps between
  displays and the dismissals; `overlay` has them on one display, and the theorems of
  `OverlayProofs` with everything else at once.
* *Lifecycle*: three spaces tell "the old one" from "another one"; three blocks
  may carry three different spaces.
* *Workspaces*: three spaces are needed for a press on top of another that does
  not run into the edge, and for one in between that is empty; two displays for
  the wrong one to move; three swipes under way for a wrap (two swipes) and one
  more press. `Polls` 1 as for overlays.
* *Event tap*: the documents are made so that in one an action that comes first
  is disabled, two actions have the same shortcut under two names of its key and
  one key is unknown; in the other fast swipes are off and the shortcut means
  something else. Two deferred actions can be in the wrong order; two swipes
  can run into each other.
* *Settings*: a behaviour edits the parts in one of the `Hands` ({hotkeys},
  {switches, channel}, {reports, login item}, {the file, from outside}), because
  the parts meet only in the baseline and in the order of a save, which every
  behaviour has in full. Two sheets are a prompt behind another or behind an
  error; a third adds nothing that the second does not, since only the one in
  front can be answered.

### Fairness

Only what the main run loop gives: `DismissalEnds` assumes each dismissal job's
timer fires, and stops at its deadline even if the Dock never closes the overlay;
`StopsAsking` assumes the poll timer fires, `TitleCatchesUp` that notifications
are delivered and queued blocks run. `PressesGetDone` and `SwipesArrive` assume
that the main queue runs and that posted events come through the tap, and `ComesToAnEnd`
that the timer of a job fires and the Dock handles what was posted; each speaks
of behaviours in which the user stops pressing keys, or swiping. `SettingsWindow`
states no fairness: the user may leave every window and prompt as it is.

The user, the window server and the permission database are under no fairness,
nor is the Dock but for the swipes of `WorkspaceSwitch`: `StopsAsking` speaks only
of behaviours in which access stays granted, `TitleCatchesUp` of those in which
the space stays put and settings are not saved for ever.

## 4. Findings

1. `display_switch.cpp:523`: one record is not enough for three quick presses.
   With displays a, b, c and the server still reporting a, the first press records
   a to b, the second b to c. At the third, a is not the origin of the record, so
   it passes for a report that has caught up: the record is dropped, and the press
   plans from a and goes to b again. The release notes of 0.4.4 promise that quick
   presses walk. (`display_burst`)
2. `daemon.cpp:695`: App Expose closes on a swipe *up*, for which no dismissal is
   prepared, so the highlighted window is not brought forward, which
   `README.md:128-129` promises for every dismissal. (`overlay_expose_swipe`)
3. `mission_control.cpp:495`: the highlight job does not ask whether an overlay is
   showing. A slow overlay, or one closed again, lets two equal frames of an
   ordinary window pass for a settled thumbnail. (`overlay_early_highlight`)
4. `mission_control.cpp:769`: a dismissal prepared while another has the cursor
   parked takes the parked place for the one to return to.
   (`overlay_two_dismissals`)

What was noticed without a run, as the code does it and the models have it:

* Gestures are filtered and replayed before the tap looks at its suspension, which
  leaves only keys alone, as `daemon.cpp:715-717` says; `daemon.hpp:68` has it
  suspend "global input (hotkeys and gestures)" and `daemon.cpp:72-74` pass every
  event untouched.
* A runtime begins with `input_suspended` unset (`daemon.cpp:75`), and the window
  tells it otherwise only when a recording begins or ends or the focus changes. One
  that is started while a shortcut is being recorded fires a matching hotkey instead
  of leaving it to the recorder, against `daemon.cpp:715-716`.
  `SuspendedWhileRecording` names this exception (`restarted`).
* Choosing Settings from the menu while the window is open with unsaved changes
  loads it anew and drops them without asking (`SHSettingsWindowController.mm:653`);
  `README.md:173-175` says that the window asks before it reloads.
  `EditsLostOnlyIfTold` names this exception.
* A press on top of swipes that are still under way plans from the space the
  server shows. In one direction that adds up; a `go_to`, a wrap or a press the
  other way can overshoot (`control.cpp:645`). `AskedSpaceShown` therefore speaks
  of presses that find no swipe under way, or go on in the same direction.
  In Mission Control a second press before the Dock handled the first expects
  the same space, and then no highlight is promised. A `go_to` inside App Expose
  posts swipes that the Dock takes for a change of program.
* With unified spaces and a current session under an overlay, a workspace hotkey
  fails: the session names a display, the server knows only "Main".
* A job of an earlier press on another display that still polls can pull the
  session back to its display; a job that outlives the overlay hovers on the
  desktop (as finding 3).
* The end of a gesture that the tap swallowed reaches the Dock alone when its phase
  cannot be decoded (`daemon.cpp:662-665`), as may the rest of a gesture during which
  fast swipes are switched off.
* A cursor that could not be shown after a hop or a dismissal stays hidden: no
  call is repeated (`mission_control.cpp:723, 782`, `display_switch.cpp:389`).
* A dismissal whose deadline passes with the overlay up puts the cursor back; if
  it then lies in another thumbnail and the overlay closes after all, that window
  comes to the front.
* A request to quit that finds the prompt of a close is answered no at once
  (`SHSettingsWindowController.mm:1387`), whatever that prompt is answered later.
* If the first open finds a file that is JSON but cannot be loaded (say, of
  version 2), there is no baseline: edits are not asked about, and OK writes the
  blank controls over it as version 1. `CleanMeansStored` and `SavesKeepTheRest`
  leave this case out.
* When applying to the runtime fails, the steps after it (channel, reporter,
  login item) are skipped; they stay unsaved and are shown so.
* Of a hotkey it shows, a save keeps what it could read: modifier words it does
  not support and further members of the entry are dropped
  (`SHSettingsStore.mm:328-335`). `SavesKeepTheRest` speaks of what is not shown.
* If the rows are made anew by a load while a recorder records, and AppKit does not
  tell the recorder that it is no longer first responder, input stays suspended
  until the focus changes (`untold` in `SuspendedWhileRecording`).
* Words the window accepts for modifiers, such as "control", are not all words
  the runtime compiles, so such a hotkey is inert until it is saved by the
  window.

## 5. Proofs

**`DisplaySwitchProofs`** holds for every set of displays and arrangements, every
`Lag <= Ttl` and any number of unreported changes. Assumptions (named `ASSUME`s of
`DisplaySwitch`, evaluated by every run): arrangements are non-empty sequences
without repetition, requests are well-formed, `Lag <= Ttl`.

* `TypeCorrect`, `AnswersAreRecent` (`[]AnswerIsRecent`), `PressesWalkAlways`
  (`Spec => PressesWalk`, the refinement of `DisplayWalk`), `WrapUndone` (with
  wrapping, left and right undo each other on any number of displays).
* The properties are not inductive: that the *answer* is recent depends on what
  the server will report next. `IInv` adds
  `FocusInv` (the focus is where the newest unreported change went),
  `RecentInv` (what the server or the record may still name lost the focus no
  longer ago than the change that took it away) and
  `CalmInv` (with no disturbance at work, the record is that of the newest
  change and starts where the one before it went). `Invariance` proves
  `Spec => []IInv` with one lemma per action; `Lag <= Ttl` is used where a report
  arrives at the latest. `CalmInv` is what makes a press map to a step of
  `DisplayWalk`.

**`AppLifecycleProofs`** proves `TypeCorrect`, `NeverSilentlyDownAlways` and
`MenuTellsTruthAlways` for any spaces and bounds. The invariant adds the menu
before the app is up (`BeforeUp`) and `BlocksOfTheRuntime`: a block is queued only
while the runtime runs, so a late block can never clear the error of a failed
start. Two lemmas carry it: what a notification and refresh show, and what a
start from a cleared menu shows.

**`WorkspacePlanProofs`** proves `MotionPlanned`: for any number of spaces, the
planned swipes lead from the current space to the one asked for, or a request
out of range plans none, and no swipe on the way runs past an edge.

**`WorkspaceSwitchProofs`** (`WorkspaceAssumption`, `NothingAssumption`) proves
`TypeCorrect`, `AskedShown` (`[]AskedSpaceShown`) and `HighlightAlwaysFollows`
(`[]HighlightFollows`) for any displays, numbers of spaces, requests and bounds.

* `AskedSpaceShown` says nothing before the last swipe is handled, so its
  invariant is `Leads`: the swipes under way go in one direction, over the entry
  that moves, and handling them all from where the displays are now gives the
  layout asked for. `PressLeads` rests on `MotionPlanned`, `HandledLeads` is the
  step of the Dock.
* `HighlightFollows` says nothing before the last job ends. Its invariant is
  `Followed`: while a highlight is promised, the swipes lead to its space one step
  each (`WayTo`, so that space is shown when no swipe is left and only then,
  `Arrived`), every job is of its display, and either the highlight is there and
  no swipe is left, or a job for the space is `InTime`: still to see the space
  come to rest, or at rest with its frame seen or a poll left to see it. A job of
  an earlier press may hover another space on the way; it cannot be the last to
  do so, because the space it waits for is not the one shown at the end.

**`EventTapProofs`** (`EventTapAssumption`, `NoneAssumption`,
`AlphabeticalAssumption`) proves, for any documents, presses and spaces,
`TypeCorrect` (whose typing of `config` says it is that of the document in force),
`AskedReached` (with `Leads` as above, and `Marked`: all swipes under way carry the
mark by which the tap knows its own), `GesturesWhole` (with `OneFilter`: within an
unexcused gesture the filter was the same throughout) and `DeferredAreOwed`.

**`OverlayProofs`** (`OverlayAssumption`, `NothingAssumption`) proves for any
displays, windows, programs, jobs and polls `TypeCorrect`,
`SessionIsTheHighlightAlways`, `RequestsActOnHighlightAlways`, `KeysStepOnAlways`,
`CursorVisibleAtRestAlways` and, where App Expose is not closed by the user's own
swipe up (finding 2), `DismissalBringsHighlightForwardAlways`. Three strengthenings
carry them, each with one lemma per action. `HighlightInv`: the session's window
is on its display, and what is highlighted is known unless `astray`.
`HidesCounted`: the cursor is hidden at most as often as there are dismissals
under way and calls that should have shown it failed, so at rest no more often
than such calls failed. `PromiseKept`: while a dismissal owes a window the front,
it is under way and will focus that window (`JobFor`), or there is none, and either
the overlay is still up (`Owing`) and will bring that window forward or leave it in
front as it closes (`ClosesWell`, by what is under the cursor), or it has begun to
close and the window is in front already (`Closing`). What these theorems leave out is what the comments at
`astray` and at `DismissalBringsHighlightForward` list; failing and late calls are
part of the model for all of them.

**`WindowCycleProofs`** (`CycleAssumption`) proves `TypeCorrect`, `AimIsAlwaysHere`
(`[]AimIsHere`), `EveryPressAlwaysMoves` (`[]EveryPressMoves`),
`EveryWindowAlwaysHasItsTurn` and `TurningBackAlwaysReturns` for any windows,
displays and timeout. The proof begins with the positions of a set in their order
(`Ranks`: they have the ranks from 1 to their number, each a different one), from
which follow the range of `AtPositions` and that it repeats nothing
(`AtPositionsProperties`), what is left `Without` a window, and that an order with
its newcomers at the end repeats nothing (`Joined`). With them, after any press
the planned order holds exactly the windows of the display (`PlanFacts`).

* `Layout`, the types and that a window is on one display only, is inductive and
  gives `AimIsHere`.
* `FrontIsAim`: after a press that took, any display that still has all windows
  of the order has the window aimed at in front. The next press therefore steps
  off the front window; a fresh order passes it over.
* `WayBack`: a step against the heading of the cycle leads to `before`. A step back
  undoes a step on, also where it wraps (`StepBack`).
* `OwedAhead`: what is still owed a turn since a window was aimed at lies nearer
  ahead of the index than that window does. Distances ahead shrink by one with
  every press in the same direction, newcomers come in at the end
  (`StepKeepsDistances`), so whoever is aimed at owes no turn (`NothingIsOwed`).

**`SettingsWindowProofs`** (`AlphabeticalAssumption`, `FileAssumption`,
`WindowAssumption`) proves every safety property of the settings window for any
files, members, actions, keys, spellings, modifiers, edits, outcomes of a save and
number of sheets: `TypeOKAlways`, `ReportingFollowsChoiceAlways`,
`SuspendedWhileRecordingAlways`, `RequestsAreSettledAlways`,
`CleanMeansStoredAlways`, `SavedIsLiveAlways`, `SavesKeepTheRestAlways` and
`EditsLostOnlyIfToldAlways`. The invariant `Full` has three parts.

* `Inv`, of the runtime, the recorder and the sheets: the reporter runs by the
  recorded choice; the key window is visible; input is suspended just while the flag
  `listening` is set in the key window (`SuspendedWhileListening`); and `Fits`, a prompt is pending just when exactly
  one is among the sheets.
* `Content`, of what the stores and the controls hold: their types (`Typed`); the
  baseline is what the stores hold, others' changes aside (`Known`); what was said
  to be saved and applied is what the runtime runs on (`Live`); the footer tells of
  unsaved changes just when there are some (`FooterTells`).
* `Frame`, the remaining types.

Beside it stands `Recorders`: when the flag and a recorder disagree, the recorder went
or was closed upon untold. With `SuspendedWhileListening` it gives
`SuspendedWhileRecording`, which is about the recorder and not the flag.

A save is followed through its five steps and their failures by two predicates
over the record that `PerformSave` hands on: `Underway` (`Typed`, `Known`, and the file
keeps what is not shown, `Keeps`) and, for how it ends, `Outcome` (also `Live`, and
with success the baseline is what is shown). They rest on the theorem
`RoundTrip`: a document written over any file is read back and shown as the
window showed it. That is why a window that is clean after a save shows what is
stored. `SavesKeepTheRest` is a property of single steps (`FileStep`);
`EditsLostOnlyIfTold` goes by the ways a window goes away: it stays up
(`StaysUp`), was clean (`CleanLosesNothing`), or saved first (`SaveLosesNothing`), and
by what a save may change of what is shown, the login switch (`Outcome`).

Every invariant and every action property that a run checks, the refinement
included, is thus a theorem as well.

**Only model-checked**: the liveness properties (`DismissalEnds`, `StopsAsking`,
`TitleCatchesUp`, `PressesGetDone`, `SwipesArrive`, `ComesToAnEnd`),
since the prover does not handle liveness under fairness or ENABLED; and the four
violations, which are counterexamples. What the operators of the community modules
do that the proofs need of them is proved from their definitions.

## 6. Not modelled

* Pixels: frames, centres and hit tests are replaced by the name of the
  thumbnail a point lies in; the geometry of displays by their order; the
  fields of a raw gesture event by its direction, phase and mark.
* Windows opened or closed under an overlay.
* What the system does to the tap of a program that lost access while running:
  nothing in the repository says.
* `default_path` of `settings.cpp`: the app always names the file; only tests use it.
* What a crash report holds and how it is sent; the update framework.
* Building, signing, notarising and promoting releases (`scripts/`,
  `.github/workflows/`): they run once per release, outside the program. The
  stored channel is a part of `SettingsWindow`.
* The wrappers of system libraries (`cf.hpp`, `cg.hpp`, `ax.hpp`, `ns.hpp`): they own
  handles and keep no state of the program's own. Examples and probes.
* Layout, wording, logging.

## 7. What is left

All components with state of their own are modelled, and every safety property
that is checked is proved. What would add most next:

1. `AppLifecycle` and `SettingsWindow` over one runtime, to check the title and the
   menu against a save that starts the runtime.
2. The progress behind the liveness properties as action properties that can be
   proved: what each poll and each swipe handled brings nearer to an end.
3. The promotion of the beta feed to the stable one.
