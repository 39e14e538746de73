---------------------------- MODULE AppLifecycle ----------------------------
(***************************************************************************)
(* The life of the runtime inside the menu bar app.  At launch the app     *)
(* starts the runtime, or asks for Accessibility access and polls for it;  *)
(* saving the settings reloads or starts the runtime; a start that fails   *)
(* is shown in the status menu.  While the runtime runs, notifications of  *)
(* the workspace bring the number of the current space to the menu bar, in *)
(* blocks queued on the main queue.                                        *)
(*                                                                         *)
(* Every handler runs on the main thread, one at a time.  The permission,  *)
(* the settings file and the current space change under them.              *)
(***************************************************************************)
EXTENDS Naturals, Sequences

CONSTANTS
  Spaces,      \* numbers of spaces
  None,        \* no space, no error, no state
  MaxNotices,  \* bound: notifications on their way
  MaxBlocks    \* bound: blocks queued on the main queue

Reasons == {"settings", "permission", "failed"}    \* why a start fails

ASSUME LifecycleAssumption ==
  /\ None \notin Spaces
  /\ None \notin Reasons
  /\ MaxNotices \in Nat
  /\ MaxBlocks \in Nat \ {0}

VARIABLES
  stage,    \* the app: launching, asking (the launch prompt is up), up, gone
  access,   \* whether the app has Accessibility access
  file,     \* whether settings.json can be loaded: good or bad
  space,    \* the current space of the active display
  notices,  \* notifications of a change of space on their way
  running,  \* runtime::running
  last,     \* last_workspace_state of the running runtime
  blocks,   \* the blocks of the observer on the main queue, oldest first
  title,    \* menuBarTitle of the host
  error,    \* startError of the host
  items,    \* the items and the badge that are visible in the status menu
  polling,  \* accessibilityPollTimer is set
  missed    \* history: the last change of space could not be read

outside == <<access, file, space, notices>>
core == <<running, last, blocks>>
shown == <<title, error, items>>
vars == <<stage, outside, core, shown, polling, missed>>

MenuItems == {"badge", "grant", "error"}

-----------------------------------------------------------------------------
(***************************************************************************)
(* The states of the status menu.                                          *)
(***************************************************************************)
EnterNeedsAccess(shownItems) == shownItems \cup {"badge", "grant"}

EnterRuntimeError(shownItems) == shownItems \cup {"badge", "error"}

EnterReady == {}

(* updateMenuBarTitle, with the stateChangeHandler of the app.             *)
ErrorOutlivesStart(shownItems, err) ==    \* mutant: only errors are shown
  IF err # None THEN EnterRuntimeError(shownItems) ELSE shownItems

ItemsAfter(shownItems, err) ==
  IF err # None THEN EnterRuntimeError(shownItems)
  ELSE IF "error" \in shownItems THEN EnterReady ELSE shownItems

Show(shownItems, t, err) ==
  /\ title' = t
  /\ error' = err
  /\ items' = ItemsAfter(shownItems, err)

-----------------------------------------------------------------------------
(***************************************************************************)
(* A start or a reload that succeeds tells the observer the space, which   *)
(* queues a block, and then reads the space once more for the title.       *)
(* Either read may find nothing, and the space may change between them.    *)
(***************************************************************************)
SpaceMoves ==
  \/ UNCHANGED <<space, notices>>
  \/ /\ notices < MaxNotices
     /\ notices' = notices + 1
     /\ space' \in Spaces \ {space}

NotifyUnread(state) ==    \* mutant: a state that could not be read is told
  /\ Len(blocks) < MaxBlocks
  /\ \E read \in {state, None} : blocks' = Append(blocks, read) /\ last' = read
  /\ missed' = FALSE

Notify(state) ==
  /\ Len(blocks) < MaxBlocks
  /\ blocks' = Append(blocks, state)
  /\ last' = state
  /\ missed' = FALSE

NotifyAndRefresh(shownItems, prior) ==
  /\ SpaceMoves
  /\ \/ Notify(space)
     \/ last' = prior /\ missed' = TRUE /\ UNCHANGED blocks
  /\ \E t \in {space', None} : Show(shownItems, t, None)

(* runtime::start: the settings are loaded, then access is checked.        *)
WhyNot == IF file = "bad" THEN "settings"
          ELSE IF ~access THEN "permission" ELSE "failed"

CanStart == file = "good" /\ access

Starts(shownItems) ==
  /\ CanStart
  /\ running' = TRUE
  /\ NotifyAndRefresh(shownItems, None)

StartFails == UNCHANGED <<space, notices, core, missed>>

(* SHRuntimeHost start, after the menu was put in the state given.         *)
HostStart(shownItems) ==
  IF running
  THEN /\ items' = shownItems
       /\ UNCHANGED <<space, notices, core, title, error, missed>>
  ELSE \/ Starts(ItemsAfter(shownItems, None))
       \/ /\ StartFails
          /\ Show(ItemsAfter(shownItems, None), None, WhyNot)

-----------------------------------------------------------------------------
(***************************************************************************)
(* The app.                                                                *)
(***************************************************************************)
(* startRuntimeOrRequestAccess.                                            *)
Launch ==
  /\ stage = "launching"
  /\ IF access
     THEN stage' = "up" /\ HostStart(EnterReady)
     ELSE /\ stage' = "asking"
          /\ items' = EnterNeedsAccess(items)
          /\ UNCHANGED <<space, notices, core, title, error, missed>>
  /\ UNCHANGED <<access, file, polling>>

(* presentAccessibilityPrompt: whatever is answered but quit, the app goes *)
(* on to poll.                                                             *)
AnswerPrompt ==
  /\ stage = "asking"
  /\ stage' = "up"
  /\ polling' = TRUE
  /\ UNCHANGED <<outside, core, shown, missed>>

(* grantAccess, from the status menu.                                      *)
GrantAccess ==
  /\ stage = "up"
  /\ "grant" \in items
  /\ IF access
     THEN HostStart(EnterReady) /\ UNCHANGED polling
     ELSE /\ polling' = TRUE
          /\ UNCHANGED <<space, notices, core, shown, missed>>
  /\ UNCHANGED <<stage, access, file>>

(* The timer of startAccessibilityPolling.                                 *)
PollEndsBlindly ==    \* mutant: the timer ends whatever it finds
  /\ stage = "up"
  /\ polling
  /\ polling' = FALSE
  /\ IF access
     THEN HostStart(EnterReady)
     ELSE UNCHANGED <<space, notices, core, shown, missed>>
  /\ UNCHANGED <<stage, access, file>>

PollForgetsMenu ==    \* mutant: the menu is left as it is
  /\ stage = "up"
  /\ polling
  /\ access
  /\ polling' = FALSE
  /\ HostStart(items)
  /\ UNCHANGED <<stage, access, file>>

PollTick ==
  /\ stage = "up"
  /\ polling
  /\ access
  /\ polling' = FALSE
  /\ HostStart(EnterReady)
  /\ UNCHANGED <<stage, access, file>>

(* performSave: the file is written and applied; somebody else may have    *)
(* written it again before it is read.  A start that fails is reported in  *)
(* the settings window only.                                               *)
ApplySettings ==
  /\ stage = "up"
  /\ file' \in {"good", "bad"}
  /\ \/ /\ file' = "good"
        /\ IF running
           THEN NotifyAndRefresh(items, last) /\ UNCHANGED running
           ELSE access /\ running' = TRUE /\ NotifyAndRefresh(items, None)
     \/ StartFails /\ UNCHANGED shown
  /\ UNCHANGED <<stage, access, polling>>

(* terminate: the app quits, from the launch prompt or the menu.           *)
Quit ==
  /\ stage \in {"asking", "up"}
  /\ stage' = "gone"
  /\ polling' = FALSE
  /\ running' = FALSE
  /\ last' = None
  /\ Show(items, None, None)
  /\ UNCHANGED <<outside, blocks, missed>>

-----------------------------------------------------------------------------
(***************************************************************************)
(* The menu bar title.                                                     *)
(***************************************************************************)
(* notify_active_space_change for a notification of the workspace.         *)
NoticeKeepsFirst ==    \* mutant: what was told last is not remembered
  /\ stage # "gone"
  /\ notices > 0
  /\ notices' = notices - 1
  /\ \/ /\ running /\ space # last
        /\ Len(blocks) < MaxBlocks
        /\ blocks' = Append(blocks, space)
        /\ missed' = FALSE
        /\ UNCHANGED last
     \/ (~running \/ space = last) /\ UNCHANGED <<blocks, last, missed>>
     \/ running /\ missed' = TRUE /\ UNCHANGED <<blocks, last>>
  /\ UNCHANGED <<stage, access, file, space, running, shown, polling>>

Notice ==
  /\ stage # "gone"
  /\ notices > 0
  /\ notices' = notices - 1
  /\ \/ running /\ space # last /\ Notify(space)
     \/ (~running \/ space = last) /\ UNCHANGED <<blocks, last, missed>>
     \/ running /\ missed' = TRUE /\ UNCHANGED <<blocks, last>>
  /\ UNCHANGED <<stage, access, file, space, running, shown, polling>>

(* handleWorkspaceStateChange, from the main queue.                        *)
RunBlock ==
  /\ stage # "gone"
  /\ blocks # <<>>
  /\ blocks' = Tail(blocks)
  /\ Show(items, Head(blocks), None)
  /\ UNCHANGED <<stage, outside, running, last, polling, missed>>

-----------------------------------------------------------------------------
(***************************************************************************)
(* What goes on outside.                                                   *)
(***************************************************************************)
ChangeSpace ==
  /\ notices < MaxNotices
  /\ space' \in Spaces \ {space}
  /\ notices' = notices + 1
  /\ UNCHANGED <<stage, access, file, core, shown, polling, missed>>

ChangeAccess ==
  /\ access' = ~access
  /\ UNCHANGED <<stage, file, space, notices, core, shown, polling, missed>>

EditFile ==
  /\ file' \in {"good", "bad"} \ {file}
  /\ UNCHANGED <<stage, access, space, notices, core, shown, polling, missed>>

Init ==
  /\ stage = "launching"
  /\ access \in BOOLEAN
  /\ file \in {"good", "bad"}
  /\ space \in Spaces
  /\ notices = 0
  /\ running = FALSE
  /\ last = None
  /\ blocks = <<>>
  /\ title = None
  /\ error = None
  /\ items = {}
  /\ polling = FALSE
  /\ missed = FALSE

Next ==
  \/ Launch \/ AnswerPrompt \/ GrantAccess \/ PollTick \/ ApplySettings \/ Quit
  \/ Notice \/ RunBlock
  \/ ChangeSpace \/ ChangeAccess \/ EditFile

(* The main run loop runs its timers, notifications and blocks.            *)
Spec ==
  /\ Init
  /\ [][Next]_vars
  /\ WF_vars(PollTick)
  /\ WF_vars(Notice)
  /\ WF_vars(RunBlock)

-----------------------------------------------------------------------------
TypeOK ==
  /\ stage \in {"launching", "asking", "up", "gone"}
  /\ access \in BOOLEAN
  /\ file \in {"good", "bad"}
  /\ space \in Spaces
  /\ notices \in 0 .. MaxNotices
  /\ running \in BOOLEAN
  /\ last \in Spaces \cup {None}
  /\ blocks \in Seq(Spaces)
  /\ title \in Spaces \cup {None}
  /\ error \in Reasons \cup {None}
  /\ items \subseteq MenuItems
  /\ polling \in BOOLEAN
  /\ missed \in BOOLEAN

(***************************************************************************)
(* The app is never silently down: while the runtime does not run, the app *)
(* polls for access or the status menu says why the start failed, whatever *)
(* was granted, revoked, edited, applied or polled in between              *)
(* (AppDelegate.m:104-106, 491-513).                                       *)
(***************************************************************************)
NeverSilentlyDown ==
  (stage = "up" /\ ~running) => (polling \/ "error" \in items)

(***************************************************************************)
(* The menu tells the truth: the error item is there just when the host    *)
(* has an error, never while the runtime runs; the badge is there just     *)
(* when an item explains it, and the item to grant access only while the   *)
(* app watches for access (AppDelegate.m:141-148, 407-449).                *)
(***************************************************************************)
MenuTellsTruth ==
  stage = "up" =>
    /\ "error" \in items <=> error # None
    /\ "error" \in items => ~running
    /\ "badge" \in items <=> ("grant" \in items \/ "error" \in items)
    /\ "grant" \in items => polling

(***************************************************************************)
(* Once access stays granted the app stops asking for it, and has started  *)
(* the runtime or says why it could not (AppDelegate.m:491-492).           *)
(***************************************************************************)
StopsAsking ==
  (<>[](stage = "up" /\ access))
    => <>[]("grant" \notin items /\ (running \/ "error" \in items))

(***************************************************************************)
(* When the space stays what it is and its last change could be read, the  *)
(* menu bar comes to show its number, although blocks of earlier changes   *)
(* run after the title was refreshed (SHRuntimeHost.mm:37-48, 210-220,     *)
(* daemon.cpp:814-832).                                                    *)
(***************************************************************************)
TitleCatchesUp ==
  \A s \in Spaces :
    (/\ <>[](stage = "up" /\ running /\ space = s /\ ~missed)
     /\ <>[][~ApplySettings]_vars) => <>[](title = s)
=============================================================================
