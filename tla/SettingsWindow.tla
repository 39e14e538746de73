--------------------------- MODULE SettingsWindow ---------------------------
(***************************************************************************)
(* The settings window.  It shows what settings.json and three stores of   *)
(* the system hold (the update channel, the choice about crash reports,    *)
(* the login item), lets the user edit it, and writes it back in a save of *)
(* several steps, each of which may fail.  Edits that are not saved are    *)
(* asked about before the window closes or the app quits.  While a         *)
(* shortcut is recorded in the key window, the runtime leaves the keys     *)
(* alone.                                                                  *)
(*                                                                         *)
(* Every handler runs on the main thread.  The file and the login item may *)
(* be changed by others, and what is written to disk or asked of the       *)
(* system may fail, at any time.  The build can report crashes and has an  *)
(* update channel to choose, so no switch is disabled for good.            *)
(***************************************************************************)
EXTENDS SettingsFile

CONSTANTS
  Files,       \* what settings.json may hold when others wrote it
  Keys,        \* keys a recorder names (SHKeyNameForEvent)
  Flags,       \* sets of modifiers held with a key
  Switches,    \* the switches of the document that the user flips
  Hands,       \* bound: what is edited in one behaviour
  MaxSheets    \* bound: sheets waiting on the window

(* The names that SHKeyNameForEvent gives to keys.                         *)
KeyNames ==
  {"Tab", "space", "return", "escape", "delete", "left", "right", "down", "up",
   "[", "]", "-", "="} \cup Letters \cup Digits

(* What the controls show: of the document, no hotkey before it is loaded; *)
(* and of all parts.                                                       *)
ModifierLists == {ModifiersFromFlags(flags) : flags \in SUBSET CanonicalNames}

Shortcuts == [key : Spellings \cup {""}, modifiers : ModifierLists, enabled : BOOLEAN]

Empty == [id \in {} |-> None]

ShownDocuments ==
  [switches : [Fields -> BOOLEAN], hotkeys : [KnownActions -> Shortcuts] \cup {Empty}]

Snapshots == [document : ShownDocuments, beta : BOOLEAN, crash : BOOLEAN, login : BOOLEAN]

ASSUME WindowAssumption ==
  /\ Files \subseteq Roots \cup {NoFile, Broken}
  /\ Keys \subseteq KeyNames \cap Spellings
  /\ "Tab" \in Keys => Lowercase["Tab"] = "tab"
  /\ Flags \subseteq SUBSET CanonicalNames
  /\ Switches \subseteq Fields
  /\ Hands \subseteq SUBSET {"switches", "hotkeys", "beta", "crash", "login", "file"}
  /\ MaxSheets \in Nat \ {0}
  /\ None \notin BOOLEAN \cup ShownDocuments \cup Snapshots
  /\ None \notin KnownActions

Parts == {"document", "beta", "crash", "login"}

Prompts == {"close", "quit"}      \* save the changes?

Sheets == Prompts \cup {"reload", "beta", "alert"}

VARIABLES
  file,      \* settings.json
  beta,      \* SHReceiveBetaUpdates
  crash,     \* SHCrashReportingEnabled: unset, on, off
  login,     \* SMAppServiceStatus of the app
  reporting, \* SentrySDK.isEnabled
  loaded,    \* the document of the running runtime, None if it is not running
  suspended, \* input_suspended of the runtime
  app,       \* gone, up, quitting (waiting for the reply), leaving
  visible,   \* the window is on screen
  key,       \* isKeyWindow
  shown,     \* the state of the controls, by part
  baseline,  \* baselineSnapshot
  status,    \* statusMessage
  footer,    \* what refreshUnsavedState last showed; untouched before
  recording, \* the action whose recorder is recording
  listening, \* recorderListening
  sheets,    \* the sheets on the window, the one in front first
  pending,   \* discardPromptPending
  hand,      \* what is edited in this behaviour
  outside,   \* history: parts that others changed since they were read
  restarted, \* history: the runtime was started since it was last told
  untold     \* history: a recorder has gone, or was closed upon, untold

stores == <<file, beta, crash, login, outside>>
runtime == <<reporting, loaded, suspended, restarted>>
controls == <<shown, baseline, status, footer>>
recorder == <<recording, listening, untold>>
window == <<visible, key, sheets, pending>>
vars == <<stores, runtime, controls, recorder, window, app, hand>>

-----------------------------------------------------------------------------
(***************************************************************************)
(* What the stores hold, and what is unsaved.                              *)
(***************************************************************************)
Registered(status_) == status_ \in {"Enabled", "RequiresApproval"}

Stored ==
  [document |-> IF Load(file) = None THEN None ELSE Show(Load(file)),
   beta     |-> beta,
   crash    |-> crash = "on",
   login    |-> Registered(login)]

Blank ==
  [document |-> [switches |-> [field \in Fields |-> FALSE], hotkeys |-> Empty],
   beta |-> FALSE, crash |-> FALSE, login |-> FALSE]

Dirty(now, base) == base # None /\ now # base

HasUnsavedChanges == Dirty(shown, baseline)

(* refreshUnsavedState, with the label, the Apply button and sudden        *)
(* termination, which is off while the footer shows edits.                 *)
RefreshUnsavedState(now, base) ==
  footer' = IF Dirty(now, base) THEN "dirty" ELSE "clean"

(* updateInputSuspension; a runtime that is not running is not told.       *)
SuspensionIgnoresKey(listens, isKey) ==    \* mutant: also in the background
  /\ suspended' = (loaded # None /\ listens)
  /\ restarted' = FALSE

UpdateInputSuspension(listens, isKey) ==
  /\ suspended' = (loaded # None /\ listens /\ isKey)
  /\ restarted' = FALSE

Present(list) == Len(list) <= MaxSheets /\ sheets' = list

-----------------------------------------------------------------------------
(***************************************************************************)
(* Loading.                                                                *)
(***************************************************************************)
(* loadFromDisk that fails: a missing file may have been created.          *)
LoadFails ==
  /\ file' \in {file, EnsureFile(file)}
  /\ UNCHANGED <<beta, crash, login, outside, runtime, controls, recorder>>

(* Success: the rows are made anew, and a recorder that goes with its row  *)
(* may or may not be told that it is no longer first responder.            *)
LoadSucceeds ==
  /\ file' = EnsureFile(file)
  /\ Load(file') # None
  /\ UNCHANGED <<beta, crash, login, reporting, loaded>>
  /\ shown' = Stored'
  /\ baseline' = shown'
  /\ status' = ""
  /\ RefreshUnsavedState(shown', baseline')
  /\ recording' = None
  /\ \/ /\ UNCHANGED <<listening, suspended, restarted>>
        /\ untold' = IF recording = None THEN untold
                     ELSE IF untold = "closed" THEN "no" ELSE "gone"
     \/ /\ recording # None
        /\ listening' = FALSE
        /\ UpdateInputSuspension(FALSE, key)
        /\ untold' = "no"
  /\ outside' = {}

(* `before` are the sheets that stay.                                      *)
LoadFromDisk(before) ==
  \/ LoadFails /\ Present(Append(before, "alert"))
  \/ LoadSucceeds /\ Present(before)

-----------------------------------------------------------------------------
(***************************************************************************)
(* Saving: what performSave may end with.                                  *)
(***************************************************************************)
Now ==
  [file |-> file, beta |-> beta, crash |-> crash, login |-> login, outside |-> outside,
   reporting |-> reporting, loaded |-> loaded, suspended |-> suspended,
   restarted |-> restarted, shown |-> shown, baseline |-> baseline, status |-> status,
   result |-> TRUE, errors |-> <<>>]

RebaseAll(save, part) ==    \* mutant: the whole baseline at the first success
  IF save.baseline = None THEN save ELSE [save EXCEPT !.baseline = save.shown]

RebaseNil(save, part) ==    \* mutant: a baseline is begun where there is none
  IF save.baseline = None THEN [save EXCEPT !.baseline = [only \in {part} |-> save.shown[only]]]
  ELSE [save EXCEPT !.baseline[part] = save.shown[part]]

Rebase(save, part) ==
  IF save.baseline = None THEN save
  ELSE [save EXCEPT !.baseline[part] = save.shown[part]]

Fails(save) == [save EXCEPT !.result = FALSE, !.errors = <<"alert">>]

NotSaved ==
  {Fails([Now EXCEPT !.file = created]) : created \in {file, EnsureFile(file)}}

SavedFile ==
  LET written == SaveDocument(EnsureFile(file), shown.document)
  IN  IF written = None THEN {}
      ELSE {Rebase([Now EXCEPT !.file = written, !.outside = @ \ {"document"}],
                   "document")}

(* applySettings: a running runtime reloads, another is started.           *)
ApplyToRunning(save) ==    \* mutant: only a running runtime is told
  IF save.loaded # None THEN [save EXCEPT !.loaded = Load(save.file)] ELSE save

ApplySettings(save) ==
  IF save.loaded # None THEN [save EXCEPT !.loaded = Load(save.file)]
  ELSE [save EXCEPT !.loaded = Load(save.file), !.suspended = FALSE,
                    !.restarted = TRUE]

NotApplied(save) == Fails([save EXCEPT !.status = "saved, not applied"])

(* The update channel, then the choice about crash reports, and the        *)
(* reporter with it.                                                       *)
SaveBetaUpdates(save) ==
  Rebase([save EXCEPT !.beta = save.shown.beta], "beta")

SHStopNever(enabled, running) == running \/ enabled    \* mutant: never stopped

SHStartOrStop(enabled, running) == enabled

SaveCrashReporting(save) ==
  LET enabled == save.shown.crash
      changed == save.crash = "unset" \/ enabled # (save.crash = "on")
  IN  Rebase([save EXCEPT
                !.crash     = IF changed THEN IF enabled THEN "on" ELSE "off" ELSE @,
                !.reporting = IF changed THEN SHStartOrStop(enabled, @) ELSE @], "crash")

(* SHLoginItemManager setEnabled: what the status may be afterwards.       *)
SetEnabled(enabled, before) ==
  IF enabled = Registered(before) THEN {before}
  ELSE {before} \cup (IF enabled THEN {"Enabled", "RequiresApproval"}
                                 ELSE {"NotRegistered"})

(* The switch is set to what the system did.                               *)
SaveLoginItem(save) ==
  {LET wanted == save.shown.login
       done   == Rebase([save EXCEPT !.login = after, !.outside = @ \ {"login"},
                                     !.shown.login = Registered(after)], "login")
   IN  CASE wanted /\ after = "RequiresApproval" ->
              Fails([done EXCEPT !.status = "saved, approve"])
         [] wanted # Registered(after) ->
              Fails([done EXCEPT !.status = "saved, not at login"])
         [] OTHER -> [done EXCEPT !.status = "saved"]
     : after \in SetEnabled(save.shown.login, save.login)}

PerformSave ==
  LET applied == {ApplySettings(save) : save \in SavedFile}
  IN  NotSaved
      \cup {NotApplied(save) : save \in SavedFile}
      \cup UNION {SaveLoginItem(SaveCrashReporting(SaveBetaUpdates(save))) : save \in applied}

(* What a save changes besides the window.                                 *)
Saves(save) ==
  /\ file' = save.file
  /\ beta' = save.beta
  /\ crash' = save.crash
  /\ login' = save.login
  /\ outside' = save.outside
  /\ reporting' = save.reporting
  /\ loaded' = save.loaded
  /\ shown' = save.shown
  /\ status' = save.status

(* The window stays, or closes: windowWillClose.  AppKit need not tell the *)
(* recorder that it is no longer first responder.                          *)
Stays(save) ==
  /\ baseline' = save.baseline
  /\ suspended' = save.suspended
  /\ restarted' = save.restarted
  /\ RefreshUnsavedState(save.shown, save.baseline)
  /\ UNCHANGED <<visible, key, recorder>>

Closes(save) ==
  /\ visible' = FALSE
  /\ key' = FALSE
  /\ listening' = FALSE
  /\ recording' \in {recording, None}
  /\ untold' = IF recording' = None THEN "no" ELSE "closed"
  /\ suspended' = FALSE
  /\ restarted' = FALSE
  /\ baseline' = None
  /\ RefreshUnsavedState(save.shown, None)

-----------------------------------------------------------------------------
(***************************************************************************)
(* Closing and quitting.                                                   *)
(***************************************************************************)
(* confirmDiscardingUnsavedChanges, where something is unsaved: a prompt   *)
(* that is up already settles this request too.                            *)
Confirm(kind, before) ==
  \/ /\ ~pending
     /\ pending' = TRUE
     /\ Present(Append(before, kind))
  \/ /\ pending
     /\ UNCHANGED pending
     /\ Present(before)

(* performClose, with windowShouldClose, after what `save` stands for.     *)
ClosesUnasked(save, before) ==    \* mutant: the edits are not asked about
  Closes(save) /\ Present(before) /\ UNCHANGED pending

PerformClose(save, before) ==
  IF Dirty(save.shown, save.baseline)
  THEN Stays(save) /\ Confirm("close", before)
  ELSE Closes(save) /\ Present(before) /\ UNCHANGED pending

(* The window is up and no sheet is in the way.                            *)
Interactive == app = "up" /\ visible /\ sheets = <<>>

Cancel ==
  /\ Interactive
  /\ Saves(Now)
  /\ PerformClose(Now, sheets)
  /\ UNCHANGED <<app, hand>>

Apply ==
  /\ Interactive
  /\ footer # "clean"
  /\ \E save \in PerformSave : Saves(save) /\ Stays(save) /\ Present(save.errors)
  /\ UNCHANGED <<pending, app, hand>>

Ok ==
  /\ Interactive
  /\ \E save \in PerformSave :
       /\ Saves(save)
       /\ IF save.result THEN PerformClose(save, save.errors)
          ELSE Stays(save) /\ Present(save.errors) /\ UNCHANGED pending
  /\ UNCHANGED <<app, hand>>

(* The process ends, with all it has in memory.                            *)
Exits ==
  /\ app' = "gone"
  /\ reporting' = FALSE
  /\ loaded' = None
  /\ suspended' = FALSE
  /\ restarted' = FALSE
  /\ visible' = FALSE
  /\ key' = FALSE
  /\ sheets' = <<>>
  /\ pending' = FALSE
  /\ shown' = Blank
  /\ baseline' = None
  /\ status' = ""
  /\ footer' = "untouched"
  /\ recording' = None
  /\ listening' = FALSE
  /\ untold' = "no"
  /\ outside' = {}
  /\ UNCHANGED <<file, beta, crash, login>>

(* applicationShouldTerminate.  A request that finds a prompt pending is   *)
(* answered at once: the app stays.                                        *)
QuitAsks ==
  /\ app = "up"
  /\ HasUnsavedChanges
  /\ app' = IF pending THEN "up" ELSE "quitting"
  /\ Confirm("quit", sheets)
  /\ UNCHANGED <<stores, runtime, controls, recorder, visible, key, hand>>

Quit == app = "up" /\ ~HasUnsavedChanges /\ Exits /\ UNCHANGED hand

(* A logout does not ask an app that allows sudden termination.            *)
SuddenTermination == app = "up" /\ footer # "dirty" /\ Exits /\ UNCHANGED hand

(* The answers to the prompt in front.                                     *)
Answered(kind) ==
  /\ sheets # <<>>
  /\ Head(sheets) = kind
  /\ pending' = FALSE

SavePrompted ==
  \E save \in PerformSave, kind \in Prompts :
    /\ Answered(kind)
    /\ Saves(save)
    /\ IF save.result /\ kind = "close" THEN Closes(save) ELSE Stays(save)
    /\ Present(Tail(sheets) \o save.errors)
    /\ app' = CASE kind = "close" -> app
                [] kind = "quit" -> IF save.result THEN "leaving" ELSE "up"
    /\ UNCHANGED hand

DontSave ==
  \E kind \in Prompts :
    /\ Answered(kind)
    /\ Present(Tail(sheets))
    /\ Saves(Now)
    /\ IF kind = "close" THEN Closes(Now) /\ UNCHANGED app
                         ELSE Stays(Now) /\ app' = "leaving"
    /\ UNCHANGED hand

CancelPromptPending ==    \* mutant: a cancelled prompt stays pending
  \E kind \in Prompts :
    /\ sheets # <<>>
    /\ Head(sheets) = kind
    /\ Present(Tail(sheets))
    /\ app' = IF kind = "quit" THEN "up" ELSE app
    /\ UNCHANGED <<pending, stores, runtime, controls, recorder, visible, key, hand>>

CancelPrompt ==
  \E kind \in Prompts :
    /\ Answered(kind)
    /\ Present(Tail(sheets))
    /\ app' = IF kind = "quit" THEN "up" ELSE app
    /\ UNCHANGED <<stores, runtime, controls, recorder, visible, key, hand>>

-----------------------------------------------------------------------------
(***************************************************************************)
(* The window.                                                             *)
(***************************************************************************)
(* showWindowAndActivate, also for a window that is open.                  *)
OpenSettings ==
  /\ app = "up"
  /\ LoadFromDisk(sheets)
  /\ visible' = TRUE
  /\ UNCHANGED <<key, pending, app, hand>>

BecomeKey ==
  /\ visible
  /\ ~key
  /\ sheets = <<>>
  /\ key' = TRUE
  /\ UpdateInputSuspension(listening, TRUE)
  /\ UNCHANGED <<stores, reporting, loaded, controls, recorder, visible, sheets, pending, app, hand>>

ResignKey ==
  /\ key
  /\ key' = FALSE
  /\ UpdateInputSuspension(listening, FALSE)
  /\ UNCHANGED <<stores, reporting, loaded, controls, recorder, visible, sheets, pending, app, hand>>

(* reloadFromDisk asks where something is unsaved.                         *)
Reload ==
  /\ Interactive
  /\ IF HasUnsavedChanges
     THEN /\ Present(<<"reload">>)
          /\ UNCHANGED <<stores, runtime, controls, recorder>>
     ELSE LoadFromDisk(sheets)
  /\ UNCHANGED <<visible, key, pending, app, hand>>

DiscardForReload ==
  /\ sheets # <<>>
  /\ Head(sheets) = "reload"
  /\ LoadFromDisk(Tail(sheets))
  /\ UNCHANGED <<visible, key, pending, app, hand>>

(* The other answers: a sheet that is read, and betaUpdatesChanged.        *)
Dismiss ==
  /\ sheets # <<>>
  /\ Head(sheets) \in {"reload", "beta", "alert"}
  /\ Present(Tail(sheets))
  /\ UNCHANGED <<stores, runtime, controls, recorder, visible, key, pending, app, hand>>

DeclineBeta ==
  /\ sheets # <<>>
  /\ Head(sheets) = "beta"
  /\ Present(Tail(sheets))
  /\ shown' = [shown EXCEPT !.beta = FALSE]
  /\ RefreshUnsavedState(shown', baseline)
  /\ UNCHANGED <<stores, runtime, baseline, status, recorder, visible, key, pending, app, hand>>

-----------------------------------------------------------------------------
(***************************************************************************)
(* The controls.                                                           *)
(***************************************************************************)
Edits(part, now) ==
  /\ Interactive
  /\ key
  /\ shown' = [shown EXCEPT ![part] = now]
  /\ RefreshUnsavedState(shown', baseline)
  /\ UNCHANGED <<stores, reporting, loaded, baseline, status, visible, key, pending, app, hand>>

EditsDocument(member, now) ==
  /\ member \in hand
  /\ Edits("document", now)
  /\ UNCHANGED <<suspended, restarted, recorder, sheets>>

Flipped(switches, field) == [switches EXCEPT ![field] = ~@]

FlipSwitch(field) ==
  /\ field = "trayScrollInverted" => shown.document.switches.trayScroll
  /\ EditsDocument("switches",
       [shown.document EXCEPT
          !.switches = TrayScrollChanged(Flipped(@, field))])

FlipHotkey(id) ==
  /\ id \in DOMAIN shown.document.hotkeys
  /\ EditsDocument("hotkeys", [shown.document EXCEPT !.hotkeys[id].enabled = ~@])

Recorded(hotkey, name, modifiers) == [hotkey EXCEPT !.key = name, !.modifiers = modifiers]

ClearShortcut(id) ==
  /\ id \in DOMAIN shown.document.hotkeys
  /\ recording # id
  /\ shown.document.hotkeys[id].key # ""
  /\ EditsDocument("hotkeys", [shown.document EXCEPT !.hotkeys[id] = Recorded(@, "", <<>>)])

FlipBeta ==
  /\ "beta" \in hand
  /\ Edits("beta", ~shown.beta)
  /\ Present(IF shown'.beta THEN <<"beta">> ELSE <<>>)
  /\ UNCHANGED <<suspended, restarted, recorder>>

FlipPreference(part) ==
  /\ part \in hand
  /\ Edits(part, ~shown[part])
  /\ UNCHANGED <<suspended, restarted, recorder, sheets>>

(* A click on a recorder; one that recorded before resigns first.          *)
BeginRecording(id) ==
  /\ Interactive
  /\ key
  /\ id \in DOMAIN shown.document.hotkeys
  /\ recording # id
  /\ "hotkeys" \in hand
  /\ recording' = id
  /\ listening' = TRUE
  /\ untold' = "no"
  /\ UpdateInputSuspension(TRUE, key)
  /\ UNCHANGED <<stores, reporting, loaded, controls, window, app, hand>>

(* The recorder resigns first responder: Escape, or a click elsewhere.     *)
EndRecording ==
  /\ Interactive
  /\ key
  /\ recording # None
  /\ recording' = None
  /\ listening' = FALSE
  /\ untold' = "no"
  /\ UpdateInputSuspension(FALSE, key)
  /\ UNCHANGED <<stores, reporting, loaded, controls, window, app, hand>>

(* Escape alone ends the recording instead.                                *)
CaptureEvent(name, flags) ==
  /\ recording # None
  /\ ~(name = "escape" /\ flags = {})
  /\ recording \in DOMAIN shown.document.hotkeys
  /\ Edits("document",
           [shown.document EXCEPT
              !.hotkeys[recording] = Recorded(@, name, ModifiersFromFlags(flags))])
  /\ recording' = None
  /\ listening' = FALSE
  /\ untold' = "no"
  /\ UpdateInputSuspension(FALSE, key)
  /\ UNCHANGED sheets

-----------------------------------------------------------------------------
(***************************************************************************)
(* The app and the world.                                                  *)
(***************************************************************************)
(* main, then the question about crash reports, once.                      *)
Launch ==
  /\ app = "gone"
  /\ app' = "up"
  /\ crash' \in IF crash = "unset" THEN {"on", "off"} ELSE {crash}
  /\ reporting' = (crash' = "on")
  /\ UNCHANGED <<file, beta, login, outside, loaded, suspended, restarted, controls, recorder, window, hand>>

(* The poll for access starts the runtime, with the file of the store.     *)
RuntimeStarts ==
  /\ app = "up"
  /\ loaded = None
  /\ file' = EnsureFile(file)
  /\ Load(file') # None
  /\ loaded' = Load(file')
  /\ suspended' = FALSE
  /\ restarted' = TRUE
  /\ UNCHANGED <<beta, crash, login, outside, reporting, controls, recorder, window, app, hand>>

(* The reply to a quit that waited.                                        *)
Exit == app = "leaving" /\ Exits /\ UNCHANGED hand

EditFile ==
  /\ "file" \in hand
  /\ file' \in Files \ {file}
  /\ outside' = outside \cup {"document"}
  /\ UNCHANGED <<beta, crash, login, runtime, controls, recorder, window, app, hand>>

(* The user approves of or removes the login item in System Settings.      *)
EditLoginItem ==
  /\ "login" \in hand
  /\ Registered(login)
  /\ login' \in {"Enabled", "NotRegistered"} \ {login}
  /\ outside' = outside \cup {"login"}
  /\ UNCHANGED <<file, beta, crash, runtime, controls, recorder, window, app, hand>>

-----------------------------------------------------------------------------
Init ==
  /\ hand \in Hands
  /\ file \in Files
  /\ beta = FALSE
  /\ IF "crash" \in hand THEN crash \in {"unset", "on"} ELSE crash = "off"
  /\ IF "login" \in hand THEN login \in {"NotRegistered", "NotFound"}
                          ELSE login = "RequiresApproval"
  /\ reporting = FALSE
  /\ loaded = None
  /\ suspended = FALSE
  /\ app = "gone"
  /\ visible = FALSE
  /\ key = FALSE
  /\ shown = Blank
  /\ baseline = None
  /\ status = ""
  /\ footer = "untouched"
  /\ recording = None
  /\ listening = FALSE
  /\ untold = "no"
  /\ sheets = <<>>
  /\ pending = FALSE
  /\ outside = {}
  /\ restarted = FALSE

Next ==
  \/ Launch \/ RuntimeStarts \/ Exit \/ EditFile \/ EditLoginItem
  \/ OpenSettings \/ BecomeKey \/ ResignKey
  \/ Cancel \/ Apply \/ Ok \/ Reload
  \/ QuitAsks \/ Quit \/ SuddenTermination
  \/ SavePrompted \/ DontSave \/ CancelPrompt
  \/ DiscardForReload \/ DeclineBeta \/ Dismiss
  \/ \E field \in Switches : FlipSwitch(field)
  \/ \E id \in KnownActions : FlipHotkey(id) \/ ClearShortcut(id) \/ BeginRecording(id)
  \/ FlipBeta
  \/ \E part \in {"crash", "login"} : FlipPreference(part)
  \/ EndRecording
  \/ \E name \in Keys, flags \in Flags : CaptureEvent(name, flags)

Spec == Init /\ [][Next]_vars

-----------------------------------------------------------------------------
TypeOK ==
  /\ file \in Roots \cup {NoFile, Broken}
  /\ loaded \in Documents \cup {None}
  /\ beta \in BOOLEAN
  /\ crash \in {"unset", "on", "off"}
  /\ login \in {"NotRegistered", "NotFound", "Enabled", "RequiresApproval"}
  /\ reporting \in BOOLEAN
  /\ suspended \in BOOLEAN
  /\ app \in {"gone", "up", "quitting", "leaving"}
  /\ visible \in BOOLEAN
  /\ key \in BOOLEAN
  /\ shown \in Snapshots
  /\ baseline = None \/ baseline \in Snapshots
  /\ status \in {"", "saved", "saved, not applied", "saved, approve", "saved, not at login"}
  /\ footer \in {"untouched", "clean", "dirty"}
  /\ recording \in KnownActions \cup {None}
  /\ listening \in BOOLEAN
  /\ untold \in {"no", "gone", "closed"}
  /\ sheets \in Seq(Sheets)
  /\ Len(sheets) <= MaxSheets
  /\ pending \in BOOLEAN
  /\ hand \in Hands
  /\ outside \subseteq Parts
  /\ restarted \in BOOLEAN

(* What the user sees that is not in its store, others' changes aside.     *)
Unsaved ==
  LET stored == Stored
  IN  {part \in Parts \ outside : shown[part] # stored[part]}

(***************************************************************************)
(* A window that shows no unsaved changes shows what the stores hold:      *)
(* after a save that failed half-way, the parts that were not reached are  *)
(* still unsaved, and what was written is read back as it was shown        *)
(* (SHSettingsWindowController.mm:1192-1317, SHSettingsStore.mm:273-356,   *)
(* settings.cpp:243-338).                                                  *)
(***************************************************************************)
CleanMeansStored ==
  visible /\ baseline # None /\ ~HasUnsavedChanges => Unsaved = {}

(***************************************************************************)
(* Edits are lost only when the user says so: no close, quit, logout or    *)
(* reload loses a part that is in no store, nor does anything but the      *)
(* user's own hand change one that is shown, unless the prompt for it was  *)
(* answered that way (SHSettingsWindowController.mm:1107-1130, 1381-1419,  *)
(* 1603-1636, AppDelegate.m:242-258).  A save may set the login switch to  *)
(* what the system did, and says so.  One step is exempt that should not   *)
(* be: Settings chosen once more reloads the open window without asking    *)
(* (SHSettingsWindowController.mm:651-653), though the window "asks        *)
(* whether to save them before it closes, reloads, or the app quits"       *)
(* (README.md:173-175).                                                    *)
(***************************************************************************)
Lost ==
  {part \in Unsaved :
     /\ shown[part] # Stored'[part]
     /\ \/ ~visible'
        \/ app' = "leaving"
        \/ shown'[part] # shown[part] /\ (part = "login" => status' = "")}

ByHand ==
  \/ \E field \in Switches : FlipSwitch(field)
  \/ \E id \in KnownActions : FlipHotkey(id) \/ ClearShortcut(id)
  \/ \E name \in Keys, flags \in Flags : CaptureEvent(name, flags)
  \/ FlipBeta \/ DeclineBeta
  \/ \E part \in {"crash", "login"} : FlipPreference(part)

EditsLostOnlyIfTold ==
  [][visible /\ baseline # None /\ app # "leaving" /\ Lost # {}
       => ByHand \/ DontSave \/ DiscardForReload \/ OpenSettings]_<<visible, app, shown>>

(***************************************************************************)
(* Every request to close or to quit is settled: an app that waits for the *)
(* reply has a prompt up that will give it, and never two prompts are up,  *)
(* nor is one taken to be up that is not (SHSettingsWindowController.mm:   *)
(* 1381-1419, AppDelegate.m:242-258).  A quit that finds the prompt of a   *)
(* close is settled by a no at once, not by the answer to that prompt.     *)
(***************************************************************************)
PromptsUp == {i \in DOMAIN sheets : sheets[i] \in Prompts}

RequestsAreSettled ==
  /\ app = "quitting" => \E i \in PromptsUp : sheets[i] = "quit"
  /\ app # "leaving" => Cardinality(PromptsUp) = IF pending THEN 1 ELSE 0

(***************************************************************************)
(* The runtime leaves the keys alone just while a recorder is recording in *)
(* the key window, and never once the window has closed                    *)
(* (SHSettingsWindowController.mm:327-356, 1540-1636, SHRuntimeHost.mm:    *)
(* 127-134, daemon.cpp:1016-1022).  It may go on without a recorder when   *)
(* one was recording as the rows were made anew and AppKit did not tell it *)
(* that it is no longer first responder; and a recorder may record without *)
(* it when                                                                 *)
(*   - the runtime was started since the window last told it (`restarted`; *)
(*     daemon.cpp:75 starts with the input on, though 715-716 say "While a *)
(*     shortcut is being recorded, let keystrokes reach the editor");      *)
(*   - the window was closed over the recorder, again untold, and opened   *)
(*     again with a file that cannot be loaded, which keeps the rows.      *)
(***************************************************************************)
SuspendedWhileRecording ==
  /\ suspended => visible /\ key /\ (recording # None \/ untold = "gone")
  /\ loaded # None /\ visible /\ key /\ recording # None
       => suspended \/ restarted \/ untold = "closed"

(***************************************************************************)
(* "Saved and applied." is true: as long as nobody else edits the file,    *)
(* the runtime runs on what the file holds, and each enabled hotkey that   *)
(* was recorded is active (SHSettingsWindowController.mm:81-133, 1192-1317,*)
(* SHRuntimeHost.mm:99-125, daemon.cpp:242-429, 846-875).                  *)
(***************************************************************************)
SavedIsLive ==
  status = "saved" /\ "document" \notin outside =>
    /\ loaded # None
    /\ loaded = Load(file)
    /\ \A id \in DOMAIN shown.document.hotkeys :
         Enabled(id, loaded) /\ loaded.hotkeys[id].key \in Keys
           => id \notin CompileRuntimeConfig(loaded).inert_action_ids

(***************************************************************************)
(* The reporter runs exactly while the recorded choice is to send reports, *)
(* through every save, failed save, quit and launch (AppDelegate.m:164-176,*)
(* 303-327, SHSentryMonitoring.m:67-141).                                  *)
(***************************************************************************)
ReportingFollowsChoice == app # "gone" => (reporting <=> crash = "on")

(***************************************************************************)
(* No step of the program makes a file that loads one that does not, nor   *)
(* touches the entry of a hotkey that the window does not know or a        *)
(* top-level member that it does not show (SHSettingsStore.mm:273-356).    *)
(* Of a hotkey it knows, the save keeps only what it could read: modifier  *)
(* words it does not support and further members of the entry are dropped  *)
(* (SHSettingsStore.mm:328-335).  A file that does not load, as one of     *)
(* another version, is not covered.                                        *)
(***************************************************************************)
Others(f) ==
  <<[id \in ActionIds \ KnownActions |-> f.hotkeys[id]],
    [name \in Members \ (Fields \cup {"telemetryEnabled"}) |-> f.fields[name]]>>

SavesKeepTheRest ==
  [][file' # file /\ ~EditFile /\ Load(file) # None
       => Load(file') # None /\ Others(file') = Others(file)]_file
=============================================================================
