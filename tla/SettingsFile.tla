---------------------------- MODULE SettingsFile ----------------------------
(***************************************************************************)
(* settings.json, as the runtime parses it, as the settings window shows   *)
(* it and as the window writes it back.  Pure.                             *)
(*                                                                         *)
(* A file that holds a JSON object is its root: the major number of        *)
(* `version` (None if there is no such number), the other members but      *)
(* `hotkeys`, and the members of `hotkeys` (None if it is missing, Broken  *)
(* if it is no object).  What an object does not have is absent.  The      *)
(* member of a hotkey is of the kind null, hotkey, invalid or absent.  A   *)
(* modifier is a word: the lists the window joins and splits again are     *)
(* sequences.                                                              *)
(***************************************************************************)
EXTENDS RuntimeConfig, Positions

CONSTANTS
  KnownActions,  \* action ids the window shows
  Members,       \* names of members that an object may have, but for hotkeys
  NoFile,        \* there is no file
  Broken         \* what is there is not a JSON object

(* The table of the action ids the program knows.                          *)
KnownHotkeys ==
  [stem : {"switch_space", "switch_display"}, to : {"left", "right"}, number : {0}]
  \cup [stem : {"switch_space", "switch_display"}, to : {"go_to"}, number : 1 .. 10]
  \cup [stem : {"window_focus"}, to : {"next", "prev"}, number : {0}]
  \cup [stem : {"mission_control", "expose"}, to : {"toggle"}, number : {0}]

(* What a file may hold, and what is read of it.                           *)
Spellings == DOMAIN Lowercase

Entries ==
  [kind : {"null", "invalid", "absent"}]
  \cup [kind : {"hotkey"}, key : Spellings \cup {""}, modifiers : Seq(Spellings),
        enabled : BOOLEAN]

Roots ==
  [version : Nat \cup {None},
   fields  : [Members -> {"true", "false", "other", "absent"}],
   hotkeys : [ActionIds -> Entries] \cup {None, Broken}]

Hotkeys == [key : Spellings, modifiers : Seq(Spellings), enabled : BOOLEAN]

Documents ==
  [workspace_wrap : BOOLEAN, display_wrap : BOOLEAN, tray_scroll : BOOLEAN,
   tray_scroll_inverted : BOOLEAN, fast_swipe : BOOLEAN,
   workspace_targets_focused_display : BOOLEAN, move_cursor_to_target_display : BOOLEAN,
   hotkeys : [ActionIds -> Hotkeys \cup {None}]]

-----------------------------------------------------------------------------
(***************************************************************************)
(* Reading: settings::load.                                                *)
(***************************************************************************)
Required == {"workspaceWrap", "displayWrap"}

Default ==
  [trayScroll |-> TRUE, trayScrollInverted |-> FALSE, fastSwipe |-> TRUE,
   workspaceTargetsFocusedDisplay |-> TRUE, moveCursorToTargetDisplay |-> TRUE]

Fields == Required \cup DOMAIN Default

DefaultKey(id) ==
  CASE id.to = "left" -> "a"
    [] id.to = "right" -> "d"
    [] id.to = "go_to" -> <<"1", "2", "3", "4", "5", "6", "7", "8", "9", "0">>[id.number]
    [] id.to \in {"next", "prev"} -> "Tab"
    [] id.stem = "mission_control" -> "w"
    [] id.stem = "expose" -> "e"

DefaultModifiers(id) ==
  CASE id.stem = "switch_display" -> <<"option", "ctrl">>
    [] id.to = "prev" -> <<"option", "shift">>
    [] OTHER -> <<"option">>

DefaultHotkey(id) ==
  [key |-> DefaultKey(id), modifiers |-> DefaultModifiers(id), enabled |-> TRUE]

IsHotkey(value) ==
  \/ value.kind = "null"
  \/ value.kind = "hotkey" /\ value.key # ""

ParseHotkey(value) ==
  IF value.kind = "null" THEN None
  ELSE [key |-> value.key, modifiers |-> value.modifiers, enabled |-> value.enabled]

ParseHotkeys(entries) ==
  [id \in ActionIds |->
     IF IsHotkey(entries[id]) THEN ParseHotkey(entries[id])
     ELSE IF id \in KnownActions THEN DefaultHotkey(id) ELSE None]

FieldIsValid(root, field) ==
  IF root.fields[field] = "absent" THEN field \notin Required
                                   ELSE root.fields[field] # "other"

Field(root, field) ==
  IF root.fields[field] = "absent" THEN Default[field] ELSE root.fields[field] = "true"

(* read_file finds a file.                                                 *)
Readable(file) == file # NoFile

(* The document, or None with an error.                                    *)
Load(file) ==
  CASE ~Readable(file) \/ file = Broken -> None
    [] \/ file.version # 1
       \/ \E field \in Fields : ~FieldIsValid(file, field)
       \/ file.hotkeys \in {None, Broken} -> None
    [] OTHER ->
         [workspace_wrap       |-> Field(file, "workspaceWrap"),
          display_wrap         |-> Field(file, "displayWrap"),
          tray_scroll          |-> Field(file, "trayScroll"),
          tray_scroll_inverted |-> Field(file, "trayScrollInverted"),
          fast_swipe           |-> Field(file, "fastSwipe"),
          workspace_targets_focused_display |->
            Field(file, "workspaceTargetsFocusedDisplay"),
          move_cursor_to_target_display |-> Field(file, "moveCursorToTargetDisplay"),
          hotkeys |-> ParseHotkeys(file.hotkeys)]

-----------------------------------------------------------------------------
(***************************************************************************)
(* Showing: loadDocument of the store and the controls of the window.      *)
(***************************************************************************)
CanonicalModifier ==
  [ctrl |-> "ctrl", control |-> "ctrl", option |-> "option", alt |-> "option",
   cmd |-> "cmd", command |-> "cmd", meta |-> "cmd", shift |-> "shift"]

CanonicalNames == {"ctrl", "option", "shift", "cmd"}

ModifiersFromFlags(flags) ==
  LET Held(word) == IF word \in flags THEN <<word>> ELSE <<>>
  IN  Held("ctrl") \o Held("option") \o Held("shift") \o Held("cmd")

(* SHParseModifiers: words that are no modifiers are left out.             *)
ParseModifiers(modifiers) ==
  LET words == {Lowercase[m] : m \in Words(modifiers)} \cap DOMAIN CanonicalModifier
  IN  ModifiersFromFlags({CanonicalModifier[w] : w \in words})

ShowHotkey(doc, id) ==
  LET hotkey == doc.hotkeys[id]
  IN  IF hotkey = None THEN [key |-> "", modifiers |-> <<>>, enabled |-> FALSE]
      ELSE [hotkey EXCEPT !.modifiers = ParseModifiers(@)]

(* Inverted scrolling shows as off while tray scrolling is off.            *)
TrayScrollChanged(switches) ==
  IF switches.trayScroll THEN switches
                         ELSE [switches EXCEPT !.trayScrollInverted = FALSE]

Show(doc) ==
  [switches |->
     TrayScrollChanged(
       [workspaceWrap      |-> doc.workspace_wrap,
        displayWrap        |-> doc.display_wrap,
        trayScroll         |-> doc.tray_scroll,
        trayScrollInverted |-> doc.tray_scroll_inverted,
        fastSwipe          |-> doc.fast_swipe,
        workspaceTargetsFocusedDisplay |-> doc.workspace_targets_focused_display,
        moveCursorToTargetDisplay      |-> doc.move_cursor_to_target_display]),
   hotkeys |-> [id \in KnownActions |-> ShowHotkey(doc, id)]]

-----------------------------------------------------------------------------
(***************************************************************************)
(* Writing: saveDocument of the store.                                     *)
(***************************************************************************)
NoHotkeys == [id \in ActionIds |-> [kind |-> "absent"]]

Json(bool) == IF bool THEN "true" ELSE "false"

DefaultFile ==
  [version |-> 1,
   fields  |-> [name \in Members |->
                  CASE name \in Required -> "false"
                    [] name \in DOMAIN Default -> Json(Default[name])
                    [] OTHER -> "absent"],
   hotkeys |-> NoHotkeys]

(* settingsFileURL creates the file when there is none.                    *)
EnsureFile(file) == IF file = NoFile THEN DefaultFile ELSE file

(* normalized_modifiers: each once, in their order; None if one is unknown.*)
NormalizedModifiers(modifiers) ==
  LET names == [i \in DOMAIN modifiers |-> CanonicalModifier[Lowercase[modifiers[i]]]]
  IN  IF \E m \in Words(modifiers) : Lowercase[m] \notin DOMAIN CanonicalModifier
      THEN None
      ELSE AtPositions(names, FirstPositions(names))

CanBeSaved(item) ==
  /\ NormalizedModifiers(item.modifiers) # None
  /\ item.enabled => item.key # ""
  /\ item.modifiers # <<>> => item.key # ""

JsonHotkey(item) ==
  IF item.key = "" THEN [kind |-> "null"]
  ELSE [kind |-> "hotkey", key |-> item.key,
        modifiers |-> NormalizedModifiers(item.modifiers), enabled |-> item.enabled]

(* The hotkeys of the file are kept, those the window shows replaced.       *)
SavedAfresh(known, file) ==    \* mutant: only those the window shows
  [id \in ActionIds |-> IF id \in DOMAIN known THEN JsonHotkey(known[id])
                                               ELSE [kind |-> "absent"]]

SavedHotkeys(known, file) ==
  LET kept == IF file.hotkeys = None THEN NoHotkeys ELSE file.hotkeys
  IN  [id \in ActionIds |-> IF id \in DOMAIN known THEN JsonHotkey(known[id]) ELSE kept[id]]

(* The new file, or None with an error.  Members the window does not know  *)
(* are kept, but for one of former releases.                               *)
SaveDocument(file, controls) ==
  IF \/ file = Broken
     \/ file.hotkeys = Broken
     \/ \E id \in DOMAIN controls.hotkeys : ~CanBeSaved(controls.hotkeys[id])
  THEN None
  ELSE [version |-> 1,
        fields  |-> [name \in Members |->
                       CASE name \in Fields -> Json(controls.switches[name])
                         [] name = "telemetryEnabled" -> "absent"
                         [] OTHER -> file.fields[name]],
        hotkeys |-> SavedHotkeys(controls.hotkeys, file)]

-----------------------------------------------------------------------------
(* Words that are spelled in lower case are their own lower-case spelling. *)
ASSUME FileAssumption ==
  /\ KnownActions \subseteq ActionIds \cap KnownHotkeys
  /\ Fields \subseteq Members
  /\ NoFile # Broken
  /\ \A missing \in {None, NoFile, Broken} :
       missing \notin Roots \cup [ActionIds -> Entries] \cup Documents \cup Hotkeys
  /\ CanonicalNames \cup {DefaultKey(id) : id \in KnownActions} \subseteq Spellings
  /\ \A w \in Spellings \cap (KeyCodes \cup DOMAIN CanonicalModifier) :
       Lowercase[w] = w
=============================================================================
