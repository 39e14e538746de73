---------------------------- MODULE RuntimeConfig ----------------------------
(***************************************************************************)
(* How the runtime compiles a settings document into the hotkeys that are  *)
(* active: key names and modifiers are parsed, an action that cannot be    *)
(* compiled is inert, and the rest are sorted by action id, which decides  *)
(* between hotkeys with the same shortcut.  Pure.                          *)
(*                                                                         *)
(* An action id such as switch_space_3 is the record of its stem, what     *)
(* follows the stem, and the number when a number follows.                 *)
(***************************************************************************)
EXTENDS Naturals, Sequences

CONSTANTS
  Alphabetical,  \* the action ids of the documents, sorted as strings
  Lowercase,     \* the lower-case spelling of each word of the documents
  None           \* no hotkey, no key code, no flags, no request

Words(seq) == {seq[i] : i \in DOMAIN seq}

ActionIds == Words(Alphabetical)

(* The flags of parse_modifier_flags; no other word is a modifier.         *)
ModifierFlag ==
  [ctrl |-> "control", option |-> "alternate", alt |-> "alternate",
   cmd |-> "command", command |-> "command", meta |-> "command", shift |-> "shift"]

Letters ==
  {"a", "b", "c", "d", "e", "f", "g", "h", "i", "j", "k", "l", "m", "n", "o",
   "p", "q", "r", "s", "t", "u", "v", "w", "x", "y", "z"}

Digits == {"0", "1", "2", "3", "4", "5", "6", "7", "8", "9"}

(* The keys of parse_key_code by their first name, and its other names.    *)
KeyCodes ==
  {"tab", "return", "space", "escape", "delete", "left", "right", "up", "down",
   "[", "]", "-", "="} \cup Letters \cup Digits

OtherName ==
  [enter |-> "return", esc |-> "escape", backspace |-> "delete",
   arrowleft |-> "left", arrowright |-> "right", arrowup |-> "up",
   arrowdown |-> "down", leftbracket |-> "[", rightbracket |-> "]",
   minus |-> "-", equal |-> "="]

EventFlags == {ModifierFlag[w] : w \in DOMAIN ModifierFlag}

ParseModifierFlags(modifiers) ==
  LET words == {Lowercase[m] : m \in Words(modifiers)}
  IN  IF words \subseteq DOMAIN ModifierFlag THEN {ModifierFlag[w] : w \in words}
                                             ELSE None

ParseKeyCode(key) ==
  LET name == Lowercase[key]
  IN  CASE name \in KeyCodes -> name
        [] name \in DOMAIN OtherName -> OtherName[name]
        [] OTHER -> None

(* control::request; and the one an action id stands for, with the options *)
(* of the document.                                                        *)
Requests ==
  [kind : {"workspace"}, action : {"left", "right", "go_to"}, index : Nat,
   wrap : BOOLEAN, target_focused_display : BOOLEAN]
  \cup
  [kind : {"display"}, action : {"left", "right", "go_to"}, index : Nat,
   wrap : BOOLEAN, move_cursor_to_target_display : BOOLEAN]
  \cup
  [kind : {"system_ui"}, element : {"mission_control", "expose"}]
  \cup
  [kind : {"window_focus"}, direction : {"next", "prev"}]

ASSUME AlphabeticalAssumption ==
  /\ Alphabetical \in Seq([stem : STRING, to : STRING, number : Nat])
  /\ None \notin Requests
  /\ None \notin KeyCodes
  /\ \A flags \in SUBSET EventFlags : flags # None
  /\ None \notin [action_id : ActionIds, key_code : KeyCodes,
                 modifier_flags : SUBSET EventFlags, request : Requests]
  /\ \A i, j \in DOMAIN Alphabetical : Alphabetical[i] = Alphabetical[j] => i = j

NumberOrSide(id) ==
  \/ id.to \in {"left", "right"}
  \/ id.to = "go_to" /\ id.number \in 1 .. 10

RequestOf(id, doc) ==
  CASE id.stem = "switch_space" /\ NumberOrSide(id) ->
         [kind |-> "workspace", action |-> id.to, index |-> id.number,
          wrap |-> doc.workspace_wrap,
          target_focused_display |-> doc.workspace_targets_focused_display]
    [] id.stem = "switch_display" /\ NumberOrSide(id) ->
         [kind |-> "display", action |-> id.to, index |-> id.number,
          wrap |-> doc.display_wrap,
          move_cursor_to_target_display |-> doc.move_cursor_to_target_display]
    [] id.stem = "mission_control" /\ id.to = "toggle" ->
         [kind |-> "system_ui", element |-> "mission_control"]
    [] id.stem = "expose" /\ id.to = "toggle" ->
         [kind |-> "system_ui", element |-> "expose"]
    [] id.stem = "window_focus" /\ id.to \in {"next", "prev"} ->
         [kind |-> "window_focus", direction |-> id.to]
    [] OTHER -> None

CompileAction(id, doc) ==
  LET hotkey == doc.hotkeys[id]
      code   == ParseKeyCode(hotkey.key)
      flags  == ParseModifierFlags(hotkey.modifiers)
  IN  IF code = None \/ flags = None \/ RequestOf(id, doc) = None THEN None
      ELSE [action_id |-> id, key_code |-> code, modifier_flags |-> flags,
            request |-> RequestOf(id, doc)]

Enabled(id, doc) ==
  /\ id \in DOMAIN doc.hotkeys
  /\ doc.hotkeys[id] # None
  /\ doc.hotkeys[id].enabled

Active(id, doc) == Enabled(id, doc) /\ CompileAction(id, doc) # None

(* The hotkeys that are active, each at the place of its id in the         *)
(* alphabetical order they are sorted into.                                *)
CompileRuntimeConfig(doc) ==
  [fast_swipe       |-> doc.fast_swipe,
   active_hotkeys   |-> [i \in {i \in DOMAIN Alphabetical : Active(Alphabetical[i], doc)}
                           |-> CompileAction(Alphabetical[i], doc)],
   inert_action_ids |-> {id \in ActionIds : Enabled(id, doc) /\ ~Active(id, doc)}]

(* A key press is [key, flags, repeat].  The first hotkey that matches it, *)
(* as the tap looks for it; None when there is none.                       *)
HotkeyMatches(hotkey, press) ==
  /\ ~press.repeat
  /\ press.key = hotkey.key_code
  /\ press.flags = hotkey.modifier_flags

FirstMatch(config, press) ==
  LET hotkeys == config.active_hotkeys
      hits    == {i \in DOMAIN hotkeys : HotkeyMatches(hotkeys[i], press)}
      first   == {i \in hits : \A j \in hits : i <= j}
  IN  IF first = {} THEN None ELSE hotkeys[CHOOSE i \in first : TRUE]
=============================================================================
