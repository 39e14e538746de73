-------------------------- MODULE MCSettingsWindow --------------------------
(* One hotkey the program knows and one it does not.  Four files: one of   *)
(* another release with members the program does not know, one with        *)
(* modifiers in other words than the window writes, one that is not        *)
(* supported and one that is not JSON, besides none.                       *)
EXTENDS SettingsWindow, TLC

Left == [stem |-> "switch_space", to |-> "left", number |-> 0]

Later == [stem |-> "later", to |-> "toggle", number |-> 0]

MCAlphabetical == <<Later, Left>>

MCKnownActions == {Left}

MCLowercase ==
  [option |-> "option", Control |-> "control", hyper |-> "hyper", ctrl |-> "ctrl",
   shift |-> "shift", cmd |-> "cmd", Tab |-> "tab", a |-> "a", f5 |-> "f5"]

MCMembers == Fields \cup {"theme", "telemetryEnabled"}

Member(name, modifiers, enabled) ==
  [kind |-> "hotkey", key |-> name, modifiers |-> modifiers, enabled |-> enabled]

Has(members) == members @@ [name \in MCMembers |-> "absent"]

HasHotkey(id, entry) == id :> entry @@ [other \in {Left, Later} |-> [kind |-> "absent"]]

MCFiles ==
  {[version |-> 1,
    fields  |-> Has([workspaceWrap |-> "true", displayWrap |-> "false", theme |-> "other",
                     telemetryEnabled |-> "true"]),
    hotkeys |-> HasHotkey(Later, Member("f5", <<"hyper">>, TRUE))],
   [version |-> 1,
    fields  |-> Has([workspaceWrap |-> "true", displayWrap |-> "false",
                     trayScroll |-> "false", trayScrollInverted |-> "true"]),
    hotkeys |-> HasHotkey(Left, Member("f5", <<"Control", "hyper", "option">>, FALSE))],
   [version |-> 2, fields |-> Has([workspaceWrap |-> "true"]), hotkeys |-> None],
   Broken, NoFile}

MCKeys == {"Tab"}

MCFlags == {{"ctrl"}}

MCSwitches == {"trayScroll"}

MCHands == {{"hotkeys"}, {"switches", "beta"}, {"crash", "login"}, {"file"}}
=============================================================================
