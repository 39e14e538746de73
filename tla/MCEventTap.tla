----------------------------- MODULE MCEventTap -----------------------------
(* Two documents: in one, two actions have the same shortcut under two     *)
(* names of its key, and one cannot be compiled; in the other fast swipes  *)
(* are off and the shortcut means something else.                          *)
EXTENDS EventTap

Id(stem, to, number) == [stem |-> stem, to |-> to, number |-> number]

Expose == Id("expose", "toggle", 0)

GoTo10 == Id("switch_space", "go_to", 10)

GoTo3 == Id("switch_space", "go_to", 3)

Left == Id("switch_space", "left", 0)

MCAlphabetical == <<Expose, GoTo10, GoTo3, Left>>

MCLowercase ==
  [option |-> "option", Alt |-> "alt", control |-> "control",
   return |-> "return", Enter |-> "enter", f5 |-> "f5"]

Hotkey(key, modifiers, enabled) ==
  [key |-> key, modifiers |-> modifiers, enabled |-> enabled]

Document(fast_swipe, wrap, hotkeys) ==
  [fast_swipe |-> fast_swipe, workspace_wrap |-> wrap, display_wrap |-> FALSE,
   workspace_targets_focused_display |-> TRUE, move_cursor_to_target_display |-> TRUE,
   hotkeys |-> hotkeys]

MCDocuments ==
  {Document(TRUE, TRUE,
     [id \in {GoTo10, GoTo3, Left, Expose} |->
        CASE id = GoTo10 -> Hotkey("f5", <<"option">>, TRUE)
          [] id = GoTo3  -> Hotkey("return", <<"option">>, TRUE)
          [] id = Left   -> Hotkey("Enter", <<"Alt">>, TRUE)
          [] id = Expose -> Hotkey("return", <<"option">>, FALSE)]),
   Document(FALSE, TRUE,
     [id \in {GoTo10, Left, Expose} |->
        CASE id = GoTo10 -> None
          [] id = Left   -> Hotkey("Enter", <<"Alt">>, TRUE)
          [] id = Expose -> Hotkey("return", <<"control">>, TRUE)])}

MCPresses ==
  [key : {"return"}, flags : {{"alternate"}, {"control"}}, repeat : BOOLEAN]
=============================================================================
