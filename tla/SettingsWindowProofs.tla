------------------------ MODULE SettingsWindowProofs ------------------------
(***************************************************************************)
(* Proofs about the settings window, for any files, actions, keys, edits   *)
(* and number of sheets: what the window makes of the file, whether its    *)
(* edits are lost or saved, the suspension of the hotkeys, and the         *)
(* requests to close and to quit.  The invariant has three parts: Inv, of  *)
(* the runtime, the recorder and the sheets; Content, of what the stores   *)
(* and the controls hold; and Frame, of the rest of the types.             *)
(***************************************************************************)
EXTENDS SettingsWindow, FiniteSetTheorems, SequenceTheorems, TLAPS

-----------------------------------------------------------------------------
(* Types: what the proofs need of them.                                    *)
CrashShown(controls_) == "crash" \in DOMAIN controls_ /\ controls_["crash"] \in BOOLEAN

TypeInv ==
  /\ reporting \in BOOLEAN
  /\ suspended \in BOOLEAN
  /\ restarted \in BOOLEAN
  /\ visible \in BOOLEAN
  /\ key \in BOOLEAN
  /\ listening \in BOOLEAN
  /\ CrashShown(shown)

Choice(running, recorded) == running <=> recorded = "on"

(* What a save is at any of its steps: the reporter still follows the      *)
(* choice, and a runtime it started knows of no recorder.                  *)
Steps == DOMAIN Now

Saving(save) ==
  /\ DOMAIN save = Steps
  /\ save.errors \in {<<>>, <<"alert">>}
  /\ save.result \in BOOLEAN
  /\ CrashShown(save.shown)
  /\ save.reporting \in BOOLEAN
  /\ Choice(reporting, crash) => Choice(save.reporting, save.crash)
  /\ save.suspended \in BOOLEAN /\ save.restarted \in BOOLEAN
  /\ \/ /\ save.suspended = suspended /\ save.restarted = restarted
        /\ loaded = None => save.loaded = None
     \/ save.suspended = FALSE /\ save.restarted = TRUE

LEMMA StepsAre ==
  Steps = {"file", "beta", "crash", "login", "outside", "reporting", "loaded", "suspended",
           "restarted", "shown", "baseline", "status", "result", "errors"}
BY DEF Steps, Now

LEMMA NowIsSaving ==
  ASSUME TypeInv
  PROVE  Saving(Now)
<1>1. DOMAIN Now = Steps
  BY DEF Steps
<1>2. /\ Now.errors = <<>> /\ Now.result = TRUE /\ Now.shown = shown
      /\ Now.reporting = reporting /\ Now.crash = crash /\ Now.loaded = loaded
      /\ Now.suspended = suspended /\ Now.restarted = restarted
  BY DEF Now
<1> QED
  BY <1>1, <1>2 DEF Saving, TypeInv

LEMMA RebaseIsSaving ==
  ASSUME NEW save, NEW part, Saving(save)
  PROVE  Saving(Rebase(save, part))
<1>1. PICK s : s = Rebase(save, part)
  OBVIOUS
<1>2. /\ DOMAIN s = DOMAIN save
      /\ s.errors = save.errors /\ s.result = save.result /\ s.shown = save.shown
      /\ s.reporting = save.reporting /\ s.crash = save.crash /\ s.loaded = save.loaded
      /\ s.suspended = save.suspended /\ s.restarted = save.restarted
  BY <1>1 DEF Rebase
<1> QED
  BY <1>1, <1>2 DEF Saving

LEMMA FailsIsSaving ==
  ASSUME NEW save, Saving(save)
  PROVE  Saving(Fails(save))
<1>1. PICK s : s = Fails(save)
  OBVIOUS
<1>2. /\ DOMAIN s = DOMAIN save
      /\ s.errors = <<"alert">> /\ s.result = FALSE /\ s.shown = save.shown
      /\ s.reporting = save.reporting /\ s.crash = save.crash /\ s.loaded = save.loaded
      /\ s.suspended = save.suspended /\ s.restarted = save.restarted
  BY <1>1, StepsAre DEF Fails, Saving
<1> QED
  BY <1>1, <1>2 DEF Saving

LEMMA StatusIsSaving ==
  ASSUME NEW save, NEW text, Saving(save)
  PROVE  Saving([save EXCEPT !.status = text])
<1>1. PICK s : s = [save EXCEPT !.status = text]
  OBVIOUS
<1>2. /\ DOMAIN s = DOMAIN save
      /\ s.errors = save.errors /\ s.result = save.result /\ s.shown = save.shown
      /\ s.reporting = save.reporting /\ s.crash = save.crash /\ s.loaded = save.loaded
      /\ s.suspended = save.suspended /\ s.restarted = save.restarted
  BY <1>1
<1> QED
  BY <1>1, <1>2 DEF Saving

LEMMA SavedFileIsSaving ==
  ASSUME TypeInv, NEW save \in SavedFile
  PROVE  Saving(save)
<1>1. PICK written : save = Rebase([Now EXCEPT !.file = written, !.outside = @ \ {"document"}],
                                   "document")
  BY DEF SavedFile
<1>2. PICK s : s = [Now EXCEPT !.file = written, !.outside = @ \ {"document"}]
  OBVIOUS
<1>3. /\ DOMAIN s = DOMAIN Now
      /\ s.errors = Now.errors /\ s.result = Now.result /\ s.shown = Now.shown
      /\ s.reporting = Now.reporting /\ s.crash = Now.crash /\ s.loaded = Now.loaded
      /\ s.suspended = Now.suspended /\ s.restarted = Now.restarted
  BY <1>2 DEF Now
<1>4. Saving(s)
  BY <1>3, NowIsSaving DEF Saving
<1> QED
  BY <1>1, <1>2, <1>4, RebaseIsSaving

LEMMA AppliedIsSaving ==
  ASSUME NEW save, Saving(save), save.loaded = loaded
  PROVE  Saving(ApplySettings(save))
<1>1. PICK s : s = ApplySettings(save)
  OBVIOUS
<1>2. /\ DOMAIN s = DOMAIN save
      /\ s.errors = save.errors /\ s.result = save.result /\ s.shown = save.shown
      /\ s.reporting = save.reporting /\ s.crash = save.crash
  BY <1>1 DEF ApplySettings
<1>3. CASE save.loaded # None
  <2>1. s.suspended = save.suspended /\ s.restarted = save.restarted
    BY <1>1, <1>3 DEF ApplySettings
  <2> QED
    BY <1>1, <1>2, <1>3, <2>1 DEF Saving
<1>4. CASE save.loaded = None
  <2>1. s.suspended = FALSE /\ s.restarted = TRUE
    BY <1>1, <1>4, StepsAre DEF ApplySettings, Saving
  <2> QED
    BY <1>1, <1>2, <2>1 DEF Saving
<1> QED
  BY <1>3, <1>4

LEMMA BetaIsSaving ==
  ASSUME NEW save, Saving(save)
  PROVE  Saving(SaveBetaUpdates(save))
<1>1. PICK s : s = [save EXCEPT !.beta = save.shown.beta]
  OBVIOUS
<1>2. /\ DOMAIN s = DOMAIN save
      /\ s.errors = save.errors /\ s.result = save.result /\ s.shown = save.shown
      /\ s.reporting = save.reporting /\ s.crash = save.crash /\ s.loaded = save.loaded
      /\ s.suspended = save.suspended /\ s.restarted = save.restarted
  BY <1>1
<1>3. Saving(s)
  BY <1>2 DEF Saving
<1> QED
  BY <1>1, <1>3, RebaseIsSaving DEF SaveBetaUpdates

(* The one step that starts or stops the reporter.                         *)
LEMMA CrashIsSaving ==
  ASSUME NEW save, Saving(save)
  PROVE  Saving(SaveCrashReporting(save))
<1>1. PICK enabled \in BOOLEAN : enabled = save.shown.crash
  BY DEF Saving, CrashShown
<1>2. PICK changed \in BOOLEAN :
        changed = (save.crash = "unset" \/ enabled # (save.crash = "on"))
  OBVIOUS
<1>3. PICK s : s = [save EXCEPT
                      !.crash     = IF changed THEN IF enabled THEN "on" ELSE "off" ELSE @,
                      !.reporting = IF changed THEN SHStartOrStop(enabled, @) ELSE @]
  OBVIOUS
<1>4. SaveCrashReporting(save) = Rebase(s, "crash")
  BY <1>1, <1>2, <1>3 DEF SaveCrashReporting
<1>5. /\ DOMAIN s = DOMAIN save
      /\ s.errors = save.errors /\ s.result = save.result /\ s.shown = save.shown
      /\ s.loaded = save.loaded
      /\ s.suspended = save.suspended /\ s.restarted = save.restarted
  BY <1>3
<1>6. "crash" \in DOMAIN save /\ "reporting" \in DOMAIN save /\ save.reporting \in BOOLEAN
  BY StepsAre DEF Saving
<1>7. /\ s.crash = IF changed THEN IF enabled THEN "on" ELSE "off" ELSE save.crash
      /\ s.reporting = IF changed THEN enabled ELSE save.reporting
  BY <1>3, <1>6 DEF SHStartOrStop
<1>8. s.reporting \in BOOLEAN
  BY <1>6, <1>7
<1>9. Choice(reporting, crash) => Choice(s.reporting, s.crash)
  <2>1. CASE changed
    BY <1>7, <2>1 DEF Choice
  <2>2. CASE ~changed
    BY <1>7, <2>2 DEF Choice, Saving
  <2> QED
    BY <2>1, <2>2
<1>10. Saving(s)
  BY <1>5, <1>8, <1>9 DEF Saving
<1> QED
  BY <1>4, <1>10, RebaseIsSaving

LEMMA LoginIsSaving ==
  ASSUME NEW before, Saving(before), NEW save \in SaveLoginItem(before)
  PROVE  Saving(save)
<1>1. PICK after, s, done :
        /\ s = [before EXCEPT !.login = after, !.outside = @ \ {"login"},
                              !.shown.login = Registered(after)]
        /\ done = Rebase(s, "login")
        /\ \/ save = Fails([done EXCEPT !.status = "saved, approve"])
           \/ save = Fails([done EXCEPT !.status = "saved, not at login"])
           \/ save = [done EXCEPT !.status = "saved"]
  BY DEF SaveLoginItem
<1>2. /\ DOMAIN s = DOMAIN before
      /\ s.errors = before.errors /\ s.result = before.result
      /\ s.reporting = before.reporting /\ s.crash = before.crash /\ s.loaded = before.loaded
      /\ s.suspended = before.suspended /\ s.restarted = before.restarted
  <2>1. PICK s1 : s1 = [before EXCEPT !.login = after, !.outside = before.outside \ {"login"}]
    OBVIOUS
  <2>2. s = [s1 EXCEPT !["shown"] = [before.shown EXCEPT !.login = Registered(after)]]
    BY <1>1, <2>1
  <2>3. /\ DOMAIN s1 = DOMAIN before
        /\ s1.errors = before.errors /\ s1.result = before.result
        /\ s1.reporting = before.reporting /\ s1.crash = before.crash
        /\ s1.loaded = before.loaded
        /\ s1.suspended = before.suspended /\ s1.restarted = before.restarted
    BY <2>1
  <2> QED
    BY <2>2, <2>3
<1>3. CrashShown(s.shown)
  <2>1. "shown" \in DOMAIN before
    BY StepsAre DEF Saving
  <2>2. s.shown = [before.shown EXCEPT !.login = Registered(after)]
    BY <1>1, <2>1
  <2> QED
    BY <2>2 DEF CrashShown, Saving
<1>4. Saving(s)
  BY <1>2, <1>3 DEF Saving
<1>5. Saving(done)
  BY <1>1, <1>4, RebaseIsSaving
<1>6. \A text : Saving([done EXCEPT !.status = text])
  BY <1>5, StatusIsSaving
<1> QED
  BY <1>1, <1>6, FailsIsSaving

LEMMA PerformSaveIsSaving ==
  ASSUME TypeInv, NEW save \in PerformSave
  PROVE  Saving(save)
<1>1. CASE save \in NotSaved
  <2>1. PICK created : save = Fails([Now EXCEPT !.file = created])
    BY <1>1 DEF NotSaved
  <2>2. PICK s : s = [Now EXCEPT !.file = created]
    OBVIOUS
  <2>3. /\ DOMAIN s = DOMAIN Now
        /\ s.errors = Now.errors /\ s.result = Now.result /\ s.shown = Now.shown
        /\ s.reporting = Now.reporting /\ s.crash = Now.crash /\ s.loaded = Now.loaded
        /\ s.suspended = Now.suspended /\ s.restarted = Now.restarted
    BY <2>2 DEF Now
  <2>4. Saving(s)
    BY <2>3, NowIsSaving DEF Saving
  <2> QED
    BY <2>1, <2>2, <2>4, FailsIsSaving
<1>2. CASE save \in {NotApplied(s) : s \in SavedFile}
  BY <1>2, SavedFileIsSaving, StatusIsSaving, FailsIsSaving DEF NotApplied
<1>3. CASE \E s \in SavedFile :
             save \in SaveLoginItem(SaveCrashReporting(SaveBetaUpdates(ApplySettings(s))))
  <2>1. PICK s \in SavedFile :
               save \in SaveLoginItem(SaveCrashReporting(SaveBetaUpdates(ApplySettings(s))))
    BY <1>3
  <2>2. Saving(s) /\ s.loaded = loaded
    BY SavedFileIsSaving DEF SavedFile, Rebase, Now
  <2>3. PICK applied : applied = ApplySettings(s) /\ Saving(applied)
    BY <2>2, AppliedIsSaving
  <2>4. PICK b : b = SaveBetaUpdates(applied) /\ Saving(b)
    BY <2>3, BetaIsSaving
  <2>5. PICK c : c = SaveCrashReporting(b) /\ Saving(c)
    BY <2>4, CrashIsSaving
  <2> QED
    BY <2>1, <2>3, <2>4, <2>5, LoginIsSaving
<1> QED
  BY <1>1, <1>2, <1>3 DEF PerformSave

-----------------------------------------------------------------------------
(***************************************************************************)
(* The sheets.  A prompt is pending just when one is among them, and there *)
(* is never more than that one.                                            *)
(***************************************************************************)
NoPrompt(list) == \A i \in DOMAIN list : list[i] \notin Prompts

OnePrompt(list) ==
  \E k \in DOMAIN list :
    list[k] \in Prompts /\ \A i \in DOMAIN list : list[i] \in Prompts => i = k

Fits(list, asked) ==
  /\ list \in Seq(Sheets)
  /\ asked \in BOOLEAN
  /\ asked => OnePrompt(list)
  /\ ~asked => NoPrompt(list)

QuitIsAsked(list) == \E k \in DOMAIN list : list[k] = "quit"

Notices == {"reload", "beta", "alert"}

LEMMA AppendOther ==
  ASSUME NEW list, NEW asked, Fits(list, asked), NEW x \in Notices
  PROVE  /\ Fits(Append(list, x), asked)
         /\ QuitIsAsked(list) => QuitIsAsked(Append(list, x))
<1> DEFINE more == Append(list, x)
<1>1. list \in Seq(Sheets) /\ x \in Sheets /\ x \notin Prompts
  BY DEF Fits, Sheets, Notices, Prompts
<1>2. /\ more \in Seq(Sheets) /\ DOMAIN more = 1 .. (Len(list) + 1)
      /\ DOMAIN list = 1 .. Len(list) /\ Len(list) \in Nat
      /\ \A i \in DOMAIN list : more[i] = list[i]
      /\ more[Len(list) + 1] = x
  BY <1>1
<1> HIDE DEF more
<1>3. \A i \in DOMAIN more : more[i] \in Prompts => i \in DOMAIN list
  BY <1>1, <1>2
<1>4. DOMAIN list \subseteq DOMAIN more
  BY <1>2
<1>5. OnePrompt(list) => OnePrompt(more)
  BY <1>2, <1>3, <1>4 DEF OnePrompt
<1>6. NoPrompt(list) => NoPrompt(more)
  BY <1>2, <1>3 DEF NoPrompt
<1>7. QuitIsAsked(list) => QuitIsAsked(more)
  BY <1>2, <1>4 DEF QuitIsAsked
<1> QED
  BY <1>2, <1>5, <1>6, <1>7 DEF Fits, more

LEMMA AppendPrompt ==
  ASSUME NEW list, Fits(list, FALSE), NEW x \in Prompts
  PROVE  /\ Fits(Append(list, x), TRUE)
         /\ x = "quit" => QuitIsAsked(Append(list, x))
<1> DEFINE more == Append(list, x)
<1>1. list \in Seq(Sheets) /\ x \in Sheets /\ NoPrompt(list)
  BY DEF Fits, Sheets
<1>2. /\ more \in Seq(Sheets) /\ DOMAIN more = 1 .. (Len(list) + 1)
      /\ DOMAIN list = 1 .. Len(list) /\ Len(list) \in Nat
      /\ \A i \in DOMAIN list : more[i] = list[i]
      /\ more[Len(list) + 1] = x
  BY <1>1
<1> HIDE DEF more
<1>3. PICK last : last = Len(list) + 1 /\ last \in DOMAIN more /\ more[last] = x
  BY <1>2
<1>4. \A i \in DOMAIN more : i \in DOMAIN list \/ i = last
  BY <1>2, <1>3
<1>5. \A i \in DOMAIN more : more[i] \in Prompts => i = last
  BY <1>1, <1>2, <1>4 DEF NoPrompt
<1>6. OnePrompt(more)
  BY <1>3, <1>5 DEF OnePrompt
<1>7. x = "quit" => QuitIsAsked(more)
  BY <1>3 DEF QuitIsAsked
<1> QED
  BY <1>2, <1>6, <1>7 DEF Fits, more

LEMMA TailIs ==
  ASSUME NEW list \in Seq(Sheets), list # <<>>
  PROVE  /\ Tail(list) \in Seq(Sheets)
         /\ 1 \in DOMAIN list /\ Head(list) = list[1]
         /\ \A i \in DOMAIN Tail(list) : i + 1 \in DOMAIN list /\ Tail(list)[i] = list[i + 1]
                                        /\ i \in Nat /\ i > 0
         /\ \A i \in DOMAIN list : i = 1 \/ (i - 1 \in DOMAIN Tail(list) /\ i \in Nat)
<1>1. Len(list) \in Nat /\ Len(list) > 0 /\ DOMAIN list = 1 .. Len(list)
  OBVIOUS
<1>2. Tail(list) \in Seq(Sheets) /\ Len(Tail(list)) = Len(list) - 1
  OBVIOUS
<1>3. DOMAIN Tail(list) = 1 .. (Len(list) - 1)
  BY <1>2
<1>4. \A i \in 1 .. (Len(list) - 1) : Tail(list)[i] = list[i + 1]
  OBVIOUS
<1> QED
  BY <1>1, <1>2, <1>3, <1>4

LEMMA TailAfterOther ==
  ASSUME NEW list, NEW asked, Fits(list, asked), list # <<>>, Head(list) \in Notices
  PROVE  /\ Fits(Tail(list), asked)
         /\ QuitIsAsked(list) => QuitIsAsked(Tail(list))
<1>1. PICK rest : rest = Tail(list)
  OBVIOUS
<1>2. list \in Seq(Sheets) /\ Head(list) \notin Prompts /\ Head(list) # "quit"
  BY DEF Fits, Notices, Prompts
<1>3. /\ rest \in Seq(Sheets) /\ list[1] \notin Prompts /\ list[1] # "quit"
      /\ \A i \in DOMAIN rest : i + 1 \in DOMAIN list /\ rest[i] = list[i + 1]
                               /\ i \in Nat /\ i > 0
      /\ \A i \in DOMAIN list : i = 1 \/ (i - 1 \in DOMAIN rest /\ i \in Nat)
  BY <1>1, <1>2, TailIs
<1>4. OnePrompt(list) => OnePrompt(rest)
  <2> SUFFICES ASSUME NEW k \in DOMAIN list, list[k] \in Prompts,
                      \A i \in DOMAIN list : list[i] \in Prompts => i = k
               PROVE  OnePrompt(rest)
    BY DEF OnePrompt
  <2>1. k - 1 \in DOMAIN rest /\ k \in Nat
    BY <1>3
  <2>2. rest[k - 1] = list[k]
    <3>1. (k - 1) + 1 = k
      BY <2>1
    <3> QED
      BY <1>3, <2>1, <3>1
  <2>3. \A i \in DOMAIN rest : rest[i] \in Prompts => i = k - 1
    <3> SUFFICES ASSUME NEW i \in DOMAIN rest, rest[i] \in Prompts PROVE i = k - 1
      OBVIOUS
    <3>1. i + 1 = k /\ i \in Nat
      BY <1>3
    <3> QED
      BY <3>1
  <2> QED
    BY <2>1, <2>2, <2>3 DEF OnePrompt
<1>5. NoPrompt(list) => NoPrompt(rest)
  BY <1>3 DEF NoPrompt
<1>6. QuitIsAsked(list) => QuitIsAsked(rest)
  <2> SUFFICES ASSUME NEW k \in DOMAIN list, list[k] = "quit" PROVE QuitIsAsked(rest)
    BY DEF QuitIsAsked
  <2>1. k - 1 \in DOMAIN rest /\ (k - 1) + 1 = k
    BY <1>3
  <2> QED
    BY <1>3, <2>1 DEF QuitIsAsked
<1> QED
  BY <1>1, <1>3, <1>4, <1>5, <1>6 DEF Fits

LEMMA TailAfterPrompt ==
  ASSUME NEW list, NEW asked, Fits(list, asked), list # <<>>, Head(list) \in Prompts
  PROVE  /\ Fits(Tail(list), FALSE)
         /\ Head(list) = "close" => ~QuitIsAsked(list)
<1>1. PICK rest : rest = Tail(list)
  OBVIOUS
<1>2. /\ rest \in Seq(Sheets) /\ 1 \in DOMAIN list /\ list[1] = Head(list)
      /\ \A i \in DOMAIN rest : i + 1 \in DOMAIN list /\ rest[i] = list[i + 1]
                               /\ i \in Nat /\ i > 0
  BY <1>1, TailIs DEF Fits
<1>3. \A i \in DOMAIN list : list[i] \in Prompts => i = 1
  BY <1>2 DEF Fits, NoPrompt, OnePrompt
<1>4. NoPrompt(rest)
  <2> SUFFICES ASSUME NEW i \in DOMAIN rest, rest[i] \in Prompts PROVE FALSE
    BY DEF NoPrompt
  <2>1. i + 1 = 1 /\ i \in Nat /\ i > 0
    BY <1>2, <1>3
  <2> QED
    BY <2>1
<1>5. Head(list) = "close" => ~QuitIsAsked(list)
  BY <1>2, <1>3 DEF QuitIsAsked, Prompts
<1> QED
  BY <1>1, <1>2, <1>4, <1>5 DEF Fits

LEMMA NoSheets == Fits(<<>>, FALSE) /\ \A asked : Fits(<<>>, asked) => asked = FALSE
<1>1. <<>> \in Seq(Sheets) /\ DOMAIN <<>> = {}
  OBVIOUS
<1> QED
  BY <1>1 DEF Fits, NoPrompt, OnePrompt

LEMMA ErrorsFit ==
  ASSUME NEW list, NEW asked, Fits(list, asked), NEW errors \in {<<>>, <<"alert">>}
  PROVE  Fits(list \o errors, asked)
<1>1. list \in Seq(Sheets) /\ "alert" \in Notices
  BY DEF Fits, Notices
<1>2. list \o <<>> = list /\ list \o <<"alert">> = Append(list, "alert")
  BY <1>1
<1> QED
  BY <1>1, <1>2, AppendOther

LEMMA OnlyErrors ==
  ASSUME NEW errors \in {<<>>, <<"alert">>}
  PROVE  Fits(errors, FALSE)
<1>1. Append(<<>>, "alert") = <<"alert">>
  OBVIOUS
<1>2. Fits(<<>>, FALSE) /\ Fits(Append(<<>>, "alert"), FALSE)
  BY NoSheets, AppendOther DEF Notices
<1> QED
  BY <1>1, <1>2

-----------------------------------------------------------------------------
(***************************************************************************)
(* The invariant.  A runtime that was told last that a recorder listens in *)
(* the key window leaves the keys alone, and the key window is visible;    *)
(* before the launch no sheet is up.                                       *)
(***************************************************************************)
KeyIsVisible == key => visible

Settled ==
  /\ Fits(sheets, pending)
  /\ app = "quitting" => QuitIsAsked(sheets)
  /\ app = "gone" => sheets = <<>>

(* The runtime is told what the window takes a recorder for.               *)
SuspendedWhileListening ==
  /\ suspended => visible /\ key /\ listening
  /\ loaded # None /\ visible /\ key /\ listening => suspended \/ restarted

Inner == TypeInv /\ KeyIsVisible /\ SuspendedWhileListening /\ ReportingFollowsChoice

Inv == Inner /\ Settled

LEMMA RunningChoice ==
  ASSUME Inner, app # "gone"
  PROVE  Choice(reporting, crash)
BY DEF Inner, ReportingFollowsChoice, Choice

(* What a handler leaves alone that changes no more than what is shown.    *)
LEMMA SameInner ==
  ASSUME Inner, CrashShown(shown)', app' = "gone" \/ app # "gone",
         UNCHANGED <<runtime, crash, visible, key, listening>>
  PROVE  Inner'
<1>1. TypeInv'
  BY DEF Inner, TypeInv, runtime, CrashShown
<1>2. KeyIsVisible'
  BY DEF Inner, KeyIsVisible
<1>3. SuspendedWhileListening'
  BY DEF Inner, SuspendedWhileListening, runtime
<1>4. ReportingFollowsChoice'
  BY DEF Inner, ReportingFollowsChoice, runtime
<1> QED
  BY <1>1, <1>2, <1>3, <1>4 DEF Inner

LEMMA SameShown ==
  ASSUME Inner, UNCHANGED shown
  PROVE  CrashShown(shown)'
BY DEF Inner, TypeInv, CrashShown

(* A save, with the window that stays or closes.                           *)
LEMMA SaveInner ==
  ASSUME Inner, app # "gone", NEW save, Saving(save), Saves(save),
         Stays(save) \/ Closes(save)
  PROVE  Inner'
<1>1. CrashShown(shown)' /\ reporting' \in BOOLEAN
  BY DEF Saving, Saves, CrashShown
<1>2. ReportingFollowsChoice'
  BY RunningChoice DEF Saving, Saves, Choice, ReportingFollowsChoice
<1>3. CASE Closes(save)
  <2>1. TypeInv'
    BY <1>1, <1>3 DEF Closes, TypeInv, CrashShown
  <2>2. KeyIsVisible' /\ SuspendedWhileListening'
    BY <1>3 DEF Closes, KeyIsVisible, SuspendedWhileListening
  <2> QED
    BY <1>2, <2>1, <2>2 DEF Inner
<1>4. CASE Stays(save)
  <2>1. /\ suspended' = save.suspended /\ restarted' = save.restarted
        /\ loaded' = save.loaded /\ UNCHANGED <<visible, key, listening>>
    BY <1>4 DEF Stays, Saves, recorder
  <2>2. save.suspended \in BOOLEAN /\ save.restarted \in BOOLEAN
    BY DEF Saving
  <2>3. TypeInv'
    BY <1>1, <2>1, <2>2 DEF Inner, TypeInv, CrashShown
  <2>4. KeyIsVisible'
    BY <2>1 DEF Inner, KeyIsVisible
  <2>5. SuspendedWhileListening'
    BY <2>1, <2>2 DEF Inner, SuspendedWhileListening, Saving
  <2> QED
    BY <1>2, <2>3, <2>4, <2>5 DEF Inner
<1> QED
  BY <1>3, <1>4

LEMMA ExitsInner ==
  ASSUME Exits
  PROVE  Inner'
<1>1. CrashShown(shown)'
  BY DEF Exits, Blank, CrashShown
<1> QED
  BY <1>1 DEF Exits, Inner, TypeInv, KeyIsVisible, SuspendedWhileListening,
     ReportingFollowsChoice, CrashShown

(* The window is told, or was told before, that no recorder listens.       *)
LEMMA LoadInner ==
  ASSUME Inner, LoadFails \/ LoadSucceeds, UNCHANGED <<app, key>>,
         visible' \in {visible, TRUE}
  PROVE  Inner'
<1>1. KeyIsVisible' /\ visible' \in BOOLEAN
  BY DEF Inner, KeyIsVisible, TypeInv
<1>2. UNCHANGED <<crash, reporting, loaded>>
  BY DEF LoadFails, LoadSucceeds, runtime
<1>3. ReportingFollowsChoice'
  BY <1>2 DEF Inner, ReportingFollowsChoice
<1>4. CrashShown(shown)'
  <2>1. CASE LoadFails
    BY <2>1, SameShown DEF LoadFails, controls
  <2>2. CASE LoadSucceeds
    <3>1. shown' = Stored'
      BY <2>2 DEF LoadSucceeds
    <3>2. "crash" \in DOMAIN Stored' /\ Stored'["crash"] \in BOOLEAN
      BY DEF Stored
    <3> QED
      BY <3>1, <3>2 DEF CrashShown
  <2> QED
    BY <2>1, <2>2
<1>5. CASE UNCHANGED <<listening, suspended, restarted>>
  <2>1. TypeInv'
    BY <1>1, <1>2, <1>4, <1>5 DEF Inner, TypeInv, CrashShown
  <2>2. SuspendedWhileListening'
    BY <1>1, <1>2, <1>5 DEF Inner, SuspendedWhileListening, KeyIsVisible, TypeInv
  <2> QED
    BY <1>1, <1>3, <2>1, <2>2 DEF Inner
<1>6. CASE listening' = FALSE /\ UpdateInputSuspension(FALSE, key)
  <2>1. suspended' = FALSE /\ restarted' = FALSE
    BY <1>6 DEF UpdateInputSuspension
  <2>2. TypeInv'
    BY <1>1, <1>2, <1>4, <1>6, <2>1 DEF Inner, TypeInv, CrashShown
  <2>3. SuspendedWhileListening'
    BY <1>6, <2>1 DEF SuspendedWhileListening
  <2> QED
    BY <1>1, <1>3, <2>2, <2>3 DEF Inner
<1> QED
  BY <1>5, <1>6 DEF LoadFails, LoadSucceeds, runtime, recorder

(* The runtime is told of the recorder and of the key window.              *)
LEMMA ToldInner ==
  ASSUME Inner, UNCHANGED <<crash, reporting, loaded, app, visible>>, CrashShown(shown)',
         NEW listens \in BOOLEAN, NEW isKey \in BOOLEAN,
         listening' = listens, key' = isKey, isKey => visible,
         UpdateInputSuspension(listens, isKey)
  PROVE  Inner'
<1>1. suspended' = (loaded # None /\ listens /\ isKey) /\ restarted' = FALSE
  BY DEF UpdateInputSuspension
<1>2. TypeInv'
  BY <1>1 DEF Inner, TypeInv, CrashShown
<1>3. KeyIsVisible'
  BY DEF KeyIsVisible
<1>4. SuspendedWhileListening'
  BY <1>1 DEF SuspendedWhileListening
<1>5. ReportingFollowsChoice'
  BY DEF Inner, ReportingFollowsChoice
<1> QED
  BY <1>2, <1>3, <1>4, <1>5 DEF Inner

LEMMA EditsShown ==
  ASSUME Inner, NEW part, NEW now, Edits(part, now), part = "crash" => now \in BOOLEAN
  PROVE  CrashShown(shown)'
BY DEF Edits, CrashShown, Inner, TypeInv

LEMMA SettledFrom ==
  ASSUME NEW list, NEW asked, Fits(list, asked), sheets' = list, pending' = asked,
         app' = "quitting" => QuitIsAsked(list), app' = "gone" => list = <<>>
  PROVE  Settled'
BY DEF Settled

LEMMA SameSettled ==
  ASSUME Settled, UNCHANGED <<sheets, pending, app>>
  PROVE  Settled'
BY DEF Settled

LEMMA ConfirmSettled ==
  ASSUME NEW kind \in Prompts, NEW before, NEW asked, asked = pending, Fits(before, asked),
         Confirm(kind, before), app' \in {"up", "quitting"},
         app' = "quitting" => kind = "quit" /\ ~asked
  PROVE  Settled'
<1>1. asked \in BOOLEAN
  BY DEF Fits
<1>2. CASE asked
  <2>1. pending' = asked /\ sheets' = before
    BY <1>2 DEF Confirm, Present
  <2> QED
    BY <1>2, <2>1, SettledFrom
<1>3. CASE ~asked
  <2>1. PICK list : list = Append(before, kind)
    OBVIOUS
  <2>2. pending' = TRUE /\ sheets' = list
    BY <1>3, <2>1 DEF Confirm, Present
  <2>3. Fits(list, TRUE) /\ (kind = "quit" => QuitIsAsked(list))
    BY <1>1, <1>3, <2>1, AppendPrompt
  <2> QED
    BY <2>2, <2>3, SettledFrom
<1> QED
  BY <1>1, <1>2, <1>3

LEMMA PerformCloseSettled ==
  ASSUME NEW save, NEW before, NEW asked, asked = pending, Fits(before, asked),
         PerformClose(save, before), app' = "up"
  PROVE  Settled'
<1>1. CASE Confirm("close", before)
  BY <1>1, ConfirmSettled DEF Prompts
<1>2. CASE Present(before) /\ UNCHANGED pending
  BY <1>2, SettledFrom DEF Present
<1> QED
  BY <1>1, <1>2 DEF PerformClose

LEMMA InteractiveIs ==
  ASSUME Settled, Interactive
  PROVE  app = "up" /\ sheets = <<>> /\ pending = FALSE
<1>1. PICK asked : asked = pending
  OBVIOUS
<1>2. Fits(<<>>, asked)
  BY <1>1 DEF Interactive, Settled
<1> QED
  BY <1>1, <1>2, NoSheets DEF Interactive

(* A prompt in front is the one that was pending.                          *)
LEMMA AnsweredIs ==
  ASSUME Settled, NEW kind \in Prompts, Answered(kind)
  PROVE  /\ Fits(Tail(sheets), FALSE)
         /\ pending' = FALSE /\ app # "gone"
         /\ app = "quitting" => kind = "quit"
<1>1. PICK list, asked : list = sheets /\ asked = pending
  OBVIOUS
<1>2. list # <<>> /\ Head(list) = kind /\ Fits(list, asked)
  BY <1>1 DEF Answered, Settled
<1>3. Fits(Tail(list), FALSE) /\ (kind = "close" => ~QuitIsAsked(list))
  BY <1>2, TailAfterPrompt
<1> QED
  BY <1>1, <1>2, <1>3 DEF Answered, Settled, Prompts

LEMMA NoticeSettled ==
  ASSUME Settled, sheets # <<>>, Head(sheets) \in Notices, UNCHANGED <<pending, app>>,
         \/ sheets' = Tail(sheets)
         \/ sheets' = Append(Tail(sheets), "alert")
  PROVE  Settled'
<1>1. PICK list, asked, rest :
        list = sheets /\ asked = pending /\ rest = Tail(list)
  OBVIOUS
<1>2. Fits(rest, asked) /\ (QuitIsAsked(list) => QuitIsAsked(rest))
  BY <1>1, TailAfterOther DEF Settled
<1>3. PICK more : more = Append(rest, "alert")
  OBVIOUS
<1>4. Fits(more, asked) /\ (QuitIsAsked(rest) => QuitIsAsked(more))
  BY <1>2, <1>3, AppendOther DEF Notices
<1>5. app' # "gone" /\ (app' = "quitting" => QuitIsAsked(list))
  BY <1>1 DEF Settled
<1> QED
  BY <1>1, <1>2, <1>3, <1>4, <1>5, SettledFrom

-----------------------------------------------------------------------------
(* The steps: saving, closing and quitting.                                *)
LEMMA CancelStep ==
  ASSUME Inv, Cancel
  PROVE  Inv'
<1>1. app = "up" /\ UNCHANGED app /\ Saves(Now) /\ PerformClose(Now, sheets)
  BY DEF Cancel, Interactive
<1>2. Saving(Now) /\ (Stays(Now) \/ Closes(Now))
  BY <1>1, NowIsSaving DEF Inv, Inner, PerformClose
<1>3. PICK save : save = Now
  OBVIOUS
<1>4. Inner'
  BY <1>1, <1>2, <1>3, SaveInner DEF Inv
<1>5. PICK list, asked : list = sheets /\ asked = pending
  OBVIOUS
<1>6. Settled'
  BY <1>1, <1>3, <1>5, PerformCloseSettled DEF Inv, Settled
<1> QED
  BY <1>4, <1>6 DEF Inv

LEMMA ApplyStep ==
  ASSUME Inv, Apply
  PROVE  Inv'
<1>1. PICK save \in PerformSave : Saves(save) /\ Stays(save) /\ Present(save.errors)
  BY DEF Apply
<1>2. Saving(save)
  BY PerformSaveIsSaving DEF Inv, Inner
<1>3. app = "up" /\ sheets = <<>> /\ pending = FALSE /\ UNCHANGED <<app, pending>>
  BY InteractiveIs DEF Apply, Inv
<1>4. Inner'
  BY <1>1, <1>2, <1>3, SaveInner DEF Inv
<1>5. Fits(save.errors, FALSE)
  <2>1. PICK errors \in {<<>>, <<"alert">>} : errors = save.errors
    BY <1>2 DEF Saving
  <2> QED
    BY <2>1, OnlyErrors
<1>6. Settled'
  BY <1>1, <1>3, <1>5, SettledFrom DEF Present
<1> QED
  BY <1>4, <1>6 DEF Inv

LEMMA OkStep ==
  ASSUME Inv, Ok
  PROVE  Inv'
<1>1. PICK save \in PerformSave :
        /\ Saves(save)
        /\ IF save.result THEN PerformClose(save, save.errors)
           ELSE Stays(save) /\ Present(save.errors) /\ UNCHANGED pending
  BY DEF Ok
<1>2. Saving(save)
  BY PerformSaveIsSaving DEF Inv, Inner
<1>3. app = "up" /\ sheets = <<>> /\ pending = FALSE /\ UNCHANGED app
  BY InteractiveIs DEF Ok, Inv
<1>4. Stays(save) \/ Closes(save)
  BY <1>1 DEF PerformClose
<1>5. Inner'
  BY <1>1, <1>2, <1>3, <1>4, SaveInner DEF Inv
<1>6. PICK errors \in {<<>>, <<"alert">>} : errors = save.errors
  BY <1>2 DEF Saving
<1>7. Fits(errors, FALSE)
  BY OnlyErrors
<1>8. ASSUME save.result PROVE Settled'
  BY <1>1, <1>3, <1>6, <1>7, <1>8, PerformCloseSettled
<1>9. ASSUME ~save.result PROVE Settled'
  BY <1>1, <1>3, <1>6, <1>7, <1>9, SettledFrom DEF Present
<1> QED
  BY <1>5, <1>8, <1>9 DEF Inv

LEMMA SavePromptedStep ==
  ASSUME Inv, SavePrompted
  PROVE  Inv'
<1>1. PICK save \in PerformSave, kind \in Prompts :
        /\ Answered(kind)
        /\ Saves(save)
        /\ Stays(save) \/ Closes(save)
        /\ Present(Tail(sheets) \o save.errors)
        /\ app' = CASE kind = "close" -> app
                    [] kind = "quit" -> IF save.result THEN "leaving" ELSE "up"
  BY DEF SavePrompted
<1>2. Saving(save)
  BY PerformSaveIsSaving DEF Inv, Inner
<1>3. /\ Fits(Tail(sheets), FALSE) /\ pending' = FALSE /\ app # "gone"
      /\ app = "quitting" => kind = "quit"
  BY <1>1, AnsweredIs DEF Inv
<1>4. Inner'
  BY <1>1, <1>2, <1>3, SaveInner DEF Inv
<1>5. PICK rest, list : rest = Tail(sheets) /\ list = rest \o save.errors
  OBVIOUS
<1>6. Fits(list, FALSE)
  BY <1>2, <1>3, <1>5, ErrorsFit DEF Saving
<1>7. app' # "quitting" /\ app' # "gone"
  BY <1>1, <1>3 DEF Prompts
<1>8. Settled'
  BY <1>1, <1>3, <1>5, <1>6, <1>7, SettledFrom DEF Present
<1> QED
  BY <1>4, <1>8 DEF Inv

LEMMA DontSaveStep ==
  ASSUME Inv, DontSave
  PROVE  Inv'
<1>1. PICK kind \in Prompts :
        /\ Answered(kind)
        /\ Present(Tail(sheets))
        /\ Saves(Now)
        /\ Stays(Now) \/ Closes(Now)
        /\ IF kind = "close" THEN UNCHANGED app ELSE app' = "leaving"
  BY DEF DontSave
<1>2. Saving(Now)
  BY NowIsSaving DEF Inv, Inner
<1>3. /\ Fits(Tail(sheets), FALSE) /\ pending' = FALSE /\ app # "gone"
      /\ app = "quitting" => kind = "quit"
  BY <1>1, AnsweredIs DEF Inv
<1>4. PICK save : save = Now
  OBVIOUS
<1>5. Inner'
  BY <1>1, <1>2, <1>3, <1>4, SaveInner DEF Inv
<1>6. PICK list : list = Tail(sheets)
  OBVIOUS
<1>7. Settled'
  BY <1>1, <1>3, <1>6, SettledFrom DEF Present
<1> QED
  BY <1>5, <1>7 DEF Inv

LEMMA CancelPromptStep ==
  ASSUME Inv, CancelPrompt
  PROVE  Inv'
<1>1. PICK kind \in Prompts :
        /\ Answered(kind)
        /\ Present(Tail(sheets))
        /\ app' = IF kind = "quit" THEN "up" ELSE app
  BY DEF CancelPrompt
<1>2. /\ Fits(Tail(sheets), FALSE) /\ pending' = FALSE /\ app # "gone"
      /\ app = "quitting" => kind = "quit"
  BY <1>1, AnsweredIs DEF Inv
<1>3. UNCHANGED <<runtime, crash, shown, visible, key, listening>>
  BY DEF CancelPrompt, stores, controls, recorder
<1>4. Inner'
  BY <1>2, <1>3, SameInner, SameShown DEF Inv
<1>5. PICK list : list = Tail(sheets)
  OBVIOUS
<1>6. Settled'
  BY <1>1, <1>2, <1>5, SettledFrom DEF Present
<1> QED
  BY <1>4, <1>6 DEF Inv

LEMMA QuitAsksStep ==
  ASSUME Inv, QuitAsks
  PROVE  Inv'
<1>1. app = "up" /\ app' = (IF pending THEN "up" ELSE "quitting") /\ Confirm("quit", sheets)
  BY DEF QuitAsks
<1>2. UNCHANGED <<runtime, crash, shown, visible, key, listening>>
  BY DEF QuitAsks, stores, controls, recorder
<1>3. Inner'
  BY <1>1, <1>2, SameInner, SameShown DEF Inv
<1>4. PICK list, asked : list = sheets /\ asked = pending
  OBVIOUS
<1>5. Settled'
  BY <1>1, <1>4, ConfirmSettled DEF Inv, Settled, Prompts
<1> QED
  BY <1>3, <1>5 DEF Inv

LEMMA ExitsStep ==
  ASSUME Exits
  PROVE  Inv'
<1>1. Settled'
  BY NoSheets, SettledFrom DEF Exits
<1> QED
  BY <1>1, ExitsInner DEF Inv

-----------------------------------------------------------------------------
(* The steps: the window and its controls.                                 *)
LEMMA LoadSettled ==
  ASSUME Settled, app # "gone", UNCHANGED <<app, pending>>, LoadFromDisk(sheets)
  PROVE  Settled'
<1>1. PICK list, asked, more :
        list = sheets /\ asked = pending /\ more = Append(list, "alert")
  OBVIOUS
<1>2. Fits(list, asked) /\ Fits(more, asked) /\ (QuitIsAsked(list) => QuitIsAsked(more))
  BY <1>1, AppendOther DEF Settled, Notices
<1>3. app' = "quitting" => QuitIsAsked(list)
  BY <1>1 DEF Settled
<1>4. sheets' = list \/ sheets' = more
  BY <1>1 DEF LoadFromDisk, Present
<1> QED
  BY <1>1, <1>2, <1>3, <1>4, SettledFrom

LEMMA OpenSettingsStep ==
  ASSUME Inv, OpenSettings
  PROVE  Inv'
<1>1. /\ app = "up" /\ LoadFromDisk(sheets) /\ visible' = TRUE
      /\ UNCHANGED <<key, pending, app>>
  BY DEF OpenSettings
<1>2. Inner'
  BY <1>1, LoadInner DEF Inv, LoadFromDisk
<1>3. Settled'
  BY <1>1, LoadSettled DEF Inv
<1> QED
  BY <1>2, <1>3 DEF Inv

LEMMA ReloadStep ==
  ASSUME Inv, Reload
  PROVE  Inv'
<1>1. /\ app = "up" /\ sheets = <<>> /\ pending = FALSE
      /\ UNCHANGED <<visible, key, pending, app>>
  BY InteractiveIs DEF Inv, Reload
<1>2. CASE LoadFromDisk(sheets)
  BY <1>1, <1>2, LoadInner, LoadSettled DEF Inv, LoadFromDisk
<1>3. CASE Present(<<"reload">>) /\ UNCHANGED <<stores, runtime, controls, recorder>>
  <2>1. Inner'
    BY <1>1, <1>3, SameInner, SameShown DEF Inv, stores, controls, recorder
  <2>2. Append(<<>>, "reload") = <<"reload">>
    OBVIOUS
  <2>3. Fits(<<"reload">>, FALSE)
    BY <2>2, NoSheets, AppendOther DEF Notices
  <2>4. Settled'
    BY <1>1, <1>3, <2>3, SettledFrom DEF Present
  <2> QED
    BY <2>1, <2>4 DEF Inv
<1> QED
  BY <1>2, <1>3 DEF Reload

LEMMA DiscardForReloadStep ==
  ASSUME Inv, DiscardForReload
  PROVE  Inv'
<1>1. /\ sheets # <<>> /\ Head(sheets) \in Notices
      /\ LoadFromDisk(Tail(sheets)) /\ UNCHANGED <<visible, key, pending, app>>
  BY DEF DiscardForReload, Notices
<1>2. Inner'
  BY <1>1, LoadInner DEF Inv, LoadFromDisk
<1>3. sheets' = Tail(sheets) \/ sheets' = Append(Tail(sheets), "alert")
  BY <1>1 DEF LoadFromDisk, Present
<1>4. Settled'
  BY <1>1, <1>3, NoticeSettled DEF Inv
<1> QED
  BY <1>2, <1>4 DEF Inv

LEMMA NoticeStep ==
  ASSUME Inv, Dismiss \/ DeclineBeta
  PROVE  Inv'
<1>1. /\ sheets # <<>> /\ Head(sheets) \in Notices /\ sheets' = Tail(sheets)
      /\ UNCHANGED <<pending, app>>
  BY DEF Dismiss, DeclineBeta, Notices, Present
<1>2. UNCHANGED <<runtime, crash, visible, key, listening>>
  BY DEF Dismiss, DeclineBeta, stores, recorder
<1>3. CrashShown(shown)'
  <2>1. CASE Dismiss
    BY <2>1, SameShown DEF Dismiss, controls, Inv
  <2>2. CASE DeclineBeta
    BY <2>2 DEF DeclineBeta, CrashShown, Inv, Inner, TypeInv
  <2> QED
    BY <2>1, <2>2
<1>4. app # "gone"
  BY <1>1 DEF Inv, Settled
<1>5. Inner'
  BY <1>2, <1>3, <1>4, SameInner DEF Inv
<1>6. Settled'
  BY <1>1, NoticeSettled DEF Inv
<1> QED
  BY <1>5, <1>6 DEF Inv

LEMMA KeyStep ==
  ASSUME Inv, BecomeKey \/ ResignKey
  PROVE  Inv'
<1>1. UNCHANGED <<crash, reporting, loaded, app, visible, shown, listening>>
  BY DEF BecomeKey, ResignKey, stores, controls, recorder
<1>2. PICK listens \in BOOLEAN : listens = listening
  BY DEF Inv, Inner, TypeInv
<1>3. CrashShown(shown)'
  BY <1>1, SameShown DEF Inv
<1>4. Inner'
  <2>1. CASE BecomeKey
    BY <1>1, <1>2, <1>3, <2>1, ToldInner DEF BecomeKey, Inv
  <2>2. CASE ResignKey
    BY <1>1, <1>2, <1>3, <2>2, ToldInner DEF ResignKey, Inv
  <2> QED
    BY <2>1, <2>2
<1>5. Settled'
  BY SameSettled DEF BecomeKey, ResignKey, Inv
<1> QED
  BY <1>4, <1>5 DEF Inv

(* A click on a recorder, the end of a recording and the shortcut itself.  *)
LEMMA RecordingStep ==
  ASSUME Inv, NEW listens \in BOOLEAN, listening' = listens,
         Interactive, key, UpdateInputSuspension(listens, key), CrashShown(shown)',
         UNCHANGED <<crash, reporting, loaded, app, visible, key, sheets, pending>>
  PROVE  Inv'
<1>1. PICK isKey \in BOOLEAN : isKey = key
  BY DEF Inv, Inner, TypeInv
<1>2. Inner'
  BY <1>1, ToldInner DEF Interactive, Inv
<1>3. Settled'
  BY SameSettled DEF Inv
<1> QED
  BY <1>2, <1>3 DEF Inv

LEMMA RecorderStep ==
  ASSUME Inv,
         \/ \E id \in KnownActions : BeginRecording(id)
         \/ EndRecording
         \/ \E name \in Keys, flags \in Flags : CaptureEvent(name, flags)
  PROVE  Inv'
<1>1. ASSUME NEW id \in KnownActions, BeginRecording(id) PROVE Inv'
  <2>1. UNCHANGED <<crash, reporting, loaded, app, visible, key, sheets, pending, shown>>
    BY <1>1 DEF BeginRecording, stores, controls, window
  <2>2. CrashShown(shown)'
    BY <2>1, SameShown DEF Inv
  <2> QED
    BY <1>1, <2>1, <2>2, RecordingStep DEF BeginRecording
<1>2. ASSUME EndRecording PROVE Inv'
  <2>1. UNCHANGED <<crash, reporting, loaded, app, visible, key, sheets, pending, shown>>
    BY <1>2 DEF EndRecording, stores, controls, window
  <2>2. CrashShown(shown)'
    BY <2>1, SameShown DEF Inv
  <2> QED
    BY <1>2, <2>1, <2>2, RecordingStep DEF EndRecording
<1>3. ASSUME NEW name \in Keys, NEW flags \in Flags, CaptureEvent(name, flags) PROVE Inv'
  <2>1. PICK now : Edits("document", now)
    BY <1>3 DEF CaptureEvent
  <2>2. UNCHANGED <<crash, reporting, loaded, app, visible, key, sheets, pending>>
    BY <1>3, <2>1 DEF CaptureEvent, Edits, stores
  <2>3. CrashShown(shown)' /\ Interactive /\ key
    BY <2>1, EditsShown DEF Inv, Edits
  <2> QED
    BY <1>3, <2>2, <2>3, RecordingStep DEF CaptureEvent
<1> QED
  BY <1>1, <1>2, <1>3

LEMMA EditStep ==
  ASSUME Inv, NEW part, NEW now, Edits(part, now), part = "crash" => now \in BOOLEAN,
         UNCHANGED <<suspended, restarted, recorder>>,
         sheets' \in {sheets, <<"beta">>, <<>>}
  PROVE  Inv'
<1>1. UNCHANGED <<runtime, crash, visible, key, listening>>
  BY DEF Edits, stores, runtime, recorder
<1>2. app = "up" /\ sheets = <<>> /\ pending = FALSE /\ UNCHANGED <<app, pending>>
  BY InteractiveIs DEF Edits, Inv
<1>3. Inner'
  BY <1>1, <1>2, EditsShown, SameInner DEF Inv
<1>4. Append(<<>>, "beta") = <<"beta">>
  OBVIOUS
<1>5. Fits(<<"beta">>, FALSE) /\ Fits(<<>>, FALSE)
  BY <1>4, NoSheets, AppendOther DEF Notices
<1>6. Settled'
  BY <1>2, <1>5, SettledFrom
<1> QED
  BY <1>3, <1>6 DEF Inv

LEMMA ControlStep ==
  ASSUME Inv,
         \/ \E field \in Switches : FlipSwitch(field)
         \/ \E id \in KnownActions : FlipHotkey(id) \/ ClearShortcut(id)
         \/ FlipBeta
         \/ \E part \in {"crash", "login"} : FlipPreference(part)
  PROVE  Inv'
<1>1. ASSUME NEW member, NEW now, EditsDocument(member, now) PROVE Inv'
  BY <1>1, EditStep DEF EditsDocument
<1>2. CASE FlipBeta
  <2>1. PICK now : Edits("beta", now)
    BY <1>2 DEF FlipBeta
  <2>2. sheets' \in {<<"beta">>, <<>>} /\ UNCHANGED <<suspended, restarted, recorder>>
    BY <1>2 DEF FlipBeta, Present
  <2> QED
    BY <2>1, <2>2, EditStep
<1>3. ASSUME NEW part \in {"crash", "login"}, FlipPreference(part) PROVE Inv'
  <2>1. PICK now : now = ~shown[part]
    OBVIOUS
  <2>2. part = "crash" => now \in BOOLEAN
    BY <2>1 DEF Inv, Inner, TypeInv, CrashShown
  <2>3. Edits(part, now) /\ UNCHANGED <<suspended, restarted, recorder, sheets>>
    BY <1>3, <2>1 DEF FlipPreference
  <2> QED
    BY <2>2, <2>3, EditStep
<1>4. CASE \E field \in Switches : FlipSwitch(field)
  BY <1>1, <1>4 DEF FlipSwitch
<1>5. CASE \E id \in KnownActions : FlipHotkey(id) \/ ClearShortcut(id)
  BY <1>1, <1>5 DEF FlipHotkey, ClearShortcut
<1> QED
  BY <1>2, <1>3, <1>4, <1>5

-----------------------------------------------------------------------------
(* The steps: the app and the world.                                       *)
LEMMA LaunchStep ==
  ASSUME Inv, Launch
  PROVE  Inv'
<1>1. /\ app = "gone" /\ app' = "up" /\ UNCHANGED <<sheets, pending, shown>>
      /\ UNCHANGED <<loaded, suspended, restarted, visible, key, listening>>
      /\ reporting' = (crash' = "on")
  BY DEF Launch, controls, window, recorder
<1>2. TypeInv'
  BY <1>1 DEF Inv, Inner, TypeInv, CrashShown
<1>3. KeyIsVisible' /\ SuspendedWhileListening' /\ ReportingFollowsChoice'
  BY <1>1 DEF Inv, Inner, KeyIsVisible, SuspendedWhileListening, ReportingFollowsChoice
<1>4. PICK list, asked : list = sheets /\ asked = pending
  OBVIOUS
<1>5. Settled'
  BY <1>1, <1>4, SettledFrom DEF Inv, Settled
<1> QED
  BY <1>2, <1>3, <1>5 DEF Inv, Inner

LEMMA RuntimeStartsStep ==
  ASSUME Inv, RuntimeStarts
  PROVE  Inv'
<1>1. /\ suspended' = FALSE /\ restarted' = TRUE
      /\ UNCHANGED <<app, reporting, crash, visible, key, listening, shown, sheets, pending>>
  BY DEF RuntimeStarts, controls, window, recorder
<1>2. TypeInv'
  BY <1>1 DEF Inv, Inner, TypeInv, CrashShown
<1>3. KeyIsVisible' /\ SuspendedWhileListening' /\ ReportingFollowsChoice'
  BY <1>1 DEF Inv, Inner, KeyIsVisible, SuspendedWhileListening, ReportingFollowsChoice
<1>4. Settled'
  BY <1>1, SameSettled DEF Inv
<1> QED
  BY <1>2, <1>3, <1>4 DEF Inv, Inner

(* Others edit a store, or nothing happens.                                *)
LEMMA OutsideStep ==
  ASSUME Inv, EditFile \/ EditLoginItem \/ UNCHANGED vars
  PROVE  Inv'
<1>1. UNCHANGED <<app, runtime, crash, shown, visible, key, listening, sheets, pending>>
  BY DEF EditFile, EditLoginItem, vars, stores, controls, window, recorder
<1>2. TypeInv' /\ KeyIsVisible'
  BY <1>1 DEF Inv, Inner, TypeInv, CrashShown, KeyIsVisible, runtime
<1>3. SuspendedWhileListening' /\ ReportingFollowsChoice'
  BY <1>1 DEF Inv, Inner, SuspendedWhileListening, ReportingFollowsChoice, runtime
<1>4. Settled'
  BY <1>1, SameSettled DEF Inv
<1> QED
  BY <1>2, <1>3, <1>4 DEF Inv, Inner

-----------------------------------------------------------------------------
(***************************************************************************)
(* The theorems.                                                           *)
(***************************************************************************)
LEMMA Invariance == Spec => []Inv
<1>1. ASSUME Init PROVE Inv
  <2>1. TypeInv /\ KeyIsVisible
    BY <1>1 DEF Init, TypeInv, CrashShown, Blank, KeyIsVisible
  <2>2. SuspendedWhileListening /\ ReportingFollowsChoice
    BY <1>1 DEF Init, SuspendedWhileListening, ReportingFollowsChoice
  <2>3. Settled
    BY <1>1, NoSheets DEF Init, Settled
  <2> QED
    BY <2>1, <2>2, <2>3 DEF Inv, Inner
<1>2. ASSUME Inv, [Next]_vars PROVE Inv'
  <2>1. CASE Cancel \/ Apply \/ Ok \/ QuitAsks \/ SavePrompted \/ DontSave \/ CancelPrompt
    BY <1>2, <2>1, CancelStep, ApplyStep, OkStep, QuitAsksStep, SavePromptedStep,
       DontSaveStep, CancelPromptStep
  <2>2. CASE Quit \/ SuddenTermination \/ Exit
    BY <2>2, ExitsStep DEF Quit, SuddenTermination, Exit
  <2>3. CASE OpenSettings \/ Reload \/ DiscardForReload \/ DeclineBeta \/ Dismiss
    BY <1>2, <2>3, OpenSettingsStep, ReloadStep, DiscardForReloadStep, NoticeStep
  <2>4. CASE BecomeKey \/ ResignKey
    BY <1>2, <2>4, KeyStep
  <2>5. CASE \/ \E id \in KnownActions : BeginRecording(id)
             \/ EndRecording
             \/ \E name \in Keys, flags \in Flags : CaptureEvent(name, flags)
    BY <1>2, <2>5, RecorderStep
  <2>6. CASE \/ \E field \in Switches : FlipSwitch(field)
             \/ \E id \in KnownActions : FlipHotkey(id) \/ ClearShortcut(id)
             \/ FlipBeta
             \/ \E part \in {"crash", "login"} : FlipPreference(part)
    BY <1>2, <2>6, ControlStep
  <2>7. CASE Launch \/ RuntimeStarts
    BY <1>2, <2>7, LaunchStep, RuntimeStartsStep
  <2>8. CASE EditFile \/ EditLoginItem \/ UNCHANGED vars
    BY <1>2, <2>8, OutsideStep
  <2> QED
    BY <1>2, <2>1, <2>2, <2>3, <2>4, <2>5, <2>6, <2>7, <2>8 DEF Next
<1> QED
  BY <1>1, <1>2, PTL DEF Spec

(***************************************************************************)
(* The reporter runs exactly while the recorded choice is to send reports, *)
(* for any files, edits and outcomes of a save (AppDelegate.m:164-176,     *)
(* 303-327, SHSentryMonitoring.m:67-141).                                  *)
(***************************************************************************)
THEOREM ReportingFollowsChoiceAlways == Spec => []ReportingFollowsChoice
<1>1. Inv => ReportingFollowsChoice
  BY DEF Inv, Inner
<1> QED
  BY <1>1, Invariance, PTL

(***************************************************************************)
(* The window takes a recorder to be listening just while one records,     *)
(* unless one has gone, or was closed upon, without being told.            *)
(***************************************************************************)
Recorders ==
  /\ untold \in {"no", "gone", "closed"}
  /\ listening => recording # None \/ untold = "gone"
  /\ recording # None => listening \/ untold = "closed"
  /\ untold = "closed" => recording # None /\ ~listening

LEMMA SameRecorders ==
  ASSUME Recorders, UNCHANGED recorder
  PROVE  Recorders'
BY DEF Recorders, recorder

LEMMA ClosesRecorders ==
  ASSUME NEW save, Closes(save)
  PROVE  Recorders'
BY DEF Closes, Recorders

LEMMA LoadRecorders ==
  ASSUME Recorders, LoadFails \/ LoadSucceeds
  PROVE  Recorders'
<1>1. CASE LoadFails
  BY <1>1, SameRecorders DEF LoadFails
<1>2. CASE LoadSucceeds
  <2>1. recording' = None
    BY <1>2 DEF LoadSucceeds
  <2>2. \/ /\ UNCHANGED listening
           /\ untold' = IF recording = None THEN untold
                        ELSE IF untold = "closed" THEN "no" ELSE "gone"
        \/ listening' = FALSE /\ untold' = "no"
    BY <1>2 DEF LoadSucceeds
  <2> QED
    BY <2>1, <2>2 DEF Recorders
<1> QED
  BY <1>1, <1>2

LEMMA RecordersAlways == Spec => []Recorders
<1>1. Init => Recorders
  BY DEF Init, Recorders
<1>2. Recorders /\ [Next]_vars => Recorders'
  <2> SUFFICES ASSUME Recorders, [Next]_vars PROVE Recorders'
    OBVIOUS
  <2>1. CASE Cancel \/ Apply \/ Ok
    <3>1. \E save : Stays(save) \/ Closes(save)
      BY <2>1 DEF Cancel, Apply, Ok, PerformClose
    <3> QED
      BY <3>1, SameRecorders, ClosesRecorders DEF Stays
  <2>2. CASE SavePrompted \/ DontSave
    <3>1. \E save : Stays(save) \/ Closes(save)
      BY <2>2 DEF SavePrompted, DontSave
    <3> QED
      BY <3>1, SameRecorders, ClosesRecorders DEF Stays
  <2>3. CASE QuitAsks \/ CancelPrompt \/ Dismiss \/ DeclineBeta \/ BecomeKey \/ ResignKey
    BY <2>3, SameRecorders
       DEF QuitAsks, CancelPrompt, Dismiss, DeclineBeta, BecomeKey, ResignKey
  <2>4. CASE Quit \/ SuddenTermination \/ Exit
    <3>1. Exits
      BY <2>4 DEF Quit, SuddenTermination, Exit
    <3> QED
      BY <3>1 DEF Exits, Recorders
  <2>5. CASE OpenSettings \/ DiscardForReload
    BY <2>5, LoadRecorders DEF OpenSettings, DiscardForReload, LoadFromDisk
  <2>6. CASE Reload
    <3>1. UNCHANGED recorder \/ LoadFails \/ LoadSucceeds
      BY <2>6 DEF Reload, LoadFromDisk
    <3> QED
      BY <3>1, SameRecorders, LoadRecorders
  <2>7. ASSUME NEW id \in KnownActions, BeginRecording(id) PROVE Recorders'
    BY <2>7, WindowAssumption DEF BeginRecording, Recorders
  <2>8. CASE EndRecording \/ \E name \in Keys, flags \in Flags : CaptureEvent(name, flags)
    <3>1. recording' = None /\ listening' = FALSE /\ untold' = "no"
      BY <2>8 DEF EndRecording, CaptureEvent
    <3> QED
      BY <3>1 DEF Recorders
  <2>9. CASE \/ \E field \in Switches : FlipSwitch(field)
             \/ \E id \in KnownActions : FlipHotkey(id) \/ ClearShortcut(id)
             \/ FlipBeta
             \/ \E part \in {"crash", "login"} : FlipPreference(part)
    BY <2>9, SameRecorders
       DEF FlipSwitch, FlipHotkey, ClearShortcut, EditsDocument, FlipBeta, FlipPreference
  <2>10. CASE Launch \/ RuntimeStarts \/ EditFile \/ EditLoginItem \/ UNCHANGED vars
    BY <2>10, SameRecorders DEF Launch, RuntimeStarts, EditFile, EditLoginItem, vars
  <2> QED
    BY <2>1, <2>2, <2>3, <2>4, <2>5, <2>6, <2>7, <2>8, <2>9, <2>10 DEF Next
<1> QED
  BY <1>1, <1>2, PTL DEF Spec

(***************************************************************************)
(* The runtime leaves the keys alone just while a recorder is recording in *)
(* the key window, for any actions, edits and outcomes of a save, but for  *)
(* a recorder that went or was closed upon without being told, and for a   *)
(* runtime started meanwhile (SHSettingsWindowController.mm:1540-1636,     *)
(* SHRuntimeHost.mm:127-134).                                              *)
(***************************************************************************)
THEOREM SuspendedWhileRecordingAlways == Spec => []SuspendedWhileRecording
<1>1. Inv /\ Recorders => SuspendedWhileRecording
  BY DEF Inv, Inner, SuspendedWhileListening, Recorders, SuspendedWhileRecording
<1> QED
  BY <1>1, Invariance, RecordersAlways, PTL

(***************************************************************************)
(* Every request to close or to quit is settled, for any number of sheets  *)
(* that queue (SHSettingsWindowController.mm:1381-1419,                    *)
(* AppDelegate.m:242-258).                                                 *)
(***************************************************************************)
THEOREM RequestsAreSettledAlways == Spec => []RequestsAreSettled
<1>1. ASSUME Settled PROVE RequestsAreSettled
  <2>1. PICK list, asked : list = sheets /\ asked = pending
    OBVIOUS
  <2>2. Fits(list, asked) /\ (app = "quitting" => QuitIsAsked(list))
    BY <1>1, <2>1 DEF Settled
  <2>3. PICK up : up = PromptsUp /\ up = {i \in DOMAIN list : list[i] \in Prompts}
    BY <2>1 DEF PromptsUp
  <2>4. app = "quitting" => \E i \in PromptsUp : sheets[i] = "quit"
    BY <2>1, <2>2, <2>3 DEF QuitIsAsked, Prompts
  <2>5. CASE asked
    <3>1. PICK k \in DOMAIN list : /\ list[k] \in Prompts
                                   /\ \A i \in DOMAIN list : list[i] \in Prompts => i = k
      BY <2>2, <2>5 DEF Fits, OnePrompt
    <3>2. up = {k}
      BY <2>3, <3>1
    <3>3. Cardinality(up) = 1
      BY <3>2, FS_Singleton
    <3> QED
      BY <2>1, <2>3, <2>4, <2>5, <3>3 DEF RequestsAreSettled
  <2>6. CASE ~asked
    <3>1. up = {}
      BY <2>2, <2>3, <2>6 DEF Fits, NoPrompt
    <3>2. Cardinality(up) = 0
      BY <3>1, FS_EmptySet
    <3> QED
      BY <2>1, <2>3, <2>4, <2>6, <3>2 DEF RequestsAreSettled
  <2> QED
    BY <2>2, <2>5, <2>6 DEF Fits
<1> QED
  BY <1>1, Invariance, PTL DEF Inv

-----------------------------------------------------------------------------
(***************************************************************************)
(* Lists of modifiers: what the window makes of the modifiers held with a  *)
(* key is parsed and normalized into itself.                               *)
(***************************************************************************)
LEMMA Concatenation ==
  ASSUME NEW S, NEW s \in Seq(S), NEW t \in Seq(S)
  PROVE  /\ s \o t \in Seq(S)
         /\ Words(s \o t) = Words(s) \cup Words(t)
<1>1. /\ s \o t \in Seq(S) /\ Len(s \o t) = Len(s) + Len(t)
      /\ Len(s) \in Nat /\ Len(t) \in Nat
      /\ DOMAIN s = 1 .. Len(s) /\ DOMAIN t = 1 .. Len(t) /\ DOMAIN (s \o t) = 1 .. Len(s \o t)
      /\ \A i \in 1 .. Len(s \o t) : (s \o t)[i] = IF i <= Len(s) THEN s[i] ELSE t[i - Len(s)]
  OBVIOUS
<1>2. PICK u : u = s \o t
  OBVIOUS
<1>3. \A i \in DOMAIN u : u[i] \in Words(s) \cup Words(t)
  <2> TAKE i \in DOMAIN u
  <2>1. CASE i <= Len(s)
    BY <1>1, <1>2, <2>1 DEF Words
  <2>2. CASE ~(i <= Len(s))
    <3>1. i - Len(s) \in DOMAIN t /\ u[i] = t[i - Len(s)]
      BY <1>1, <1>2, <2>2
    <3> QED
      BY <3>1 DEF Words
  <2> QED
    BY <2>1, <2>2
<1>4. \A i \in DOMAIN s : i \in DOMAIN u /\ u[i] = s[i]
  BY <1>1, <1>2
<1>5. \A i \in DOMAIN t : i + Len(s) \in DOMAIN u /\ u[i + Len(s)] = t[i]
  <2> TAKE i \in DOMAIN t
  <2>1. i \in Nat /\ i + Len(s) \in 1 .. Len(u) /\ ~(i + Len(s) <= Len(s))
    BY <1>1, <1>2
  <2>2. (i + Len(s)) - Len(s) = i
    BY <1>1, <2>1
  <2> QED
    BY <1>1, <1>2, <2>1, <2>2
<1>6. Words(u) \subseteq Words(s) \cup Words(t)
  BY <1>3 DEF Words
<1>7. Words(s) \subseteq Words(u)
  BY <1>4 DEF Words
<1>8. Words(t) \subseteq Words(u)
  BY <1>5 DEF Words
<1> QED
  BY <1>1, <1>2, <1>6, <1>7, <1>8

(* No element of a sequence is there twice.                                *)
Distinct(seq) == \A i, j \in DOMAIN seq : seq[i] = seq[j] => i = j

LEMMA DistinctConcatenation ==
  ASSUME NEW S, NEW s \in Seq(S), NEW t \in Seq(S), Distinct(s), Distinct(t),
         Words(s) \cap Words(t) = {}
  PROVE  Distinct(s \o t)
<1>1. /\ s \o t \in Seq(S) /\ Len(s \o t) = Len(s) + Len(t)
      /\ Len(s) \in Nat /\ Len(t) \in Nat
      /\ DOMAIN s = 1 .. Len(s) /\ DOMAIN t = 1 .. Len(t) /\ DOMAIN (s \o t) = 1 .. Len(s \o t)
      /\ \A i \in 1 .. Len(s \o t) : (s \o t)[i] = IF i <= Len(s) THEN s[i] ELSE t[i - Len(s)]
  OBVIOUS
<1>2. PICK u : u = s \o t
  OBVIOUS
<1>3. \A i \in DOMAIN u : \/ i \in DOMAIN s /\ u[i] = s[i]
                          \/ i - Len(s) \in DOMAIN t /\ u[i] = t[i - Len(s)] /\ i \in Nat
  BY <1>1, <1>2
<1>4. \A i \in DOMAIN s, j \in DOMAIN t : s[i] # t[j]
  BY DEF Words
<1> SUFFICES ASSUME NEW i \in DOMAIN u, NEW j \in DOMAIN u, u[i] = u[j] PROVE i = j
  BY <1>2 DEF Distinct
<1>5. CASE i \in DOMAIN s /\ u[i] = s[i] /\ j \in DOMAIN s /\ u[j] = s[j]
  BY <1>5 DEF Distinct
<1>6. CASE /\ i - Len(s) \in DOMAIN t /\ u[i] = t[i - Len(s)] /\ i \in Nat
           /\ j - Len(s) \in DOMAIN t /\ u[j] = t[j - Len(s)] /\ j \in Nat
  <2>1. i - Len(s) = j - Len(s)
    BY <1>6 DEF Distinct
  <2> QED
    BY <1>1, <1>6, <2>1
<1> QED
  BY <1>3, <1>4, <1>5, <1>6

-----------------------------------------------------------------------------
(* The list of modifiers that are held.                                    *)
Held(word, flags) == IF word \in flags THEN <<word>> ELSE <<>>

LEMMA HeldIs ==
  ASSUME NEW word \in CanonicalNames, NEW flags
  PROVE  /\ Held(word, flags) \in Seq(CanonicalNames)
         /\ Words(Held(word, flags)) = flags \cap {word}
         /\ Distinct(Held(word, flags))
<1>1. CASE word \in flags
  <2>1. <<word>> \in Seq(CanonicalNames) /\ DOMAIN <<word>> = {1} /\ <<word>>[1] = word
    OBVIOUS
  <2>2. PICK s : s = <<word>>
    OBVIOUS
  <2>3. Words(s) = {word} /\ Distinct(s)
    BY <2>1, <2>2 DEF Words, Distinct
  <2> QED
    BY <1>1, <2>1, <2>2, <2>3 DEF Held
<1>2. CASE word \notin flags
  <2>1. <<>> \in Seq(CanonicalNames) /\ DOMAIN <<>> = {}
    OBVIOUS
  <2>2. Words(<<>>) = {} /\ Distinct(<<>>)
    BY <2>1 DEF Words, Distinct
  <2> QED
    BY <1>2, <2>1, <2>2 DEF Held
<1> QED
  BY <1>1, <1>2

LEMMA ModifiersAre ==
  ASSUME NEW flags
  PROVE  ModifiersFromFlags(flags)
           = Held("ctrl", flags) \o Held("option", flags) \o Held("shift", flags)
               \o Held("cmd", flags)
BY DEF ModifiersFromFlags, Held

LEMMA ModifiersProperties ==
  ASSUME NEW flags
  PROVE  /\ ModifiersFromFlags(flags) \in Seq(CanonicalNames)
         /\ Words(ModifiersFromFlags(flags)) = flags \cap CanonicalNames
         /\ Distinct(ModifiersFromFlags(flags))
<1>1. PICK a, b, c, d : /\ a = Held("ctrl", flags) /\ b = Held("option", flags)
                        /\ c = Held("shift", flags) /\ d = Held("cmd", flags)
  OBVIOUS
<1>2. /\ "ctrl" \in CanonicalNames /\ "option" \in CanonicalNames
      /\ "shift" \in CanonicalNames /\ "cmd" \in CanonicalNames
  BY DEF CanonicalNames
<1>3. /\ a \in Seq(CanonicalNames) /\ Words(a) = flags \cap {"ctrl"} /\ Distinct(a)
      /\ b \in Seq(CanonicalNames) /\ Words(b) = flags \cap {"option"} /\ Distinct(b)
      /\ c \in Seq(CanonicalNames) /\ Words(c) = flags \cap {"shift"} /\ Distinct(c)
      /\ d \in Seq(CanonicalNames) /\ Words(d) = flags \cap {"cmd"} /\ Distinct(d)
  BY <1>1, <1>2, HeldIs
<1>4. PICK ab : ab = a \o b
  OBVIOUS
<1>5. /\ ab \in Seq(CanonicalNames) /\ Words(ab) = flags \cap {"ctrl", "option"}
      /\ Distinct(ab)
  <2>1. Words(a) \cap Words(b) = {}
    BY <1>3
  <2>2. ab \in Seq(CanonicalNames) /\ Words(ab) = Words(a) \cup Words(b) /\ Distinct(ab)
    BY <1>3, <1>4, <2>1, Concatenation, DistinctConcatenation
  <2> QED
    BY <1>3, <2>2
<1>6. PICK abc : abc = ab \o c
  OBVIOUS
<1>7. /\ abc \in Seq(CanonicalNames) /\ Words(abc) = flags \cap {"ctrl", "option", "shift"}
      /\ Distinct(abc)
  <2>1. Words(ab) \cap Words(c) = {}
    BY <1>3, <1>5
  <2>2. abc \in Seq(CanonicalNames) /\ Words(abc) = Words(ab) \cup Words(c) /\ Distinct(abc)
    BY <1>3, <1>5, <1>6, <2>1, Concatenation, DistinctConcatenation
  <2> QED
    BY <1>3, <1>5, <2>2
<1>8. PICK all : all = abc \o d
  OBVIOUS
<1>9. /\ all \in Seq(CanonicalNames) /\ Words(all) = flags \cap CanonicalNames
      /\ Distinct(all)
  <2>1. Words(abc) \cap Words(d) = {}
    BY <1>3, <1>7
  <2>2. all \in Seq(CanonicalNames) /\ Words(all) = Words(abc) \cup Words(d) /\ Distinct(all)
    BY <1>3, <1>7, <1>8, <2>1, Concatenation, DistinctConcatenation
  <2> QED
    BY <1>3, <1>7, <2>2 DEF CanonicalNames
<1> QED
  BY <1>1, <1>4, <1>6, <1>8, <1>9, ModifiersAre

LEMMA SameModifiers ==
  ASSUME NEW f, NEW g, f \cap CanonicalNames = g \cap CanonicalNames
  PROVE  ModifiersFromFlags(f) = ModifiersFromFlags(g)
<1>1. \A word \in CanonicalNames : Held(word, f) = Held(word, g)
  BY DEF Held
<1> QED
  BY <1>1, ModifiersAre DEF CanonicalNames

LEMMA ModifiersListed ==
  ASSUME NEW flags
  PROVE  ModifiersFromFlags(flags) \in ModifierLists
<1>1. ModifiersFromFlags(flags) = ModifiersFromFlags(flags \cap CanonicalNames)
  BY SameModifiers
<1> QED
  BY <1>1 DEF ModifierLists

LEMMA ListsAre ==
  ASSUME NEW m \in ModifierLists
  PROVE  /\ m \in Seq(CanonicalNames) /\ m \in Seq(Spellings)
         /\ Distinct(m)
         /\ m = ModifiersFromFlags(Words(m))
         /\ Words(m) \subseteq CanonicalNames
<1>1. PICK flags \in SUBSET CanonicalNames : m = ModifiersFromFlags(flags)
  BY DEF ModifierLists
<1>2. m \in Seq(CanonicalNames) /\ Words(m) = flags /\ Distinct(m)
  BY <1>1, ModifiersProperties
<1>3. CanonicalNames \subseteq Spellings
  BY FileAssumption
<1>4. m \in Seq(Spellings)
  BY <1>2, <1>3
<1> QED
  BY <1>1, <1>2, <1>4

LEMMA CanonicalAre ==
  ASSUME NEW w \in CanonicalNames
  PROVE  Lowercase[w] = w /\ w \in DOMAIN CanonicalModifier /\ CanonicalModifier[w] = w
<1>1. w \in DOMAIN CanonicalModifier /\ CanonicalModifier[w] = w
  BY DEF CanonicalNames, CanonicalModifier
<1> QED
  BY <1>1, FileAssumption

LEMMA ParsedIsListed ==
  ASSUME NEW modifiers
  PROVE  ParseModifiers(modifiers) \in ModifierLists
BY ModifiersListed DEF ParseModifiers

(* A list as the window shows it is parsed and normalized into itself.     *)
LEMMA ParsedAgain ==
  ASSUME NEW m \in ModifierLists
  PROVE  ParseModifiers(m) = m
<1>1. Words(m) \subseteq CanonicalNames /\ m = ModifiersFromFlags(Words(m))
  BY ListsAre
<1>2. PICK words : words = Words(m)
  OBVIOUS
<1>3. {Lowercase[w] : w \in words} \cap DOMAIN CanonicalModifier = words
  BY <1>1, <1>2, CanonicalAre
<1>4. {CanonicalModifier[w] : w \in words} = words
  BY <1>1, <1>2, CanonicalAre
<1> QED
  BY <1>1, <1>2, <1>3, <1>4 DEF ParseModifiers

LEMMA AllPositions ==
  ASSUME NEW S, NEW seq \in Seq(S)
  PROVE  AtPositions(seq, DOMAIN seq) = seq
<1>1. PICK n \in Nat : n = Len(seq) /\ DOMAIN seq = 1 .. n
  OBVIOUS
<1>2. \A i \in Nat : Cardinality(1 .. i) = i
  BY FS_Interval
<1>3. \A i \in 1 .. n : Cardinality({j \in 1 .. n : j <= i}) = i
  <2> TAKE i \in 1 .. n
  <2>1. {j \in 1 .. n : j <= i} = 1 .. i /\ i \in Nat
    OBVIOUS
  <2> QED
    BY <1>2, <2>1
<1>4. \A k \in 1 .. n :
        (CHOOSE i \in 1 .. n : Cardinality({j \in 1 .. n : j <= i}) = k) = k
  <2> TAKE k \in 1 .. n
  <2>1. \A i \in 1 .. n : Cardinality({j \in 1 .. n : j <= i}) = k <=> i = k
    BY <1>3
  <2> QED
    BY <2>1
<1>5. AtPositions(seq, 1 .. n) = [k \in 1 .. n |-> seq[k]]
  <2>1. PICK I : I = 1 .. n
    OBVIOUS
  <2>2. Cardinality(I) = n
    BY <1>2, <2>1
  <2>3. AtPositions(seq, I)
          = [k \in 1 .. n |-> seq[CHOOSE i \in I : Cardinality({j \in I : j <= i}) = k]]
    BY <2>2 DEF AtPositions
  <2> DEFINE at(k) == CHOOSE i \in I : Cardinality({j \in I : j <= i}) = k
  <2>4. \A k \in 1 .. n : at(k) = k
    BY <1>4, <2>1
  <2>5. AtPositions(seq, I) = [k \in 1 .. n |-> seq[at(k)]]
    BY <2>3
  <2> HIDE DEF at
  <2> QED
    BY <2>1, <2>4, <2>5
<1>6. seq = [k \in 1 .. n |-> seq[k]]
  BY <1>1
<1> QED
  BY <1>1, <1>5, <1>6

LEMMA NormalizedAgain ==
  ASSUME NEW m \in ModifierLists
  PROVE  NormalizedModifiers(m) = m
<1>1. m \in Seq(CanonicalNames) /\ Distinct(m) /\ Words(m) \subseteq CanonicalNames
  BY ListsAre
<1>2. PICK names : names = [i \in DOMAIN m |-> CanonicalModifier[Lowercase[m[i]]]]
  OBVIOUS
<1>3. \A i \in DOMAIN m : m[i] \in CanonicalNames
  BY <1>1 DEF Words
<1>4. \A i \in DOMAIN m : CanonicalModifier[Lowercase[m[i]]] = m[i]
  BY <1>3, CanonicalAre
<1>5. m = [i \in DOMAIN m |-> m[i]]
  BY <1>1
<1>6. names = m
  BY <1>2, <1>4, <1>5
<1>7. \A w \in Words(m) : Lowercase[w] \in DOMAIN CanonicalModifier
  BY <1>1, CanonicalAre
<1>8. FirstPositions(m) = DOMAIN m
  <2>1. DOMAIN m = 1 .. Len(m)
    BY <1>1
  <2>2. \A i, j \in DOMAIN m : m[j] = m[i] => i <= j
    BY <1>1, <2>1 DEF Distinct
  <2> QED
    BY <2>2 DEF FirstPositions
<1>9. NormalizedModifiers(m) = AtPositions(names, FirstPositions(names))
  BY <1>2, <1>7 DEF NormalizedModifiers
<1> QED
  BY <1>1, <1>6, <1>8, <1>9, AllPositions

-----------------------------------------------------------------------------
(***************************************************************************)
(* Reading the file.                                                       *)
(***************************************************************************)
FileStates == Roots \cup {NoFile, Broken}

LEMMA RootIs ==
  ASSUME NEW f \in FileStates, f # NoFile, f # Broken
  PROVE  /\ f \in Roots
         /\ f.fields \in [Members -> {"true", "false", "other", "absent"}]
         /\ f.hotkeys \in [ActionIds -> Entries] \cup {None, Broken}
BY DEF FileStates, Roots

LEMMA LoadedIsRoot ==
  ASSUME NEW f \in FileStates, Load(f) # None
  PROVE  /\ f # NoFile /\ f # Broken
         /\ f.version = 1 /\ f.hotkeys \in [ActionIds -> Entries]
         /\ \A field \in Fields : FieldIsValid(f, field)
<1>1. f # NoFile /\ f # Broken
  BY DEF Load, Readable
<1>2. /\ f.version = 1 /\ f.hotkeys \notin {None, Broken}
      /\ \A field \in Fields : FieldIsValid(f, field)
  BY <1>1 DEF Load, Readable
<1> QED
  BY <1>1, <1>2, RootIs

Parsed(f) ==
  [workspace_wrap       |-> Field(f, "workspaceWrap"),
   display_wrap         |-> Field(f, "displayWrap"),
   tray_scroll          |-> Field(f, "trayScroll"),
   tray_scroll_inverted |-> Field(f, "trayScrollInverted"),
   fast_swipe           |-> Field(f, "fastSwipe"),
   workspace_targets_focused_display |-> Field(f, "workspaceTargetsFocusedDisplay"),
   move_cursor_to_target_display |-> Field(f, "moveCursorToTargetDisplay"),
   hotkeys |-> ParseHotkeys(f.hotkeys)]

LEMMA LoadIsParsed ==
  ASSUME NEW f \in FileStates, Load(f) # None
  PROVE  Load(f) = Parsed(f)
<1>1. /\ f # NoFile /\ f # Broken
      /\ f.version = 1 /\ f.hotkeys \in [ActionIds -> Entries]
      /\ \A field \in Fields : FieldIsValid(f, field)
  BY LoadedIsRoot
<1>2. f.hotkeys \notin {None, Broken}
  BY <1>1, FileAssumption
<1> QED
  BY <1>1, <1>2 DEF Load, Readable, Parsed

(* A root with what is required of it loads.                               *)
LEMMA Loads ==
  ASSUME NEW f, f \in Roots, f.version = 1, f.hotkeys \in [ActionIds -> Entries],
         \A field \in Fields : FieldIsValid(f, field), Parsed(f) \in Documents
  PROVE  Load(f) = Parsed(f) /\ Load(f) # None
<1>1. f # NoFile /\ f # Broken /\ f.hotkeys \notin {None, Broken}
  BY FileAssumption
<1>2. Load(f) = Parsed(f)
  BY <1>1 DEF Load, Readable, Parsed
<1> QED
  BY <1>2, FileAssumption

LEMMA FieldNames ==
  /\ Fields = {"workspaceWrap", "displayWrap", "trayScroll", "trayScrollInverted",
               "fastSwipe", "workspaceTargetsFocusedDisplay", "moveCursorToTargetDisplay"}
  /\ DOMAIN Default = Fields \ Required
  /\ \A field \in DOMAIN Default : Default[field] \in BOOLEAN
<1>1. DOMAIN Default = {"trayScroll", "trayScrollInverted", "fastSwipe",
                        "workspaceTargetsFocusedDisplay", "moveCursorToTargetDisplay"}
  BY DEF Default
<1>2. Fields = {"workspaceWrap", "displayWrap", "trayScroll", "trayScrollInverted",
               "fastSwipe", "workspaceTargetsFocusedDisplay", "moveCursorToTargetDisplay"}
  BY <1>1 DEF Fields, Required
<1>3. /\ Default["trayScroll"] = TRUE /\ Default["trayScrollInverted"] = FALSE
      /\ Default["fastSwipe"] = TRUE /\ Default["workspaceTargetsFocusedDisplay"] = TRUE
      /\ Default["moveCursorToTargetDisplay"] = TRUE
  BY DEF Default
<1> QED
  BY <1>1, <1>2, <1>3 DEF Required

LEMMA FieldIsBoolean ==
  ASSUME NEW f, NEW field \in Fields, FieldIsValid(f, field)
  PROVE  Field(f, field) \in BOOLEAN
<1>1. CASE f.fields[field] = "absent"
  <2>1. field \in DOMAIN Default
    BY <1>1, FieldNames DEF FieldIsValid
  <2> QED
    BY <1>1, <2>1, FieldNames DEF Field
<1>2. CASE f.fields[field] # "absent"
  BY <1>2 DEF Field
<1> QED
  BY <1>1, <1>2

LEMMA DefaultHotkeyIsHotkey ==
  ASSUME NEW id \in KnownActions
  PROVE  DefaultHotkey(id) \in Hotkeys
<1>1. DefaultKey(id) \in Spellings
  BY FileAssumption
<1>2. "ctrl" \in Spellings /\ "option" \in Spellings /\ "shift" \in Spellings
  BY FileAssumption DEF CanonicalNames
<1>3. /\ <<"option", "ctrl">> \in Seq(Spellings) /\ <<"option", "shift">> \in Seq(Spellings)
      /\ <<"option">> \in Seq(Spellings)
  BY <1>2
<1>4. DefaultModifiers(id) \in Seq(Spellings)
  BY <1>3 DEF DefaultModifiers
<1> QED
  BY <1>1, <1>4 DEF DefaultHotkey, Hotkeys

LEMMA ParsedEntry ==
  ASSUME NEW value \in Entries, IsHotkey(value)
  PROVE  /\ ParseHotkey(value) \in Hotkeys \cup {None}
         /\ value.kind = "null" => ParseHotkey(value) = None
<1>1. CASE value.kind = "null"
  BY <1>1 DEF ParseHotkey
<1>2. CASE value.kind # "null"
  <2>1. value.kind = "hotkey" /\ value.key # ""
    BY <1>2 DEF IsHotkey
  <2>2. /\ value.key \in Spellings \cup {""} /\ value.modifiers \in Seq(Spellings)
        /\ value.enabled \in BOOLEAN
    BY <2>1 DEF Entries
  <2>3. PICK k \in Spellings, m \in Seq(Spellings), e \in BOOLEAN :
          k = value.key /\ m = value.modifiers /\ e = value.enabled
    BY <2>1, <2>2
  <2>4. ParseHotkey(value) = [key |-> k, modifiers |-> m, enabled |-> e]
    BY <2>1, <2>3 DEF ParseHotkey
  <2>5. ParseHotkey(value) \in Hotkeys
    BY <2>3, <2>4 DEF Hotkeys
  <2> QED
    BY <1>2, <2>5
<1> QED
  BY <1>1, <1>2

LEMMA ParsedHotkeys ==
  ASSUME NEW entries \in [ActionIds -> Entries]
  PROVE  ParseHotkeys(entries) \in [ActionIds -> Hotkeys \cup {None}]
<1>1. \A id \in ActionIds : ParseHotkeys(entries)[id] \in Hotkeys \cup {None}
  <2> TAKE id \in ActionIds
  <2>1. ParseHotkeys(entries)[id]
          = IF IsHotkey(entries[id]) THEN ParseHotkey(entries[id])
            ELSE IF id \in KnownActions THEN DefaultHotkey(id) ELSE None
    BY DEF ParseHotkeys
  <2>2. entries[id] \in Entries
    OBVIOUS
  <2>3. CASE IsHotkey(entries[id])
    BY <2>1, <2>2, <2>3, ParsedEntry
  <2>4. CASE ~IsHotkey(entries[id]) /\ id \in KnownActions
    BY <2>1, <2>4, DefaultHotkeyIsHotkey
  <2>5. CASE ~IsHotkey(entries[id]) /\ id \notin KnownActions
    BY <2>1, <2>5
  <2> QED
    BY <2>3, <2>4, <2>5
<1> QED
  BY <1>1 DEF ParseHotkeys

LEMMA ParsedIsDocument ==
  ASSUME NEW f, f.hotkeys \in [ActionIds -> Entries],
         \A field \in Fields : FieldIsValid(f, field)
  PROVE  Parsed(f) \in Documents
<1>1. \A field \in Fields : Field(f, field) \in BOOLEAN
  BY FieldIsBoolean
<1>2. /\ Field(f, "workspaceWrap") \in BOOLEAN /\ Field(f, "displayWrap") \in BOOLEAN
      /\ Field(f, "trayScroll") \in BOOLEAN /\ Field(f, "trayScrollInverted") \in BOOLEAN
      /\ Field(f, "fastSwipe") \in BOOLEAN
      /\ Field(f, "workspaceTargetsFocusedDisplay") \in BOOLEAN
      /\ Field(f, "moveCursorToTargetDisplay") \in BOOLEAN
  BY <1>1, FieldNames
<1>3. ParseHotkeys(f.hotkeys) \in [ActionIds -> Hotkeys \cup {None}]
  BY ParsedHotkeys
<1> QED
  BY <1>2, <1>3 DEF Parsed, Documents

LEMMA LoadIsDocument ==
  ASSUME NEW f \in FileStates
  PROVE  Load(f) \in Documents \cup {None}
<1>1. CASE Load(f) # None
  BY <1>1, LoadedIsRoot, LoadIsParsed, ParsedIsDocument
<1> QED
  BY <1>1

-----------------------------------------------------------------------------
(***************************************************************************)
(* Showing the document.                                                   *)
(***************************************************************************)
(* Inverted scrolling is off while tray scrolling is.                      *)
TrayShown(switches) == switches.trayScroll \/ ~switches.trayScrollInverted

LEMMA TrayScrollIs ==
  ASSUME NEW switches \in [Fields -> BOOLEAN]
  PROVE  /\ TrayScrollChanged(switches) \in [Fields -> BOOLEAN]
         /\ TrayShown(TrayScrollChanged(switches))
         /\ TrayShown(switches) => TrayScrollChanged(switches) = switches
<1>1. /\ "trayScroll" \in Fields /\ "trayScrollInverted" \in Fields
      /\ "trayScroll" # "trayScrollInverted"
  BY FieldNames
<1>2. CASE switches.trayScroll
  BY <1>2 DEF TrayScrollChanged, TrayShown
<1>3. CASE ~switches.trayScroll
  <2>1. PICK s : s = [switches EXCEPT !.trayScrollInverted = FALSE]
    OBVIOUS
  <2>2. s \in [Fields -> BOOLEAN] /\ s.trayScrollInverted = FALSE
    BY <1>1, <2>1
  <2>3. ~switches.trayScrollInverted => s = switches
    BY <1>1, <2>1
  <2>4. TrayScrollChanged(switches) = s
    BY <1>3, <2>1 DEF TrayScrollChanged
  <2> QED
    BY <1>3, <2>2, <2>3, <2>4 DEF TrayShown
<1> QED
  BY <1>2, <1>3

SwitchesOf(doc) ==
  [workspaceWrap      |-> doc.workspace_wrap,
   displayWrap        |-> doc.display_wrap,
   trayScroll         |-> doc.tray_scroll,
   trayScrollInverted |-> doc.tray_scroll_inverted,
   fastSwipe          |-> doc.fast_swipe,
   workspaceTargetsFocusedDisplay |-> doc.workspace_targets_focused_display,
   moveCursorToTargetDisplay      |-> doc.move_cursor_to_target_display]

LEMMA SwitchesAre ==
  ASSUME NEW doc \in Documents
  PROVE  SwitchesOf(doc) \in [Fields -> BOOLEAN]
BY FieldNames DEF SwitchesOf, Documents

LEMMA ShowIs ==
  ASSUME NEW doc
  PROVE  Show(doc) = [switches |-> TrayScrollChanged(SwitchesOf(doc)),
                      hotkeys  |-> [id \in KnownActions |-> ShowHotkey(doc, id)]]
BY DEF Show, SwitchesOf

LEMMA ShownHotkey ==
  ASSUME NEW doc \in Documents, NEW id \in KnownActions
  PROVE  ShowHotkey(doc, id) \in Shortcuts
<1>1. doc.hotkeys[id] \in Hotkeys \cup {None}
  BY FileAssumption DEF Documents
<1>2. PICK hotkey : hotkey = doc.hotkeys[id]
  OBVIOUS
<1>4. CASE hotkey = None
  <2>1. <<>> \in ModifierLists
    <3>1. ModifiersFromFlags({}) = <<>>
      BY DEF ModifiersFromFlags
    <3> QED
      BY <3>1, ModifiersListed
  <2>2. ShowHotkey(doc, id) = [key |-> "", modifiers |-> <<>>, enabled |-> FALSE]
    BY <1>2, <1>4 DEF ShowHotkey
  <2> QED
    <3>1. [key |-> "", modifiers |-> <<>>, enabled |-> FALSE] \in Shortcuts
      BY <2>1 DEF Shortcuts
    <3> QED
      BY <2>2, <3>1
<1>5. CASE hotkey \in Hotkeys
  <2>1. hotkey # None
    BY <1>5, FileAssumption
  <2>2. PICK m \in ModifierLists : m = ParseModifiers(hotkey.modifiers)
    BY ParsedIsListed
  <2>3. PICK k \in Spellings, e \in BOOLEAN :
          hotkey = [key |-> k, modifiers |-> hotkey.modifiers, enabled |-> e]
    BY <1>5 DEF Hotkeys
  <2>4. ShowHotkey(doc, id) = [hotkey EXCEPT !.modifiers = m]
    BY <1>2, <2>1, <2>2 DEF ShowHotkey
  <2>5. ShowHotkey(doc, id) = [key |-> k, modifiers |-> m, enabled |-> e]
    BY <2>3, <2>4
  <2>6. [key |-> k, modifiers |-> m, enabled |-> e] \in Shortcuts
    BY DEF Shortcuts
  <2> QED
    BY <2>5, <2>6
<1> QED
  BY <1>1, <1>2, <1>4, <1>5

LEMMA ShownIs ==
  ASSUME NEW doc \in Documents
  PROVE  /\ Show(doc) \in ShownDocuments
         /\ DOMAIN Show(doc).hotkeys = KnownActions
         /\ TrayShown(Show(doc).switches)
<1>1. PICK switches : switches = TrayScrollChanged(SwitchesOf(doc))
  OBVIOUS
<1>2. switches \in [Fields -> BOOLEAN] /\ TrayShown(switches)
  BY <1>1, SwitchesAre, TrayScrollIs
<1>3. PICK hotkeys : hotkeys = [id \in KnownActions |-> ShowHotkey(doc, id)]
  OBVIOUS
<1>4. hotkeys \in [KnownActions -> Shortcuts]
  BY <1>3, ShownHotkey
<1>5. Show(doc) = [switches |-> switches, hotkeys |-> hotkeys]
  BY <1>1, <1>3, ShowIs
<1> QED
  BY <1>2, <1>4, <1>5 DEF ShownDocuments

-----------------------------------------------------------------------------
(***************************************************************************)
(* Writing the document, and reading it back.                              *)
(***************************************************************************)
LEMMA ShownDocument ==
  ASSUME NEW doc \in ShownDocuments
  PROVE  /\ doc.switches \in [Fields -> BOOLEAN]
         /\ DOMAIN doc.hotkeys \subseteq KnownActions
         /\ DOMAIN doc.hotkeys \subseteq ActionIds
         /\ \A id \in DOMAIN doc.hotkeys : doc.hotkeys[id] \in Shortcuts
         /\ DOMAIN doc.hotkeys = KnownActions => doc.hotkeys \in [KnownActions -> Shortcuts]
         /\ doc = [switches |-> doc.switches, hotkeys |-> doc.hotkeys]
<1>1. doc.switches \in [Fields -> BOOLEAN] /\ doc.hotkeys \in [KnownActions -> Shortcuts] \cup {Empty}
      /\ doc = [switches |-> doc.switches, hotkeys |-> doc.hotkeys]
  BY DEF ShownDocuments
<1>2. PICK hotkeys : hotkeys = doc.hotkeys
  OBVIOUS
<1>3. KnownActions \subseteq ActionIds
  BY FileAssumption
<1>4. CASE hotkeys = Empty
  <2>1. DOMAIN hotkeys = {} /\ hotkeys = [id \in {} |-> None]
    BY <1>4 DEF Empty
  <2>2. KnownActions = {} => hotkeys \in [KnownActions -> Shortcuts]
    BY <2>1
  <2> QED
    BY <1>1, <1>2, <1>3, <2>1, <2>2
<1>5. CASE hotkeys \in [KnownActions -> Shortcuts]
  BY <1>1, <1>2, <1>3, <1>5
<1> QED
  BY <1>1, <1>2, <1>4, <1>5

LEMMA SavedItem ==
  ASSUME NEW item \in Shortcuts, CanBeSaved(item)
  PROVE  /\ JsonHotkey(item) \in Entries
         /\ IsHotkey(JsonHotkey(item))
         /\ item.key # "" => ParseHotkey(JsonHotkey(item)) = item /\ item \in Hotkeys
         /\ item.key = "" =>
              /\ ParseHotkey(JsonHotkey(item)) = None
              /\ item = [key |-> "", modifiers |-> <<>>, enabled |-> FALSE]
<1>1. PICK k \in Spellings \cup {""}, m \in ModifierLists, e \in BOOLEAN :
        item = [key |-> k, modifiers |-> m, enabled |-> e]
  BY DEF Shortcuts
<1>2. NormalizedModifiers(m) = m /\ m \in Seq(Spellings)
  BY NormalizedAgain, ListsAre
<1>3. (e => k # "") /\ (m # <<>> => k # "")
  BY <1>1 DEF CanBeSaved
<1>4. CASE k = ""
  <2>1. JsonHotkey(item) = [kind |-> "null"]
    BY <1>1, <1>4 DEF JsonHotkey
  <2>2. [kind |-> "null"] \in Entries
    BY DEF Entries
  <2>3. IsHotkey([kind |-> "null"]) /\ ParseHotkey([kind |-> "null"]) = None
    BY DEF IsHotkey, ParseHotkey
  <2>4. e = FALSE /\ m = <<>>
    BY <1>3, <1>4
  <2> QED
    BY <1>1, <1>4, <2>1, <2>2, <2>3, <2>4
<1>5. CASE k # ""
  <2>1. PICK entry : entry = [kind |-> "hotkey", key |-> k, modifiers |-> m, enabled |-> e]
    OBVIOUS
  <2>2. JsonHotkey(item) = entry
    BY <1>1, <1>2, <1>5, <2>1 DEF JsonHotkey
  <2>3. entry \in Entries
    BY <1>2, <2>1 DEF Entries
  <2>4. IsHotkey(entry)
    BY <1>5, <2>1 DEF IsHotkey
  <2>5. ParseHotkey(entry) = [key |-> k, modifiers |-> m, enabled |-> e]
    BY <2>1 DEF ParseHotkey
  <2>6. [key |-> k, modifiers |-> m, enabled |-> e] \in Hotkeys
    BY <1>2, <1>5 DEF Hotkeys
  <2> QED
    BY <1>1, <1>5, <2>2, <2>3, <2>4, <2>5, <2>6
<1> QED
  BY <1>4, <1>5

LEMMA NoHotkeysAre == NoHotkeys \in [ActionIds -> Entries]
<1>1. [kind |-> "absent"] \in Entries
  BY DEF Entries
<1> QED
  BY <1>1 DEF NoHotkeys

(* A save that succeeds: what of the file is replaced, and what is kept.   *)
LEMMA SavedIs ==
  ASSUME NEW f \in FileStates, f # NoFile, NEW doc \in ShownDocuments,
         NEW s, s = SaveDocument(f, doc), s # None
  PROVE  /\ s \in Roots /\ s.version = 1
         /\ s.hotkeys \in [ActionIds -> Entries]
         /\ \A id \in DOMAIN doc.hotkeys :
              CanBeSaved(doc.hotkeys[id]) /\ s.hotkeys[id] = JsonHotkey(doc.hotkeys[id])
         /\ \A id \in ActionIds \ DOMAIN doc.hotkeys :
              f.hotkeys \notin {None, Broken} => s.hotkeys[id] = f.hotkeys[id]
         /\ \A field \in Fields : s.fields[field] = Json(doc.switches[field])
         /\ \A name \in Members \ (Fields \cup {"telemetryEnabled"}) :
              s.fields[name] = f.fields[name]
<1>1. /\ f # Broken /\ f.hotkeys # Broken
      /\ \A id \in DOMAIN doc.hotkeys : CanBeSaved(doc.hotkeys[id])
  BY DEF SaveDocument
<1>2. PICK fields, hotkeys :
        /\ s = [version |-> 1, fields |-> fields, hotkeys |-> hotkeys]
        /\ fields = [name \in Members |->
                       CASE name \in Fields -> Json(doc.switches[name])
                         [] name = "telemetryEnabled" -> "absent"
                         [] OTHER -> f.fields[name]]
        /\ hotkeys = SavedHotkeys(doc.hotkeys, f)
  BY <1>1 DEF SaveDocument
<1>3. /\ f.fields \in [Members -> {"true", "false", "other", "absent"}]
      /\ f.hotkeys \in [ActionIds -> Entries] \cup {None}
  BY <1>1, RootIs
<1>4. PICK kept : kept = IF f.hotkeys = None THEN NoHotkeys ELSE f.hotkeys
  OBVIOUS
<1>5. kept \in [ActionIds -> Entries]
  BY <1>3, <1>4, NoHotkeysAre
<1>6. hotkeys = [id \in ActionIds |-> IF id \in DOMAIN doc.hotkeys
                                      THEN JsonHotkey(doc.hotkeys[id]) ELSE kept[id]]
  BY <1>2, <1>4 DEF SavedHotkeys
<1>7. \A id \in DOMAIN doc.hotkeys : JsonHotkey(doc.hotkeys[id]) \in Entries /\ id \in ActionIds
  BY <1>1, ShownDocument, SavedItem
<1>8. hotkeys \in [ActionIds -> Entries]
  BY <1>5, <1>6, <1>7
<1>9. \A name \in Members : fields[name] \in {"true", "false", "other", "absent"}
  <2> TAKE name \in Members
  <2>1. CASE name \in Fields
    BY <1>2, <2>1 DEF Json
  <2>2. CASE name \notin Fields
    BY <1>2, <1>3, <2>2
  <2> QED
    BY <2>1, <2>2
<1>10. fields \in [Members -> {"true", "false", "other", "absent"}]
  BY <1>2, <1>9
<1>11. s \in Roots
  BY <1>2, <1>8, <1>10 DEF Roots
<1>12. \A id \in DOMAIN doc.hotkeys : s.hotkeys[id] = JsonHotkey(doc.hotkeys[id])
  BY <1>2, <1>6, <1>7
<1>13. \A id \in ActionIds \ DOMAIN doc.hotkeys :
         f.hotkeys \notin {None, Broken} => s.hotkeys[id] = f.hotkeys[id]
  BY <1>2, <1>4, <1>6
<1>14. Fields \subseteq Members
  BY FileAssumption
<1>15. \A field \in Fields : s.fields[field] = Json(doc.switches[field])
  <2>1. "telemetryEnabled" \notin Fields
    BY FieldNames
  <2>2. \A field \in Fields : fields[field] = Json(doc.switches[field])
    BY <1>2, <1>14, <2>1
  <2> QED
    BY <1>2, <2>2
<1>16. \A name \in Members \ (Fields \cup {"telemetryEnabled"}) : s.fields[name] = f.fields[name]
  BY <1>2
<1> QED
  BY <1>1, <1>2, <1>8, <1>11, <1>12, <1>13, <1>15, <1>16

(* What was saved can be loaded.                                           *)
LEMMA SavedLoads ==
  ASSUME NEW f \in FileStates, f # NoFile, NEW doc \in ShownDocuments,
         NEW s, s = SaveDocument(f, doc), s # None
  PROVE  /\ Load(s) = Parsed(s) /\ Load(s) # None /\ Load(s) \in Documents
         /\ \A field \in Fields : Field(s, field) = doc.switches[field]
<1>1. s \in Roots /\ s.version = 1 /\ s.hotkeys \in [ActionIds -> Entries]
  BY SavedIs
<1>2. doc.switches \in [Fields -> BOOLEAN]
  BY ShownDocument
<1>3. \A field \in Fields : FieldIsValid(s, field) /\ Field(s, field) = doc.switches[field]
  <2> TAKE field \in Fields
  <2>1. PICK on \in BOOLEAN : on = doc.switches[field]
    BY <1>2
  <2>2. s.fields[field] = Json(on)
    BY <2>1, SavedIs
  <2>3. FieldIsValid(s, field)
    BY <2>2 DEF Json, FieldIsValid
  <2>4. Field(s, field) = on
    BY <2>2 DEF Json, Field
  <2> QED
    BY <2>1, <2>3, <2>4
<1>4. Parsed(s) \in Documents
  BY <1>1, <1>3, ParsedIsDocument
<1> QED
  BY <1>1, <1>3, <1>4, Loads

(* A shortcut that was saved is read back as it was shown.                 *)
LEMMA SavedShortcut ==
  ASSUME NEW f \in FileStates, f # NoFile, NEW doc \in ShownDocuments,
         NEW s, s = SaveDocument(f, doc), s # None, NEW id \in DOMAIN doc.hotkeys
  PROVE  /\ Load(s).hotkeys[id] = None \/ Load(s).hotkeys[id] \in Shortcuts
         /\ ShowHotkey(Load(s), id) = doc.hotkeys[id]
<1>1. PICK item \in Shortcuts : item = doc.hotkeys[id]
  BY ShownDocument
<1>2. /\ CanBeSaved(item) /\ s.hotkeys[id] = JsonHotkey(item) /\ id \in ActionIds
      /\ s.hotkeys \in [ActionIds -> Entries]
  BY <1>1, ShownDocument, SavedIs
<1>3. Load(s) = Parsed(s)
  BY SavedLoads
<1>4. PICK hotkey : hotkey = Load(s).hotkeys[id]
  OBVIOUS
<1>5. hotkey = ParseHotkeys(s.hotkeys)[id]
  BY <1>3, <1>4 DEF Parsed
<1>6. hotkey = ParseHotkey(JsonHotkey(item))
  BY <1>2, <1>5, SavedItem DEF ParseHotkeys
<1>7. CASE item.key = ""
  <2>1. hotkey = None /\ item = [key |-> "", modifiers |-> <<>>, enabled |-> FALSE]
    BY <1>2, <1>6, <1>7, SavedItem
  <2>2. ShowHotkey(Load(s), id) = item
    BY <1>4, <2>1 DEF ShowHotkey
  <2> QED
    BY <1>1, <1>4, <2>1, <2>2
<1>8. CASE item.key # ""
  <2>1. hotkey = item /\ item \in Hotkeys
    BY <1>2, <1>6, <1>8, SavedItem
  <2>2. item # None
    BY <2>1, FileAssumption
  <2>3. ParseModifiers(item.modifiers) = item.modifiers
    <3>1. item.modifiers \in ModifierLists
      BY DEF Shortcuts
    <3> QED
      BY <3>1, ParsedAgain
  <2>4. [item EXCEPT !.modifiers = item.modifiers] = item
    BY <1>1 DEF Shortcuts
  <2>5. ShowHotkey(Load(s), id) = item
    BY <1>4, <2>1, <2>2, <2>3, <2>4 DEF ShowHotkey
  <2> QED
    BY <1>1, <1>4, <2>1, <2>5
<1> QED
  BY <1>7, <1>8

(***************************************************************************)
(* The round trip: whatever the file held before, a document that was      *)
(* written is read back and shown as the window showed it, its switches,   *)
(* keys and modifiers alike (SHSettingsStore.mm:84-356, settings.cpp:      *)
(* 243-338).                                                               *)
(***************************************************************************)
THEOREM RoundTrip ==
  ASSUME NEW f \in FileStates, f # NoFile, NEW doc \in ShownDocuments,
         DOMAIN doc.hotkeys = KnownActions, TrayShown(doc.switches),
         NEW s, s = SaveDocument(f, doc), s # None
  PROVE  Show(Load(s)) = doc
<1>1. Load(s) = Parsed(s) /\ \A field \in Fields : Field(s, field) = doc.switches[field]
  BY SavedLoads
<1>2. /\ doc.switches \in [Fields -> BOOLEAN] /\ doc.hotkeys \in [KnownActions -> Shortcuts]
      /\ doc = [switches |-> doc.switches, hotkeys |-> doc.hotkeys]
  BY ShownDocument
<1>3. SwitchesOf(Load(s)) = doc.switches
  <2>1. SwitchesOf(Parsed(s))
          = [workspaceWrap      |-> Field(s, "workspaceWrap"),
             displayWrap        |-> Field(s, "displayWrap"),
             trayScroll         |-> Field(s, "trayScroll"),
             trayScrollInverted |-> Field(s, "trayScrollInverted"),
             fastSwipe          |-> Field(s, "fastSwipe"),
             workspaceTargetsFocusedDisplay |-> Field(s, "workspaceTargetsFocusedDisplay"),
             moveCursorToTargetDisplay      |-> Field(s, "moveCursorToTargetDisplay")]
    BY DEF SwitchesOf, Parsed
  <2>2. PICK shows : shows = SwitchesOf(Parsed(s))
    OBVIOUS
  <2>3. DOMAIN shows = Fields /\ \A field \in Fields : shows[field] = Field(s, field)
    BY <2>1, <2>2, FieldNames
  <2>4. shows = [field \in Fields |-> shows[field]]
    BY <2>1, <2>2, FieldNames
  <2>5. doc.switches = [field \in Fields |-> doc.switches[field]]
    BY <1>2
  <2>6. shows = doc.switches
    BY <1>1, <2>3, <2>4, <2>5
  <2> QED
    BY <1>1, <2>2, <2>6
<1>4. TrayScrollChanged(doc.switches) = doc.switches
  BY <1>2, TrayScrollIs
<1>5. [id \in KnownActions |-> ShowHotkey(Load(s), id)] = doc.hotkeys
  <2>1. \A id \in KnownActions : ShowHotkey(Load(s), id) = doc.hotkeys[id]
    BY SavedShortcut
  <2>2. doc.hotkeys = [id \in KnownActions |-> doc.hotkeys[id]]
    BY <1>2
  <2> QED
    BY <2>1, <2>2
<1> QED
  BY <1>2, <1>3, <1>4, <1>5, ShowIs

-----------------------------------------------------------------------------
(* The file that is made when there is none.                               *)
LEMMA EnsuredFile ==
  ASSUME NEW f \in FileStates
  PROVE  /\ EnsureFile(f) \in FileStates /\ EnsureFile(f) # NoFile
         /\ Load(f) # None => EnsureFile(f) = f
         /\ f # NoFile => EnsureFile(f) = f
<1>1. Load(NoFile) = None
  BY DEF Load, Readable
<1>2. DefaultFile \in Roots
  <2>1. PICK fields : fields = [name \in Members |->
                                  CASE name \in Required -> "false"
                                    [] name \in DOMAIN Default -> Json(Default[name])
                                    [] OTHER -> "absent"]
    OBVIOUS
  <2>2. \A name \in Members : fields[name] \in {"true", "false", "other", "absent"}
    BY <2>1 DEF Json
  <2>3. fields \in [Members -> {"true", "false", "other", "absent"}]
    BY <2>1, <2>2
  <2>4. DefaultFile = [version |-> 1, fields |-> fields, hotkeys |-> NoHotkeys]
    BY <2>1 DEF DefaultFile
  <2> QED
    BY <2>3, <2>4, NoHotkeysAre DEF Roots
<1>3. DefaultFile # NoFile
  BY <1>2, FileAssumption
<1> QED
  BY <1>1, <1>2, <1>3 DEF EnsureFile, FileStates

-----------------------------------------------------------------------------
(***************************************************************************)
(* What the window and the runtime hold is of its type; the baseline is    *)
(* what the stores hold, others' changes aside; and what was said to be    *)
(* saved and applied is what the runtime runs on.                          *)
(***************************************************************************)
Choices == {"unset", "on", "off"}

LoginStates == {"NotRegistered", "NotFound", "Enabled", "RequiresApproval"}

Statuses == {"", "saved", "saved, not applied", "saved, approve", "saved, not at login"}

Typed(f, b, c, l, o, doc, now, base, text) ==
  /\ f \in FileStates
  /\ b \in BOOLEAN
  /\ c \in Choices
  /\ l \in LoginStates
  /\ o \in SUBSET Parts
  /\ doc \in Documents \cup {None}
  /\ now \in Snapshots
  /\ TrayShown(now.document.switches)
  /\ base \in Snapshots \cup {None}
  /\ text \in Statuses

StoredDocument(f) == IF Load(f) = None THEN None ELSE Show(Load(f))

Known(f, b, c, l, o, now, base) ==
  base # None =>
    /\ DOMAIN now.document.hotkeys = KnownActions
    /\ "document" \notin o => base.document = StoredDocument(f)
    /\ base.beta = b
    /\ base.crash = (c = "on")
    /\ "login" \notin o => base.login = Registered(l)

Applied(f, doc, now) ==
  /\ doc # None
  /\ doc = Load(f)
  /\ \A id \in DOMAIN now.document.hotkeys :
       doc.hotkeys[id] = None \/ doc.hotkeys[id] \in Shortcuts

Live(f, o, doc, now, text) == text = "saved" /\ "document" \notin o => Applied(f, doc, now)

LEMMA PartsAre ==
  ASSUME NEW s \in Snapshots
  PROVE  /\ DOMAIN s = Parts
         /\ s.document \in ShownDocuments /\ s.beta \in BOOLEAN /\ s.crash \in BOOLEAN
         /\ s.login \in BOOLEAN
         /\ s = [document |-> s.document, beta |-> s.beta, crash |-> s.crash, login |-> s.login]
BY DEF Snapshots, Parts

(* The state that a save begins with.                                      *)
TypedNow == Typed(file, beta, crash, login, outside, loaded, shown, baseline, status)

KnownNow == Known(file, beta, crash, login, outside, shown, baseline)

LiveNow == Live(file, outside, loaded, shown, status)

(* A save on its way: what was written is known, and what others see of    *)
(* the file is as before.                                                  *)
Keeps(f) == Load(file) # None => Load(f) # None /\ Others(f) = Others(file)

Underway(save) ==
  /\ DOMAIN save = Steps
  /\ Typed(save.file, save.beta, save.crash, save.login, save.outside, save.loaded,
           save.shown, save.baseline, save.status)
  /\ Known(save.file, save.beta, save.crash, save.login, save.outside, save.shown,
           save.baseline)
  /\ save.outside \subseteq outside
  /\ save.baseline = None <=> baseline = None
  /\ Keeps(save.file)

Saved(save, parts) ==
  /\ Underway(save)
  /\ save.result = TRUE
  /\ save.shown = shown
  /\ save.baseline # None => \A part \in parts : save.baseline[part] = shown[part]

(* All but the baseline is the same.                                       *)
Alike(s, r) ==
  /\ s.file = r.file /\ s.beta = r.beta /\ s.crash = r.crash /\ s.login = r.login
  /\ s.outside = r.outside /\ s.loaded = r.loaded /\ s.shown = r.shown
  /\ s.status = r.status /\ s.result = r.result

LEMMA RebaseIs ==
  ASSUME NEW r, NEW part \in Parts, DOMAIN r = Steps, r.shown \in Snapshots,
         r.baseline \in Snapshots \cup {None},
         NEW s, s = Rebase(r, part)
  PROVE  /\ DOMAIN s = Steps /\ Alike(s, r)
         /\ r.baseline = None => s.baseline = None
         /\ r.baseline # None =>
              /\ s.baseline \in Snapshots /\ s.baseline # None
              /\ s.baseline[part] = r.shown[part]
              /\ \A other \in Parts \ {part} : s.baseline[other] = r.baseline[other]
<1>1. CASE r.baseline = None
  BY <1>1 DEF Rebase, Alike
<1>2. CASE r.baseline # None
  <2>1. r.baseline \in Snapshots
    BY <1>2
  <2>2. PICK base : base = [r.baseline EXCEPT ![part] = r.shown[part]]
    OBVIOUS
  <2>3. s = [r EXCEPT !["baseline"] = base]
    BY <1>2, <2>2 DEF Rebase
  <2>4. s.baseline = base
    BY <2>3, StepsAre
  <2>5. DOMAIN s = Steps /\ Alike(s, r)
    BY <2>3 DEF Alike
  <2>6. DOMAIN r.baseline = Parts
    BY <2>1, PartsAre
  <2>7. base[part] = r.shown[part] /\ \A other \in Parts \ {part} : base[other] = r.baseline[other]
    BY <2>2, <2>6
  <2>8. base \in Snapshots
    <3>1. DOMAIN base = Parts /\ base = [p \in Parts |-> base[p]]
      BY <2>2, <2>6
    <3>2. \A p \in Parts : base[p] = r.shown[p] \/ base[p] = r.baseline[p]
      BY <2>7
    <3>3. /\ base["document"] \in ShownDocuments /\ base["beta"] \in BOOLEAN
          /\ base["crash"] \in BOOLEAN /\ base["login"] \in BOOLEAN
      BY <2>1, <3>2, PartsAre DEF Parts
    <3> QED
      BY <3>1, <3>3 DEF Snapshots, Parts
  <2>9. base # None
    BY <2>8, WindowAssumption
  <2> QED
    BY <1>2, <2>4, <2>5, <2>7, <2>8, <2>9
<1> QED
  BY <1>1, <1>2

LEMMA NowIs ==
  /\ DOMAIN Now = Steps
  /\ Now.file = file /\ Now.beta = beta /\ Now.crash = crash /\ Now.login = login
  /\ Now.outside = outside /\ Now.loaded = loaded /\ Now.shown = shown
  /\ Now.baseline = baseline /\ Now.status = status /\ Now.result = TRUE
BY DEF Now, Steps

LEMMA NowUnderway ==
  ASSUME TypedNow, KnownNow
  PROVE  Saved(Now, {})
<1>1. PICK r : r = Now
  OBVIOUS
<1>2. /\ DOMAIN r = Steps
      /\ r.file = file /\ r.beta = beta /\ r.crash = crash /\ r.login = login
      /\ r.outside = outside /\ r.loaded = loaded /\ r.shown = shown
      /\ r.baseline = baseline /\ r.status = status /\ r.result = TRUE
  BY <1>1, NowIs
<1>3. Underway(r)
  BY <1>2 DEF TypedNow, KnownNow, Underway, Keeps
<1> QED
  BY <1>1, <1>2, <1>3 DEF Saved

(* The document of the window, written over the file.                      *)
LEMMA WrittenFile ==
  ASSUME TypedNow, NEW written,
         written = SaveDocument(EnsureFile(file), shown.document), written # None
  PROVE  /\ written \in FileStates
         /\ Load(written) # None /\ Load(written) \in Documents
         /\ Keeps(written)
         /\ DOMAIN shown.document.hotkeys = KnownActions =>
              StoredDocument(written) = shown.document
         /\ \A id \in DOMAIN shown.document.hotkeys :
              Load(written).hotkeys[id] = None \/ Load(written).hotkeys[id] \in Shortcuts
<1>1. PICK f, doc : f = EnsureFile(file) /\ doc = shown.document
  OBVIOUS
<1>2. /\ f \in FileStates /\ f # NoFile /\ (Load(file) # None => f = file)
      /\ file \in FileStates
  BY <1>1, EnsuredFile DEF TypedNow, Typed
<1>3. doc \in ShownDocuments /\ TrayShown(doc.switches)
  BY <1>1, PartsAre DEF TypedNow, Typed
<1>4. written = SaveDocument(f, doc)
  BY <1>1
<1>5. written \in Roots /\ Load(written) # None /\ Load(written) \in Documents
  BY <1>2, <1>3, <1>4, SavedIs, SavedLoads
<1>6. Load(file) # None => Others(written) = Others(file)
  <2> SUFFICES ASSUME Load(file) # None PROVE Others(written) = Others(file)
    OBVIOUS
  <2>1. f = file /\ f.hotkeys \in [ActionIds -> Entries]
    BY <1>2, LoadedIsRoot
  <2>2. f.hotkeys \notin {None, Broken}
    BY <2>1, FileAssumption
  <2>3. DOMAIN doc.hotkeys \subseteq KnownActions
    BY <1>3, ShownDocument
  <2>4. \A id \in ActionIds \ KnownActions : written.hotkeys[id] = file.hotkeys[id]
    BY <1>2, <1>3, <1>4, <2>1, <2>2, <2>3, SavedIs
  <2>5. \A name \in Members \ (Fields \cup {"telemetryEnabled"}) :
          written.fields[name] = file.fields[name]
    BY <1>2, <1>3, <1>4, <2>1, SavedIs
  <2>6. [id \in ActionIds \ KnownActions |-> written.hotkeys[id]]
          = [id \in ActionIds \ KnownActions |-> file.hotkeys[id]]
    BY <2>4
  <2>7. [name \in Members \ (Fields \cup {"telemetryEnabled"}) |-> written.fields[name]]
          = [name \in Members \ (Fields \cup {"telemetryEnabled"}) |-> file.fields[name]]
    BY <2>5
  <2> QED
    BY <2>6, <2>7 DEF Others
<1>7. DOMAIN doc.hotkeys = KnownActions => Show(Load(written)) = doc
  BY <1>2, <1>3, <1>4, RoundTrip
<1>8. \A id \in DOMAIN doc.hotkeys :
        Load(written).hotkeys[id] = None \/ Load(written).hotkeys[id] \in Shortcuts
  BY <1>2, <1>3, <1>4, SavedShortcut
<1> QED
  BY <1>1, <1>5, <1>6, <1>7, <1>8 DEF FileStates, Keeps, StoredDocument

LEMMA SavedFileIsSaved ==
  ASSUME TypedNow, KnownNow, NEW save \in SavedFile
  PROVE  /\ Saved(save, {"document"})
         /\ \A id \in DOMAIN shown.document.hotkeys :
              \/ Load(save.file).hotkeys[id] = None
              \/ Load(save.file).hotkeys[id] \in Shortcuts
         /\ Load(save.file) # None /\ Load(save.file) \in Documents
<1>1. PICK written :
        /\ written = SaveDocument(EnsureFile(file), shown.document) /\ written # None
        /\ save = Rebase([Now EXCEPT !.file = written, !.outside = @ \ {"document"}],
                         "document")
  BY DEF SavedFile
<1>2. PICK r : r = [Now EXCEPT !.file = written, !.outside = @ \ {"document"}]
  OBVIOUS
<1>3. /\ DOMAIN r = Steps
      /\ r.file = written /\ r.outside = outside \ {"document"}
      /\ r.beta = beta /\ r.crash = crash /\ r.login = login
      /\ r.loaded = loaded /\ r.shown = shown
      /\ r.baseline = baseline /\ r.status = status /\ r.result = TRUE
  BY <1>2, NowIs, StepsAre
<1>4. /\ written \in FileStates /\ Load(written) # None /\ Load(written) \in Documents
      /\ Keeps(written)
      /\ DOMAIN shown.document.hotkeys = KnownActions =>
           StoredDocument(written) = shown.document
      /\ \A id \in DOMAIN shown.document.hotkeys :
           Load(written).hotkeys[id] = None \/ Load(written).hotkeys[id] \in Shortcuts
  BY <1>1, WrittenFile
<1>5. shown \in Snapshots /\ baseline \in Snapshots \cup {None} /\ "document" \in Parts
  BY DEF TypedNow, Typed, Parts
<1>6. /\ DOMAIN save = Steps /\ Alike(save, r)
      /\ r.baseline = None => save.baseline = None
      /\ r.baseline # None =>
           /\ save.baseline \in Snapshots /\ save.baseline # None
           /\ save.baseline["document"] = r.shown["document"]
           /\ \A other \in Parts \ {"document"} : save.baseline[other] = r.baseline[other]
  <2>1. save = Rebase(r, "document")
    BY <1>1, <1>2
  <2>2. r.shown \in Snapshots /\ r.baseline \in Snapshots \cup {None}
    BY <1>3, <1>5
  <2> QED
    BY <1>3, <1>5, <2>1, <2>2, RebaseIs
<1>7. /\ save.file = written /\ save.outside = outside \ {"document"}
      /\ save.beta = beta /\ save.crash = crash /\ save.login = login
      /\ save.loaded = loaded /\ save.shown = shown
      /\ save.status = status /\ save.result = TRUE
  BY <1>3, <1>6 DEF Alike
<1>8. Typed(save.file, save.beta, save.crash, save.login, save.outside, save.loaded,
            save.shown, save.baseline, save.status)
  BY <1>3, <1>4, <1>6, <1>7 DEF TypedNow, Typed
<1>9. Known(save.file, save.beta, save.crash, save.login, save.outside, save.shown,
            save.baseline)
  <2> SUFFICES ASSUME baseline # None
               PROVE  Known(written, beta, crash, login, outside \ {"document"}, shown,
                            save.baseline)
    BY <1>3, <1>6, <1>7 DEF Known
  <2>1. DOMAIN shown.document.hotkeys = KnownActions
    BY DEF KnownNow, Known
  <2>2. /\ save.baseline.document = StoredDocument(written)
        /\ save.baseline.beta = baseline.beta /\ save.baseline.crash = baseline.crash
        /\ save.baseline.login = baseline.login
    BY <1>3, <1>4, <1>6, <2>1 DEF Parts
  <2> QED
    BY <2>1, <2>2 DEF KnownNow, Known
<1>10. Underway(save)
  BY <1>3, <1>4, <1>6, <1>7, <1>8, <1>9 DEF Underway
<1>11. Saved(save, {"document"})
  BY <1>3, <1>6, <1>7, <1>10 DEF Saved
<1> QED
  BY <1>4, <1>7, <1>11

-----------------------------------------------------------------------------
(* A save whose document is written and applied.                           *)
AppliedSave(save, parts) ==
  Saved(save, parts) /\ Applied(save.file, save.loaded, save.shown)

LEMMA SettingsApplied ==
  ASSUME TypedNow, KnownNow, NEW save \in SavedFile
  PROVE  AppliedSave(ApplySettings(save), {"document"})
<1>1. /\ Saved(save, {"document"}) /\ DOMAIN save = Steps
      /\ \A id \in DOMAIN shown.document.hotkeys :
           \/ Load(save.file).hotkeys[id] = None
           \/ Load(save.file).hotkeys[id] \in Shortcuts
      /\ Load(save.file) # None /\ Load(save.file) \in Documents
  BY SavedFileIsSaved DEF Saved, Underway
<1>2. PICK doc : doc = Load(save.file)
  OBVIOUS
<1>3. PICK s : s = ApplySettings(save)
  OBVIOUS
<1>4. /\ DOMAIN s = Steps
      /\ s.file = save.file /\ s.beta = save.beta /\ s.crash = save.crash
      /\ s.login = save.login /\ s.outside = save.outside /\ s.shown = save.shown
      /\ s.baseline = save.baseline /\ s.status = save.status /\ s.result = save.result
      /\ s.loaded = doc
  <2>1. \/ s = [save EXCEPT !.loaded = doc]
        \/ s = [save EXCEPT !.loaded = doc, !.suspended = FALSE, !.restarted = TRUE]
    BY <1>2, <1>3 DEF ApplySettings
  <2> QED
    BY <1>1, <2>1, StepsAre
<1>5. Underway(s)
  BY <1>1, <1>2, <1>4 DEF Saved, Underway, Typed
<1>6. Saved(s, {"document"})
  BY <1>1, <1>4, <1>5 DEF Saved
<1>7. Applied(s.file, s.loaded, s.shown)
  BY <1>1, <1>2, <1>4 DEF Applied, Saved
<1> QED
  BY <1>3, <1>6, <1>7 DEF AppliedSave

(* One of the switches outside the document is recorded, and the baseline  *)
(* with it.                                                                *)
LEMMA RecordedPart ==
  ASSUME NEW parts \in SUBSET Parts, NEW s, AppliedSave(s, parts), NEW part \in {"beta", "crash"},
         NEW r, DOMAIN r = Steps,
         r.file = s.file, r.login = s.login, r.outside = s.outside, r.loaded = s.loaded,
         r.shown = s.shown, r.baseline = s.baseline, r.status = s.status,
         r.result = s.result, r.beta \in BOOLEAN, r.crash \in Choices,
         r.beta = IF part = "beta" THEN s.shown.beta ELSE s.beta,
         (r.crash = "on") = IF part = "crash" THEN s.shown.crash ELSE s.crash = "on",
         NEW done, done = Rebase(r, part)
  PROVE  AppliedSave(done, parts \cup {part})
<1>1. /\ s.shown \in Snapshots /\ s.baseline \in Snapshots \cup {None} /\ s.shown = shown
      /\ part \in Parts /\ s.result = TRUE
  BY DEF AppliedSave, Saved, Underway, Typed, Parts
<1>2. /\ r.shown \in Snapshots /\ r.baseline \in Snapshots \cup {None}
  BY <1>1
<1>3. /\ DOMAIN done = Steps /\ Alike(done, r)
      /\ r.baseline = None => done.baseline = None
      /\ r.baseline # None =>
           /\ done.baseline \in Snapshots /\ done.baseline # None
           /\ done.baseline[part] = r.shown[part]
           /\ \A other \in Parts \ {part} : done.baseline[other] = r.baseline[other]
  BY <1>1, <1>2, RebaseIs
<1>4. /\ done.file = s.file /\ done.login = s.login /\ done.outside = s.outside
      /\ done.loaded = s.loaded /\ done.shown = s.shown /\ done.status = s.status
      /\ done.result = TRUE /\ done.beta = r.beta /\ done.crash = r.crash
  BY <1>1, <1>3 DEF Alike
<1>5. Typed(done.file, done.beta, done.crash, done.login, done.outside, done.loaded,
            done.shown, done.baseline, done.status)
  BY <1>3, <1>4 DEF AppliedSave, Saved, Underway, Typed
<1>6. Known(done.file, done.beta, done.crash, done.login, done.outside, done.shown,
            done.baseline)
  <2> SUFFICES ASSUME done.baseline # None
               PROVE  Known(s.file, r.beta, r.crash, s.login, s.outside, s.shown,
                            done.baseline)
    BY <1>4 DEF Known
  <2>1. s.baseline # None
    BY <1>3
  <2>2. /\ DOMAIN s.shown.document.hotkeys = KnownActions
        /\ "document" \notin s.outside => s.baseline.document = StoredDocument(s.file)
        /\ s.baseline.beta = s.beta
        /\ s.baseline.crash = (s.crash = "on")
        /\ "login" \notin s.outside => s.baseline.login = Registered(s.login)
    BY <2>1 DEF AppliedSave, Saved, Underway, Known
  <2>3. /\ done.baseline.document = s.baseline.document
        /\ done.baseline.login = s.baseline.login
        /\ done.baseline.beta = IF part = "beta" THEN s.shown.beta ELSE s.baseline.beta
        /\ done.baseline.crash = IF part = "crash" THEN s.shown.crash ELSE s.baseline.crash
    BY <1>3, <2>1 DEF Parts
  <2>4. done.baseline.beta = r.beta /\ done.baseline.crash = (r.crash = "on")
    BY <2>2, <2>3
  <2> QED
    BY <2>2, <2>3, <2>4 DEF Known
<1>7. Underway(done)
  BY <1>3, <1>4, <1>5, <1>6 DEF AppliedSave, Saved, Underway
<1>8. done.baseline # None => \A p \in parts \cup {part} : done.baseline[p] = shown[p]
  <2> SUFFICES ASSUME done.baseline # None, NEW p \in parts \cup {part}
               PROVE  done.baseline[p] = shown[p]
    OBVIOUS
  <2>1. s.baseline # None
    BY <1>3
  <2>2. p \in parts => s.baseline[p] = shown[p]
    BY <2>1 DEF AppliedSave, Saved
  <2>3. CASE p = part
    BY <1>1, <1>3, <2>1, <2>3
  <2>4. CASE p # part
    BY <1>3, <2>1, <2>2, <2>4
  <2> QED
    BY <2>3, <2>4
<1>9. Saved(done, parts \cup {part})
  BY <1>1, <1>4, <1>7, <1>8 DEF Saved
<1> QED
  BY <1>4, <1>9 DEF AppliedSave

LEMMA BetaRecorded ==
  ASSUME NEW parts \in SUBSET Parts, NEW s, AppliedSave(s, parts)
  PROVE  AppliedSave(SaveBetaUpdates(s), parts \cup {"beta"})
<1>1. PICK r, done : /\ r = [s EXCEPT !.beta = s.shown.beta]
                     /\ done = Rebase(r, "beta")
  OBVIOUS
<1>2. DOMAIN s = Steps /\ s.shown.beta \in BOOLEAN /\ s.crash \in Choices
  BY PartsAre DEF AppliedSave, Saved, Underway, Typed
<1>3. /\ DOMAIN r = Steps
      /\ r.file = s.file /\ r.login = s.login /\ r.outside = s.outside
      /\ r.loaded = s.loaded /\ r.shown = s.shown /\ r.baseline = s.baseline
      /\ r.status = s.status /\ r.result = s.result
      /\ r.beta = s.shown.beta /\ r.crash = s.crash
  BY <1>1, <1>2, StepsAre
<1>4. AppliedSave(done, parts \cup {"beta"})
  BY <1>1, <1>2, <1>3, RecordedPart
<1> QED
  BY <1>1, <1>4 DEF SaveBetaUpdates

LEMMA CrashRecorded ==
  ASSUME NEW parts \in SUBSET Parts, NEW s, AppliedSave(s, parts)
  PROVE  AppliedSave(SaveCrashReporting(s), parts \cup {"crash"})
<1>1. /\ DOMAIN s = Steps /\ s.shown.crash \in BOOLEAN /\ s.crash \in Choices
      /\ s.beta \in BOOLEAN
  BY PartsAre DEF AppliedSave, Saved, Underway, Typed
<1>2. PICK enabled \in BOOLEAN : enabled = s.shown.crash
  BY <1>1
<1>3. PICK changed \in BOOLEAN :
        changed = (s.crash = "unset" \/ enabled # (s.crash = "on"))
  OBVIOUS
<1>4. PICK r, done :
        /\ r = [s EXCEPT !.crash     = IF changed THEN IF enabled THEN "on" ELSE "off" ELSE @,
                         !.reporting = IF changed THEN SHStartOrStop(enabled, @) ELSE @]
        /\ done = Rebase(r, "crash")
  OBVIOUS
<1>5. SaveCrashReporting(s) = done
  BY <1>2, <1>3, <1>4 DEF SaveCrashReporting
<1>6. /\ DOMAIN r = Steps
      /\ r.file = s.file /\ r.login = s.login /\ r.outside = s.outside
      /\ r.loaded = s.loaded /\ r.shown = s.shown /\ r.baseline = s.baseline
      /\ r.status = s.status /\ r.result = s.result /\ r.beta = s.beta
      /\ r.crash = IF changed THEN IF enabled THEN "on" ELSE "off" ELSE s.crash
  BY <1>1, <1>4, StepsAre
<1>7. r.crash \in Choices /\ ((r.crash = "on") = enabled)
  BY <1>1, <1>3, <1>6 DEF Choices
<1>8. AppliedSave(done, parts \cup {"crash"})
  <2>1. done = Rebase(r, "crash")
    BY <1>4
  <2>2. r.crash \in Choices /\ r.beta = s.beta /\ r.beta \in BOOLEAN
    BY <1>1, <1>6, <1>7
  <2>3. (r.crash = "on") = s.shown.crash
    BY <1>2, <1>7
  <2> QED
    BY <1>6, <2>1, <2>2, <2>3, RecordedPart
<1> QED
  BY <1>5, <1>8

(* What a save ends with.  One that succeeds leaves nothing unsaved.       *)
Outcome(save) ==
  /\ Underway(save)
  /\ Live(save.file, save.outside, save.loaded, save.shown, save.status)
  /\ \A part \in Parts \ {"login"} : save.shown[part] = shown[part]
  /\ save.shown["login"] # shown["login"] => save.status # ""
  /\ save.result =>
       save.shown = shown /\ (save.baseline # None => save.baseline = save.shown)

LEMMA FailsIs ==
  ASSUME NEW r, DOMAIN r = Steps, NEW s, s = Fails(r)
  PROVE  /\ DOMAIN s = Steps
         /\ s.file = r.file /\ s.beta = r.beta /\ s.crash = r.crash /\ s.login = r.login
         /\ s.outside = r.outside /\ s.loaded = r.loaded /\ s.shown = r.shown
         /\ s.baseline = r.baseline /\ s.status = r.status /\ s.result = FALSE
BY StepsAre DEF Fails

LEMMA NotSavedOutcome ==
  ASSUME TypedNow, KnownNow, LiveNow, NEW save \in NotSaved
  PROVE  Outcome(save)
<1>1. PICK created, r :
        created \in {file, EnsureFile(file)} /\ r = [Now EXCEPT !.file = created] /\ save = Fails(r)
  BY DEF NotSaved
<1>2. /\ DOMAIN r = Steps
      /\ r.file = created /\ r.beta = beta /\ r.crash = crash /\ r.login = login
      /\ r.outside = outside /\ r.loaded = loaded /\ r.shown = shown
      /\ r.baseline = baseline /\ r.status = status
  BY <1>1, NowIs, StepsAre
<1>3. /\ DOMAIN save = Steps
      /\ save.file = created /\ save.beta = beta /\ save.crash = crash /\ save.login = login
      /\ save.outside = outside /\ save.loaded = loaded /\ save.shown = shown
      /\ save.baseline = baseline /\ save.status = status /\ save.result = FALSE
  <2>1. save = Fails(r)
    BY <1>1
  <2> QED
    BY <1>2, <2>1, FailsIs
<1>4. created \in FileStates /\ (Load(file) # None => created = file)
  BY <1>1, EnsuredFile DEF TypedNow, Typed
<1>5. Typed(created, beta, crash, login, outside, loaded, shown, baseline, status)
  BY <1>4 DEF TypedNow, Typed
<1>6. Known(created, beta, crash, login, outside, shown, baseline)
  <2>1. ASSUME baseline # None, "document" \notin outside PROVE created = file
    <3>1. baseline.document \in ShownDocuments /\ baseline.document = StoredDocument(file)
      BY <2>1, PartsAre DEF TypedNow, Typed, KnownNow, Known
    <3>2. Load(file) # None
      BY <3>1, WindowAssumption DEF StoredDocument
    <3> QED
      BY <1>4, <3>2
  <2> QED
    BY <2>1 DEF KnownNow, Known
<1>7. Live(created, outside, loaded, shown, status)
  <2>1. ASSUME status = "saved", "document" \notin outside PROVE created = file
    BY <1>4, <2>1 DEF LiveNow, Live, Applied
  <2> QED
    BY <2>1 DEF LiveNow, Live
<1>8. Keeps(created)
  BY <1>4 DEF Keeps
<1>9. Underway(save)
  BY <1>3, <1>5, <1>6, <1>8 DEF Underway
<1> QED
  BY <1>3, <1>7, <1>9 DEF Outcome

LEMMA NotAppliedOutcome ==
  ASSUME TypedNow, KnownNow, NEW s \in SavedFile, NEW save, save = NotApplied(s)
  PROVE  Outcome(save)
<1>1. Saved(s, {"document"}) /\ Underway(s) /\ DOMAIN s = Steps /\ s.shown = shown
  BY SavedFileIsSaved DEF Saved, Underway
<1>2. PICK r : r = [s EXCEPT !.status = "saved, not applied"] /\ save = Fails(r)
  BY DEF NotApplied
<1>3. /\ DOMAIN r = Steps
      /\ r.file = s.file /\ r.beta = s.beta /\ r.crash = s.crash /\ r.login = s.login
      /\ r.outside = s.outside /\ r.loaded = s.loaded /\ r.shown = s.shown
      /\ r.baseline = s.baseline /\ r.status = "saved, not applied"
  <2>1. DOMAIN s = Steps /\ r = [s EXCEPT !.status = "saved, not applied"]
    BY <1>1, <1>2
  <2> QED
    BY <2>1, StepsAre
<1>4. /\ DOMAIN save = Steps
      /\ save.file = s.file /\ save.beta = s.beta /\ save.crash = s.crash
      /\ save.login = s.login /\ save.outside = s.outside /\ save.loaded = s.loaded
      /\ save.shown = s.shown /\ save.baseline = s.baseline
      /\ save.status = "saved, not applied" /\ save.result = FALSE
  <2>1. save = Fails(r)
    BY <1>2
  <2> QED
    BY <1>3, <2>1, FailsIs
<1>5. Underway(save)
  BY <1>1, <1>4 DEF Underway, Typed, Statuses
<1>6. Live(save.file, save.outside, save.loaded, save.shown, save.status)
  BY <1>4 DEF Live
<1> QED
  BY <1>1, <1>4, <1>5, <1>6 DEF Outcome

LEMMA SetEnabledIs ==
  ASSUME NEW enabled, NEW before \in LoginStates, NEW after \in SetEnabled(enabled, before)
  PROVE  after \in LoginStates
BY DEF SetEnabled, LoginStates

(* The login item last.  The switch shows what the system did.             *)
LoginTold(s, after) ==
  [s EXCEPT !.login = after, !.outside = @ \ {"login"}, !.shown.login = Registered(after)]

LEMMA LoginRecorded ==
  ASSUME NEW s, AppliedSave(s, {"document", "beta", "crash"}),
         NEW after \in SetEnabled(s.shown.login, s.login),
         NEW done, done = Rebase(LoginTold(s, after), "login")
  PROVE  /\ Underway(done)
         /\ Applied(done.file, done.loaded, done.shown)
         /\ \A part \in Parts \ {"login"} : done.shown[part] = shown[part]
         /\ s.shown.login = Registered(after) =>
              done.shown = shown /\ (done.baseline # None => done.baseline = done.shown)
<1>1. /\ DOMAIN s = Steps /\ s.shown = shown /\ s.shown \in Snapshots
      /\ s.baseline \in Snapshots \cup {None} /\ after \in LoginStates
      /\ s.outside \in SUBSET Parts /\ "login" \in Parts
  BY SetEnabledIs DEF AppliedSave, Saved, Underway, Typed, Parts
<1>2. PICK now, rest, r :
        /\ now = [s.shown EXCEPT !.login = Registered(after)]
        /\ rest = s.outside \ {"login"}
        /\ r = [s EXCEPT !.login = after, !.outside = rest, !.shown = now]
  OBVIOUS
<1>3. done = Rebase(r, "login")
  <2>1. PICK s1 : s1 = [s EXCEPT !.login = after, !.outside = rest]
    OBVIOUS
  <2>2. DOMAIN s1 = Steps /\ s1.shown = s.shown
    BY <1>1, <2>1, StepsAre
  <2>3. [s EXCEPT !.login = after, !.outside = @ \ {"login"},
                  !.shown.login = Registered(after)]
          = [s1 EXCEPT !["shown"] = now]
    BY <1>1, <1>2, <2>1, <2>2, StepsAre
  <2>4. r = [s1 EXCEPT !["shown"] = now]
    BY <1>2, <2>1
  <2>5. LoginTold(s, after) = r
    BY <2>3, <2>4 DEF LoginTold
  <2> QED
    BY <2>5
<1>4. /\ DOMAIN r = Steps
      /\ r.file = s.file /\ r.beta = s.beta /\ r.crash = s.crash /\ r.login = after
      /\ r.outside = rest /\ r.loaded = s.loaded /\ r.shown = now
      /\ r.baseline = s.baseline /\ r.status = s.status
  BY <1>1, <1>2, StepsAre
<1>5. /\ Registered(after) \in BOOLEAN /\ DOMAIN s.shown = Parts
      /\ \A part \in Parts \ {"login"} : now[part] = s.shown[part]
      /\ now.login = Registered(after)
      /\ now = [document |-> s.shown.document, beta |-> s.shown.beta, crash |-> s.shown.crash,
                login |-> Registered(after)]
  <2>1. Registered(after) \in BOOLEAN /\ DOMAIN s.shown = Parts
    BY <1>1, PartsAre DEF Registered
  <2>2. /\ \A part \in Parts \ {"login"} : now[part] = s.shown[part]
        /\ now.login = Registered(after) /\ DOMAIN now = Parts
    BY <1>1, <1>2, <2>1
  <2>3. now = [part \in Parts |-> now[part]]
    BY <1>2, <2>1, <2>2
  <2> QED
    BY <2>1, <2>2, <2>3 DEF Parts
<1>6. now \in Snapshots /\ now.document = s.shown.document
  <2>1. /\ s.shown.document \in ShownDocuments /\ s.shown.beta \in BOOLEAN
        /\ s.shown.crash \in BOOLEAN
    BY <1>1, PartsAre
  <2> QED
    BY <1>5, <2>1 DEF Snapshots
<1>7. r.shown \in Snapshots /\ r.baseline \in Snapshots \cup {None}
  BY <1>1, <1>4, <1>6
<1>8. /\ DOMAIN done = Steps /\ Alike(done, r)
      /\ r.baseline = None => done.baseline = None
      /\ r.baseline # None =>
           /\ done.baseline \in Snapshots /\ done.baseline # None
           /\ done.baseline["login"] = r.shown["login"]
           /\ \A other \in Parts \ {"login"} : done.baseline[other] = r.baseline[other]
  BY <1>1, <1>3, <1>4, <1>7, RebaseIs
<1>9. /\ done.file = s.file /\ done.beta = s.beta /\ done.crash = s.crash
      /\ done.login = after /\ done.outside = rest /\ done.loaded = s.loaded
      /\ done.shown = now /\ done.status = s.status
  BY <1>4, <1>8 DEF Alike
<1>10. Typed(done.file, done.beta, done.crash, done.login, done.outside, done.loaded,
             done.shown, done.baseline, done.status)
  <2>1. done.baseline \in Snapshots \cup {None} /\ rest \in SUBSET Parts
    BY <1>1, <1>2, <1>4, <1>8
  <2> QED
    BY <1>1, <1>6, <1>9, <2>1 DEF AppliedSave, Saved, Underway, Typed
<1>11. Known(done.file, done.beta, done.crash, done.login, done.outside, done.shown,
             done.baseline)
  <2> SUFFICES ASSUME done.baseline # None
               PROVE  Known(s.file, s.beta, s.crash, after, rest, now, done.baseline)
    BY <1>9 DEF Known
  <2>1. s.baseline # None
    BY <1>4, <1>8
  <2>2. /\ DOMAIN s.shown.document.hotkeys = KnownActions
        /\ "document" \notin s.outside => s.baseline.document = StoredDocument(s.file)
        /\ s.baseline.beta = s.beta
        /\ s.baseline.crash = (s.crash = "on")
    BY <2>1 DEF AppliedSave, Saved, Underway, Known
  <2>3. /\ done.baseline.document = s.baseline.document
        /\ done.baseline.login = Registered(after)
        /\ done.baseline.beta = s.baseline.beta
        /\ done.baseline.crash = s.baseline.crash
    BY <1>4, <1>5, <1>8, <2>1 DEF Parts
  <2>4. "document" \notin rest => "document" \notin s.outside
    BY <1>2
  <2> QED
    BY <1>6, <2>2, <2>3, <2>4 DEF Known
<1>12. Underway(done)
  <2>1. rest \subseteq outside /\ (done.baseline = None <=> baseline = None) /\ Keeps(s.file)
    BY <1>2, <1>4, <1>8 DEF AppliedSave, Saved, Underway
  <2> QED
    BY <1>8, <1>9, <1>10, <1>11, <2>1 DEF Underway
<1>13. Applied(done.file, done.loaded, done.shown)
  BY <1>6, <1>9 DEF AppliedSave, Applied
<1>14. \A part \in Parts \ {"login"} : done.shown[part] = shown[part]
  BY <1>1, <1>5, <1>9
<1>15. ASSUME s.shown.login = Registered(after)
       PROVE  done.shown = shown /\ (done.baseline # None => done.baseline = done.shown)
  <2>1. now = s.shown
    <3>1. /\ s.shown = [document |-> s.shown.document, beta |-> s.shown.beta,
                        crash |-> s.shown.crash, login |-> s.shown.login]
      BY <1>1, PartsAre
    <3> QED
      BY <1>5, <1>15, <3>1
  <2>2. ASSUME done.baseline # None PROVE done.baseline = shown
    <3>1. s.baseline # None /\ done.baseline \in Snapshots
      BY <1>4, <1>8, <2>2
    <3>2. \A part \in {"document", "beta", "crash"} : s.baseline[part] = shown[part]
      BY <3>1 DEF AppliedSave, Saved
    <3>3. \A part \in Parts : done.baseline[part] = shown[part]
      BY <1>1, <1>4, <1>8, <2>1, <3>1, <3>2 DEF Parts
    <3> QED
      BY <1>1, <3>1, <3>3, PartsAre DEF Parts
  <2> QED
    BY <1>1, <1>9, <2>1, <2>2
<1> QED
  BY <1>12, <1>13, <1>14, <1>15

LEMMA FinishedOutcome ==
  ASSUME NEW s, AppliedSave(s, {"document", "beta", "crash"}), NEW save \in SaveLoginItem(s)
  PROVE  Outcome(save)
<1>1. PICK after, done :
        /\ after \in SetEnabled(s.shown.login, s.login)
        /\ done = Rebase(LoginTold(s, after), "login")
        /\ save = CASE s.shown.login /\ after = "RequiresApproval" ->
                         Fails([done EXCEPT !.status = "saved, approve"])
                    [] s.shown.login # Registered(after) ->
                         Fails([done EXCEPT !.status = "saved, not at login"])
                    [] OTHER -> [done EXCEPT !.status = "saved"]
  BY DEF SaveLoginItem, LoginTold
<1>2. /\ Underway(done) /\ Applied(done.file, done.loaded, done.shown)
      /\ DOMAIN done = Steps
      /\ \A part \in Parts \ {"login"} : done.shown[part] = shown[part]
      /\ s.shown.login = Registered(after) =>
           done.shown = shown /\ (done.baseline # None => done.baseline = done.shown)
  <2>1. /\ after \in SetEnabled(s.shown.login, s.login)
        /\ done = Rebase(LoginTold(s, after), "login")
    BY <1>1
  <2>2. /\ Underway(done) /\ Applied(done.file, done.loaded, done.shown)
        /\ \A part \in Parts \ {"login"} : done.shown[part] = shown[part]
        /\ s.shown.login = Registered(after) =>
             done.shown = shown /\ (done.baseline # None => done.baseline = done.shown)
    BY <2>1, LoginRecorded
  <2>3. DOMAIN done = Steps
    BY <2>2 DEF Underway
  <2> QED
    BY <2>2, <2>3
<1>3. ASSUME NEW text \in Statuses \ {"", "saved"}, save = Fails([done EXCEPT !.status = text])
      PROVE  Outcome(save)
  <2>1. PICK r : r = [done EXCEPT !.status = text]
    OBVIOUS
  <2>2. DOMAIN done = Steps
    BY <1>2
  <2>3. /\ DOMAIN r = Steps
        /\ r.file = done.file /\ r.beta = done.beta /\ r.crash = done.crash
        /\ r.login = done.login /\ r.outside = done.outside /\ r.loaded = done.loaded
        /\ r.shown = done.shown /\ r.baseline = done.baseline /\ r.status = text
    BY <2>1, <2>2, StepsAre
  <2>4. save = Fails(r)
    BY <1>3, <2>1
  <2>5. /\ DOMAIN save = Steps
        /\ save.file = done.file /\ save.beta = done.beta /\ save.crash = done.crash
        /\ save.login = done.login /\ save.outside = done.outside
        /\ save.loaded = done.loaded /\ save.shown = done.shown
        /\ save.baseline = done.baseline /\ save.status = text /\ save.result = FALSE
    BY <2>3, <2>4, FailsIs
  <2>6. Underway(save)
    BY <1>2, <2>5 DEF Underway, Typed
  <2>7. Live(save.file, save.outside, save.loaded, save.shown, save.status)
    BY <2>5 DEF Live
  <2> QED
    BY <1>2, <2>5, <2>6, <2>7 DEF Outcome
<1>4. ASSUME s.shown.login = Registered(after), save = [done EXCEPT !.status = "saved"]
      PROVE  Outcome(save)
  <2>1. DOMAIN done = Steps
    BY <1>2
  <2>2. /\ DOMAIN save = Steps
        /\ save.file = done.file /\ save.beta = done.beta /\ save.crash = done.crash
        /\ save.login = done.login /\ save.outside = done.outside
        /\ save.loaded = done.loaded /\ save.shown = done.shown
        /\ save.baseline = done.baseline /\ save.status = "saved"
    BY <1>4, <2>1, StepsAre
  <2>3. Underway(save)
    BY <1>2, <2>2 DEF Underway, Typed, Statuses
  <2>4. Live(save.file, save.outside, save.loaded, save.shown, save.status)
    BY <1>2, <2>2 DEF Live
  <2> QED
    BY <1>2, <1>4, <2>2, <2>3, <2>4 DEF Outcome
<1>5. \/ save = Fails([done EXCEPT !.status = "saved, approve"])
      \/ save = Fails([done EXCEPT !.status = "saved, not at login"])
      \/ s.shown.login = Registered(after) /\ save = [done EXCEPT !.status = "saved"]
  <2>1. PICK wanted \in BOOLEAN, is \in BOOLEAN :
          wanted = s.shown.login /\ is = Registered(after)
    <3>1. s.shown.login \in BOOLEAN
      BY PartsAre DEF AppliedSave, Saved, Underway, Typed
    <3>2. Registered(after) \in BOOLEAN
      BY DEF Registered
    <3> QED
      BY <3>1, <3>2
  <2>2. PICK approve, failed, good :
          /\ approve = Fails([done EXCEPT !.status = "saved, approve"])
          /\ failed = Fails([done EXCEPT !.status = "saved, not at login"])
          /\ good = [done EXCEPT !.status = "saved"]
    OBVIOUS
  <2>3. save = CASE wanted /\ after = "RequiresApproval" -> approve
                 [] wanted # is -> failed
                 [] OTHER -> good
    BY <1>1, <2>1, <2>2
  <2>4. after = "RequiresApproval" => is
    BY <2>1 DEF Registered
  <2>5. save = approve \/ save = failed \/ (wanted = is /\ save = good)
    BY <2>3, <2>4
  <2> QED
    BY <2>1, <2>2, <2>5
<1> QED
  BY <1>3, <1>4, <1>5 DEF Statuses

LEMMA PerformSaveOutcome ==
  ASSUME TypedNow, KnownNow, LiveNow, NEW save \in PerformSave
  PROVE  Outcome(save)
<1>1. CASE save \in NotSaved
  BY <1>1, NotSavedOutcome
<1>2. CASE save \in {NotApplied(s) : s \in SavedFile}
  BY <1>2, NotAppliedOutcome
<1>3. CASE \E s \in SavedFile :
             save \in SaveLoginItem(SaveCrashReporting(SaveBetaUpdates(ApplySettings(s))))
  <2>1. PICK s \in SavedFile :
          save \in SaveLoginItem(SaveCrashReporting(SaveBetaUpdates(ApplySettings(s))))
    BY <1>3
  <2>2. PICK applied : /\ applied = ApplySettings(s)
                       /\ AppliedSave(applied, {"document"})
    BY SettingsApplied
  <2>3. PICK b : b = SaveBetaUpdates(applied) /\ AppliedSave(b, {"document"} \cup {"beta"})
    BY <2>2, BetaRecorded DEF Parts
  <2>4. PICK c : /\ c = SaveCrashReporting(b)
                 /\ AppliedSave(c, ({"document"} \cup {"beta"}) \cup {"crash"})
    BY <2>3, CrashRecorded DEF Parts
  <2>5. ({"document"} \cup {"beta"}) \cup {"crash"} = {"document", "beta", "crash"}
    OBVIOUS
  <2>6. AppliedSave(c, {"document", "beta", "crash"})
    BY <2>4, <2>5
  <2>7. save \in SaveLoginItem(c)
    BY <2>1, <2>2, <2>3, <2>4
  <2> QED
    BY <2>6, <2>7, FinishedOutcome
<1> QED
  BY <1>1, <1>2, <1>3 DEF PerformSave

LEMMA NowOutcome ==
  ASSUME TypedNow, KnownNow, LiveNow
  PROVE  /\ Underway(Now)
         /\ Live(Now.file, Now.outside, Now.loaded, Now.shown, Now.status)
         /\ Now.shown = shown
BY NowUnderway, NowIs DEF Saved, LiveNow

-----------------------------------------------------------------------------
(***************************************************************************)
(* The invariant of what is shown and stored.                              *)
(***************************************************************************)
FooterTells == footer = "dirty" <=> HasUnsavedChanges

Content ==
  /\ TypedNow
  /\ KnownNow
  /\ LiveNow
  /\ FooterTells
  /\ app = "gone" => baseline = None

contents == <<file, beta, crash, login, outside, loaded, shown, baseline, status, footer>>

LEMMA SameContent ==
  ASSUME Content, UNCHANGED contents, app' = "gone" => app = "gone"
  PROVE  Content'
<1>1. UNCHANGED <<file, beta, crash, login, outside, loaded, shown, baseline, status, footer>>
  BY DEF contents
<1>2. TypedNow' /\ KnownNow' /\ LiveNow'
  BY <1>1 DEF Content, TypedNow, KnownNow, LiveNow
<1>3. FooterTells'
  BY <1>1 DEF Content, FooterTells, HasUnsavedChanges
<1> QED
  BY <1>1, <1>2, <1>3 DEF Content

LEMMA FooterIs ==
  ASSUME RefreshUnsavedState(shown', baseline')
  PROVE  FooterTells'
BY DEF RefreshUnsavedState, FooterTells, HasUnsavedChanges

(* A handler that saves, or keeps all as it is, and closes the window or   *)
(* leaves it open.                                                         *)
LEMMA SavesContent ==
  ASSUME NEW save, Underway(save),
         Live(save.file, save.outside, save.loaded, save.shown, save.status),
         Saves(save), Stays(save) \/ Closes(save), app' # "gone"
  PROVE  Content'
<1>1. /\ file' = save.file /\ beta' = save.beta /\ crash' = save.crash
      /\ login' = save.login /\ outside' = save.outside /\ loaded' = save.loaded
      /\ shown' = save.shown /\ status' = save.status
  BY DEF Saves
<1>2. baseline' \in {save.baseline, None} /\ RefreshUnsavedState(shown', baseline')
  BY <1>1 DEF Stays, Closes
<1>3. Typed(file', beta', crash', login', outside', loaded', shown', baseline', status')
  BY <1>1, <1>2 DEF Underway, Typed
<1>4. Known(file', beta', crash', login', outside', shown', baseline')
  <2>1. CASE baseline' = save.baseline
    BY <1>1, <2>1 DEF Underway
  <2>2. CASE baseline' = None
    BY <2>2 DEF Known
  <2> QED
    BY <1>2, <2>1, <2>2
<1>5. Live(file', outside', loaded', shown', status')
  BY <1>1
<1>6. FooterTells'
  BY <1>2, FooterIs
<1> QED
  BY <1>3, <1>4, <1>5, <1>6 DEF Content, TypedNow, KnownNow, LiveNow

(* The user changes a control.                                             *)
LEMMA EditsContent ==
  ASSUME Content, NEW now \in Snapshots, shown' = now,
         TrayShown(now.document.switches),
         DOMAIN now.document.hotkeys = DOMAIN shown.document.hotkeys,
         RefreshUnsavedState(shown', baseline),
         UNCHANGED <<file, beta, crash, login, outside, loaded, baseline, status, app>>
  PROVE  Content'
<1>1. TypedNow'
  BY DEF Content, TypedNow, Typed
<1>2. KnownNow'
  BY DEF Content, KnownNow, Known
<1>3. LiveNow'
  BY DEF Content, LiveNow, Live, Applied
<1>4. FooterTells'
  BY FooterIs
<1> QED
  BY <1>1, <1>2, <1>3, <1>4 DEF Content

LEMMA LoadFailsContent ==
  ASSUME Content, LoadFails, UNCHANGED app
  PROVE  Content'
<1>1. /\ file' \in {file, EnsureFile(file)}
      /\ UNCHANGED <<beta, crash, login, outside, loaded, shown, baseline, status, footer>>
  BY DEF LoadFails, runtime, controls
<1>2. file' \in FileStates /\ (Load(file) # None => file' = file)
  BY <1>1, EnsuredFile DEF Content, TypedNow, Typed
<1>3. TypedNow'
  BY <1>1, <1>2 DEF Content, TypedNow, Typed
<1>4. KnownNow'
  <2>1. ASSUME baseline # None, "document" \notin outside PROVE file' = file
    <3>1. baseline.document \in ShownDocuments /\ baseline.document = StoredDocument(file)
      BY <2>1, PartsAre DEF Content, TypedNow, Typed, KnownNow, Known
    <3>2. Load(file) # None
      BY <3>1, WindowAssumption DEF StoredDocument
    <3> QED
      BY <1>2, <3>2
  <2> QED
    BY <1>1, <2>1 DEF Content, KnownNow, Known
<1>5. LiveNow'
  <2>1. ASSUME status = "saved", "document" \notin outside PROVE file' = file
    BY <1>2, <2>1 DEF Content, LiveNow, Live, Applied
  <2> QED
    BY <1>1, <2>1 DEF Content, LiveNow, Live
<1>6. FooterTells'
  BY <1>1 DEF Content, FooterTells, HasUnsavedChanges
<1> QED
  BY <1>1, <1>3, <1>4, <1>5, <1>6 DEF Content

LEMMA StoredIs ==
  ASSUME NEW f, NEW b \in BOOLEAN, NEW c, NEW l, Load(f) \in Documents, Load(f) # None,
         NEW s, s = [document |-> StoredDocument(f), beta |-> b, crash |-> c = "on",
                     login |-> Registered(l)]
  PROVE  /\ s \in Snapshots /\ s.document = StoredDocument(f)
         /\ DOMAIN s.document.hotkeys = KnownActions /\ TrayShown(s.document.switches)
<1>1. /\ StoredDocument(f) \in ShownDocuments
      /\ DOMAIN StoredDocument(f).hotkeys = KnownActions
      /\ TrayShown(StoredDocument(f).switches)
  BY ShownIs DEF StoredDocument
<1>2. (c = "on") \in BOOLEAN /\ Registered(l) \in BOOLEAN
  BY DEF Registered
<1>3. PICK doc, x, y :
        /\ doc = StoredDocument(f) /\ x = (c = "on") /\ y = Registered(l)
        /\ x \in BOOLEAN /\ y \in BOOLEAN
  BY <1>2
<1>4. s = [document |-> doc, beta |-> b, crash |-> x, login |-> y]
  BY <1>3
<1>5. s \in Snapshots /\ s.document = doc
  BY <1>1, <1>3, <1>4 DEF Snapshots
<1> QED
  BY <1>1, <1>3, <1>5

LEMMA LoadSucceedsContent ==
  ASSUME Content, LoadSucceeds, app' # "gone"
  PROVE  Content'
<1>1. /\ file' = EnsureFile(file) /\ Load(file') # None
      /\ UNCHANGED <<beta, crash, login, loaded>>
      /\ shown' = Stored' /\ baseline' = shown' /\ status' = "" /\ outside' = {}
      /\ RefreshUnsavedState(shown', baseline')
  BY DEF LoadSucceeds
<1>2. file' \in FileStates
  BY <1>1, EnsuredFile DEF Content, TypedNow, Typed
<1>3. PICK f, b, c, l : f = file' /\ b = beta' /\ c = crash' /\ l = login'
  OBVIOUS
<1>4. PICK now : now = shown'
  OBVIOUS
<1>5. now = [document |-> StoredDocument(f), beta |-> b, crash |-> c = "on",
             login |-> Registered(l)]
  BY <1>1, <1>3, <1>4 DEF Stored, StoredDocument
<1>6. b \in BOOLEAN /\ Load(f) \in Documents /\ Load(f) # None
  BY <1>1, <1>2, <1>3, LoadIsDocument DEF Content, TypedNow, Typed
<1>7. /\ now \in Snapshots /\ now.document = StoredDocument(f)
      /\ DOMAIN now.document.hotkeys = KnownActions /\ TrayShown(now.document.switches)
  BY <1>5, <1>6, StoredIs
<1>8. TypedNow'
  BY <1>1, <1>2, <1>4, <1>7 DEF Content, TypedNow, Typed, Statuses
<1>9. KnownNow'
  <2>1. now.beta = b /\ now.crash = (c = "on") /\ now.login = Registered(l)
    BY <1>5
  <2> QED
    BY <1>1, <1>3, <1>4, <1>7, <2>1 DEF KnownNow, Known
<1>10. LiveNow'
  BY <1>1 DEF LiveNow, Live
<1>11. FooterTells'
  BY <1>1, FooterIs
<1> QED
  BY <1>8, <1>9, <1>10, <1>11 DEF Content

LEMMA BlankIs ==
  /\ Blank \in Snapshots
  /\ TrayShown(Blank.document.switches)
<1>1. PICK switches, hotkeys :
        switches = [field \in Fields |-> FALSE] /\ hotkeys = Empty
  OBVIOUS
<1>2. switches \in [Fields -> BOOLEAN] /\ hotkeys \in [KnownActions -> Shortcuts] \cup {Empty}
  BY <1>1
<1>3. PICK doc : doc = [switches |-> switches, hotkeys |-> hotkeys]
  OBVIOUS
<1>4. doc \in ShownDocuments
  BY <1>2, <1>3 DEF ShownDocuments
<1>5. Blank = [document |-> doc, beta |-> FALSE, crash |-> FALSE, login |-> FALSE]
  BY <1>1, <1>3 DEF Blank
<1>6. Blank \in Snapshots
  BY <1>4, <1>5 DEF Snapshots
<1>7. ~Blank.document.switches.trayScrollInverted
  BY <1>1, <1>3, <1>5, FieldNames
<1> QED
  BY <1>6, <1>7 DEF TrayShown

-----------------------------------------------------------------------------
(* What the controls may be turned into.                                   *)
LEMMA NoModifiersListed == <<>> \in ModifierLists
<1>1. ModifiersFromFlags({}) = <<>>
  BY DEF ModifiersFromFlags
<1> QED
  BY <1>1, ModifiersListed

WithPart(s, part, now) == [s EXCEPT ![part] = now]

LEMMA PartEdited ==
  ASSUME NEW s \in Snapshots, NEW part \in Parts, NEW now,
         part = "document" => now \in ShownDocuments,
         part # "document" => now \in BOOLEAN,
         NEW t, t = WithPart(s, part, now)
  PROVE  /\ t \in Snapshots
         /\ t.document = IF part = "document" THEN now ELSE s.document
<1>1. /\ DOMAIN s = Parts
      /\ s["document"] \in ShownDocuments /\ s["beta"] \in BOOLEAN
      /\ s["crash"] \in BOOLEAN /\ s["login"] \in BOOLEAN
  BY PartsAre
<1>2. /\ DOMAIN t = Parts /\ t = [p \in Parts |-> t[p]]
      /\ \A p \in Parts : t[p] = IF p = part THEN now ELSE s[p]
  BY <1>1 DEF WithPart
<1>3. /\ t["document"] \in ShownDocuments /\ t["beta"] \in BOOLEAN
      /\ t["crash"] \in BOOLEAN /\ t["login"] \in BOOLEAN
  BY <1>1, <1>2 DEF Parts
<1> QED
  BY <1>2, <1>3 DEF Snapshots, Parts

LEMMA SwitchesEdited ==
  ASSUME NEW doc \in ShownDocuments, NEW field \in Fields,
         NEW now,
         now = [doc EXCEPT !.switches = TrayScrollChanged(Flipped(doc.switches, field))]
  PROVE  /\ now \in ShownDocuments /\ TrayShown(now.switches)
         /\ DOMAIN now.hotkeys = DOMAIN doc.hotkeys
<1>1. /\ doc.switches \in [Fields -> BOOLEAN]
      /\ doc = [switches |-> doc.switches, hotkeys |-> doc.hotkeys]
  BY ShownDocument
<1>2. doc.hotkeys \in [KnownActions -> Shortcuts] \cup {Empty}
  BY DEF ShownDocuments
<1>3. PICK flipped : flipped = Flipped(doc.switches, field)
  OBVIOUS
<1>4. flipped \in [Fields -> BOOLEAN]
  BY <1>1, <1>3 DEF Flipped
<1>5. PICK switches : switches = TrayScrollChanged(flipped)
  OBVIOUS
<1>6. switches \in [Fields -> BOOLEAN] /\ TrayShown(switches)
  BY <1>4, <1>5, TrayScrollIs
<1>7. now = [doc EXCEPT !["switches"] = switches]
  BY <1>3, <1>5
<1>8. now = [switches |-> switches, hotkeys |-> doc.hotkeys]
  BY <1>1, <1>7
<1> QED
  BY <1>2, <1>6, <1>8 DEF ShownDocuments

WithRow(doc, id, row) == [doc EXCEPT !.hotkeys[id] = row]

LEMMA HotkeyEdited ==
  ASSUME NEW doc \in ShownDocuments, NEW id \in DOMAIN doc.hotkeys, NEW item \in Shortcuts,
         NEW now, now = WithRow(doc, id, item)
  PROVE  /\ now \in ShownDocuments /\ now.switches = doc.switches
         /\ DOMAIN now.hotkeys = DOMAIN doc.hotkeys
<1>1. PICK switches, hotkeys :
        /\ doc = [switches |-> switches, hotkeys |-> hotkeys]
        /\ switches \in [Fields -> BOOLEAN]
        /\ hotkeys \in [KnownActions -> Shortcuts] \cup {Empty}
  BY DEF ShownDocuments
<1>2. id \in DOMAIN hotkeys /\ hotkeys \in [KnownActions -> Shortcuts]
  BY <1>1 DEF Empty
<1>3. PICK new : new = [hotkeys EXCEPT ![id] = item]
  OBVIOUS
<1>4. new \in [KnownActions -> Shortcuts] /\ DOMAIN new = DOMAIN hotkeys
  BY <1>2, <1>3
<1>5. now = [switches |-> switches, hotkeys |-> new]
  BY <1>1, <1>2, <1>3 DEF WithRow
<1> QED
  BY <1>1, <1>4, <1>5 DEF ShownDocuments

LEMMA ShownRow ==
  ASSUME NEW doc \in ShownDocuments, NEW id \in DOMAIN doc.hotkeys
  PROVE  \E k, m, e :
           /\ doc.hotkeys[id] = [key |-> k, modifiers |-> m, enabled |-> e]
           /\ k \in Spellings \cup {""} /\ m \in ModifierLists /\ e \in BOOLEAN
<1>1. PICK row : row = doc.hotkeys[id] /\ row \in Shortcuts
  BY ShownDocument
<1> QED
  BY <1>1 DEF Shortcuts

LEMMA RowFlipped ==
  ASSUME NEW k, NEW m, NEW e, NEW old, old = [key |-> k, modifiers |-> m, enabled |-> e]
  PROVE  [old EXCEPT !.enabled = ~old.enabled] = [key |-> k, modifiers |-> m, enabled |-> ~e]
<1>1. PICK now : now = ~e
  OBVIOUS
<1>2. [old EXCEPT !.enabled = now] = [key |-> k, modifiers |-> m, enabled |-> now]
  OBVIOUS
<1>3. old.enabled = e
  OBVIOUS
<1> QED
  BY <1>1, <1>2, <1>3, Zenon

LEMMA RowRecorded ==
  ASSUME NEW k, NEW m, NEW e, NEW old, old = [key |-> k, modifiers |-> m, enabled |-> e],
         NEW name, NEW modifiers
  PROVE  Recorded(old, name, modifiers) = [key |-> name, modifiers |-> modifiers, enabled |-> e]
<1>1. PICK first : first = [key |-> name, modifiers |-> m, enabled |-> e]
  OBVIOUS
<1>2. [old EXCEPT !.key = name] = first
  BY <1>1
<1>3. [first EXCEPT !.modifiers = modifiers]
         = [key |-> name, modifiers |-> modifiers, enabled |-> e]
  BY <1>1
<1>4. Recorded(old, name, modifiers) = [first EXCEPT !.modifiers = modifiers]
  BY <1>2 DEF Recorded
<1> QED
  BY <1>3, <1>4

LEMMA HotkeyFlipped ==
  ASSUME NEW doc \in ShownDocuments, NEW id \in DOMAIN doc.hotkeys
  PROVE  LET now == [doc EXCEPT !.hotkeys[id].enabled = ~doc.hotkeys[id].enabled]
         IN  /\ now \in ShownDocuments /\ now.switches = doc.switches
             /\ DOMAIN now.hotkeys = DOMAIN doc.hotkeys
<1>1. PICK k, m, e, old :
        /\ old = doc.hotkeys[id] /\ old = [key |-> k, modifiers |-> m, enabled |-> e]
        /\ k \in Spellings \cup {""} /\ m \in ModifierLists /\ e \in BOOLEAN
  BY ShownRow
<1>2. PICK item : item = [key |-> k, modifiers |-> m, enabled |-> ~e]
  OBVIOUS
<1>3. item \in Shortcuts
  BY <1>1, <1>2 DEF Shortcuts
<1>4. [old EXCEPT !.enabled = ~old.enabled] = item
  <2>1. old = [key |-> k, modifiers |-> m, enabled |-> e]
    BY <1>1
  <2> QED
    BY <1>2, <2>1, RowFlipped
<1>5. PICK now : now = WithRow(doc, id, item)
  OBVIOUS
<1>6. /\ now \in ShownDocuments /\ now.switches = doc.switches
      /\ DOMAIN now.hotkeys = DOMAIN doc.hotkeys
  BY <1>3, <1>5, HotkeyEdited
<1>7. [doc EXCEPT !.hotkeys[id].enabled = ~doc.hotkeys[id].enabled] = now
  BY <1>1, <1>4, <1>5 DEF WithRow
<1> QED
  BY <1>6, <1>7

(* What a shortcut may have for a key.                                     *)
Names == Spellings \cup {""}

LEMMA ShortcutSet ==
  ASSUME NEW doc \in ShownDocuments, NEW id \in DOMAIN doc.hotkeys,
         NEW name \in Names, NEW held \in ModifierLists
  PROVE  LET now == WithRow(doc, id, Recorded(doc.hotkeys[id], name, held))
         IN  /\ now \in ShownDocuments /\ now.switches = doc.switches
             /\ DOMAIN now.hotkeys = DOMAIN doc.hotkeys
<1>1. PICK k, m, e, old :
        /\ old = doc.hotkeys[id] /\ old = [key |-> k, modifiers |-> m, enabled |-> e]
        /\ k \in Spellings \cup {""} /\ m \in ModifierLists /\ e \in BOOLEAN
  BY ShownRow
<1>2. PICK item : item = [key |-> name, modifiers |-> held, enabled |-> e]
  OBVIOUS
<1>3. item \in Shortcuts
  BY <1>1, <1>2 DEF Shortcuts, Names
<1>4. Recorded(old, name, held) = item
  <2>1. old = [key |-> k, modifiers |-> m, enabled |-> e]
    BY <1>1
  <2> QED
    BY <1>2, <2>1, RowRecorded
<1>5. PICK now : now = WithRow(doc, id, item)
  OBVIOUS
<1>6. /\ now \in ShownDocuments /\ now.switches = doc.switches
      /\ DOMAIN now.hotkeys = DOMAIN doc.hotkeys
  BY <1>3, <1>5, HotkeyEdited
<1>7. WithRow(doc, id, Recorded(doc.hotkeys[id], name, held)) = now
  BY <1>1, <1>4, <1>5 DEF WithRow
<1> QED
  BY <1>6, <1>7

-----------------------------------------------------------------------------
(* Each step keeps the content.                                            *)
LEMMA EditedContent ==
  ASSUME Content, NEW part \in Parts, NEW now, Edits(part, now),
         part = "document" =>
           /\ now \in ShownDocuments /\ TrayShown(now.switches)
           /\ DOMAIN now.hotkeys = DOMAIN shown.document.hotkeys,
         part # "document" => now \in BOOLEAN
  PROVE  Content'
<1>1. /\ shown' = WithPart(shown, part, now)
      /\ RefreshUnsavedState(shown', baseline)
      /\ UNCHANGED <<file, beta, crash, login, outside, loaded, baseline, status, app>>
  BY DEF Edits, stores, WithPart
<1>2. PICK next : next = WithPart(shown, part, now)
  OBVIOUS
<1>3. shown \in Snapshots /\ TrayShown(shown.document.switches)
  BY DEF Content, TypedNow, Typed
<1>4. next \in Snapshots /\ next.document = IF part = "document" THEN now ELSE shown.document
  BY <1>2, <1>3, PartEdited
<1>5. /\ TrayShown(next.document.switches)
      /\ DOMAIN next.document.hotkeys = DOMAIN shown.document.hotkeys
  BY <1>3, <1>4
<1> QED
  BY <1>1, <1>2, <1>4, <1>5, EditsContent

LEMMA DocumentIs ==
  ASSUME Content
  PROVE  shown.document \in ShownDocuments /\ TrayShown(shown.document.switches)
BY PartsAre DEF Content, TypedNow, Typed

LEMMA FlipSwitchContent ==
  ASSUME Content, NEW field \in Switches, FlipSwitch(field)
  PROVE  Content'
<1>1. PICK doc : doc = shown.document
  OBVIOUS
<1>2. PICK now : now = [doc EXCEPT !.switches = TrayScrollChanged(Flipped(doc.switches, field))]
  OBVIOUS
<1>3. Edits("document", now)
  BY <1>1, <1>2 DEF FlipSwitch, EditsDocument
<1>4. doc \in ShownDocuments /\ field \in Fields /\ "document" \in Parts
  BY <1>1, DocumentIs, WindowAssumption DEF Parts
<1>5. /\ now \in ShownDocuments /\ TrayShown(now.switches)
      /\ DOMAIN now.hotkeys = DOMAIN doc.hotkeys
  BY <1>2, <1>4, SwitchesEdited
<1> QED
  BY <1>1, <1>3, <1>4, <1>5, EditedContent

LEMMA FlipHotkeyContent ==
  ASSUME Content, NEW id, FlipHotkey(id)
  PROVE  Content'
<1>1. PICK doc : doc = shown.document
  OBVIOUS
<1>2. PICK now : now = [doc EXCEPT !.hotkeys[id].enabled = ~doc.hotkeys[id].enabled]
  OBVIOUS
<1>3. Edits("document", now) /\ id \in DOMAIN doc.hotkeys
  BY <1>1, <1>2 DEF FlipHotkey, EditsDocument
<1>4. doc \in ShownDocuments /\ TrayShown(doc.switches) /\ "document" \in Parts
  BY <1>1, DocumentIs DEF Parts
<1>5. /\ now \in ShownDocuments /\ now.switches = doc.switches
      /\ DOMAIN now.hotkeys = DOMAIN doc.hotkeys
  BY <1>2, <1>3, <1>4, HotkeyFlipped
<1> QED
  BY <1>1, <1>3, <1>4, <1>5, EditedContent

(* A shortcut is cleared or recorded.                                      *)
LEMMA ShortcutContent ==
  ASSUME Content, NEW id \in DOMAIN shown.document.hotkeys,
         NEW name \in Names, NEW held \in ModifierLists,
         Edits("document", WithRow(shown.document, id,
                                   Recorded(shown.document.hotkeys[id], name, held)))
  PROVE  Content'
<1>1. PICK doc : doc = shown.document
  OBVIOUS
<1>2. PICK now : now = WithRow(doc, id, Recorded(doc.hotkeys[id], name, held))
  OBVIOUS
<1>3. Edits("document", now) /\ id \in DOMAIN doc.hotkeys
  BY <1>1, <1>2
<1>4. doc \in ShownDocuments /\ TrayShown(doc.switches) /\ "document" \in Parts
  BY <1>1, DocumentIs DEF Parts
<1>5. /\ now \in ShownDocuments /\ now.switches = doc.switches
      /\ DOMAIN now.hotkeys = DOMAIN doc.hotkeys
  BY <1>2, <1>3, <1>4, ShortcutSet
<1> QED
  BY <1>1, <1>3, <1>4, <1>5, EditedContent

LEMMA ClearShortcutContent ==
  ASSUME Content, NEW id, ClearShortcut(id)
  PROVE  Content'
<1>1. /\ id \in DOMAIN shown.document.hotkeys
      /\ Edits("document", WithRow(shown.document, id,
                                   Recorded(shown.document.hotkeys[id], "", <<>>)))
  BY DEF ClearShortcut, EditsDocument, WithRow
<1>2. "" \in Names
  BY DEF Names
<1> QED
  BY <1>1, <1>2, NoModifiersListed, ShortcutContent

LEMMA CaptureEventContent ==
  ASSUME Content, NEW name \in Keys, NEW flags \in Flags, CaptureEvent(name, flags)
  PROVE  Content'
<1>1. PICK held : held = ModifiersFromFlags(flags) /\ held \in ModifierLists
  BY ModifiersListed
<1>2. /\ recording \in DOMAIN shown.document.hotkeys
      /\ Edits("document", WithRow(shown.document, recording,
                                   Recorded(shown.document.hotkeys[recording], name, held)))
  BY <1>1 DEF CaptureEvent, WithRow
<1>3. name \in Names
  BY WindowAssumption DEF Names
<1> QED
  BY <1>1, <1>2, <1>3, ShortcutContent

LEMMA PreferenceContent ==
  ASSUME Content,
         FlipBeta \/ \E part \in {"crash", "login"} : FlipPreference(part)
  PROVE  Content'
<1>1. shown.beta \in BOOLEAN /\ shown.crash \in BOOLEAN /\ shown.login \in BOOLEAN
  BY PartsAre DEF Content, TypedNow, Typed
<1>2. CASE FlipBeta
  <2>1. PICK now \in BOOLEAN : now = ~shown.beta
    OBVIOUS
  <2>2. Edits("beta", now) /\ "beta" \in Parts
    BY <1>2, <2>1 DEF FlipBeta, Parts
  <2> QED
    BY <2>2, EditedContent
<1>3. ASSUME NEW part \in {"crash", "login"}, FlipPreference(part) PROVE Content'
  <2>1. PICK now \in BOOLEAN : now = ~shown[part]
    OBVIOUS
  <2>2. Edits(part, now) /\ part \in Parts /\ part # "document"
    BY <1>3, <2>1 DEF FlipPreference, Parts
  <2> QED
    BY <2>2, EditedContent
<1> QED
  BY <1>2, <1>3

LEMMA DeclineBetaContent ==
  ASSUME Content, DeclineBeta
  PROVE  Content'
<1>1. /\ shown' = WithPart(shown, "beta", FALSE)
      /\ RefreshUnsavedState(shown', baseline)
      /\ UNCHANGED <<file, beta, crash, login, outside, loaded, baseline, status, app>>
  BY DEF DeclineBeta, stores, runtime, WithPart
<1>2. PICK part, now, next :
        part = "beta" /\ now = FALSE /\ next = WithPart(shown, part, now)
  OBVIOUS
<1>3. shown \in Snapshots /\ part \in Parts /\ part # "document" /\ now \in BOOLEAN
  BY <1>2 DEF Content, TypedNow, Typed, Parts
<1>4. next \in Snapshots /\ next.document = shown.document
  BY <1>2, <1>3, PartEdited
<1> QED
  BY <1>1, <1>2, <1>4, DocumentIs, EditsContent

LEMMA SavingContent ==
  ASSUME Content, NEW save, save \in PerformSave \/ save = Now,
         Saves(save), Stays(save) \/ Closes(save), app' # "gone"
  PROVE  Content'
<1>1. /\ Underway(save)
      /\ Live(save.file, save.outside, save.loaded, save.shown, save.status)
  BY PerformSaveOutcome, NowOutcome DEF Content, Outcome
<1> QED
  BY <1>1, SavesContent

LEMMA SaveStepsContent ==
  ASSUME Inv, Content, Cancel \/ Apply \/ Ok \/ SavePrompted \/ DontSave
  PROVE  Content'
<1>1. CASE Cancel
  <2>1. app' # "gone" /\ Saves(Now) /\ (Stays(Now) \/ Closes(Now))
    BY <1>1 DEF Cancel, Interactive, PerformClose
  <2> QED
    BY <2>1, SavingContent
<1>2. CASE Apply
  <2>1. PICK save \in PerformSave : Saves(save) /\ Stays(save)
    BY <1>2 DEF Apply
  <2>2. app' # "gone"
    BY <1>2 DEF Apply, Interactive
  <2> QED
    BY <2>1, <2>2, SavingContent
<1>3. CASE Ok
  <2>1. PICK save \in PerformSave : Saves(save) /\ (Stays(save) \/ Closes(save))
    BY <1>3 DEF Ok, PerformClose
  <2>2. app' # "gone"
    BY <1>3 DEF Ok, Interactive
  <2> QED
    BY <2>1, <2>2, SavingContent
<1>4. CASE SavePrompted
  <2>1. PICK save \in PerformSave, kind \in Prompts :
          /\ Answered(kind) /\ Saves(save) /\ (Stays(save) \/ Closes(save))
          /\ app' = CASE kind = "close" -> app
                      [] kind = "quit" -> IF save.result THEN "leaving" ELSE "up"
    BY <1>4 DEF SavePrompted
  <2>2. app # "gone"
    BY <2>1, AnsweredIs DEF Inv
  <2>3. app' # "gone"
    BY <2>1, <2>2 DEF Prompts
  <2> QED
    BY <2>1, <2>3, SavingContent
<1>5. CASE DontSave
  <2>1. PICK kind \in Prompts :
          /\ Answered(kind) /\ Saves(Now) /\ (Stays(Now) \/ Closes(Now))
          /\ app' = app \/ app' = "leaving"
    BY <1>5 DEF DontSave
  <2>2. app # "gone"
    BY <2>1, AnsweredIs DEF Inv
  <2> QED
    BY <2>1, <2>2, SavingContent
<1> QED
  BY <1>1, <1>2, <1>3, <1>4, <1>5

LEMMA LoadContent ==
  ASSUME Content, NEW before, LoadFromDisk(before), UNCHANGED app, app # "gone"
  PROVE  Content'
BY LoadFailsContent, LoadSucceedsContent DEF LoadFromDisk

LEMMA LoadStepsContent ==
  ASSUME Inv, Content, OpenSettings \/ Reload \/ DiscardForReload
  PROVE  Content'
<1>1. CASE OpenSettings
  BY <1>1, LoadContent DEF OpenSettings
<1>2. CASE Reload
  <2>1. app = "up" /\ UNCHANGED app
    BY <1>2 DEF Reload, Interactive
  <2>2. CASE LoadFromDisk(sheets)
    BY <2>1, <2>2, LoadContent
  <2>3. CASE UNCHANGED <<stores, runtime, controls, recorder>>
    <3>1. UNCHANGED contents
      BY <2>3 DEF contents, stores, runtime, controls
    <3> QED
      BY <2>1, <3>1, SameContent
  <2> QED
    BY <1>2, <2>2, <2>3 DEF Reload
<1>3. CASE DiscardForReload
  <2>1. LoadFromDisk(Tail(sheets)) /\ UNCHANGED app /\ sheets # <<>>
    BY <1>3 DEF DiscardForReload
  <2>2. app # "gone"
    BY <2>1 DEF Inv, Settled
  <2> QED
    BY <2>1, <2>2, LoadContent
<1> QED
  BY <1>1, <1>2, <1>3

LEMMA ExitsContent ==
  ASSUME Content, Exits
  PROVE  Content'
<1>1. /\ shown' = Blank /\ baseline' = None /\ status' = "" /\ footer' = "untouched"
      /\ outside' = {} /\ loaded' = None
      /\ UNCHANGED <<file, beta, crash, login>>
  BY DEF Exits
<1>2. PICK now : now = Blank
  OBVIOUS
<1>3. now \in Snapshots /\ TrayShown(now.document.switches)
  BY <1>2, BlankIs
<1>4. TypedNow'
  BY <1>1, <1>2, <1>3 DEF Content, TypedNow, Typed, Statuses
<1>5. KnownNow' /\ LiveNow'
  BY <1>1 DEF KnownNow, Known, LiveNow, Live
<1>6. FooterTells'
  BY <1>1 DEF FooterTells, HasUnsavedChanges, Dirty
<1> QED
  BY <1>1, <1>4, <1>5, <1>6 DEF Content

LEMMA LaunchContent ==
  ASSUME Content, Launch
  PROVE  Content'
<1>1. /\ app = "gone" /\ app' = "up"
      /\ crash' \in IF crash = "unset" THEN {"on", "off"} ELSE {crash}
      /\ UNCHANGED <<file, beta, login, outside, loaded, shown, baseline, status, footer>>
  BY DEF Launch, controls
<1>2. baseline = None
  BY <1>1 DEF Content
<1>3. TypedNow'
  BY <1>1 DEF Content, TypedNow, Typed, Choices
<1>4. KnownNow' /\ LiveNow'
  BY <1>1, <1>2 DEF Content, KnownNow, Known, LiveNow, Live, Applied
<1>5. FooterTells'
  BY <1>1 DEF Content, FooterTells, HasUnsavedChanges
<1> QED
  BY <1>1, <1>3, <1>4, <1>5 DEF Content

LEMMA RuntimeStartsContent ==
  ASSUME Content, RuntimeStarts
  PROVE  Content'
<1>1. /\ loaded = None /\ file' = EnsureFile(file) /\ Load(file') # None
      /\ loaded' = Load(file')
      /\ UNCHANGED <<beta, crash, login, outside, shown, baseline, status, footer, app>>
  BY DEF RuntimeStarts, controls
<1>2. file' \in FileStates /\ (Load(file) # None => file' = file)
  BY <1>1, EnsuredFile DEF Content, TypedNow, Typed
<1>3. loaded' \in Documents
  BY <1>1, <1>2, LoadIsDocument
<1>4. TypedNow'
  BY <1>1, <1>2, <1>3 DEF Content, TypedNow, Typed
<1>5. KnownNow'
  <2>1. ASSUME baseline # None, "document" \notin outside PROVE file' = file
    <3>1. baseline.document \in ShownDocuments /\ baseline.document = StoredDocument(file)
      BY <2>1, PartsAre DEF Content, TypedNow, Typed, KnownNow, Known
    <3>2. Load(file) # None
      BY <3>1, WindowAssumption DEF StoredDocument
    <3> QED
      BY <1>2, <3>2
  <2> QED
    BY <1>1, <2>1 DEF Content, KnownNow, Known
<1>6. LiveNow'
  BY <1>1 DEF Content, LiveNow, Live, Applied
<1>7. FooterTells'
  BY <1>1 DEF Content, FooterTells, HasUnsavedChanges
<1> QED
  BY <1>1, <1>4, <1>5, <1>6, <1>7 DEF Content

(* Others edit a store: what is known of it no longer counts.              *)
LEMMA EditFileContent ==
  ASSUME Content, EditFile
  PROVE  Content'
<1>1. /\ file' \in Files /\ outside' = outside \cup {"document"}
      /\ UNCHANGED <<beta, crash, login, loaded, shown, baseline, status, footer, app>>
  BY DEF EditFile, runtime, controls
<1>2. TypedNow'
  BY <1>1, WindowAssumption DEF Content, TypedNow, Typed, FileStates, Parts
<1>3. KnownNow' /\ LiveNow'
  BY <1>1 DEF Content, KnownNow, Known, LiveNow, Live
<1>4. FooterTells'
  BY <1>1 DEF Content, FooterTells, HasUnsavedChanges
<1> QED
  BY <1>1, <1>2, <1>3, <1>4 DEF Content

LEMMA EditLoginItemContent ==
  ASSUME Content, EditLoginItem
  PROVE  Content'
<1>1. /\ login' \in LoginStates /\ outside' = outside \cup {"login"}
      /\ UNCHANGED <<file, beta, crash, loaded, shown, baseline, status, footer, app>>
  BY DEF EditLoginItem, runtime, controls, LoginStates
<1>2. TypedNow'
  BY <1>1 DEF Content, TypedNow, Typed, Parts
<1>3. KnownNow' /\ LiveNow'
  BY <1>1 DEF Content, KnownNow, Known, LiveNow, Live
<1>4. FooterTells'
  BY <1>1 DEF Content, FooterTells, HasUnsavedChanges
<1> QED
  BY <1>1, <1>2, <1>3, <1>4 DEF Content

LEMMA OtherStepsContent ==
  ASSUME Content,
         \/ QuitAsks \/ CancelPrompt \/ BecomeKey \/ ResignKey \/ Dismiss \/ EndRecording
         \/ \E id \in KnownActions : BeginRecording(id)
         \/ UNCHANGED vars
  PROVE  Content'
<1>1. UNCHANGED contents
  BY DEF contents, stores, runtime, controls, QuitAsks, CancelPrompt, BecomeKey, ResignKey,
         Dismiss, EndRecording, BeginRecording, vars
<1>2. app' # app => app' \in {"up", "quitting"}
  BY DEF QuitAsks, CancelPrompt, BecomeKey, ResignKey, Dismiss, EndRecording,
         BeginRecording, vars
<1> QED
  BY <1>1, <1>2, SameContent

LEMMA InitContent ==
  ASSUME Init
  PROVE  Content
<1>1. /\ file \in Files /\ beta = FALSE /\ loaded = None /\ shown = Blank
      /\ baseline = None /\ status = "" /\ footer = "untouched" /\ outside = {}
      /\ crash \in Choices /\ login \in LoginStates
  BY DEF Init, Choices, LoginStates
<1>2. PICK now : now = Blank
  OBVIOUS
<1>3. now \in Snapshots /\ TrayShown(now.document.switches)
  BY <1>2, BlankIs
<1>4. TypedNow
  BY <1>1, <1>2, <1>3, WindowAssumption DEF TypedNow, Typed, Statuses, FileStates
<1>5. KnownNow /\ LiveNow
  BY <1>1 DEF KnownNow, Known, LiveNow, Live
<1>6. FooterTells
  BY <1>1 DEF FooterTells, HasUnsavedChanges, Dirty
<1> QED
  BY <1>1, <1>4, <1>5, <1>6 DEF Content

-----------------------------------------------------------------------------
(* The rest of the state.                                                  *)
Frame ==
  /\ app \in {"gone", "up", "quitting", "leaving"}
  /\ footer \in {"untouched", "clean", "dirty"}
  /\ recording \in KnownActions \cup {None}
  /\ Len(sheets) <= MaxSheets
  /\ hand \in Hands

LEMMA FooterFrame ==
  ASSUME NEW now, NEW base, RefreshUnsavedState(now, base)
  PROVE  footer' \in {"untouched", "clean", "dirty"}
BY DEF RefreshUnsavedState

LEMMA StaysFrame ==
  ASSUME Frame, NEW save, Stays(save) \/ Closes(save), NEW list, Present(list),
         app' \in {"gone", "up", "quitting", "leaving"}, UNCHANGED hand
  PROVE  Frame'
<1>1. footer' \in {"untouched", "clean", "dirty"}
  BY FooterFrame DEF Stays, Closes
<1>2. recording' \in KnownActions \cup {None}
  BY DEF Frame, Stays, Closes, recorder
<1> QED
  BY <1>1, <1>2 DEF Frame, Present

LEMMA SaveStepsFrame ==
  ASSUME Frame, Cancel \/ Apply \/ Ok \/ SavePrompted \/ DontSave
  PROVE  Frame'
<1>1. ASSUME Cancel \/ Ok PROVE Frame'
  <2>1. PICK save : \/ Stays(save) /\ Confirm("close", save.errors)
                    \/ Stays(save) /\ Confirm("close", sheets)
                    \/ Stays(save) /\ Present(save.errors)
                    \/ Closes(save) /\ Present(save.errors)
                    \/ Closes(save) /\ Present(sheets)
    BY <1>1 DEF Cancel, Ok, PerformClose
  <2>2. UNCHANGED <<app, hand>>
    BY <1>1 DEF Cancel, Ok
  <2>3. (\E list : Present(list)) /\ (Stays(save) \/ Closes(save))
    BY <2>1 DEF Confirm
  <2>4. app' \in {"gone", "up", "quitting", "leaving"}
    BY <2>2 DEF Frame
  <2> QED
    BY <2>2, <2>3, <2>4, StaysFrame
<1>2. CASE Apply
  <2>1. PICK save : Stays(save) /\ Present(save.errors)
    BY <1>2 DEF Apply
  <2>2. UNCHANGED <<app, hand>> /\ app' \in {"gone", "up", "quitting", "leaving"}
    BY <1>2 DEF Apply, Frame
  <2> QED
    BY <2>1, <2>2, StaysFrame
<1>3. CASE SavePrompted
  <2>1. PICK save \in PerformSave, kind \in Prompts :
          /\ Stays(save) \/ Closes(save)
          /\ Present(Tail(sheets) \o save.errors)
          /\ app' = CASE kind = "close" -> app
                      [] kind = "quit" -> IF save.result THEN "leaving" ELSE "up"
    BY <1>3 DEF SavePrompted
  <2>2. UNCHANGED hand /\ app' \in {"gone", "up", "quitting", "leaving"}
    BY <1>3, <2>1 DEF SavePrompted, Frame, Prompts
  <2> QED
    BY <2>1, <2>2, StaysFrame
<1>4. CASE DontSave
  <2>1. /\ Stays(Now) \/ Closes(Now)
        /\ Present(Tail(sheets)) /\ UNCHANGED hand /\ app' \in {app, "leaving"}
    BY <1>4 DEF DontSave
  <2>2. app' \in {"gone", "up", "quitting", "leaving"}
    BY <2>1 DEF Frame
  <2> QED
    BY <2>1, <2>2, StaysFrame
<1> QED
  BY <1>1, <1>2, <1>3, <1>4

LEMMA LoadFrame ==
  ASSUME Frame, NEW before, LoadFromDisk(before), UNCHANGED <<app, hand>>
  PROVE  Frame'
<1>1. Len(sheets') <= MaxSheets
  BY DEF LoadFromDisk, Present
<1>2. CASE LoadFails
  BY <1>1, <1>2 DEF LoadFails, Frame, controls, recorder
<1>3. CASE LoadSucceeds
  <2>1. footer' \in {"untouched", "clean", "dirty"}
    BY <1>3, FooterFrame DEF LoadSucceeds
  <2>2. recording' = None
    BY <1>3 DEF LoadSucceeds
  <2> QED
    BY <1>1, <2>1, <2>2 DEF Frame
<1> QED
  BY <1>2, <1>3 DEF LoadFromDisk

LEMMA WindowStepsFrame ==
  ASSUME Frame,
         \/ OpenSettings \/ Reload \/ DiscardForReload \/ Dismiss \/ DeclineBeta
         \/ QuitAsks \/ CancelPrompt \/ BecomeKey \/ ResignKey
  PROVE  Frame'
<1>1. CASE OpenSettings \/ DiscardForReload
  <2>1. \E before : LoadFromDisk(before)
    BY <1>1 DEF OpenSettings, DiscardForReload
  <2>2. UNCHANGED <<app, hand>>
    BY <1>1 DEF OpenSettings, DiscardForReload
  <2> QED
    BY <2>1, <2>2, LoadFrame
<1>2. CASE Reload
  <2>1. UNCHANGED <<app, hand>>
    BY <1>2 DEF Reload
  <2>2. CASE Present(<<"reload">>) /\ UNCHANGED <<stores, runtime, controls, recorder>>
    BY <2>1, <2>2 DEF Frame, Present, controls, recorder
  <2>3. CASE LoadFromDisk(sheets)
    BY <2>1, <2>3, LoadFrame
  <2> QED
    BY <1>2, <2>2, <2>3 DEF Reload
<1>3. CASE Dismiss \/ CancelPrompt
  <2>1. /\ Len(sheets') <= MaxSheets
        /\ UNCHANGED <<footer, recording, hand>> /\ app' \in {app, "up"}
    BY <1>3 DEF Dismiss, CancelPrompt, Present, controls, recorder
  <2> QED
    BY <2>1 DEF Frame
<1>4. CASE DeclineBeta
  <2>1. footer' \in {"untouched", "clean", "dirty"}
    BY <1>4, FooterFrame DEF DeclineBeta
  <2>2. Len(sheets') <= MaxSheets /\ UNCHANGED <<recording, hand, app>>
    BY <1>4 DEF DeclineBeta, Present, recorder
  <2> QED
    BY <2>1, <2>2 DEF Frame
<1>5. CASE QuitAsks
  <2>1. /\ Len(sheets') <= MaxSheets
        /\ UNCHANGED <<footer, recording, hand>> /\ app' \in {"up", "quitting"}
    BY <1>5 DEF QuitAsks, Confirm, Present, controls, recorder
  <2> QED
    BY <2>1 DEF Frame
<1>6. CASE BecomeKey \/ ResignKey
  <2>1. UNCHANGED <<footer, recording, hand, app, sheets>>
    BY <1>6 DEF BecomeKey, ResignKey, controls, recorder
  <2> QED
    BY <2>1 DEF Frame
<1> QED
  BY <1>1, <1>2, <1>3, <1>4, <1>5, <1>6

LEMMA ControlStepsFrame ==
  ASSUME Frame,
         \/ \E field \in Switches : FlipSwitch(field)
         \/ \E id \in KnownActions : FlipHotkey(id) \/ ClearShortcut(id) \/ BeginRecording(id)
         \/ FlipBeta
         \/ \E part \in {"crash", "login"} : FlipPreference(part)
         \/ EndRecording
         \/ \E name \in Keys, flags \in Flags : CaptureEvent(name, flags)
  PROVE  Frame'
<1>1. ASSUME NEW part, NEW now, Edits(part, now),
             recording' \in {recording, None}, Len(sheets') <= MaxSheets
      PROVE  Frame'
  <2>1. footer' \in {"untouched", "clean", "dirty"}
    BY <1>1, FooterFrame DEF Edits
  <2>2. UNCHANGED <<app, hand>>
    BY <1>1 DEF Edits
  <2> QED
    BY <1>1, <2>1, <2>2 DEF Frame
<1>2. ASSUME NEW member, NEW now, EditsDocument(member, now) PROVE Frame'
  <2>1. Edits("document", now) /\ UNCHANGED <<recording, sheets>>
    BY <1>2 DEF EditsDocument, recorder
  <2> QED
    BY <1>1, <2>1 DEF Frame
<1>3. CASE \/ \E field \in Switches : FlipSwitch(field)
           \/ \E id \in KnownActions : FlipHotkey(id) \/ ClearShortcut(id)
  BY <1>2, <1>3 DEF FlipSwitch, FlipHotkey, ClearShortcut
<1>4. CASE FlipBeta
  <2>1. (\E now : Edits("beta", now)) /\ UNCHANGED recording /\ Len(sheets') <= MaxSheets
    BY <1>4 DEF FlipBeta, Present, recorder
  <2> QED
    BY <1>1, <2>1
<1>5. ASSUME NEW part \in {"crash", "login"}, FlipPreference(part) PROVE Frame'
  <2>1. (\E now : Edits(part, now)) /\ UNCHANGED <<recording, sheets>>
    BY <1>5 DEF FlipPreference, recorder
  <2> QED
    BY <1>1, <2>1 DEF Frame
<1>6. CASE (\E id \in KnownActions : BeginRecording(id)) \/ EndRecording
  <2>1. recording' \in KnownActions \cup {None} /\ UNCHANGED <<footer, app, hand, sheets>>
    BY <1>6 DEF BeginRecording, EndRecording, controls, window
  <2> QED
    BY <2>1 DEF Frame
<1>7. ASSUME NEW name \in Keys, NEW flags \in Flags, CaptureEvent(name, flags) PROVE Frame'
  <2>1. (\E now : Edits("document", now)) /\ recording' = None /\ UNCHANGED sheets
    BY <1>7 DEF CaptureEvent
  <2> QED
    BY <1>1, <2>1 DEF Frame
<1> QED
  BY <1>3, <1>4, <1>5, <1>6, <1>7

LEMMA WorldStepsFrame ==
  ASSUME Frame,
         \/ Quit \/ SuddenTermination \/ Exit \/ Launch \/ RuntimeStarts
         \/ EditFile \/ EditLoginItem \/ UNCHANGED vars
  PROVE  Frame'
<1>1. CASE Quit \/ SuddenTermination \/ Exit
  <2>1. Exits /\ UNCHANGED hand
    BY <1>1 DEF Quit, SuddenTermination, Exit
  <2>2. Len(<<>>) = 0 /\ 0 <= MaxSheets
    BY WindowAssumption
  <2> QED
    BY <2>1, <2>2 DEF Exits, Frame
<1>2. CASE Launch
  BY <1>2 DEF Launch, Frame, controls, recorder, window
<1>3. CASE RuntimeStarts \/ EditFile \/ EditLoginItem \/ UNCHANGED vars
  BY <1>3 DEF RuntimeStarts, EditFile, EditLoginItem, vars, Frame, controls, recorder, window
<1> QED
  BY <1>1, <1>2, <1>3

-----------------------------------------------------------------------------
(* All of the invariant.                                                   *)
Full == Inv /\ Content /\ Frame

LEMMA FullInvariance == Spec => []Full
<1>1. ASSUME Init PROVE Content /\ Frame
  <2>1. Len(<<>>) = 0 /\ 0 <= MaxSheets
    BY WindowAssumption
  <2> QED
    BY <1>1, <2>1, InitContent DEF Init, Frame
<1>2. ASSUME Inv, Content, Frame, [Next]_vars PROVE Content' /\ Frame'
  <2>1. CASE Cancel \/ Apply \/ Ok \/ SavePrompted \/ DontSave
    BY <1>2, <2>1, SaveStepsContent, SaveStepsFrame
  <2>2. CASE OpenSettings \/ Reload \/ DiscardForReload
    BY <1>2, <2>2, LoadStepsContent, WindowStepsFrame
  <2>3. CASE QuitAsks \/ CancelPrompt \/ BecomeKey \/ ResignKey \/ Dismiss
    BY <1>2, <2>3, OtherStepsContent, WindowStepsFrame
  <2>4. CASE DeclineBeta
    BY <1>2, <2>4, DeclineBetaContent, WindowStepsFrame
  <2>5. CASE EndRecording \/ \E id \in KnownActions : BeginRecording(id)
    BY <1>2, <2>5, OtherStepsContent, ControlStepsFrame
  <2>6. CASE FlipBeta \/ \E part \in {"crash", "login"} : FlipPreference(part)
    BY <1>2, <2>6, PreferenceContent, ControlStepsFrame
  <2>7. CASE \E field \in Switches : FlipSwitch(field)
    BY <1>2, <2>7, FlipSwitchContent, ControlStepsFrame
  <2>8. CASE \E id \in KnownActions : FlipHotkey(id) \/ ClearShortcut(id)
    BY <1>2, <2>8, FlipHotkeyContent, ClearShortcutContent, ControlStepsFrame
  <2>9. CASE \E name \in Keys, flags \in Flags : CaptureEvent(name, flags)
    BY <1>2, <2>9, CaptureEventContent, ControlStepsFrame
  <2>10. CASE Quit \/ SuddenTermination \/ Exit
    BY <1>2, <2>10, ExitsContent, WorldStepsFrame DEF Quit, SuddenTermination, Exit
  <2>11. CASE Launch \/ RuntimeStarts \/ EditFile \/ EditLoginItem
    BY <1>2, <2>11, LaunchContent, RuntimeStartsContent, EditFileContent,
       EditLoginItemContent, WorldStepsFrame
  <2>12. CASE UNCHANGED vars
    BY <1>2, <2>12, OtherStepsContent, WorldStepsFrame
  <2> QED
    BY <1>2, <2>1, <2>2, <2>3, <2>4, <2>5, <2>6, <2>7, <2>8, <2>9, <2>10, <2>11, <2>12
       DEF Next
<1> QED
  BY <1>1, <1>2, Invariance, PTL DEF Spec, Full

(***************************************************************************)
(* Every variable keeps its type: a file that was saved is one that can be *)
(* read, what the controls show is always what a document may show, and no *)
(* more sheets wait than may (SHSettingsStore.mm:84-356,                   *)
(* SHSettingsWindowController.mm:1107-1317).                               *)
(***************************************************************************)
THEOREM TypeOKAlways == Spec => []TypeOK
<1>1. ASSUME Full, Recorders PROVE TypeOK
  <2>1. /\ file \in Roots \cup {NoFile, Broken}
        /\ loaded \in Documents \cup {None}
        /\ beta \in BOOLEAN
        /\ crash \in {"unset", "on", "off"}
        /\ login \in {"NotRegistered", "NotFound", "Enabled", "RequiresApproval"}
        /\ shown \in Snapshots
        /\ baseline = None \/ baseline \in Snapshots
        /\ status \in {"", "saved", "saved, not applied", "saved, approve",
                       "saved, not at login"}
        /\ outside \subseteq Parts
    BY <1>1 DEF Full, Content, TypedNow, Typed, FileStates, Choices, LoginStates, Statuses
  <2>2. /\ reporting \in BOOLEAN /\ suspended \in BOOLEAN /\ restarted \in BOOLEAN
        /\ visible \in BOOLEAN /\ key \in BOOLEAN /\ listening \in BOOLEAN
    BY <1>1 DEF Full, Inv, Inner, TypeInv
  <2>3. sheets \in Seq(Sheets) /\ pending \in BOOLEAN
    BY <1>1 DEF Full, Inv, Settled, Fits
  <2> QED
    BY <1>1, <2>1, <2>2, <2>3 DEF TypeOK, Full, Frame, Recorders
<1> QED
  BY <1>1, FullInvariance, RecordersAlways, PTL

(* What is in the baseline is what the stores hold.                        *)
LEMMA BaselineIsStored ==
  ASSUME Content, baseline # None, NEW part \in Parts \ outside
  PROVE  baseline[part] = Stored[part]
<1>1. /\ "document" \notin outside => baseline.document = StoredDocument(file)
      /\ baseline.beta = beta /\ baseline.crash = (crash = "on")
      /\ "login" \notin outside => baseline.login = Registered(login)
  BY DEF Content, KnownNow, Known
<1>2. PICK stored : stored = Stored
  OBVIOUS
<1>3. /\ stored["document"] = StoredDocument(file) /\ stored["beta"] = beta
      /\ stored["crash"] = (crash = "on") /\ stored["login"] = Registered(login)
  BY <1>2 DEF Stored, StoredDocument
<1>4. baseline[part] = stored[part]
  BY <1>1, <1>3 DEF Parts
<1> QED
  BY <1>2, <1>4

LEMMA CleanIsStored ==
  ASSUME Content, baseline # None, ~HasUnsavedChanges
  PROVE  Unsaved = {}
<1>1. shown = baseline
  BY DEF HasUnsavedChanges, Dirty
<1>2. \A part \in Parts \ outside : shown[part] = Stored[part]
  BY <1>1, BaselineIsStored
<1> QED
  BY <1>2 DEF Unsaved

(***************************************************************************)
(* A window without unsaved changes shows what the stores hold, for any    *)
(* files, edits and outcomes of the steps of a save                        *)
(* (SHSettingsWindowController.mm:1192-1317, SHSettingsStore.mm:273-356,   *)
(* settings.cpp:243-338).                                                  *)
(***************************************************************************)
THEOREM CleanMeansStoredAlways == Spec => []CleanMeansStored
<1>1. Full => CleanMeansStored
  BY CleanIsStored DEF Full, CleanMeansStored
<1> QED
  BY <1>1, FullInvariance, PTL

-----------------------------------------------------------------------------
(***************************************************************************)
(* What was saved is live: the keys that a recorder names and the          *)
(* modifiers it holds are parsed, and every action the window shows is one *)
(* that the runtime knows.                                                 *)
(***************************************************************************)
LEMMA NamesDiffer ==
  ASSUME NEW name \in KeyCodes
  PROVE  name \notin DOMAIN OtherName
<1>1. DOMAIN OtherName =
        {"enter", "esc", "backspace", "arrowleft", "arrowright", "arrowup", "arrowdown",
         "leftbracket", "rightbracket", "minus", "equal"}
  BY DEF OtherName
<1> QED
  BY <1>1 DEF KeyCodes, Letters, Digits

LEMMA FirstName ==
  ASSUME NEW k, Lowercase[k] \in KeyCodes
  PROVE  ParseKeyCode(k) = Lowercase[k]
<1>1. PICK name, other : name = Lowercase[k] /\ other = OtherName[name]
  OBVIOUS
<1>2. name \in KeyCodes /\ name \notin DOMAIN OtherName
  BY <1>1, NamesDiffer
<1>3. ParseKeyCode(k) = CASE name \in KeyCodes -> name
                          [] name \in DOMAIN OtherName -> other
                          [] OTHER -> None
  BY <1>1 DEF ParseKeyCode
<1> QED
  BY <1>1, <1>2, <1>3

LEMMA KeyIsParsed ==
  ASSUME NEW k \in Keys
  PROVE  ParseKeyCode(k) \in KeyCodes
<1>1. k \in KeyNames /\ k \in Spellings
  BY WindowAssumption
<1>2. CASE k = "Tab"
  <2>1. Lowercase[k] = "tab"
    BY <1>2, WindowAssumption
  <2>2. "tab" \in KeyCodes
    BY DEF KeyCodes
  <2> QED
    BY <2>1, <2>2, FirstName
<1>3. CASE k # "Tab"
  <2>1. k \in KeyCodes
    BY <1>1, <1>3 DEF KeyNames, KeyCodes
  <2>2. Lowercase[k] = k
    BY <1>1, <2>1, FileAssumption
  <2> QED
    BY <2>1, <2>2, FirstName
<1> QED
  BY <1>2, <1>3

LEMMA FlagsAreParsed ==
  ASSUME NEW m \in ModifierLists
  PROVE  ParseModifierFlags(m) \in SUBSET EventFlags
<1>1. Words(m) \subseteq CanonicalNames
  BY ListsAre
<1>2. \A w \in Words(m) : Lowercase[w] = w
  BY <1>1, CanonicalAre
<1>3. CanonicalNames \subseteq DOMAIN ModifierFlag
  BY DEF CanonicalNames, ModifierFlag
<1>4. PICK words : words = {Lowercase[w] : w \in Words(m)}
  OBVIOUS
<1>5. words \subseteq DOMAIN ModifierFlag
  BY <1>1, <1>2, <1>3, <1>4
<1>6. ParseModifierFlags(m) = {ModifierFlag[w] : w \in words}
  BY <1>4, <1>5 DEF ParseModifierFlags
<1> QED
  BY <1>5, <1>6 DEF EventFlags

LEMMA KnownIsRequest ==
  ASSUME NEW doc \in Documents, NEW id \in KnownHotkeys
  PROVE  RequestOf(id, doc) \in Requests
<1>1. /\ doc.workspace_wrap \in BOOLEAN /\ doc.workspace_targets_focused_display \in BOOLEAN
      /\ doc.display_wrap \in BOOLEAN /\ doc.move_cursor_to_target_display \in BOOLEAN
  BY DEF Documents
<1>2. CASE id.stem \in {"switch_space", "switch_display"}
  <2>1. /\ NumberOrSide(id) /\ id.to \in {"left", "right", "go_to"} /\ id.number \in Nat
    BY <1>2 DEF KnownHotkeys, NumberOrSide
  <2>2. CASE id.stem = "switch_space"
    BY <1>1, <2>1, <2>2 DEF RequestOf, Requests
  <2>3. CASE id.stem = "switch_display"
    BY <1>1, <2>1, <2>3 DEF RequestOf, Requests
  <2> QED
    BY <1>2, <2>2, <2>3
<1>3. CASE id.stem = "window_focus"
  <2>1. id.to \in {"next", "prev"}
    BY <1>3 DEF KnownHotkeys
  <2> QED
    BY <1>3, <2>1 DEF RequestOf, Requests
<1>4. CASE id.stem \in {"mission_control", "expose"}
  <2>1. id.to = "toggle"
    BY <1>4 DEF KnownHotkeys
  <2> QED
    BY <1>4, <2>1 DEF RequestOf, Requests
<1>5. id.stem \in {"switch_space", "switch_display", "window_focus", "mission_control", "expose"}
  BY DEF KnownHotkeys
<1> QED
  BY <1>2, <1>3, <1>4, <1>5

LEMMA RecordedIsActive ==
  ASSUME NEW doc \in Documents, NEW id \in KnownActions, Enabled(id, doc),
         doc.hotkeys[id] \in Shortcuts, doc.hotkeys[id].key \in Keys
  PROVE  Active(id, doc)
<1>1. PICK hotkey : hotkey = doc.hotkeys[id]
  OBVIOUS
<1>2. hotkey.key \in Keys /\ hotkey.modifiers \in ModifierLists
  BY <1>1 DEF Shortcuts
<1>3. PICK code, flags, request :
        /\ code = ParseKeyCode(hotkey.key) /\ flags = ParseModifierFlags(hotkey.modifiers)
        /\ request = RequestOf(id, doc)
  OBVIOUS
<1>4. id \in ActionIds /\ id \in KnownHotkeys
  BY FileAssumption
<1>5. code \in KeyCodes /\ flags \in SUBSET EventFlags /\ request \in Requests
  BY <1>2, <1>3, <1>4, KeyIsParsed, FlagsAreParsed, KnownIsRequest
<1>6. code # None /\ flags # None /\ request # None
  BY <1>5, AlphabeticalAssumption
<1>7. PICK active : active = [action_id |-> id, key_code |-> code, modifier_flags |-> flags,
                              request |-> request]
  OBVIOUS
<1>8. active # None
  <2>1. active \in [action_id : ActionIds, key_code : KeyCodes,
                    modifier_flags : SUBSET EventFlags, request : Requests]
    BY <1>4, <1>5, <1>7
  <2> QED
    BY <2>1, AlphabeticalAssumption
<1>9. CompileAction(id, doc) = active
  BY <1>1, <1>3, <1>6, <1>7 DEF CompileAction
<1> QED
  BY <1>8, <1>9 DEF Active

(***************************************************************************)
(* "Saved and applied." is true, for any files, shortcuts and outcomes of  *)
(* a save: the runtime runs on what the file holds, and every hotkey that  *)
(* was recorded and is enabled is active                                   *)
(* (SHSettingsWindowController.mm:81-133, 1192-1317, SHRuntimeHost.mm:     *)
(* 99-125, daemon.cpp:242-429, 846-875).                                   *)
(***************************************************************************)
THEOREM SavedIsLiveAlways == Spec => []SavedIsLive
<1>1. ASSUME Full PROVE SavedIsLive
  <2> SUFFICES ASSUME status = "saved", "document" \notin outside
               PROVE  /\ loaded # None
                      /\ loaded = Load(file)
                      /\ \A id \in DOMAIN shown.document.hotkeys :
                           Enabled(id, loaded) /\ loaded.hotkeys[id].key \in Keys
                             => id \notin CompileRuntimeConfig(loaded).inert_action_ids
    BY DEF SavedIsLive
  <2>1. Applied(file, loaded, shown)
    BY <1>1 DEF Full, Content, LiveNow, Live
  <2>2. loaded # None /\ loaded = Load(file) /\ loaded \in Documents
    BY <1>1, <2>1 DEF Applied, Full, Content, TypedNow, Typed
  <2>3. ASSUME NEW id \in DOMAIN shown.document.hotkeys,
               Enabled(id, loaded), loaded.hotkeys[id].key \in Keys
        PROVE  id \notin CompileRuntimeConfig(loaded).inert_action_ids
    <3>1. id \in KnownActions
      BY <1>1, DocumentIs, ShownDocument DEF Full
    <3>2. loaded.hotkeys[id] \in Shortcuts
      BY <2>1, <2>3 DEF Applied, Enabled
    <3>3. Active(id, loaded)
      BY <2>2, <2>3, <3>1, <3>2, RecordedIsActive
    <3> QED
      BY <3>3 DEF CompileRuntimeConfig
  <2> QED
    BY <2>2, <2>3
<1> QED
  BY <1>1, FullInvariance, PTL

-----------------------------------------------------------------------------
(* What a step does to the file, but for an edit of others.                *)
LEMMA FileStep ==
  ASSUME Full, [Next]_vars
  PROVE  EditFile \/ Keeps(file')
<1>1. ASSUME UNCHANGED file PROVE Keeps(file')
  BY <1>1 DEF Keeps
<1>2. ASSUME file' = EnsureFile(file) PROVE Keeps(file')
  <2>1. Load(file) # None => file' = file
    BY <1>2, EnsuredFile DEF Full, Content, TypedNow, Typed
  <2> QED
    BY <2>1 DEF Keeps
<1>3. ASSUME NEW save \in PerformSave, Saves(save) PROVE Keeps(file')
  <2>1. Keeps(save.file)
    BY <1>3, PerformSaveOutcome DEF Full, Content, Outcome, Underway
  <2> QED
    BY <1>3, <2>1 DEF Saves
<1>4. ASSUME LoadFails \/ LoadSucceeds PROVE Keeps(file')
  BY <1>1, <1>2, <1>4 DEF LoadFails, LoadSucceeds
<1>5. CASE Apply \/ Ok \/ SavePrompted
  BY <1>3, <1>5 DEF Apply, Ok, SavePrompted
<1>6. CASE Cancel \/ DontSave
  <2>1. UNCHANGED file
    BY <1>6, NowIs DEF Cancel, DontSave, Saves
  <2> QED
    BY <1>1, <2>1
<1>7. CASE OpenSettings \/ DiscardForReload
  BY <1>4, <1>7 DEF OpenSettings, DiscardForReload, LoadFromDisk
<1>8. CASE Reload
  <2>1. UNCHANGED file \/ LoadFails \/ LoadSucceeds
    BY <1>8 DEF Reload, LoadFromDisk, stores
  <2> QED
    BY <1>1, <1>4, <2>1
<1>9. CASE RuntimeStarts
  BY <1>2, <1>9 DEF RuntimeStarts
<1>10. CASE \/ Launch \/ Exit \/ EditLoginItem \/ BecomeKey \/ ResignKey
            \/ QuitAsks \/ Quit \/ SuddenTermination \/ CancelPrompt \/ DeclineBeta \/ Dismiss
            \/ EndRecording \/ UNCHANGED vars
  <2>1. UNCHANGED file
    BY <1>10 DEF Launch, Exit, EditLoginItem, BecomeKey, ResignKey, QuitAsks, Quit,
       SuddenTermination, Exits, CancelPrompt, DeclineBeta, Dismiss, EndRecording, vars, stores
  <2> QED
    BY <1>1, <2>1
<1>11. CASE \/ \E field \in Switches : FlipSwitch(field)
            \/ \E id \in KnownActions : FlipHotkey(id) \/ ClearShortcut(id) \/ BeginRecording(id)
            \/ FlipBeta
            \/ \E part \in {"crash", "login"} : FlipPreference(part)
            \/ \E name \in Keys, flags \in Flags : CaptureEvent(name, flags)
  <2>1. ASSUME NEW part, NEW now, Edits(part, now) PROVE UNCHANGED file
    BY <2>1 DEF Edits, stores
  <2>2. ASSUME NEW id, BeginRecording(id) PROVE UNCHANGED file
    BY <2>2 DEF BeginRecording, stores
  <2>3. UNCHANGED file
    BY <1>11, <2>1, <2>2 DEF FlipSwitch, FlipHotkey, ClearShortcut, FlipBeta, FlipPreference,
       CaptureEvent, EditsDocument
  <2> QED
    BY <1>1, <2>3
<1> QED
  BY <1>5, <1>6, <1>7, <1>8, <1>9, <1>10, <1>11 DEF Next

(***************************************************************************)
(* For any file that can be loaded: after each step of the program it      *)
(* still can, and the entries of hotkeys that the window does not know and *)
(* the members it does not show are as they were                           *)
(* (SHSettingsStore.mm:273-356).                                           *)
(***************************************************************************)
THEOREM SavesKeepTheRestAlways == Spec => SavesKeepTheRest
<1>1. ASSUME Full, [Next]_vars
      PROVE  [file' # file /\ ~EditFile /\ Load(file) # None
                => Load(file') # None /\ Others(file') = Others(file)]_file
  BY <1>1, FileStep DEF Keeps
<1> QED
  BY <1>1, FullInvariance, PTL DEF Spec, SavesKeepTheRest

-----------------------------------------------------------------------------
(* What is lost in a step.                                                 *)
LEMMA StaysUp ==
  ASSUME visible', app' # "leaving", UNCHANGED shown
  PROVE  Lost = {}
BY DEF Lost

LEMMA CleanLosesNothing ==
  ASSUME Content, baseline # None, ~HasUnsavedChanges
  PROVE  Lost = {}
BY CleanIsStored DEF Lost

LEMMA SaveLosesNothing ==
  ASSUME Content, NEW save \in PerformSave, Saves(save), Stays(save) \/ Closes(save),
         Closes(save) => save.result, app' = "leaving" => save.result,
         visible, baseline # None
  PROVE  Lost = {}
<1>1. Outcome(save)
  BY PerformSaveOutcome DEF Content
<1>2. ASSUME ~(app' = "leaving"), Stays(save), NEW part \in Lost PROVE FALSE
  <2>1. visible' /\ shown' = save.shown
    BY <1>2 DEF Stays, Saves
  <2>2. /\ part \in Parts /\ shown'[part] # shown[part]
        /\ part = "login" => status' = ""
    BY <1>2, <2>1 DEF Lost, Unsaved
  <2>3. status' = save.status
    BY DEF Saves
  <2>4. part = "login"
    BY <1>1, <2>1, <2>2 DEF Outcome
  <2> QED
    BY <1>1, <2>1, <2>2, <2>3, <2>4 DEF Outcome
<1>3. ASSUME save.result, NEW part \in Lost PROVE FALSE
  <2>1. /\ save.shown = shown /\ save.baseline = shown
        /\ save.outside \subseteq outside
        /\ Known(save.file, save.beta, save.crash, save.login, save.outside, save.shown,
                 save.baseline)
    BY <1>1, <1>3 DEF Outcome, Underway
  <2>2. part \in Parts \ outside /\ shown[part] # Stored'[part]
    BY <1>3 DEF Lost, Unsaved
  <2>3. /\ file' = save.file /\ beta' = save.beta /\ crash' = save.crash
        /\ login' = save.login
    BY DEF Saves
  <2>4. PICK stored : stored = Stored'
    OBVIOUS
  <2>5. /\ stored["document"] = StoredDocument(file') /\ stored["beta"] = beta'
        /\ stored["crash"] = (crash' = "on") /\ stored["login"] = Registered(login')
    BY <2>4 DEF Stored, StoredDocument
  <2>6. save.baseline # None
    BY <1>1 DEF Outcome, Underway
  <2>7. PICK base : base = save.baseline
    OBVIOUS
  <2>8. /\ "document" \notin outside => base["document"] = StoredDocument(save.file)
        /\ base["beta"] = save.beta /\ base["crash"] = (save.crash = "on")
        /\ "login" \notin outside => base["login"] = Registered(save.login)
    BY <2>1, <2>6, <2>7 DEF Known
  <2>9. base[part] = stored[part]
    BY <2>2, <2>3, <2>5, <2>8 DEF Parts
  <2> QED
    BY <2>1, <2>2, <2>4, <2>7, <2>9
<1> QED
  BY <1>2, <1>3

LEMMA NothingLost ==
  ASSUME Full, [Next]_vars, visible, baseline # None, app # "leaving",
         ~ByHand, ~DontSave, ~DiscardForReload, ~OpenSettings
  PROVE  Lost = {}
<1>1. Content
  BY DEF Full
<1>2. app # "gone"
  BY <1>1 DEF Content
<1>3. CASE Cancel
  <2>1. CASE HasUnsavedChanges
    <3>1. Dirty(Now.shown, Now.baseline)
      BY <2>1, NowIs DEF HasUnsavedChanges
    <3>2. UNCHANGED <<visible, shown, app>>
      BY <1>3, <3>1, NowIs DEF Cancel, PerformClose, Stays, Saves
    <3> QED
      BY <3>2, StaysUp
  <2> QED
    BY <1>1, <2>1, CleanLosesNothing
<1>4. CASE Apply
  <2>1. PICK save \in PerformSave : Saves(save) /\ Stays(save)
    BY <1>4 DEF Apply
  <2>2. UNCHANGED app /\ visible'
    BY <1>4, <2>1 DEF Apply, Stays
  <2>3. ~Closes(save)
    BY <2>2 DEF Closes
  <2> QED
    BY <1>1, <2>1, <2>2, <2>3, SaveLosesNothing
<1>5. CASE Ok
  <2>1. PICK save \in PerformSave :
          /\ Saves(save)
          /\ Stays(save) \/ (save.result /\ Closes(save))
    BY <1>5 DEF Ok, PerformClose
  <2>2. UNCHANGED app
    BY <1>5 DEF Ok
  <2>3. Closes(save) => save.result
    BY <2>1 DEF Closes, Stays
  <2> QED
    BY <1>1, <2>1, <2>2, <2>3, SaveLosesNothing
<1>6. CASE SavePrompted
  <2>1. PICK save \in PerformSave, kind \in Prompts :
          /\ Saves(save)
          /\ Stays(save) \/ (save.result /\ Closes(save))
          /\ app' = CASE kind = "close" -> app
                      [] kind = "quit" -> IF save.result THEN "leaving" ELSE "up"
    BY <1>6 DEF SavePrompted
  <2>2. app' = "leaving" => save.result
    BY <2>1 DEF Prompts
  <2>3. Closes(save) => save.result
    BY <2>1 DEF Closes, Stays
  <2> QED
    BY <1>1, <2>1, <2>2, <2>3, SaveLosesNothing
<1>7. CASE Reload
  <2>1. CASE HasUnsavedChanges
    <3>1. UNCHANGED <<visible, shown, app>>
      BY <1>7, <2>1 DEF Reload, controls
    <3> QED
      BY <3>1, StaysUp
  <2> QED
    BY <1>1, <2>1, CleanLosesNothing
<1>8. CASE Quit
  BY <1>1, <1>8, CleanLosesNothing DEF Quit
<1>9. CASE SuddenTermination
  BY <1>1, <1>9, CleanLosesNothing DEF SuddenTermination, Content, FooterTells
<1>10. CASE Launch \/ Exit
  BY <1>2, <1>10 DEF Launch, Exit
<1>11. CASE \/ RuntimeStarts \/ EditFile \/ EditLoginItem \/ BecomeKey \/ ResignKey
            \/ QuitAsks \/ CancelPrompt \/ Dismiss
            \/ (\E id \in KnownActions : BeginRecording(id)) \/ EndRecording \/ UNCHANGED vars
  <2>1. UNCHANGED <<visible, shown>> /\ app' \in {app, "up", "quitting"}
    BY <1>11 DEF RuntimeStarts, EditFile, EditLoginItem, BecomeKey, ResignKey, QuitAsks,
       CancelPrompt, Dismiss, BeginRecording, EndRecording, vars, controls, window
  <2> QED
    BY <2>1, StaysUp
<1> QED
  BY <1>3, <1>4, <1>5, <1>6, <1>7, <1>8, <1>9, <1>10, <1>11 DEF Next, ByHand

(***************************************************************************)
(* No step but the user's own, an answer that discards, or Settings chosen *)
(* once more, loses an edit that is in no store, for any outcome of a save *)
(* (SHSettingsWindowController.mm:1107-1130, 1381-1419, 1603-1636,         *)
(* AppDelegate.m:242-258).                                                 *)
(***************************************************************************)
THEOREM EditsLostOnlyIfToldAlways == Spec => EditsLostOnlyIfTold
<1>1. ASSUME Full, [Next]_vars
      PROVE  [visible /\ baseline # None /\ app # "leaving" /\ Lost # {}
                => ByHand \/ DontSave \/ DiscardForReload \/ OpenSettings]_<<visible, app, shown>>
  BY <1>1, NothingLost
<1> QED
  BY <1>1, FullInvariance, PTL DEF Spec, EditsLostOnlyIfTold

=============================================================================
