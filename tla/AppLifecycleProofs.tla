------------------------- MODULE AppLifecycleProofs -------------------------
(***************************************************************************)
(* Proofs about the life of the runtime: for any spaces and any bounds,    *)
(* the app is never silently down and the status menu tells the truth.     *)
(***************************************************************************)
EXTENDS AppLifecycle, TLAPS

(***************************************************************************)
(* What the promises, made once the app is up, follow from: the menu       *)
(* before that, and that no block outlives a runtime but at the very end.  *)
(***************************************************************************)
BeforeUp ==
  /\ stage = "launching" => (~running /\ items = {} /\ error = None)
  /\ stage = "asking" => (~running /\ items = {"badge", "grant"} /\ error = None)

BlocksOfTheRuntime == stage # "gone" => (running \/ blocks = <<>>)

IInv ==
  TypeOK /\ BeforeUp /\ BlocksOfTheRuntime /\ NeverSilentlyDown /\ MenuTellsTruth

-----------------------------------------------------------------------------
(* A notification and a refresh keep the types, whoever starts them.       *)
LEMMA RefreshTypes ==
  ASSUME TypeOK, NEW shownItems, NEW prior,
         shownItems \subseteq MenuItems, prior \in Spaces \cup {None},
         NotifyAndRefresh(shownItems, prior)
  PROVE  /\ space' \in Spaces /\ notices' \in 0 .. MaxNotices
         /\ last' \in Spaces \cup {None} /\ blocks' \in Seq(Spaces)
         /\ title' \in Spaces \cup {None} /\ missed' \in BOOLEAN
         /\ error' = None
         /\ items' = IF "error" \in shownItems THEN {} ELSE shownItems
<1>1. space' \in Spaces /\ notices' \in 0 .. MaxNotices
  BY LifecycleAssumption DEF TypeOK, NotifyAndRefresh, SpaceMoves
<1>2. PICK t \in {space', None} : Show(shownItems, t, None)
  BY DEF NotifyAndRefresh
<1>3. /\ title' \in Spaces \cup {None}
      /\ error' = None
      /\ items' = IF "error" \in shownItems THEN {} ELSE shownItems
  BY <1>1, <1>2 DEF Show, ItemsAfter, EnterReady
<1>4. CASE Notify(space)
  <2>1. blocks' \in Seq(Spaces) /\ last' \in Spaces /\ missed' = FALSE
    BY <1>4 DEF TypeOK, Notify
  <2> QED
    BY <1>1, <1>3, <2>1
<1>5. CASE last' = prior /\ missed' = TRUE /\ UNCHANGED blocks
  BY <1>1, <1>3, <1>5 DEF TypeOK
<1> QED
  BY <1>4, <1>5 DEF NotifyAndRefresh

(* A start from a cleared menu runs the runtime and leaves the menu clear, *)
(* or shows the error of a runtime that stays down.                        *)
LEMMA HostStartShows ==
  ASSUME TypeOK, running => error = None, HostStart(EnterReady)
  PROVE  /\ space' \in Spaces /\ notices' \in 0 .. MaxNotices
         /\ running' \in BOOLEAN
         /\ last' \in Spaces \cup {None} /\ blocks' \in Seq(Spaces)
         /\ title' \in Spaces \cup {None} /\ missed' \in BOOLEAN
         /\ \/ running' /\ items' = {} /\ error' = None
            \/ /\ ~running' /\ items' = {"badge", "error"} /\ error' \in Reasons
               /\ ~running /\ blocks' = blocks
<1>1. CASE running
  BY <1>1 DEF TypeOK, HostStart, EnterReady, core
<1>2. CASE ~running /\ Starts(ItemsAfter(EnterReady, None))
  <2>1. ItemsAfter(EnterReady, None) = {}
    BY DEF ItemsAfter, EnterReady
  <2>2. running' = TRUE /\ NotifyAndRefresh({}, None)
    BY <1>2, <2>1 DEF Starts
  <2> QED
    BY <2>2, RefreshTypes
<1>3. CASE /\ ~running
           /\ StartFails
           /\ Show(ItemsAfter(EnterReady, None), None, WhyNot)
  <2>1. WhyNot \in Reasons /\ WhyNot # None
    BY LifecycleAssumption DEF WhyNot, Reasons
  <2>2. error' = WhyNot /\ title' = None /\ items' = {"badge", "error"}
    BY <1>3, <2>1 DEF Show, ItemsAfter, EnterReady, EnterRuntimeError
  <2> QED
    BY <1>3, <2>1, <2>2 DEF TypeOK, StartFails, core
<1> QED
  BY <1>1, <1>2, <1>3 DEF HostStart

-----------------------------------------------------------------------------
LEMMA InitInv == Init => IInv
<1> SUFFICES ASSUME Init PROVE IInv
  OBVIOUS
<1>1. notices \in 0 .. MaxNotices /\ blocks \in Seq(Spaces)
  BY LifecycleAssumption DEF Init
<1>2. TypeOK
  BY <1>1 DEF Init, TypeOK
<1> QED
  BY <1>2 DEF Init, IInv, BeforeUp, BlocksOfTheRuntime, NeverSilentlyDown, MenuTellsTruth

(* What remains of the menu when a start or its failure shows on it.       *)
LEMMA StartKeepsInv ==
  ASSUME IInv, HostStart(EnterReady), stage \in {"launching", "up"}, stage' = "up",
         access' = access, file' = file, polling' \in BOOLEAN
  PROVE  IInv'
<1>1. running => error = None
  BY DEF IInv, BeforeUp, MenuTellsTruth
<1>2. TypeOK
  BY DEF IInv
<1>3. /\ space' \in Spaces /\ notices' \in 0 .. MaxNotices
      /\ running' \in BOOLEAN
      /\ last' \in Spaces \cup {None} /\ blocks' \in Seq(Spaces)
      /\ title' \in Spaces \cup {None} /\ missed' \in BOOLEAN
      /\ \/ running' /\ items' = {} /\ error' = None
         \/ /\ ~running' /\ items' = {"badge", "error"} /\ error' \in Reasons
            /\ ~running /\ blocks' = blocks
  BY <1>1, <1>2, HostStartShows
<1>4. TypeOK'
  BY <1>2, <1>3 DEF TypeOK, MenuItems
<1>5. BeforeUp' /\ BlocksOfTheRuntime'
  BY <1>3 DEF IInv, BeforeUp, BlocksOfTheRuntime
<1>6. NeverSilentlyDown' /\ MenuTellsTruth'
  BY <1>3, LifecycleAssumption DEF NeverSilentlyDown, MenuTellsTruth
<1> QED
  BY <1>4, <1>5, <1>6 DEF IInv

LEMMA StepInv == IInv /\ [Next]_vars => IInv'
<1> SUFFICES ASSUME IInv, [Next]_vars PROVE IInv'
  OBVIOUS
<1> USE LifecycleAssumption
<1>t. TypeOK
  BY DEF IInv
<1>1. CASE Launch
  <2>1. CASE access
    BY <1>1, <2>1, <1>t, StartKeepsInv DEF Launch, TypeOK
  <2>2. CASE ~access
    BY <1>1, <2>2 DEF Launch, EnterNeedsAccess, IInv, TypeOK, MenuItems, core,
      BeforeUp, BlocksOfTheRuntime, NeverSilentlyDown, MenuTellsTruth
  <2> QED
    BY <2>1, <2>2
<1>2. CASE AnswerPrompt
  BY <1>2 DEF AnswerPrompt, IInv, TypeOK, outside, core, shown,
    BeforeUp, BlocksOfTheRuntime, NeverSilentlyDown, MenuTellsTruth
<1>3. CASE GrantAccess
  <2>1. CASE access
    BY <1>3, <2>1, <1>t, StartKeepsInv DEF GrantAccess, TypeOK
  <2>2. CASE ~access
    BY <1>3, <2>2 DEF GrantAccess, IInv, TypeOK, core, shown,
      BeforeUp, BlocksOfTheRuntime, NeverSilentlyDown, MenuTellsTruth
  <2> QED
    BY <2>1, <2>2
<1>4. CASE PollTick
  BY <1>4, StartKeepsInv DEF PollTick
<1>5. CASE ApplySettings
  <2>1. CASE StartFails /\ UNCHANGED shown
    BY <1>5, <2>1 DEF ApplySettings, StartFails, IInv, TypeOK, core, shown,
      BeforeUp, BlocksOfTheRuntime, NeverSilentlyDown, MenuTellsTruth
  <2>2. CASE \E prior \in {last, None} : running' /\ NotifyAndRefresh(items, prior)
    <3>1. PICK prior \in {last, None} : running' /\ NotifyAndRefresh(items, prior)
      BY <2>2
    <3>2. /\ space' \in Spaces /\ notices' \in 0 .. MaxNotices
          /\ last' \in Spaces \cup {None} /\ blocks' \in Seq(Spaces)
          /\ title' \in Spaces \cup {None} /\ missed' \in BOOLEAN
          /\ error' = None
          /\ items' = IF "error" \in items THEN {} ELSE items
      BY <3>1, <1>t, RefreshTypes DEF TypeOK
    <3>3. TypeOK'
      BY <1>5, <3>1, <3>2, <1>t DEF ApplySettings, TypeOK, MenuItems
    <3>4. MenuTellsTruth'
      BY <1>5, <3>1, <3>2 DEF ApplySettings, IInv, MenuTellsTruth
    <3> QED
      BY <1>5, <3>1, <3>3, <3>4 DEF ApplySettings, IInv, BeforeUp,
        BlocksOfTheRuntime, NeverSilentlyDown
  <2> QED
    BY <1>5, <2>1, <2>2, <1>t DEF ApplySettings, TypeOK
<1>6. CASE Quit
  BY <1>6 DEF Quit, Show, ItemsAfter, EnterReady, IInv, TypeOK, MenuItems, outside,
    BeforeUp, BlocksOfTheRuntime, NeverSilentlyDown, MenuTellsTruth
<1>7. CASE Notice
  <2>1. /\ notices' \in 0 .. MaxNotices
        /\ UNCHANGED <<stage, access, file, space, running, shown, polling>>
    BY <1>7, <1>t DEF Notice, TypeOK
  <2>2. CASE running /\ Notify(space)
    <3>1. blocks' \in Seq(Spaces) /\ last' \in Spaces /\ missed' = FALSE
      BY <2>2, <1>t DEF Notify, TypeOK
    <3> QED
      BY <2>1, <2>2, <3>1 DEF IInv, TypeOK, shown,
        BeforeUp, BlocksOfTheRuntime, NeverSilentlyDown, MenuTellsTruth
  <2>3. CASE UNCHANGED <<blocks, last>> /\ missed' \in BOOLEAN
    BY <2>1, <2>3 DEF IInv, TypeOK, shown,
      BeforeUp, BlocksOfTheRuntime, NeverSilentlyDown, MenuTellsTruth
  <2> QED
    BY <1>7, <1>t, <2>2, <2>3 DEF Notice, TypeOK
<1>8. CASE RunBlock
  <2>1. /\ Head(blocks) \in Spaces /\ blocks' \in Seq(Spaces)
        /\ title' = Head(blocks) /\ error' = None
        /\ items' = IF "error" \in items THEN {} ELSE items
        /\ UNCHANGED <<stage, outside, running, last, polling, missed>>
    BY <1>8, <1>t DEF RunBlock, Show, ItemsAfter, EnterReady, TypeOK
  <2>2. running /\ stage = "up"
    BY <1>8 DEF RunBlock, IInv, TypeOK, BeforeUp, BlocksOfTheRuntime
  <2>3. "error" \notin items
    BY <2>2 DEF IInv, MenuTellsTruth
  <2> QED
    BY <2>1, <2>2, <2>3 DEF IInv, TypeOK, outside,
      BeforeUp, BlocksOfTheRuntime, NeverSilentlyDown, MenuTellsTruth
<1>9. CASE ChangeSpace \/ ChangeAccess \/ EditFile
  <2>1. /\ space' \in Spaces /\ notices' \in 0 .. MaxNotices
        /\ access' \in BOOLEAN /\ file' \in {"good", "bad"}
        /\ UNCHANGED <<stage, core, shown, polling, missed>>
    <3>1. CASE ChangeSpace
      BY <3>1, <1>t DEF ChangeSpace, TypeOK
    <3>2. CASE ChangeAccess
      BY <3>2, <1>t DEF ChangeAccess, TypeOK
    <3>3. CASE EditFile
      BY <3>3, <1>t DEF EditFile, TypeOK
    <3> QED
      BY <1>9, <3>1, <3>2, <3>3
  <2> QED
    BY <2>1 DEF IInv, TypeOK, core, shown,
      BeforeUp, BlocksOfTheRuntime, NeverSilentlyDown, MenuTellsTruth
<1>10. CASE UNCHANGED vars
  BY <1>10 DEF vars, IInv, TypeOK, outside, core, shown,
    BeforeUp, BlocksOfTheRuntime, NeverSilentlyDown, MenuTellsTruth
<1> QED
  BY <1>1, <1>2, <1>3, <1>4, <1>5, <1>6, <1>7, <1>8, <1>9, <1>10 DEF Next

LEMMA Invariance == Spec => []IInv
  BY InitInv, StepInv, PTL DEF Spec

-----------------------------------------------------------------------------
(***************************************************************************)
(* The variables always have their types, for any spaces and bounds        *)
(* (SHRuntimeHost.mm, AppDelegate.m).                                      *)
(***************************************************************************)
THEOREM TypeCorrect == Spec => []TypeOK
<1>1. IInv => TypeOK
  BY DEF IInv
<1> QED
  BY Invariance, <1>1, PTL

(***************************************************************************)
(* The app is never silently down: from the launch prompt on, it polls for *)
(* access or the menu names an error whenever the runtime does not run     *)
(* (AppDelegate.m:381-513).                                                *)
(***************************************************************************)
THEOREM NeverSilentlyDownAlways == Spec => []NeverSilentlyDown
<1>1. IInv => NeverSilentlyDown
  BY DEF IInv
<1> QED
  BY Invariance, <1>1, PTL

(***************************************************************************)
(* The items and the badge of the status menu always say what is so        *)
(* (AppDelegate.m:141-148, 409-450).                                       *)
(***************************************************************************)
THEOREM MenuTellsTruthAlways == Spec => []MenuTellsTruth
<1>1. IInv => MenuTellsTruth
  BY DEF IInv
<1> QED
  BY Invariance, <1>1, PTL
=============================================================================
