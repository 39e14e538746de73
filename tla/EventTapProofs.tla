--------------------------- MODULE EventTapProofs ---------------------------
(***************************************************************************)
(* Proofs about the event tap, for any documents, shortcuts, number of     *)
(* spaces and number of things under way: type correctness, gestures that  *)
(* are swallowed or passed as a whole, but for the cases WholeGestures     *)
(* names, swipes that end where they were asked to, and deferred actions   *)
(* that are the ones the user pressed for.                                 *)
(***************************************************************************)
EXTENDS EventTap, WorkspacePlanProofs

-----------------------------------------------------------------------------
(* What the tap finds for a press is what the user pressed for.            *)
LEMMA Places ==
  /\ \A i \in DOMAIN Alphabetical : i \in Nat
  /\ \A i \in DOMAIN Alphabetical :
       Alphabetical[i] \in [stem : STRING, to : STRING, number : Nat]
<1>1. /\ DOMAIN Alphabetical = 1 .. Len(Alphabetical)
      /\ Len(Alphabetical) \in Nat
      /\ \A i \in 1 .. Len(Alphabetical) :
           Alphabetical[i] \in [stem : STRING, to : STRING, number : Nat]
  <2> DEFINE Id == [stem : STRING, to : STRING, number : Nat]
  <2> HIDE DEF Id
  <2>1. Alphabetical \in Seq(Id)
    BY AlphabeticalAssumption DEF Id
  <2>2. /\ DOMAIN Alphabetical = 1 .. Len(Alphabetical)
        /\ Len(Alphabetical) \in Nat
        /\ \A i \in 1 .. Len(Alphabetical) : Alphabetical[i] \in Id
    BY <2>1
  <2> QED BY <2>2 DEF Id
<1> QED BY <1>1

LEMMA RequestTyped ==
  ASSUME NEW i \in DOMAIN Alphabetical, NEW doc \in Documents,
         RequestOf(Alphabetical[i], doc) # None
  PROVE  RequestOf(Alphabetical[i], doc) \in Requests
<1> DEFINE id == Alphabetical[i]
<1>1. id \in [stem : STRING, to : STRING, number : Nat]
  BY Places
<1>2. CASE id.stem = "switch_space" /\ NumberOrSide(id)
  BY <1>1, <1>2, EventTapAssumption DEF RequestOf, Requests, NumberOrSide
<1>3. CASE id.stem = "switch_display" /\ NumberOrSide(id)
  BY <1>1, <1>3, EventTapAssumption DEF RequestOf, Requests, NumberOrSide
<1>4. CASE id.stem = "mission_control" /\ id.to = "toggle"
  BY <1>4 DEF RequestOf, Requests
<1>5. CASE id.stem = "expose" /\ id.to = "toggle"
  BY <1>5 DEF RequestOf, Requests
<1>6. CASE id.stem = "window_focus" /\ id.to \in {"next", "prev"}
  BY <1>6 DEF RequestOf, Requests
<1> QED
  BY <1>2, <1>3, <1>4, <1>5, <1>6 DEF RequestOf

LEMMA RankOfPlace ==
  ASSUME NEW i \in DOMAIN Alphabetical
  PROVE  RankOf(Alphabetical[i]) = i
BY AlphabeticalAssumption DEF RankOf

LEMMA MatchIsOwed ==
  ASSUME NEW doc \in Documents, NEW press,
         FirstMatch(CompileRuntimeConfig(doc), press) # None
  PROVE  /\ FirstMatch(CompileRuntimeConfig(doc), press).request = OwedFor(doc, press)
         /\ OwedFor(doc, press) \in Requests
<1> DEFINE hotkeys == CompileRuntimeConfig(doc).active_hotkeys
           hits  == {i \in DOMAIN hotkeys : HotkeyMatches(hotkeys[i], press)}
           first == {i \in hits : \A j \in hits : i <= j}
           ids   == Called(doc, press)
<1>1. DOMAIN hotkeys = {i \in DOMAIN Alphabetical : Active(Alphabetical[i], doc)}
  BY DEF CompileRuntimeConfig
<1>2. \A i \in DOMAIN hotkeys : hotkeys[i] = CompileAction(Alphabetical[i], doc)
  BY DEF CompileRuntimeConfig
<1>3. PICK i \in first : FirstMatch(CompileRuntimeConfig(doc), press) = hotkeys[i]
  BY DEF FirstMatch
<1>4. ids = {Alphabetical[j] : j \in hits}
  <2>1. ASSUME NEW id \in ids PROVE id \in {Alphabetical[j] : j \in hits}
    <3>1. PICK j \in DOMAIN Alphabetical : Alphabetical[j] = id
      BY DEF Called, ActionIds, Words
    <3> QED BY <3>1, <1>1, <1>2 DEF Called
  <2>2. ASSUME NEW j \in hits PROVE Alphabetical[j] \in ids
    BY <1>1, <1>2 DEF Called, ActionIds, Words
  <2> QED BY <2>1, <2>2
<1>5. \A j \in hits : RankOf(Alphabetical[j]) = j
  BY <1>1, RankOfPlace
<1>6. \A j \in hits : j \in Nat
  BY <1>1, Places
<1>7. \A id \in ids : (\A other \in ids : RankOf(id) <= RankOf(other)) <=> id = Alphabetical[i]
  BY <1>3, <1>4, <1>5, <1>6
<1>8. (CHOOSE id \in ids : \A other \in ids : RankOf(id) <= RankOf(other)) = Alphabetical[i]
  BY <1>3, <1>4, <1>7
<1>9. OwedFor(doc, press) = RequestOf(Alphabetical[i], doc)
  BY <1>8 DEF OwedFor
<1>10. i \in DOMAIN Alphabetical /\ CompileAction(Alphabetical[i], doc) # None
  BY <1>1, <1>3 DEF Active
<1>11. /\ CompileAction(Alphabetical[i], doc).request = RequestOf(Alphabetical[i], doc)
       /\ RequestOf(Alphabetical[i], doc) # None
  BY <1>10 DEF CompileAction
<1> QED
  BY <1>2, <1>3, <1>9, <1>10, <1>11, RequestTyped

-----------------------------------------------------------------------------
(***************************************************************************)
(* Type correctness.                                                       *)
(***************************************************************************)
LEMMA Plannable ==
  ASSUME NEW request \in Requests, request.kind = "workspace"
  PROVE  request.action \in WorkspaceActions /\ request.index \in Nat
BY DEF Requests, WorkspaceActions

LEMMA SwipeTyped ==
  ASSUME NEW dir \in Directions, NEW parked \in BOOLEAN
  PROVE  SyntheticSwipe(dir, parked) \in Swipe
BY DEF SyntheticSwipe, Swipe

LEMMA RepeatedSeq ==
  ASSUME NEW S, NEW n \in Nat, NEW e \in S
  PROVE  [i \in 1 .. n |-> e] \in Seq(S)
OBVIOUS

LEMMA FilteredTyped ==
  ASSUME TypeOK, NEW dir \in Directions, NEW rest \in Seq(Swipe),
         FilteredBegin(dir, rest)
  PROVE  /\ stream' \in Seq(Swipe)
         /\ goal' \in (0 .. NumSpaces - 1) \cup {None}
         /\ got' \subseteq Phases
         /\ replays' \in 0 .. 1
         /\ excused' \in BOOLEAN
<1>1. AfterSwipe(dir, at, NumSpaces) \in 0 .. NumSpaces - 1
  BY AfterSwipeInRange, EventTapAssumption DEF TypeOK
<1>2. CASE AtBoundary(dir) /\ stream' = rest /\ got' = {} /\ replays' = 0
           /\ excused' = FALSE
           /\ goal' = IF rest = <<>> THEN AfterSwipe(dir, at, NumSpaces) ELSE None
  <2>1. goal' \in (0 .. NumSpaces - 1) \cup {None}
    BY <1>1, <1>2
  <2>2. got' \subseteq Phases
    BY <1>2
  <2>3. stream' \in Seq(Swipe) /\ replays' \in 0 .. 1
    BY <1>2
  <2>4. excused' \in BOOLEAN
    BY <1>2
  <2> QED BY <2>1, <2>2, <2>3, <2>4
<1>3. CASE Replay(dir, rest) /\ got' = {} /\ replays' = 1 /\ excused' = FALSE
           /\ goal' = IF rest = <<>> THEN AfterSwipe(dir, at, NumSpaces) ELSE None
  <2>1. PICK overlay \in BOOLEAN :
          stream' = Append(rest, SyntheticSwipe(dir, dir = "down" /\ overlay))
    BY <1>3 DEF Replay
  <2>2. SyntheticSwipe(dir, dir = "down" /\ overlay) \in Swipe
    BY SwipeTyped
  <2>3. stream' \in Seq(Swipe)
    BY <2>1, <2>2
  <2>4. goal' \in (0 .. NumSpaces - 1) \cup {None}
    BY <1>1, <1>3
  <2>5. got' \subseteq Phases
    BY <1>3
  <2>6. replays' \in 0 .. 1
    BY <1>3
  <2>7. excused' \in BOOLEAN
    BY <1>3
  <2> QED BY <2>3, <2>4, <2>5, <2>6, <2>7
<1>4. CASE stream' = rest /\ got' = {"begin"} /\ replays' = 0
           /\ excused' = TRUE /\ goal' = None
  BY <1>4 DEF Phases
<1> QED BY <1>2, <1>3, <1>4 DEF FilteredBegin

LEMMA PostsTyped ==
  ASSUME TypeOK, NEW request \in Requests, PostsFor(request)
  PROVE  /\ stream' \in Seq(Swipe)
         /\ at' \in 0 .. NumSpaces - 1
         /\ goal' \in (0 .. NumSpaces - 1) \cup {None}
<1>1. CASE request.kind # "workspace"
  BY <1>1 DEF PostsFor, TypeOK, swipes
<1>2. CASE request.kind = "workspace"
  <2> DEFINE motion == PlanWorkspaceRequest(request, at, NumSpaces)
  <2>2. SpaceAskedFor(request, at, NumSpaces) \in 0 .. NumSpaces - 1
    BY <1>2, MotionPlanned, Plannable, EventTapAssumption DEF TypeOK
  <2>3. motion \in Motions
    BY <1>2, MotionPlanned, Plannable, EventTapAssumption DEF TypeOK
  <2>4. PICK made \in 0 .. motion.count :
          /\ stream' = stream \o [i \in 1 .. made |-> SyntheticSwipe(motion.direction, FALSE)]
          /\ goal' \in {SpaceAskedFor(request, at, NumSpaces), None}
          /\ at' = at
    BY <1>2 DEF PostsFor
  <2>5. SyntheticSwipe(motion.direction, FALSE) \in Swipe
    BY <2>3, SwipeTyped DEF Motions, Directions
  <2>6. made \in Nat
    BY <2>3 DEF Motions
  <2> DEFINE posted == [i \in 1 .. made |-> SyntheticSwipe(motion.direction, FALSE)]
  <2>7. posted \in Seq(Swipe)
    <3> DEFINE s == SyntheticSwipe(motion.direction, FALSE)
    <3>1. s \in Swipe
      BY <2>5
    <3> QED BY <2>6, <3>1, RepeatedSeq
  <2>8. stream' \in Seq(Swipe)
    <3> HIDE DEF posted
    <3>1. stream \in Seq(Swipe)
      BY DEF TypeOK
    <3>2. stream' = stream \o posted
      BY <2>4 DEF posted
    <3> QED BY <2>7, <3>1, <3>2
  <2> QED BY <2>2, <2>4, <2>8 DEF TypeOK
<1> QED BY <1>1, <1>2

THEOREM TypeCorrect == Spec => []TypeOK
<1>1. Init => TypeOK
  <2> SUFFICES ASSUME Init PROVE TypeOK
    OBVIOUS
  <2>1. got \subseteq Phases /\ replays \in 0 .. 1
    BY DEF Init
  <2>2. excused \in BOOLEAN /\ suspended \in BOOLEAN
    BY DEF Init
  <2>3. queue \in Seq(Requests) /\ stream \in Seq(Swipe)
    BY DEF Init
  <2> QED BY <2>1, <2>2, <2>3 DEF Init, TypeOK
<1>2. TypeOK /\ [Next]_vars => TypeOK'
  <2> SUFFICES ASSUME TypeOK, [Next]_vars PROVE TypeOK'
    OBVIOUS
  <2>1. CASE Start
    BY <2>1 DEF TypeOK, Start, FilterKept, keys, swipes, gesture
  <2>2. CASE ReloadSettings
    BY <2>2 DEF TypeOK, ReloadSettings, FilterKept, keys, swipes, gesture
  <2>3. CASE Stop
    BY <2>3 DEF TypeOK, Stop, FilterKept, keys, swipes, gesture
  <2>4. CASE SetInputSuspended
    BY <2>4 DEF TypeOK, SetInputSuspended, keys, swipes, gesture
  <2>5. CASE Disable
    BY <2>5 DEF TypeOK, Disable, FilterKept, keys, swipes, gesture
  <2>6. CASE Reenable
    BY <2>6 DEF TypeOK, Reenable, FilterKept, keys, swipes, gesture
  <2>7. CASE EditFile
    BY <2>7 DEF TypeOK, EditFile, runtime, keys, swipes, gesture
  <2>8. ASSUME NEW press \in Presses, KeyDown(press) PROVE TypeOK'
    <3>1. applied \in Documents /\ config = CompileRuntimeConfig(applied)
      BY <2>8 DEF KeyDown, TypeOK
    <3>2. FirstMatch(config, press).request \in Requests
      BY <2>8, <3>1, MatchIsOwed DEF KeyDown
    <3>3. queue' \in Seq(Requests)
      BY <2>8, <3>2 DEF KeyDown, TypeOK
    <3> QED BY <2>8, <3>3 DEF TypeOK, KeyDown, runtime, swipes, gesture
  <2>9. ASSUME NEW dir \in Gestures, BeginGesture(dir) PROVE TypeOK'
    <3>1. dir \in Directions
      BY EventTapAssumption
    <3>2. /\ stream' \in Seq(Swipe)
          /\ goal' \in (0 .. NumSpaces - 1) \cup {None}
          /\ got' \subseteq Phases
          /\ replays' \in 0 .. 1
          /\ excused' \in BOOLEAN
      <4>1. CASE Filters
        BY <2>9, <3>1, <4>1, FilteredTyped DEF BeginGesture, TypeOK
      <4>2. CASE ~Filters
        <5>1. stream' = stream /\ goal' = goal /\ got' = {"begin"} /\ replays' = 0
              /\ excused' = FALSE
          BY <2>9, <4>2 DEF BeginGesture
        <5>2. got' \subseteq Phases
          BY <5>1 DEF Phases
        <5>3. replays' \in 0 .. 1
          BY <5>1
        <5>4. excused' \in BOOLEAN
          BY <5>1
        <5> QED BY <5>1, <5>2, <5>3, <5>4 DEF TypeOK
      <4> QED BY <4>1, <4>2
    <3> QED BY <2>9, <3>1, <3>2 DEF TypeOK, BeginGesture, runtime, keys
  <2>10. CASE UpdateGesture
    BY <2>10 DEF TypeOK, UpdateGesture, Phases, runtime, keys, swipes
  <2>11. CASE EndGesture
    <3>1. at' \in 0 .. NumSpaces - 1 /\ goal' \in (0 .. NumSpaces - 1) \cup {None}
      BY <2>11, AfterSwipeInRange, EventTapAssumption DEF TypeOK, EndGesture
    <3> QED BY <2>11, <3>1 DEF TypeOK, EndGesture, Phases, runtime, keys
  <2>12. CASE CancelGesture
    BY <2>12 DEF TypeOK, CancelGesture, Phases, runtime, keys, swipes
  <2>13. CASE SwipeArrives
    <3>1. Head(stream) \in Swipe /\ Tail(stream) \in Seq(Swipe)
      BY <2>13 DEF TypeOK, SwipeArrives
    <3>2. CASE Filters /\ ~Head(stream).synthetic
      <4>1. Head(stream).direction \in Directions
        BY <3>1 DEF Swipe
      <4>2. FilteredBegin(Head(stream).direction, Tail(stream)) /\ at' = at
        BY <2>13, <3>2 DEF SwipeArrives
      <4> QED
        BY <2>13, <3>1, <4>1, <4>2, FilteredTyped DEF TypeOK, SwipeArrives, runtime, keys
    <3>3. CASE ~(Filters /\ ~Head(stream).synthetic)
      BY <2>13, <3>1, <3>3, AfterSwipeInRange, EventTapAssumption DEF TypeOK, SwipeArrives, runtime, keys
    <3> QED BY <3>2, <3>3
  <2>14. CASE RunDeferred
    <3>1. Head(queue) \in Requests /\ queue' \in Seq(Requests)
      BY <2>14 DEF TypeOK, RunDeferred
    <3>2. PostsFor(Head(queue))
      BY <2>14 DEF RunDeferred
    <3> QED
      BY <2>14, <3>1, <3>2, PostsTyped DEF TypeOK, RunDeferred, runtime, gesture
  <2>15. CASE UNCHANGED vars
    BY <2>15 DEF TypeOK, vars, runtime, keys, swipes, gesture
  <2> QED
    BY <2>1, <2>2, <2>3, <2>4, <2>5, <2>6, <2>7, <2>8, <2>9, <2>10, <2>11,
       <2>12, <2>13, <2>14, <2>15 DEF Next
<1> QED BY <1>1, <1>2, PTL DEF Spec

-----------------------------------------------------------------------------
(***************************************************************************)
(* Every swipe on its way bears the mark, so the tap never filters one.    *)
(***************************************************************************)
Marked == \A i \in DOMAIN stream : stream[i].synthetic

LEMMA PostsMarked ==
  ASSUME TypeOK, Marked, NEW request \in Requests, PostsFor(request)
  PROVE  Marked'
<1>1. CASE request.kind # "workspace"
  BY <1>1 DEF PostsFor, Marked, swipes
<1>2. CASE request.kind = "workspace"
  <2> DEFINE motion == PlanWorkspaceRequest(request, at, NumSpaces)
             s == SyntheticSwipe(motion.direction, FALSE)
  <2>2. motion.count \in Nat
    BY <1>2, MotionPlanned, Plannable, EventTapAssumption DEF TypeOK
  <2>3. PICK made \in 0 .. motion.count : stream' = stream \o [i \in 1 .. made |-> s]
    BY <1>2 DEF PostsFor
  <2>4. s.synthetic
    BY DEF SyntheticSwipe
  <2>5. stream \in Seq(Swipe) /\ made \in Nat
    BY <2>2 DEF TypeOK
  <2>6. \A i \in DOMAIN (stream \o [j \in 1 .. made |-> s]) :
          (stream \o [j \in 1 .. made |-> s])[i].synthetic
    <3> HIDE DEF s
    <3>1. DOMAIN stream = 1 .. Len(stream) /\ Len(stream) \in Nat
      BY <2>5
    <3> QED BY <2>4, <2>5, <3>1 DEF Marked
  <2> QED BY <2>3, <2>6 DEF Marked
<1> QED BY <1>1, <1>2

LEMMA ReplayMarked ==
  ASSUME TypeOK, Marked, NEW dir \in Directions, FilteredBegin(dir, stream)
  PROVE  Marked'
<1>1. CASE stream' = stream
  BY <1>1 DEF Marked
<1>2. CASE Replay(dir, stream)
  <2>1. PICK overlay \in BOOLEAN :
          stream' = Append(stream, SyntheticSwipe(dir, dir = "down" /\ overlay))
    BY <1>2 DEF Replay
  <2> DEFINE s == SyntheticSwipe(dir, dir = "down" /\ overlay)
  <2>2. s.synthetic
    BY DEF SyntheticSwipe
  <2>3. stream \in Seq(Swipe) /\ stream' = Append(stream, s)
    BY <2>1 DEF TypeOK
  <2> HIDE DEF s
  <2> QED BY <2>2, <2>3 DEF Marked
<1> QED BY <1>1, <1>2 DEF FilteredBegin

(* A swipe that arrives goes to the Dock.                                  *)
LEMMA MarkedArrives ==
  ASSUME TypeOK, Marked, SwipeArrives
  PROVE  /\ stream # <<>>
         /\ stream' = Tail(stream)
         /\ at' = AfterSwipe(Head(stream).direction, at, NumSpaces)
         /\ UNCHANGED <<got, replays, excused, goal>>
         /\ UNCHANGED <<file, runtime, keys, finger>>
<1>1. stream # <<>> /\ stream \in Seq(Swipe)
  BY DEF SwipeArrives, TypeOK
<1>2. Head(stream).synthetic
  BY <1>1 DEF Marked
<1> QED BY <1>1, <1>2 DEF SwipeArrives

LEMMA MarkedAlways == Spec => []Marked
<1>1. Init => Marked
  BY DEF Init, Marked
<1>2. TypeOK /\ Marked /\ [Next]_vars => Marked'
  <2> SUFFICES ASSUME TypeOK, Marked, [Next]_vars PROVE Marked'
    OBVIOUS
  <2>1. CASE \/ Start \/ ReloadSettings \/ Stop \/ SetInputSuspended \/ Disable
             \/ Reenable \/ EditFile
    BY <2>1 DEF Marked, Start, ReloadSettings, Stop, SetInputSuspended, Disable,
                Reenable, EditFile, swipes
  <2>2. ASSUME NEW press \in Presses, KeyDown(press) PROVE Marked'
    BY <2>2 DEF Marked, KeyDown, swipes
  <2>3. ASSUME NEW dir \in Gestures, BeginGesture(dir) PROVE Marked'
    <3>1. CASE Filters
      BY <2>3, <3>1, ReplayMarked, EventTapAssumption DEF BeginGesture
    <3>2. CASE ~Filters
      BY <2>3, <3>2 DEF BeginGesture, Marked
    <3> QED BY <3>1, <3>2
  <2>4. CASE UpdateGesture \/ EndGesture \/ CancelGesture
    BY <2>4 DEF Marked, UpdateGesture, EndGesture, CancelGesture, swipes
  <2>5. CASE SwipeArrives
    <3>1. stream' = Tail(stream) /\ stream # <<>> /\ stream \in Seq(Swipe)
      BY <2>5, MarkedArrives DEF TypeOK
    <3> QED BY <3>1 DEF Marked
  <2>6. CASE RunDeferred
    <3>1. Head(queue) \in Requests
      BY <2>6 DEF TypeOK, RunDeferred
    <3> QED BY <2>6, <3>1, PostsMarked DEF RunDeferred
  <2>7. CASE UNCHANGED vars
    BY <2>7 DEF Marked, vars, swipes
  <2> QED BY <2>1, <2>2, <2>3, <2>4, <2>5, <2>6, <2>7 DEF Next
<1> QED BY <1>1, <1>2, TypeCorrect, PTL DEF Spec

-----------------------------------------------------------------------------
(***************************************************************************)
(* Swipes that were asked for with nothing on its way go in one direction, *)
(* and lead from where the display is to what was asked for.               *)
(***************************************************************************)
Leads ==
  goal # None =>
    \E dir \in Directions :
      /\ \A i \in DOMAIN stream : stream[i].direction = dir
      /\ goal = Landed(dir, at, Len(stream), NumSpaces)

LEMMA PostsLead ==
  ASSUME TypeOK, Leads, NEW request \in Requests, PostsFor(request)
  PROVE  Leads'
<1>1. CASE request.kind # "workspace"
  BY <1>1 DEF PostsFor, Leads, swipes
<1>2. CASE request.kind = "workspace" /\ goal' # None
  <2> DEFINE motion == PlanWorkspaceRequest(request, at, NumSpaces)
             asked == SpaceAskedFor(request, at, NumSpaces)
             s == SyntheticSwipe(motion.direction, FALSE)
             posted == [i \in 1 .. motion.count |-> s]
  <2>1. /\ stream = <<>>
        /\ stream' = stream \o posted
        /\ goal' = asked
        /\ at' = at
    BY <1>2 DEF PostsFor
  <2>2. /\ asked \in 0 .. NumSpaces - 1
        /\ motion.direction \in Horizontal
        /\ motion.count \in Nat
        /\ motion.direction = "left" => at - motion.count = asked
        /\ motion.direction = "right" => at + motion.count = asked
    BY <1>2, MotionPlanned, Plannable, EventTapAssumption DEF TypeOK
  <2>3. s.direction = motion.direction
    BY DEF SyntheticSwipe
  <2>4. at \in 0 .. NumSpaces - 1
    BY DEF TypeOK
  <2> HIDE DEF motion, asked, s
  <2>5. /\ stream' = posted
        /\ \A i \in DOMAIN posted : posted[i].direction = motion.direction
        /\ Len(posted) = motion.count
    BY <2>1, <2>2, <2>3
  <2>6. asked = Landed(motion.direction, at, motion.count, NumSpaces)
    BY <2>2, <2>4, EventTapAssumption DEF Landed, Horizontal
  <2>7. motion.direction \in Directions
    BY <2>2 DEF Directions
  <2> HIDE DEF posted
  <2> QED BY <2>1, <2>5, <2>6, <2>7 DEF Leads
<1>3. CASE goal' = None
  BY <1>3 DEF Leads
<1> QED BY <1>1, <1>2, <1>3

LEMMA BeginLeads ==
  ASSUME TypeOK, NEW dir \in Directions, FilteredBegin(dir, stream), at' = at
  PROVE  Leads'
<1>1. CASE goal' = None
  BY <1>1 DEF Leads
<1> DEFINE there == AfterSwipe(dir, at, NumSpaces)
<1>2. CASE stream = <<>> /\ stream' = stream /\ AtBoundary(dir) /\ goal' = there
  <2>1. there = at
    BY <1>2, EventTapAssumption DEF AtBoundary, AfterSwipe, TypeOK
  <2>2. at = Landed(dir, at, 0, NumSpaces)
    BY LandedNone, EventTapAssumption DEF TypeOK
  <2>3. Len(stream') = 0 /\ DOMAIN stream' = {}
    BY <1>2
  <2> QED BY <1>2, <2>1, <2>2, <2>3 DEF Leads
<1>3. CASE stream = <<>> /\ Replay(dir, stream) /\ goal' = there
  <2>1. PICK overlay \in BOOLEAN :
          stream' = Append(stream, SyntheticSwipe(dir, dir = "down" /\ overlay))
    BY <1>3 DEF Replay
  <2> DEFINE s == SyntheticSwipe(dir, dir = "down" /\ overlay)
  <2>2. s.direction = dir
    BY DEF SyntheticSwipe
  <2> HIDE DEF s
  <2>3. stream' = <<s>>
    BY <1>3, <2>1 DEF s
  <2>4. there = Landed(dir, at, 1, NumSpaces)
    BY EventTapAssumption DEF Landed, AfterSwipe, TypeOK
  <2> QED BY <1>3, <2>2, <2>3, <2>4 DEF Leads
<1> QED BY <1>1, <1>2, <1>3 DEF FilteredBegin

LEMMA ArrivalLeads ==
  ASSUME TypeOK, Marked, Leads, SwipeArrives
  PROVE  Leads'
<1> SUFFICES ASSUME goal' # None PROVE Leads'
  BY DEF Leads
<1>1. /\ stream # <<>>
      /\ stream' = Tail(stream)
      /\ at' = AfterSwipe(Head(stream).direction, at, NumSpaces)
      /\ goal' = goal
  BY MarkedArrives
<1>2. PICK dir \in Directions :
        /\ \A i \in DOMAIN stream : stream[i].direction = dir
        /\ goal = Landed(dir, at, Len(stream), NumSpaces)
  BY <1>1 DEF Leads
<1>3. stream \in Seq(Swipe) /\ at \in 0 .. NumSpaces - 1
  BY DEF TypeOK
<1>4. Head(stream).direction = dir
  BY <1>1, <1>2, <1>3
<1>5. /\ Len(stream') \in Nat
      /\ Len(stream) = Len(stream') + 1
      /\ \A i \in DOMAIN stream' : stream'[i].direction = dir
  BY <1>1, <1>2, <1>3
<1>6. goal' = Landed(dir, at', Len(stream'), NumSpaces)
  BY <1>1, <1>2, <1>3, <1>4, <1>5, LandedOne, EventTapAssumption
<1> QED BY <1>5, <1>6 DEF Leads

(* A swipe or hotkey that nothing interferes with ends where it asked to.  *)
THEOREM AskedReached == Spec => []AskedIsReached
<1>1. Init => Leads
  BY DEF Init, Leads
<1>2. TypeOK /\ Marked /\ Leads /\ [Next]_vars => Leads'
  <2> SUFFICES ASSUME TypeOK, Marked, Leads, [Next]_vars PROVE Leads'
    OBVIOUS
  <2>1. CASE Start \/ ReloadSettings \/ Stop \/ SetInputSuspended \/ Disable
               \/ Reenable \/ EditFile
    BY <2>1 DEF Leads, Start, ReloadSettings, Stop, SetInputSuspended, Disable,
       Reenable, EditFile, swipes
  <2>2. ASSUME NEW press \in Presses, KeyDown(press) PROVE Leads'
    BY <2>2 DEF Leads, KeyDown, swipes
  <2>3. ASSUME NEW dir \in Gestures, BeginGesture(dir) PROVE Leads'
    <3>1. CASE Filters
      BY <2>3, <3>1, BeginLeads, EventTapAssumption DEF BeginGesture
    <3>2. CASE ~Filters
      BY <2>3, <3>2 DEF BeginGesture, Leads
    <3> QED BY <3>1, <3>2
  <2>4. CASE UpdateGesture \/ CancelGesture
    BY <2>4 DEF Leads, UpdateGesture, CancelGesture, swipes
  <2>5. CASE EndGesture
    BY <2>5 DEF Leads, EndGesture
  <2>6. CASE SwipeArrives
    BY <2>6, ArrivalLeads
  <2>7. CASE RunDeferred
    <3>1. Head(queue) \in Requests
      BY <2>7 DEF TypeOK, RunDeferred
    <3> QED BY <2>7, <3>1, PostsLead DEF RunDeferred
  <2>8. CASE UNCHANGED vars
    BY <2>8 DEF Leads, vars, swipes
  <2> QED BY <2>1, <2>2, <2>3, <2>4, <2>5, <2>6, <2>7, <2>8 DEF Next
<1>3. TypeOK /\ Leads => AskedIsReached
  <2> SUFFICES ASSUME TypeOK, Leads, stream = <<>>, goal # None PROVE at = goal
    BY DEF AskedIsReached
  <2>1. PICK dir \in Directions : goal = Landed(dir, at, Len(stream), NumSpaces)
    BY DEF Leads
  <2>2. Len(stream) = 0
    OBVIOUS
  <2> QED BY <2>1, <2>2, LandedNone, EventTapAssumption DEF TypeOK
<1> QED BY <1>1, <1>2, <1>3, TypeCorrect, MarkedAlways, PTL DEF Spec

-----------------------------------------------------------------------------
(***************************************************************************)
(* A gesture that is not excused met one and the same filter from its      *)
(* beginning on: all of it was swallowed, or none of it.                   *)
(***************************************************************************)
OneFilter ==
  finger # None /\ ~excused =>
    IF Filters THEN got = {} ELSE "begin" \in got /\ replays = 0

WholeInv == OneFilter /\ WholeGestures

(* What leaves the gesture alone, and may switch the filter, keeps it.     *)
LEMMA FilterKeptWhole ==
  ASSUME WholeInv, FilterKept, UNCHANGED gesture, excused \in BOOLEAN
  PROVE  WholeInv'
<1>1. finger' = finger /\ got' = got /\ replays' = replays
  BY DEF gesture
<1>2. CASE excused
  <2>1. excused'
    BY <1>2 DEF FilterKept
  <2> QED BY <1>1, <2>1 DEF WholeInv, OneFilter, WholeGestures
<1>3. CASE ~excused /\ finger = None
  BY <1>1, <1>3 DEF WholeInv, OneFilter, WholeGestures
<1>4. CASE ~excused /\ finger # None /\ Filters' # Filters
  <2>1. excused'
    BY <1>4 DEF FilterKept
  <2> QED BY <1>1, <2>1 DEF WholeInv, OneFilter, WholeGestures
<1>5. CASE ~excused /\ finger # None /\ Filters' = Filters
  BY <1>1, <1>5 DEF WholeInv, OneFilter, WholeGestures
<1> QED BY <1>2, <1>3, <1>4, <1>5

LEMMA NothingWhole ==
  ASSUME WholeInv, UNCHANGED <<finger, got, replays, tap, config, excused>>
  PROVE  WholeInv'
BY DEF WholeInv, OneFilter, WholeGestures, Filters

(* While filtering stays as it is and no replay fails, a gesture whose     *)
(* beginning is swallowed gives the Dock nothing but perhaps an            *)
(* undecodable last phase, and one whose beginning passes its end          *)
(* (daemon.cpp:655-710).                                                   *)
THEOREM GesturesWhole == Spec => []WholeGestures
<1>1. Init => WholeInv
  BY NoneAssumption DEF Init, WholeInv, OneFilter, WholeGestures
<1>2. TypeOK /\ Marked /\ WholeInv /\ [Next]_vars => WholeInv'
  <2> SUFFICES ASSUME TypeOK, Marked, WholeInv, [Next]_vars PROVE WholeInv'
    OBVIOUS
  <2>1. CASE Start \/ ReloadSettings \/ Stop \/ Disable \/ Reenable
    BY <2>1, FilterKeptWhole
       DEF Start, ReloadSettings, Stop, Disable, Reenable, TypeOK
  <2>2. CASE SetInputSuspended \/ EditFile
    BY <2>2, NothingWhole DEF SetInputSuspended, EditFile, runtime, gesture
  <2>3. ASSUME NEW press \in Presses, KeyDown(press) PROVE WholeInv'
    BY <2>3, NothingWhole DEF KeyDown, runtime, gesture
  <2>4. ASSUME NEW dir \in Gestures, BeginGesture(dir) PROVE WholeInv'
    <3>1. Filters' = Filters /\ finger' # None
      BY <2>4, EventTapAssumption, NoneAssumption DEF BeginGesture, Filters, runtime
    <3>2. CASE Filters
      <4>1. \/ got' = {} /\ excused' = FALSE
            \/ got' = {"begin"} /\ replays' = 0 /\ excused' = TRUE
        BY <2>4, <3>2 DEF BeginGesture, FilteredBegin
      <4> QED BY <3>1, <3>2, <4>1 DEF WholeInv, OneFilter, WholeGestures
    <3>3. CASE ~Filters
      <4>1. got' = {"begin"} /\ replays' = 0 /\ excused' = FALSE
        BY <2>4, <3>3 DEF BeginGesture
      <4> QED BY <3>1, <3>3, <4>1 DEF WholeInv, OneFilter, WholeGestures
    <3> QED BY <3>2, <3>3
  <2>5. CASE UpdateGesture
    <3>1. Filters' = Filters /\ UNCHANGED <<finger, replays, excused>> /\ finger # None
      BY <2>5 DEF UpdateGesture, Filters, runtime
    <3>2. got' = IF Filters THEN got ELSE got \cup {"update"}
      BY <2>5 DEF UpdateGesture
    <3> QED BY <3>1, <3>2 DEF WholeInv, OneFilter, WholeGestures
  <2>6. CASE EndGesture
    <3>1. finger' = None /\ UNCHANGED <<replays, excused>> /\ finger # None
      BY <2>6 DEF EndGesture
    <3>2. got' = IF Filters THEN got ELSE got \cup {"end"}
      BY <2>6 DEF EndGesture
    <3> QED BY <3>1, <3>2 DEF WholeInv, OneFilter, WholeGestures
  <2>7. CASE CancelGesture
    <3>1. finger' = None /\ UNCHANGED <<replays, excused>> /\ finger # None
      BY <2>7 DEF CancelGesture
    <3>2. got' = got \cup {"other"}
      BY <2>7 DEF CancelGesture
    <3> QED BY <3>1, <3>2 DEF WholeInv, OneFilter, WholeGestures
  <2>8. CASE SwipeArrives
    BY <2>8, MarkedArrives, NothingWhole DEF runtime
  <2>9. CASE RunDeferred
    BY <2>9, NothingWhole DEF RunDeferred, runtime, gesture
  <2>10. CASE UNCHANGED vars
    BY <2>10, NothingWhole DEF vars, runtime, gesture
  <2> QED
    BY <2>1, <2>2, <2>3, <2>4, <2>5, <2>6, <2>7, <2>8, <2>9, <2>10 DEF Next
<1>3. WholeInv => WholeGestures
  BY DEF WholeInv
<1> QED BY <1>1, <1>2, <1>3, TypeCorrect, MarkedAlways, PTL DEF Spec

-----------------------------------------------------------------------------
(***************************************************************************)
(* The main queue holds what the user pressed for.                         *)
(***************************************************************************)
THEOREM DeferredAreOwed == Spec => []DeferredIsOwed
<1>1. Init => DeferredIsOwed
  BY DEF Init, DeferredIsOwed
<1>2. TypeOK /\ DeferredIsOwed /\ [Next]_vars => DeferredIsOwed'
  <2> SUFFICES ASSUME TypeOK, DeferredIsOwed, [Next]_vars PROVE DeferredIsOwed'
    OBVIOUS
  <2>1. ASSUME NEW press \in Presses, KeyDown(press) PROVE DeferredIsOwed'
    <3>1. applied \in Documents /\ config = CompileRuntimeConfig(applied)
      BY <2>1 DEF KeyDown, TypeOK
    <3>2. FirstMatch(config, press).request = OwedFor(applied, press)
      BY <2>1, <3>1, MatchIsOwed DEF KeyDown
    <3> QED BY <2>1, <3>2 DEF KeyDown, DeferredIsOwed
  <2>2. CASE RunDeferred
    BY <2>2 DEF RunDeferred, DeferredIsOwed
  <2>3. CASE UNCHANGED keys
    BY <2>3 DEF DeferredIsOwed, keys
  <2>4. ASSUME NEW dir \in Gestures, BeginGesture(dir) PROVE UNCHANGED keys
    BY <2>4 DEF BeginGesture
  <2>5. CASE \/ Start \/ ReloadSettings \/ Stop \/ SetInputSuspended \/ Disable
             \/ Reenable \/ EditFile \/ UpdateGesture \/ EndGesture \/ CancelGesture
             \/ SwipeArrives \/ UNCHANGED vars
    BY <2>3, <2>5 DEF Start, ReloadSettings, Stop, SetInputSuspended, Disable, Reenable,
       EditFile, UpdateGesture, EndGesture, CancelGesture, SwipeArrives, vars
  <2> QED BY <2>1, <2>2, <2>3, <2>4, <2>5 DEF Next
<1> QED BY <1>1, <1>2, TypeCorrect, PTL DEF Spec
=============================================================================
