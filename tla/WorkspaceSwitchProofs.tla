------------------------ MODULE WorkspaceSwitchProofs ------------------------
(***************************************************************************)
(* Proofs about workspace switching, for any displays, spaces, requests    *)
(* and bounds: type correctness, that a request that nothing interferes    *)
(* with changes the display it is meant for, to the space it asks for, and *)
(* no other, and that in Mission Control the highlight follows it there.   *)
(***************************************************************************)
EXTENDS WorkspaceSwitch, WorkspacePlanProofs

(* What a layout is.                                                       *)
LEMMA LayoutRead ==
  ASSUME NEW f \in Layouts, NEW e \in AllEntries
  PROVE  f[e] \in 0 .. NumSpaces[e] - 1 /\ NumSpaces[e] \in Nat \ {0}
BY WorkspaceAssumption DEF Layouts

LEMMA IndexOfEntry ==
  ASSUME NEW e \in AllEntries, NEW x \in 0 .. NumSpaces[e] - 1
  PROVE  x \in Indices
BY DEF Indices

LEMMA LayoutChanged ==
  ASSUME NEW f \in Layouts, NEW e \in AllEntries, NEW x \in 0 .. NumSpaces[e] - 1
  PROVE  [f EXCEPT ![e] = x] \in Layouts
<1>1. x \in Indices
  BY IndexOfEntry
<1> QED BY <1>1 DEF Layouts

(* What a request is planned for.                                          *)
LEMMA Plannable ==
  ASSUME NEW req \in Requests
  PROVE  req.action \in WorkspaceActions /\ req.index \in Nat
BY WorkspaceAssumption

LEMMA Resolved ==
  ASSUME TypeOK, NEW req \in Requests,
         ResolveWorkspaceDisplay(req).entry \in Entries
  PROVE  LET r == ResolveWorkspaceDisplay(req)
         IN  /\ r.entry = MeantEntry(req)
             /\ r.entry \in AllEntries
             /\ r.place \in Displays \cup {Nothing}
             /\ EntryOf(IF r.place = Nothing THEN cursor ELSE r.place) = r.entry
             /\ r.display # Nothing =>
                  r.display \in Displays /\ ~unified /\ r.entry = r.display
<1>0. /\ cursor \in Displays /\ active \in Displays
      /\ session \in Displays \cup {Nothing}
      /\ Main \notin Displays /\ Nothing \notin Displays
  BY WorkspaceAssumption, NothingAssumption DEF TypeOK
<1>1. CASE OverlayIsShowing /\ session # Nothing
  BY <1>0, <1>1 DEF ResolveWorkspaceDisplay, MeantEntry, EntryOf, Entries, AllEntries
<1>2. CASE ~(OverlayIsShowing /\ session # Nothing) /\ unified
  BY <1>0, <1>2 DEF ResolveWorkspaceDisplay, MeantEntry, EntryOf, Entries, AllEntries
<1>3. CASE ~unified /\ OverlayIsShowing /\ session = Nothing
  BY <1>0, <1>3 DEF ResolveWorkspaceDisplay, MeantEntry, EntryOf, Entries, AllEntries
<1>4. CASE ~unified /\ ~OverlayIsShowing /\ req.target_focused_display
  BY <1>0, <1>4 DEF ResolveWorkspaceDisplay, MeantEntry, EntryOf, Entries, AllEntries
<1>5. CASE ~unified /\ ~OverlayIsShowing /\ ~req.target_focused_display
  BY <1>0, <1>5 DEF ResolveWorkspaceDisplay, MeantEntry, EntryOf, Entries, AllEntries
<1> QED BY <1>1, <1>2, <1>3, <1>4, <1>5

LEMMA MotionMade ==
  ASSUME TypeOK, NEW req \in Requests, NEW e \in AllEntries, NEW seen
  PROVE  /\ Motion(req, e, seen).direction \in Horizontal
         /\ Motion(req, e, seen).count \in Nat
         /\ seen # "expose" => TargetIndex(e, Motion(req, e, seen)) \in 0 .. NumSpaces[e] - 1
<1>1. at[e] \in 0 .. NumSpaces[e] - 1 /\ NumSpaces[e] \in Nat \ {0}
  BY LayoutRead DEF TypeOK
<1>2. req.action \in WorkspaceActions /\ req.index \in Nat
  BY Plannable
<1>3. CASE seen = "expose" /\ req.action \in Horizontal
  BY <1>3 DEF Motion
<1>4. CASE ~(seen = "expose" /\ req.action \in Horizontal)
  <2> DEFINE motion == PlanWorkspaceRequest(req, at[e], NumSpaces[e])
             asked == SpaceAskedFor(req, at[e], NumSpaces[e])
  <2>1. Motion(req, e, seen) = motion
    BY <1>4 DEF Motion
  <2>2. /\ asked \in 0 .. NumSpaces[e] - 1
        /\ motion.direction \in Horizontal
        /\ motion.count \in Nat
        /\ motion.direction = "left" => at[e] - motion.count = asked
        /\ motion.direction = "right" => at[e] + motion.count = asked
    BY <1>1, <1>2, MotionPlanned
  <2> HIDE DEF motion, asked
  <2>3. TargetIndex(e, motion) = asked
    BY <2>2 DEF TargetIndex, Horizontal
  <2> QED BY <2>1, <2>2, <2>3
<1> QED BY <1>3, <1>4

LEMMA RepeatedSwipe ==
  ASSUME NEW n \in Nat, NEW s \in Swipe
  PROVE  [i \in 1 .. n |-> s] \in Seq(Swipe)
OBVIOUS

LEMMA PostedTyped ==
  ASSUME TypeOK, NEW motion, motion.direction \in Horizontal, NEW made \in Nat,
         NEW place \in Displays \cup {Nothing}, PostSwipes(motion, made, place)
  PROVE  swipes' \in Seq(Swipe)
<1> DEFINE s == [direction |-> motion.direction, place |-> place]
<1>1. s \in Swipe
  BY DEF Swipe
<1> HIDE DEF s
<1>2. [i \in 1 .. made |-> s] \in Seq(Swipe)
  BY <1>1, RepeatedSwipe
<1>3. swipes' = swipes \o [i \in 1 .. made |-> s]
  BY DEF PostSwipes, s
<1>4. swipes \in Seq(Swipe)
  BY DEF TypeOK
<1> QED BY <1>2, <1>3, <1>4

LEMMA MeantInEntries ==
  ASSUME TypeOK, NEW req \in Requests
  PROVE  MeantEntry(req) \in AllEntries
<1>0. cursor \in Displays /\ active \in Displays /\ session \in Displays \cup {Nothing}
  BY DEF TypeOK
<1>1. \A d \in Displays : EntryOf(d) \in AllEntries
  BY DEF EntryOf, AllEntries
<1>2. CASE OverlayIsShowing /\ session # Nothing
  BY <1>0, <1>1, <1>2 DEF MeantEntry
<1>3. CASE OverlayIsShowing /\ session = Nothing
  BY <1>0, <1>1, <1>3 DEF MeantEntry
<1>4. CASE ~OverlayIsShowing
  BY <1>0, <1>1, <1>4 DEF MeantEntry
<1> QED BY <1>2, <1>3, <1>4

LEMMA AskedTyped ==
  ASSUME TypeOK, NEW req \in Requests, Asked(req) # Nothing
  PROVE  Asked(req) \in Layouts
<1> DEFINE e == MeantEntry(req)
           n == NumSpaces[e]
<1>1. e \in AllEntries
  BY MeantInEntries
<1>2. at \in Layouts /\ at[e] \in 0 .. n - 1 /\ n \in Nat \ {0}
  BY <1>1, LayoutRead DEF TypeOK
<1>3. CASE Asked(req) = at
  BY <1>2, <1>3
<1>4. CASE Asked(req) = [at EXCEPT ![e] = SpaceAskedFor(req, at[e], n)]
  <2>1. SpaceAskedFor(req, at[e], n) \in 0 .. n - 1
    BY <1>2, Plannable, AskedInRange
  <2> QED BY <1>1, <1>2, <1>4, <2>1, LayoutChanged
<1>5. CASE aim # Nothing /\ Asked(req) = [aim EXCEPT ![e] = AfterSwipe(req.action, aim[e], n)]
  <2>1. aim \in Layouts
    BY <1>5 DEF TypeOK
  <2>2. aim[e] \in 0 .. n - 1
    BY <1>1, <2>1, LayoutRead
  <2>3. AfterSwipe(req.action, aim[e], n) \in 0 .. n - 1
    BY <1>2, <2>2, AfterSwipeInRange
  <2> QED BY <1>1, <1>5, <2>1, <2>3, LayoutChanged
<1> QED BY <1>3, <1>4, <1>5 DEF Asked

LEMMA ShownTyped ==
  ASSUME TypeOK, NEW e \in AllEntries, NEW dir,
         Shows(e, AfterSwipe(dir, at[e], NumSpaces[e]))
  PROVE  at' \in Layouts /\ moving' \in BOOLEAN
<1> DEFINE there == AfterSwipe(dir, at[e], NumSpaces[e])
<1>1. there \in 0 .. NumSpaces[e] - 1
  BY LayoutRead, AfterSwipeInRange DEF TypeOK
<1>2. at' = [at EXCEPT ![e] = there]
  BY DEF Shows
<1>3. at' \in Layouts
  BY <1>1, <1>2, LayoutChanged DEF TypeOK
<1>4. moving' \in BOOLEAN
  BY DEF Shows, TypeOK
<1> QED BY <1>3, <1>4

(* Every request that is posted leaves swipes, and maybe a job, behind.    *)
JobOK(job) == job \in Job /\ job.space < NumSpaces[job.display]

LEMMA PressTyped ==
  ASSUME TypeOK, NEW req \in Requests, Press(req)
  PROVE  /\ swipes' \in Seq(Swipe)
         /\ \A job \in jobs' : ~unified /\ JobOK(job)
         /\ aim' # Nothing => aim' \in Layouts
<1> DEFINE r == ResolveWorkspaceDisplay(req)
<1>1. r.entry \in Entries
  BY DEF Press
<1>2. /\ r.entry \in AllEntries
      /\ r.place \in Displays \cup {Nothing}
      /\ r.display # Nothing => r.display \in Displays /\ ~unified /\ r.entry = r.display
  BY <1>1, Resolved
<1>3. PICK seen \in DockStates : Post(req, r, Motion(req, r.entry, seen), seen)
  BY DEF Press
<1> DEFINE motion == Motion(req, r.entry, seen)
<1>4. /\ motion.direction \in Horizontal
      /\ motion.count \in Nat
      /\ seen # "expose" => TargetIndex(r.entry, motion) \in 0 .. NumSpaces[r.entry] - 1
  BY <1>2, MotionMade
<1>5. \A job \in jobs : ~unified /\ JobOK(job)
  BY DEF TypeOK, JobOK
<1> HIDE DEF r, motion
<1>6. CASE /\ PostSwipes(motion, motion.count, r.place)
           /\ IF seen = "mission_control" /\ r.display # Nothing
              THEN HighlightWhenSpaceAppears(r.display, TargetIndex(r.entry, motion))
              ELSE UNCHANGED jobs
           /\ aim' = Asked(req)
  <2>1. swipes' \in Seq(Swipe)
    BY <1>2, <1>4, <1>6, PostedTyped
  <2>2. aim' # Nothing => aim' \in Layouts
    BY <1>6, AskedTyped
  <2>3. CASE seen = "mission_control" /\ r.display # Nothing
    <3> DEFINE index == TargetIndex(r.entry, motion)
               job == [display |-> r.display, space |-> index, still |-> FALSE, left |-> Polls]
    <3>1. jobs' = jobs \cup {job}
      BY <1>6, <2>3 DEF HighlightWhenSpaceAppears
    <3>2. r.display \in Displays /\ ~unified /\ r.entry = r.display
      BY <1>2, <2>3
    <3>3. index \in 0 .. NumSpaces[r.display] - 1
      BY <1>4, <2>3, <3>2
    <3>4. index \in Indices
      BY <1>2, <3>2, <3>3, IndexOfEntry
    <3>5. Polls \in 0 .. Polls
      BY WorkspaceAssumption
    <3> HIDE DEF index
    <3>6. JobOK(job)
      <4>1. NumSpaces[r.display] \in Nat
        BY <1>2, <3>2, WorkspaceAssumption
      <4> QED BY <3>2, <3>3, <3>4, <3>5, <4>1 DEF JobOK, Job
    <3> QED BY <1>5, <2>1, <2>2, <3>1, <3>2, <3>6
  <2>4. CASE ~(seen = "mission_control" /\ r.display # Nothing)
    <3>1. jobs' = jobs
      BY <1>6, <2>4
    <3> QED BY <1>5, <2>1, <2>2, <3>1
  <2> QED BY <2>3, <2>4
<1>7. CASE /\ \E made \in 0 .. motion.count - 1 : PostSwipes(motion, made, r.place)
           /\ UNCHANGED jobs
           /\ aim' = Nothing
  <2>1. PICK made \in 0 .. motion.count - 1 : PostSwipes(motion, made, r.place)
    BY <1>7
  <2>2. made \in Nat
    BY <1>4
  <2>3. swipes' \in Seq(Swipe)
    BY <1>2, <1>4, <2>1, <2>2, PostedTyped
  <2> QED BY <1>5, <1>7, <2>3
<1>8. CASE /\ PostSwipes(motion, motion.count, r.place)
           /\ UNCHANGED jobs
           /\ aim' = Asked(req)
  <2>1. swipes' \in Seq(Swipe)
    BY <1>2, <1>4, <1>8, PostedTyped
  <2>2. aim' # Nothing => aim' \in Layouts
    BY <1>8, AskedTyped
  <2> QED BY <1>5, <1>8, <2>1, <2>2
<1> QED BY <1>3, <1>6, <1>7, <1>8 DEF Post, motion

LEMMA PollTyped ==
  ASSUME TypeOK, Poll
  PROVE  /\ session' \in Displays \cup {Nothing}
         /\ \A job \in jobs' : ~unified /\ JobOK(job)
<1>1. PICK job \in jobs : PollAgain(job) \/ HoverFront(job)
  BY DEF Poll
<1>2. ~unified /\ JobOK(job) /\ \A j \in jobs : JobOK(j)
  BY DEF TypeOK, JobOK
<1>3. moving \in BOOLEAN /\ session \in Displays \cup {Nothing}
  BY DEF TypeOK
<1>4. ASSUME NEW still \in BOOLEAN, Reschedule(job, still)
      PROVE  \A j \in jobs' : JobOK(j)
  <2>1. CASE job.left > 0
    <3> DEFINE again == [job EXCEPT !.still = still, !.left = job.left - 1]
    <3>1. jobs' = (jobs \ {job}) \cup {again}
      BY <1>4, <2>1 DEF Reschedule
    <3>2. job \in Job /\ job.space < NumSpaces[job.display]
      BY <1>2 DEF JobOK
    <3>3. job.left - 1 \in 0 .. Polls
      BY <2>1, <3>2, WorkspaceAssumption DEF Job
    <3>4. again \in Job /\ again.space = job.space /\ again.display = job.display
      BY <3>2, <3>3 DEF Job
    <3>5. JobOK(again)
      BY <3>2, <3>4 DEF JobOK
    <3> QED BY <1>2, <3>1, <3>5
  <2>2. CASE ~(job.left > 0)
    BY <1>2, <1>4, <2>2 DEF Reschedule
  <2> QED BY <2>1, <2>2
<1>5. CASE PollAgain(job)
  <2>1. job.still \in BOOLEAN
    BY <1>2 DEF JobOK, Job
  <2>2. \E still \in BOOLEAN : Reschedule(job, still)
    BY <1>3, <1>5, <2>1 DEF PollAgain
  <2>3. session' = session
    BY <1>5 DEF PollAgain
  <2> QED BY <1>2, <1>3, <1>4, <2>2, <2>3
<1>6. CASE HoverFront(job)
  <2>1. job.display \in Displays
    BY <1>2 DEF JobOK, Job
  <2> QED BY <1>2, <1>3, <1>6, <2>1 DEF HoverFront
<1> QED BY <1>1, <1>5, <1>6

-----------------------------------------------------------------------------
(* Type correctness: the state stays well-formed, and a job waits for a    *)
(* space its display has (control.cpp:383-404).                            *)
THEOREM TypeCorrect == Spec => []TypeOK
<1>1. Init => TypeOK
  <2> SUFFICES ASSUME Init PROVE TypeOK
    OBVIOUS
  <2>1. swipes \in Seq(Swipe) /\ jobs = {} /\ aim = Nothing
    BY DEF Init
  <2>2. /\ unified \in BOOLEAN /\ at \in Layouts /\ moving \in BOOLEAN
        /\ cursor \in Displays /\ active \in Displays
    BY DEF Init
  <2>3. /\ overlay = "hidden" /\ animating \in BOOLEAN
        /\ session \in Displays \cup {Nothing}
    BY DEF Init
  <2> QED BY <2>1, <2>2, <2>3 DEF TypeOK
<1>2. TypeOK /\ [Next]_vars => TypeOK'
  <2> SUFFICES ASSUME TypeOK, [Next]_vars PROVE TypeOK'
    OBVIOUS
  <2> USE DEF user, dock, surface, highlight
  <2>1. ASSUME NEW req \in Requests, Press(req) PROVE TypeOK'
    <3>1. UNCHANGED <<user, at, moving, surface, session>>
      BY <2>1 DEF Press
    <3>2. /\ swipes' \in Seq(Swipe)
          /\ \A job \in jobs' : ~unified /\ JobOK(job)
          /\ aim' # Nothing => aim' \in Layouts
      BY <2>1, PressTyped
    <3> QED BY <3>1, <3>2 DEF TypeOK, JobOK
  <2>2. CASE Poll
    <3>1. UNCHANGED <<user, dock, surface, aim>>
      BY <2>2 DEF Poll
    <3>2. /\ session' \in Displays \cup {Nothing}
          /\ \A job \in jobs' : ~unified /\ JobOK(job)
      BY <2>2, PollTyped
    <3> QED BY <3>1, <3>2 DEF TypeOK, JobOK
  <2>3. CASE HandleSwipe
    <3> DEFINE e == LandsOn(Head(swipes))
    <3>1. swipes # <<>> /\ swipes' = Tail(swipes) /\ swipes' \in Seq(Swipe)
      BY <2>3 DEF HandleSwipe, TypeOK
    <3>2. Head(swipes) \in Swipe
      BY <3>1 DEF TypeOK
    <3>3. e \in AllEntries
      BY <3>2 DEF LandsOn, EntryOf, AllEntries, Swipe, TypeOK
    <3>4. at' \in Layouts /\ moving' \in BOOLEAN
      <4>1. CASE Shows(e, AfterSwipe(Head(swipes).direction, at[e], NumSpaces[e]))
        BY <3>3, <4>1, ShownTyped
      <4>2. CASE UNCHANGED <<at, moving>>
        BY <4>2 DEF TypeOK
      <4> QED BY <2>3, <4>1, <4>2 DEF HandleSwipe
    <3>5. UNCHANGED <<user, surface, session, jobs, aim, highlight>>
      BY <2>3 DEF HandleSwipe
    <3> QED BY <3>1, <3>4, <3>5 DEF TypeOK
  <2>4. CASE ComesToRest
    BY <2>4 DEF ComesToRest, TypeOK
  <2>5. ASSUME NEW d \in Displays, MoveCursor(d) PROVE TypeOK'
    BY <2>5 DEF MoveCursor, TypeOK
  <2>6. ASSUME NEW d \in Displays, Focus(d) PROVE TypeOK'
    BY <2>6 DEF Focus, TypeOK
  <2>7. ASSUME NEW d \in Displays, HighlightMoves(d) PROVE TypeOK'
    BY <2>7 DEF HighlightMoves, TypeOK
  <2>8. ASSUME NEW dir \in Horizontal, NativeSwipe(dir) PROVE TypeOK'
    <3> DEFINE e == EntryOf(cursor)
    <3>1. e \in AllEntries
      BY DEF TypeOK, EntryOf, AllEntries
    <3>2. at' \in Layouts /\ moving' \in BOOLEAN
      BY <2>8, <3>1, ShownTyped DEF NativeSwipe
    <3> QED BY <2>8, <3>2 DEF NativeSwipe, TypeOK
  <2>9. CASE OverlayMoves
    <3>1. session' \in Displays \cup {Nothing} /\ animating' \in BOOLEAN
      BY <2>9 DEF OverlayMoves, TypeOK
    <3>2. overlay' \in {"hidden", "mission_control", "expose"}
      BY <2>9 DEF OverlayMoves, TypeOK
    <3>3. aim' # Nothing => aim' \in Layouts
      BY <2>9 DEF OverlayMoves, TypeOK
    <3>4. UNCHANGED <<user, dock, jobs>>
      BY <2>9 DEF OverlayMoves
    <3> QED BY <3>1, <3>2, <3>3, <3>4 DEF TypeOK
  <2>10. CASE UNCHANGED vars
    BY <2>10 DEF vars, TypeOK
  <2> QED BY <2>1, <2>2, <2>3, <2>4, <2>5, <2>6, <2>7, <2>8, <2>9, <2>10 DEF Next
<1> QED BY <1>1, <1>2, PTL DEF Spec

-----------------------------------------------------------------------------
(***************************************************************************)
(* While something was asked for and nothing interfered, the swipes on     *)
(* their way go in one direction, land on one entry, and lead from what is *)
(* shown to what was asked for.  In App Expose they lead nowhere.          *)
(***************************************************************************)
LeadTo(e, dir) ==
  /\ \A i \in DOMAIN swipes : swipes[i].direction = dir /\ LandsOn(swipes[i]) = e
  /\ aim = [at EXCEPT ![e] = Landed(dir, at[e], Len(swipes), NumSpaces[e])]

Leads ==
  aim # Nothing =>
    IF swipes = <<>> \/ overlay = "expose"
    THEN aim = at /\ (swipes # <<>> => ~animating)
    ELSE \E e \in AllEntries, dir \in Horizontal : LeadTo(e, dir)

(* A swipe on its way is the Dock's alone, and where it lands is settled.  *)
LEMMA LeadsKept ==
  ASSUME Leads, UNCHANGED <<aim, at, swipes>>,
         swipes # <<>> =>
           /\ \A i \in DOMAIN swipes : LandsOn(swipes[i])' = LandsOn(swipes[i])
           /\ overlay' = overlay
           /\ animating' = animating
  PROVE  Leads'
<1>1. CASE swipes = <<>>
  BY <1>1 DEF Leads
<1>2. CASE swipes # <<>> /\ overlay = "expose"
  BY <1>2 DEF Leads
<1>3. CASE swipes # <<>> /\ overlay # "expose" /\ aim # Nothing
  <2>1. PICK e \in AllEntries, dir \in Horizontal : LeadTo(e, dir)
    BY <1>3 DEF Leads
  <2>2. /\ \A i \in DOMAIN swipes' : swipes'[i].direction = dir /\ LandsOn(swipes[i])' = e
        /\ aim' = [at' EXCEPT ![e] = Landed(dir, at'[e], Len(swipes'), NumSpaces[e])]
    BY <1>3, <2>1 DEF LeadTo
  <2>3. LeadTo(e, dir)'
    BY <2>2 DEF LeadTo
  <2> QED BY <1>3, <2>3 DEF Leads
<1> QED BY <1>1, <1>2, <1>3 DEF Leads

(* The Dock handles the first of them.                                     *)
LEMMA HandledLeads ==
  ASSUME TypeOK, Leads, HandleSwipe
  PROVE  Leads'
<1> SUFFICES ASSUME aim' # Nothing PROVE Leads'
  BY DEF Leads
<1>1. /\ swipes # <<>> /\ swipes' = Tail(swipes)
      /\ aim' = aim /\ overlay' = overlay /\ animating' = animating
      /\ cursor' = cursor /\ unified' = unified
  BY DEF HandleSwipe, user, surface
<1>2. CASE overlay = "expose"
  <2>1. aim = at /\ ~animating
    BY <1>1, <1>2 DEF Leads
  <2>2. at' = at
    BY <1>2, <2>1 DEF HandleSwipe
  <2> QED BY <1>1, <1>2, <2>1, <2>2 DEF Leads
<1>3. CASE overlay # "expose"
  <2>1. PICK e \in AllEntries, dir \in Horizontal : LeadTo(e, dir)
    BY <1>1, <1>3 DEF Leads
  <2> DEFINE n == NumSpaces[e]
             there == AfterSwipe(dir, at[e], n)
  <2>2. swipes \in Seq(Swipe) /\ at \in Layouts
    BY DEF TypeOK
  <2>3. Head(swipes).direction = dir /\ LandsOn(Head(swipes)) = e
    BY <1>1, <2>1, <2>2 DEF LeadTo
  <2>4. at' = [at EXCEPT ![e] = there]
    BY <1>3, <2>3 DEF HandleSwipe, Shows
  <2>5. at[e] \in 0 .. n - 1 /\ n \in Nat \ {0}
    BY <2>2, LayoutRead
  <2>6. at'[e] = there /\ there \in 0 .. n - 1
    BY <2>2, <2>4, <2>5, AfterSwipeInRange DEF Layouts
  <2>7. Len(swipes') \in Nat /\ Len(swipes) = Len(swipes') + 1
    BY <1>1, <2>2
  <2>8. Landed(dir, at'[e], Len(swipes'), n) = Landed(dir, at[e], Len(swipes), n)
    BY <2>5, <2>6, <2>7, LandedOne
  <2>9. aim' = [at' EXCEPT ![e] = Landed(dir, at'[e], Len(swipes'), n)]
    BY <1>1, <2>1, <2>2, <2>4, <2>8 DEF LeadTo, Layouts
  <2>10. \A i \in DOMAIN swipes' :
           swipes'[i].direction = dir /\ LandsOn(swipes[i+1]) = e /\ swipes'[i] = swipes[i+1]
    BY <1>1, <2>1, <2>2 DEF LeadTo
  <2>11. \A i \in DOMAIN swipes' : LandsOn(swipes[i])' = e
    BY <1>1, <2>10 DEF LandsOn, EntryOf
  <2>12. LeadTo(e, dir)'
    BY <2>9, <2>10, <2>11 DEF LeadTo
  <2>13. CASE swipes' = <<>>
    <3>1. Len(swipes') = 0
      BY <2>13
    <3>2. aim' = [at' EXCEPT ![e] = at'[e]]
      BY <2>5, <2>6, <2>9, <3>1, LandedNone
    <3>3. aim' = at'
      BY <2>2, <2>4, <3>2 DEF Layouts
    <3> QED BY <2>13, <3>3 DEF Leads
  <2>14. CASE swipes' # <<>>
    BY <1>1, <1>3, <2>12, <2>14 DEF Leads
  <2> QED BY <2>13, <2>14
<1> QED BY <1>2, <1>3

(* A press in one direction that adds up is one more swipe that way.       *)
LEMMA StepPlanned ==
  ASSUME NEW n \in Nat \ {0}, NEW cur \in 0 .. n - 1,
         NEW req, req.action \in Horizontal, ~req.wrap,
         PlanWorkspaceRequest(req, cur, n).count > 0
  PROVE  PlanWorkspaceRequest(req, cur, n) = [direction |-> req.action, count |-> 1]
<1>1. CASE req.action = "left"
  BY <1>1 DEF PlanWorkspaceRequest, SpaceAskedFor, Swipes
<1>2. CASE req.action = "right"
  BY <1>2 DEF PlanWorkspaceRequest, SpaceAskedFor, Swipes
<1> QED BY <1>1, <1>2 DEF Horizontal

LEMMA PressLeads ==
  ASSUME TypeOK, Leads, NEW req \in Requests, Press(req)
  PROVE  Leads'
<1> SUFFICES ASSUME aim' # Nothing PROVE Leads'
  BY DEF Leads
<1> DEFINE r == ResolveWorkspaceDisplay(req)
<1>1. PICK e \in AllEntries :
        /\ r.entry = e
        /\ MeantEntry(req) = e
        /\ r.place \in Displays \cup {Nothing}
        /\ EntryOf(IF r.place = Nothing THEN cursor ELSE r.place) = e
  BY Resolved DEF Press
<1> DEFINE n == NumSpaces[e]
<1>2. PICK seen \in DockStates :
        /\ Motion(req, r.entry, seen).count > 0
        /\ Post(req, r, Motion(req, r.entry, seen), seen)
  BY DEF Press
<1>20. PICK motion : motion = Motion(req, e, seen)
  OBVIOUS
<1>3. motion.direction \in Horizontal /\ motion.count \in Nat /\ motion.count > 0
  BY <1>1, <1>2, <1>20, MotionMade
<1>21. PICK s \in Swipe : s = [direction |-> motion.direction, place |-> r.place]
  BY <1>1, <1>3 DEF Swipe
<1> DEFINE posted == [i \in 1 .. motion.count |-> s]
<1>4. swipes' = swipes \o posted /\ aim' = Asked(req)
  BY <1>1, <1>2, <1>20, <1>21 DEF Post, PostSwipes
<1>5. /\ at' = at /\ overlay' = overlay /\ animating' = animating
      /\ cursor' = cursor /\ unified' = unified
  BY DEF Press, user, surface
<1>6. /\ posted \in Seq(Swipe)
      /\ Len(posted) = motion.count
      /\ DOMAIN posted = 1 .. motion.count
      /\ \A i \in DOMAIN posted : posted[i] = s
  BY <1>3
<1>7. s.direction = motion.direction /\ LandsOn(s) = e /\ LandsOn(s)' = e
  BY <1>1, <1>5, <1>21 DEF LandsOn, EntryOf
<1>8. swipes \in Seq(Swipe) /\ at \in Layouts
  BY DEF TypeOK
<1>9. at[e] \in 0 .. n - 1 /\ n \in Nat \ {0}
  BY <1>1, <1>8, LayoutRead
<1>10. req.action \in WorkspaceActions /\ req.index \in Nat
  BY Plannable
<1> HIDE DEF posted
<1>11. swipes' # <<>> /\ Len(swipes') = Len(swipes) + motion.count
  BY <1>3, <1>4, <1>6, <1>8
<1>12. CASE overlay = "expose"
  <2>1. Asked(req) = at /\ ~animating
    BY <1>4, <1>12 DEF Asked
  <2> QED BY <1>4, <1>5, <1>12, <2>1 DEF Leads
<1>13. CASE overlay # "expose"
  <2>1. seen # "expose"
    BY <1>13 DEF DockStates
  <2>2. motion = PlanWorkspaceRequest(req, at[e], n)
    BY <1>20, <2>1 DEF Motion
  <2>3. CASE swipes = <<>>
    <3>1. aim' = [at EXCEPT ![e] = SpaceAskedFor(req, at[e], n)]
      BY <1>1, <1>4, <1>13, <2>3 DEF Asked
    <3>2. Landed(motion.direction, at[e], motion.count, n) = SpaceAskedFor(req, at[e], n)
      BY <1>9, <1>10, <2>2, MotionLands
    <3>3. swipes' = posted
      BY <1>4, <1>6, <2>3
    <3>4. \A i \in DOMAIN swipes' :
            swipes'[i].direction = motion.direction /\ LandsOn(swipes[i])' = e
      <4>1. \A i \in DOMAIN swipes' : swipes'[i] = s
        BY <1>6, <3>3
      <4> QED BY <1>1, <1>5, <1>7, <4>1 DEF LandsOn, EntryOf
    <3>5. aim' = [at' EXCEPT ![e] =
                    Landed(motion.direction, at'[e], Len(swipes'), NumSpaces[e])]
      BY <1>5, <1>6, <3>1, <3>2, <3>3
    <3>6. LeadTo(e, motion.direction)'
      BY <3>4, <3>5 DEF LeadTo
    <3> QED BY <1>1, <1>3, <1>5, <1>11, <1>13, <3>6 DEF Leads
  <2>4. CASE swipes # <<>>
    <3>1. /\ aim # Nothing /\ AddsUp(req)
          /\ aim' = [aim EXCEPT ![e] = AfterSwipe(req.action, aim[e], n)]
      BY <1>1, <1>4, <1>13, <2>4 DEF Asked
    <3>2. PICK e0 \in AllEntries, dir \in Horizontal : LeadTo(e0, dir)
      BY <1>13, <2>4, <3>1 DEF Leads
    <3>3. 1 \in DOMAIN swipes
      BY <1>8, <2>4
    <3>4. e0 = e /\ dir = req.action
      BY <1>1, <3>1, <3>2, <3>3 DEF AddsUp, LeadTo
    <3>5. motion = [direction |-> dir, count |-> 1]
      BY <1>3, <1>9, <2>2, <3>1, <3>4, StepPlanned DEF AddsUp
    <3>6. swipes' = Append(swipes, s) /\ Len(swipes') = Len(swipes) + 1
      <4>1. Len(posted) = 1 /\ posted[1] = s
        BY <1>6, <3>5
      <4>2. posted = <<s>>
        BY <1>6, <4>1
      <4> QED BY <1>4, <1>8, <4>2
    <3>7. \A i \in DOMAIN swipes' : swipes'[i].direction = dir /\ LandsOn(swipes[i])' = e
      <4>1. \A i \in DOMAIN swipes : swipes[i].direction = dir /\ LandsOn(swipes[i]) = e
        BY <3>2, <3>4 DEF LeadTo
      <4>2. s.direction = dir /\ LandsOn(s) = e
        BY <1>7, <3>5
      <4>3. \A i \in DOMAIN swipes' : swipes'[i].direction = dir /\ LandsOn(swipes'[i]) = e
        BY <1>8, <3>6, <4>1, <4>2
      <4> QED BY <1>5, <4>3 DEF LandsOn, EntryOf
    <3>8. aim[e] = Landed(dir, at[e], Len(swipes), n)
      BY <1>1, <1>8, <3>2, <3>4 DEF LeadTo, Layouts
    <3>9. AfterSwipe(dir, aim[e], n) = Landed(dir, at[e], Len(swipes'), n)
      <4>1. Len(swipes) \in Nat
        BY <1>8
      <4> QED BY <1>9, <3>6, <3>8, <4>1, LandedMore
    <3>10. aim' = [at' EXCEPT ![e] = Landed(dir, at'[e], Len(swipes'), NumSpaces[e])]
      <4>1. aim' = [at EXCEPT ![e] = AfterSwipe(dir, aim[e], n)]
        BY <1>1, <1>8, <3>1, <3>2, <3>4 DEF LeadTo, Layouts
      <4> QED BY <1>5, <3>9, <4>1
    <3>11. LeadTo(e, dir)'
      BY <3>7, <3>10 DEF LeadTo
    <3> QED BY <1>1, <1>5, <1>11, <1>13, <3>11 DEF Leads
  <2> QED BY <2>3, <2>4
<1> QED BY <1>12, <1>13

(* A request that nothing interferes with ends where it asked to, and      *)
(* leaves every other display as it was (control.cpp:338-405).             *)
THEOREM AskedShown == Spec => []AskedSpaceShown
<1>1. Init => Leads
  BY DEF Init, Leads
<1>2. TypeOK /\ Leads /\ [Next]_vars => Leads'
  <2> SUFFICES ASSUME TypeOK, Leads, [Next]_vars PROVE Leads'
    OBVIOUS
  <2> USE DEF user, dock, surface, highlight
  <2>1. ASSUME NEW req \in Requests, Press(req) PROVE Leads'
    BY <2>1, PressLeads
  <2>2. CASE Poll \/ ComesToRest
    <3>1. UNCHANGED <<aim, at, swipes, cursor, unified, overlay, animating>>
      BY <2>2 DEF Poll, ComesToRest
    <3> QED BY <3>1, LeadsKept DEF LandsOn, EntryOf
  <2>3. CASE HandleSwipe
    BY <2>3, HandledLeads
  <2>4. ASSUME NEW d \in Displays, MoveCursor(d) PROVE Leads'
    <3>1. CASE aim' = Nothing
      BY <3>1 DEF Leads
    <3>2. CASE aim' # Nothing
      <4>1. /\ UNCHANGED <<aim, at, swipes, unified, overlay, animating>>
            /\ unified \/ cursor' = cursor \/ \A i \in DOMAIN swipes : swipes[i].place # Nothing
        BY <2>4, <3>2 DEF MoveCursor
      <4>2. \A i \in DOMAIN swipes : LandsOn(swipes[i])' = LandsOn(swipes[i])
        BY <4>1 DEF LandsOn, EntryOf
      <4> QED BY <4>1, <4>2, LeadsKept
    <3> QED BY <3>1, <3>2
  <2>5. ASSUME NEW d \in Displays, Focus(d) \/ HighlightMoves(d) PROVE Leads'
    <3>1. UNCHANGED <<aim, at, swipes, cursor, unified, overlay, animating>>
      BY <2>5 DEF Focus, HighlightMoves
    <3> QED BY <3>1, LeadsKept DEF LandsOn, EntryOf
  <2>6. ASSUME NEW dir \in Horizontal, NativeSwipe(dir) PROVE Leads'
    BY <2>6 DEF NativeSwipe, Leads
  <2>7. CASE OverlayMoves
    <3>1. CASE aim' = Nothing
      BY <3>1 DEF Leads
    <3>2. CASE aim' # Nothing /\ swipes # <<>>
      <4>1. /\ overlay # "expose" /\ overlay' # "expose"
            /\ UNCHANGED <<aim, at, swipes, cursor, unified>>
        BY <2>7, <3>2 DEF OverlayMoves
      <4>2. PICK e \in AllEntries, dir \in Horizontal : LeadTo(e, dir)
        BY <3>2, <4>1 DEF Leads
      <4>3. LeadTo(e, dir)'
        BY <4>1, <4>2 DEF LeadTo, LandsOn, EntryOf
      <4> QED BY <3>2, <4>1, <4>3 DEF Leads
    <3>3. CASE aim' # Nothing /\ swipes = <<>>
      <4>1. UNCHANGED <<aim, at, swipes>>
        BY <2>7, <3>3 DEF OverlayMoves
      <4> QED BY <3>3, <4>1, LeadsKept
    <3> QED BY <3>1, <3>2, <3>3
  <2>8. CASE UNCHANGED vars
    <3>1. UNCHANGED <<aim, at, swipes, cursor, unified, overlay, animating>>
      BY <2>8 DEF vars
    <3> QED BY <3>1, LeadsKept DEF LandsOn, EntryOf
  <2> QED BY <2>1, <2>2, <2>3, <2>4, <2>5, <2>6, <2>7, <2>8 DEF Next
<1>3. Leads => AskedSpaceShown
  BY DEF Leads, AskedSpaceShown
<1> QED BY <1>1, <1>2, <1>3, TypeCorrect, PTL DEF Spec
-----------------------------------------------------------------------------
(***************************************************************************)
(* While a highlight is promised the swipes lead to its space, one step    *)
(* each, every job is of its display, and either the highlight is there,   *)
(* where nothing but a job of the same space can move it, or a job waits   *)
(* for the space that will not give up before the highlight is.            *)
(***************************************************************************)
WayTo(p, dir) ==
  /\ \A i \in DOMAIN swipes : swipes[i].direction = dir /\ swipes[i].place = p.entry
  /\ p.space = IF dir = "left" THEN at[p.entry] - Len(swipes) ELSE at[p.entry] + Len(swipes)

Reachable(p) ==
  /\ ~unified /\ overlay = "mission_control" /\ ~animating
  /\ p = [entry |-> p.entry, space |-> p.space]
  /\ p.entry \in Displays
  /\ p.space \in 0 .. NumSpaces[p.entry] - 1
  /\ <<p.entry, p.space>> \in Occupied
  /\ \E dir \in Horizontal : WayTo(p, dir)

(* A job that has the polls it needs once the space is at rest.            *)
InTime(job) == moving \/ swipes # <<>> \/ job.still \/ job.left > 0

Waits(p) == \E job \in jobs : job.space = p.space /\ InTime(job)

Kept(p) ==
  /\ \A job \in jobs : job.display = p.entry
  /\ (highlighted = p /\ swipes = <<>>) \/ Waits(p)

Followed == promised # Nothing => Reachable(promised) /\ Kept(promised)

LEMMA Broken ==
  ASSUME NoPromise
  PROVE  Followed'
BY DEF NoPromise, Followed

LEMMA StillReachable ==
  ASSUME NEW p, Reachable(p), UNCHANGED <<unified, overlay, animating, at, swipes>>
  PROVE  Reachable(p)'
BY DEF Reachable, WayTo

LEMMA StillFollowed ==
  ASSUME Followed,
         UNCHANGED <<unified, overlay, animating, at, swipes, moving, jobs, highlight>>
  PROVE  Followed'
<1> SUFFICES ASSUME promised' # Nothing PROVE Followed'
  BY DEF Followed
<1>1. promised' = promised /\ highlighted' = highlighted
  BY DEF highlight
<1>2. PICK p : p = promised /\ Reachable(p) /\ Kept(p)
  BY <1>1 DEF Followed
<1>3. Reachable(p)'
  BY <1>2, StillReachable
<1>4. Kept(p)'
  BY <1>1, <1>2 DEF Kept, Waits, InTime
<1> QED BY <1>1, <1>2, <1>3, <1>4 DEF Followed

(* On the way there is a space between the two that is shown next.         *)
LEMMA NextOnTheWay ==
  ASSUME NEW n \in Nat \ {0}, NEW cur \in 0 .. n - 1, NEW to \in 0 .. n - 1,
         NEW k \in Nat, NEW dir \in Horizontal,
         to = IF dir = "left" THEN cur - (k + 1) ELSE cur + (k + 1)
  PROVE  LET there == AfterSwipe(dir, cur, n)
         IN  /\ there # cur
             /\ to = IF dir = "left" THEN there - k ELSE there + k
BY DEF AfterSwipe, Horizontal

(* The space is on the screen when no swipe is left, and only then.        *)
LEMMA Arrived ==
  ASSUME TypeOK, NEW p, Reachable(p)
  PROVE  at[p.entry] = p.space <=> swipes = <<>>
<1>1. PICK dir \in Horizontal : WayTo(p, dir)
  BY DEF Reachable
<1>2. at[p.entry] \in Int
  BY LayoutRead DEF TypeOK, Reachable, AllEntries
<1>3. Len(swipes) \in Nat /\ (Len(swipes) = 0 <=> swipes = <<>>)
  BY DEF TypeOK
<1> QED BY <1>1, <1>2, <1>3 DEF WayTo

LEMMA HandledFollowed ==
  ASSUME TypeOK, Followed, HandleSwipe
  PROVE  Followed'
<1> SUFFICES ASSUME promised' # Nothing PROVE Followed'
  BY DEF Followed
<1>1. /\ UNCHANGED <<unified, cursor, overlay, animating, jobs, promised, highlighted>>
      /\ swipes # <<>> /\ swipes' = Tail(swipes)
  BY DEF HandleSwipe, user, surface, highlight
<1>2. PICK p : p = promised /\ Reachable(p) /\ Kept(p)
  BY <1>1 DEF Followed
<1>3. PICK e : e = p.entry
  OBVIOUS
<1>4. PICK dir \in Horizontal : WayTo(p, dir)
  BY <1>2 DEF Reachable
<1>5. swipes \in Seq(Swipe) /\ at \in Layouts
  BY DEF TypeOK
<1>6. e \in AllEntries /\ e # Nothing /\ ~unified /\ overlay # "expose"
  BY <1>2, <1>3, NothingAssumption DEF Reachable, AllEntries
<1> DEFINE n == NumSpaces[e]
           there == AfterSwipe(dir, at[e], n)
<1>7. at[e] \in 0 .. n - 1 /\ n \in Nat \ {0} /\ p.space \in 0 .. n - 1
  BY <1>2, <1>3, <1>5, <1>6, LayoutRead DEF Reachable
<1>8. Len(swipes') \in Nat /\ Len(swipes) = Len(swipes') + 1
  BY <1>1, <1>5
<1>9. Head(swipes).direction = dir /\ Head(swipes).place = e
  BY <1>1, <1>3, <1>4, <1>5 DEF WayTo
<1>10. LandsOn(Head(swipes)) = e
  BY <1>6, <1>9 DEF LandsOn, EntryOf
<1>11. Shows(e, there)
  BY <1>6, <1>9, <1>10 DEF HandleSwipe
<1>12. p.space = IF dir = "left" THEN at[e] - (Len(swipes') + 1) ELSE at[e] + (Len(swipes') + 1)
  BY <1>3, <1>4, <1>8 DEF WayTo
<1>13. /\ there # at[e]
       /\ p.space = IF dir = "left" THEN there - Len(swipes') ELSE there + Len(swipes')
  BY <1>7, <1>8, <1>12, NextOnTheWay
<1>14. at'[e] = there /\ moving'
  BY <1>5, <1>6, <1>11, <1>13 DEF Shows, Layouts
<1>15. \A i \in DOMAIN swipes' : swipes'[i].direction = dir /\ swipes'[i].place = e
  <2>1. \A i \in DOMAIN swipes' : i + 1 \in DOMAIN swipes /\ swipes'[i] = swipes[i + 1]
    BY <1>1, <1>5
  <2> QED BY <1>3, <1>4, <2>1 DEF WayTo
<1>16. WayTo(p, dir)'
  BY <1>3, <1>13, <1>14, <1>15 DEF WayTo
<1>17. Reachable(p)'
  BY <1>1, <1>2, <1>16 DEF Reachable
<1>18. Waits(p)'
  <2>1. PICK job \in jobs : job.space = p.space
    BY <1>1, <1>2 DEF Kept, Waits
  <2> QED BY <1>1, <1>14, <2>1 DEF Waits, InTime
<1>19. Kept(p)'
  BY <1>1, <1>2, <1>18 DEF Kept
<1> QED BY <1>1, <1>2, <1>17, <1>19 DEF Followed

(* The space comes to rest, and every job has polls left.                  *)
LEMMA RestFollowed ==
  ASSUME TypeOK, Followed, ComesToRest
  PROVE  Followed'
<1> SUFFICES ASSUME promised' # Nothing PROVE Followed'
  BY DEF Followed
<1>1. /\ UNCHANGED <<unified, overlay, animating, at, swipes, jobs, promised, highlighted>>
      /\ \A job \in jobs : job.left # 0
  BY DEF ComesToRest, NoPromise, user, surface, highlight
<1>2. PICK p : p = promised /\ Reachable(p) /\ Kept(p)
  BY <1>1 DEF Followed
<1>3. Reachable(p)'
  BY <1>1, <1>2, StillReachable
<1>4. \A job \in jobs : job.left > 0
  <2>1. \A job \in jobs : job.left \in 0 .. Polls
    BY DEF TypeOK, Job
  <2> QED BY <1>1, <2>1, WorkspaceAssumption
<1>5. Kept(p)'
  BY <1>1, <1>2, <1>4 DEF Kept, Waits, InTime
<1> QED BY <1>1, <1>2, <1>3, <1>5 DEF Followed

(* A job that polls again keeps what it waits for; at rest, it has seen    *)
(* the frame of the front window.                                          *)
LEMMA PollFollowed ==
  ASSUME TypeOK, NEW p, Reachable(p), Kept(p), NEW job \in jobs, PollAgain(job),
         promised' # Nothing, UNCHANGED <<moving, swipes>>
  PROVE  highlighted' = highlighted /\ promised' = promised /\ Kept(p)'
<1> DEFINE AtRest == ~moving /\ swipes = <<>>
<1>1. job \in Job /\ \A j \in jobs : j.display = p.entry
  BY DEF TypeOK, Kept
<1>2. ~unified /\ overlay # "expose" /\ <<p.entry, p.space>> \in Occupied
  BY DEF Reachable
<1>3. ASSUME AtRest, job.space = p.space
      PROVE  ~job.still /\ Reschedule(job, TRUE)
  <2>1. at[p.entry] = p.space
    BY <1>3, Arrived
  <2>2. EntryOf(job.display) = p.entry
    BY <1>1, <1>2 DEF EntryOf
  <2>3. SpaceIsShown(job) /\ HasWindows(job)
    BY <1>2, <1>3, <2>1, <2>2 DEF SpaceIsShown, HasWindows
  <2>4. (moving \/ ~job.still) /\ Reschedule(job, ~moving)
    BY <1>2, <2>3 DEF PollAgain
  <2>5. (~moving) = TRUE
    BY <1>3
  <2>6. Reschedule(job, TRUE)
    BY <2>4, <2>5
  <2> QED BY <1>3, <2>4, <2>6
<1>4. PICK still : /\ Reschedule(job, still)
                   /\ AtRest /\ job.space = p.space => ~job.still /\ still = TRUE
  <2>1. CASE AtRest /\ job.space = p.space
    BY <1>3, <2>1
  <2>2. CASE ~(AtRest /\ job.space = p.space)
    BY <2>2 DEF PollAgain
  <2> QED BY <2>1, <2>2
<1> HIDE DEF AtRest
<1>5. CASE job.left > 0
  <2>1. PICK again : again = [job EXCEPT !.still = still, !.left = job.left - 1]
    OBVIOUS
  <2>2. jobs' = (jobs \ {job}) \cup {again} /\ UNCHANGED highlight
    BY <1>4, <1>5, <2>1 DEF Reschedule
  <2>3. again.space = job.space /\ again.display = job.display /\ again.still = still
    BY <1>1, <2>1 DEF Job
  <2>4. highlighted' = highlighted /\ promised' = promised
    BY <2>2 DEF highlight
  <2>5. \A j \in jobs' : j.display = p.entry
    BY <1>1, <2>2, <2>3
  <2>6. CASE highlighted = p /\ swipes = <<>>
    BY <2>4, <2>5, <2>6 DEF Kept
  <2>7. CASE Waits(p)
    <3>1. PICK w \in jobs : w.space = p.space /\ InTime(w)
      BY <2>7 DEF Waits
    <3>2. CASE w # job
      <4>1. w \in jobs'
        BY <2>2, <3>2
      <4> QED BY <2>4, <2>5, <3>1, <4>1 DEF Kept, Waits, InTime
    <3>3. CASE w = job
      <4>1. again \in jobs' /\ again.space = p.space
        BY <2>2, <2>3, <3>1, <3>3
      <4>2. moving \/ swipes # <<>> \/ again.still
        BY <1>4, <2>3, <3>1, <3>3 DEF AtRest
      <4> QED BY <2>4, <2>5, <4>1, <4>2 DEF Kept, Waits, InTime
    <3> QED BY <3>2, <3>3
  <2> QED BY <2>4, <2>6, <2>7 DEF Kept
<1>6. CASE ~(job.left > 0)
  <2>1. jobs' = jobs \ {job} /\ AtRest /\ UNCHANGED highlight
    BY <1>4, <1>6 DEF Reschedule, NoPromise, AtRest
  <2>2. highlighted' = highlighted /\ promised' = promised
    BY <2>1 DEF highlight
  <2>3. CASE highlighted = p /\ swipes = <<>>
    BY <1>1, <2>1, <2>2, <2>3 DEF Kept
  <2>4. CASE Waits(p)
    <3>1. PICK w \in jobs : w.space = p.space /\ InTime(w)
      BY <2>4 DEF Waits
    <3>2. w # job
      BY <1>4, <1>6, <2>1, <3>1 DEF InTime, AtRest
    <3> QED BY <1>1, <2>1, <2>2, <3>1, <3>2 DEF Kept, Waits, InTime
  <2> QED BY <2>2, <2>3, <2>4 DEF Kept
<1> QED BY <1>5, <1>6

(* A front window that is hovered is one of the space shown: of the space  *)
(* promised, once the swipes are handled.                                  *)
LEMMA HoverFollowed ==
  ASSUME TypeOK, NEW p, p = promised, p # Nothing, Reachable(p), Kept(p),
         NEW job \in jobs, HoverFront(job),
         promised' # Nothing, UNCHANGED <<moving, swipes>>
  PROVE  promised' = promised /\ Kept(p)'
<1>1. \A j \in jobs : j.display = p.entry
  BY DEF Kept
<1>2. EntryOf(job.display) = p.entry
  BY <1>1 DEF Reachable, EntryOf
<1>3. /\ promised' = promised /\ jobs' = jobs \ {job} /\ at[p.entry] = job.space
      /\ highlighted' = [entry |-> p.entry, space |-> job.space]
  BY <1>2 DEF HoverFront, NoPromise, SpaceIsShown
<1>4. \A j \in jobs' : j.display = p.entry
  BY <1>1, <1>3
<1>5. CASE job.space = p.space
  <2>1. swipes = <<>>
    BY <1>3, <1>5, Arrived
  <2>2. p = [entry |-> p.entry, space |-> p.space]
    BY DEF Reachable
  <2> QED BY <1>3, <1>4, <1>5, <2>1, <2>2 DEF Kept
<1>6. CASE job.space # p.space
  <2>1. swipes # <<>>
    BY <1>3, <1>6, Arrived
  <2>2. PICK w \in jobs : w.space = p.space /\ InTime(w)
    BY <2>1 DEF Kept, Waits
  <2>3. w \in jobs'
    BY <1>3, <1>6, <2>2
  <2> QED BY <1>3, <1>4, <2>2, <2>3 DEF Kept, Waits, InTime
<1> QED BY <1>5, <1>6

(* A press that promises a highlight leaves the swipes and the job for it. *)
LEMMA PressFollowed ==
  ASSUME TypeOK, NEW req \in Requests, Press(req)
  PROVE  Followed'
<1> SUFFICES ASSUME promised' # Nothing PROVE Followed'
  BY DEF Followed
<1> DEFINE r == ResolveWorkspaceDisplay(req)
<1>1. PICK e : e = MeantEntry(req)
  OBVIOUS
<1>2. PICK space : space = SpaceAskedFor(req, at[e], NumSpaces[e])
  OBVIOUS
<1>3. PICK seen \in DockStates : Post(req, r, Motion(req, r.entry, seen), seen)
  BY DEF Press
<1>4. PICK motion : motion = Motion(req, r.entry, seen)
  OBVIOUS
<1>5. /\ PostSwipes(motion, motion.count, r.place)
      /\ IF seen = "mission_control" /\ r.display # Nothing
         THEN HighlightWhenSpaceAppears(r.display, TargetIndex(r.entry, motion))
         ELSE UNCHANGED jobs
      /\ promised' = HighlightAsked(req)
  BY <1>3, <1>4 DEF Post, NoPromise
<1>6. /\ overlay = "mission_control" /\ ~animating /\ ~unified
      /\ swipes = <<>>
      /\ \A job \in jobs : job.display = e
      /\ space # at[e]
      /\ <<e, space>> \in Occupied
      /\ promised' = [entry |-> e, space |-> space]
  BY <1>1, <1>2, <1>5 DEF HighlightAsked
<1>7. UNCHANGED <<unified, overlay, animating, at, moving>>
  BY DEF Press, user, surface
<1>8. seen = "mission_control"
  BY <1>6 DEF DockStates
<1>9. r.entry = e /\ r.place = e /\ r.display = e /\ e \in Displays
  <2>1. OverlayIsShowing
    BY <1>6 DEF OverlayIsShowing
  <2>2. /\ session \in Displays \cup {Nothing} /\ active \in Displays
        /\ Nothing \notin Displays
    BY NothingAssumption DEF TypeOK
  <2>3. CASE session # Nothing
    BY <1>1, <1>6, <2>1, <2>2, <2>3 DEF ResolveWorkspaceDisplay, MeantEntry, EntryOf
  <2>4. CASE session = Nothing
    BY <1>1, <1>6, <2>1, <2>2, <2>4 DEF ResolveWorkspaceDisplay, MeantEntry, EntryOf
  <2> QED BY <2>3, <2>4
<1> HIDE DEF r
<1>10. e \in AllEntries /\ e # Nothing
  BY <1>9, NothingAssumption DEF AllEntries
<1>11. at[e] \in 0 .. NumSpaces[e] - 1 /\ NumSpaces[e] \in Nat \ {0}
  BY <1>10, LayoutRead DEF TypeOK
<1>12. motion = PlanWorkspaceRequest(req, at[e], NumSpaces[e])
  BY <1>4, <1>8, <1>9 DEF Motion
<1>13. /\ space \in 0 .. NumSpaces[e] - 1
       /\ motion.direction \in Horizontal
       /\ motion.count \in Nat
       /\ motion.direction = "left" => at[e] - motion.count = space
       /\ motion.direction = "right" => at[e] + motion.count = space
  BY <1>2, <1>11, <1>12, Plannable, MotionPlanned
<1>14. space = IF motion.direction = "left" THEN at[e] - motion.count ELSE at[e] + motion.count
  BY <1>13 DEF Horizontal
<1>15. motion.count > 0
  BY <1>6, <1>11, <1>13, <1>14
<1>16. PICK s : s = [direction |-> motion.direction, place |-> e]
  OBVIOUS
<1>17. swipes' = [i \in 1 .. motion.count |-> s]
  <2>1. swipes' = <<>> \o [i \in 1 .. motion.count |-> s]
    BY <1>5, <1>6, <1>9, <1>16 DEF PostSwipes
  <2>2. [i \in 1 .. motion.count |-> s] \in Seq({s})
    BY <1>13
  <2> QED BY <2>1, <2>2
<1>18. Len(swipes') = motion.count /\ swipes' # <<>>
  BY <1>13, <1>15, <1>17
<1>19. \A i \in DOMAIN swipes' : swipes'[i].direction = motion.direction /\ swipes'[i].place = e
  BY <1>16, <1>17
<1>20. PICK p : /\ p = promised' /\ p = [entry |-> p.entry, space |-> p.space]
                /\ p.entry = e /\ p.space = space
  BY <1>6
<1>21. WayTo(p, motion.direction)'
  BY <1>7, <1>14, <1>18, <1>19, <1>20 DEF WayTo
<1>22. Reachable(p)'
  BY <1>6, <1>7, <1>9, <1>13, <1>20, <1>21 DEF Reachable
<1>23. PICK job : /\ job = [display |-> e, space |-> space, still |-> FALSE, left |-> Polls]
                  /\ jobs' = jobs \cup {job}
  <2>1. TargetIndex(r.entry, motion) = space
    BY <1>9, <1>14 DEF TargetIndex
  <2>2. HighlightWhenSpaceAppears(e, space)
    BY <1>5, <1>8, <1>9, <1>10, <2>1
  <2> QED BY <2>2 DEF HighlightWhenSpaceAppears
<1>24. Waits(p)'
  BY <1>18, <1>20, <1>23 DEF Waits, InTime
<1>25. Kept(p)'
  BY <1>6, <1>20, <1>23, <1>24 DEF Kept
<1> QED BY <1>20, <1>22, <1>25 DEF Followed

(* Once the swipes are handled and the jobs are done, the highlight is on  *)
(* the front window of the space that was asked for                        *)
(* (control.cpp:383-404, mission_control.cpp:495-604).                     *)
THEOREM HighlightAlwaysFollows == Spec => []HighlightFollows
<1>1. Init => Followed
  BY DEF Init, Followed
<1>2. TypeOK /\ Followed /\ [Next]_vars => Followed'
  <2> SUFFICES ASSUME TypeOK, Followed, [Next]_vars PROVE Followed'
    OBVIOUS
  <2>1. ASSUME NEW req \in Requests, Press(req) PROVE Followed'
    BY <2>1, PressFollowed
  <2>2. CASE Poll
    <3> SUFFICES ASSUME promised' # Nothing PROVE Followed'
      BY DEF Followed
    <3>1. UNCHANGED <<unified, overlay, animating, at, moving, swipes>>
      BY <2>2 DEF Poll, user, dock, surface
    <3>2. PICK job \in jobs : PollAgain(job) \/ HoverFront(job)
      BY <2>2 DEF Poll
    <3>3. promised # Nothing
      BY <3>2 DEF PollAgain, HoverFront, Reschedule, NoPromise, highlight
    <3>4. PICK p : p = promised /\ Reachable(p) /\ Kept(p)
      BY <3>3 DEF Followed
    <3>5. promised' = promised /\ Kept(p)'
      BY <3>1, <3>2, <3>3, <3>4, PollFollowed, HoverFollowed
    <3>6. Reachable(p)'
      BY <3>1, <3>4, StillReachable
    <3> QED BY <3>4, <3>5, <3>6 DEF Followed
  <2>3. CASE HandleSwipe
    BY <2>3, HandledFollowed
  <2>4. CASE ComesToRest
    BY <2>4, RestFollowed
  <2>5. ASSUME NEW d \in Displays, MoveCursor(d) \/ HighlightMoves(d) PROVE Followed'
    BY <2>5, Broken DEF MoveCursor, HighlightMoves
  <2>6. ASSUME NEW d \in Displays, Focus(d) PROVE Followed'
    BY <2>6, StillFollowed DEF Focus, dock, surface
  <2>7. ASSUME NEW dir \in Horizontal, NativeSwipe(dir) PROVE Followed'
    BY <2>7, Broken DEF NativeSwipe
  <2>8. CASE OverlayMoves
    BY <2>8, Broken DEF OverlayMoves
  <2>9. CASE UNCHANGED vars
    BY <2>9, StillFollowed DEF vars, user, dock, surface
  <2> QED BY <2>1, <2>2, <2>3, <2>4, <2>5, <2>6, <2>7, <2>8, <2>9 DEF Next
<1>3. Followed => HighlightFollows
  BY DEF Followed, Kept, Waits, HighlightFollows
<1> QED BY <1>1, <1>2, <1>3, TypeCorrect, PTL DEF Spec
=============================================================================
