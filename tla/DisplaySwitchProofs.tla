------------------------- MODULE DisplaySwitchProofs -------------------------
(***************************************************************************)
(* Theorems about display switching, for every set of displays and         *)
(* arrangements, every Ttl and every Lag <= Ttl.                           *)
(***************************************************************************)
EXTENDS DisplaySwitch, TLAPS

-----------------------------------------------------------------------------
(* The planner stays within the arrangement.                               *)
LEMMA PlanInRange ==
  ASSUME NEW req \in Requests, NEW n \in Nat, NEW cur \in 1 .. n
  PROVE  PlanDisplayRequest(req, cur, n) \in 0 .. n
BY RequestAssumption DEF PlanDisplayRequest, DisplayActions, NoTarget

(* A display reached by a step is connected.                               *)
LEMMA StepConnected ==
  ASSUME NEW s \in Arrangements, NEW d \in Connected(s), NEW req \in Requests
  PROVE  StepFrom(s, d, req) \in Connected(s)
<1>1. Len(s) \in Nat
  BY DisplayAssumption
<1>2. PositionOf(s, d) \in 1 .. Len(s)
  <2>1. \E i \in 1 .. Len(s) : s[i] = d
    BY DEF Connected
  <2>2. QED BY <2>1 DEF PositionOf
<1>3. PlanDisplayRequest(req, PositionOf(s, d), Len(s)) \in 0 .. Len(s)
  BY <1>1, <1>2, PlanInRange
<1>4. QED
  BY <1>1, <1>3 DEF StepFrom, Connected, NoTarget

LEMMA ConnectedAreDisplays ==
  ASSUME NEW s \in Arrangements
  PROVE  Connected(s) \subseteq Displays /\ Connected(s) # {}
<1>1. s \in Seq(Displays) /\ s # <<>>
  BY DisplayAssumption
<1>2. Len(s) \in Nat \ {0} /\ \A i \in 1 .. Len(s) : s[i] \in Displays
  BY <1>1
<1>3. QED BY <1>2 DEF Connected

(***************************************************************************)
(* With wrapping on, right and left undo each other: walking one way and   *)
(* back ends where it began, whatever the number of displays.              *)
(***************************************************************************)
THEOREM WrapUndone ==
  ASSUME NEW n \in Nat, NEW cur \in 1 .. n,
         NEW right \in DisplayRequests, right.action = "right", right.wrap,
         NEW left \in DisplayRequests, left.action = "left", left.wrap
  PROVE  /\ PlanDisplayRequest(left, PlanDisplayRequest(right, cur, n), n) = cur
         /\ PlanDisplayRequest(right, PlanDisplayRequest(left, cur, n), n) = cur
<1>1. PlanDisplayRequest(right, cur, n) = IF cur < n THEN cur + 1 ELSE 1
  BY DEF PlanDisplayRequest
<1>2. \A c \in 1 .. n : PlanDisplayRequest(left, c, n) = IF c > 1 THEN c - 1 ELSE n
  BY DEF PlanDisplayRequest
<1>3. \A c \in 1 .. n : PlanDisplayRequest(right, c, n) = IF c < n THEN c + 1 ELSE 1
  BY DEF PlanDisplayRequest
<1>4. QED BY <1>1, <1>2, <1>3

-----------------------------------------------------------------------------
(* Facts about the sequence of unreported changes.                         *)
LEMMA ChangeFacts ==
  ASSUME NEW q \in Seq(Change)
  PROVE  /\ Len(q) \in Nat
         /\ q # <<>> => Len(q) \in 1 .. Len(q)
         /\ \A i \in 1 .. Len(q) :
              q[i].to \in Displays /\ q[i].age \in Nat /\ q[i].age <= Lag
<1>1. Len(q) \in Nat /\ \A i \in 1 .. Len(q) : q[i] \in Change
  OBVIOUS
<1>2. q # <<>> => Len(q) # 0
  OBVIOUS
<1>3. \A x \in Change : x.to \in Displays /\ x.age \in Nat /\ x.age <= Lag
  BY TimeAssumption DEF Change
<1>4. QED BY <1>1, <1>2, <1>3

LEMMA AppendChange ==
  ASSUME NEW q \in Seq(Change), NEW d \in Displays
  PROVE  LET r == Append(q, [to |-> d, age |-> 0])
         IN  /\ r \in Seq(Change)
             /\ Len(r) = Len(q) + 1
             /\ r[Len(q) + 1] = [to |-> d, age |-> 0]
             /\ \A i \in 1 .. Len(q) : r[i] = q[i]
<1>1. [to |-> d, age |-> 0] \in Change
  BY TimeAssumption DEF Change
<1>2. QED BY <1>1

LEMMA DropChanges ==
  ASSUME NEW q \in Seq(Change), NEW k \in 1 .. Len(q)
  PROVE  LET r == SubSeq(q, k + 1, Len(q))
         IN  /\ r \in Seq(Change)
             /\ Len(r) = Len(q) - k
             /\ \A i \in 1 .. Len(q) - k : r[i] = q[k + i]
OBVIOUS

LEMMA AgeChanges ==
  ASSUME NEW q \in Seq(Change), \A i \in 1 .. Len(q) : q[i].age < Lag
  PROVE  LET r == [i \in 1 .. Len(q) |-> [q[i] EXCEPT !.age = @ + 1]]
         IN  /\ r \in Seq(Change)
             /\ Len(r) = Len(q)
             /\ \A i \in 1 .. Len(q) : r[i].to = q[i].to /\ r[i].age = q[i].age + 1
<1> DEFINE r == [i \in 1 .. Len(q) |-> [q[i] EXCEPT !.age = @ + 1]]
<1>1. \A i \in 1 .. Len(q) : q[i] \in Change
  OBVIOUS
<1>2. ASSUME NEW i \in 1 .. Len(q)
      PROVE  r[i] \in Change /\ r[i].to = q[i].to /\ r[i].age = q[i].age + 1
  <2>1. q[i] \in [to : Displays, age : 0 .. Lag] /\ q[i].age < Lag
    BY <1>1 DEF Change
  <2>2. r[i] = [to |-> q[i].to, age |-> q[i].age + 1]
    BY <2>1
  <2>3. QED BY <2>1, <2>2, TimeAssumption DEF Change
<1>3. Len(q) \in Nat /\ r \in [1 .. Len(q) -> Change]
  BY <1>2
<1>4. r \in Seq(Change) /\ Len(r) = Len(q)
  BY <1>3
<1>5. QED BY <1>2, <1>4

-----------------------------------------------------------------------------
(***************************************************************************)
(* The inductive invariant, one lemma per step.                            *)
(***************************************************************************)
LEMMA InitInv == Init => IInv
<1> SUFFICES ASSUME Init PROVE IInv
  OBVIOUS
<1>1. focus \in Displays
  BY ConnectedAreDisplays DEF Init
<1>2. TypeOK
  <2>1. since \in [Displays -> Ages]
    BY TimeAssumption DEF Init, Ages
  <2>2. inflight \in Seq(Change)
    BY DEF Init
  <2>3. QED BY <1>1, <2>1, <2>2 DEF Init, TypeOK
<1>3. FocusInv /\ RecentInv /\ CalmInv
  BY <1>1, NoSwitchAssumption DEF Init, FocusInv, RecentInv, CalmInv
<1>4. QED BY <1>2, <1>3 DEF IInv

(* When nothing is left that could mislead, CalmInv asks nothing.          *)
LEMMA CleanIsCalm ==
  ASSUME TypeOK', Clean(inflight', pending')
  PROVE  CalmInv'
BY TimeAssumption DEF Clean, CalmInv, TypeOK, Switch, Ages

(* A request that is not misread while calm is told the focused display.   *)
LEMMA AnswerIsFocus ==
  ASSUME IInv, NEW seen \in Answers, ~astray, ~Misread(seen),
         inflight = <<>> => seen = reported
  PROVE  /\ ActiveDisplay(seen) = focus
         /\ inflight # <<>> => Remembered(seen) = pending
<1>1. CASE inflight = <<>>
  BY <1>1 DEF ActiveDisplay, BelievesPending, IInv, CalmInv, FocusInv
<1>2. CASE inflight # <<>>
  <2>1. inflight \in Seq(Change)
    BY DEF IInv, TypeOK
  <2>2. seen = reported /\ ~(Len(inflight) > 1)
    BY <1>2 DEF Misread, Answers
  <2>3. Len(inflight) = 1 /\ inflight[1].age <= Lag /\ inflight[1].age \in Nat
    <3>1. Len(inflight) \in Nat /\ Len(inflight) \in 1 .. Len(inflight)
      BY <1>2, <2>1, ChangeFacts
    <3>2. Len(inflight) = 1
      BY <2>2, <3>1
    <3>3. QED BY <2>1, <3>2, ChangeFacts
  <2>4. /\ pending # NoSwitch /\ pending.to = focus /\ pending.from = reported
        /\ pending.age = inflight[1].age
    BY <1>2, <2>3 DEF IInv, CalmInv
  <2>5. pending.age <= Ttl
    BY <2>3, <2>4, TimeAssumption
  <2>6. QED BY <2>2, <2>4, <2>5 DEF ActiveDisplay, BelievesPending, Remembered
<1>3. QED BY <1>1, <1>2

LEMMA ReadInv ==
  ASSUME IInv, NEW seen \in Answers, ReadActiveDisplay(seen)
  PROVE  IInv'
<1> USE DEF IInv, ReadActiveDisplay
<1>1. pending' \in {pending, NoSwitch}
  BY DEF Remembered
<1>2. TypeOK'
  BY <1>1 DEF TypeOK, Settle
<1>3. FocusInv' /\ RecentInv'
  BY <1>1 DEF FocusInv, RecentInv
<1>4. CalmInv'
  <2>1. CASE Clean(inflight', pending')
    BY <1>2, <2>1, CleanIsCalm
  <2>2. CASE astray \/ Misread(seen)
    BY <1>2, <2>2, CleanIsCalm DEF Settle, CalmInv
  <2>3. CASE ~astray /\ ~Misread(seen)
    <3>1. CASE inflight = <<>>
      BY <1>1, <2>3, <3>1 DEF CalmInv
    <3>2. CASE inflight # <<>>
      <4>1. pending' = pending
        BY <2>3, <3>2, AnswerIsFocus
      <4>2. QED BY <2>3, <4>1 DEF CalmInv
    <3>3. QED BY <3>1, <3>2
  <2>4. QED BY <2>2, <2>3
<1>5. QED BY <1>2, <1>3, <1>4

(* The focus moves and the change is queued: what holds of the queue.      *)
LEMMA MoveInv ==
  ASSUME IInv, NEW d \in Connected(displays), FocusMovesTo(d),
         displays' = displays, reported' = reported,
         pending' \in Switch \cup {NoSwitch}, astray' \in BOOLEAN,
         pending' # NoSwitch => since'[pending'.to] <= pending'.age
  PROVE  TypeOK' /\ FocusInv' /\ RecentInv'
<1> USE DEF IInv, FocusMovesTo
<1>1. d \in Displays
  BY ConnectedAreDisplays DEF TypeOK
<1>2. /\ inflight' \in Seq(Change)
      /\ Len(inflight') = Len(inflight) + 1
      /\ inflight'[Len(inflight) + 1] = [to |-> d, age |-> 0]
      /\ \A i \in 1 .. Len(inflight) : inflight'[i] = inflight[i]
  BY <1>1, AppendChange DEF TypeOK
<1>3. since' \in [Displays -> Ages]
  <2>1. since \in [Displays -> Ages] /\ 0 \in Ages /\ since' = [since EXCEPT ![d] = 0]
    BY TimeAssumption DEF TypeOK, Ages
  <2>2. QED BY <2>1
<1>4. TypeOK'
  BY <1>1, <1>2, <1>3 DEF TypeOK
<1>5. FocusInv'
  BY <1>2 DEF FocusInv, TypeOK
<1>6. \A e \in Displays : since'[e] <= since[e] /\ since[e] \in Nat /\ since'[e] \in Nat
  <2>1. since \in [Displays -> Ages] /\ since' = [since EXCEPT ![d] = 0] /\ Ages \subseteq Nat
    BY TimeAssumption DEF TypeOK, Ages
  <2>2. ASSUME NEW e \in Displays
        PROVE  since'[e] <= since[e] /\ since[e] \in Nat /\ since'[e] \in Nat
    <3>1. since[e] \in Nat /\ since'[e] = IF e = d THEN 0 ELSE since[e]
      BY <2>1
    <3>2. QED BY <3>1
  <2>3. QED BY <2>2
<1>7. /\ Len(inflight) \in Nat
      /\ \A i \in 1 .. Len(inflight) : inflight[i].to \in Displays /\ inflight[i].age \in Nat
      /\ inflight # <<>> => 1 \in 1 .. Len(inflight)
  <2>1. inflight \in Seq(Change)
    BY DEF TypeOK
  <2>2. QED BY <2>1, ChangeFacts
<1>8. RecentInv'
  <2>1. since'[focus'] = 0
    BY <1>1 DEF TypeOK
  <2>2. since'[focus] = 0
    BY <1>6 DEF TypeOK, RecentInv
  <2>3. since'[reported'] <= inflight'[1].age
    <3>1. CASE inflight = <<>>
      BY <3>1, <1>2, <2>2 DEF FocusInv
    <3>2. CASE inflight # <<>>
      <4>1. 1 \in 1 .. Len(inflight)
        BY <3>2, <1>7
      <4>2. since[reported] <= inflight[1].age /\ reported \in Displays
        BY <3>2 DEF RecentInv, TypeOK
      <4>3. QED BY <4>1, <4>2, <1>2, <1>6, <1>7
    <3>3. QED BY <3>1, <3>2
  <2>4. ASSUME NEW i \in 1 .. Len(inflight') - 1
        PROVE  since'[inflight'[i].to] <= inflight'[i + 1].age
    <3>1. CASE i = Len(inflight)
      <4>1. inflight'[i].to = focus
        BY <2>4, <3>1, <1>2, <1>7 DEF FocusInv
      <4>2. QED BY <4>1, <3>1, <2>2, <1>2
    <3>2. CASE i < Len(inflight)
      <4>1. i \in 1 .. Len(inflight) - 1 /\ i + 1 \in 1 .. Len(inflight) /\ i \in 1 .. Len(inflight)
        BY <3>2, <1>7
      <4>2. since[inflight[i].to] <= inflight[i + 1].age
        BY <4>1 DEF RecentInv
      <4>3. QED BY <4>1, <4>2, <1>2, <1>6, <1>7
    <3>3. QED BY <3>1, <3>2, <1>2, <1>7
  <2>5. QED BY <2>1, <2>3, <2>4 DEF RecentInv
<1>9. QED BY <1>4, <1>5, <1>8

(* What a press knows of the display it goes to.                           *)
LEMMA PressTarget ==
  ASSUME IInv, NEW req \in Requests, NEW active \in Connected(displays)
  PROVE  /\ active \in Displays
         /\ StepFrom(displays, active, req) \in Connected(displays)
         /\ StepFrom(displays, active, req) \in Displays
BY StepConnected, ConnectedAreDisplays DEF IInv, TypeOK

LEMMA RecordIsSwitch ==
  ASSUME NEW from \in Displays, NEW to \in Displays, from # to, RecordSwitch(from, to)
  PROVE  /\ pending' \in Switch /\ pending' # NoSwitch
         /\ pending'.from = from /\ pending'.to = to /\ pending'.age = 0
<1>1. /\ pending' \in [from : Displays, to : Displays, age : 0 .. Ttl + 1]
      /\ pending'.from = from /\ pending'.to = to /\ pending'.age = 0
  BY TimeAssumption DEF RecordSwitch
<1>2. pending' \in Switch
  BY <1>1 DEF Switch, Ages
<1>3. QED BY <1>1, <1>2, NoSwitchAssumption

LEMMA TakesInv ==
  ASSUME IInv, NEW seen \in Answers, NEW target \in Connected(displays),
         ActiveDisplay(seen) \in Connected(displays),
         ShouldExecute(ActiveDisplay(seen), target),
         SwitchTakes(ActiveDisplay(seen), target, seen)
  PROVE  IInv'
<1> DEFINE active == ActiveDisplay(seen)
<1>1. active \in Displays /\ target \in Displays
  BY ConnectedAreDisplays DEF IInv, TypeOK
<1>2. /\ pending' \in Switch /\ pending' # NoSwitch
      /\ pending'.from = active /\ pending'.to = target /\ pending'.age = 0
  BY <1>1, RecordIsSwitch DEF SwitchTakes, ShouldExecute
<1>3. since'[target] = 0
  BY <1>1 DEF SwitchTakes, FocusMovesTo, IInv, TypeOK
<1>4. astray' \in BOOLEAN
  BY DEF SwitchTakes, Settle
<1>5. TypeOK' /\ FocusInv' /\ RecentInv'
  BY <1>2, <1>3, <1>4, MoveInv DEF SwitchTakes
<1>6. /\ inflight \in Seq(Change) /\ Len(inflight) \in Nat
      /\ inflight' = Append(inflight, [to |-> target, age |-> 0])
      /\ focus' = target /\ reported' = reported
  BY DEF IInv, TypeOK, SwitchTakes, FocusMovesTo
<1>7. /\ Len(inflight') = Len(inflight) + 1
      /\ inflight'[Len(inflight')].age = 0
      /\ \A i \in 1 .. Len(inflight) : inflight'[i] = inflight[i]
      /\ inflight' # <<>>
  BY <1>1, <1>6, AppendChange
<1>8. ~astray' => ~astray /\ ~Misread(seen)
  BY <1>7 DEF SwitchTakes, Settle, Clean
<1>9. ASSUME ~astray'
      PROVE  /\ Len(inflight') = 1 => pending'.from = reported'
             /\ Len(inflight') > 1 => pending'.from = inflight'[Len(inflight') - 1].to
  <2>1. seen = reported
    <3>1. seen \in {reported, NoDisplay}
      BY DEF Answers
    <3>2. CASE seen = NoDisplay
      <4>1. active = NoDisplay \/ (pending # NoSwitch /\ pending.from = NoDisplay)
        BY <3>2 DEF ActiveDisplay, BelievesPending
      <4>2. active # NoDisplay
        BY <1>1, DisplayAssumption
      <4>3. pending # NoSwitch => pending.from # NoDisplay
        BY DisplayAssumption DEF IInv, TypeOK, Switch
      <4>4. QED BY <4>1, <4>2, <4>3
    <3>3. QED BY <3>1, <3>2
  <2>2. active = focus
    BY <1>8, <1>9, <2>1, AnswerIsFocus
  <2>3. CASE inflight = <<>>
    BY <1>2, <1>6, <1>7, <2>2, <2>3 DEF IInv, FocusInv
  <2>4. CASE inflight # <<>>
    <3>1. Len(inflight) \in 1 .. Len(inflight) /\ focus = inflight[Len(inflight)].to
      BY <1>6, <2>4, ChangeFacts DEF IInv, FocusInv
    <3>2. QED BY <1>2, <1>6, <1>7, <2>2, <3>1
  <2>5. QED BY <2>3, <2>4
<1>10. CalmInv'
  BY <1>2, <1>6, <1>7, <1>9 DEF CalmInv
<1>11. QED BY <1>5, <1>10 DEF IInv

LEMMA PhantomInv ==
  ASSUME IInv, NEW active \in Displays, NEW target \in Displays,
         ShouldExecute(active, target), SwitchIsPhantom(active, target)
  PROVE  IInv'
<1>1. /\ pending' \in Switch /\ pending' # NoSwitch
      /\ pending'.to = target /\ pending'.age = 0
  BY RecordIsSwitch DEF SwitchIsPhantom, ShouldExecute
<1>2. UNCHANGED <<displays, focus, reported, inflight>>
  BY DEF SwitchIsPhantom
<1>3. since \in [Displays -> Ages] /\ 0 \in Ages /\ Ages \subseteq Nat
  BY TimeAssumption DEF IInv, TypeOK, Ages
<1>4. /\ since' \in [Displays -> Ages] /\ since'[target] = 0
      /\ \A e \in Displays : since'[e] \in Nat /\ since[e] \in Nat /\ since'[e] <= since[e]
  <2>1. since' = [since EXCEPT ![target] = 0]
    BY DEF SwitchIsPhantom
  <2>2. \A e \in Displays : since'[e] = (IF e = target THEN 0 ELSE since[e]) /\ since[e] \in Nat
    BY <1>3, <2>1
  <2>3. QED BY <1>3, <2>1, <2>2
<1>5. TypeOK'
  BY <1>1, <1>2, <1>4 DEF IInv, TypeOK, SwitchIsPhantom, Settle
<1>6. FocusInv'
  BY <1>2 DEF IInv, FocusInv
<1>7. RecentInv'
  <2>1. inflight \in Seq(Change) /\ focus \in Displays /\ reported \in Displays
    BY DEF IInv, TypeOK
  <2>2. since'[focus'] = 0
    BY <1>2, <1>4, <2>1 DEF IInv, RecentInv
  <2>3. inflight' # <<>> => since'[reported'] <= inflight'[1].age
    <3>1. SUFFICES ASSUME inflight # <<>> PROVE since'[reported] <= inflight[1].age
      BY <1>2
    <3>2. Len(inflight) \in 1 .. Len(inflight) /\ Len(inflight) \in Nat
      BY <2>1, <3>1, ChangeFacts
    <3>3. inflight[1].age \in Nat
      BY <2>1, <3>2, ChangeFacts
    <3>4. since[reported] <= inflight[1].age
      BY <3>1 DEF IInv, RecentInv
    <3>5. QED BY <1>4, <2>1, <3>3, <3>4
  <2>4. ASSUME NEW i \in 1 .. Len(inflight) - 1
        PROVE  since'[inflight[i].to] <= inflight[i + 1].age
    <3>1. Len(inflight) \in Nat /\ i \in 1 .. Len(inflight) /\ i + 1 \in 1 .. Len(inflight)
      BY <2>1, ChangeFacts
    <3>2. inflight[i].to \in Displays /\ inflight[i + 1].age \in Nat
      BY <2>1, <3>1, ChangeFacts
    <3>3. since[inflight[i].to] <= inflight[i + 1].age
      BY <2>4 DEF IInv, RecentInv
    <3>4. QED BY <1>4, <3>2, <3>3
  <2>5. QED BY <1>1, <1>2, <1>4, <2>2, <2>3, <2>4 DEF RecentInv
<1>8. CalmInv'
  BY <1>5, CleanIsCalm DEF SwitchIsPhantom, Settle, CalmInv
<1>9. QED BY <1>5, <1>6, <1>7, <1>8 DEF IInv

LEMMA UnrecordedInv ==
  ASSUME IInv, NEW seen \in Answers, NEW target \in Connected(displays),
         ClickUnrecorded(target, seen)
  PROVE  IInv'
<1>1. pending' \in {pending, NoSwitch} /\ pending \in Switch \cup {NoSwitch}
  BY DEF ClickUnrecorded, Remembered, IInv, TypeOK
<1>2. pending' # NoSwitch => since'[pending'.to] <= pending'.age
  <2>1. SUFFICES ASSUME pending # NoSwitch PROVE since'[pending.to] <= pending.age
    BY <1>1
  <2>2. pending.to \in Displays /\ pending.age \in Nat /\ since[pending.to] <= pending.age
    BY <1>1, <2>1, TimeAssumption DEF Switch, Ages, IInv, RecentInv
  <2>3. since'[pending.to] = IF pending.to = target THEN 0 ELSE since[pending.to]
    BY <2>2 DEF ClickUnrecorded, FocusMovesTo, IInv, TypeOK
  <2>4. QED BY <2>2, <2>3
<1>3. astray' \in BOOLEAN
  BY DEF ClickUnrecorded, Settle
<1>4. TypeOK' /\ FocusInv' /\ RecentInv'
  BY <1>1, <1>2, <1>3, MoveInv DEF ClickUnrecorded
<1>5. CalmInv'
  BY <1>4, CleanIsCalm DEF ClickUnrecorded, Settle, CalmInv
<1>6. QED BY <1>4, <1>5 DEF IInv

LEMMA ClickInv ==
  ASSUME IInv, NEW d \in Displays, OutsideClick(d)
  PROVE  IInv'
<1>1. pending' = pending /\ pending \in Switch \cup {NoSwitch} /\ d \in Connected(displays)
  BY DEF OutsideClick, IInv, TypeOK
<1>2. pending' # NoSwitch => since'[pending'.to] <= pending'.age
  <2>1. SUFFICES ASSUME pending # NoSwitch PROVE since'[pending.to] <= pending.age
    BY <1>1
  <2>2. pending.to \in Displays /\ pending.age \in Nat /\ since[pending.to] <= pending.age
    BY <1>1, <2>1, TimeAssumption DEF Switch, Ages, IInv, RecentInv
  <2>3. since'[pending.to] = IF pending.to = d THEN 0 ELSE since[pending.to]
    BY <2>2 DEF OutsideClick, FocusMovesTo, IInv, TypeOK
  <2>4. QED BY <2>2, <2>3
<1>3. astray' \in BOOLEAN
  BY DEF OutsideClick, Settle
<1>4. TypeOK' /\ FocusInv' /\ RecentInv'
  BY <1>1, <1>2, <1>3, MoveInv DEF OutsideClick
<1>5. CalmInv'
  BY <1>4, CleanIsCalm DEF OutsideClick, Settle, CalmInv
<1>6. QED BY <1>4, <1>5 DEF IInv

LEMMA ReportInv ==
  ASSUME IInv, NEW k \in 1 .. Len(inflight), ServerReports(k)
  PROVE  IInv'
<1> DEFINE n == Len(inflight)
<1>1. /\ inflight \in Seq(Change) /\ n \in Nat
      /\ \A i \in 1 .. n : inflight[i].to \in Displays
      /\ k \in Nat /\ 1 <= k /\ k <= n
  BY ChangeFacts DEF IInv, TypeOK
<1>2. /\ inflight' \in Seq(Change)
      /\ Len(inflight') = n - k
      /\ \A i \in 1 .. n - k : inflight'[i] = inflight[k + i]
  BY <1>1, DropChanges DEF ServerReports
<1>3. /\ reported' = inflight[k].to
      /\ UNCHANGED <<displays, focus, pending, since>>
  BY DEF ServerReports
<1>4. inflight # <<>> /\ n \in 1 .. n
  <2>1. inflight # <<>>
    BY <1>1
  <2>2. QED BY <1>1, <2>1
<1>5. inflight' = <<>> <=> k = n
  BY <1>1, <1>2
<1>6. k < n => inflight'[Len(inflight')] = inflight[n]
  BY <1>1, <1>2
<1>7. TypeOK'
  BY <1>1, <1>2, <1>3 DEF IInv, TypeOK, ServerReports, Settle
<1>8. FocusInv'
  BY <1>1, <1>3, <1>4, <1>5, <1>6 DEF IInv, FocusInv
<1>9. RecentInv'
  <2>1. \A i \in 1 .. n - 1 : since[inflight[i].to] <= inflight[i + 1].age
    BY DEF IInv, RecentInv
  <2>2. since'[focus'] = 0 /\ (pending' # NoSwitch => since'[pending'.to] <= pending'.age)
    BY <1>3 DEF IInv, RecentInv
  <2>3. ASSUME k < n
        PROVE  since'[reported'] <= inflight'[1].age
    <3>1. k \in 1 .. n - 1 /\ inflight'[1] = inflight[k + 1]
      BY <1>1, <1>2, <2>3
    <3>2. QED BY <1>3, <2>1, <3>1
  <2>4. ASSUME NEW i \in 1 .. Len(inflight') - 1
        PROVE  since'[inflight'[i].to] <= inflight'[i + 1].age
    <3>1. k + i \in 1 .. n - 1 /\ i \in 1 .. n - k /\ i + 1 \in 1 .. n - k
      BY <1>1, <1>2
    <3>2. inflight'[i] = inflight[k + i] /\ inflight'[i + 1] = inflight[k + (i + 1)]
      BY <1>2, <3>1
    <3>3. k + (i + 1) = (k + i) + 1
      BY <1>1, <3>1
    <3>4. QED BY <1>3, <2>1, <3>1, <3>2, <3>3
  <2>5. inflight' # <<>> => k < n
    BY <1>1, <1>5
  <2>6. QED BY <2>2, <2>3, <2>4, <2>5 DEF RecentInv
<1>10. CalmInv'
  <2>1. CASE Clean(inflight', pending')
    BY <1>7, <2>1, CleanIsCalm
  <2>2. CASE ~Clean(inflight', pending')
    <3>1. SUFFICES ASSUME ~astray PROVE CalmInv'
      BY <2>2 DEF ServerReports, Settle, CalmInv
    <3>2. /\ pending # NoSwitch /\ pending.to = focus /\ pending.age = inflight[n].age
          /\ n > 1 => pending.from = inflight[n - 1].to
      BY <1>4, <3>1 DEF IInv, CalmInv
    <3>3. ASSUME k < n, Len(inflight') = 1
          PROVE  pending'.from = reported'
      <4>0. n \in Nat /\ k \in Nat /\ 1 <= k /\ n - k = 1
        BY <1>1, <1>2, <3>3
      <4>1. k = n - 1 /\ n > 1
        BY <4>0
      <4>2. QED BY <1>3, <3>2, <4>1
    <3>4. ASSUME k < n, Len(inflight') > 1
          PROVE  pending'.from = inflight'[Len(inflight') - 1].to
      <4>1. Len(inflight') - 1 \in 1 .. n - k /\ k + (Len(inflight') - 1) = n - 1 /\ n > 1
        BY <1>1, <1>2, <3>4
      <4>2. inflight'[Len(inflight') - 1] = inflight[n - 1]
        BY <1>2, <4>1
      <4>3. QED BY <1>3, <3>2, <4>1, <4>2
    <3>5. inflight' # <<>> => k < n
      BY <1>1, <1>5
    <3>6. QED BY <1>3, <1>6, <3>2, <3>3, <3>4, <3>5 DEF CalmInv
  <2>3. QED BY <2>1, <2>2
<1>11. QED BY <1>7, <1>8, <1>9, <1>10 DEF IInv

LEMMA RearrangeInv ==
  ASSUME IInv, NEW s \in Arrangements, Rearrange(s)
  PROVE  IInv'
<1>1. PICK d \in Connected(s) :
        focus' = d /\ reported' = d /\ since' = [since EXCEPT ![d] = 0]
  BY DEF Rearrange
<1>2. d \in Displays
  BY ConnectedAreDisplays
<1>3. since \in [Displays -> Ages] /\ 0 \in Ages /\ Ages \subseteq Nat
  BY TimeAssumption DEF IInv, TypeOK, Ages
<1>4. since' \in [Displays -> Ages] /\ since'[d] = 0
  BY <1>1, <1>2, <1>3
<1>5. inflight' = <<>> /\ pending' = pending /\ displays' = s
  BY DEF Rearrange
<1>6. TypeOK'
  <2>1. inflight' \in Seq(Change)
    BY <1>5
  <2>2. QED BY <1>1, <1>2, <1>4, <1>5, <2>1 DEF Rearrange, Settle, IInv, TypeOK
<1>7. FocusInv'
  BY <1>1, <1>5 DEF FocusInv
<1>8. RecentInv'
  <2>1. ASSUME pending # NoSwitch
        PROVE  since'[pending.to] <= pending.age
    <3>1. pending.to \in Displays /\ pending.age \in Nat /\ since[pending.to] <= pending.age
      BY <2>1, TimeAssumption DEF Switch, Ages, IInv, TypeOK, RecentInv
    <3>2. since'[pending.to] = IF pending.to = d THEN 0 ELSE since[pending.to]
      BY <1>1, <1>3, <3>1
    <3>3. QED BY <3>1, <3>2
  <2>2. \A i \in 1 .. Len(inflight') - 1 : since'[inflight'[i].to] <= inflight'[i + 1].age
    BY <1>5
  <2>3. QED BY <1>1, <1>4, <1>5, <2>1, <2>2 DEF RecentInv
<1>9. CalmInv'
  BY <1>6, CleanIsCalm DEF Rearrange, Settle, CalmInv
<1>10. QED BY <1>6, <1>7, <1>8, <1>9 DEF IInv

LEMMA TickInv ==
  ASSUME IInv, Tick
  PROVE  IInv'
<1>1. /\ inflight \in Seq(Change) /\ Len(inflight) \in Nat
      /\ \A i \in 1 .. Len(inflight) :
           inflight[i].to \in Displays /\ inflight[i].age \in Nat /\ inflight[i].age < Lag
      /\ inflight # <<>> => Len(inflight) \in 1 .. Len(inflight) /\ 1 \in 1 .. Len(inflight)
  BY ChangeFacts DEF IInv, TypeOK, Tick
<1>2. /\ inflight' \in Seq(Change)
      /\ Len(inflight') = Len(inflight)
      /\ \A i \in 1 .. Len(inflight) :
           inflight'[i].to = inflight[i].to /\ inflight'[i].age = inflight[i].age + 1
      /\ inflight' = <<>> <=> inflight = <<>>
  <2>1. inflight' = [i \in 1 .. Len(inflight) |-> [inflight[i] EXCEPT !.age = @ + 1]]
    BY DEF Tick
  <2>2. /\ inflight' \in Seq(Change)
        /\ Len(inflight') = Len(inflight)
        /\ \A i \in 1 .. Len(inflight) :
             inflight'[i].to = inflight[i].to /\ inflight'[i].age = inflight[i].age + 1
    BY <1>1, <2>1, AgeChanges
  <2>3. QED BY <1>1, <2>2
<1>3. UNCHANGED <<displays, focus, reported>>
  BY DEF Tick
<1>4. /\ since' \in [Displays -> Ages]
      /\ \A e \in Displays : /\ since[e] \in Ages
                             /\ since'[e] = IF e = focus THEN 0 ELSE Older(since[e])
  <2>1. \A x \in Ages : Older(x) \in Ages
    BY TimeAssumption DEF Ages, Older
  <2>2. 0 \in Ages
    BY TimeAssumption DEF Ages
  <2>3. QED BY <2>1, <2>2 DEF Tick, IInv, TypeOK
<1>5. /\ pending = NoSwitch => pending' = NoSwitch
      /\ pending # NoSwitch => /\ pending' \in Switch /\ pending' # NoSwitch
                               /\ pending'.from = pending.from
                               /\ pending'.to = pending.to
                               /\ pending.age \in Ages
                               /\ pending'.age = Older(pending.age)
  <2>1. CASE pending = NoSwitch
    BY <2>1 DEF Tick
  <2>2. CASE pending # NoSwitch
    <3>1. pending \in [from : Displays, to : Displays, age : Ages] /\ pending.from # pending.to
      BY <2>2 DEF IInv, TypeOK, Switch
    <3>2. pending' = [from |-> pending.from, to |-> pending.to, age |-> Older(pending.age)]
      BY <2>2, <3>1 DEF Tick
    <3>3. Older(pending.age) \in Ages
      BY <3>1, TimeAssumption DEF Older, Ages
    <3>4. pending' \in Switch
      <4>1. /\ pending' \in [from : Displays, to : Displays, age : Ages]
            /\ pending'.from = pending.from /\ pending'.to = pending.to
        BY <3>1, <3>2, <3>3
      <4> QED
        BY <3>1, <4>1 DEF Switch
    <3>5. QED BY <2>2, <3>1, <3>2, <3>4, NoSwitchAssumption DEF Switch, Ages
  <2>3. QED BY <2>1, <2>2
<1>6. TypeOK'
  BY <1>2, <1>3, <1>4, <1>5 DEF IInv, TypeOK, Tick, Settle
<1>7. FocusInv'
  BY <1>1, <1>2, <1>3 DEF IInv, FocusInv
<1>8. RecentInv'
  <2>1. since'[focus'] = 0
    BY <1>3, <1>4 DEF IInv, TypeOK
  <2>2. ASSUME NEW e \in Displays, NEW age \in Nat, age < Lag, since[e] <= age
        PROVE  since'[e] <= age + 1
    BY <1>4, <2>2, TimeAssumption DEF Older, Ages
  <2>3. inflight' # <<>> => since'[reported'] <= inflight'[1].age
    BY <1>1, <1>2, <1>3, <2>2 DEF IInv, RecentInv, TypeOK
  <2>4. ASSUME NEW i \in 1 .. Len(inflight') - 1
        PROVE  since'[inflight'[i].to] <= inflight'[i + 1].age
    <3>1. i \in 1 .. Len(inflight) - 1 /\ i \in 1 .. Len(inflight) /\ i + 1 \in 1 .. Len(inflight)
      BY <1>1, <1>2
    <3>2. since[inflight[i].to] <= inflight[i + 1].age
      BY <3>1 DEF IInv, RecentInv
    <3>3. QED BY <1>1, <1>2, <2>2, <3>1, <3>2
  <2>5. ASSUME pending' # NoSwitch
        PROVE  since'[pending'.to] <= pending'.age
    <3>1. pending # NoSwitch /\ pending.to \in Displays /\ since[pending.to] <= pending.age
      BY <1>5, <2>5 DEF IInv, TypeOK, RecentInv, Switch
    <3>2. pending.age \in Ages /\ pending'.to = pending.to /\ pending'.age = Older(pending.age)
      BY <1>5, <3>1
    <3>3. QED BY <1>4, <3>1, <3>2, TimeAssumption DEF Older, Ages
  <2>6. QED BY <2>1, <2>3, <2>4, <2>5 DEF RecentInv
<1>9. CalmInv'
  <2>1. CASE Clean(inflight', pending')
    BY <1>6, <2>1, CleanIsCalm
  <2>2. CASE ~Clean(inflight', pending')
    <3>1. SUFFICES ASSUME ~astray PROVE CalmInv'
      BY <2>2 DEF Tick, Settle, CalmInv
    <3>2. CASE inflight = <<>>
      <4>1. pending' # NoSwitch /\ pending'.age <= Ttl => pending # NoSwitch /\ pending.age <= Ttl
        BY <1>5, TimeAssumption DEF Older, Ages
      <4>2. pending' # NoSwitch /\ pending'.age <= Ttl => pending'.to = focus'
        BY <1>3, <1>5, <3>1, <3>2, <4>1 DEF IInv, CalmInv
      <4>3. QED BY <1>2, <3>2, <4>2 DEF CalmInv
    <3>3. CASE inflight # <<>>
      <4>1. /\ pending # NoSwitch /\ pending.to = focus
            /\ pending.age = inflight[Len(inflight)].age
            /\ Len(inflight) = 1 => pending.from = reported
            /\ Len(inflight) > 1 => pending.from = inflight[Len(inflight) - 1].to
        BY <3>1, <3>3 DEF IInv, CalmInv
      <4>2. pending.age < Lag /\ pending.age \in Nat
        BY <1>1, <3>3, <4>1
      <4>3. pending'.age = pending.age + 1
        BY <1>5, <4>1, <4>2, TimeAssumption DEF Older
      <4>4. Len(inflight) > 1 => Len(inflight) - 1 \in 1 .. Len(inflight)
        BY <1>1
      <4>5. Len(inflight') > 1 => pending'.from = inflight'[Len(inflight') - 1].to
        BY <1>2, <1>5, <4>1, <4>4
      <4>6. pending'.age = inflight'[Len(inflight')].age
        BY <1>1, <1>2, <3>3, <4>1, <4>3
      <4>7. QED BY <1>2, <1>3, <1>5, <3>3, <4>1, <4>5, <4>6 DEF CalmInv
    <3>4. QED BY <3>2, <3>3
  <2>3. QED BY <2>1, <2>2
<1>10. QED BY <1>6, <1>7, <1>8, <1>9 DEF IInv

-----------------------------------------------------------------------------
(***************************************************************************)
(* The strengthened invariant holds in every reachable state.  It is what  *)
(* the two properties need of the record and the queue: neither property   *)
(* is inductive alone, because a report turns an old change into an        *)
(* answer.                                                                 *)
(***************************************************************************)
LEMMA StepInv == IInv /\ [Next]_vars => IInv'
<1> SUFFICES ASSUME IInv, [Next]_vars PROVE IInv'
  OBVIOUS
<1>1. ASSUME NEW req \in Requests, NEW seen \in Answers, Press(req, seen)
      PROVE  IInv'
  <2> DEFINE active == ActiveDisplay(seen)
             target == StepFrom(displays, active, req)
  <2>1. CASE ReadActiveDisplay(seen)
    BY <2>1, ReadInv
  <2>2. CASE /\ active \in Connected(displays) /\ ShouldExecute(active, target)
             /\ SwitchTakes(active, target, seen)
    BY <2>2, PressTarget, TakesInv
  <2>3. CASE /\ active \in Connected(displays) /\ ShouldExecute(active, target)
             /\ SwitchIsPhantom(active, target)
    BY <2>3, PressTarget, PhantomInv
  <2>4. CASE active \in Connected(displays) /\ ClickUnrecorded(target, seen)
    BY <2>4, PressTarget, UnrecordedInv
  <2>5. QED BY <1>1, <2>1, <2>2, <2>3, <2>4 DEF Press
<1>2. ASSUME NEW seen \in Answers, ReadActiveDisplay(seen)
      PROVE  IInv'
  BY <1>2, ReadInv
<1>3. ASSUME NEW d \in Displays, OutsideClick(d)
      PROVE  IInv'
  BY <1>3, ClickInv
<1>4. ASSUME NEW k \in 1 .. Len(inflight), ServerReports(k)
      PROVE  IInv'
  BY <1>4, ReportInv
<1>5. ASSUME NEW s \in Arrangements, Rearrange(s)
      PROVE  IInv'
  BY <1>5, RearrangeInv
<1>6. CASE Tick
  BY <1>6, TickInv
<1>7. CASE UNCHANGED vars
  BY <1>7 DEF vars, IInv, TypeOK, FocusInv, RecentInv, CalmInv
<1>8. QED BY <1>1, <1>2, <1>3, <1>4, <1>5, <1>6, <1>7 DEF Next

THEOREM Invariance == Spec => []IInv
<1>1. QED BY InitInv, StepInv, PTL DEF Spec

(* Type correctness of every variable of the component.                    *)
THEOREM TypeCorrect == Spec => []TypeOK
<1>1. IInv => TypeOK
  BY DEF IInv
<1>2. QED BY <1>1, Invariance, PTL

(***************************************************************************)
(* No answer of active_display_identifier is ever more than Ttl out of     *)
(* date, whatever the user, the server and the failing steps do.           *)
(***************************************************************************)
THEOREM AnswersAreRecent == Spec => []AnswerIsRecent
<1>1. ASSUME IInv PROVE AnswerIsRecent
  <2>1. CASE BelievesPending(reported)
    <3>1. /\ pending # NoSwitch /\ pending.age <= Ttl /\ pending.to \in Displays
          /\ since[pending.to] <= pending.age
      BY <1>1, <2>1 DEF BelievesPending, IInv, TypeOK, RecentInv, Switch
    <3>2. pending.age \in Nat /\ since[pending.to] \in Nat
      BY <1>1, <3>1, TimeAssumption DEF IInv, TypeOK, Switch, Ages
    <3>3. QED BY <2>1, <3>1, <3>2, TimeAssumption DEF AnswerIsRecent, ActiveDisplay
  <2>2. CASE ~BelievesPending(reported) /\ inflight = <<>>
    BY <1>1, <2>2 DEF AnswerIsRecent, ActiveDisplay, IInv, FocusInv
  <2>3. CASE ~BelievesPending(reported) /\ inflight # <<>>
    <3>1. inflight \in Seq(Change) /\ reported \in Displays /\ since[reported] \in Nat
      BY <1>1, TimeAssumption DEF IInv, TypeOK, Ages
    <3>2. Len(inflight) \in Nat /\ Len(inflight) \in 1 .. Len(inflight)
      BY <2>3, <3>1, ChangeFacts
    <3>3. inflight[1].age \in Nat /\ inflight[1].age <= Lag
      BY <3>1, <3>2, ChangeFacts
    <3>4. since[reported] <= inflight[1].age
      BY <1>1, <2>3 DEF IInv, RecentInv
    <3>5. since[reported] <= Ttl
      BY <3>1, <3>3, <3>4, TimeAssumption
    <3>6. QED BY <2>3, <3>5 DEF AnswerIsRecent, ActiveDisplay
  <2>4. QED BY <2>1, <2>2, <2>3
<1>2. QED BY <1>1, Invariance, PTL

-----------------------------------------------------------------------------
(***************************************************************************)
(* Refinement: display switching implements DisplayWalk.                   *)
(***************************************************************************)
(* Both modules use the same planner.                                      *)
LEMMA SamePlan ==
  /\ \A s : Walk!Connected(s) = Connected(s)
  /\ \A s, d, req : Walk!StepFrom(s, d, req) = StepFrom(s, d, req)
BY DEF Walk!Connected, Connected, Walk!StepFrom, StepFrom, Walk!PositionOf, PositionOf,
       Walk!PlanDisplayRequest, PlanDisplayRequest, Walk!NoTarget, NoTarget

LEMMA InitWalks == Init => Walk!Init
<1> SUFFICES ASSUME Init PROVE Walk!Init
  OBVIOUS
<1>1. astray = FALSE /\ (Len(inflight) > 1) = FALSE
  BY DEF Init
<1>2. QED BY <1>1, SamePlan DEF Init, Walk!Init

LEMMA StepChanges == IInv /\ [Next]_vars => Walk!Changes
<1>1. (Len(inflight') > 1) \in BOOLEAN
  OBVIOUS
<1>2. ASSUME IInv' PROVE Walk!Changes
  BY <1>1, <1>2 DEF IInv, TypeOK, Walk!Changes
<1>3. QED BY <1>2, StepInv

(* A change of focus caused by a press is a walk.                          *)
LEMMA MoveWalks ==
  ASSUME IInv, Walk!Changes, NEW req \in Requests, NEW seen \in Answers,
         ActiveDisplay(seen) \in Connected(displays),
         focus' = StepFrom(displays, ActiveDisplay(seen), req),
         displays' = displays
  PROVE  Walk!Walk(req)
<1>2. focus' \in Connected(displays)
  BY PressTarget
<1>3. ASSUME ~astray, ~(Len(inflight) > 1)
      PROVE  ActiveDisplay(seen) = focus
  <2>1. seen \in {reported, NoDisplay}
    BY DEF Answers
  <2>2. CASE seen = NoDisplay
    <3>1. pending # NoSwitch => pending.from # NoDisplay
      BY DisplayAssumption DEF IInv, TypeOK, Switch
    <3>2. ActiveDisplay(seen) = NoDisplay
      BY <2>2, <3>1 DEF ActiveDisplay, BelievesPending
    <3>3. NoDisplay \notin Connected(displays)
      BY ConnectedAreDisplays, DisplayAssumption DEF IInv, TypeOK
    <3>4. QED BY <3>2, <3>3
  <2>3. CASE seen = reported
    <3>1. reported # NoDisplay
      BY DisplayAssumption DEF IInv, TypeOK
    <3>2. ~Misread(seen)
      BY <1>3, <2>3, <3>1 DEF Misread
    <3>3. QED BY <1>3, <2>3, <3>2, AnswerIsFocus
  <2>4. QED BY <2>1, <2>2, <2>3
<1>4. QED BY <1>2, <1>3, SamePlan DEF Walk!Walk

(* So is a press that moves nothing.                                       *)
LEMMA PressIsWalk ==
  ASSUME IInv, Walk!Changes, NEW req \in Requests, NEW seen \in Answers, Press(req, seen)
  PROVE  Walk!Walk(req)
<1> DEFINE active == ActiveDisplay(seen)
           target == StepFrom(displays, active, req)
<1>1. ASSUME UNCHANGED <<displays, focus>>
      PROVE  Walk!Walk(req)
  <2>1. focus \in Connected(displays)
    BY DEF IInv, FocusInv
  <2>2. QED BY <1>1, <2>1, SamePlan DEF Walk!Walk
<1>2. CASE ReadActiveDisplay(seen)
  BY <1>1, <1>2 DEF ReadActiveDisplay
<1>3. CASE active \in Connected(displays) /\ SwitchTakes(active, target, seen)
  BY <1>3, MoveWalks DEF SwitchTakes, FocusMovesTo
<1>4. CASE active \in Connected(displays) /\ SwitchIsPhantom(active, target)
  BY <1>1, <1>4 DEF SwitchIsPhantom
<1>5. CASE active \in Connected(displays) /\ ClickUnrecorded(target, seen)
  BY <1>5, MoveWalks DEF ClickUnrecorded, FocusMovesTo
<1>6. QED BY <1>2, <1>3, <1>4, <1>5 DEF Press

LEMMA EachPressIsWalk == IInv /\ [Next]_vars => [EachPressWalks]_vars
BY StepChanges, PressIsWalk DEF EachPressWalks

LEMMA StepWalks == IInv /\ [Next]_vars => [Walk!Next]_Walk!vars
<1> SUFFICES ASSUME IInv, [Next]_vars PROVE [Walk!Next]_Walk!vars
  OBVIOUS
<1>1. Walk!Changes
  BY StepChanges
<1>2. ASSUME UNCHANGED <<displays, focus>>
      PROVE  Walk!Next
  BY <1>1, <1>2 DEF Walk!Next, Walk!Quiet
<1>3. ASSUME NEW req \in Requests, NEW seen \in Answers, Press(req, seen)
      PROVE  Walk!Next
  BY <1>1, <1>3, PressIsWalk DEF Walk!Next
<1>4. ASSUME NEW d \in Displays, OutsideClick(d)
      PROVE  Walk!Next
  <2>1. inflight' # <<>>
    <3>1. inflight \in Seq(Change) /\ inflight' = Append(inflight, [to |-> d, age |-> 0])
      BY <1>4 DEF IInv, TypeOK, OutsideClick, FocusMovesTo
    <3>2. Len(inflight') = Len(inflight) + 1 /\ Len(inflight) \in Nat
      BY <3>1, AppendChange
    <3>3. QED BY <3>2
  <2>2. astray' = TRUE
    <3>1. astray' = (TRUE /\ ~Clean(inflight', pending'))
      BY <1>4 DEF OutsideClick, Settle
    <3>2. ~Clean(inflight', pending')
      BY <2>1 DEF Clean
    <3>3. QED BY <3>1, <3>2
  <2>3. Walk!MovedElsewhere
    BY <1>1, <1>4, <2>2, SamePlan
       DEF OutsideClick, FocusMovesTo, Walk!MovedElsewhere, Walk!Changes
  <2>4. QED BY <2>3 DEF Walk!Next
<1>5. ASSUME NEW s \in Arrangements, Rearrange(s)
      PROVE  Walk!Next
  <2>1. Walk!Rearrange
    BY <1>1, <1>5, SamePlan DEF Rearrange, Walk!Rearrange
  <2>2. QED BY <2>1 DEF Walk!Next
<1>6. ASSUME NEW seen \in Answers, ReadActiveDisplay(seen)
      PROVE  Walk!Next
  BY <1>2, <1>6 DEF ReadActiveDisplay
<1>7. ASSUME NEW k \in 1 .. Len(inflight), ServerReports(k)
      PROVE  Walk!Next
  BY <1>2, <1>7 DEF ServerReports
<1>8. CASE Tick
  BY <1>2, <1>8 DEF Tick
<1>9. CASE UNCHANGED vars
  BY <1>9 DEF vars, Walk!vars
<1>10. QED BY <1>3, <1>4, <1>5, <1>6, <1>7, <1>8, <1>9 DEF Next

(***************************************************************************)
(* Every behaviour of display switching, with every disturbance, is one of *)
(* DisplayWalk, and an undisturbed press goes where its own request leads  *)
(* from the display the focus was last sent to.                            *)
(***************************************************************************)
THEOREM PressesWalkAlways == Spec => PressesWalk
<1>1. QED
  BY InitWalks, StepWalks, EachPressIsWalk, Invariance, PTL
     DEF Spec, PressesWalk, Walk!Spec
=============================================================================
