---------------------------- MODULE OverlayProofs ----------------------------
(***************************************************************************)
(* Proofs about Mission Control and App Expose, for any displays, windows, *)
(* programs, numbers of jobs, of polls and of swipes under way: type       *)
(* correctness; sessions, requests and cycle keys that go by the window    *)
(* the overlay highlights, wherever it is not astray; a cursor hidden no   *)
(* more often than a show failed; and dismissals that bring the window     *)
(* they were made on forward.                                              *)
(***************************************************************************)
EXTENDS Overlay, FiniteSetTheorems, SequenceTheorems, TLAPS

-----------------------------------------------------------------------------
(* What Min and Max return on a nonempty bounded set of integers.          *)
LEMMA NatHasMin ==
  ASSUME NEW S \in SUBSET Nat, S # {}
  PROVE  \E x \in S : \A y \in S : x <= y
<1>1. PICK x \in S : \A y \in S : ~ (<<y, x>> \in OpToRel(<, Nat))
  BY NatLessThanWellFounded, WFMin
<1>2. \A y \in S : ~(y < x)
  BY <1>1 DEF OpToRel
<1> QED
  BY <1>2

LEMMA MinIsIn ==
  ASSUME NEW a \in Int, NEW b \in Int, NEW S \in SUBSET (a .. b), S # {}
  PROVE  /\ Min(S) \in S
         /\ \A y \in S : Min(S) <= y
<1> DEFINE T == {n \in Nat : a + n \in S}
<1>1. T \in SUBSET Nat /\ T # {}
  <2>1. PICK y \in S : TRUE
    OBVIOUS
  <2>2. y - a \in Nat /\ a + (y - a) = y
    BY <2>1
  <2> QED
    BY <2>2
<1>2. PICK x \in T : \A n \in T : x <= n
  BY <1>1, NatHasMin
<1>3. a + x \in S
  BY <1>2
<1>4. \A y \in S : a + x =< y
  <2> SUFFICES ASSUME NEW y \in S PROVE a + x =< y
    OBVIOUS
  <2>1. y \in Int /\ y - a \in Nat /\ a + (y - a) = y
    OBVIOUS
  <2>2. y - a \in T
    BY <2>1
  <2> QED
    BY <1>2, <2>1, <2>2
<1> QED
  BY <1>3, <1>4 DEF Min

LEMMA MaxIsIn ==
  ASSUME NEW a \in Int, NEW b \in Int, NEW S \in SUBSET (a .. b), S # {}
  PROVE  /\ Max(S) \in S
         /\ \A y \in S : Max(S) >= y
<1> DEFINE T == {n \in Nat : b - n \in S}
<1>1. T \in SUBSET Nat /\ T # {}
  <2>1. PICK y \in S : TRUE
    OBVIOUS
  <2>2. b - y \in Nat /\ b - (b - y) = y
    BY <2>1
  <2> QED
    BY <2>2
<1>2. PICK x \in T : \A n \in T : x <= n
  BY <1>1, NatHasMin
<1>3. b - x \in S
  BY <1>2
<1>4. \A y \in S : b - x >= y
  <2> SUFFICES ASSUME NEW y \in S PROVE b - x >= y
    OBVIOUS
  <2>1. y \in Int /\ b - y \in Nat /\ b - (b - y) = y
    OBVIOUS
  <2>2. b - y \in T
    BY <2>1
  <2>3. x <= b - y /\ x \in Nat
    BY <1>2, <2>2
  <2> QED
    BY <2>1, <2>3
<1> QED
  BY <1>3, <1>4 DEF Max

-----------------------------------------------------------------------------
(* The windows and the stack.                                              *)
LEMMA SomeWindows == IsFiniteSet(Windows) /\ Windows # {} /\ Cardinality(Windows) \in Nat \ {0}
<1>1. Reading \in [1 .. Len(Reading) -> Windows] /\ Len(Reading) \in Nat
  BY OverlayAssumption
<1>2. \A w \in Windows : \E i \in 1 .. Len(Reading) : Reading[i] = w
  BY <1>1 DEF Windows, Range
<1>3. Reading \in Surjection(1 .. Len(Reading), Windows)
  BY <1>1, <1>2 DEF Surjection
<1>4. IsFiniteSet(Windows)
  BY <1>1, <1>3, FS_NatSurjection DEF ExistsSurjection
<1>5. Windows # {}
  BY <1>1, OverlayAssumption DEF Windows, Range
<1>6. Cardinality(Windows) \in Nat /\ Cardinality(Windows) # 0
  BY <1>4, <1>5, FS_CardinalityType, FS_EmptySet
<1> QED
  BY <1>4, <1>5, <1>6

(* A stack of all windows holds each of them once.                         *)
LEMMA StackHoldsAll ==
  ASSUME NEW st \in SetToSeqs(Windows)
  PROVE  /\ DOMAIN st = 1 .. Cardinality(Windows)
         /\ st \in [1 .. Cardinality(Windows) -> Windows]
         /\ st \in Injection(1 .. Cardinality(Windows), Windows)
         /\ \A w \in Windows : \E i \in 1 .. Cardinality(Windows) : st[i] = w
<1>1. st \in [1 .. Cardinality(Windows) -> Windows]
  BY DEF SetToSeqs
<1>2. st \in Injection(1 .. Cardinality(Windows), Windows)
  BY <1>1 DEF SetToSeqs, Injection, IsInjective
<1>3. Cardinality(1 .. Cardinality(Windows)) = Cardinality(Windows)
  BY SomeWindows, FS_Interval
<1>4. st \in Surjection(1 .. Cardinality(Windows), Windows)
  BY <1>2, <1>3, SomeWindows, FS_Injection
<1> QED
  BY <1>1, <1>2, <1>4 DEF Surjection

LEMMA FrontIsIn ==
  ASSUME NEW ws \in SUBSET Windows, ws # {}, stack \in SetToSeqs(Windows)
  PROVE  FrontOf(ws) \in ws
<1>1. PICK st \in SetToSeqs(Windows) : st = stack
  OBVIOUS
<1> DEFINE S == {i \in DOMAIN st : st[i] \in ws}
<1>2. S \in SUBSET (1 .. Cardinality(Windows)) /\ S # {}
  BY StackHoldsAll
<1>3. \A i \in S : st[i] \in ws
  OBVIOUS
<1>4. FrontOf(ws) = st[Min(S)]
  BY <1>1 DEF FrontOf
<1> HIDE DEF S
<1>5. Min(S) \in S
  BY <1>2, SomeWindows, MinIsIn, 1 \in Int, Cardinality(Windows) \in Int
<1> QED
  BY <1>3, <1>4, <1>5

LEMMA FirstIsFront ==
  ASSUME NEW ws \in SUBSET Windows, NEW st \in SetToSeqs(Windows), st[1] \in ws
  PROVE  st[Min({i \in DOMAIN st : st[i] \in ws})] = st[1]
<1> DEFINE S == {i \in DOMAIN st : st[i] \in ws}
<1>1. S \in SUBSET (1 .. Cardinality(Windows)) /\ 1 \in S
  BY StackHoldsAll, SomeWindows
<1>2. \A y \in S : y \in Int /\ 1 <= y
  BY <1>1, SomeWindows
<1> HIDE DEF S
<1>3. Min(S) \in S /\ Min(S) <= 1
  BY <1>1, SomeWindows, MinIsIn, 1 \in Int, Cardinality(Windows) \in Int
<1>4. Min(S) = 1
  BY <1>2, <1>3
<1> QED
  BY <1>4 DEF S

LEMMA PositionIsWhere ==
  ASSUME NEW st \in SetToSeqs(Windows), NEW w \in Windows
  PROVE  PositionOf(st, w) \in 1 .. Cardinality(Windows) /\ st[PositionOf(st, w)] = w
<1>1. Len(st) = Cardinality(Windows)
  BY StackHoldsAll, SomeWindows
<1>2. \E i \in 1 .. Len(st) : st[i] = w
  BY <1>1, StackHoldsAll
<1> QED
  BY <1>1, <1>2 DEF PositionOf

LEMMA RaisedTypes ==
  ASSUME stack \in SetToSeqs(Windows), NEW w \in Windows \cup {Nothing}
  PROVE  /\ Raised(w) \in SetToSeqs(Windows)
         /\ w \in Windows => Raised(w)[1] = w
<1>1. CASE w = Nothing
  BY <1>1, NothingAssumption DEF Raised, Points
<1>2. CASE w \in Windows
  <2> DEFINE n == Cardinality(Windows)
             p == PositionOf(stack, w)
             r == Raised(w)
  <2>1. n \in Nat \ {0} /\ p \in 1 .. n /\ stack[p] = w
    BY <1>2, SomeWindows, PositionIsWhere
  <2>2. /\ DOMAIN stack = 1 .. n /\ stack \in [1 .. n -> Windows]
        /\ \A i, j \in 1 .. n : stack[i] = stack[j] => i = j
    BY StackHoldsAll DEF Injection, IsInjective
  <2>3. w # Nothing
    BY <1>2, NothingAssumption DEF Points
  <2>4. r = [i \in 1 .. n |-> CASE i = 1 -> w
                                [] i \in 2 .. p -> stack[i - 1]
                                [] OTHER -> stack[i]]
    BY <2>2, <2>3 DEF Raised
  <2> HIDE DEF r, n, p
  <2>5. r[1] = w
    BY <2>1, <2>4
  <2>6. \A i \in 2 .. p : r[i] = stack[i - 1]
    BY <2>1, <2>4
  <2>7. \A i \in (p + 1) .. n : r[i] = stack[i]
    BY <2>1, <2>4
  <2>8. \A i \in 1 .. n : i = 1 \/ i \in 2 .. p \/ i \in (p + 1) .. n
    BY <2>1
  <2>9. \A i \in 1 .. n : r[i] \in Windows
    BY <1>2, <2>1, <2>2, <2>5, <2>6, <2>7, <2>8
  <2>10. r \in [1 .. n -> Windows]
    BY <2>4, <2>9
  <2>11. \A i, j \in 1 .. n : i # j => r[i] # r[j]
    <3> DEFINE From(i) == IF i = 1 THEN p ELSE IF i \in 2 .. p THEN i - 1 ELSE i
    <3>1. \A i \in 1 .. n : From(i) \in 1 .. n /\ r[i] = stack[From(i)]
      BY <2>1, <2>5, <2>6, <2>7, <2>8
    <3>2. \A i, j \in 1 .. n : From(i) = From(j) => i = j
      BY <2>1
    <3> HIDE DEF From
    <3> QED
      BY <2>2, <3>1, <3>2
  <2>12. r \in SetToSeqs(Windows)
    BY <2>10, <2>11 DEF SetToSeqs, n
  <2> QED
    BY <2>5, <2>12 DEF r
<1> QED
  BY <1>1, <1>2

LEMMA StepIsIn ==
  ASSUME NEW ws \in SUBSET Windows, ws # {}, NEW w, NEW dir
  PROVE  StepFromWindow(ws, w, dir) \in ws
<1> DEFINE places == {k \in DOMAIN Reading : Reading[k] \in ws}
           here   == PositionOf(Reading, w)
           after  == {k \in places : k > here}
           before == {k \in places : k < here}
           A == IF after = {} THEN places ELSE after
           B == IF before = {} THEN places ELSE before
<1>1. Len(Reading) \in Nat /\ DOMAIN Reading = 1 .. Len(Reading)
  BY OverlayAssumption
<1>2. places # {} /\ places \subseteq 1 .. Len(Reading)
  BY <1>1 DEF Windows, Range
<1>3. A \in SUBSET (1 .. Len(Reading)) /\ A # {} /\ A \subseteq places
  BY <1>2
<1>4. B \in SUBSET (1 .. Len(Reading)) /\ B # {} /\ B \subseteq places
  BY <1>2
<1>5. Min(A) \in places
  <2> HIDE DEF A, places
  <2>1. Min(A) \in A
    BY <1>1, <1>3, MinIsIn, 1 \in Int, Len(Reading) \in Int
  <2> QED
    BY <1>3, <2>1
<1>6. Max(B) \in places
  <2> HIDE DEF B, places
  <2>1. Max(B) \in B
    BY <1>1, <1>4, MaxIsIn, 1 \in Int, Len(Reading) \in Int
  <2> QED
    BY <1>4, <2>1
<1>7. StepFromWindow(ws, w, dir) = Reading[IF dir = "next" THEN Min(A) ELSE Max(B)]
  BY DEF StepFromWindow
<1> QED
  BY <1>5, <1>6, <1>7

LEMMA PlanIsIn ==
  ASSUME NEW ws \in SUBSET Windows, ws # {}, stack \in SetToSeqs(Windows), NEW dir, NEW under
  PROVE  PlanThumbnailCycle(ws, dir, under) \in ws
BY StepIsIn, FrontIsIn DEF PlanThumbnailCycle

-----------------------------------------------------------------------------
(* What a request under an overlay works with.                             *)
LEMMA ThumbnailsAreWindows ==
  ASSUME NEW d, NEW seen
  PROVE  /\ Thumbnails(d, seen) \in SUBSET Windows
         /\ \A w \in Thumbnails(d, seen) : DisplayOf[w] = d
         /\ Thumbnails(d, seen) # {} => d \in Connected(Displays)
BY OverlayAssumption DEF Thumbnails, Points

LEMMA HeadOfStack ==
  ASSUME stack \in SetToSeqs(Windows)
  PROVE  Head(stack) \in Windows /\ ActiveDisplay \in Connected(Displays)
<1>1. stack \in Seq(Windows) /\ stack # <<>>
  BY StackHoldsAll, SomeWindows
<1>2. Head(stack) \in Windows
  BY <1>1
<1> QED
  BY <1>2, OverlayAssumption DEF ActiveDisplay, Points

LEMMA OverlayDisplayTypes ==
  ASSUME TypeOK
  PROVE  OverlayDisplay \in Connected(Displays)
<1>1. session # Nothing => session.display \in Connected(Displays)
  BY DEF TypeOK, Sessions
<1>2. ActiveDisplay \in Connected(Displays)
  BY HeadOfStack DEF TypeOK
<1> QED
  BY <1>1, <1>2 DEF OverlayDisplay, SessionIsCurrent

LEMMA DisplaysAre ==
  /\ Len(Displays) \in Nat
  /\ \A i \in 1 .. Len(Displays) : Displays[i] \in Connected(Displays)
  /\ \A d \in Connected(Displays) :
       PositionOf(Displays, d) \in 1 .. Len(Displays) /\ Displays[PositionOf(Displays, d)] = d
<1>1. Len(Displays) \in Nat
  BY OverlayAssumption
<1>2. \A i \in 1 .. Len(Displays) : Displays[i] \in Connected(Displays)
  BY DEF Connected
<1>3. ASSUME NEW d \in Connected(Displays)
      PROVE  PositionOf(Displays, d) \in 1 .. Len(Displays)
             /\ Displays[PositionOf(Displays, d)] = d
  <2>1. \E i \in 1 .. Len(Displays) : Displays[i] = d
    BY DEF Connected
  <2> QED
    BY <2>1 DEF PositionOf
<1> QED
  BY <1>1, <1>2, <1>3

LEMMA StepFromTypes ==
  ASSUME NEW d \in Connected(Displays), NEW req \in Requests
  PROVE  StepFrom(Displays, d, req) \in Connected(Displays)
<1> DEFINE cur == PositionOf(Displays, d)
           n == Len(Displays)
           t == PlanDisplayRequest(req, cur, n)
<1>1. n \in Nat /\ cur \in 1 .. n
  BY DisplaysAre
<1>2. req.action \in DisplayActions /\ req.index \in Nat
  BY OverlayAssumption DEF DisplayRequests
<1>3. t \in 1 .. n \/ t = NoTarget
  BY <1>1, <1>2 DEF PlanDisplayRequest, DisplayActions
<1> HIDE DEF t
<1> QED
  BY <1>3, DisplaysAre DEF StepFrom, t

LEMMA NextWithThumbnailsTypes ==
  ASSUME NEW start \in 1 .. Len(Displays), NEW req, NEW seen
  PROVE  NextWithThumbnails(start, req, seen) \in Connected(Displays) \cup {Nothing}
<1> DEFINE n == Len(Displays)
           At(k) == Displays[((k + n - 1) % n) + 1]
           ahead == IF req.action = "right" THEN start .. (start + n - 1)
                                            ELSE (start - n + 1) .. start
           reached == IF req.wrap THEN ahead ELSE ahead \cap (1 .. n)
           shown == {k \in reached : Thumbnails(At(k), seen) # {}}
<1>1. n \in Nat \ {0}
  BY DisplaysAre
<1>2. \A k \in Int : (k + n - 1) % n \in 0 .. n - 1
  BY <1>1
<1>3. \A k \in Int : At(k) \in Connected(Displays)
  BY <1>1, <1>2, DisplaysAre
<1>4. PICK S : S = shown
  OBVIOUS
<1>5. S \in SUBSET ((start - n) .. (start + n))
  BY <1>1, <1>4
<1>a. \A y \in S : y \in Int
  BY <1>1, <1>5
<1>6. NextWithThumbnails(start, req, seen) =
        IF S = {} THEN Nothing ELSE At(IF req.action = "right" THEN Min(S) ELSE Max(S))
  BY <1>4 DEF NextWithThumbnails
<1>7. S # {} => Min(S) \in Int /\ Max(S) \in Int
  <2> SUFFICES ASSUME S # {} PROVE Min(S) \in Int /\ Max(S) \in Int
    OBVIOUS
  <2>1. start - n \in Int /\ start + n \in Int
    BY <1>1
  <2>2. Min(S) \in S /\ Max(S) \in S
    BY <1>5, <2>1, MinIsIn, MaxIsIn
  <2> QED
    BY <1>a, <2>2
<1> HIDE DEF At
<1> QED
  BY <1>3, <1>6, <1>7

LEMMA OverlayTargetTypes ==
  ASSUME TypeOK, NEW req \in Requests, NEW seen
  PROVE  OverlayTarget(req, seen) \in Connected(Displays) \cup {Nothing}
<1>1. PICK d \in Connected(Displays) : d = StepFrom(Displays, OverlayDisplay, req)
  BY OverlayDisplayTypes, StepFromTypes
<1>2. PositionOf(Displays, d) \in 1 .. Len(Displays)
  BY DisplaysAre
<1> QED
  BY <1>1, <1>2, NextWithThumbnailsTypes DEF OverlayTarget

LEMMA SessionWindowTypes ==
  ASSUME TypeOK
  PROVE  /\ SessionWindow \in Windows \cup {Nothing}
         /\ SessionWindow # Nothing => session \in Sessions
BY DEF TypeOK, SessionWindow, SessionIsCurrent, Sessions

LEMMA UnderTypes ==
  ASSUME NEW p
  PROVE  Under(p) \subseteq Windows \cup {Nothing}
BY DEF Under

-----------------------------------------------------------------------------
(* Showing the cursor undoes a hide, or is one more that failed.           *)
LEMMA AtLeastZero ==
  ASSUME NEW n \in Nat
  PROVE  Max({n - 1, 0}) = IF n = 0 THEN 0 ELSE n - 1
<1> DEFINE S == {n - 1, 0}
<1>1. S \in SUBSET ((-1) .. n) /\ S # {} /\ -1 \in Int /\ n \in Int
  OBVIOUS
<1>2. n - 1 \in S /\ 0 \in S /\ \A x \in S : x = n - 1 \/ x = 0
  OBVIOUS
<1> HIDE DEF S
<1>3. Max(S) \in S /\ \A y \in S : Max(S) >= y
  BY <1>1, MaxIsIn
<1>4. (Max(S) = n - 1 \/ Max(S) = 0) /\ Max(S) >= n - 1 /\ Max(S) >= 0
  BY <1>2, <1>3
<1>5. Max(S) = IF n = 0 THEN 0 ELSE n - 1
  BY <1>4
<1> QED
  BY <1>5 DEF S

LEMMA ShowTypes ==
  ASSUME TypeOK, NEW h \in Nat, ShowCursor(h)
  PROVE  /\ hides' \in Nat
         /\ unshown' \in 0 .. MaxUnshown
         /\ \/ hides' = (IF h = 0 THEN 0 ELSE h - 1) /\ unshown' = unshown
            \/ hides' = h /\ unshown' = unshown + 1
<1>1. unshown \in 0 .. MaxUnshown /\ MaxUnshown \in Nat
  BY OverlayAssumption DEF TypeOK
<1>2. CASE hides' = HidesAfterShow(h) /\ UNCHANGED unshown
  BY <1>1, <1>2, AtLeastZero DEF HidesAfterShow
<1>3. CASE unshown < MaxUnshown /\ hides' = h /\ unshown' = unshown + 1
  BY <1>1, <1>3
<1> QED
  BY <1>2, <1>3 DEF ShowCursor

-----------------------------------------------------------------------------
(* A hover keeps the types.                                                *)
LEMMA TargetTypes ==
  ASSUME NEW w \in Windows
  PROVE  /\ w \in Points /\ w # Nothing
         /\ Targets(w) \subseteq Points
         /\ HighlightsAt(w) \subseteq Windows \cup {Nothing}
<1>1. w \in Points
  BY DEF Points
<1> QED
  BY <1>1, OverlayAssumption, NothingAssumption DEF Targets, HighlightsAt

LEMMA RememberTypes ==
  ASSUME NEW d \in Connected(Displays), NEW w \in Windows \cup {Nothing},
         NEW at \in Points, NEW target \in Points, RememberSession(d, w, at, target)
  PROVE  /\ session' \in Sessions /\ session' # Nothing
         /\ session'.window = w /\ session'.display = d /\ session'.cursor = at
<1>1. session' \in Sessions
  BY DEF RememberSession, Sessions
<1>2. session' # Nothing
  BY <1>1, NothingAssumption
<1> QED
  BY <1>1, <1>2 DEF RememberSession

LEMMA HoverTypes ==
  ASSUME TypeOK, NEW d \in Connected(Displays), NEW w \in Windows, NEW at \in Points,
         Hover(d, w, at)
  PROVE  /\ cursor' \in Points /\ home' \in Points
         /\ hides' \in Nat /\ unshown' \in 0 .. MaxUnshown
         /\ hovered' \in Windows \cup {Nothing}
         /\ promised' \in Windows \cup {Nothing}
         /\ session' \in Sessions \cup {Nothing}
         /\ astray' \in BOOLEAN
<1>1. hides' \in Nat /\ unshown' \in 0 .. MaxUnshown
  <2>1. hides + 1 \in Nat
    BY DEF TypeOK
  <2>2. ShowCursor(hides + 1)
    BY DEF Hover
  <2> QED
    BY <2>1, <2>2, ShowTypes
<1>2. CASE HoverHops(d, w, at) \/ HoverIsLate(d, w, at)
  <2>1. cursor' = at /\ astray' \in BOOLEAN
    BY <1>2 DEF HoverHops, HoverIsLate
  <2>2. hovered' \in Windows \cup {Nothing}
    BY <1>2, TargetTypes DEF HoverHops, HoverIsLate, TypeOK
  <2>3. PICK target \in Points : RememberSession(d, w, at, target)
    BY <1>2, TargetTypes DEF HoverHops, HoverIsLate
  <2>4. session' \in Sessions
    BY <2>3, RememberTypes
  <2> QED
    BY <1>1, <2>1, <2>2, <2>4 DEF Hover, TypeOK
<1>3. CASE HoverFails(w, at)
  <2>1. cursor' \in Points /\ hovered' \in Windows \cup {Nothing} /\ astray' \in BOOLEAN
    BY <1>3, TargetTypes DEF HoverFails, TypeOK
  <2> QED
    BY <1>1, <1>3, <2>1 DEF Hover, HoverFails, TypeOK
<1> QED
  BY <1>2, <1>3 DEF Hover

LEMMA FreeSlot ==
  ASSUME NEW js, Free(js) # {}
  PROVE  Min(Free(js)) \in Slots /\ js[Min(Free(js))] = Nothing
<1>1. Free(js) \in SUBSET (1 .. MaxJobs)
  BY DEF Free, Slots
<1>2. 1 \in Int /\ MaxJobs \in Int
  BY OverlayAssumption
<1>3. Min(Free(js)) \in Free(js)
  BY <1>1, <1>2, MinIsIn
<1> QED
  BY <1>3 DEF Free

LEMMA PrepareTypes ==
  ASSUME TypeOK, PrepareOverlayDismissal
  PROVE  /\ cursor' \in Points /\ home' \in Points
         /\ hides' \in Nat /\ unshown' \in 0 .. MaxUnshown
         /\ promised' \in Windows \cup {Nothing}
         /\ session' \in Sessions \cup {Nothing}
         /\ dismissals' \in [Slots -> DismissalJobs \cup {Nothing}]
         /\ astray' \in BOOLEAN
<1>1. /\ promised' \in Windows \cup {Nothing} /\ session' = Nothing /\ home' \in Points
      /\ astray' \in BOOLEAN
  <2>1. Promise \in Windows \cup {Nothing}
    BY DEF Promise, TypeOK
  <2>2. promised' \in {Promise, Nothing} /\ session' = Nothing /\ home' = home
        /\ astray' \in BOOLEAN
    BY DEF PrepareOverlayDismissal, TypeOK, SessionIsCurrent
  <2> QED
    BY <2>1, <2>2 DEF TypeOK
<1>2. CASE NoDismissal
  BY <1>1, <1>2 DEF NoDismissal, TypeOK
<1>3. CASE ParkFails
  <2>1. hides + 1 \in Nat /\ ShowCursor(hides + 1) /\ UNCHANGED <<cursor, dismissals>>
    BY <1>3 DEF ParkFails, TypeOK
  <2>2. hides' \in Nat /\ unshown' \in 0 .. MaxUnshown
    BY <2>1, ShowTypes
  <2> QED
    BY <1>1, <2>1, <2>2 DEF TypeOK
<1>4. CASE Parks /\ ParkCursor
  <2>1. SessionWindow \in Windows /\ session.target \in Points
    BY <1>4, SessionWindowTypes DEF Sessions, Parks
  <2>2. PICK s \in Slots : s = Min(Free(dismissals))
    <3>1. PICK js : js = dismissals
      OBVIOUS
    <3> QED
      BY <1>4, <3>1, FreeSlot DEF ParkCursor
  <2>3. PICK job : job = [home |-> cursor, window |-> SessionWindow, left |-> Polls]
    OBVIOUS
  <2>4. job \in DismissalJobs
    BY <2>1, <2>3, OverlayAssumption DEF DismissalJobs, TypeOK
  <2>5. dismissals' = [dismissals EXCEPT ![s] = job]
    BY <1>4, <2>2, <2>3 DEF ParkCursor
  <2>6. dismissals' \in [Slots -> DismissalJobs \cup {Nothing}]
    BY <2>4, <2>5 DEF TypeOK
  <2>7. cursor' \in Points /\ hides' \in Nat /\ unshown' \in 0 .. MaxUnshown
    BY <1>4, <2>1 DEF ParkCursor, TypeOK
  <2> QED
    BY <1>1, <2>6, <2>7
<1> QED
  BY <1>2, <1>3, <1>4 DEF PrepareOverlayDismissal

-----------------------------------------------------------------------------
(* Types: one lemma per action that changes more than the Dock.            *)
LEMMA HoverStepTypes ==
  ASSUME TypeOK, NEW d \in Connected(Displays), NEW w \in Windows, NEW at \in Points,
         Hover(d, w, at), UNCHANGED <<dock, dismissals>>,
         highlights' \in [Slots -> HighlightJobs \cup {Nothing}]
  PROVE  TypeOK'
BY HoverTypes DEF TypeOK, dock

LEMMA PressCycleTypes ==
  ASSUME TypeOK, NEW dir, PressCycle(dir)
  PROVE  TypeOK'
<1>1. PICK seen : /\ Thumbnails(OverlayDisplay, seen) # {}
                  /\ \E w \in {PlanThumbnailCycle(Thumbnails(OverlayDisplay, seen), dir, under)
                                 : under \in Under(cursor)} :
                       Hover(OverlayDisplay, w, cursor)
  BY DEF PressCycle
<1>2. PICK d, at, ws : /\ d = OverlayDisplay /\ at = cursor
                       /\ ws = Thumbnails(OverlayDisplay, seen)
  OBVIOUS
<1>3. d \in Connected(Displays) /\ at \in Points /\ ws \in SUBSET Windows /\ ws # {}
  BY <1>1, <1>2, OverlayDisplayTypes, ThumbnailsAreWindows DEF TypeOK
<1>4. PICK w \in ws : Hover(d, w, at)
  BY <1>1, <1>2, <1>3, PlanIsIn DEF TypeOK
<1>5. UNCHANGED <<dock, dismissals>> /\ highlights' = highlights
  BY DEF PressCycle, jobs
<1> QED
  BY <1>3, <1>4, <1>5, HoverStepTypes DEF TypeOK

LEMMA PressDisplayTypes ==
  ASSUME TypeOK, NEW req \in Requests, PressDisplay(req)
  PROVE  TypeOK'
<1>1. PICK d, ws, at :
        /\ d \in Connected(Displays) /\ d # Nothing
        /\ \E seen : ws = Thumbnails(d, seen)
        /\ at = IF MoveCursor /\ DisplayOf[cursor] # d THEN Anchor[d] ELSE cursor
        /\ \/ /\ ws = {}
              /\ ComesToEmpty(d, at)
           \/ /\ ws # {}
              /\ Hover(d, FrontOf(ws), at)
  BY OverlayTargetTypes, NothingAssumption DEF PressDisplay
<1>2. UNCHANGED <<dock, dismissals>> /\ highlights' = highlights
  BY DEF PressDisplay, jobs
<1>3. at \in Points
  BY <1>1, OverlayAssumption DEF TypeOK, Points, Range
<1>4. CASE ws = {} /\ ComesToEmpty(d, at)
  <2>1. session' \in Sessions \cup {Nothing} /\ astray' \in BOOLEAN
    BY <1>1, <1>3, <1>4, RememberTypes DEF ComesToEmpty, TypeOK
  <2> QED
    BY <1>2, <1>3, <1>4, <2>1 DEF ComesToEmpty, TypeOK, dock
<1>5. CASE ws # {} /\ Hover(d, FrontOf(ws), at)
  <2>1. FrontOf(ws) \in Windows
    BY <1>1, <1>5, FrontIsIn, ThumbnailsAreWindows DEF TypeOK
  <2>2. PICK w \in Windows : w = FrontOf(ws)
    BY <2>1
  <2> QED
    BY <1>1, <1>2, <1>3, <1>5, <2>2, HoverStepTypes DEF TypeOK
<1> QED
  BY <1>1, <1>4, <1>5

LEMMA PostSwipeTypes ==
  ASSUME TypeOK, NEW dir \in {"up", "down"}, PostSwipe(dir)
  PROVE  /\ swipes' \in Seq({"up", "down"})
         /\ UNCHANGED <<view, phase, stack>>
BY DEF PostSwipe, TypeOK

LEMMA UnpreparedTypes ==
  ASSUME TypeOK, Unprepared
  PROVE  /\ cursor' \in Points /\ home' \in Points
         /\ hides' \in Nat /\ unshown' \in 0 .. MaxUnshown
         /\ session' \in Sessions \cup {Nothing}
         /\ dismissals' \in [Slots -> DismissalJobs \cup {Nothing}]
         /\ astray' \in BOOLEAN
BY DEF Unprepared, mouse, TypeOK

LEMMA PressToggleTypes ==
  ASSUME TypeOK, NEW element \in Elements, PressToggle(element)
  PROVE  TypeOK'
<1>1. PICK seen, dir :
        /\ dir = ToggleDirection(element, seen)
        /\ IF Dismisses(dir, seen)
           THEN PrepareOverlayDismissal
           ELSE Unprepared /\ promised' = Nothing
        /\ PostSwipe(dir)
        /\ IF seen = "hidden" /\ swipes' # swipes
           THEN HighlightWhenOverlayAppears
           ELSE UNCHANGED highlights
        /\ UNCHANGED hovered
  BY DEF PressToggle
<1>2. dir \in {"up", "down"}
  BY <1>1 DEF ToggleDirection
<1>3. /\ cursor' \in Points /\ home' \in Points
      /\ hides' \in Nat /\ unshown' \in 0 .. MaxUnshown
      /\ promised' \in Windows \cup {Nothing}
      /\ session' \in Sessions \cup {Nothing}
      /\ dismissals' \in [Slots -> DismissalJobs \cup {Nothing}]
      /\ astray' \in BOOLEAN
  BY <1>1, PrepareTypes, UnpreparedTypes
<1>4. highlights' \in [Slots -> HighlightJobs \cup {Nothing}]
  <2>1. CASE HighlightWhenOverlayAppears
    <3>1. PICK job : job = [display |-> Nothing, last |-> Nothing, left |-> Polls]
      OBVIOUS
    <3>a. Polls \in 0 .. Polls
      BY OverlayAssumption
    <3>b. job \in HighlightJobs
      BY <3>1, <3>a DEF HighlightJobs
    <3>2. highlights' = [highlights EXCEPT ![Min(Free(highlights))] = job]
      BY <2>1, <3>1 DEF HighlightWhenOverlayAppears
    <3> QED
      BY <3>2, <3>b DEF TypeOK
  <2> QED
    BY <1>1, <2>1 DEF TypeOK
<1> QED
  BY <1>1, <1>2, <1>3, <1>4, PostSwipeTypes DEF TypeOK

LEMMA FastSwipeTypes ==
  ASSUME TypeOK, NEW dir \in {"up", "down"}, FastSwipe(dir)
  PROVE  TypeOK'
<1>1. Promise \in Windows \cup {Nothing}
  BY DEF Promise, TypeOK
<1>2. /\ cursor' \in Points /\ home' \in Points
      /\ hides' \in Nat /\ unshown' \in 0 .. MaxUnshown
      /\ promised' \in Windows \cup {Nothing}
      /\ session' \in Sessions \cup {Nothing}
      /\ dismissals' \in [Slots -> DismissalJobs \cup {Nothing}]
      /\ astray' \in BOOLEAN
  BY <1>1, PrepareTypes, UnpreparedTypes DEF FastSwipe
<1>3. UNCHANGED <<highlights, hovered>> /\ PostSwipe(dir)
  BY DEF FastSwipe
<1> QED
  BY <1>2, <1>3, PostSwipeTypes DEF TypeOK

LEMMA JobDisplayTypes ==
  ASSUME TypeOK, NEW slot \in Slots, highlights[slot] # Nothing, NEW seen
  PROVE  JobDisplay(highlights[slot], seen) \in Connected(Displays) \cup {Nothing}
<1>1. highlights[slot].display \in Connected(Displays) \cup {Nothing}
  BY DEF TypeOK, HighlightJobs
<1>2. PICK S : S = {i \in DOMAIN Displays : Thumbnails(ActiveFirst[i], seen) # {}}
  OBVIOUS
<1>3. Len(Displays) \in Nat /\ DOMAIN Displays = 1 .. Len(Displays)
  BY OverlayAssumption
<1>4. S \in SUBSET (1 .. Len(Displays)) /\ \A i \in S : Thumbnails(ActiveFirst[i], seen) # {}
  BY <1>2, <1>3
<1>5. ASSUME S # {} PROVE ActiveFirst[Min(S)] \in Connected(Displays)
  <2>1. 1 \in Int /\ Len(Displays) \in Int
    BY <1>3
  <2>2. Min(S) \in S
    BY <1>4, <1>5, <2>1, MinIsIn
  <2> QED
    BY <1>4, <2>2, ThumbnailsAreWindows
<1> QED
  BY <1>1, <1>2, <1>5 DEF JobDisplay

LEMMA WaitTypes ==
  ASSUME TypeOK, NEW slot \in Slots, highlights[slot] # Nothing,
         NEW d \in Connected(Displays) \cup {Nothing}, NEW frame \in Frames \cup {Nothing},
         Wait(slot, d, frame)
  PROVE  highlights' \in [Slots -> HighlightJobs \cup {Nothing}]
<1>1. PICK job \in HighlightJobs : job = highlights[slot]
  BY DEF TypeOK
<1>2. PICK next : next = IF job.left = 0 THEN Nothing
                         ELSE [display |-> d, last |-> frame, left |-> job.left - 1]
  OBVIOUS
<1>3. job.left \in 0 .. Polls /\ Polls \in Nat
  BY <1>1, OverlayAssumption DEF HighlightJobs
<1>4. job.left # 0 => job.left - 1 \in 0 .. Polls
  BY <1>3
<1>5. next \in HighlightJobs \cup {Nothing}
  BY <1>2, <1>4 DEF HighlightJobs
<1>6. highlights' = [highlights EXCEPT ![slot] = next]
  BY <1>1, <1>2 DEF Wait
<1> QED
  BY <1>5, <1>6 DEF TypeOK

LEMMA PollHighlightTypes ==
  ASSUME TypeOK, NEW slot \in Slots, PollHighlight(slot)
  PROVE  TypeOK'
<1>1. highlights[slot] # Nothing /\ UNCHANGED <<dock, dismissals>>
  BY DEF PollHighlight
<1>2. PICK job \in HighlightJobs : job = highlights[slot]
  BY <1>1 DEF TypeOK
<1>3. job.display \in Connected(Displays) \cup {Nothing} /\ job.last \in Frames \cup {Nothing}
  BY <1>2 DEF HighlightJobs
<1>4. ASSUME NEW d \in Connected(Displays) \cup {Nothing}, NEW frame \in Frames \cup {Nothing},
             Wait(slot, d, frame), UNCHANGED <<mouse, hovered, session, astray, promised>>
      PROVE  TypeOK'
  <2>1. highlights' \in [Slots -> HighlightJobs \cup {Nothing}]
    BY <1>1, <1>4, WaitTypes
  <2> QED
    BY <1>1, <1>4, <2>1 DEF TypeOK, dock, mouse
<1>5. CASE /\ Wait(slot, highlights[slot].display, highlights[slot].last)
           /\ UNCHANGED <<mouse, hovered, session, astray, promised>>
  <2>1. Wait(slot, job.display, job.last)
    BY <1>2, <1>5
  <2> QED
    BY <1>3, <1>4, <1>5, <2>1
<1>6. CASE \E seen \in DockStates :
             LET d == JobDisplay(highlights[slot], seen)
                 ws == Thumbnails(d, seen)
                 frame == FrameOf(FrontOf(ws))
             IN  IF d = Nothing \/ ws = {} \/ frame = Nothing \/ frame # highlights[slot].last
                 THEN /\ Wait(slot, d, IF d = Nothing \/ ws = {} THEN highlights[slot].last
                                       ELSE frame)
                      /\ UNCHANGED <<mouse, hovered, session, astray, promised>>
                 ELSE /\ highlights' = [highlights EXCEPT ![slot] = Nothing]
                      /\ Hover(d, FrontOf(ws), cursor)
  <2>1. PICK seen, d, ws, front, frame :
          /\ d = JobDisplay(highlights[slot], seen)
          /\ ws = Thumbnails(d, seen)
          /\ front = FrontOf(ws)
          /\ frame = FrameOf(front)
          /\ IF d = Nothing \/ ws = {} \/ frame = Nothing \/ frame # job.last
             THEN /\ Wait(slot, d, IF d = Nothing \/ ws = {} THEN job.last ELSE frame)
                  /\ UNCHANGED <<mouse, hovered, session, astray, promised>>
             ELSE /\ highlights' = [highlights EXCEPT ![slot] = Nothing]
                  /\ Hover(d, front, cursor)
    BY <1>2, <1>6
  <2>2. d \in Connected(Displays) \cup {Nothing}
    BY <1>1, <2>1, JobDisplayTypes
  <2>3. ws # {} => front \in Windows
    BY <2>1, FrontIsIn, ThumbnailsAreWindows DEF TypeOK
  <2>4. ws # {} => frame \in Frames \cup {Nothing}
    BY <2>1, <2>3 DEF FrameOf, Frames
  <2>5. CASE d = Nothing \/ ws = {} \/ frame = Nothing \/ frame # job.last
    <3>1. PICK f \in Frames \cup {Nothing} : f = IF d = Nothing \/ ws = {} THEN job.last ELSE frame
      BY <1>3, <2>4
    <3>2. Wait(slot, d, f) /\ UNCHANGED <<mouse, hovered, session, astray, promised>>
      BY <2>1, <2>5, <3>1
    <3> QED
      BY <1>4, <2>2, <3>2
  <2>6. CASE ~(d = Nothing \/ ws = {} \/ frame = Nothing \/ frame # job.last)
    <3>1. highlights' \in [Slots -> HighlightJobs \cup {Nothing}]
      BY <2>1, <2>6 DEF TypeOK
    <3>2. PICK at \in Points : at = cursor
      BY DEF TypeOK
    <3> QED
      BY <1>1, <2>1, <2>2, <2>3, <2>6, <3>1, <3>2, HoverStepTypes
  <2> QED
    BY <2>5, <2>6
<1> QED
  BY <1>5, <1>6 DEF PollHighlight

(* A window that was raised is in front on its display.                    *)
InFront(w) == FrontOf(Thumbnails(DisplayOf[w], "hidden")) = w

LEMMA RaisedIsInFront ==
  ASSUME TypeOK, NEW w \in Windows, stack' = Raised(w)
  PROVE  InFront(w)'
<1> DEFINE all == {v \in Windows : DisplayOf[v] = DisplayOf[w]}
<1>1. Thumbnails(DisplayOf[w], "hidden")' = all
  BY DEF Thumbnails
<1>2. w \in all /\ all \in SUBSET Windows
  OBVIOUS
<1> HIDE DEF all
<1>3. PICK st \in SetToSeqs(Windows) : st = stack' /\ st[1] = w
  BY RaisedTypes DEF TypeOK
<1>4. FrontOf(all)' = st[Min({i \in DOMAIN st : st[i] \in all})]
  BY <1>3 DEF FrontOf
<1>5. FrontOf(all)' = w
  BY <1>2, <1>3, <1>4, FirstIsFront
<1> QED
  BY <1>1, <1>5 DEF InFront, FrontOf

LEMMA FocusTypes ==
  ASSUME TypeOK, NEW w \in Windows, FocusHighlighted(w)
  PROVE  stack' \in SetToSeqs(Windows) /\ InFront(w)'
<1>1. CASE FrontOf(Thumbnails(DisplayOf[w], "hidden")) = w /\ UNCHANGED stack
  BY <1>1 DEF InFront, FrontOf, Thumbnails, TypeOK
<1>2. CASE stack' = Raised(w)
  BY <1>2, RaisedTypes, RaisedIsInFront DEF TypeOK
<1> QED
  BY <1>1, <1>2 DEF FocusHighlighted

(* A poll of a dismissal job waits, or ends the dismissal.                 *)

DismissalWaits(slot) ==
  /\ \E job \in DismissalJobs :
       /\ job.window = dismissals[slot].window
       /\ dismissals' = [dismissals EXCEPT ![slot] = job]
  /\ UNCHANGED <<stack, cursor, hides, unshown, home, promised, astray>>

DismissalDone(slot) ==
  /\ dismissals' = [dismissals EXCEPT ![slot] = Nothing]
  /\ cursor' \in {dismissals[slot].home, cursor}
  /\ UNCHANGED home
  /\ ShowCursor(hides)
  /\ astray' = (astray \/ OverlayIsShowing \/ Revives(cursor'))
  /\ stack' \in SetToSeqs(Windows)
  /\ promised' \in {Nothing, promised}
  /\ promised' # Nothing =>
       /\ phase = "up" => cursor' \notin Windows \ {dismissals[slot].window}
       /\ \A w \in Windows : w = dismissals[slot].window => InFront(w)'

LEMMA PollDismissalCases ==
  ASSUME TypeOK, NEW slot \in Slots, PollDismissal(slot)
  PROVE  /\ dismissals[slot] \in DismissalJobs
         /\ UNCHANGED <<view, phase, swipes, highlights, hovered, session>>
         /\ DismissalWaits(slot) \/ DismissalDone(slot)
<1>1. PICK job : job = dismissals[slot] /\ job # Nothing
  BY DEF PollDismissal
<1>2. job \in DismissalJobs
  BY <1>1 DEF TypeOK
<1>3. UNCHANGED <<view, phase, swipes, highlights, hovered, session>>
  BY DEF PollDismissal
<1>4. CASE StillDismissing(job)
  <2>1. dismissals' = [dismissals EXCEPT ![slot].left = Max({@ - 1, 0})]
        /\ UNCHANGED <<stack, mouse, promised, astray>>
    BY <1>1, <1>4 DEF PollDismissal
  <2>2. job.left \in Nat /\ job.left \in 0 .. Polls
    BY <1>2, OverlayAssumption DEF DismissalJobs
  <2>3. Max({job.left - 1, 0}) \in 0 .. Polls
    <3>1. Polls \in Nat
      BY OverlayAssumption
    <3>2. Max({job.left - 1, 0}) = IF job.left = 0 THEN 0 ELSE job.left - 1
      BY <2>2, AtLeastZero
    <3> QED
      BY <2>2, <3>1, <3>2
  <2>4. PICK next : next = [job EXCEPT !.left = Max({job.left - 1, 0})]
    OBVIOUS
  <2>5. next \in DismissalJobs /\ next.window = job.window
    BY <1>2, <2>3, <2>4 DEF DismissalJobs
  <2>6. dismissals' = [dismissals EXCEPT ![slot] = next]
    BY <1>1, <2>1, <2>4 DEF TypeOK
  <2>7. DismissalWaits(slot)
    BY <1>1, <2>1, <2>5, <2>6 DEF DismissalWaits, mouse
  <2> QED
    BY <1>1, <1>2, <1>3, <2>7
<1>5. CASE ~StillDismissing(job)
  <2>1. /\ dismissals' = [dismissals EXCEPT ![slot] = Nothing]
        /\ cursor' \in {job.home, cursor}
        /\ ShowCursor(hides)
        /\ \/ /\ FocusHighlighted(job.window)
              /\ promised' = IF phase = "up" /\ cursor' \in Windows \ {job.window}
                             THEN Nothing ELSE promised
           \/ /\ UNCHANGED stack
              /\ promised' = Nothing
        /\ astray' = (astray \/ OverlayIsShowing \/ Revives(cursor'))
        /\ UNCHANGED home
    BY <1>1, <1>5 DEF PollDismissal
  <2>2. PICK w \in Windows : w = job.window
    BY <1>2 DEF DismissalJobs
  <2>3. CASE /\ FocusHighlighted(w)
             /\ promised' = IF phase = "up" /\ cursor' \in Windows \ {w}
                            THEN Nothing ELSE promised
    <3>1. stack' \in SetToSeqs(Windows) /\ InFront(w)'
      BY <2>3, FocusTypes
    <3>2. /\ promised' \in {Nothing, promised}
          /\ promised' # Nothing => (phase = "up" => cursor' \notin Windows \ {w})
      BY <2>3
    <3>3. w = dismissals[slot].window
      BY <1>1, <2>2
    <3>4. DismissalDone(slot)
      BY <1>1, <2>1, <3>1, <3>2, <3>3 DEF DismissalDone
    <3> QED
      BY <1>1, <1>2, <1>3, <3>4
  <2>4. CASE UNCHANGED stack /\ promised' = Nothing
    <3>1. stack' \in SetToSeqs(Windows)
      BY <2>4 DEF TypeOK
    <3>2. DismissalDone(slot)
      BY <1>1, <2>1, <2>4, <3>1 DEF DismissalDone
    <3> QED
      BY <1>1, <1>2, <1>3, <3>2
  <2> QED
    BY <2>1, <2>2, <2>3, <2>4
<1> QED
  BY <1>4, <1>5

LEMMA PollDismissalTypes ==
  ASSUME TypeOK, NEW slot \in Slots, PollDismissal(slot)
  PROVE  TypeOK'
<1>1. /\ dismissals[slot] \in DismissalJobs
      /\ UNCHANGED <<view, phase, swipes, highlights, hovered, session>>
  BY PollDismissalCases
<1>2. CASE DismissalWaits(slot)
  BY <1>1, <1>2 DEF DismissalWaits, TypeOK
<1>3. CASE DismissalDone(slot)
  <2>1. cursor' \in Points /\ dismissals[slot].home \in Points
    BY <1>1, <1>3 DEF DismissalDone, DismissalJobs, TypeOK
  <2>2. hides' \in Nat /\ unshown' \in 0 .. MaxUnshown
    <3>1. ShowCursor(hides) /\ hides \in Nat
      BY <1>3 DEF DismissalDone, TypeOK
    <3> QED
      BY <3>1, ShowTypes
  <2>3. dismissals' \in [Slots -> DismissalJobs \cup {Nothing}]
    BY <1>3 DEF DismissalDone, TypeOK
  <2>4. promised' \in Windows \cup {Nothing} /\ stack' \in SetToSeqs(Windows) /\ home' \in Points
    BY <1>3 DEF DismissalDone, TypeOK
  <2>5. astray' \in BOOLEAN
    BY <1>3 DEF DismissalDone, TypeOK, OverlayIsShowing, Revives
  <2> QED
    BY <1>1, <2>1, <2>2, <2>3, <2>4, <2>5 DEF TypeOK
<1> QED
  BY <1>2, <1>3, PollDismissalCases

LEMMA TailTypes ==
  ASSUME TypeOK, swipes # <<>>
  PROVE  /\ Tail(swipes) \in Seq({"up", "down"})
         /\ Head(swipes) \in {"up", "down"}
         /\ Len(swipes) \in Nat
         /\ Len(swipes) = 1 => Tail(swipes) = <<>>
<1>1. swipes \in Seq({"up", "down"})
  BY DEF TypeOK
<1>2. PICK s \in Seq({"up", "down"}) : s = swipes
  BY <1>1
<1>3. s # <<>>
  BY <1>2
<1>4. Tail(s) \in Seq({"up", "down"}) /\ Head(s) \in {"up", "down"}
  BY <1>3
<1>5. Len(s) \in Nat
  OBVIOUS
<1>6. Len(s) = 1 => Tail(s) = <<>>
  <2>1. PICK t \in Seq({"up", "down"}) : t = Tail(s)
    BY <1>4
  <2>2. Len(t) = Len(s) - 1
    BY <1>3, <2>1, HeadTailProperties
  <2>3. t # <<>> => Len(t) \in Nat \ {0}
    BY EmptySeq
  <2> QED
    BY <1>5, <2>1, <2>2, <2>3
<1> QED
  BY <1>2, <1>4, <1>5, <1>6

LEMMA ClosesTypes ==
  ASSUME TypeOK, NEW w \in Windows \cup {Nothing}, Closes(w), phase \in {"appearing", "up"}
  PROVE  /\ view' \in Elements /\ phase' = "vanishing"
         /\ stack' \in SetToSeqs(Windows) /\ hovered' = Nothing /\ astray' = TRUE
BY RaisedTypes DEF Closes, TypeOK

LEMMA OpensTypes ==
  ASSUME TypeOK, NEW v \in Elements, Opens(v)
  PROVE  /\ view' \in Elements /\ phase' = "appearing"
         /\ stack' \in SetToSeqs(Windows) /\ hovered' = Nothing /\ astray' = TRUE
         /\ promised' = Nothing
BY DEF Opens, TypeOK

LEMMA HandleSwipeTypes ==
  ASSUME TypeOK, HandleSwipe
  PROVE  TypeOK'
<1>1. /\ swipes' \in Seq({"up", "down"})
      /\ UNCHANGED <<mouse, jobs, session>>
  BY TailTypes DEF HandleSwipe
<1>2. PICK dir : dir = Head(swipes)
  OBVIOUS
<1>3. CASE phase \in {"hidden", "vanishing"}
           /\ Opens(IF dir = "up" THEN "mission_control" ELSE "expose")
  <2>1. PICK v \in Elements : Opens(v)
    BY <1>3 DEF Elements
  <2>2. view' # "hidden" /\ phase' # "hidden"
    BY <2>1, OpensTypes DEF Elements
  <2> QED
    BY <1>1, <2>1, <2>2, OpensTypes DEF TypeOK, mouse, jobs
<1>4. CASE /\ phase \in {"appearing", "up"}
           /\ \E w \in Under(cursor) : Closes(w)
           /\ UNCHANGED promised
  <2>1. PICK w \in Windows \cup {Nothing} : Closes(w)
    BY <1>4, UnderTypes
  <2>2. view' # "hidden" /\ phase' # "hidden"
    BY <1>4, <2>1, ClosesTypes DEF Elements
  <2> QED
    BY <1>1, <1>4, <2>1, <2>2, ClosesTypes DEF TypeOK, mouse, jobs
<1>5. CASE promised' = Nothing /\ UNCHANGED <<view, phase, stack, hovered, astray>>
  BY <1>1, <1>5 DEF TypeOK, mouse, jobs
<1> QED
  BY <1>2, <1>3, <1>4, <1>5 DEF HandleSwipe

LEMMA NativeTypes ==
  ASSUME TypeOK,
         \/ \E v \in Elements : NativeOpen(v)
         \/ \E w \in Windows \cup {Nothing} : NativeClose(w)
  PROVE  TypeOK'
<1>1. CASE \E v \in Elements : NativeOpen(v)
  <2>1. PICK v \in Elements : Opens(v) /\ UNCHANGED <<swipes, mouse, jobs, session>>
    BY <1>1 DEF NativeOpen
  <2>2. view' # "hidden" /\ phase' # "hidden"
    BY <2>1, OpensTypes DEF Elements
  <2> QED
    BY <2>1, <2>2, OpensTypes DEF TypeOK, mouse, jobs
<1>2. CASE \E w \in Windows \cup {Nothing} : NativeClose(w)
  <2>1. PICK w \in Windows \cup {Nothing} :
          /\ Closes(w) /\ phase \in {"appearing", "up"} /\ promised' = Nothing
          /\ UNCHANGED <<swipes, mouse, jobs, session>>
    BY <1>2 DEF NativeClose
  <2>2. view' # "hidden" /\ phase' # "hidden"
    BY <2>1, ClosesTypes DEF Elements
  <2> QED
    BY <2>1, <2>2, ClosesTypes DEF TypeOK, mouse, jobs
<1> QED
  BY <1>1, <1>2

LEMMA MoveMouseTypes ==
  ASSUME TypeOK, NEW p \in MousePoints, MoveMouse(p)
  PROVE  TypeOK'
<1>1. p \in Points
  BY OverlayAssumption
<1>2. cursor' \in Points /\ home' \in Points /\ promised' \in Windows \cup {Nothing}
  BY <1>1 DEF MoveMouse, TypeOK
<1>3. hovered' \in Windows \cup {Nothing}
  BY UnderTypes DEF MoveMouse
<1>4. astray' \in BOOLEAN /\ UNCHANGED <<dock, jobs, session, hides, unshown>>
  BY DEF MoveMouse, Revives
<1> QED
  BY <1>2, <1>3, <1>4 DEF TypeOK, dock, jobs

LEMMA TypesStep ==
  ASSUME TypeOK, [Next]_vars
  PROVE  TypeOK'
<1>1. CASE \E dir \in {"next", "previous"} : PressCycle(dir)
  BY <1>1, PressCycleTypes
<1>2. CASE \E req \in Requests : PressDisplay(req)
  BY <1>2, PressDisplayTypes
<1>3. CASE \E element \in Elements : PressToggle(element)
  BY <1>3, PressToggleTypes
<1>4. CASE \E dir \in {"up", "down"} : FastSwipe(dir)
  BY <1>4, FastSwipeTypes
<1>5. CASE \E slot \in Slots : PollHighlight(slot) \/ PollDismissal(slot)
  BY <1>5, PollHighlightTypes, PollDismissalTypes
<1>6. CASE HandleSwipe
  BY <1>6, HandleSwipeTypes
<1>7. CASE LoseSwipe
  BY <1>7, TailTypes DEF LoseSwipe, TypeOK, mouse, jobs
<1>8. CASE Appeared \/ Vanished
  BY <1>8 DEF Appeared, Vanished, TypeOK, mouse, jobs
<1>9. CASE \/ \E v \in Elements : NativeOpen(v)
           \/ \E w \in Windows \cup {Nothing} : NativeClose(w)
  BY <1>9, NativeTypes
<1>10. CASE \E w \in Windows : ClickWindow(w)
  BY <1>10, RaisedTypes DEF ClickWindow, TypeOK, mouse, jobs
<1>11. CASE \E p \in MousePoints : MoveMouse(p)
  BY <1>11, MoveMouseTypes
<1>12. CASE SessionExpires
  BY <1>12 DEF SessionExpires, SessionIsCurrent, TypeOK, dock, mouse, jobs
<1>13. CASE UNCHANGED vars
  BY <1>13 DEF vars, TypeOK, dock, mouse, jobs
<1> QED
  BY <1>1, <1>2, <1>3, <1>4, <1>5, <1>6, <1>7, <1>8, <1>9, <1>10, <1>11, <1>12, <1>13 DEF Next

LEMMA TypesInit ==
  ASSUME Init
  PROVE  TypeOK
<1>1. highlights \in [Slots -> HighlightJobs \cup {Nothing}]
  BY DEF Init
<1>2. dismissals \in [Slots -> DismissalJobs \cup {Nothing}]
  BY DEF Init
<1>3. cursor \in Points /\ home \in Points
  BY OverlayAssumption DEF Init
<1>4. view \in Elements \cup {"hidden"} /\ swipes \in Seq({"up", "down"})
  BY DEF Init
<1>5. /\ hovered \in Windows \cup {Nothing} /\ promised \in Windows \cup {Nothing}
      /\ session \in Sessions \cup {Nothing}
      /\ hides \in Nat /\ astray \in BOOLEAN
      /\ stack \in SetToSeqs(Windows)
  BY DEF Init
<1>6. /\ phase \in {"hidden", "appearing", "up", "vanishing"}
      /\ phase = "hidden" <=> view = "hidden"
  BY DEF Init
<1>7. unshown \in 0 .. MaxUnshown
  BY OverlayAssumption DEF Init
<1> QED
  BY <1>1, <1>2, <1>3, <1>4, <1>5, <1>6, <1>7 DEF TypeOK

(***************************************************************************)
(* The Dock, the sessions and the jobs are always what the code takes them *)
(* for: a session stands on a display that is connected, a job on a        *)
(* window, a deadline is met (mission_control.cpp).                        *)
(***************************************************************************)
THEOREM TypeCorrect == Spec => []TypeOK
<1>1. Init => TypeOK
  BY TypesInit
<1>2. TypeOK /\ [Next]_vars => TypeOK'
  BY TypesStep
<1> QED
  BY <1>1, <1>2, PTL DEF Spec

-----------------------------------------------------------------------------
(***************************************************************************)
(* The highlight.  Wherever the runtime is sure of it, it is on the window *)
(* of the session or, without one, under the cursor; and a session is on   *)
(* the display of its window or, without one, of the cursor if it follows. *)
(***************************************************************************)
SessionOnItsDisplay ==
  session # Nothing =>
    /\ session.window # Nothing => session.display = DisplayOf[session.window]
    /\ MoveCursor /\ session.window = Nothing
         => session.display = DisplayOf[session.cursor]

HighlightKnown ==
  phase = "up" /\ ~astray =>
    \/ /\ SessionIsCurrent
       /\ session.window # Nothing
       /\ hovered = session.window
    \/ /\ SessionIsCurrent
       /\ session.window = Nothing
       /\ Thumbnails(session.display, view) = {}
    \/ /\ ~SessionIsCurrent
       /\ hovered \in Under(cursor)

HighlightInv == SessionOnItsDisplay /\ HighlightKnown

(* Where nothing but the front of the stack could have changed.            *)
LEMMA SameHighlight ==
  ASSUME HighlightInv, UNCHANGED <<view, phase, stack, cursor, hovered, session, astray>>
  PROVE  HighlightInv'
<1>1. UNCHANGED SessionIsCurrent
  BY DEF SessionIsCurrent
<1>2. Under(cursor)' = Under(cursor)
  BY DEF Under, Thumbnails
<1>3. session # Nothing => Thumbnails(session.display, view)' = Thumbnails(session.display, view)
  BY DEF Thumbnails
<1> QED
  BY <1>1, <1>2, <1>3 DEF HighlightInv, SessionOnItsDisplay, HighlightKnown, SessionIsCurrent

(* Where the runtime is not sure of the highlight, or there is none.       *)
LEMMA NoHighlight ==
  ASSUME HighlightInv, session' \in {session, Nothing}, astray' = TRUE \/ phase' # "up"
  PROVE  HighlightInv'
<1>1. SessionOnItsDisplay'
  BY DEF HighlightInv, SessionOnItsDisplay
<1>2. HighlightKnown'
  BY DEF HighlightKnown
<1> QED
  BY <1>1, <1>2 DEF HighlightInv

LEMMA HoverHighlight ==
  ASSUME TypeOK, HighlightInv, UNCHANGED dock,
         NEW d \in Connected(Displays), NEW w \in Windows, NEW at \in Points,
         DisplayOf[w] = d, Hover(d, w, at)
  PROVE  HighlightInv'
<1>1. w # Nothing
  BY NothingAssumption DEF Points
<1>2. CASE HoverHops(d, w, at) \/ HoverIsLate(d, w, at)
  <2>1. PICK target \in Points : RememberSession(d, w, at, target)
    BY <1>2, TargetTypes DEF HoverHops, HoverIsLate
  <2>2. session' # Nothing /\ session'.window = w /\ session'.display = d
        /\ session'.cursor = at
    BY <2>1, RememberTypes
  <2>3. SessionIsCurrent'
    BY <1>2, <2>2 DEF HoverHops, HoverIsLate, SessionIsCurrent
  <2>4. SessionOnItsDisplay'
    BY <1>1, <2>2 DEF SessionOnItsDisplay
  <2>5. HighlightKnown'
    <3>1. CASE phase = "up" /\ HoverHops(d, w, at)
      <4>1. hovered' = w
        BY <3>1 DEF HoverHops, HighlightsAt
      <4> QED
        BY <1>1, <2>2, <2>3, <4>1 DEF HighlightKnown
    <3>2. CASE phase # "up" \/ HoverIsLate(d, w, at)
      BY <3>2 DEF HighlightKnown, HoverIsLate, dock
    <3> QED
      BY <1>2, <3>1, <3>2
  <2> QED
    BY <2>4, <2>5 DEF HighlightInv
<1>3. CASE HoverFails(w, at)
  <2>1. \/ UNCHANGED <<cursor, hovered, session, astray>>
        \/ session' = session /\ astray' = TRUE
    BY <1>3 DEF HoverFails, TypeOK
  <2> QED
    BY <2>1, SameHighlight, NoHighlight DEF dock
<1> QED
  BY <1>2, <1>3 DEF Hover

LEMMA PressCycleHighlight ==
  ASSUME TypeOK, HighlightInv, NEW dir, PressCycle(dir)
  PROVE  HighlightInv'
<1>1. PICK seen : /\ Thumbnails(OverlayDisplay, seen) # {}
                  /\ \E w \in {PlanThumbnailCycle(Thumbnails(OverlayDisplay, seen), dir, under)
                                 : under \in Under(cursor)} :
                       Hover(OverlayDisplay, w, cursor)
  BY DEF PressCycle
<1>2. PICK d, at, ws : /\ d = OverlayDisplay /\ at = cursor
                       /\ ws = Thumbnails(OverlayDisplay, seen)
  OBVIOUS
<1>3. d \in Connected(Displays) /\ at \in Points /\ ws \in SUBSET Windows /\ ws # {}
  BY <1>1, <1>2, OverlayDisplayTypes, ThumbnailsAreWindows DEF TypeOK
<1>4. \A w \in ws : DisplayOf[w] = d
  BY <1>2, ThumbnailsAreWindows
<1>5. PICK w \in ws : Hover(d, w, at)
  BY <1>1, <1>2, <1>3, PlanIsIn DEF TypeOK
<1>6. UNCHANGED dock
  BY DEF PressCycle
<1> QED
  BY <1>3, <1>4, <1>5, <1>6, HoverHighlight

LEMMA PressDisplayHighlight ==
  ASSUME TypeOK, HighlightInv, NEW req \in Requests, PressDisplay(req)
  PROVE  HighlightInv'
<1>1. PICK seen, d, ws, at :
        /\ seen \in DockStates
        /\ d \in Connected(Displays)
        /\ ws = Thumbnails(d, seen)
        /\ at = IF MoveCursor /\ DisplayOf[cursor] # d THEN Anchor[d] ELSE cursor
        /\ \/ /\ ws = {}
              /\ ComesToEmpty(d, at)
           \/ /\ ws # {}
              /\ Hover(d, FrontOf(ws), at)
  BY OverlayTargetTypes, NothingAssumption DEF PressDisplay
<1>2. UNCHANGED dock
  BY DEF PressDisplay
<1>3. at \in Points
  BY <1>1, OverlayAssumption DEF TypeOK, Points, Range
<1>4. CASE ws = {} /\ cursor' = at /\ RememberSession(d, Nothing, at, at)
  <2>0. MoveCursor => d = DisplayOf[at]
    BY <1>1, OverlayAssumption
  <2>1. session' # Nothing /\ session'.window = Nothing /\ session'.display = d
        /\ session'.cursor = at
    BY <1>1, <1>3, <1>4, RememberTypes
  <2>2. SessionIsCurrent'
    BY <1>4, <2>1 DEF SessionIsCurrent
  <2>3. SessionOnItsDisplay'
    BY <2>0, <2>1 DEF SessionOnItsDisplay
  <2>4. phase = "up" => Thumbnails(session.display, view)' = {}
    <3>1. phase = "up" => seen = view
      BY <1>1 DEF DockStates
    <3>2. phase = "up" => Thumbnails(session.display, view)' = Thumbnails(d, seen)
      BY <1>2, <2>1, <3>1 DEF Thumbnails, dock
    <3> QED
      BY <1>1, <1>4, <3>2
  <2>5. HighlightKnown'
    BY <1>2, <2>1, <2>2, <2>4 DEF HighlightKnown, dock
  <2> QED
    BY <2>3, <2>5 DEF HighlightInv
<1>5. CASE ws # {} /\ Hover(d, FrontOf(ws), at)
  <2>1. PICK w \in ws : w = FrontOf(ws)
    BY <1>1, <1>5, FrontIsIn, ThumbnailsAreWindows DEF TypeOK
  <2>2. w \in Windows /\ DisplayOf[w] = d
    BY <1>1, <2>1, ThumbnailsAreWindows
  <2> QED
    BY <1>1, <1>2, <1>3, <1>5, <2>1, <2>2, HoverHighlight
<1>6. CASE /\ cursor' = at /\ astray' = (astray \/ at # cursor)
           /\ UNCHANGED <<session, hovered>>
  BY <1>2, <1>6, SameHighlight, NoHighlight DEF dock, TypeOK
<1> QED
  BY <1>1, <1>4, <1>5, <1>6 DEF ComesToEmpty

LEMMA PollHighlightHighlight ==
  ASSUME TypeOK, HighlightInv, NEW slot \in Slots, PollHighlight(slot)
  PROVE  HighlightInv'
<1>1. PICK job, d, ws, front, at :
        /\ job = highlights[slot] /\ job # Nothing
        /\ \E seen : d = JobDisplay(job, seen) /\ ws = Thumbnails(d, seen)
        /\ front = FrontOf(ws)
        /\ at = cursor
        /\ \/ UNCHANGED <<mouse, hovered, session, astray, promised>>
           \/ d # Nothing /\ ws # {} /\ Hover(d, front, at)
        /\ UNCHANGED dock
  BY DEF PollHighlight
<1>2. d \in Connected(Displays) \cup {Nothing}
  BY <1>1, JobDisplayTypes
<1>3. CASE UNCHANGED <<mouse, hovered, session, astray, promised>>
  BY <1>1, <1>3, SameHighlight DEF mouse, dock
<1>4. CASE d # Nothing /\ ws # {} /\ Hover(d, front, at)
  <2>1. front \in ws /\ ws \in SUBSET Windows /\ \A w \in ws : DisplayOf[w] = d
    BY <1>1, <1>4, FrontIsIn, ThumbnailsAreWindows DEF TypeOK
  <2>2. at \in Points
    BY <1>1 DEF TypeOK
  <2> QED
    BY <1>1, <1>2, <1>4, <2>1, <2>2, HoverHighlight
<1> QED
  BY <1>1, <1>3, <1>4

(* A session ends that is current, or that nothing depends on.             *)
LEMMA SessionEndsHighlight ==
  ASSUME TypeOK, HighlightInv, UNCHANGED <<view, phase, stack, hovered>>,
         session' = Nothing, astray' = (astray \/ SessionIsCurrent),
         ~SessionIsCurrent => UNCHANGED cursor
  PROVE  HighlightInv'
<1>1. SessionOnItsDisplay'
  BY DEF SessionOnItsDisplay
<1>2. CASE astray \/ SessionIsCurrent
  BY <1>2, NoHighlight
<1>3. CASE ~astray /\ ~SessionIsCurrent
  <2>1. ~SessionIsCurrent'
    BY DEF SessionIsCurrent
  <2>2. Under(cursor)' = Under(cursor)
    BY <1>3 DEF Under, Thumbnails
  <2>3. phase = "up" => hovered \in Under(cursor)
    BY <1>3 DEF HighlightInv, HighlightKnown
  <2>4. HighlightKnown'
    BY <2>1, <2>2, <2>3 DEF HighlightKnown
  <2> QED
    BY <1>1, <2>4 DEF HighlightInv
<1> QED
  BY <1>2, <1>3

LEMMA PrepareHighlight ==
  ASSUME TypeOK, HighlightInv, PrepareOverlayDismissal,
         UNCHANGED <<view, phase, stack, hovered>>
  PROVE  HighlightInv'
<1>1. session' = Nothing /\ astray' = (astray \/ SessionIsCurrent)
  BY DEF PrepareOverlayDismissal
<1>2. ~SessionIsCurrent => UNCHANGED cursor
  BY DEF PrepareOverlayDismissal, Parks, SessionWindow, NoDismissal
<1> QED
  BY <1>1, <1>2, SessionEndsHighlight

LEMMA UnpreparedHighlight ==
  ASSUME HighlightInv, Unprepared, UNCHANGED <<view, phase, stack, hovered>>
  PROVE  HighlightInv'
BY SameHighlight DEF Unprepared, mouse

LEMMA PressToggleHighlight ==
  ASSUME TypeOK, HighlightInv, NEW element, PressToggle(element)
  PROVE  HighlightInv'
<1>1. UNCHANGED <<view, phase, stack, hovered>>
  BY DEF PressToggle, PostSwipe
<1>2. PrepareOverlayDismissal \/ Unprepared
  BY DEF PressToggle
<1> QED
  BY <1>1, <1>2, PrepareHighlight, UnpreparedHighlight

LEMMA FastSwipeHighlight ==
  ASSUME TypeOK, HighlightInv, NEW dir, FastSwipe(dir)
  PROVE  HighlightInv'
<1>1. UNCHANGED <<view, phase, stack, hovered>>
  BY DEF FastSwipe, PostSwipe
<1>2. PrepareOverlayDismissal \/ Unprepared
  BY DEF FastSwipe
<1> QED
  BY <1>1, <1>2, PrepareHighlight, UnpreparedHighlight

LEMMA PollDismissalHighlight ==
  ASSUME TypeOK, HighlightInv, NEW slot \in Slots, PollDismissal(slot)
  PROVE  HighlightInv'
<1>1. UNCHANGED <<view, phase, swipes, highlights, hovered, session>>
  BY PollDismissalCases
<1>2. CASE DismissalWaits(slot)
  BY <1>1, <1>2, SameHighlight DEF DismissalWaits
<1>3. CASE DismissalDone(slot)
  <2>1. astray' = (astray \/ OverlayIsShowing \/ Revives(cursor'))
    BY <1>3 DEF DismissalDone
  <2>2. astray' = TRUE \/ phase' # "up"
    BY <1>1, <2>1 DEF OverlayIsShowing, TypeOK
  <2> QED
    BY <1>1, <2>2, NoHighlight
<1> QED
  BY <1>2, <1>3, PollDismissalCases

LEMMA MoveMouseHighlight ==
  ASSUME TypeOK, HighlightInv, NEW p \in MousePoints, MoveMouse(p)
  PROVE  HighlightInv'
<1>1. /\ cursor' = p /\ p # cursor
      /\ hovered' \in IF phase = "up" THEN Under(p) ELSE {Nothing}
      /\ astray' = Revives(p)
      /\ UNCHANGED <<view, phase, stack, session>>
  BY DEF MoveMouse, dock
<1>2. SessionOnItsDisplay'
  BY <1>1 DEF HighlightInv, SessionOnItsDisplay
<1>3. CASE phase # "up" \/ Revives(p)
  BY <1>1, <1>3, NoHighlight
<1>4. CASE phase = "up" /\ ~Revives(p)
  <2>1. ~SessionIsCurrent'
    BY <1>1, <1>4 DEF SessionIsCurrent, Revives
  <2>2. Under(cursor)' = Under(p)
    BY <1>1 DEF Under, Thumbnails
  <2>3. hovered' \in Under(cursor)'
    BY <1>1, <1>4, <2>2
  <2>4. HighlightKnown'
    BY <2>1, <2>3 DEF HighlightKnown
  <2> QED
    BY <1>2, <2>4 DEF HighlightInv
<1> QED
  BY <1>3, <1>4

LEMMA HandleSwipeHighlight ==
  ASSUME HighlightInv, HandleSwipe
  PROVE  HighlightInv'
<1>1. UNCHANGED <<mouse, jobs, session>>
  BY DEF HandleSwipe
<1>2. \/ astray' = TRUE
      \/ UNCHANGED <<view, phase, stack, hovered, astray>>
  BY DEF HandleSwipe, Opens, Closes
<1> QED
  BY <1>1, <1>2, NoHighlight, SameHighlight DEF mouse

LEMMA HighlightStep ==
  ASSUME TypeOK, HighlightInv, [Next]_vars
  PROVE  HighlightInv'
<1>1. CASE \E dir \in {"next", "previous"} : PressCycle(dir)
  BY <1>1, PressCycleHighlight
<1>2. CASE \E req \in Requests : PressDisplay(req)
  BY <1>2, PressDisplayHighlight
<1>3. CASE \E element \in Elements : PressToggle(element)
  BY <1>3, PressToggleHighlight
<1>4. CASE \E dir \in {"up", "down"} : FastSwipe(dir)
  BY <1>4, FastSwipeHighlight
<1>5. CASE \E slot \in Slots : PollHighlight(slot) \/ PollDismissal(slot)
  BY <1>5, PollHighlightHighlight, PollDismissalHighlight
<1>6. CASE HandleSwipe
  BY <1>6, HandleSwipeHighlight
<1>7. CASE LoseSwipe
  BY <1>7, SameHighlight DEF LoseSwipe, mouse
<1>8. CASE Appeared \/ Vanished
  BY <1>8, NoHighlight DEF Appeared, Vanished
<1>9. CASE \/ \E v \in Elements : NativeOpen(v)
           \/ \E w \in Windows \cup {Nothing} : NativeClose(w)
  BY <1>9, NoHighlight DEF NativeOpen, NativeClose, Opens, Closes
<1>10. CASE \E w \in Windows : ClickWindow(w)
  BY <1>10, NoHighlight DEF ClickWindow
<1>11. CASE \E p \in MousePoints : MoveMouse(p)
  BY <1>11, MoveMouseHighlight
<1>12. CASE SessionExpires
  BY <1>12, SessionEndsHighlight DEF SessionExpires, dock, mouse
<1>13. CASE UNCHANGED vars
  BY <1>13, SameHighlight DEF vars, dock, mouse
<1> QED
  BY <1>1, <1>2, <1>3, <1>4, <1>5, <1>6, <1>7, <1>8, <1>9, <1>10, <1>11, <1>12, <1>13 DEF Next

-----------------------------------------------------------------------------
(***************************************************************************)
(* The hidden cursor.  It is hidden at most once for each dismissal under  *)
(* way, however many overlap, and once for each show that failed.          *)
(***************************************************************************)
UnderWay == {s \in Slots : dismissals[s] # Nothing}

HidesCounted == hides <= Cardinality(UnderWay) + unshown

LEMMA FiniteSlots ==
  ASSUME NEW S \in SUBSET Slots
  PROVE  IsFiniteSet(S) /\ Cardinality(S) \in Nat
<1>1. 1 \in Int /\ MaxJobs \in Int
  BY OverlayAssumption
<1>2. IsFiniteSet(Slots)
  BY <1>1, FS_Interval DEF Slots
<1>3. IsFiniteSet(S)
  BY <1>2, FS_Subset
<1> QED
  BY <1>3, FS_CardinalityType

LEMMA SameHides ==
  ASSUME HidesCounted, UNCHANGED <<hides, unshown, dismissals>>
  PROVE  HidesCounted'
BY DEF HidesCounted, UnderWay

(* The cursor is hidden, if it can be, and shown again, if it can be.      *)
LEMMA HopHides ==
  ASSUME TypeOK, HidesCounted, ShowCursor(hides + 1), UNCHANGED dismissals
  PROVE  HidesCounted'
<1>1. PICK h \in Nat, u \in Nat, c \in Nat :
        h = hides /\ u = unshown /\ c = Cardinality(UnderWay)
  <2>1. hides \in Nat /\ unshown \in Nat
    BY OverlayAssumption DEF TypeOK
  <2>2. Cardinality(UnderWay) \in Nat
    BY FiniteSlots DEF UnderWay
  <2> QED
    BY <2>1, <2>2
<1>2. h <= c + u
  BY <1>1 DEF HidesCounted
<1>3. ShowCursor(h + 1) /\ h + 1 \in Nat
  BY <1>1
<1>4. \/ hides' = (IF h + 1 = 0 THEN 0 ELSE h + 1 - 1) /\ unshown' = u
      \/ hides' = h + 1 /\ unshown' = u + 1
  BY <1>1, <1>3, ShowTypes
<1>5. hides' <= c + unshown'
  BY <1>2, <1>4
<1>6. UnderWay' = UnderWay
  BY DEF UnderWay
<1> QED
  BY <1>1, <1>5, <1>6 DEF HidesCounted

LEMMA PrepareHides ==
  ASSUME TypeOK, HidesCounted, PrepareOverlayDismissal
  PROVE  HidesCounted'
<1>1. CASE NoDismissal
  BY <1>1, SameHides DEF NoDismissal
<1>2. CASE ParkFails
  BY <1>2, HopHides DEF ParkFails
<1>3. CASE Parks /\ ParkCursor
  <2>1. PICK js, s, job : /\ js = dismissals /\ s = Min(Free(js))
                          /\ job = [home |-> cursor, window |-> SessionWindow, left |-> Polls]
    OBVIOUS
  <2>2. s \in Slots /\ js[s] = Nothing
    BY <1>3, <2>1, FreeSlot DEF ParkCursor
  <2>3. dismissals' = [js EXCEPT ![s] = job] /\ hides' \in {hides, hides + 1}
    BY <1>3, <2>1 DEF ParkCursor
  <2>4. dismissals' \in [Slots -> DismissalJobs \cup {Nothing}] /\ js \in [Slots -> DismissalJobs \cup {Nothing}]
    BY <2>1, PrepareTypes DEF TypeOK
  <2>5. SessionWindow \in Windows /\ cursor \in Points
    BY <1>3, SessionWindowTypes DEF TypeOK, Parks
  <2>6. job \in DismissalJobs
    <3>1. Polls \in 0 .. Polls
      BY OverlayAssumption
    <3> QED
      BY <2>1, <2>5, <3>1 DEF DismissalJobs
  <2>7. job # Nothing
    BY <2>6, NothingAssumption
  <2>8. PICK U \in SUBSET Slots : U = UnderWay
    BY DEF UnderWay
  <2>9. s \notin U /\ UnderWay' = U \cup {s}
    BY <2>1, <2>2, <2>3, <2>4, <2>7, <2>8 DEF UnderWay
  <2>10. Cardinality(U \cup {s}) = Cardinality(U) + 1 /\ Cardinality(U) \in Nat
    BY <2>9, FiniteSlots, FS_AddElement
  <2>11. PICK n \in Nat, u \in Nat : n = hides /\ u = unshown
    BY OverlayAssumption DEF TypeOK
  <2>12. n <= Cardinality(U) + u
    BY <2>8, <2>11 DEF HidesCounted
  <2>13. hides' \in {n, n + 1} /\ unshown' = u
    BY <1>3, <2>3, <2>11 DEF ParkCursor
  <2>14. hides' <= Cardinality(U) + 1 + unshown'
    BY <2>10, <2>12, <2>13
  <2> QED
    BY <2>9, <2>10, <2>14 DEF HidesCounted
<1> QED
  BY <1>1, <1>2, <1>3 DEF PrepareOverlayDismissal

LEMMA PollDismissalHides ==
  ASSUME TypeOK, HidesCounted, NEW slot \in Slots, PollDismissal(slot)
  PROVE  HidesCounted'
<1>1. dismissals[slot] \in DismissalJobs /\ dismissals[slot] # Nothing
  BY PollDismissalCases, NothingAssumption
<1>2. dismissals \in [Slots -> DismissalJobs \cup {Nothing}]
  BY DEF TypeOK
<1>3. PICK U \in SUBSET Slots : U = UnderWay
  BY DEF UnderWay
<1>4. slot \in U
  BY <1>1, <1>3 DEF UnderWay
<1>5. CASE DismissalWaits(slot)
  <2>1. PICK job \in DismissalJobs : dismissals' = [dismissals EXCEPT ![slot] = job]
    BY <1>5 DEF DismissalWaits
  <2>2. job # Nothing
    BY NothingAssumption
  <2>3. UnderWay' = U
    BY <1>2, <1>3, <1>4, <2>1, <2>2 DEF UnderWay
  <2> QED
    BY <1>3, <1>5, <2>3 DEF HidesCounted, DismissalWaits
<1>6. CASE DismissalDone(slot)
  <2>1. UnderWay' = U \ {slot}
    BY <1>2, <1>3, <1>6 DEF UnderWay, DismissalDone
  <2>2. Cardinality(U \ {slot}) = Cardinality(U) - 1 /\ Cardinality(U) \in Nat
    BY <1>4, FiniteSlots, FS_RemoveElement
  <2>3. Cardinality(U \ {slot}) \in Nat
    BY FiniteSlots
  <2>4. PICK n \in Nat, u \in Nat : n = hides /\ u = unshown
    BY OverlayAssumption DEF TypeOK
  <2>5. n <= Cardinality(U) + u
    BY <1>3, <2>4 DEF HidesCounted
  <2>a. ShowCursor(n)
    BY <1>6, <2>4 DEF DismissalDone
  <2>6. \/ hides' = (IF n = 0 THEN 0 ELSE n - 1) /\ unshown' = u
        \/ hides' = n /\ unshown' = u + 1
    BY <2>4, <2>a, ShowTypes
  <2>7. hides' <= Cardinality(U \ {slot}) + unshown'
    BY <2>2, <2>3, <2>5, <2>6
  <2> QED
    BY <2>1, <2>7 DEF HidesCounted
<1> QED
  BY <1>5, <1>6, PollDismissalCases

LEMMA HidesStep ==
  ASSUME TypeOK, HidesCounted, [Next]_vars
  PROVE  HidesCounted'
<1>1. CASE \E dir \in {"next", "previous"} : PressCycle(dir)
  <2>1. ShowCursor(hides + 1) /\ UNCHANGED dismissals
    BY <1>1 DEF PressCycle, Hover, jobs
  <2> QED
    BY <2>1, HopHides
<1>2. CASE \E req \in Requests : PressDisplay(req)
  <2>1. /\ ShowCursor(hides + 1) \/ UNCHANGED <<hides, unshown>>
        /\ UNCHANGED dismissals
    BY <1>2 DEF PressDisplay, ComesToEmpty, Hover, jobs
  <2> QED
    BY <2>1, HopHides, SameHides
<1>3. CASE \E element \in Elements : PressToggle(element)
  <2>1. PrepareOverlayDismissal \/ Unprepared
    BY <1>3 DEF PressToggle
  <2> QED
    BY <2>1, PrepareHides, SameHides DEF Unprepared, mouse
<1>4. CASE \E dir \in {"up", "down"} : FastSwipe(dir)
  <2>1. PrepareOverlayDismissal \/ Unprepared
    BY <1>4 DEF FastSwipe
  <2> QED
    BY <2>1, PrepareHides, SameHides DEF Unprepared, mouse
<1>5. CASE \E slot \in Slots : PollHighlight(slot)
  <2>1. /\ ShowCursor(hides + 1) \/ UNCHANGED <<hides, unshown>>
        /\ UNCHANGED dismissals
    BY <1>5 DEF PollHighlight, Hover, mouse
  <2> QED
    BY <2>1, HopHides, SameHides
<1>6. CASE \E slot \in Slots : PollDismissal(slot)
  BY <1>6, PollDismissalHides
<1>7. CASE \/ HandleSwipe \/ LoseSwipe \/ Appeared \/ Vanished
           \/ \E v \in Elements : NativeOpen(v)
           \/ \E w \in Windows \cup {Nothing} : NativeClose(w)
           \/ \E w \in Windows : ClickWindow(w)
  BY <1>7, SameHides
     DEF HandleSwipe, LoseSwipe, Appeared, Vanished, NativeOpen, NativeClose, ClickWindow,
         mouse, jobs
<1>8. CASE (\E p \in MousePoints : MoveMouse(p)) \/ SessionExpires \/ UNCHANGED vars
  BY <1>8, SameHides DEF MoveMouse, SessionExpires, vars, mouse, jobs
<1> QED
  BY <1>1, <1>2, <1>3, <1>4, <1>5, <1>6, <1>7, <1>8 DEF Next

-----------------------------------------------------------------------------
(***************************************************************************)
(* The promise.  A dismissal that owes a window the front has either not   *)
(* begun to close the overlay, with that window under the cursor, or with  *)
(* a job that will focus it, or with a job that did so and left the cursor *)
(* on no other window; or the overlay is closing and there is the job, or  *)
(* the window is in front.                                                 *)
(***************************************************************************)
Owing == phase = "up" /\ Len(swipes) <= 1

Closing == phase \in {"vanishing", "hidden"} /\ swipes = <<>>

JobFor(w) ==
  \E s \in Slots :
    /\ dismissals[s] # Nothing
    /\ dismissals[s].window = w
    /\ \A t \in Slots \ {s} : dismissals[t] = Nothing

ClosesWell(w) ==
  \/ Under(cursor) = {w}
  \/ InFront(w) /\ Under(cursor) \subseteq {w, Nothing}

PromiseKept ==
  promised # Nothing =>
    \/ NoneUnderWay /\ Owing /\ ClosesWell(promised)
    \/ NoneUnderWay /\ Closing /\ InFront(promised)
    \/ JobFor(promised) /\ (Owing \/ Closing)

(* Actions that promise nothing.                                           *)
LEMMA NoPromiseKept ==
  ASSUME promised' = Nothing
  PROVE  PromiseKept'
BY DEF PromiseKept

(* Actions that leave what the promise depends on alone.                   *)
LEMMA SamePromise ==
  ASSUME PromiseKept, UNCHANGED <<view, phase, swipes, stack, cursor, dismissals, promised>>
  PROVE  PromiseKept'
<1>1. Under(cursor)' = Under(cursor)
  BY DEF Under, Thumbnails
<1>2. promised # Nothing => InFront(promised)' = InFront(promised)
  BY DEF InFront, FrontOf, Thumbnails
<1>3. /\ NoneUnderWay' <=> NoneUnderWay
      /\ Owing' <=> Owing
      /\ Closing' <=> Closing
      /\ JobFor(promised)' <=> JobFor(promised)
  BY DEF NoneUnderWay, Owing, Closing, JobFor
<1>4. promised # Nothing => ClosesWell(promised)' = ClosesWell(promised)
  BY <1>1, <1>2 DEF ClosesWell
<1> QED
  BY <1>2, <1>3, <1>4 DEF PromiseKept

LEMMA HoverPromise ==
  ASSUME NEW d, NEW w, NEW at, Hover(d, w, at)
  PROVE  PromiseKept'
BY NoPromiseKept DEF Hover

LEMMA PrepareSwipePromise ==
  ASSUME TypeOK, HighlightInv, PrepareOverlayDismissal, NEW dir \in {"up", "down"},
         PostSwipe(dir)
  PROVE  PromiseKept'
<1> SUFFICES ASSUME promised' # Nothing PROVE PromiseKept'
  BY DEF PromiseKept
<1>1. /\ promised' = Promise /\ promised' = hovered
      /\ ~astray /\ phase = "up" /\ swipes = <<>> /\ NoneUnderWay
      /\ ~(SessionIsCurrent /\ SessionWindow = Nothing)
  BY DEF PrepareOverlayDismissal, Promise, NoneUnderWay
<1>2. Len(swipes') <= 1 /\ UNCHANGED <<view, phase, stack>>
  <2>1. Len(<<>>) = 0 /\ Len(Append(<<>>, dir)) = 1
    OBVIOUS
  <2>2. swipes' = <<>> \/ swipes' = Append(<<>>, dir)
    BY <1>1 DEF PostSwipe
  <2>3. Len(swipes') <= 1
    BY <2>1, <2>2
  <2> QED
    BY <2>3 DEF PostSwipe
<1>3. Owing'
  BY <1>1, <1>2 DEF Owing
<1>4. CASE SessionWindow = Nothing
  <2>1. UNCHANGED <<cursor, dismissals>>
    BY <1>4 DEF PrepareOverlayDismissal, NoDismissal, Parks
  <2>2. ~SessionIsCurrent
    BY <1>1, <1>4
  <2>3. hovered \in Under(cursor) /\ hovered # Nothing
    BY <1>1, <2>2 DEF HighlightInv, HighlightKnown
  <2>4. Under(cursor) = {hovered}
    BY <1>1, <2>3 DEF Under
  <2>5. Under(cursor)' = Under(cursor)
    BY <1>2, <2>1 DEF Under, Thumbnails
  <2>6. NoneUnderWay'
    BY <1>1, <2>1 DEF NoneUnderWay
  <2> QED
    BY <1>1, <1>3, <2>4, <2>5, <2>6 DEF PromiseKept, ClosesWell
<1>5. CASE SessionWindow # Nothing
  <2>1. ParkCursor
    BY <1>1, <1>5 DEF PrepareOverlayDismissal, Parks
  <2>2. SessionWindow = hovered /\ hovered \in Windows
    BY <1>1, <1>5, SessionWindowTypes
       DEF HighlightInv, HighlightKnown, SessionWindow
  <2>3. PICK js, s, job : /\ js = dismissals /\ s = Min(Free(js))
                          /\ job = [home |-> cursor, window |-> SessionWindow, left |-> Polls]
    OBVIOUS
  <2>4. s \in Slots
    BY <2>1, <2>3, FreeSlot DEF ParkCursor
  <2>5. dismissals' = [js EXCEPT ![s] = job] /\ js \in [Slots -> DismissalJobs \cup {Nothing}]
    BY <2>1, <2>3 DEF ParkCursor, TypeOK
  <2>6. job \in DismissalJobs
    <3>1. Polls \in 0 .. Polls /\ cursor \in Points
      BY OverlayAssumption DEF TypeOK
    <3> QED
      BY <2>2, <2>3, <3>1 DEF DismissalJobs
  <2>7. job # Nothing /\ job.window = hovered
    BY <2>2, <2>3, <2>6, NothingAssumption
  <2>8. \A t \in Slots \ {s} : dismissals'[t] = Nothing
    BY <1>1, <2>3, <2>4, <2>5 DEF NoneUnderWay
  <2>9. dismissals'[s] = job
    BY <2>4, <2>5
  <2>10. JobFor(promised)'
    BY <1>1, <2>4, <2>7, <2>8, <2>9 DEF JobFor
  <2> QED
    BY <1>3, <2>10 DEF PromiseKept
<1> QED
  BY <1>4, <1>5

LEMMA PressTogglePromise ==
  ASSUME TypeOK, HighlightInv, NEW element, PressToggle(element)
  PROVE  PromiseKept'
<1>1. PICK dir \in {"up", "down"} :
        /\ PostSwipe(dir)
        /\ PrepareOverlayDismissal \/ promised' = Nothing
  BY DEF PressToggle, ToggleDirection
<1> QED
  BY <1>1, PrepareSwipePromise, NoPromiseKept

(* Here it matters that App Expose is not closed by a swipe up.            *)
LEMMA FastSwipePromise ==
  ASSUME TypeOK, HighlightInv, "expose_swipe" \notin Disturbances,
         NEW dir \in {"up", "down"}, FastSwipe(dir)
  PROVE  PromiseKept'
<1>1. view # "expose" /\ PostSwipe(dir)
  BY DEF FastSwipe
<1>2. CASE dir = "down" /\ OverlayIsShowing
  BY <1>1, <1>2, PrepareSwipePromise DEF FastSwipe
<1>3. CASE ~(dir = "down" /\ OverlayIsShowing)
  <2>1. ~Dismisses(dir, view)
    BY <1>1, <1>3 DEF Dismisses, OverlayIsShowing, TypeOK
  <2>2. promised' = Nothing
    BY <1>3, <2>1 DEF FastSwipe
  <2> QED
    BY <2>2, NoPromiseKept
<1> QED
  BY <1>2, <1>3

LEMMA PollHighlightPromise ==
  ASSUME PromiseKept, NEW slot, PollHighlight(slot)
  PROVE  PromiseKept'
<1>1. \/ UNCHANGED <<mouse, promised>>
      \/ promised' = Nothing
  BY DEF PollHighlight, Hover
<1>2. UNCHANGED <<dock, dismissals>>
  BY DEF PollHighlight
<1> QED
  BY <1>1, <1>2, SamePromise, NoPromiseKept DEF mouse, dock

LEMMA PollDismissalPromise ==
  ASSUME TypeOK, PromiseKept, NEW slot \in Slots, PollDismissal(slot)
  PROVE  PromiseKept'
<1> SUFFICES ASSUME promised' # Nothing PROVE PromiseKept'
  BY DEF PromiseKept
<1>1. /\ dismissals[slot] \in DismissalJobs
      /\ dismissals[slot] # Nothing
      /\ UNCHANGED <<view, phase, swipes>>
      /\ dismissals \in [Slots -> DismissalJobs \cup {Nothing}]
  BY PollDismissalCases, NothingAssumption DEF TypeOK
<1>2. promised' = promised /\ promised \in Windows
  BY PollDismissalCases DEF DismissalWaits, DismissalDone, TypeOK
<1>3. JobFor(promised) /\ (Owing \/ Closing)
  BY <1>1, <1>2 DEF PromiseKept, NoneUnderWay
<1>4. dismissals[slot].window = promised /\ \A t \in Slots \ {slot} : dismissals[t] = Nothing
  BY <1>1, <1>3 DEF JobFor
<1>5. (Owing' <=> Owing) /\ (Closing' <=> Closing)
  BY <1>1 DEF Owing, Closing
<1>6. CASE DismissalWaits(slot)
  <2>1. PICK job \in DismissalJobs : /\ job.window = dismissals[slot].window
                                     /\ dismissals' = [dismissals EXCEPT ![slot] = job]
    BY <1>6 DEF DismissalWaits
  <2>2. job # Nothing
    BY NothingAssumption
  <2>3. dismissals'[slot] = job /\ \A t \in Slots \ {slot} : dismissals'[t] = Nothing
    BY <1>1, <1>4, <2>1
  <2>4. JobFor(promised)'
    BY <1>2, <1>4, <2>1, <2>2, <2>3 DEF JobFor
  <2> QED
    BY <1>3, <1>5, <2>4 DEF PromiseKept
<1>7. CASE DismissalDone(slot)
  <2>1. /\ phase = "up" => cursor' \notin Windows \ {dismissals[slot].window}
        /\ \A w \in Windows : w = dismissals[slot].window => InFront(w)'
    BY <1>7 DEF DismissalDone
  <2>2. PICK w \in Windows : w = promised
    BY <1>2
  <2>3. InFront(w)'
    BY <1>4, <2>1, <2>2
  <2>4. InFront(promised)'
    BY <1>2, <2>2, <2>3 DEF InFront, Thumbnails
  <2>5. Owing' => ClosesWell(promised)'
    <3>1. Owing' => phase' = "up"
      BY DEF Owing
    <3>2. phase' = "up" => Under(cursor)' \subseteq {promised, Nothing}
      BY <1>1, <1>4, <2>1 DEF Under
    <3> QED
      BY <1>2, <2>4, <3>1, <3>2 DEF ClosesWell
  <2>6. dismissals' = [dismissals EXCEPT ![slot] = Nothing]
    BY <1>7 DEF DismissalDone
  <2>7. NoneUnderWay'
    BY <1>1, <1>4, <2>6 DEF NoneUnderWay
  <2> QED
    BY <1>3, <1>5, <2>4, <2>5, <2>7 DEF PromiseKept
<1> QED
  BY <1>6, <1>7, PollDismissalCases

LEMMA HandleSwipePromise ==
  ASSUME TypeOK, PromiseKept, HandleSwipe
  PROVE  PromiseKept'
<1> SUFFICES ASSUME promised' # Nothing PROVE PromiseKept'
  BY DEF PromiseKept
<1>1. /\ swipes # <<>> /\ swipes' = Tail(swipes)
      /\ UNCHANGED <<cursor, dismissals>>
  BY DEF HandleSwipe, mouse, jobs
<1>2. /\ promised' = promised
      /\ \E w \in Under(cursor) : Closes(w)
  BY DEF HandleSwipe, Opens
<1>3. /\ Owing
      /\ (NoneUnderWay /\ ClosesWell(promised)) \/ JobFor(promised)
  BY <1>1, <1>2 DEF PromiseKept, Closing
<1>4. Closing'
  <2>1. swipes' = <<>>
    BY <1>1, <1>3, TailTypes DEF Owing
  <2> QED
    BY <1>2, <2>1 DEF Closing, Closes
<1>5. CASE JobFor(promised)
  <2>1. JobFor(promised)'
    BY <1>1, <1>2, <1>5 DEF JobFor
  <2> QED
    BY <1>4, <2>1 DEF PromiseKept
<1>6. CASE NoneUnderWay /\ ClosesWell(promised)
  <2>1. PICK w \in Windows : w = promised
    BY <1>2 DEF TypeOK
  <2>2. PICK v \in Under(cursor) : Closes(v)
    BY <1>2
  <2>3. InFront(w)'
    <3>1. CASE v = w
      BY <2>2, <3>1, RaisedIsInFront DEF Closes
    <3>2. CASE v # w
      <4>1. InFront(w) /\ v = Nothing
        BY <1>6, <2>1, <2>2, <3>2 DEF ClosesWell
      <4>2. UNCHANGED stack
        BY <2>2, <4>1 DEF Closes, Raised
      <4> QED
        BY <4>1, <4>2 DEF InFront, FrontOf, Thumbnails
    <3> QED
      BY <3>1, <3>2
  <2>4. InFront(promised)'
    BY <1>2, <2>1, <2>3 DEF InFront, Thumbnails
  <2>5. NoneUnderWay'
    BY <1>1, <1>6 DEF NoneUnderWay
  <2> QED
    BY <1>4, <2>4, <2>5 DEF PromiseKept
<1> QED
  BY <1>3, <1>5, <1>6

LEMMA VanishedPromise ==
  ASSUME PromiseKept, Vanished
  PROVE  PromiseKept'
<1>1. /\ phase = "vanishing" /\ phase' = "hidden"
      /\ UNCHANGED <<swipes, stack, cursor, dismissals, promised>>
  BY DEF Vanished, mouse, jobs
<1>2. promised # Nothing => InFront(promised)' = InFront(promised)
  BY <1>1 DEF InFront, FrontOf, Thumbnails
<1>3. /\ NoneUnderWay' <=> NoneUnderWay
      /\ Closing => Closing'
      /\ JobFor(promised)' <=> JobFor(promised)
      /\ ~Owing
  BY <1>1 DEF NoneUnderWay, Owing, Closing, JobFor
<1> QED
  BY <1>1, <1>2, <1>3 DEF PromiseKept

LEMMA AppearedPromise ==
  ASSUME PromiseKept, Appeared
  PROVE  PromiseKept'
<1>1. promised = Nothing
  BY DEF Appeared, PromiseKept, Owing, Closing
<1> QED
  BY <1>1, NoPromiseKept DEF Appeared

LEMMA MoveMousePromise ==
  ASSUME PromiseKept, NEW p, MoveMouse(p)
  PROVE  PromiseKept'
<1>1. UNCHANGED <<view, phase, swipes, stack, dismissals>>
  BY DEF MoveMouse, dock, jobs
<1>2. CASE NoneUnderWay
  <2>1. CASE phase = "up"
    BY <1>2, <2>1, NoPromiseKept DEF MoveMouse, NoneUnderWay
  <2>2. CASE phase # "up"
    <3>1. promised' = promised
      BY <1>2, <2>2 DEF MoveMouse, NoneUnderWay
    <3>2. promised # Nothing => Closing /\ InFront(promised)
      BY <1>2, <2>2 DEF PromiseKept, Owing, JobFor, NoneUnderWay
    <3>3. promised # Nothing => InFront(promised)' = InFront(promised)
      BY <1>1, <3>1 DEF InFront, FrontOf, Thumbnails
    <3>4. NoneUnderWay' /\ (Closing => Closing')
      BY <1>1, <1>2 DEF NoneUnderWay, Closing
    <3> QED
      BY <3>1, <3>2, <3>3, <3>4 DEF PromiseKept
  <2> QED
    BY <2>1, <2>2
<1>3. CASE ~NoneUnderWay
  <2>1. promised' = promised
    BY <1>3 DEF MoveMouse, NoneUnderWay
  <2>2. /\ Owing' <=> Owing
        /\ Closing' <=> Closing
        /\ JobFor(promised)' <=> JobFor(promised)
    BY <1>1, <2>1 DEF Owing, Closing, JobFor
  <2> QED
    BY <1>3, <2>1, <2>2 DEF PromiseKept
<1> QED
  BY <1>2, <1>3

LEMMA PromiseStep ==
  ASSUME TypeOK, HighlightInv, PromiseKept, "expose_swipe" \notin Disturbances, [Next]_vars
  PROVE  PromiseKept'
<1>1. CASE \E dir \in {"next", "previous"} : PressCycle(dir)
  BY <1>1, NoPromiseKept DEF PressCycle, Hover
<1>2. CASE \E req \in Requests : PressDisplay(req)
  BY <1>2, NoPromiseKept DEF PressDisplay, ComesToEmpty, Hover
<1>3. CASE \E element \in Elements : PressToggle(element)
  BY <1>3, PressTogglePromise
<1>4. CASE \E dir \in {"up", "down"} : FastSwipe(dir)
  BY <1>4, FastSwipePromise
<1>5. CASE \E slot \in Slots : PollHighlight(slot) \/ PollDismissal(slot)
  BY <1>5, PollHighlightPromise, PollDismissalPromise
<1>6. CASE HandleSwipe
  BY <1>6, HandleSwipePromise
<1>7. CASE LoseSwipe
  BY <1>7, NoPromiseKept DEF LoseSwipe
<1>8. CASE Appeared \/ Vanished
  BY <1>8, AppearedPromise, VanishedPromise
<1>9. CASE \/ \E v \in Elements : NativeOpen(v)
           \/ \E w \in Windows \cup {Nothing} : NativeClose(w)
           \/ \E w \in Windows : ClickWindow(w)
  BY <1>9, NoPromiseKept DEF NativeOpen, NativeClose, ClickWindow, Opens
<1>10. CASE \E p \in MousePoints : MoveMouse(p)
  BY <1>10, MoveMousePromise
<1>11. CASE SessionExpires
  BY <1>11, SamePromise DEF SessionExpires, dock, mouse, jobs
<1>12. CASE UNCHANGED vars
  BY <1>12, SamePromise DEF vars, dock, mouse, jobs
<1> QED
  BY <1>1, <1>2, <1>3, <1>4, <1>5, <1>6, <1>7, <1>8, <1>9, <1>10, <1>11, <1>12 DEF Next

-----------------------------------------------------------------------------
(***************************************************************************)
(* The theorems.                                                           *)
(***************************************************************************)
LEMMA NoneAtFirst ==
  ASSUME Init
  PROVE  HighlightInv /\ HidesCounted /\ PromiseKept
<1>1. HighlightInv
  BY DEF Init, HighlightInv, SessionOnItsDisplay, HighlightKnown
<1>2. Cardinality(UnderWay) \in Nat
  BY FiniteSlots DEF UnderWay
<1>3. HidesCounted
  BY <1>2 DEF Init, HidesCounted
<1>4. PromiseKept
  BY DEF Init, PromiseKept
<1> QED
  BY <1>1, <1>3, <1>4

LEMMA HighlightAlways == Spec => [](TypeOK /\ HighlightInv)
<1>1. Init => HighlightInv
  BY NoneAtFirst
<1>2. TypeOK /\ HighlightInv /\ [Next]_vars => HighlightInv'
  BY HighlightStep
<1> QED
  BY <1>1, <1>2, TypeCorrect, PTL DEF Spec

LEMMA HighlightedIsSession ==
  ASSUME HighlightInv, phase = "up", ~astray, SessionWindow # Nothing
  PROVE  /\ SessionIsCurrent /\ session # Nothing
         /\ hovered = session.window
         /\ session.display = DisplayOf[hovered]
BY DEF HighlightInv, SessionOnItsDisplay, HighlightKnown, SessionWindow, SessionIsCurrent

(***************************************************************************)
(* A session that requests go by stands on the highlighted window, for any *)
(* windows and displays, unless the highlight is astray in one of the ways *)
(* listed in Overlay (mission_control.cpp:215-224).                        *)
(***************************************************************************)
THEOREM SessionIsTheHighlightAlways == Spec => []SessionIsTheHighlight
<1>1. HighlightInv => SessionIsTheHighlight
  BY HighlightedIsSession DEF SessionIsTheHighlight, SessionWindow
<1> QED
  BY <1>1, HighlightAlways, PTL

(***************************************************************************)
(* Requests made under an overlay act on the display of the highlight,     *)
(* unless it is astray, or on the empty one moved to, for any windows and  *)
(* displays (control_internal.hpp:311-317, mission_control.cpp:654-664).   *)
(***************************************************************************)
THEOREM RequestsActOnHighlightAlways == Spec => []RequestsActOnHighlight
<1>1. ASSUME HighlightInv PROVE RequestsActOnHighlight
  <2>1. phase = "up" /\ ~astray /\ SessionWindow # Nothing
          => OverlayDisplay = DisplayOf[hovered]
    BY <1>1, HighlightedIsSession DEF OverlayDisplay
  <2>2. MoveCursor /\ SessionIsCurrent /\ session.window = Nothing
          => OverlayDisplay = DisplayOf[cursor]
    BY <1>1 DEF HighlightInv, SessionOnItsDisplay, SessionIsCurrent, OverlayDisplay
  <2> QED
    BY <2>1, <2>2 DEF RequestsActOnHighlight
<1> QED
  BY <1>1, HighlightAlways, PTL

(***************************************************************************)
(* The cycle keys step on from the highlighted window, for any windows and *)
(* displays, unless the highlight is astray (README.md:121-130,            *)
(* mission_control.cpp:287-303).                                           *)
(***************************************************************************)
THEOREM KeysStepOnAlways == Spec => []KeysStepOn
<1>1. TypeOK /\ HighlightInv => KeysStepOn
  <2> SUFFICES ASSUME TypeOK, HighlightInv, phase = "up", ~astray,
                      hovered \in Thumbnails(OverlayDisplay, view),
                      NEW dir \in {"next", "previous"}, NEW under \in Under(cursor)
               PROVE  PlanThumbnailCycle(Thumbnails(OverlayDisplay, view), dir, under)
                        = StepFromWindow(Thumbnails(OverlayDisplay, view), hovered, dir)
    BY DEF KeysStepOn
  <2> DEFINE ws == Thumbnails(OverlayDisplay, view)
  <2>1. hovered \in Windows /\ hovered # Nothing /\ Nothing \notin ws
    BY NothingAssumption DEF Thumbnails, Points
  <2>2. Current(ws, under) = hovered
    <3>1. CASE SessionIsCurrent /\ session.window # Nothing /\ hovered = session.window
      BY <2>1, <3>1 DEF Current, SessionWindow
    <3>2. CASE SessionIsCurrent /\ Thumbnails(session.display, view) = {}
      BY <3>2 DEF OverlayDisplay
    <3>3. CASE ~SessionIsCurrent /\ hovered \in Under(cursor)
      <4>1. under = hovered
        BY <3>3 DEF Under
      <4>2. SessionWindow = Nothing
        BY <3>3 DEF SessionWindow
      <4> QED
        BY <2>1, <4>1, <4>2 DEF Current
    <3> QED
      BY <3>1, <3>2, <3>3 DEF HighlightInv, HighlightKnown
  <2> QED
    BY <2>1, <2>2 DEF PlanThumbnailCycle
<1> QED
  BY <1>1, HighlightAlways, PTL

(***************************************************************************)
(* When no dismissal is under way the cursor is hidden no more often than  *)
(* a show failed, for any number of dismissals that overlap and whichever  *)
(* other calls fail (mission_control.cpp:722-723, 776-784,                 *)
(* display_switch.cpp:370-390).                                            *)
(***************************************************************************)
THEOREM CursorVisibleAtRestAlways == Spec => []CursorVisibleAtRest
<1>1. Init => HidesCounted
  BY NoneAtFirst
<1>2. TypeOK /\ HidesCounted /\ [Next]_vars => HidesCounted'
  BY HidesStep
<1>3. TypeOK /\ HidesCounted => CursorVisibleAtRest
  <2> SUFFICES ASSUME TypeOK, HidesCounted, NoneUnderWay PROVE hides <= unshown
    BY DEF CursorVisibleAtRest
  <2>1. UnderWay = {}
    BY DEF UnderWay, NoneUnderWay
  <2>2. Cardinality(UnderWay) = 0
    BY <2>1, FS_EmptySet
  <2>3. PICK u \in Nat : u = unshown
    BY OverlayAssumption DEF TypeOK
  <2>4. hides <= 0 + u
    BY <2>2, <2>3 DEF HidesCounted
  <2> QED
    BY <2>3, <2>4
<1> QED
  BY <1>1, <1>2, <1>3, TypeCorrect, PTL DEF Spec

(***************************************************************************)
(* Dismissing the overlay brings the highlighted window to the front, for  *)
(* any windows, displays and polls, with the exceptions listed at the      *)
(* property, where App Expose is not closed by the user's own swipe up     *)
(* (README.md:128-130, control_internal.hpp:325-334).                      *)
(***************************************************************************)
THEOREM DismissalBringsHighlightForwardAlways ==
  ASSUME "expose_swipe" \notin Disturbances
  PROVE  Spec => []DismissalBringsHighlightForward
<1>1. Init => PromiseKept
  BY NoneAtFirst
<1>2. TypeOK /\ HighlightInv /\ PromiseKept /\ [Next]_vars => PromiseKept'
  BY PromiseStep
<1>3. PromiseKept => DismissalBringsHighlightForward
  BY DEF PromiseKept, DismissalBringsHighlightForward, AtRest, NoneUnderWay, JobFor, InFront,
     Owing
<1> QED
  BY <1>1, <1>2, <1>3, TypeCorrect, HighlightAlways, PTL DEF Spec
=============================================================================
