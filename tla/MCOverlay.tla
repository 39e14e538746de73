------------------------------ MODULE MCOverlay ------------------------------
(* Two windows, of one program or of two, on one display; or one window    *)
(* and a display beside it that has none.                                  *)
EXTENDS Overlay

CONSTANTS w1, w2, left, right, leftAnchor, rightAnchor

MCReading == <<w1, w2>>

OneWindow == <<w1>>

OneDisplay == <<left>>

OneDisplayOf == [p \in {w1, w2, leftAnchor} |-> left]

OneAnchor == [d \in {left} |-> leftAnchor]

OneAppOf == [w \in {w1, w2} |-> "editor"]

TwoAppOf == (w1 :> "editor") @@ (w2 :> "terminal")

TwoDisplay == <<left, right>>

TwoDisplayOf ==
  [p \in {w1, leftAnchor, rightAnchor} |-> IF p = leftAnchor THEN left ELSE right]

TwoAnchor == (left :> leftAnchor) @@ (right :> rightAnchor)

OneMousePoints == {w1, leftAnchor}

TwoMousePoints == {leftAnchor}

OneOldCentre == {w1}

MCRequests == {[action |-> "right", index |-> 0, wrap |-> TRUE]}
=============================================================================
