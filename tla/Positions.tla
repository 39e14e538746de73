----------------------------- MODULE Positions -----------------------------
(* Lists that are made by going through another and taking some of it.     *)
EXTENDS Naturals, Sequences, FiniteSets

(* The elements of a sequence at some of its positions, in their order.    *)
AtPositions(seq, I) ==
  [k \in 1 .. Cardinality(I) |->
     seq[CHOOSE i \in I : Cardinality({j \in I : j <= i}) = k]]

(* The first positions of what a sequence holds more than once.            *)
FirstPositions(seq) ==
  {i \in DOMAIN seq : \A j \in DOMAIN seq : seq[j] = seq[i] => i <= j}
=============================================================================
