--------------------------- MODULE MCLiveCapture ---------------------------
(* Model-checking instance of LiveCapture. *)
EXTENDS LiveCapture, TLC

\* The model treats the two directions alike.
DirectionSymmetry == Permutations(Directions)
=============================================================================
