--------------------------- MODULE MCParserClaim ---------------------------
(* Model-checking instance of ParserClaim. *)
EXTENDS ParserClaim, TLC

WorkerSymmetry == Permutations(Workers)
=============================================================================
