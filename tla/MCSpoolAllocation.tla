------------------------- MODULE MCSpoolAllocation -------------------------
(* Model-checking instance of SpoolAllocation. *)
EXTENDS SpoolAllocation, TLC

\* The model treats processes alike, and days.
AllocationSymmetry == Permutations(Processes) \cup Permutations(Days)
=============================================================================
