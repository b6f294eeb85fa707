------------------------- MODULE MCResearchDataset -------------------------
(* The model-checking instance of ResearchDataset. *)
EXTENDS ResearchDataset, TLC

CallerSymmetry == Permutations(Callers)
=============================================================================
