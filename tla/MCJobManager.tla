---------------------------- MODULE MCJobManager ----------------------------
(* Instances of JobManager for TLC. *)
EXTENDS JobManager, TLC

Symmetry == Permutations(Jobs) \cup Permutations(Calls) \cup Permutations(Keys)

\* All that an action reads: states that differ only in the history kept for
\* DoneHasEvidence and ReconciledMeansFinished count once in a run that checks
\* neither of them.
WithoutHistory == <<jobVars, mapVars, diskVars, gorVars, turn, last, procVars>>
=============================================================================
