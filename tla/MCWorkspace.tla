----------------------------- MODULE MCWorkspace ----------------------------
(* Model-checking instances of Workspace: requests and keys are            *)
(* interchangeable.                                                        *)
EXTENDS Workspace
Symmetry == Permutations(Request) \cup Permutations(Key)
=============================================================================
