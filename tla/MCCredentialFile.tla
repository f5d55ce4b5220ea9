--------------------------- MODULE MCCredentialFile ---------------------------
(* Instances of CredentialFile for TLC.                                      *)
EXTENDS CredentialFile, TLC

\* Processes, inodes and temporary names are interchangeable.
Symmetry ==
  Permutations(Inodes) \cup Permutations(Procs) \cup Permutations(Profiles) \cup Permutations(Temps)
=============================================================================
