----------------------------- MODULE MC_FileMan -----------------------------
(* Small instances of FileMan: what the client and the environment do. *)
EXTENDS FileMan, TLC

\* Names are only compared for equality.
Symmetry == Permutations(Names)

\* Rewritten files outgrow the sectors they have.
OpsGrow == {"create", "rewrite", "grow", "abort", "writeError"}

\* Files come and go at the end of the directory, and power fails.
OpsLast == {"create", "deleteLast", "abort", "restart", "writeError", "powerFail"}
=============================================================================
