---------------------------- MODULE MC_Firmware -----------------------------
(* Small instances of Firmware: the client does everything it can. *)
EXTENDS Firmware, TLC

Symmetry == Permutations(Names)

\* Everything but deleting what does not exist, which corrupts the counters.
OpsAny == AllOps \ {"deleteMissing"}
=============================================================================
