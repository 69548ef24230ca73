----------------------------- MODULE MC_FoERead -----------------------------
(* Every file size up to three sectors and a bit, read in blocks of three. *)
EXTENDS FoERead

SmallSizes == 1..27
=============================================================================
