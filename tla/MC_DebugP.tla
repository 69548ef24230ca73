----------------------------- MODULE MC_DebugP ------------------------------
(* Instances of DebugP: the ids of the client. *)
EXTENDS DebugP

TwoIds == 0 :> 4 @@ 1 :> 5
=============================================================================
