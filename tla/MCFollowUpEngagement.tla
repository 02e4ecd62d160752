------------------------- MODULE MCFollowUpEngagement -------------------------
(* The follow-up sequence on small instances. *)
EXTENDS FollowUpEngagement, TLC

Alt2      == 1 :> "a1" @@ 2 :> "a2"
Alt1      == 1 :> "a1"
Cad1      == 1 :> "c1"
=============================================================================
