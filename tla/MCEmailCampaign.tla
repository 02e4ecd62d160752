--------------------------- MODULE MCEmailCampaign ---------------------------
(* Values for the constants of EmailCampaign.                               *)
EXTENDS EmailCampaign

Recipients == 1..2
=============================================================================
