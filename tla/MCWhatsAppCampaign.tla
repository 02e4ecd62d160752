-------------------------- MODULE MCWhatsAppCampaign --------------------------
(* Values for the constants of WhatsAppCampaign.                             *)
EXTENDS WhatsAppCampaign

CONSTANTS q1, q2, x1, x2

Recipients == 1..2
=============================================================================
