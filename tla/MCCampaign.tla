----------------------------- MODULE MCCampaign -----------------------------
(* Two campaigns that compete for the GPU, two handlers of API calls.        *)
EXTENDS Campaign
=============================================================================
