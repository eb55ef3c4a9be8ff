-------------------------- MODULE MCCampaignLedger ---------------------------
(* Small instances of CampaignLedger for TLC.                               *)
EXTENDS CampaignLedger, PackChecks, TLC

Symmetry == Permutations(Managers) \cup Permutations(Evidence)
            \cup Permutations(Updates \ Evidence)
=============================================================================
