---------------------------- MODULE MCPrivacyJobs ----------------------------
(* Small instances of PrivacyJobs for TLC.  Every run checks liveness, which *)
(* symmetry reduction would not preserve.                                    *)
EXTENDS PrivacyJobs
=============================================================================
