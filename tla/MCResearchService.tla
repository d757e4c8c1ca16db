-------------------------- MODULE MCResearchService --------------------------
(* Instances of ResearchService for TLC. *)
EXTENDS ResearchService

OneJobOfThree == <<3>>
TwoJobs == <<2, 1>>
=============================================================================
