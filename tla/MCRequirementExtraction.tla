---------------------- MODULE MCRequirementExtraction ----------------------
(* Instances of RequirementExtraction for TLC.                             *)
EXTENDS RequirementExtraction
=============================================================================
