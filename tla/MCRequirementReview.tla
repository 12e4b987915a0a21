------------------------ MODULE MCRequirementReview ------------------------
(* Instances of RequirementReview for TLC.                                 *)
EXTENDS RequirementReview, TLC

\* Sessions and requirements are interchangeable.
Symmetry == Permutations(Clients) \cup Permutations(Requirements)
===========================================================================
