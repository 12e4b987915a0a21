--------------------------- MODULE MCReviewCards ---------------------------
(* Instances of ReviewCards for TLC.                                       *)
EXTENDS ReviewCards
=============================================================================
