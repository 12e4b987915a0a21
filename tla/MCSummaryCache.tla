--------------------------- MODULE MCSummaryCache ---------------------------
(* Instances of SummaryCache for TLC.                                      *)
EXTENDS SummaryCache, TLC

\* Connections, worker slots, fingerprints and answers are interchangeable.
Symmetry == Permutations(Readers) \cup Permutations(Workers)
                \cup Permutations(Sources) \cup Permutations(Takes)
============================================================================
