---------------------------- MODULE MCEvidenceStore --------------------------
(* EvidenceStore for model checking: one Biome check and one process, a table of two *)
(* records.                                                                           *)
EXTENDS EvidenceStore, TLC

Symmetry == Permutations(CallId)
=============================================================================
