------------------------ MODULE MCEvidenceLifecycle ------------------------
(***************************************************************************)
(* Small instances of EvidenceLifecycle.                                   *)
(***************************************************************************)
EXTENDS EvidenceLifecycle, TLC

\* Every list of at most two of the uploads, repeated tokens included.
ShortClaims == UNION {[1 .. n -> Uploads] : n \in 1 .. 2}

SingleClaims == {<<u>> : u \in Uploads}

Symmetry == Permutations(Workers) \cup Permutations(Uploads) \cup Permutations(Reports)
=============================================================================
