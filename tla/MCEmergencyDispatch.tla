------------------------ MODULE MCEmergencyDispatch ------------------------
(***************************************************************************)
(* Small instances of EmergencyDispatch.                                   *)
(***************************************************************************)
EXTENDS EmergencyDispatch, TLC

WorkerSymmetry == Permutations(Workers)

Raise(u) == [kind |-> "raise", user |-> u]
Advance(u, s) == [kind |-> "advance", user |-> u, target |-> s]

\* Two responders who each raise, answer and go on; a student who tries to.
Journey ==
  {Raise("off1"), Raise("off2"), Raise("stu")}
    \cup {Advance("off1", s) : s \in States \ {"pending"}}
    \cup {Advance("off2", "acknowledged")}
=============================================================================
