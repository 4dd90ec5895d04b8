------------------------------ MODULE MCTriage ------------------------------
(***************************************************************************)
(* Small instances of Triage: three reports, two of them routed to         *)
(* security, one to the ICC; officers of each and an administrator.        *)
(***************************************************************************)
EXTENDS Triage, TLC

CONSTANTS sec, icc, adm

Theft == "theft"
Harassment == "harassment"
OfficerRoles == (sec :> "security") @@ (icc :> "icc") @@ (adm :> "admin")
CategorySeverity == (Theft :> 2) @@ (Harassment :> 5)
CategoryRoute == (Theft :> "security") @@ (Harassment :> "icc")

Fact(category, emergency, occurred, reporter) ==
  [category |-> category, emergency |-> emergency, ongoing |-> emergency, occurred |-> occurred,
   place |-> 1, reporter |-> reporter]

\* 348 hours are fourteen days and a half: a duplicate or not, by who comes first.
ThreeFacts == (1 :> Fact(Theft, FALSE, 348, Nobody)) @@ (2 :> Fact(Harassment, FALSE, 0, sec))
                @@ (3 :> [Fact(Theft, TRUE, 12, Nobody) EXCEPT !.category = NoCategory])

AllAlike == [r \in 1 .. 3 |-> [s \in 1 .. 3 |-> CASE r = s -> 100 [] {r, s} = {1, 2} -> 90
                                                  [] {r, s} = {2, 3} -> 80 [] OTHER -> 85]]

\* To the second model one pair is less alike than the threshold.
TwoModels == <<AllAlike, [AllAlike EXCEPT ![1][2] = 60, ![2][1] = 60]>>

File(r) == [kind |-> "file", report |-> r]
Look(u, r) == [kind |-> "view", user |-> u, report |-> r]
Override(u, r, c) == [kind |-> "override", user |-> u, report |-> r, verdict |-> c]
Review(u, r, s, v) == [kind |-> "review", user |-> u, report |-> r, link |-> {r, s}, verdict |-> v]

\* Everybody files, looks and reviews across roles, and two officers override one
\* suggestion, while a third gives an id that no category has.
RacingRequests ==
  {File(r) : r \in 1 .. 3} \cup {Look(u, 2) : u \in {sec, icc}}
    \cup {Review(sec, 2, 1, "rejected"), Review(icc, 2, 3, "confirmed"), Review(adm, 1, 2, "confirmed")}
    \cup {Override(icc, 2, NoCategory), Override(sec, 2, Theft), Override(adm, 2, Harassment)}

Symmetry == Permutations(Workers)

\* Two officers override one suggestion, and change their minds.
TornRequests ==
  {File(1)} \cup {Override(u, 1, c) : u \in {sec, adm}, c \in {Theft, Harassment}}
=============================================================================
