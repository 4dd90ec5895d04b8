----------------------------- MODULE MCAccounts -----------------------------
(***************************************************************************)
(* A small instance of Accounts: an officer and a student made out of      *)
(* band, two people who register, one of them with no address in the       *)
(* token, and an anonymous report with a token beside the student's own.   *)
(***************************************************************************)
EXTENDS Accounts, TLC

CONSTANTS off, stu, new, bare, e1, E1, e2, e3, tok, own, anon, toOff, toStu

SubjectEmail == (off :> e2) @@ (stu :> e3) @@ (new :> e1) @@ (bare :> NoEmail)
LowerCase == [e \in Emails |-> IF e = E1 THEN e1 ELSE e]
\* e2 has an underscore where e3 has another character.
Alike == {<<e, f>> \in Emails \X Emails : LowerCase[e] = LowerCase[f]} \cup {<<e2, e3>>}

Account(uid, email, role) ==
  [uid |-> uid, email |-> email, role |-> role, active |-> TRUE, name |-> NoName]
Made == <<Account(off, e2, "security"), Account(stu, e3, "student")>>

Facts(role, reporter) ==
  [routesTo |-> role, confidential |-> FALSE, reporter |-> reporter, assignee |-> Nobody,
   viaToken |-> FALSE, emergency |-> FALSE]
ReportFacts == (own :> Facts("security", 2)) @@ (anon :> Facts("icc", Nobody))
TokenReport == (tok :> anon)
Recipients == (toOff :> 1) @@ (toStu :> 2)

Ask(op, uid) ==
  [op |-> op, uid |-> uid, email |-> NoEmail, name |-> NoName, report |-> anon, token |-> NoToken,
   notice |-> toOff]
Register(uid, email) == [Ask("register", uid) EXCEPT !.email = email]
See(op, uid, report, token) == [Ask(op, uid) EXCEPT !.report = report, !.token = token]

People ==
  {Register(new, e1), Register(bare, E1), Register(bare, e2), Ask("register", stu),
   Ask("me", new), Ask("read", off), Ask("read", stu)}
    \cup {[Ask("rename", u) EXCEPT !.name = n] : u \in {off}, n \in Names}
    \cup {Ask("rename", stu)}
    \cup {See("view", u, anon, tok) : u \in {NoUid, off}}
    \cup {See("view", stu, own, tok), See("evidence", off, anon, tok)}

Symmetry == Permutations(Workers)
=============================================================================
