--------------------------- MODULE MCModelRelease ---------------------------
(***************************************************************************)
(* A label with a chain of near duplicates (a-b, b-c), one with a pair and *)
(* enough single texts for a validation share, and one text alone; at the  *)
(* threshold of 1.0 the pair alone has the same shingles.  Two exports,    *)
(* which may have one name, and a server process.                          *)
(***************************************************************************)
EXTENDS ModelRelease

Narratives == {"a", "b", "c", "d", "p", "q", "r", "s", "t", "z"}
Gold == [t \in Narratives |-> IF t \in {"a", "b", "c", "d"} THEN "stalking"
                              ELSE IF t = "z" THEN "ragging" ELSE "lighting"]
Pairs == {<<"a", "b">>, <<"b", "c">>, <<"p", "q">>}
SameAs(pairs) == {<<t, u>> \in Narratives \X Narratives :
                    t = u \/ <<t, u>> \in pairs \/ <<u, t>> \in pairs}
Alike == [h \in {"0.95", "1.0"} |-> SameAs(IF h = "1.0" THEN {<<"p", "q">>} ELSE Pairs)]

\* Too little to fit, and enough, with the chain in it.
Exported == {<<"a", "b">>, <<"b", "a", "d", "c", "p", "q", "r">>}

\* Every short dataset over the first label and the lone text, and two long ones.
Datasets ==
  (UNION {[1 .. n -> {"a", "b", "c", "d", "z"}] : n \in 1 .. 4}) \cup Exported
    \cup {<<"b", "a", "d", "c", "a", "p", "r", "s", "q", "t", "t">>,
          <<"c", "a", "z", "r", "b", "s", "p", "t", "d", "q", "z">>}
=============================================================================
