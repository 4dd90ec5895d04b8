---------------------------- MODULE MCCampusMap ----------------------------
(***************************************************************************)
(* A small instance of CampusMap: two imports of overlapping files that    *)
(* list their zones in opposite orders, one of which names a zone it does  *)
(* not bring, a file that must be rejected, and the seed run again.        *)
(***************************************************************************)
EXTENDS CampusMap, TLC

CONSTANTS survey, again, bad, seed, rerun, prod, z1, z2, zd, lib, gate, hall, demo, sos

Zone(code) == [code |-> code, role |-> "security", readable |-> TRUE]
Place(code, zone, at, status) ==
  [code |-> code, name |-> code, zone |-> zone, at |-> at, status |-> status,
   sourced |-> status = "verified", active |-> status = "verified", readable |-> TRUE]

DemoRow == [code |-> demo, name |-> demo, zone |-> zd, at |-> 900, status |-> "verified",
            sourced |-> TRUE, active |-> TRUE, synthetic |-> TRUE]
DemoRows == <<DemoRow>>

Files ==
  (survey :> [zones |-> <<Zone(z1), Zone(z2)>>,
              places |-> <<Place(lib, z1, 20, "verified"), Place(gate, z2, 400, "provisional")>>])
    @@ (again :> [zones |-> <<Zone(z2), Zone(z1)>>, places |-> <<Place(gate, z2, 400, "provisional"),
                                                             Place(lib, zd, NoPoint, "required")>>])
    @@ (bad :> [zones |-> <<>>,
                places |-> <<Place(gate, NoZone, NoPoint, "required"), Place(lib, NoZone, 20, "required")>>])

Blank(code) ==
  [code |-> code, name |-> code, zone |-> NoZone, at |-> NoPoint, status |-> "required",
   sourced |-> FALSE, active |-> FALSE, synthetic |-> FALSE]
Migrated == (sos :> Blank(sos)) @@ (hall :> Blank(hall))

Photo(at) == [usable |-> at # NoPoint, at |-> at]
Report(place, photo) == [kind |-> "report", place |-> place, photo |-> Photo(photo), device |-> NoPoint]
Press(at) == [kind |-> "sos", place |-> sos, photo |-> Photo(NoPoint), device |-> at]
Filed == {Report(lib, 100), Report(gate, 100), Report(demo, NoPoint)}
           \cup {Press(NoPoint), Press(700)}

Surveyed2 == {<<hall, 700>>, <<lib, NoPoint>>}

Symmetry == Permutations({seed, rerun})
=============================================================================
