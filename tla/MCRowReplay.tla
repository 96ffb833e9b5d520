---- MODULE MCRowReplay ----
(* A relation of every kind that the planner tells apart, beside a plain one. *)
EXTENDS RowReplay

CONSTANTS a, b

Kind(pk, unique, identity, features) ==
  [pk |-> pk, unique |-> unique, identity |-> identity,
   arbiter |-> "arbiter" \in features, setDML |-> "setDML" \in features,
   lane |-> "lane" \in features, selective |-> "selective" \in features]

All == {"arbiter", "setDML", "lane"}

AnyKind ==
  { Kind(TRUE, TRUE, "default", All),
    Kind(TRUE, TRUE, "default", {"setDML", "lane", "selective"}),
    Kind(TRUE, FALSE, "default", {"setDML"}),
    Kind(TRUE, FALSE, "default", {}),
    Kind(TRUE, TRUE, "index", {"arbiter", "setDML"}),
    Kind(TRUE, FALSE, "full", {"arbiter", "setDML"}),
    Kind(FALSE, FALSE, "full", {}) }

Plain == Kind(TRUE, FALSE, "default", All)

MCRel == {a, b}
MCSchemas == {[r \in MCRel |-> IF r = a THEN k ELSE Plain] : k \in AnyKind}

At(id, u, w) == [id |-> id, u |-> u, w |-> w]

MCStart == [r \in MCRel |-> IF r = a THEN {At(1, 1, 1), At(2, 2, 2)} ELSE {}]
MCFresh == [r \in MCRel |-> IF r = a THEN {At(1, 1, 2), At(3, 3, 1)}
                            ELSE {At(1, 1, 1), At(2, 1, 1)}]
====
