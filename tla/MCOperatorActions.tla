------------------------- MODULE MCOperatorActions -------------------------
(***************************************************************************)
(* Surroundings in which TLC checks OperatorActions.                       *)
(***************************************************************************)
EXTENDS OperatorActions

CONSTANTS r1, r2, cache0

Pair(a, b) == [r \in Runs |-> IF r = r1 THEN a ELSE b]

Scene(kind, touched, faults, deaths) ==
    [kind |-> kind, touched |-> touched, faults |-> faults, deaths |-> deaths,
     cache |-> cache0]

Mixed == {
    Scene(Pair("sync", "sync"), {}, {"install"}, TRUE),
    Scene(Pair("sync", "sync"), {"a"}, {}, FALSE),
    Scene(Pair("sync", "sync"), {"sub"}, {}, FALSE),
    Scene(Pair("sync", "backup"), {"b"}, {"install", "undo"}, FALSE),
    Scene(Pair("backup", "backup"), {"archive"}, {"install"}, FALSE),
    Scene(Pair("rotate", "rotate"), {}, {"install", "undo"}, TRUE),
    Scene(Pair("rotate", "backup"), {"cache"}, {"install"}, FALSE)}

TwoBackups == {Scene(Pair("backup", "backup"), {}, {"install"}, FALSE)}

=============================================================================
