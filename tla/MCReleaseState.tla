--------------------------- MODULE MCReleaseState ---------------------------
(***************************************************************************)
(* One suite: a chain of two follow-ups and an adoption, three blockers,   *)
(* two criteria, the two gates, and stages of its history.                 *)
(***************************************************************************)
EXTENDS ReleaseState, TLC

CONSTANTS o1, o2, o3, b1, b2, b3, k1, k2, f1, f2, f3

MCCarries == o3 :> o1

C(kind, level, contract) == [kind |-> kind, level |-> level, contract |-> contract]
Target == o1 :> C("runtime", "parity_verified", "parity") @@ o2 :> C("runtime", "source_executed", "source")
          @@ o3 :> C("adoption", "adopted", "adoption")

Doc(o, shows) == [wave |-> o, contract |-> Target[o].contract, shows |-> shows, run |-> None, runBytes |-> None, parity |-> None]
Run1 == Doc(o1, {"clean", "invoked", "compared"})
Run2 == Doc(o2, {"clean", "invoked"})
Use3 == [Doc(o3, {"used"}) EXCEPT !.run = f2, !.runBytes = Run2, !.parity = Run1]
Broken == Doc(o2, {"clean"})
MCContents == {None, Broken, Run1}

MCPhases == {[name |-> "alpha", owner |-> FALSE, depth |-> "specified"],
             [name |-> "beta", owner |-> TRUE, depth |-> "parity_verified"],
             [name |-> "deprecated", owner |-> FALSE, depth |-> "specified"],
             [name |-> "retired", owner |-> TRUE, depth |-> "specified"]}
Ph(name) == CHOOSE p \in MCPhases : p.name = name

MCClosures == {[outcome |-> "implemented", evid |-> f1, rationale |-> FALSE],
               [outcome |-> "rejected", evid |-> None, rationale |-> TRUE]}
MCDepSets == {{}, {o1}, {o3}}

\* Obligations discharged, blockers in a chain, gates open.
Stage(done, phase) ==
    [ledger |-> [
        criteria |-> [k \in Criteria |-> [status |-> "open", closure |-> None, refs |-> IF k = k1 THEN {o1, o2} ELSE {o3}]],
        blockers |-> b1 :> [refs |-> {o1}, deps |-> {Freeze}] @@ b2 :> [refs |-> {o2}, deps |-> {Freeze, b1}]
                     @@ b3 :> [refs |-> {o3}, deps |-> {Freeze, b2}],
        gates |-> [g \in Gates |-> [closure |-> None, deps |-> Gates \ {g, Freeze}]],
        phase |-> Ph(phase)],
     program |-> [o \in Obls |-> [state |-> IF o \in done THEN "discharged" ELSE "planned",
        deps |-> CASE o = o1 -> {} [] o = o2 -> {o1} [] OTHER -> {o2},
        target |-> Target[o], evid |-> IF o = o3 THEN f3 ELSE None,
        route |-> IF o = o1 THEN "run" ELSE None, sound |-> TRUE]],
     manifest |-> [w \in FollowUps |-> [status |-> IF w \in done THEN "complete" ELSE "in_progress",
        claim |-> Target[w], file |-> IF w = o1 THEN f1 ELSE f2, followup |-> TRUE]],
     files |-> f1 :> Run1 @@ f2 :> (IF o2 \in done THEN Run2 ELSE None) @@ f3 :> (IF o3 \in done THEN Use3 ELSE None),
     gateDocs |-> [g \in Gates |-> None], contracts |-> 0, retireDoc |-> None, approved |-> {}]

Closed1(d) == [d EXCEPT !.ledger.criteria[k1].status = "closed",
    !.ledger.criteria[k1].closure = CHOOSE c \in MCClosures : c.outcome = "implemented"]
Frozen(d) ==
    LET docs == [g \in Gates |-> [bound |-> Digests(g, d), asOf |-> [ledger |-> d.ledger, program |-> d.program, contracts |-> d.contracts]]]
    IN  [d EXCEPT !.gateDocs = docs, !.ledger.gates = [g \in Gates |-> [d.ledger.gates[g] EXCEPT !.closure = docs[g].bound]]]
Approved(d, doc) == [d EXCEPT !.retireDoc = doc, !.approved = {doc}]
Retiring(d, f) == Approved(d, [ref |-> f, bytes |-> d.files[f]])
\* The evidence was replaced after the retirement was approved.
Superseded(d, f) == Approved(d, [ref |-> f, bytes |-> Broken])

MCDisks == {Stage({}, "alpha"), Frozen(Stage({o1}, "alpha")), Frozen(Closed1(Stage({o1, o2}, "beta"))),
            Frozen(Closed1(Stage(Obls, "beta"))), Retiring(Stage(Obls, "retired"), f3), Retiring(Stage({o1}, "retired"), f1),
            Superseded(Stage({o1}, "retired"), f1)}
=============================================================================
