----------------------------- MODULE MCWaveRun -----------------------------
(***************************************************************************)
(* Small suites for WaveRun: the waves whose runners differ, in pairs.     *)
(***************************************************************************)
EXTENDS WaveRun, TLC

CONSTANTS r1, r2, p1, p2

C(status, kind, level, contract) ==
    [status |-> status, claim |-> [kind |-> kind, level |-> level, contract |-> contract]]

Complete(kind, level, contract) == C("complete", kind, level, contract)

MCRole == [w \in Waves |->
    CASE w = "A1" -> "prose" [] w = "A2" -> "depth" [] w = "B1" -> "package"
      [] w = "B4" -> "consumer" [] w = "B3" -> "claims" [] w = "X" -> "none" [] OTHER -> "plain"]

MCFirst == [w \in Waves |->
    CASE w = "A1" -> Complete("analysis", "reviewed_historical_analysis", "analysis")
      [] w = "A2" -> Complete("runtime", "parity_verified", "wcag")
      [] w = "O1" -> Complete("runtime", "source_executed", "source")
      [] w = "B1" -> Complete("analysis", "prototype", "analysis")
      [] w \in {"B3", "B4"} -> C("blocked", "analysis", "prototype", "analysis")
      [] w = "X"  -> C("specified", "none", "none", "none")
      [] OTHER    -> Complete("analysis", "source_inspected", "analysis")]

\* The claims a person may write: the declared one, none at all, and a promotion.
MCSpecs == [w \in Waves |-> {MCFirst[w], Complete("none", "none", "none"),
                             Complete(MCFirst[w].claim.kind, "adopted", "adoption"),
                             Complete("runtime", "parity_verified", "parity")}]

\* Each wave declares a receipt of its own, but X was given the one B3 has.
MCPath == [w \in Waves |-> CASE w = "A1" -> "n1" [] w = "A2" -> "n2" [] w \in {"B3", "X"} -> "n3" [] w = "B1" -> "n4" [] w = "B4" -> "n6" [] OTHER -> "n5"]

Pair(w, p, v, q) == r1 :> [wave |-> w, proc |-> p] @@ r2 :> [wave |-> v, proc |-> q]

\* Two calls of one wave from two command lines and from one process, waves with different
\* runners, the export beside a reader of its package, and a consumer beside a wave that has
\* no runner.
MCCalls == {Pair("O1", p1, "O1", p2), Pair("O1", p1, "O1", p1), Pair("A1", p1, "A2", p1),
            Pair("B3", p1, "B1", p1), Pair("B4", p1, "X", p1)}
=============================================================================
