--------------------------- MODULE RecoveryProgram ---------------------------
(***************************************************************************)
(* The recovery program: obligations, their dependencies and their         *)
(* retained evidence (recovery_program.py), over the waves of one suite.   *)
(*                                                                         *)
(* A program maps an obligation to [state, deps, target, evid, route,      *)
(* sound]; a manifest maps a wave to [status, claim, file, followup].  A   *)
(* follow-up obligation has the name of its wave; the others belong to the *)
(* lifecycle.  Vocabularies, sequences, journeys and texts, which one look *)
(* at an entry decides, are its field "sound".  A receipt is as in         *)
(* Receipts, and an adoption has [run, runBytes, parity] besides.  A       *)
(* digest is the content it was taken of.                                  *)
(***************************************************************************)
EXTENDS Receipts, Naturals, Sequences, FiniteSets

CONSTANTS
    Obls,       \* obligations
    FollowUps,  \* those that follow a wave up
    Carries,    \* lifecycle obligation -> the wave whose parity it adopts
    Files,      \* names in the suite's evidence directory
    None

ASSUME ProgramAssumption ==
    /\ FollowUps \subseteq Obls /\ Carries \in [Obls \ FollowUps -> FollowUps]
    /\ None \notin Files \cup Obls

States == {"planned", "assessing", "blocked_environment", "blocked_owner", "in_progress",
           "evidence_candidate", "accepted", "discharged"}

\* The levels in their order.
Ladder == <<"specified", "prototype", "reviewed_historical_analysis", "source_inspected",
            "source_executed", "parity_verified", "adopted", "converged">>
AtLeast(level, floor) ==
    \E i, j \in DOMAIN Ladder : Ladder[i] = level /\ Ladder[j] = floor /\ i >= j

-----------------------------------------------------------------------------
(* Retained evidence.                                                      *)

\* A follow-up's evidence is its wave's; a lifecycle obligation declares its own.
EvidenceRef(program, manifest, o) ==
    IF o \in FollowUps THEN manifest[o].file ELSE program[o].evid

NothingCopied(program, o) == o \in FollowUps => program[o].evid = None

\* The wave an adoption is about.
Wave(o) == IF o \in FollowUps THEN o ELSE Carries[o]

\* What a discharge asserts: evidence that meets the contract of the target.
Evidenced(program, manifest, files, o) ==
    LET ref == EvidenceRef(program, manifest, o) IN
    ref # None /\ files[ref] # None /\ Bears(o, program[o].target, files[ref])

\* An adoption receipt binds the bytes of its runs and of the parity evidence of its wave.
Adopts(program, o) == program[o].target.kind = "adoption"

RunBound(files, doc) == doc.run # None => doc.runBytes # None /\ files[doc.run] = doc.runBytes

ParityBound(manifest, files, o, doc) == doc.parity # None =>
    /\ manifest[Wave(o)].claim.level \in {"parity_verified", "adopted", "converged"}
    /\ files[manifest[Wave(o)].file] = doc.parity

-----------------------------------------------------------------------------
(* The dependencies.                                                       *)

\* No set of nodes each of which depends on another of the set: _dependency_cycle finds none.
Acyclic(nodes, deps) ==
    \A S \in SUBSET nodes : S = {} \/ \E n \in S : deps[n] \cap S = {}

Deps(program) == [o \in Obls |-> program[o].deps]

\* Mutant: stored states are taken at their word.
ConsistentUnchecked(program) == TRUE

\* A discharged obligation depends on discharged ones only.
Consistent(program) ==
    \A o \in Obls : program[o].state = "discharged" =>
        \A d \in program[o].deps \cap Obls : program[d].state = "discharged"

\* One adapter action leads to one obligation.
RoutesUnique(program) ==
    \A o, p \in Obls : program[o].route # None /\ program[o].route = program[p].route => o = p

\* Every wave that states a follow-up is an obligation, and no other.
Covers(manifest) == \A w \in FollowUps : manifest[w].followup

\* The contract of each target; a lifecycle obligation adopts.
Governed(target) ==
    CASE target.kind = "runtime" /\ target.level = "source_executed" -> target.contract = "source"
      [] target.kind = "runtime" /\ target.level = "parity_verified" -> target.contract = "parity"
      [] target.kind = "adoption" /\ target.level = "adopted"        -> target.contract = "adoption"
      [] target.kind = "convergence" /\ target.level = "converged"   -> target.contract = "convergence"
      [] target.kind = "resolution" /\ target.level = "none"         -> target.contract = "resolution"
      [] OTHER -> FALSE

TargetGoverned(program, o) ==
    Governed(program[o].target) /\ (o \notin FollowUps => program[o].target.kind = "adoption")

\* What of validate_recovery_program the program and the manifest decide; it also looks at the
\* evidence of the obligations that are stored as discharged, one after another.
ProgramSound(program, manifest) ==
    /\ Covers(manifest) /\ RoutesUnique(program)
    /\ \A o \in Obls :
        /\ program[o].sound /\ program[o].state \in States
        /\ TargetGoverned(program, o)
        /\ program[o].deps \subseteq Obls \ {o}
        /\ NothingCopied(program, o)
    /\ Acyclic(Obls, Deps(program))
    /\ Consistent(program)

Stored(program) == {o \in Obls : program[o].state = "discharged"}

-----------------------------------------------------------------------------
(* What is derived of a valid program.                                     *)

EffectiveState(program, o) ==
    IF \E d \in program[o].deps : program[d].state # "discharged" THEN "blocked_dependency"
    ELSE IF program[o].state = "planned" THEN "ready" ELSE program[o].state

Discharged(program) == {o \in Obls : EffectiveState(program, o) = "discharged"}

-----------------------------------------------------------------------------
(* The reference the rest is measured against.                             *)

Closed(S, program) == \A o \in S : program[o].deps \subseteq S

\* An obligation with everything it rests on, however far down.
RestsOn(program, o) ==
    {x \in Obls : \A S \in SUBSET Obls : o \in S /\ Closed(S, program) => x \in S}
=============================================================================
