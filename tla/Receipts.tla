------------------------------ MODULE Receipts ------------------------------
(***************************************************************************)
(* What a retained receipt proves and how a wave is shown: the evidence    *)
(* contracts (receipts.py, recovery_policy.py) and the display of a run    *)
(* (waves.py).                                                             *)
(*                                                                         *)
(* A claim is [kind, level, contract]; a specification is [status, claim]. *)
(* A receipt is [wave, contract, shows, by]: the contract it is written    *)
(* to, the facts a validator finds in it and who made it.  The fields a    *)
(* validator inspects one by one (argv, exit status, host-recomputed       *)
(* digests, fingerprints, uses, approvals) are folded into the fact they   *)
(* establish.                                                              *)
(***************************************************************************)
Kinds  == {"none", "analysis", "runtime", "adoption", "convergence", "resolution"}
Levels == {"none", "specified", "prototype", "reviewed_historical_analysis", "source_inspected",
           "source_executed", "parity_verified", "adopted", "converged"}
Contracts == {"none", "analysis", "wcag", "source", "parity", "adoption", "convergence", "resolution"}
Claims == [kind : Kinds, level : Levels, contract : Contracts]

\* The contracts a claim may name; a claim that has none cannot be recorded.
Expected(claim) ==
    CASE claim.kind = "runtime" /\ claim.level = "source_executed" -> {"source"}
      [] claim.kind = "runtime" /\ claim.level = "parity_verified" -> {"wcag", "parity"}
      [] claim.kind \in {"runtime", "adoption"} /\ claim.level = "adopted" -> {"adoption"}
      [] claim.kind \in {"runtime", "convergence"} /\ claim.level = "converged" -> {"convergence"}
      [] claim.kind \in {"adoption", "convergence", "resolution"} -> {claim.kind}
      [] OTHER -> {}

Eligible(claim) == claim.kind = "analysis" \/ claim.contract \in Expected(claim)

-----------------------------------------------------------------------------
(* The validators, as the facts each asks of a receipt.                    *)

Facts == {"basis",    \* the declared basis and the wave's own specification hold
          "clean",    \* every stage passed and no operational error is retained
          "invoked",  \* argv, exit status and digests that agree with the host's
          "compared", \* the destination ran; outputs and failures agree
          "full",     \* no stage was skipped
          "used",     \* three accepted uses with unique inputs
          "approved", \* the owner's approval, bound to a record
          "outcome"}  \* a supported resolution with what that outcome requires

AnalysisProof    == {"basis"}
WcagProof        == {"clean", "invoked", "full"}
RuntimeProof(c)  == {"clean", "invoked"} \cup (IF c = "source" THEN {} ELSE {"compared"})
AdoptionProof    == {"used"}
ConvergenceProof == {"approved"}
ResolutionProof  == {"outcome"}

Proof(contract) ==
    CASE contract = "analysis"             -> AnalysisProof
      [] contract = "wcag"                 -> WcagProof
      [] contract \in {"source", "parity"} -> RuntimeProof(contract)
      [] contract = "adoption"             -> AdoptionProof
      [] contract = "convergence"          -> ConvergenceProof
      [] contract = "resolution"           -> ResolutionProof

\* A receipt of wave w bears its claim.  An analysis receipt is checked against the
\* specification of its own suite and wave, whatever level the claim holds.
Bears(w, claim, doc) ==
    /\ Eligible(claim)
    /\ LET c == IF claim.kind = "analysis" THEN "analysis" ELSE claim.contract
       IN  doc.contract = c /\ Proof(c) \subseteq doc.shows
    /\ claim.kind = "analysis" => doc.wave = w

-----------------------------------------------------------------------------
(* How a run of a wave is shown.                                           *)

Classified(spec) ==
    LET kind == spec.claim.kind
        level == spec.claim.level
    IN  IF spec.status # "complete" THEN "prototype_check"
        ELSE IF kind = "runtime" /\ level = "source_executed" THEN "verified_source_execution"
        ELSE IF kind = "runtime" /\ level = "parity_verified" THEN "verified_runtime_recovery"
        ELSE IF kind = "adoption" \/ level = "adopted" THEN "verified_adoption"
        ELSE IF kind = "convergence" \/ level = "converged" THEN "verified_convergence"
        ELSE CASE kind = "resolution" -> "verified_resolution"
               [] kind = "analysis"   -> "verified_analysis"
               [] OTHER               -> "unintegrated_specification"

\* Mutant: a fast probe speaks for the retained receipt.
ReportedKindAnyDepth(spec, blocked, skipped) ==
    IF blocked THEN "unverifiable_environment" ELSE Classified(spec)

\* The kind a run is reported under: a blocked environment is neither a pass nor a failure,
\* and a probe that skipped a stage does not speak for the retained receipt.
ReportedKind(spec, blocked, skipped) ==
    LET kind == IF blocked THEN "unverifiable_environment" ELSE Classified(spec)
    IN  IF kind = "verified_runtime_recovery" /\ skipped THEN "fast_probe" ELSE kind

Prototype(spec, kind) == spec.claim.level \in {"prototype", "specified"} \/ kind = "prototype_check"

PassedTag(kind, level) ==
    CASE kind = "verified_runtime_recovery" -> "RECOVERED"
      [] kind = "verified_analysis" ->
            (CASE level = "reviewed_historical_analysis" -> "HISTORICAL"
               [] level = "source_inspected"             -> "INSPECTED"
               [] OTHER                                  -> "ANALYSIS")
      [] kind = "verified_source_execution"  -> "SOURCE-RUN"
      [] kind = "verified_adoption"          -> "ADOPTED"
      [] kind = "verified_convergence"       -> "CONVERGED"
      [] kind = "verified_resolution"        -> "RESOLVED"
      [] kind = "fast_probe"                 -> "FAST-PROBE"

\* The kinds that a pass is shown by.
Verified == {"verified_runtime_recovery", "verified_analysis", "verified_source_execution",
             "verified_adoption", "verified_convergence", "verified_resolution", "fast_probe"}

Tag(spec, kind, passed) ==
    IF passed /\ Prototype(spec, kind) THEN "PROTOTYPE"
    ELSE IF passed /\ kind \in Verified THEN PassedTag(kind, spec.claim.level)
    ELSE CASE kind = "unverifiable_environment"   -> "UNVERIFIABLE"
           [] kind = "unintegrated_specification" -> "SPECIFIED"
           [] OTHER                               -> "FAIL"
=============================================================================
