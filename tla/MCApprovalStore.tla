-------------------------- MODULE MCApprovalStore --------------------------
(***************************************************************************)
(* Model checking of ApprovalStore.  Consumers, payloads and approvals     *)
(* differ only in name.                                                    *)
(***************************************************************************)
EXTENDS ApprovalStore, TLC

ApprovalSymmetry ==
    Permutations(Consumers) \cup Permutations(Payloads) \cup Permutations(Approvals)

=============================================================================
