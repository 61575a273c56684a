-------------------------- MODULE MCOperatorLedger --------------------------
(***************************************************************************)
(* Model checking of OperatorLedger.  Sessions and locations differ only   *)
(* in name, and so do projects that are enrolled or not alike.             *)
(***************************************************************************)
EXTENDS OperatorLedger, TLC

LedgerSymmetry ==
    Permutations(Sessions) \cup Permutations(Enrolled) \cup
    Permutations(Locations)

=============================================================================
