----------------------------- MODULE MCFileTxn -----------------------------
(***************************************************************************)
(* Model checking of FileTxn: the surroundings the runs consider.          *)
(***************************************************************************)
EXTENDS FileTxn

\* The surroundings that a run combines, each on filesystems with and
\* without exchange.
Profile(reach, edit, fault, crash, cut) ==
    {[exchange |-> x, reach |-> reach, edits |-> edit, faults |-> fault,
      crashes |-> crash, power |-> cut] : x \in BOOLEAN}

\* An outside writer, I/O errors and crashes; cooperating callers, crashes
\* and power cuts; outside processes that touch every name and edit in place.
Hostile ==
    Profile({"target"}, FALSE, TRUE, TRUE, FALSE)
        \cup Profile({"target"}, FALSE, FALSE, FALSE, FALSE)
        \cup Profile({}, FALSE, FALSE, TRUE, TRUE)
        \cup Profile({}, FALSE, TRUE, TRUE, TRUE)
        \cup Profile({"target", "temp"}, TRUE, FALSE, FALSE, FALSE)

\* Callers that take the lock, and nothing else.
Cooperative == Profile({}, FALSE, FALSE, FALSE, FALSE)

=============================================================================
