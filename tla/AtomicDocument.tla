--------------------------- MODULE AtomicDocument ---------------------------
(***************************************************************************)
(* What portfolio_suites/txn.py promises its callers, without directories  *)
(* or system calls: one document, replaced in one step by a transaction    *)
(* that has read it, and an honest report.  Outside processes may write    *)
(* the document at any time.                                               *)
(***************************************************************************)
CONSTANTS
    Txns,     \* transactions, each named after the document it would install
    Docs,     \* documents of outside processes
    None,     \* no document
    Unread    \* nothing read yet

VARIABLES
    doc,        \* the document
    read,       \* the document each transaction bases its replacement on
    installed,  \* transactions whose replacement took place
    reported    \* what each caller was told

vars == <<doc, read, installed, reported>>

Init ==
    /\ doc \in Docs \cup {None}
    /\ read = [t \in Txns |-> Unread]
    /\ installed = {}
    /\ reported = [t \in Txns |-> "none"]

\* A read takes no lock: it may return a candidate not yet accepted, or
\* find the name vacant while an occupant is aside.
Read(t) ==
    /\ read[t] = Unread
    /\ \E o \in {doc, None} \cup (Txns \ installed) : read' = [read EXCEPT ![t] = o]
    /\ UNCHANGED <<doc, installed, reported>>

\* The compare-and-swap.
Replace(t) ==
    /\ t \notin installed /\ reported[t] = "none"
    /\ read[t] = doc
    /\ doc' = t
    /\ installed' = installed \cup {t}
    /\ UNCHANGED <<read, reported>>

\* "replaced" only if it was, "conflict" only if it was not.
Tell(t) ==
    /\ reported[t] = "none" /\ read[t] # Unread
    /\ \E r \in {"replaced", "conflict", "uncertain", "error"} :
          /\ r = "replaced" => t \in installed
          /\ r = "conflict" => t \notin installed
          /\ reported' = [reported EXCEPT ![t] = r]
    /\ UNCHANGED <<doc, read, installed>>

OutsideWrite ==
    /\ doc' \in Docs \cup {None}
    /\ UNCHANGED <<read, installed, reported>>

Next == (\E t \in Txns : Read(t) \/ Replace(t) \/ Tell(t)) \/ OutsideWrite

Spec == Init /\ [][Next]_vars

=============================================================================
