----------------------------- MODULE SingleUse -----------------------------
(***************************************************************************)
(* What portfolio_suites/approvals.py promises its callers, without        *)
(* documents, locks or a clock: an approval is issued once, for one        *)
(* payload, and spent at most once, in one step, by a call about that      *)
(* approval and payload; and every call is told the truth, except that a   *)
(* call that dies or cannot verify its commit may leave any of the states  *)
(* in which no spent approval is dropped, changed or fresh again.          *)
(***************************************************************************)
CONSTANTS
    Approvals,   \* approval ids
    Payloads,    \* what may be approved
    Consumers,   \* calls that spend an approval
    Auditors,    \* calls that confirm one was spent
    None         \* nobody, nothing

Callers == Consumers \cup Auditors

VARIABLES
    terms,    \* what each approval approves, None while it is not issued
    spender,  \* the call each approval was spent by
    asks,     \* the approval and payload a call is about
    told      \* what each call was told

vars == <<terms, spender, asks, told>>

Init ==
    /\ terms = [a \in Approvals |-> None]
    /\ spender = [a \in Approvals |-> None]
    /\ asks = [c \in Callers |-> None]
    /\ told = [c \in Callers |-> "none"]

Ask(c) ==
    /\ asks[c] = None
    /\ \E request \in Approvals \X Payloads : asks' = [asks EXCEPT ![c] = request]
    /\ UNCHANGED <<terms, spender, told>>

Issue(a) ==
    /\ terms[a] = None
    /\ \E p \in Payloads : terms' = [terms EXCEPT ![a] = p]
    /\ UNCHANGED <<spender, asks, told>>

\* The one step that consumes.
Spend(c) ==
    /\ asks[c] # None /\ told[c] = "none"
    /\ LET a == asks[c][1]
       IN  /\ terms[a] = asks[c][2] /\ spender[a] = None
           /\ spender' = [spender EXCEPT ![a] = c]
    /\ UNCHANGED <<terms, asks, told>>

\* A call that dies, or cannot tell whether it consumed, may have, and may take approvals
\* that are not spent with it, or bring some.
Tear(c) ==
    /\ asks[c] # None /\ told[c] = "none"
    /\ \E r \in {"unverified", "died"} : told' = [told EXCEPT ![c] = r]
    /\ LET a == asks[c][1]
       IN  \/ UNCHANGED spender
          \/ /\ spender[a] = None /\ spender' = [spender EXCEPT ![a] = c]
             /\ terms[a] = asks[c][2] /\ terms'[a] = terms[a]
    /\ terms' \in [Approvals -> Payloads \cup {None}]
    /\ \A a \in Approvals : spender[a] # None => terms'[a] = terms[a]
    /\ UNCHANGED asks

\* "granted" only if this call spent it, "refused" only if it did not,
\* "confirmed" only if some call spent it for that payload.  Of a call that
\* died, or that could not verify its commit, nothing is promised.
Tell(c) ==
    /\ asks[c] # None /\ told[c] = "none"
    /\ LET a == asks[c][1]
       IN  \E r \in {"granted", "refused", "unverified", "confirmed", "died"} :
              /\ r = "granted" => spender[a] = c
              /\ r = "refused" => spender[a] # c
              /\ r = "confirmed" => /\ c \in Auditors
                                    /\ terms[a] = asks[c][2] /\ spender[a] # None
              /\ told' = [told EXCEPT ![c] = r]
    /\ UNCHANGED <<terms, spender, asks>>

Next ==
    \/ \E c \in Callers : Ask(c) \/ Tell(c)
    \/ \E c \in Consumers : Spend(c) \/ Tear(c)
    \/ \E a \in Approvals : Issue(a)

Spec == Init /\ [][Next]_vars

=============================================================================
