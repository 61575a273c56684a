--------------------------- MODULE ApprovalStore ---------------------------
(***************************************************************************)
(* portfolio_suites/approvals.py: single-use operator approvals in a store *)
(* that an issuer outside the repository writes without taking the lock.   *)
(* Consumers run verify_operator_approval under an exclusive flock,        *)
(* auditors verify_consumed_operator_approval under a shared one.          *)
(*                                                                         *)
(* The store is a function from approvals to records; its value stands for *)
(* its digest.  commit_replacement (FileTxn) is here as far as others can  *)
(* see it: between an exchange and its undo the candidate is under the     *)
(* store's name, and where the filesystem has no exchange nothing is.  A   *)
(* call may die there, a system call may fail, and the issuer looks at the *)
(* store and replaces it whenever it likes.  The names that a commit makes *)
(* up are its own.                                                         *)
(***************************************************************************)
EXTENDS Naturals, FiniteSets

CONSTANTS
    Approvals,   \* approval ids
    Payloads,    \* digests of the artifacts that may be approved
    Consumers,   \* calls of verify_operator_approval
    Auditors,    \* calls of verify_consumed_operator_approval
    None,        \* nobody, nothing
    Lifetime,    \* expires_at - issued_at
    MaxTime      \* bound on the clock

\* An approval bound to payload, issued at a time; by is the consumption
\* stamped on it, which consumed, consumed_at and consumed_bindings record.
Records == [payload : Payloads, issued : 0..MaxTime,
            by : Consumers \cup {None}, consumedAt : 0..MaxTime]

Stores == [Approvals -> Records \cup {None}]

ASSUME ConstantsAssumption ==
    /\ Consumers \cap Auditors = {}
    /\ None \notin Approvals \cup Payloads \cup Consumers \cup Auditors \cup Records
    /\ None \notin Approvals \X Payloads /\ None \notin Stores
    /\ Lifetime \in Nat \ {0} /\ MaxTime \in Nat

Callers == Consumers \cup Auditors

VARIABLES
    store,      \* the document under the store's name, None when there is none
    aside,      \* what a commit took from that name and has not put back, or None
    careful,    \* the issuer only overwrites the document it read
    draft,      \* the document the issuer read, None between two issues
    peeked,     \* consumers whose candidate the issuer read before it was undone
    now,        \* the clock
    pc,         \* where each call is
    asks,       \* the approval and payload a call is about
    snapshot,   \* the document a call read
    candidate,  \* the document a consumer is about to commit
    writers,    \* holders of the exclusive flock
    readers,    \* holders of the shared flock
    result      \* what each call told its caller

vars == <<store, aside, careful, draft, peeked, now, pc, asks, snapshot, candidate,
          writers, readers, result>>

Requests == Approvals \X Payloads

TypeOK ==
    /\ {store, aside, draft} \subseteq Stores \cup {None}
    /\ careful \in BOOLEAN
    /\ peeked \subseteq Consumers
    /\ now \in 0..MaxTime
    /\ pc \in [Callers -> {"idle", "waiting", "locked", "read", "validated",
                           "commit", "displaced", "vacated", "recheck", "unlock", "done"}]
    /\ asks \in [Callers -> Requests \cup {None}]
    /\ snapshot \in [Callers -> Stores \cup {None}]
    /\ candidate \in [Callers -> Stores \cup {None}]
    /\ writers \subseteq Consumers
    /\ readers \subseteq Auditors
    /\ result \in [Callers -> {"none", "granted", "refused", "unverified",
                               "confirmed", "died"}]

Init ==
    /\ store = [a \in Approvals |-> None]
    /\ aside = None
    /\ careful \in BOOLEAN
    /\ draft = None
    /\ peeked = {}
    /\ now = 0
    /\ pc = [c \in Callers |-> "idle"]
    /\ asks = [c \in Callers |-> None]
    /\ snapshot = [c \in Callers |-> None]
    /\ candidate = [c \in Callers |-> None]
    /\ writers = {}
    /\ readers = {}
    /\ result = [c \in Callers |-> "none"]

Goto(c, label) == pc' = [pc EXCEPT ![c] = label]

Answer(c, r) == result' = [result EXCEPT ![c] = r] /\ Goto(c, "unlock")

Outsider == <<careful, draft, peeked, now>>
Names    == <<store, aside>>

\* The record the call is about, in the document it read.
Record(c) == snapshot[c][asks[c][1]]

-----------------------------------------------------------------------------
(* Calls. *)

Call(c) ==
    /\ pc[c] = "idle"
    /\ \E request \in Requests : asks' = [asks EXCEPT ![c] = request]
    /\ Goto(c, "waiting")
    /\ UNCHANGED <<Names, snapshot, candidate, writers, readers, result,
                   Outsider>>

LockExclusive(c) ==
    /\ pc[c] = "waiting" /\ c \in Consumers
    /\ writers = {} /\ readers = {}
    /\ writers' = {c}
    /\ Goto(c, "locked")
    /\ UNCHANGED <<Names, asks, snapshot, candidate, readers, result, Outsider>>

LockShared(c) ==
    /\ pc[c] = "waiting" /\ c \in Auditors
    /\ writers = {}
    /\ readers' = readers \cup {c}
    /\ Goto(c, "locked")
    /\ UNCHANGED <<Names, asks, snapshot, candidate, writers, result, Outsider>>

\* _read_store_fd and the search for the one matching record.
ReadStore(c) ==
    /\ pc[c] = "locked"
    /\ \/ /\ store # None /\ store[asks[c][1]] # None
          /\ snapshot' = [snapshot EXCEPT ![c] = store]
          /\ Goto(c, "read") /\ UNCHANGED result
       \/ Answer(c, "refused") /\ UNCHANGED snapshot
    /\ UNCHANGED <<Names, asks, candidate, writers, readers, Outsider>>

Expires(r) == r.issued + Lifetime

\* Mutant of Valid: the consumed flag is not looked at.
ValidReplay(r, payload) ==
    /\ r.payload = payload
    /\ r.issued <= now /\ now < Expires(r)

\* _validated, with its own reading of the clock.
Valid(r, payload) ==
    /\ r.payload = payload
    /\ r.issued <= now /\ now < Expires(r)
    /\ r.by = None

Validate(c) ==
    /\ pc[c] = "read" /\ c \in Consumers
    /\ IF Valid(Record(c), asks[c][2])
       THEN Goto(c, "validated") /\ UNCHANGED result
       ELSE Answer(c, "refused")
    /\ UNCHANGED <<Names, asks, snapshot, candidate, writers, readers, Outsider>>

\* Mutant of Stamp: expires_at is recorded where consumed_at is meant.
StampExpiry(c) ==
    /\ pc[c] = "validated"
    /\ candidate' = [candidate EXCEPT ![c] =
            [snapshot[c] EXCEPT ![asks[c][1]] =
                [@ EXCEPT !.by = c, !.consumedAt = Expires(Record(c))]]]
    /\ Goto(c, "commit")
    /\ UNCHANGED <<Names, asks, snapshot, writers, readers, result, Outsider>>

\* Stamp consumed, consumed_at (a second reading of the clock) and
\* consumed_bindings on the document read, then write the candidate file,
\* which may fail.
Stamp(c) ==
    /\ pc[c] = "validated"
    /\ \/ /\ candidate' = [candidate EXCEPT ![c] =
                [snapshot[c] EXCEPT ![asks[c][1]] =
                    [@ EXCEPT !.by = c, !.consumedAt = now]]]
          /\ Goto(c, "commit") /\ UNCHANGED result
       \/ Answer(c, "refused") /\ UNCHANGED candidate
    /\ UNCHANGED <<Names, asks, snapshot, writers, readers, Outsider>>

\* Mutant of Exchange: what was displaced is not looked at.
ExchangeBlindly(c) ==
    /\ pc[c] = "commit" /\ store # None
    /\ store' = candidate[c] /\ Goto(c, "recheck")
    /\ UNCHANGED <<aside, result, asks, snapshot, candidate, writers, readers, Outsider>>

\* commit_replacement exchanges the candidate with the store and then looks at what it has
\* displaced.  It is accepted when it is the document that was read, and then only to be
\* unlinked; any other, or one that cannot be read, is to be put back.
Exchange(c) ==
    /\ pc[c] = "commit" /\ store # None
    /\ store' = candidate[c]
    /\ \/ store = snapshot[c] /\ aside' = None /\ Goto(c, "recheck")
       \/ aside' = store /\ Goto(c, "displaced")
    /\ UNCHANGED <<result, asks, snapshot, candidate, writers, readers, Outsider>>

\* Mutant of Undo: the conflict is reported before the displaced document is put back.
UndoForgotten(c) ==
    /\ pc[c] = "displaced"
    /\ aside' = None /\ Answer(c, "refused")
    /\ UNCHANGED <<store, asks, snapshot, candidate, writers, readers, Outsider>>

\* A second exchange: what is under the store's name by now goes to the name of the candidate.
Undo(c) ==
    /\ pc[c] = "displaced"
    /\ store' = aside /\ aside' = None /\ Answer(c, "refused")
    /\ UNCHANGED <<asks, snapshot, candidate, writers, readers, Outsider>>

\* The second exchange fails: two renames take the store aside and put the displaced document
\* in its place, and either may fail too.
UndoFails(c) ==
    /\ pc[c] = "displaced"
    /\ store' \in {aside, store, None}
    /\ aside' = IF store' = None THEN aside ELSE None
    /\ Answer(c, "unverified")
    /\ UNCHANGED <<asks, snapshot, candidate, writers, readers, Outsider>>

\* Without exchange, the store is moved to a quarantine name.
MoveAside(c) ==
    /\ pc[c] = "commit" /\ store # None
    /\ store' = None /\ aside' = store /\ Goto(c, "vacated")
    /\ UNCHANGED <<result, asks, snapshot, candidate, writers, readers, Outsider>>

\* It is the document that was read, and the candidate takes the free name.
Install(c) ==
    /\ pc[c] = "vacated" /\ aside = snapshot[c] /\ store = None
    /\ store' = candidate[c] /\ aside' = None /\ Goto(c, "recheck")
    /\ UNCHANGED <<result, asks, snapshot, candidate, writers, readers, Outsider>>

\* It is not, or the name is taken, or a rename fails: what was moved goes back when it can,
\* and stays under its quarantine name when it cannot.
PutBack(c) ==
    /\ pc[c] = "vacated"
    /\ \/ store = None /\ store' = aside /\ aside' = None
       \/ UNCHANGED Names
    /\ Answer(c, "refused")
    /\ UNCHANGED <<asks, snapshot, candidate, writers, readers, Outsider>>

\* The candidate is not ours, the store is not there, or the first rename fails.
CommitFails(c) ==
    /\ pc[c] = "commit"
    /\ Answer(c, "refused")
    /\ UNCHANGED <<Names, asks, snapshot, candidate, writers, readers, Outsider>>

\* The name and the directory are compared with what was committed: another
\* replacement or an I/O error in between leaves the call unverified.
Recheck(c) ==
    /\ pc[c] = "recheck"
    /\ Answer(c, "granted") \/ Answer(c, "unverified")
    /\ UNCHANGED <<Names, asks, snapshot, candidate, writers, readers, Outsider>>

\* Mutant of Confirmed: any spent approval will do.
ConfirmedAnyPayload(r, payload) == r.by # None

\* verify_consumed_operator_approval on the record it found.
Confirmed(r, payload) ==
    /\ r.by # None /\ r.payload = payload
    /\ r.issued <= r.consumedAt /\ r.consumedAt <= Expires(r)

Audit(c) ==
    /\ pc[c] = "read" /\ c \in Auditors
    /\ Answer(c, IF Confirmed(Record(c), asks[c][2])
                 THEN "confirmed" ELSE "refused")
    /\ UNCHANGED <<Names, asks, snapshot, candidate, writers, readers, Outsider>>

\* The lock is released; the documents in memory are gone.
Leave(c) ==
    /\ writers' = writers \ {c} /\ readers' = readers \ {c}
    /\ snapshot' = [snapshot EXCEPT ![c] = None]
    /\ candidate' = [candidate EXCEPT ![c] = None]
    /\ Goto(c, "done")

Unlock(c) ==
    /\ pc[c] = "unlock"
    /\ Leave(c)
    /\ UNCHANGED <<Names, asks, result, Outsider>>

-----------------------------------------------------------------------------
(* The environment. *)

\* The kernel releases the lock of a process that dies; what it moved stays where it is.
Die(c) ==
    /\ pc[c] \notin {"idle", "unlock", "done"}
    /\ result' = [result EXCEPT ![c] = "died"]
    /\ aside' = IF pc[c] = "displaced" THEN None ELSE aside
    /\ Leave(c)
    /\ UNCHANGED <<store, asks, Outsider>>

\* The issuer reads the store, adds an approval to what it read and replaces
\* the store; a careful one starts over when the store has changed.
IssuerRead ==
    /\ draft # store /\ store # None
    /\ draft' = store
    /\ peeked' = peeked \cup {c \in Consumers : pc[c] = "displaced"}
    /\ UNCHANGED <<Names, careful, now, pc, asks, snapshot, candidate, writers,
                   readers, result>>

IssuerWrite ==
    /\ draft # None
    /\ careful => draft = store
    /\ \E a \in Approvals, p \in Payloads :
          /\ draft[a] = None
          /\ store' = [draft EXCEPT ![a] = [payload |-> p, issued |-> now,
                                            by |-> None, consumedAt |-> 0]]
    /\ draft' = None
    /\ UNCHANGED <<aside, careful, peeked, now, pc, asks, snapshot, candidate, writers,
                   readers, result>>

Tick ==
    /\ now < MaxTime
    /\ now' = now + 1
    /\ UNCHANGED <<Names, careful, draft, peeked, pc, asks, snapshot, candidate,
                   writers, readers, result>>

Commit(c) ==
    \/ Exchange(c) \/ Undo(c) \/ UndoFails(c)
    \/ MoveAside(c) \/ Install(c) \/ PutBack(c) \/ CommitFails(c)

Step(c) ==
    \/ Call(c) \/ LockExclusive(c) \/ LockShared(c) \/ ReadStore(c)
    \/ Validate(c) \/ Stamp(c) \/ Commit(c) \/ Recheck(c) \/ Audit(c)
    \/ Unlock(c) \/ Die(c)

Next == (\E c \in Callers : Step(c)) \/ IssuerRead \/ IssuerWrite \/ Tick

Spec == Init /\ [][Next]_vars

-----------------------------------------------------------------------------
(* Properties. *)

\* The document that stands once a commit in flight is undone.
Standing == IF store = None \/ \E c \in Consumers : pc[c] = "displaced" THEN aside ELSE store

\* Consumers whose undone candidate the issuer may write back: it read one, and does not look
\* again before it writes.
Echoes == IF careful THEN {} ELSE peeked

\* "No verified approval means the token is unspent": the consumption of a call that answers
\* with a plain refusal is not in the store, unless an issuer that does not look before it
\* writes has read the candidate of that very call and written it back.
RefusedUnspent ==
    \A c \in Consumers \ Echoes, a \in Approvals :
        result[c] = "refused" /\ store # None /\ store[a] # None => store[a].by # c

\* "Consumed exactly once": while there is a store, a granted approval is on record in it as
\* spent by the call it was granted to, whatever other calls fail or die in their commits, as
\* long as the issuer does not write back a store from before the consumption.
GrantOnRecord ==
    \A c \in Consumers :
        careful /\ result[c] = "granted" /\ store # None =>
            store[asks[c][1]] # None /\ store[asks[c][1]].by = c

\* "So the same authority can never write twice": no approval is granted to two calls.
GrantedOnce ==
    \A c, d \in Consumers :
        c # d /\ result[c] = "granted" /\ result[d] = "granted"
            => asks[c][1] # asks[d][1]

\* A call that dies, or cannot undo, while its candidate is in place.
Torn(c) == pc[c] = "displaced" /\ result'[c] \in {"died", "unverified"}

\* Of the document that stands, no step changes what an approval approves or makes a spent
\* one fresh again; one that is not spent is dropped only when a commit is torn.
NothingUnissued ==
    [][careful => \A a \in Approvals : Standing[a] # None =>
        \/ /\ Standing'[a] # None
           /\ Standing'[a].payload = Standing[a].payload
           /\ Standing[a].by # None => Standing'[a].by = Standing[a].by
        \/ Standing[a].by = None /\ \E c \in Consumers : Torn(c)]_vars

\* An audit confirms only a consumption of that approval for that payload by a call that was
\* not told that nothing was consumed, with the exception that RefusedUnspent has.
AuditSound ==
    \A c \in Auditors : result[c] = "confirmed" =>
        \E d \in Consumers : asks[d] = asks[c] /\ (result[d] # "refused" \/ d \in Echoes)

-----------------------------------------------------------------------------
(* What the callers see, of a store whose issuer is careful. *)

Seen(f) == IF careful THEN f ELSE [x \in DOMAIN f |-> None]

Terms == [a \in Approvals |-> IF Standing[a] = None THEN None ELSE Standing[a].payload]

Spender == [a \in Approvals |-> IF Standing[a] = None THEN None ELSE Standing[a].by]

Single == INSTANCE SingleUse WITH
              terms <- Seen(Terms),
              spender <- Seen(Spender),
              asks <- Seen(asks),
              told <- IF careful THEN result ELSE [c \in Callers |-> "none"]

\* "Consumed exactly once", and every answer true of the moment it is given: as long as the
\* issuer only overwrites the document it read, the calls behave as if each spent its
\* approval in one step or not at all, though a candidate that is undone is seen in between;
\* a call that dies or fails there may take approvals that nobody has spent with it.
SingleUseSpec == Single!Spec

=============================================================================
