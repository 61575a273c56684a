--------------------------- MODULE OperatorLedger ---------------------------
(***************************************************************************)
(* The operator catalog on portfolio/project-ledger.json: the calls that   *)
(* rewrite it under one sidecar flock (catalog.py update_project,          *)
(* project_registration.py connect_project, operator_state.py manage_state *)
(* and registry.py fingerprint_baselines), the web sessions that read it   *)
(* without the lock, and hand edits of what the operator fields leave out. *)
(*                                                                         *)
(* The ledger's value stands for its digest.  commit_replacement (FileTxn) *)
(* is here as far as others can see it: between an exchange and its undo   *)
(* the candidate is under the ledger's name, and where the filesystem has  *)
(* no exchange nothing is.  A call may die there and a system call may     *)
(* fail.                                                                   *)
(***************************************************************************)
EXTENDS Naturals, FiniteSets, Sequences, Functions

CONSTANTS
    Projects,     \* canonical identities
    Enrolled,     \* the projects of the first ledger
    Locations,    \* canonical project paths
    Texts,        \* values of the operator's text fields
    Sessions,     \* web sessions and command lines, one call at a time each
    None,         \* null, an absent row, nobody
    NowLimit,     \* NOW_LIMIT
    MaxRevision,  \* bound on the revisions of one row
    MaxAuthored,  \* bound on the edits of what the operator does not own
    MaxBackups    \* bound on the backups kept

ASSUME ConstantsAssumption ==
    /\ Enrolled \subseteq Projects /\ IsFiniteSet(Projects)
    /\ None \notin Projects \cup Texts \cup Sessions
    /\ NowLimit \in Nat \ {0}
    /\ MaxRevision \in Nat /\ MaxAuthored \in Nat /\ MaxBackups \in Nat

Attention == {"now", "waiting", None}

\* EDITABLE: one text stands for next_action, waiting_trigger and the other
\* free fields, order 0 for null.
Fields == [attention : Attention, order : 0..NowLimit, text : Texts \cup {None}]

\* authored counts the changes of everything else on the row: dispositions,
\* provenance, the source_snapshot baseline.
Rows == [op : Fields, revision : 0..MaxRevision, location : Locations,
         authored : 0..MaxAuthored]

Ledgers == [Projects -> Rows \cup {None}]

ASSUME NullAssumption ==
    /\ None \notin {"now", "waiting"}
    /\ None \notin [op : Fields, revision : Nat, location : Locations, authored : Nat]
    /\ None \notin Ledgers

VARIABLES
    ledger,     \* project-ledger.json, None when there is none
    aside,      \* what a commit took from that name and has not put back, or None
    stage,      \* how far the holder's commit has come: "exchanged" when it is to be undone
    backups,    \* return-point backups, oldest first
    holder,     \* the session holding the sidecar flock
    pc,         \* where each call is
    draft,      \* the record a session loaded, whose revision its save expects
    snapshot,   \* the ledger a call read under the lock
    candidate   \* the ledger it is about to commit

vars == <<ledger, aside, stage, backups, holder, pc, draft, snapshot, candidate>>

Names == <<ledger, aside, stage>>

\* The document that stands once a commit in flight is undone.
Standing == IF ledger = None \/ stage = "exchanged" THEN aside ELSE ledger

Known(doc) == {p \in Projects : doc[p] # None}

Now(doc) == {p \in Known(doc) : doc[p].op.attention = "now"}

Fresh == [attention |-> None, order |-> 0, text |-> None]

Connected(location) ==
    [op |-> Fresh, revision |-> 0, location |-> location, authored |-> 0]

Init ==
    /\ \E home \in Injection(Enrolled, Locations) :
          ledger = [p \in Projects |->
                      IF p \in Enrolled THEN Connected(home[p]) ELSE None]
    /\ aside = None
    /\ stage = "none"
    /\ backups = <<>>
    /\ holder = None
    /\ pc = [s \in Sessions |-> "idle"]
    /\ draft = [s \in Sessions |-> None]
    /\ snapshot = [s \in Sessions |-> None]
    /\ candidate = [s \in Sessions |-> None]

\* Within the bound, which the rows share.
CanAuthor(doc) == \A q \in Known(doc) : doc[q].authored < MaxAuthored

Authored(doc, p) == [doc EXCEPT ![p].authored = @ + 1]

Goto(s, label) == pc' = [pc EXCEPT ![s] = label]

\* The candidate is written beside the ledger, which is read once.
Prepare(s, doc, label) ==
    /\ snapshot' = [snapshot EXCEPT ![s] = ledger]
    /\ candidate' = [candidate EXCEPT ![s] = doc]
    /\ Goto(s, label)
    /\ UNCHANGED <<Names, holder, draft>>

\* The call returns or its process dies: the lock goes, and what was held in
\* memory.  A browser that keeps its draft is a session that loaded the
\* record then and has yet to call.
Done(s) ==
    /\ holder' = None /\ stage' = "none"
    /\ Goto(s, "idle")
    /\ draft' = [draft EXCEPT ![s] = None]
    /\ snapshot' = [snapshot EXCEPT ![s] = None]
    /\ candidate' = [candidate EXCEPT ![s] = None]

Committing == {"updating", "connecting", "restoring", "recording"}

\* validate_catalog.
Valid(doc) ==
    /\ \A p, q \in Known(doc) : p # q =>
          /\ doc[p].location # doc[q].location
          /\ p \in Now(doc) /\ q \in Now(doc) => doc[p].op.order # doc[q].op.order
    /\ \A p \in Known(doc) :
          /\ IF p \in Now(doc) THEN doc[p].op.order \in 1..NowLimit
                               ELSE doc[p].op.order = 0
          /\ doc[p].op.attention = "waiting" => doc[p].op.text # None

-----------------------------------------------------------------------------
(* Sessions. *)

\* A web page or command reads the ledger without the lock; what it finds may be a
\* candidate that is about to be undone.
Load(s) ==
    /\ pc[s] = "idle" /\ draft[s] = None /\ ledger # None
    /\ \E p \in Known(ledger) :
          draft' = [draft EXCEPT ![s] = [project |-> p, op |-> ledger[p].op,
                                         revision |-> ledger[p].revision,
                                         settled |-> stage # "exchanged"]]
    /\ UNCHANGED <<Names, backups, holder, pc, snapshot, candidate>>

Lock(s) ==
    /\ pc[s] = "idle" /\ holder = None
    /\ holder' = s
    /\ Goto(s, "locked")
    /\ UNCHANGED <<Names, backups, draft, snapshot, candidate>>

\* The call reads the ledger.  A session that has loaded a record makes an update of it, or
\* gives up.
Ready(s) == pc[s] = "locked" /\ ledger # None

-----------------------------------------------------------------------------
(* update_project. *)

\* Mutant of Bump: only the edited record is given a new revision.
BumpEdited(row, op, edited) ==
    [row EXCEPT !.op = op, !.revision = IF edited THEN @ + 1 ELSE @]

\* Every record that changed gets a new revision.
Bump(row, op, edited) ==
    [row EXCEPT !.op = op, !.revision = IF op # row.op THEN @ + 1 ELSE @]

\* The place asked for, else the record's own, else the last.
Position(doc, p, others, order) ==
    IF order # 0 THEN order
    ELSE IF doc[p].op.order # 0 THEN doc[p].op.order
    ELSE Cardinality(others) + 1

\* The other selected projects close ranks and make room.
Edited(doc, p, attention, order, text) ==
    LET others == Now(doc) \ {p}
        position == Position(doc, p, others, order)
        Rank(q) == Cardinality({r \in others : doc[r].op.order <= doc[q].op.order})
        Moved(q) == IF attention = "now" /\ Rank(q) >= position
                    THEN Rank(q) + 1 ELSE Rank(q)
        New(q) == CASE q = p -> [attention |-> attention, text |-> text,
                          order |-> IF attention = "now" THEN position ELSE 0]
                    [] q \in others -> [doc[q].op EXCEPT !.order = Moved(q)]
                    [] OTHER -> doc[q].op
    IN [q \in Projects |-> IF q \in Known(doc)
                           THEN Bump(doc[q], New(q), q = p) ELSE None]

\* The ceiling and the position; elsewhere an order is refused.
Selectable(doc, p, attention, order) ==
    LET others == Now(doc) \ {p}
    IN IF attention = "now"
       THEN /\ Cardinality(others) < NowLimit
            /\ Position(doc, p, others, order) \in 1..(Cardinality(others) + 1)
       ELSE order = 0

\* Mutant of Expected: the revision the session sent is not compared.
ExpectedUnchecked(s, p) == draft[s] # None => draft[s].project = p

\* expected_revision; the command line need not send one.
Expected(s, p) ==
    draft[s] # None => /\ draft[s].project = p
                       /\ draft[s].revision = ledger[p].revision

Update(s) ==
    /\ Ready(s) /\ Valid(ledger)
    /\ \A q \in Known(ledger) : ledger[q].revision < MaxRevision
    /\ \E p \in Known(ledger), attention \in Attention, order \in 0..NowLimit,
          text \in Texts \cup {None} :
          LET doc == Edited(ledger, p, attention, order, text)
          IN /\ Expected(s, p)
             /\ Selectable(ledger, p, attention, order) /\ Valid(doc)
             /\ Prepare(s, doc, "updating")
    /\ UNCHANGED backups

-----------------------------------------------------------------------------
(* connect_project. *)

\* A new row is appended unless the identity or the location is taken.
Connect(s) ==
    /\ Ready(s) /\ draft[s] = None /\ Valid(ledger)
    /\ \E p \in Projects \ Known(ledger), location \in Locations :
          /\ \A q \in Known(ledger) : ledger[q].location # location
          /\ Prepare(s, [ledger EXCEPT ![p] = Connected(location)], "connecting")
    /\ UNCHANGED backups

-----------------------------------------------------------------------------
(* manage_state. *)

\* _payload: the operator fields of every row, and nothing else; location
\* and the other identity fields are compared on restore.
Payload(doc) ==
    [p \in Known(doc) |-> [location |-> doc[p].location, fields |-> doc[p].op]]

Backup(s) ==
    /\ Ready(s) /\ draft[s] = None /\ Valid(ledger) /\ Len(backups) < MaxBackups
    /\ backups' = Append(backups, Payload(ledger))
    /\ Done(s) /\ UNCHANGED <<ledger, aside>>

\* Mutant of Restorable: rows missing from the backup are left as they are.
RestorableAnyProjects(doc, backup) ==
    \A p \in Known(doc) \cap DOMAIN backup : backup[p].location = doc[p].location

\* Same identities at the same locations.
Restorable(doc, backup) ==
    /\ DOMAIN backup = Known(doc)
    /\ \A p \in Known(doc) : backup[p].location = doc[p].location

\* restore_document.
Restored(doc, backup) ==
    [p \in Projects |->
        IF p \in Known(doc) \cap DOMAIN backup
        THEN Bump(doc[p], backup[p].fields, TRUE) ELSE doc[p]]

\* Mutant of Restore: the undo backup is taken of the restored ledger.
RestoreUndoTooLate(s) ==
    /\ Ready(s) /\ draft[s] = None /\ Valid(ledger)
    /\ Len(backups) < MaxBackups
    /\ \E i \in DOMAIN backups :
          LET doc == Restored(ledger, backups[i])
          IN /\ Restorable(ledger, backups[i])
             /\ \A p \in Known(ledger) : ledger[p].revision < MaxRevision
             /\ doc # ledger /\ Valid(doc)
             /\ backups' = Append(backups, Payload(doc))
             /\ Prepare(s, doc, "restoring")

\* state restore --apply of any backup by name: the undo backup is installed
\* before the commit is tried.  A preview, or a backup that changes nothing,
\* stops before.
Restore(s) ==
    /\ Ready(s) /\ draft[s] = None /\ Valid(ledger)
    /\ Len(backups) < MaxBackups
    /\ \E i \in DOMAIN backups :
          LET doc == Restored(ledger, backups[i])
          IN /\ Restorable(ledger, backups[i])
             /\ \A p \in Known(ledger) : ledger[p].revision < MaxRevision
             /\ doc # ledger /\ Valid(doc)
             /\ backups' = Append(backups, Payload(ledger))
             /\ Prepare(s, doc, "restoring")

-----------------------------------------------------------------------------
(* fingerprint_baselines and the end of every call. *)

\* Baselines are rewritten in the text of the ledger.
Fingerprint(s) ==
    /\ Ready(s) /\ draft[s] = None /\ CanAuthor(ledger)
    /\ \E p \in Known(ledger) : Prepare(s, Authored(ledger, p), "recording")
    /\ UNCHANGED backups

Begun(s) == pc[s] \in Committing /\ stage = "none" /\ ledger # None

\* Mutant of Exchange: what was displaced is not looked at.
ExchangeBlindly(s) ==
    /\ Begun(s)
    /\ ledger' = candidate[s] /\ UNCHANGED aside
    /\ Done(s) /\ UNCHANGED backups

\* commit_replacement exchanges the candidate with the ledger and looks at what it has
\* displaced: the document that was read, which is unlinked, or another, or one that cannot
\* be read, to be put back.
Exchange(s) ==
    /\ Begun(s)
    /\ ledger' = candidate[s]
    /\ \/ ledger = snapshot[s] /\ aside' = None /\ Done(s)
       \/ /\ aside' = ledger /\ stage' = "exchanged"
          /\ UNCHANGED <<holder, pc, draft, snapshot, candidate>>
    /\ UNCHANGED backups

\* A second exchange: what is under the ledger's name by now goes to the name of the candidate.
Undo(s) ==
    /\ pc[s] \in Committing /\ stage = "exchanged"
    /\ ledger' = aside /\ aside' = None
    /\ Done(s) /\ UNCHANGED backups

\* The second exchange fails: two renames take the ledger aside and put the displaced document
\* in its place, and either may fail too.
UndoFails(s) ==
    /\ pc[s] \in Committing /\ stage = "exchanged"
    /\ ledger' \in {aside, ledger, None}
    /\ aside' = IF ledger' = None THEN aside ELSE None
    /\ Done(s) /\ UNCHANGED backups

\* Without exchange, the ledger is moved to a quarantine name.
MoveAside(s) ==
    /\ Begun(s)
    /\ ledger' = None /\ aside' = ledger /\ stage' = "vacated"
    /\ UNCHANGED <<backups, holder, pc, draft, snapshot, candidate>>

\* It is the document that was read, and the candidate takes the free name.
Install(s) ==
    /\ pc[s] \in Committing /\ stage = "vacated" /\ aside = snapshot[s] /\ ledger = None
    /\ ledger' = candidate[s] /\ aside' = None
    /\ Done(s) /\ UNCHANGED backups

\* It is not, or the name is taken, or a rename fails: what was moved goes back when it can.
PutBack(s) ==
    /\ pc[s] \in Committing /\ stage = "vacated" /\ ledger = None
    /\ ledger' = aside /\ aside' = None
    /\ Done(s) /\ UNCHANGED backups

Commit(s) ==
    Exchange(s) \/ Undo(s) \/ UndoFails(s) \/ MoveAside(s) \/ Install(s) \/ PutBack(s)

\* The end of a call that saves nothing or dies.  Before the commit that is a
\* wrong revision, a full Now, a taken identity, a changed identity set, a
\* failed write, a preview, a project already connected; after that, what the
\* call has moved stays where it is, and counts while there is no ledger.
Leave(s) ==
    /\ pc[s] # "idle"
    /\ aside' = IF ledger = None THEN aside ELSE None
    /\ Done(s) /\ UNCHANGED <<ledger, backups>>

\* A hand edit of the fields operators do not own, without the lock, by an
\* editor that has the ledger open while a commit has moved it.
HandEdit ==
    /\ LET shown == IF ledger = None THEN aside ELSE ledger
       IN /\ CanAuthor(shown)
          /\ \E p \in Known(shown) : ledger' = Authored(shown, p)
    /\ aside' = IF stage = "none" THEN None ELSE aside
    /\ UNCHANGED <<stage, backups, holder, pc, draft, snapshot, candidate>>

Next ==
    \/ \E s \in Sessions :
          \/ Load(s) \/ Lock(s)
          \/ Update(s) \/ Connect(s) \/ Backup(s) \/ Restore(s) \/ Fingerprint(s)
          \/ Commit(s) \/ Leave(s)
    \/ HandEdit

Spec == Init /\ [][Next]_vars

-----------------------------------------------------------------------------
(* Properties. *)

\* The types of the state.
TypeOK ==
    /\ {ledger, aside} \subseteq Ledgers \cup {None}
    /\ stage \in {"none", "exchanged", "vacated"}
    /\ \A i \in DOMAIN backups :
          /\ DOMAIN backups[i] \subseteq Projects
          /\ \A p \in DOMAIN backups[i] :
                backups[i][p] \in [location : Locations, fields : Fields]
    /\ Len(backups) <= MaxBackups
    /\ holder \in Sessions \cup {None}
    /\ pc \in [Sessions -> Committing \cup {"idle", "locked"}]
    /\ draft \in [Sessions -> [project : Projects, op : Fields,
                           revision : 0..MaxRevision, settled : BOOLEAN] \cup {None}]
    /\ snapshot \in [Sessions -> Ledgers \cup {None}]
    /\ candidate \in [Sessions -> Ledgers \cup {None}]

\* Whatever the calls, the Now list is an order without gaps: positions 1 to
\* n, at most NOW_LIMIT of them.  validate_catalog accepts gaps, but a gap
\* makes update_project refuse an edit that leaves the position alone.
NowDense ==
    \A doc \in {ledger, aside} \ {None} :
        /\ {doc[p].op.order : p \in Now(doc)} = 1..Cardinality(Now(doc))
        /\ Cardinality(Now(doc)) <= NowLimit

\* A commit that will be accepted when no one comes before it.
Timely(s) == stage # "exchanged" /\ Standing = snapshot[s]

\* The draft a save was made from, when the save is about to be accepted.
Accepted(s) == pc[s] = "updating" /\ draft[s] # None /\ Timely(s)

\* "Record revisions prevent a stale web session from overwriting newer
\* work": an accepted save is based on the fields the record still has.
StaleDraftRefused ==
    \A s \in Sessions :
        Accepted(s) => snapshot[s][draft[s].project].op = draft[s].op

\* So is one whose session did not read a candidate that was to be undone.
SettledDraftCurrent ==
    \A s \in Sessions : Accepted(s) /\ draft[s].settled =>
        snapshot[s][draft[s].project].op = draft[s].op

\* A revision never goes back, and no field changes without a new one: not
\* on the records a selection renumbers, not on restored ones, and not when a
\* call fails or dies in its commit.
RevisionTracksChange ==
    [][\A p \in Known(Standing) :
          /\ Standing'[p].revision >= Standing[p].revision
          /\ Standing'[p].op # Standing[p].op
                => Standing'[p].revision > Standing[p].revision]_vars

\* A call that dies, or cannot undo, while its candidate is in place of a
\* document that it has not read.
Torn == stage = "exchanged" /\ stage' = "none" /\ ledger' = ledger

\* No call drops a project, moves it, or takes back what the operator does
\* not own, whatever was written between its read and its commit; only a torn
\* commit takes back a hand edit, and one that is made of a candidate goes with it.
NothingLost ==
    [][\A p \in Known(Standing) :
          /\ p \in Known(Standing')
          /\ Standing'[p].location = Standing[p].location
          /\ Standing'[p].authored >= Standing[p].authored \/ Torn]_vars

\* "Every applied restore first saves the current return points as an undo
\* backup": once the restore goes in, the latest backup applies to the new
\* ledger and gives every record its fields back.
RestoreUndoable ==
    \A s \in Sessions : pc[s] = "restoring" /\ Timely(s) =>
        LET undo == Restored(candidate[s], backups[Len(backups)])
        IN /\ Restorable(candidate[s], backups[Len(backups)])
           /\ Valid(undo)
           /\ \A p \in Known(snapshot[s]) : undo[p].op = snapshot[s][p].op

=============================================================================
