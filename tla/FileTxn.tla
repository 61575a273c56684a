------------------------------ MODULE FileTxn ------------------------------
(***************************************************************************)
(* portfolio_suites/txn.py: commit_replacement, the compare-and-swap that  *)
(* every durable document of the control plane is written with.  The       *)
(* module follows it one system call at a time over one directory, for the *)
(* callers that share one sidecar flock, beside a process that does not    *)
(* take the lock.                                                          *)
(*                                                                         *)
(* A document is identified by the object (inode) that holds it: the       *)
(* candidate of transaction t is the object t, the documents of the        *)
(* outside process are the members of Docs.  Random temporary and          *)
(* quarantine names never collide, so each transaction owns one of each;   *)
(* ours_aside and quarantine are the same random name, of which a          *)
(* transaction makes at most one.                                          *)
(***************************************************************************)
EXTENDS Naturals

CONSTANTS
    Txns,        \* transactions: one call of commit_replacement each
    Docs,        \* documents an outside process may put in place
    Initial,     \* the document found at the target at the start
    None,        \* a vacant name
    Unread,      \* no expectation recorded yet
    Absent,      \* expected_absent
    Profiles,    \* the surroundings a behaviour may have, see Surroundings
    MaxEdits     \* in-place edits of one object by an outside editor

Surroundings ==
    [exchange : BOOLEAN,    \* the filesystem implements rename exchange
     reach    : SUBSET {"target", "temp"}, \* names outside processes touch
     edits    : BOOLEAN,    \* an outside editor writes in place
     faults   : BOOLEAN,    \* system calls may fail with an I/O error
     crashes  : BOOLEAN,    \* a process may die between two system calls
     power    : BOOLEAN]    \* the machine may lose power

ASSUME ConstantsAssumption ==
    /\ Txns \cap Docs = {}
    /\ Initial \in Docs
    /\ None \notin Txns \cup Docs
    /\ Unread # Absent /\ Unread \notin Txns \cup Docs \cup {None}
    /\ \A o \in Txns \cup Docs, n \in 0..MaxEdits : <<o, n>> \notin {Unread, Absent}
    /\ Profiles \subseteq Surroundings
    /\ MaxEdits \in Nat

Objects == Txns \cup Docs

VARIABLES
    env,        \* the surroundings of this behaviour
    dir,        \* the directory as running processes see it
    since,      \* the directories a power cut may bring back
    edits,      \* in-place edits each object has received
    seen,       \* what each caller read: expected_digest or expected_absent
    pc,         \* the next system call of each transaction
    holder,     \* the transaction holding the sidecar flock
    outcome,    \* how commit_replacement ended
    recovery,   \* the names the exception gives to the operator
    crashed,    \* transactions whose process died
    placed,     \* outside documents already used
    forsaken,   \* objects the outside process itself overwrote or removed
    editor      \* the object an outside editor has open

vars == <<env, dir, since, edits, seen, pc, holder, outcome, recovery, crashed,
          placed, forsaken, editor>>

Outside == <<placed, forsaken, editor, edits>>

Exchange == env.exchange
Faults == env.faults
PowerCuts == env.power

Directories == [target : Objects \cup {None},
                temp   : [Txns -> Objects \cup {None}],
                quar   : [Txns -> Objects \cup {None}]]

Version(o) == <<o, edits[o]>>

Linked(d, o) == \/ d.target = o
                \/ \E t \in Txns : d.temp[t] = o \/ d.quar[t] = o

Phases == {"idle", "observed", "locked", "written", "checked", "exchanged",
           "matched", "undo", "undoFailed", "restoring", "fallback", "aside",
           "recheck", "install", "restore", "unlinkAside", "sync", "discard",
           "unlinkTemp", "done"}

Init ==
    /\ env \in Profiles
    /\ dir \in {[target |-> o, temp |-> [t \in Txns |-> None],
                 quar |-> [t \in Txns |-> None]] : o \in {Initial, None}}
    /\ since = {dir}
    /\ edits = [o \in Objects |-> 0]
    /\ seen = [t \in Txns |-> Unread]
    /\ pc = [t \in Txns |-> "idle"]
    /\ holder = None
    /\ outcome = [t \in Txns |-> "none"]
    /\ recovery = [t \in Txns |-> {}]
    /\ crashed = {}
    /\ placed = {dir.target} \ {None}
    /\ forsaken = {}
    /\ editor = None

-----------------------------------------------------------------------------
(* Shorthands for the steps of a transaction. *)

Ready(t, phase) == pc[t] = phase /\ t \notin crashed

Goto(t, phase) == pc' = [pc EXCEPT ![t] = phase]

\* A directory change is visible at once; only an fsync of the directory
\* rules out that a power cut brings an older directory back.
SetDir(d) ==
    /\ dir' = d
    /\ since' = IF PowerCuts THEN since \cup {d} ELSE {d}

KeepDir == UNCHANGED <<dir, since>>

Report(t, result, names) ==
    /\ outcome' = [outcome EXCEPT ![t] = result]
    /\ recovery' = [recovery EXCEPT ![t] = names]

NoReport == UNCHANGED <<outcome, recovery>>

\* Mutant of Refuse: the recovery names are left out of the exception.
RefuseUnnamed(t, names) == Report(t, "conflict", {}) /\ Goto(t, "discard")

\* conflict(...) after which the candidate is discarded.
Refuse(t, names) == Report(t, "conflict", names) /\ Goto(t, "discard")

CandidateIsOurs(t) == dir.temp[t] = t

\* An OSError that commit_replacement does not catch: approvals.py then
\* discards the candidate, the ledger writers only close it.
Escape(t) ==
    /\ Report(t, "error", {})
    /\ \E next \in {"discard", "done"} : Goto(t, next)

\* Mutant of Matches: any occupant will do, as in a plain replacing rename.
MatchesAnything(t, o) == o # None

\* _matches_expectation on the object a name holds.
Matches(t, o) == o # None /\ seen[t] = Version(o)

-----------------------------------------------------------------------------
(* The caller: read the document, take the lock, write the candidate.      *)
(* Evidence recording reads before it locks, the other callers after; the  *)
(* order here allows both.                                                 *)

\* Mutant of Observe: a missing document is not told from a present one.
ObserveVacant(t) ==
    /\ Ready(t, "idle")
    /\ seen' = [seen EXCEPT ![t] = <<dir.target, 0>>]
    /\ Goto(t, "observed")
    /\ KeepDir /\ NoReport /\ UNCHANGED <<holder, crashed, Outside>>

Observe(t) ==
    /\ Ready(t, "idle")
    /\ seen' = [seen EXCEPT ![t] = IF dir.target = None
                                   THEN Absent ELSE Version(dir.target)]
    /\ Goto(t, "observed")
    /\ KeepDir /\ NoReport /\ UNCHANGED <<holder, crashed, Outside>>

Lock(t) ==
    /\ Ready(t, "observed")
    /\ holder = None
    /\ holder' = t
    /\ Goto(t, "locked")
    /\ KeepDir /\ NoReport /\ UNCHANGED <<seen, crashed, Outside>>

\* write_temp_payload: a failed write removes the temporary it created.
WriteTemp(t) ==
    /\ Ready(t, "locked")
    /\ \/ /\ SetDir([dir EXCEPT !.temp[t] = t])
          /\ Goto(t, "written")
          /\ NoReport
       \/ /\ Faults
          /\ KeepDir /\ Report(t, "error", {}) /\ Goto(t, "done")
    /\ UNCHANGED <<holder, seen, crashed, Outside>>

-----------------------------------------------------------------------------
(* commit_replacement, the paths both filesystems share. *)

CheckCandidate(t) ==
    /\ Ready(t, "written")
    /\ \/ CandidateIsOurs(t) /\ Goto(t, "checked") /\ NoReport
       \/ ~CandidateIsOurs(t) /\ Refuse(t, {})
    /\ KeepDir /\ UNCHANGED <<holder, seen, crashed, Outside>>

InstallNew(t) ==
    /\ Ready(t, "checked") /\ seen[t] = Absent
    /\ \/ /\ dir.temp[t] # None /\ dir.target = None
          /\ SetDir([dir EXCEPT !.target = dir.temp[t], !.temp[t] = None])
          /\ Goto(t, "sync") /\ NoReport
       \/ /\ dir.temp[t] = None \/ dir.target # None \/ Faults
          /\ KeepDir /\ Refuse(t, {})
    /\ UNCHANGED <<holder, seen, crashed, Outside>>

\* Mutant of Sync: the directory is not synced.
SyncSkipped(t) ==
    /\ Ready(t, "sync")
    /\ KeepDir /\ Report(t, "replaced", {}) /\ Goto(t, "done")
    /\ UNCHANGED <<holder, seen, crashed, Outside>>

\* _finish_commit: only the directory fsync makes the commit durable.
Sync(t) ==
    /\ Ready(t, "sync")
    /\ \/ since' = {dir} /\ Report(t, "replaced", {})
       \/ Faults /\ UNCHANGED since /\ Report(t, "uncertain", {})
    /\ Goto(t, "done")
    /\ UNCHANGED <<dir, holder, seen, crashed, Outside>>

\* discard_temp: two system calls, the identity check and the unlink.
Discard(t) ==
    /\ Ready(t, "discard")
    /\ Goto(t, IF CandidateIsOurs(t) THEN "unlinkTemp" ELSE "done")
    /\ KeepDir /\ NoReport /\ UNCHANGED <<holder, seen, crashed, Outside>>

UnlinkTemp(t) ==
    /\ Ready(t, "unlinkTemp")
    /\ \/ SetDir([dir EXCEPT !.temp[t] = None])
       \/ Faults /\ KeepDir
    /\ Goto(t, "done")
    /\ NoReport /\ UNCHANGED <<holder, seen, crashed, Outside>>

\* Mutant of Release: no finally, the lock is given back on success only.
ReleaseOnSuccess(t) ==
    /\ Ready(t, "done") /\ holder = t /\ outcome[t] = "replaced"
    /\ holder' = None
    /\ KeepDir /\ NoReport /\ UNCHANGED <<pc, seen, crashed, Outside>>

\* The caller leaves its with-block: flock released, descriptor closed.
Release(t) ==
    /\ Ready(t, "done") /\ holder = t
    /\ holder' = None
    /\ KeepDir /\ NoReport /\ UNCHANGED <<pc, seen, crashed, Outside>>

-----------------------------------------------------------------------------
(* The exchange path. *)

ExchangeNames(t) ==
    /\ Ready(t, "checked") /\ seen[t] # Absent
    /\ \/ /\ Exchange /\ dir.temp[t] # None /\ dir.target # None
          /\ SetDir([dir EXCEPT !.target = dir.temp[t], !.temp[t] = dir.target])
          /\ Goto(t, "exchanged") /\ NoReport
       \/ /\ Exchange /\ (dir.temp[t] = None \/ dir.target = None \/ Faults)
          /\ KeepDir /\ Refuse(t, {})
       \/ ~Exchange /\ KeepDir /\ Goto(t, "fallback") /\ NoReport
    /\ UNCHANGED <<holder, seen, crashed, Outside>>

\* The displaced occupant is read under the temporary name; an unreadable
\* one counts as a mismatch.
VerifyDisplaced(t) ==
    /\ Ready(t, "exchanged")
    /\ \/ Matches(t, dir.temp[t]) /\ Goto(t, "matched")
       \/ (~Matches(t, dir.temp[t]) \/ Faults) /\ Goto(t, "undo")
    /\ KeepDir /\ NoReport /\ UNCHANGED <<holder, seen, crashed, Outside>>

UnlinkDisplaced(t) ==
    /\ Ready(t, "matched")
    /\ \/ /\ dir.temp[t] # None
          /\ SetDir([dir EXCEPT !.temp[t] = None])
          /\ Goto(t, "sync") /\ NoReport
       \/ /\ dir.temp[t] = None \/ Faults
          /\ UNCHANGED dir
          /\ since' = {dir} \/ (Faults /\ UNCHANGED since)
          /\ Report(t, "uncertain", {"temp"}) /\ Goto(t, "done")
    /\ UNCHANGED <<holder, seen, crashed, Outside>>

\* Mutant of UndoExchange: the conflict is raised without the undo.
UndoForgotten(t) ==
    /\ Ready(t, "undo")
    /\ KeepDir /\ Refuse(t, {})
    /\ UNCHANGED <<holder, seen, crashed, Outside>>

UndoExchange(t) ==
    /\ Ready(t, "undo")
    /\ \/ /\ dir.temp[t] # None /\ dir.target # None
          /\ SetDir([dir EXCEPT !.target = dir.temp[t], !.temp[t] = dir.target])
          /\ Refuse(t, {})
       \/ /\ dir.temp[t] = None \/ dir.target = None \/ Faults
          /\ KeepDir /\ Goto(t, "undoFailed") /\ NoReport
    /\ UNCHANGED <<holder, seen, crashed, Outside>>

\* The undo failed: the occupant of the target is moved aside ...
AsideOurs(t) ==
    /\ Ready(t, "undoFailed")
    /\ \/ /\ dir.target # None
          /\ SetDir([dir EXCEPT !.target = None, !.quar[t] = dir.target])
          /\ Report(t, outcome[t], {"quar"})
       \/ /\ dir.target = None \/ Faults
          /\ KeepDir /\ Report(t, outcome[t], {"target"})
    /\ Goto(t, "restoring")
    /\ UNCHANGED <<holder, seen, crashed, Outside>>

\* ... and the displaced object put back if the target is free.
RestoreDisplaced(t) ==
    /\ Ready(t, "restoring")
    /\ \/ /\ dir.temp[t] # None /\ dir.target = None
          /\ SetDir([dir EXCEPT !.target = dir.temp[t], !.temp[t] = None])
       \/ (dir.temp[t] = None \/ dir.target # None \/ Faults) /\ KeepDir
    /\ Report(t, "uncertain", recovery[t] \cup {"temp"})
    /\ Goto(t, "done")
    /\ UNCHANGED <<holder, seen, crashed, Outside>>

-----------------------------------------------------------------------------
(* The no-replace quarantine path of filesystems without exchange. *)

MoveAside(t) ==
    /\ Ready(t, "fallback")
    /\ \/ /\ dir.target # None
          /\ SetDir([dir EXCEPT !.target = None, !.quar[t] = dir.target])
          /\ Goto(t, "aside") /\ NoReport
       \/ /\ dir.target = None \/ Faults
          /\ KeepDir /\ Refuse(t, {})
    /\ UNCHANGED <<holder, seen, crashed, Outside>>

VerifyAside(t) ==
    /\ Ready(t, "aside")
    /\ \/ Matches(t, dir.quar[t]) /\ Goto(t, "recheck")
       \/ (~Matches(t, dir.quar[t]) \/ Faults) /\ Goto(t, "restore")
    /\ KeepDir /\ NoReport /\ UNCHANGED <<holder, seen, crashed, Outside>>

RecheckCandidate(t) ==
    /\ Ready(t, "recheck")
    /\ Goto(t, IF CandidateIsOurs(t) THEN "install" ELSE "restore")
    /\ KeepDir /\ NoReport /\ UNCHANGED <<holder, seen, crashed, Outside>>

InstallOverAside(t) ==
    /\ Ready(t, "install")
    /\ \/ /\ dir.temp[t] # None /\ dir.target = None
          /\ SetDir([dir EXCEPT !.target = dir.temp[t], !.temp[t] = None])
          /\ Goto(t, "unlinkAside") /\ NoReport
       \/ /\ dir.temp[t] # None /\ dir.target # None
          /\ KeepDir /\ Goto(t, "restore") /\ NoReport
       \/ (dir.temp[t] = None \/ Faults) /\ KeepDir /\ Escape(t)
    /\ UNCHANGED <<holder, seen, crashed, Outside>>

\* Mutant of Restore: the original is put back by a replacing rename.
RestoreOverwriting(t) ==
    /\ Ready(t, "restore")
    /\ SetDir([dir EXCEPT !.target = dir.quar[t], !.quar[t] = None])
    /\ Refuse(t, {})
    /\ UNCHANGED <<holder, seen, crashed, Outside>>

\* Mutant of Restore: the refusal forgets the quarantined original.
RestoreForgotten(t) ==
    /\ Ready(t, "restore")
    /\ KeepDir /\ Refuse(t, {"quar"})
    /\ UNCHANGED <<holder, seen, crashed, Outside>>

\* Only FileExistsError is caught here: any other failure escapes with the
\* original still under its quarantine name.
Restore(t) ==
    /\ Ready(t, "restore")
    /\ \/ /\ dir.target = None
          /\ SetDir([dir EXCEPT !.target = dir.quar[t], !.quar[t] = None])
          /\ Refuse(t, {})
       \/ dir.target # None /\ KeepDir /\ Refuse(t, {"quar"})
       \/ Faults /\ KeepDir /\ Escape(t)
    /\ UNCHANGED <<holder, seen, crashed, Outside>>

UnlinkAside(t) ==
    /\ Ready(t, "unlinkAside")
    /\ \/ /\ SetDir([dir EXCEPT !.quar[t] = None])
          /\ Goto(t, "sync") /\ NoReport
       \/ /\ Faults
          /\ UNCHANGED dir
          /\ since' = {dir} \/ UNCHANGED since
          /\ Report(t, "uncertain", {"quar"}) /\ Goto(t, "discard")
    /\ UNCHANGED <<holder, seen, crashed, Outside>>

-----------------------------------------------------------------------------
(* The environment. *)

Inside == <<seen, pc, holder, outcome, recovery, crashed>>

\* A process that ignores the lock: an atomic replace or create ...
OutsidePut(o) ==
    /\ "target" \in env.reach /\ o \notin placed \cup {Initial}
    /\ SetDir([dir EXCEPT !.target = o])
    /\ placed' = placed \cup {o}
    /\ forsaken' = forsaken \cup ({dir.target} \ {None})
    /\ UNCHANGED <<Inside, editor, edits>>

\* ... or an unlink of the target ...
OutsideRemove ==
    /\ "target" \in env.reach /\ dir.target # None
    /\ SetDir([dir EXCEPT !.target = None])
    /\ forsaken' = forsaken \cup {dir.target}
    /\ UNCHANGED <<Inside, placed, editor, edits>>

\* ... or one that lands on a temporary name, such as a sweeper of scratch
\* files or another object renamed over it.
OutsideTemp(t) ==
    /\ "temp" \in env.reach /\ dir.temp[t] # None
    /\ \E o \in (Docs \ placed) \cup {None} :
          /\ SetDir([dir EXCEPT !.temp[t] = o])
          /\ placed' = placed \cup ({o} \ {None})
    /\ forsaken' = forsaken \cup {dir.temp[t]}
    /\ UNCHANGED <<Inside, editor, edits>>

\* An editor that opened the document before the commit writes through its
\* descriptor, wherever the object is linked by then.
EditorOpen ==
    /\ env.edits /\ editor = None /\ dir.target # None
    /\ editor' = dir.target
    /\ KeepDir /\ UNCHANGED <<Inside, placed, forsaken, edits>>

EditorWrite ==
    /\ editor # None /\ edits[editor] < MaxEdits
    /\ edits' = [edits EXCEPT ![editor] = @ + 1]
    /\ KeepDir /\ UNCHANGED <<Inside, placed, forsaken, editor>>

\* The kernel drops the flock of a process that dies.
Crash(t) ==
    /\ env.crashes /\ t \notin crashed /\ pc[t] \notin {"idle", "done"}
    /\ crashed' = crashed \cup {t}
    /\ holder' = IF holder = t THEN None ELSE holder
    /\ KeepDir /\ NoReport /\ UNCHANGED <<seen, pc, Outside>>

\* Every running process dies and the directory falls back to one written
\* since the last fsync.  An outside document that was never synced may go.
PowerCut ==
    /\ PowerCuts
    /\ \E d \in since :
          /\ dir' = d
          /\ since' = {d}
          /\ forsaken' = forsaken \cup {o \in Docs \ {Initial} : ~Linked(d, o)}
    /\ crashed' = crashed \cup {t \in Txns : pc[t] \notin {"idle", "done"}}
    /\ holder' = None
    /\ editor' = None
    /\ NoReport /\ UNCHANGED <<seen, pc, placed, edits>>

Commit(t) ==
    /\ UNCHANGED env
    /\ \/ Observe(t) \/ Lock(t) \/ WriteTemp(t) \/ CheckCandidate(t)
       \/ InstallNew(t) \/ Sync(t) \/ Discard(t) \/ UnlinkTemp(t) \/ Release(t)
       \/ ExchangeNames(t) \/ VerifyDisplaced(t) \/ UnlinkDisplaced(t)
       \/ UndoExchange(t) \/ AsideOurs(t) \/ RestoreDisplaced(t)
       \/ MoveAside(t) \/ VerifyAside(t) \/ RecheckCandidate(t)
       \/ InstallOverAside(t) \/ Restore(t) \/ UnlinkAside(t)

Environment ==
    /\ UNCHANGED env
    /\ \/ \E o \in Docs : OutsidePut(o)
       \/ OutsideRemove
       \/ \E t \in Txns : OutsideTemp(t)
       \/ EditorOpen \/ EditorWrite
       \/ \E t \in Txns : Crash(t)
       \/ PowerCut

Next == (\E t \in Txns : Commit(t)) \/ Environment

\* A call that has begun waits for nothing but the flock, which is granted
\* once it is free; nothing obliges a caller to begin.
Fairness == \A t \in Txns : WF_vars(pc[t] # "idle" /\ Commit(t))

Spec == Init /\ [][Next]_vars /\ Fairness

-----------------------------------------------------------------------------
(* Properties. *)

\* The types of the state.
TypeOK ==
    /\ env \in Profiles
    /\ dir \in Directories
    /\ since \subseteq Directories
    /\ edits \in [Objects -> 0..MaxEdits]
    /\ seen \in [Txns -> (Objects \X (0..MaxEdits)) \cup {Unread, Absent}]
    /\ pc \in [Txns -> Phases]
    /\ holder \in Txns \cup {None}
    /\ outcome \in [Txns -> {"none", "replaced", "conflict", "uncertain", "error"}]
    /\ recovery \in [Txns -> SUBSET {"target", "temp", "quar"}]
    /\ crashed \subseteq Txns
    /\ placed \subseteq Docs
    /\ forsaken \subseteq Objects
    /\ editor \in Objects \cup {None}

\* A document version that a transaction read and then replaced: from the
\* directory fsync on, the transaction owns what became of it.
Superseded(o) ==
    \E u \in Txns : /\ seen[u] = Version(o)
                   /\ \/ pc[u] = "sync"
                      \/ outcome[u] \in {"replaced", "uncertain"}

\* Documents somebody put in place: outside ones and reported commits.
Owed == placed \cup {t \in Txns : outcome[t] = "replaced"}

\* Outside processes keep off the temporary names and replace whole files.
WholeFilesOnly == "temp" \notin env.reach /\ ~env.edits

\* "An occupant that does not match is never destroyed": every document in
\* force at some time is still reachable by a name, or was replaced by a
\* transaction that had read exactly that version, or was removed by the
\* outside process, across conflicts, failed undos, crashes and both paths.
Preserved ==
    WholeFilesOnly =>
        \A o \in Owed : Linked(dir, o) \/ o \in forsaken \/ Superseded(o)

\* Nothing vacates the target for longer than a call: no outside process, no
\* failed system call, no death of a caller that has the document aside.
NeverVacated ==
    env.reach = {} /\ ~Faults /\ (Exchange \/ ~(env.crashes \/ PowerCuts))

\* The compare-and-swap contract between callers: two commits that read the
\* same document are never both reported as done, whatever else happens; nor
\* are two creations, where the first document cannot have been taken away.
NoLostUpdate ==
    \A t, u \in Txns :
        /\ t # u /\ outcome[t] = "replaced" /\ outcome[u] = "replaced"
        /\ seen[t] # Absent \/ NeverVacated
        => seen[t] # seen[u]

\* "OccupantConflict means nothing was replaced": short of a power cut, a
\* refused candidate never is the document again.
RefusedNotInstalled ==
    \A t \in Txns : outcome[t] = "conflict" /\ ~PowerCuts => dir.target # t

\* "A returning call means the new document is durable": no power cut after
\* it brings the superseded document back or loses the new one.
Durable ==
    \A t \in Txns : outcome[t] = "replaced" /\ WholeFilesOnly =>
        \A d \in since :
            /\ Linked(d, t) \/ t \in forsaken \/ Superseded(t)
            /\ \A o \in Objects : seen[t] = Version(o) => ~Linked(d, o)

\* Any object a finished call displaced is named in recovery_paths.
DisplacedNamed ==
    \A t \in Txns : pc[t] = "done" =>
        /\ dir.temp[t] \notin {None, t} => "temp" \in recovery[t]
        /\ dir.quar[t] \notin {None, t} => "quar" \in recovery[t]

\* On the quarantine path it is, whatever an outside writer does to the
\* contested name, as long as no call fails and the machine stays up.
QuarantineNamed ==
    WholeFilesOnly /\ ~Exchange /\ ~Faults /\ ~PowerCuts => DisplacedNamed

\* "The no-replace quarantine protocol briefly vacates the target name": a
\* document moved aside is put back or replaced.
BrieflyVacant ==
    \A t \in Txns : (dir.quar[t] # None /\ dir.target = None)
                      ~> (dir.target # None)

\* Every call that began ends and gives the lock back, whatever fails and
\* whoever dies holding it.
EveryCallEnds ==
    \A t \in Txns : pc[t] = "observed"
                      ~> (t \in crashed \/ (pc[t] = "done" /\ holder # t))

-----------------------------------------------------------------------------
(* What callers that keep to the lock may rely on.                         *)

\* Nothing but these calls touches the directory, and none of them fails.
Orderly ==
    env.reach = {} /\ ~env.edits /\ ~Faults /\ ~env.crashes /\ ~PowerCuts

\* A displaced occupant that does not match is about to be put back: the
\* document is still that occupant.  On the quarantine path the document is
\* the one moved aside while the name is vacant.
PendingUndo(t) ==
    pc[t] \in {"exchanged", "undo"} /\ ~Matches(t, dir.temp[t])

MovedAside(t) ==
    /\ dir.target = None /\ dir.quar[t] # None
    /\ pc[t] \in {"aside", "recheck", "install", "restore"}

Document ==
    IF \E t \in Txns : PendingUndo(t)
    THEN dir.temp[CHOOSE t \in Txns : PendingUndo(t)]
    ELSE IF \E t \in Txns : MovedAside(t)
    THEN dir.quar[CHOOSE t \in Txns : MovedAside(t)]
    ELSE dir.target

\* The object of an expectation.
ReadDocument(t) ==
    CASE seen[t] = Unread -> Unread
      [] seen[t] = Absent -> None
      [] OTHER -> seen[t][1]

Installed ==
    {t \in Txns : \/ pc[t] \in {"matched", "unlinkAside", "sync"}
                  \/ pc[t] = "exchanged" /\ Matches(t, dir.temp[t])
                  \/ outcome[t] \in {"replaced", "uncertain"}}

Atomic == INSTANCE AtomicDocument WITH
              doc <- Document,
              read <- [t \in Txns |-> ReadDocument(t)],
              installed <- Installed,
              reported <- outcome

\* Seen through that mapping, commit_replacement is one atomic
\* compare-and-swap with an honest report.
AtomicSpec == Atomic!Spec

=============================================================================
