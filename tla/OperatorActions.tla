-------------------------- MODULE OperatorActions --------------------------
(***************************************************************************)
(* The operator actions that write (engines/operator_os.py): backups, note *)
(* synchronisation and cache rotation, each behind a single-use approval,  *)
(* with the installs and the identity-checked removals of paths.py that    *)
(* they are made of.  Every step is a system call together with what the   *)
(* code does until the next one.                                           *)
(*                                                                         *)
(* Outsiders replace and remove names at any time, and two runs work on    *)
(* the same directories.  The approval is that of ApprovalStore.           *)
(***************************************************************************)
EXTENDS Naturals, FiniteSets

CONSTANTS
    Runs,         \* executions of an operator action
    TopNotes,     \* notes at the top of the note tree
    NestedNotes,  \* notes in its one subdirectory
    Dirs,         \* directories of outsiders, the cache among them
    Files,        \* files of outsiders
    Same,         \* those with the content that a run would install there
    None,         \* an unoccupied name, nobody
    Root,         \* the directory each action works in
    Scenarios     \* the surroundings a behaviour may have

Notes == TopNotes \cup NestedNotes

Plain == TopNotes \cup {"sub", "cache", "archive", "manifest"}

Names == Plain \cup NestedNotes

\* The subdirectories that runs make, each on the way to a nested note.
Subs == Runs \X {"sub"} \X NestedNotes

\* What a run creates under another name is the pair of the run and the name.
Own == Subs \cup (Runs \X (Names \ {"sub"}))

OwnOf(r) == {o \in Own : o[1] = r}

Objects == Own \cup Dirs \cup Files

Containers == {Root} \cup Dirs \cup Subs

Entries(dir) == IF dir = Root THEN Plain ELSE NestedNotes

ASSUME ConstantsAssumption ==
    /\ IsFiniteSet(Runs) /\ Same \subseteq Files
    /\ None \notin Runs \cup Objects \cup {Root} /\ Root \notin Objects
    /\ TopNotes \cap (NestedNotes \cup {"sub", "cache", "archive", "manifest"}) = {}
    /\ NestedNotes \cap Plain = {}
    /\ Own \cap (Dirs \cup Files) = {} /\ Dirs \cap Files = {}
    /\ \A s \in Scenarios :
          /\ s.kind \in [Runs -> {"sync", "backup", "rotate"}]
          /\ s.touched \subseteq Names
          /\ s.faults \subseteq {"install", "undo"}
          /\ s.deaths \in BOOLEAN
          /\ s.cache \in Dirs

VARIABLES
    env,    \* the scenario
    tree,   \* what the names of every directory hold
    aside,  \* <<r, x, dir, o>>: the o that r set aside from x in dir, under a random name
    whole,  \* the files that are written out
    fresh,  \* what outsiders have yet to put somewhere
    run     \* where each run is and what it remembers

vars == <<env, tree, aside, whole, fresh, run>>

IsDir(o) == o \in Dirs \/ (o \in Own /\ o[2] \in {"sub", "cache"})

\* The name of what a run takes back.
NameOf(o) == IF IsDir(o) THEN "sub" ELSE o[2]

Linked == {o \in Objects : \/ \E d \in Containers : \E x \in Entries(d) : tree[d][x] = o
                           \/ \E e \in aside : e[4] = o}

Empty(dir) == dir \in Containers => /\ \A x \in Entries(dir) : tree[dir][x] = None
                                    /\ \A e \in aside : e[3] # dir

\* The directory a path leads through now, or None: open_confined_directory.
Home(x) ==
    LET sub == tree[Root]["sub"]
    IN IF x \in Plain THEN Root
       ELSE IF sub \in Containers THEN sub ELSE None

At(x) == IF Home(x) = None THEN None ELSE tree[Home(x)][x]

\* Reading the name gives the bytes this action installs there.
Matches(x, o) == o \in Same \/ (o \in whole /\ o[2] = x)

With(dir, x, o) == [tree EXCEPT ![dir][x] = o]

Idle == [pc |-> "begin", todo |-> {}, pend |-> {}, same |-> {}, made |-> {},
         silent |-> {}, minted |-> FALSE, base |-> None, held |-> None, cur |-> None,
         target |-> None, found |-> None, spent |-> FALSE, status |-> None, named |-> {}]

Init ==
    /\ env \in Scenarios
    /\ tree = [d \in Containers |-> [x \in Entries(d) |->
                  IF d = Root /\ x = "cache" THEN env.cache ELSE None]]
    /\ aside = {} /\ whole = {}
    /\ fresh = (Dirs \cup Files) \ {env.cache}
    /\ run = [r \in Runs |-> Idle]

Set(r, rec) == run' = [run EXCEPT ![r] = rec]

\* A receipt or an error, naming objects for the operator.
Ended(r, status, objects) ==
    [run[r] EXCEPT !.pc = "done", !.status = status, !.named = @ \cup objects]

\* Mutant of Failed: an error returns straight out.
FailedAtOnce(r, made, silent) == [run[r] EXCEPT !.pc = "done", !.status = "error"]

\* An error after installs: they are taken back first.
Failed(r, made, silent) ==
    [run[r] EXCEPT !.pc = IF made = {} THEN "done" ELSE "undo", !.made = made,
                   !.silent = silent, !.status = "error"]

-----------------------------------------------------------------------------
(* The checkpoint that every action goes through. *)

\* Parameters, confinement and limits are checked, and a dry run ends, before
\* anything is written.
Refuse(r) ==
    /\ run[r].pc = "begin"
    /\ Set(r, Ended(r, "error", {}))
    /\ UNCHANGED <<env, tree, aside, whole, fresh>>

\* Mutant of NeedsApproval: files found unchanged need no approval either.
NeedsApprovalMore(pend, same) == pend # {} /\ same = {}

\* "Nothing to install is nothing to authorize."
NeedsApproval(pend, same) == pend # {}

AfterApproval == [sync |-> "install", backup |-> "archive", rotate |-> "reopen"]

\* verify_operator_approval: verified, or refused or uncertain.
Approve(r) ==
    /\ run[r].pc = "approve"
    /\ \/ Set(r, [run[r] EXCEPT !.pc = AfterApproval[env.kind[r]], !.spent = TRUE])
       \/ Set(r, Ended(r, "unapproved", {}))
    /\ UNCHANGED <<env, tree, aside, whole, fresh>>

-----------------------------------------------------------------------------
(* install_new_file, _install_confined_bytes and their callers. *)

BeginSync(r) ==
    /\ run[r].pc = "begin" /\ env.kind[r] = "sync"
    /\ Set(r, [run[r] EXCEPT !.pc = "survey", !.todo = Notes])
    /\ UNCHANGED <<env, tree, aside, whole, fresh>>

\* A destination is absent, unchanged, or a conflict.
Survey(r, x) ==
    /\ run[r].pc = "survey" /\ x \in run[r].todo
    /\ Set(r, IF At(x) = None THEN [run[r] EXCEPT !.todo = @ \ {x}, !.pend = @ \cup {x}]
              ELSE IF Matches(x, At(x))
              THEN [run[r] EXCEPT !.todo = @ \ {x}, !.same = @ \cup {x}]
              ELSE Ended(r, "error", {}))
    /\ UNCHANGED <<env, tree, aside, whole, fresh>>

Surveyed(r) ==
    /\ run[r].pc = "survey" /\ run[r].todo = {}
    /\ Set(r, [run[r] EXCEPT
                  !.pc = IF NeedsApproval(run[r].pend, run[r].same) THEN "approve" ELSE "install",
                  !.todo = run[r].same])
    /\ UNCHANGED <<env, tree, aside, whole, fresh>>

\* The subdirectory is made unless it is there; it is opened in another call.
MakeSub(r, x) ==
    /\ run[r].pc = "install" /\ x \in run[r].pend \cap NestedNotes
    /\ LET vacant == tree[Root]["sub"] = None
       IN /\ tree' = IF vacant THEN With(Root, "sub", <<r, "sub", x>>) ELSE tree
          /\ Set(r, [run[r] EXCEPT !.pc = "open", !.cur = x, !.minted = vacant])
    /\ UNCHANGED <<env, aside, whole, fresh>>

\* Its identity is taken from the descriptor the walk goes on through.
OpenSub(r) ==
    /\ run[r].pc = "open"
    /\ LET sub == tree[Root]["sub"]
       IN Set(r, IF sub \in Containers
                 THEN [run[r] EXCEPT !.pc = "create", !.held = sub,
                         !.base = IF run[r].minted THEN sub ELSE @]
                 ELSE Failed(r, run[r].made, {}))
    /\ UNCHANGED <<env, tree, aside, whole, fresh>>

StartTop(r, x) ==
    /\ run[r].pc = "install" /\ x \in run[r].pend \cap TopNotes
    /\ Set(r, [run[r] EXCEPT !.pc = "create", !.cur = x, !.held = Root])
    /\ UNCHANGED <<env, tree, aside, whole, fresh>>

\* The directory this call made, which its own undo removes without a report.
Minted(r) == IF run[r].minted THEN {run[r].base} ELSE {}

\* O_EXCL, in a directory that still exists.
Creatable(dir, x) == (dir = Root \/ dir \in Linked) /\ tree[dir][x] = None

Create(r) ==
    LET x == run[r].cur
    IN /\ run[r].pc = "create"
       /\ \/ /\ Creatable(run[r].held, x)
             /\ tree' = With(run[r].held, x, <<r, x>>)
             /\ Set(r, [run[r] EXCEPT !.pc = "write"])
          \/ /\ ~Creatable(run[r].held, x) \/ "install" \in env.faults
             /\ Set(r, Failed(r, run[r].made \cup Minted(r), Minted(r)))
             /\ UNCHANGED tree
    /\ UNCHANGED <<env, aside, whole, fresh>>

\* Written and synced, or undone with what this call made.
Write(r) ==
    LET x == run[r].cur
        made == {<<r, x>>} \cup Minted(r)
    IN /\ run[r].pc = "write"
       /\ \/ /\ whole' = whole \cup {<<r, x>>}
             /\ Set(r, [run[r] EXCEPT !.pc = "install", !.pend = @ \ {x},
                           !.made = @ \cup made, !.minted = FALSE])
          \/ /\ "install" \in env.faults
             /\ Set(r, Failed(r, run[r].made \cup made, made))
             /\ UNCHANGED whole
    /\ UNCHANGED <<env, tree, aside, fresh>>

\* What was found unchanged before the approval is read again.
Recheck(r, x) ==
    /\ run[r].pc = "install" /\ run[r].pend = {} /\ x \in run[r].todo
    /\ Set(r, IF Matches(x, At(x)) THEN [run[r] EXCEPT !.todo = @ \ {x}]
              ELSE Failed(r, run[r].made, {}))
    /\ UNCHANGED <<env, tree, aside, whole, fresh>>

Synced(r) ==
    /\ run[r].pc = "install" /\ run[r].pend = {} /\ run[r].todo = {}
    /\ Set(r, Ended(r, "success", {o \in run[r].made : ~IsDir(o)}))
    /\ UNCHANGED <<env, tree, aside, whole, fresh>>

BeginBackup(r) ==
    /\ run[r].pc = "begin" /\ env.kind[r] = "backup"
    /\ Set(r, [run[r] EXCEPT !.pc = "approve"])
    /\ UNCHANGED <<env, tree, aside, whole, fresh>>

\* Content addressing: what is there already is used if it has the content.
Existing(r, x, next) ==
    /\ run[r].pc = x
    /\ Set(r, IF At(x) = None THEN [run[r] EXCEPT !.pc = "link", !.cur = x]
              ELSE IF Matches(x, At(x)) THEN next ELSE Failed(r, run[r].made, {}))
    /\ UNCHANGED <<env, tree, aside, whole, fresh>>

\* The success receipt of a backup names both files.
BackedUp(r) == Ended(r, "success", {})

Archive(r) == Existing(r, "archive", [run[r] EXCEPT !.pc = "manifest"])

Manifest(r) == Existing(r, "manifest", BackedUp(r))

\* A finished temporary takes the name if nobody has it; a sync that fails
\* after that takes it back.
Link(r) ==
    LET x == run[r].cur
    IN /\ run[r].pc = "link"
       /\ \/ /\ At(x) = None
             /\ tree' = With(Root, x, <<r, x>>)
             /\ whole' = whole \cup {<<r, x>>}
             /\ \/ Set(r, IF x = "archive"
                          THEN [run[r] EXCEPT !.pc = "manifest", !.made = {<<r, x>>}]
                          ELSE BackedUp(r))
                \/ /\ "install" \in env.faults
                   /\ Set(r, Failed(r, run[r].made \cup {<<r, x>>}, {}))
          \/ /\ At(x) # None \/ "install" \in env.faults
             /\ Set(r, Failed(r, run[r].made, {}))
             /\ UNCHANGED <<tree, whole>>
    /\ UNCHANGED <<env, aside, fresh>>

-----------------------------------------------------------------------------
(* remove_fd_if_same: set aside, look, remove or put back. *)

\* A caller's rollback walks to the directory again; an install that undoes
\* itself still holds it open.
UndoDir(r, o) == IF NameOf(o) \in Plain THEN Root
                 ELSE IF o \in run[r].silent THEN run[r].held ELSE Home(NameOf(o))

\* Mutant of Reported: no caller looks at the result.
ReportedNothing(r, o, objects) == {}

\* Objects go into the report unless the caller drops the result.
Reported(r, o, objects) == IF o \in run[r].silent THEN {} ELSE objects

\* An install undoes itself before its caller rolls back; files come before
\* directories.
Due(r) == LET own == run[r].made \cap run[r].silent
              due == IF own # {} THEN own ELSE run[r].made
              files == {o \in due : ~IsDir(o)}
          IN IF files = {} THEN due ELSE files

\* The run is done with o, which it made.
TakenBack(r, o, objects) ==
    [run[r] EXCEPT !.made = @ \ {o}, !.pc = IF run[r].made = {o} THEN "done" ELSE "undo",
                   !.target = None, !.found = None, !.named = @ \cup Reported(r, o, objects)]

MoveAside(r, o) ==
    LET dir == UndoDir(r, o)
        x == NameOf(o)
    IN /\ run[r].pc = "undo" /\ o \in Due(r)
       /\ \/ /\ dir # None /\ tree[dir][x] # None
             /\ tree' = With(dir, x, None)
             /\ aside' = aside \cup {<<r, x, dir, tree[dir][x]>>}
             /\ Set(r, [run[r] EXCEPT !.pc = "settle", !.held = dir, !.target = o,
                                      !.found = tree[dir][x]])
          \/ /\ (dir # None /\ tree[dir][x] # None) => "undo" \in env.faults
             /\ Set(r, TakenBack(r, o, {o}))
             /\ UNCHANGED <<tree, aside>>
    /\ UNCHANGED <<env, whole, fresh>>

\* Mutant of Removable: whatever answers to the name is removed.
RemovableAny(o, found) == IsDir(found) => Empty(found)

Removable(o, found) == found = o /\ (IsDir(found) => Empty(found))

Settle(r) ==
    LET o == run[r].target
        x == NameOf(o)
        dir == run[r].held
        found == run[r].found
    IN /\ run[r].pc = "settle"
       /\ \/ /\ Removable(o, found)
             /\ aside' = aside \ {<<r, x, dir, found>>}
             /\ Set(r, TakenBack(r, o, {}))
             /\ UNCHANGED tree
          \/ /\ ~Removable(o, found) \/ "undo" \in env.faults
             /\ IF tree[dir][x] = None
                THEN /\ tree' = With(dir, x, found)
                     /\ aside' = aside \ {<<r, x, dir, found>>}
                     /\ Set(r, TakenBack(r, o, {}))
                ELSE /\ Set(r, TakenBack(r, o, {found, o}))
                     /\ UNCHANGED <<tree, aside>>
    /\ UNCHANGED <<env, whole, fresh>>

-----------------------------------------------------------------------------
(* _jarvis_rotate_local_cache. *)

\* The cache is pinned before the approval, which is bound to its identity.
BeginRotation(r) ==
    /\ run[r].pc = "begin" /\ env.kind[r] = "rotate" /\ IsDir(At("cache"))
    /\ Set(r, [run[r] EXCEPT !.pc = "approve", !.base = At("cache")])
    /\ UNCHANGED <<env, tree, aside, whole, fresh>>

Reopen(r) ==
    /\ run[r].pc = "reopen"
    /\ Set(r, IF At("cache") = run[r].base THEN [run[r] EXCEPT !.pc = "rotate"]
              ELSE Ended(r, "error", {}))
    /\ UNCHANGED <<env, tree, aside, whole, fresh>>

\* The no-replace rename acts on the name, whatever it holds by now.
RotateName(r) ==
    /\ run[r].pc = "rotate"
    /\ \/ /\ At("cache") # None
          /\ tree' = With(Root, "cache", None)
          /\ aside' = aside \cup {<<r, "cache", Root, At("cache")>>}
          /\ Set(r, [run[r] EXCEPT !.pc = "verify", !.found = At("cache")])
       \/ /\ At("cache") = None \/ "install" \in env.faults
          /\ Set(r, Ended(r, "error", {}))
          /\ UNCHANGED <<tree, aside>>
    /\ UNCHANGED <<env, whole, fresh>>

\* The rotated name goes back if its own is free, else the error names it.
PutBack(r, rest) ==
    IF At("cache") = None /\ rest
    THEN /\ tree' = With(Root, "cache", run[r].found)
         /\ aside' = aside \ {<<r, "cache", Root, run[r].found>>}
         /\ Set(r, Ended(r, "error", {}))
    ELSE /\ Set(r, Ended(r, "error", {run[r].found}))
         /\ UNCHANGED <<tree, aside>>

\* What was moved is opened as a directory and compared.  If it is none, or the
\* open fails, it is not restored; the error names it as the system's error does.
VerifyRotated(r) ==
    LET o == run[r].found
    IN /\ run[r].pc = "verify"
       /\ \/ /\ o = run[r].base
             /\ Set(r, [run[r] EXCEPT !.pc = "replace"])
             /\ UNCHANGED <<tree, aside>>
          \/ /\ IsDir(o) /\ o # run[r].base
             /\ PutBack(r, TRUE)
          \/ /\ ~IsDir(o) \/ "install" \in env.faults
             /\ Set(r, Ended(r, "error", {o}))
             /\ UNCHANGED <<tree, aside>>
    /\ UNCHANGED <<env, whole, fresh>>

\* An empty directory takes the place of the cache.
ReplaceCache(r) ==
    /\ run[r].pc = "replace"
    /\ \/ /\ At("cache") = None
          /\ tree' = With(Root, "cache", <<r, "cache">>)
          /\ Set(r, Ended(r, "success", {run[r].base}))
          /\ UNCHANGED aside
       \/ /\ At("cache") # None
          /\ Set(r, Ended(r, "error", {run[r].base}))
          /\ UNCHANGED <<tree, aside>>
       \/ /\ "install" \in env.faults
          /\ \E rest \in {TRUE} \cup (IF "undo" \in env.faults THEN {FALSE} ELSE {}) :
                PutBack(r, rest)
    /\ UNCHANGED <<env, whole, fresh>>

-----------------------------------------------------------------------------
(* Outsiders and deaths. *)

Fits(x, o) == CASE x = "cache" -> TRUE
                [] x = "sub" -> o \in Dirs
                [] OTHER -> o \in Files

\* An outsider's object takes a name, or replaces what it holds.
OutsidePut(x, o) ==
    /\ x \in env.touched /\ o \in fresh /\ Fits(x, o) /\ Home(x) # None
    /\ x = "sub" /\ At(x) # None => Empty(At(x))
    /\ tree' = With(Home(x), x, o)
    /\ fresh' = fresh \ {o}
    /\ UNCHANGED <<env, aside, whole, run>>

OutsideRemove(x) ==
    /\ x \in env.touched /\ At(x) # None
    /\ x = "sub" => Empty(At(x))
    /\ tree' = With(Home(x), x, None)
    /\ UNCHANGED <<env, aside, whole, fresh, run>>

Die(r) ==
    /\ env.deaths /\ run[r].pc \notin {"begin", "done", "dead"}
    /\ Set(r, [run[r] EXCEPT !.pc = "dead"])
    /\ UNCHANGED <<env, tree, aside, whole, fresh>>

Step(r) ==
    \/ Refuse(r) \/ Approve(r)
    \/ BeginSync(r) \/ Surveyed(r) \/ OpenSub(r) \/ Create(r) \/ Write(r) \/ Synced(r)
    \/ \E x \in Notes : Survey(r, x) \/ Recheck(r, x)
    \/ \E x \in NestedNotes : MakeSub(r, x)
    \/ \E x \in TopNotes : StartTop(r, x)
    \/ BeginBackup(r) \/ Archive(r) \/ Manifest(r) \/ Link(r)
    \/ \E o \in Own \cup Dirs : MoveAside(r, o)
    \/ Settle(r)
    \/ BeginRotation(r) \/ Reopen(r) \/ RotateName(r) \/ VerifyRotated(r) \/ ReplaceCache(r)

Next ==
    \/ \E r \in Runs : Step(r) \/ Die(r)
    \/ \E x \in Names : OutsideRemove(x) \/ \E o \in Dirs \cup Files : OutsidePut(x, o)

Spec == Init /\ [][Next]_vars

-----------------------------------------------------------------------------
(* Properties. *)

\* The types of the state.
TypeOK ==
    /\ env \in Scenarios
    /\ DOMAIN tree = Containers
    /\ \A d \in Containers : tree[d] \in [Entries(d) -> Objects \cup {None}]
    /\ aside \subseteq Runs \X Names \X Containers \X Objects
    /\ whole \subseteq Own /\ fresh \subseteq Dirs \cup Files
    /\ \A r \in Runs :
          /\ run[r].todo \cup run[r].pend \cup run[r].same \subseteq Notes
          /\ run[r].silent \cup run[r].made \subseteq Own \cup Dirs
          /\ run[r].named \subseteq Objects

\* A step of a run makes nothing unreachable but what that run created, or an
\* empty directory it descended into right after it had made one: not the
\* file of an outsider, not a cache, not what another run installed.
RemovesOnlyOwn ==
    [][\A r \in Runs : run'[r] # run[r] =>
          Linked \ Linked' \subseteq OwnOf(r) \cup {o \in run[r].made : IsDir(o)}]_vars

\* No approval, no change: until its own approval is verified, no step of a
\* run touches a directory.
SpendsFirst ==
    [][\A r \in Runs : run'[r] # run[r] /\ <<tree, aside>>' # <<tree, aside>> => run[r].spent]_vars

\* What a failed run made and neither took back nor reported, under names that
\* no outsider touches; a directory that holds notes of others may stay.
\* (Where outsiders do, two rollbacks of one name may put back each other's
\* files.)
LeftBehind(r, names) ==
    {x \in names \ (env.touched \cup {"sub"}) :
        At(x) = <<r, x>> /\ <<r, x>> \notin run[r].named}

\* A run that ends in an error leaves nothing it made behind, unless removing
\* fails.  Of three runs that share the subdirectory, one that takes it aside
\* hides its notes from the others' rollbacks, so notes in it are claimed for
\* two runs only.
FailureLeavesNothing ==
    \A r \in Runs : run[r].pc = "done" /\ run[r].status = "error" /\ "undo" \notin env.faults =>
        /\ LeftBehind(r, Plain) = {}
        /\ Cardinality(Runs) <= 2 => LeftBehind(r, NestedNotes) = {}

\* What an ended run leaves under a random name, it names for the operator, where no install
\* that undoes itself meets another's object.
\* (Statement of paths.py and of the rotation's comments.)
AsideNamedElsewhere ==
    \A r \in Runs : run[r].pc = "done" =>
        \A e \in aside :
            e[1] = r /\ (\A o \in run[r].silent : NameOf(o) # e[2]) => e[4] \in run[r].named

\* A backup that reported success has its archive, as long as no outsider
\* touches it.
BackupsExist ==
    \A r \in Runs : env.kind[r] = "backup" /\ run[r].status = "success"
                    /\ "archive" \notin env.touched => At("archive") # None

=============================================================================
