--------------------------- MODULE FileTxn_proofs ---------------------------
(***************************************************************************)
(* Theorems about FileTxn, for any number of transactions and documents    *)
(* and any surroundings: the types, that no document is ever lost, that of *)
(* two commits with one expectation one is reported, that a returned one   *)
(* is durable, what a refusal leaves and names, and, for callers that are  *)
(* left in peace, the refinement of AtomicDocument.                        *)
(***************************************************************************)
EXTENDS FileTxn, TLAPS

-----------------------------------------------------------------------------
(* Types. *)

\* A move of names keeps the shape of a directory.
LEMMA DirectoryUpdate ==
    ASSUME NEW d \in Directories, NEW t \in Txns, NEW a \in Objects \cup {None},
           NEW b \in Objects \cup {None}
    PROVE  /\ [d EXCEPT !.temp[t] = a] \in Directories
           /\ [d EXCEPT !.quar[t] = a] \in Directories
           /\ [d EXCEPT !.target = a, !.temp[t] = b] \in Directories
           /\ [d EXCEPT !.target = a, !.quar[t] = b] \in Directories
BY DEF Directories

LEMMA TargetUpdate ==
    ASSUME NEW d \in Directories, NEW a \in Objects \cup {None}
    PROVE  [d EXCEPT !.target = a] \in Directories
BY DEF Directories

LEMMA DirectoryParts ==
    ASSUME NEW d \in Directories, NEW t \in Txns
    PROVE  /\ d.target \in Objects \cup {None}
           /\ d.temp[t] \in Objects \cup {None}
           /\ d.quar[t] \in Objects \cup {None}
BY DEF Directories

\* The initial states are well typed.
LEMMA InitType == Init => TypeOK
<1> SUFFICES ASSUME Init PROVE TypeOK
  OBVIOUS
<1>1. Initial \in Objects /\ MaxEdits \in Nat
  BY ConstantsAssumption DEF Objects
<1>2. dir \in Directories
  BY <1>1 DEF Init, Directories
<1>3. placed \subseteq Docs
  BY ConstantsAssumption DEF Init
<1> QED
  BY <1>1, <1>2, <1>3 DEF Init, TypeOK, Phases

TxnType ==
    /\ pc \in [Txns -> Phases]
    /\ outcome \in [Txns -> {"none", "replaced", "conflict", "uncertain", "error"}]
    /\ recovery \in [Txns -> SUBSET {"target", "temp", "quar"}]

DirType == dir \in Directories /\ since \subseteq Directories

LEMMA SetDirType ==
    ASSUME TypeOK, NEW d \in Directories, SetDir(d)
    PROVE  DirType'
BY DEF TypeOK, SetDir, DirType

\* The directory and the report keep their types in every step of a
\* transaction.
LEMMA CommitType ==
    ASSUME TypeOK, NEW t \in Txns, Commit(t)
    PROVE  TypeOK'
<1> USE DEF Objects
<1>0. /\ dir \in Directories /\ dir.target \in Objects \cup {None}
      /\ dir.temp[t] \in Objects \cup {None} /\ dir.quar[t] \in Objects \cup {None}
      /\ None \in Objects \cup {None}
      /\ t \in Objects \cup {None}
  BY DirectoryParts DEF TypeOK
<1>1. DirType'
  <2>1. CASE KeepDir
    BY <2>1 DEF KeepDir, DirType, TypeOK
  <2>2. CASE Sync(t)
    BY <2>2 DEF Sync, DirType, TypeOK
  <2>3. CASE UnlinkDisplaced(t)
    BY <2>3, <1>0, DirectoryUpdate, SetDirType DEF UnlinkDisplaced, DirType, TypeOK
  <2>4. CASE UnlinkAside(t)
    BY <2>4, <1>0, DirectoryUpdate, SetDirType DEF UnlinkAside, DirType, TypeOK
  <2>5. CASE \E d \in Directories : SetDir(d)
    BY <2>5, SetDirType
  <2>6. WriteTemp(t) \/ UnlinkTemp(t) => KeepDir \/ \E d \in Directories : SetDir(d)
    BY <1>0, DirectoryUpdate DEF WriteTemp, UnlinkTemp
  <2>7. InstallNew(t) \/ ExchangeNames(t) \/ UndoExchange(t) =>
           KeepDir \/ \E d \in Directories : SetDir(d)
    BY <1>0, DirectoryUpdate DEF InstallNew, ExchangeNames, UndoExchange
  <2>8. AsideOurs(t) \/ RestoreDisplaced(t) \/ MoveAside(t) =>
           KeepDir \/ \E d \in Directories : SetDir(d)
    BY <1>0, DirectoryUpdate DEF AsideOurs, RestoreDisplaced, MoveAside
  <2>9. InstallOverAside(t) \/ Restore(t) =>
           KeepDir \/ \E d \in Directories : SetDir(d)
    BY <1>0, DirectoryUpdate DEF InstallOverAside, Restore
  <2>10. Observe(t) \/ Lock(t) \/ CheckCandidate(t) \/ Discard(t) \/ Release(t)
           \/ VerifyDisplaced(t) \/ VerifyAside(t) \/ RecheckCandidate(t) => KeepDir
    BY DEF Observe, Lock, CheckCandidate, Discard, Release, VerifyDisplaced,
           VerifyAside, RecheckCandidate
  <2> QED
    BY <2>1, <2>2, <2>3, <2>4, <2>5, <2>6, <2>7, <2>8, <2>9, <2>10 DEF Commit
<1>2. TxnType'
  <2> USE DEF TxnType, TypeOK, Phases, Goto, Report, NoReport, Refuse, Escape
  <2>1. CASE Observe(t) \/ Lock(t) \/ WriteTemp(t) \/ CheckCandidate(t)
    BY <2>1 DEF Observe, Lock, WriteTemp, CheckCandidate
  <2>2. CASE InstallNew(t) \/ Sync(t) \/ Discard(t) \/ UnlinkTemp(t) \/ Release(t)
    BY <2>2 DEF InstallNew, Sync, Discard, UnlinkTemp, Release
  <2>3. CASE ExchangeNames(t) \/ VerifyDisplaced(t) \/ UnlinkDisplaced(t)
    BY <2>3 DEF ExchangeNames, VerifyDisplaced, UnlinkDisplaced
  <2>4. CASE UndoExchange(t) \/ AsideOurs(t) \/ RestoreDisplaced(t)
    BY <2>4 DEF UndoExchange, AsideOurs, RestoreDisplaced
  <2>5. CASE MoveAside(t) \/ VerifyAside(t) \/ RecheckCandidate(t)
    BY <2>5 DEF MoveAside, VerifyAside, RecheckCandidate
  <2>6. CASE InstallOverAside(t) \/ Restore(t) \/ UnlinkAside(t)
    BY <2>6 DEF InstallOverAside, Restore, UnlinkAside
  <2> QED
    BY <2>1, <2>2, <2>3, <2>4, <2>5, <2>6 DEF Commit
<1>3. seen' \in [Txns -> (Objects \X (0..MaxEdits)) \cup {Unread, Absent}]
  <2>1. CASE Observe(t)
    BY <2>1, <1>0 DEF Observe, Version, TypeOK
  <2>2. CASE UNCHANGED seen
    BY <2>2 DEF TypeOK
  <2> QED
    BY <2>1, <2>2 DEF Commit, Lock, WriteTemp, CheckCandidate, InstallNew, Sync,
       Discard, UnlinkTemp, Release, ExchangeNames, VerifyDisplaced,
       UnlinkDisplaced, UndoExchange, AsideOurs, RestoreDisplaced, MoveAside,
       VerifyAside, RecheckCandidate, InstallOverAside, Restore, UnlinkAside
<1>4. /\ holder' \in Txns \cup {None}
      /\ UNCHANGED <<env, crashed, Outside>>
  BY DEF Commit, Observe, Lock, WriteTemp, CheckCandidate, InstallNew, Sync,
     Discard, UnlinkTemp, Release, ExchangeNames, VerifyDisplaced,
     UnlinkDisplaced, UndoExchange, AsideOurs, RestoreDisplaced, MoveAside,
     VerifyAside, RecheckCandidate, InstallOverAside, Restore, UnlinkAside, TypeOK
<1> QED
  BY <1>1, <1>2, <1>3, <1>4 DEF TypeOK, DirType, TxnType, Outside

LEMMA EnvironmentType ==
    ASSUME TypeOK, Environment
    PROVE  TypeOK'
<1> USE DEF Objects
<1>0. dir \in Directories /\ dir.target \in Objects \cup {None}
  BY DEF TypeOK, Directories
<1>1. CASE \E o \in Docs : OutsidePut(o)
  <2>1. PICK o \in Docs : OutsidePut(o)
    BY <1>1
  <2>2. DirType'
    BY <2>1, TargetUpdate, SetDirType, <1>0 DEF OutsidePut
  <2> QED
    BY <1>0, <2>1, <2>2 DEF Environment, OutsidePut, TypeOK, DirType, Inside
<1>2. CASE OutsideRemove
  <2>1. DirType'
    BY <1>0, <1>2, TargetUpdate, SetDirType DEF OutsideRemove
  <2> QED
    BY <1>0, <1>2, <2>1 DEF Environment, OutsideRemove, TypeOK, DirType, Inside
<1>3. CASE \E t \in Txns : OutsideTemp(t)
  <2>1. PICK t \in Txns : OutsideTemp(t)
    BY <1>3
  <2>2. PICK o \in (Docs \ placed) \cup {None} :
           /\ SetDir([dir EXCEPT !.temp[t] = o])
           /\ placed' = placed \cup ({o} \ {None})
    BY <2>1 DEF OutsideTemp
  <2>3. DirType'
    <3>1. [dir EXCEPT !.temp[t] = o] \in Directories
      BY <1>0 DEF Directories
    <3> QED
      BY <2>2, <3>1, SetDirType
  <2>4. dir.temp[t] \in Objects
    BY <1>0, <2>1, DirectoryParts DEF OutsideTemp
  <2> QED
    BY <2>1, <2>2, <2>3, <2>4 DEF Environment, OutsideTemp, TypeOK, DirType, Inside
<1>4. CASE EditorOpen
  BY <1>0, <1>4 DEF Environment, EditorOpen, KeepDir, TypeOK, Inside
<1>5. CASE EditorWrite
  <2>1. editor \in Objects /\ edits[editor] + 1 \in 0..MaxEdits
    BY <1>5, ConstantsAssumption DEF EditorWrite, TypeOK
  <2> QED
    BY <1>5, <2>1 DEF Environment, EditorWrite, KeepDir, TypeOK, Inside
<1>6. CASE \E t \in Txns : Crash(t)
  BY <1>6 DEF Environment, Crash, KeepDir, NoReport, Outside, TypeOK
<1>7. CASE PowerCut
  BY <1>7 DEF Environment, PowerCut, NoReport, TypeOK
<1> QED
  BY <1>1, <1>2, <1>3, <1>4, <1>5, <1>6, <1>7 DEF Environment

\* Every state of every behaviour is well typed.
THEOREM TypeCorrect == Spec => []TypeOK
<1>1. TypeOK /\ [Next]_vars => TypeOK'
  <2>1. TypeOK /\ UNCHANGED vars => TypeOK'
    BY DEF TypeOK, vars
  <2> QED
    BY <2>1, CommitType, EnvironmentType DEF Next
<1> QED
  BY InitType, <1>1, PTL DEF Spec

-----------------------------------------------------------------------------
(* Preserved.  The invariant follows what a transaction knows of its own   *)
(* names, which nobody else touches, and keeps account of the candidates   *)
(* on their way in and of the directories a power cut may bring back.      *)

Early == {"idle", "observed", "locked"}

\* Phases from which the candidate may still be reported as the document.
Entering == {"written", "checked", "exchanged", "matched", "fallback", "aside",
             "recheck", "install", "unlinkAside", "sync"}

\* A transaction does not report twice.
Reports(t) ==
    /\ outcome[t] = "replaced" => pc[t] = "done"
    /\ outcome[t] = "uncertain" => pc[t] \in {"discard", "unlinkTemp", "done"}

\* What a running transaction knows of its temporary and quarantine names.
OwnNames(t) ==
    t \notin crashed =>
        /\ pc[t] \in Early => \A d \in since : d.temp[t] = None /\ d.quar[t] = None
        /\ pc[t] \in {"written", "checked", "exchanged", "matched", "undo",
                      "undoFailed", "fallback"} => dir.quar[t] = None
        /\ pc[t] = "matched" => Matches(t, dir.temp[t])
        /\ pc[t] \in {"recheck", "install", "unlinkAside"} => Matches(t, dir.quar[t])
        /\ pc[t] = "unlinkTemp" => dir.temp[t] = t

Safe(d, o) == Linked(d, o) \/ o \in forsaken \/ Superseded(o)

\* Documents in force, and candidates that may come to be.
Kept == Owed \cup {t \in Txns \ crashed : pc[t] \in Entering}

\* Documents that no power cut may take.
Durables == ({Initial} \cap placed) \cup {t \in Txns : outcome[t] = "replaced"}

PreservedInv ==
    WholeFilesOnly =>
        /\ editor = None
        /\ dir \in since
        /\ \A t \in Txns : Reports(t) /\ OwnNames(t)
        /\ \A o \in Kept : Safe(dir, o)
        /\ \A d \in since, o \in Durables : Safe(d, o)

-----------------------------------------------------------------------------
(* What a step of transaction t leaves alone. *)

Others(t) ==
    \A u \in Txns \ {t} :
        /\ pc'[u] = pc[u] /\ outcome'[u] = outcome[u] /\ seen'[u] = seen[u]
        /\ dir'.temp[u] = dir.temp[u] /\ dir'.quar[u] = dir.quar[u]

Grows == dir' \in since' /\ since' \subseteq since \cup {dir'}

LEMMA OutsideUntouched ==
    ASSUME NEW t \in Txns, Commit(t)
    PROVE  UNCHANGED <<env, crashed, Outside>> /\ t \notin crashed
BY DEF Commit, Observe, Lock, WriteTemp, CheckCandidate, InstallNew, Sync,
   Discard, UnlinkTemp, Release, ExchangeNames, VerifyDisplaced,
   UnlinkDisplaced, UndoExchange, AsideOurs, RestoreDisplaced, MoveAside,
   VerifyAside, RecheckCandidate, InstallOverAside, Restore, UnlinkAside, Ready

\* The names a transaction may change: the target and its own two.
OwnUpdate(t, d) ==
    \/ d = dir
    \/ \E a \in Objects \cup {None} :
          \/ d = [dir EXCEPT !.temp[t] = a]
          \/ d = [dir EXCEPT !.quar[t] = a]
    \/ \E a \in Objects \cup {None}, b \in Objects \cup {None} :
          \/ d = [dir EXCEPT !.target = a, !.temp[t] = b]
          \/ d = [dir EXCEPT !.target = a, !.quar[t] = b]

LEMMA OwnUpdateOthers ==
    ASSUME dir \in Directories, NEW t \in Txns, OwnUpdate(t, dir'),
           NEW u \in Txns \ {t}
    PROVE  dir'.temp[u] = dir.temp[u] /\ dir'.quar[u] = dir.quar[u]
BY ZenonT(60) DEF OwnUpdate, Directories

LEMMA NamesUntouched ==
    ASSUME TypeOK, dir \in since, NEW t \in Txns, Commit(t)
    PROVE  OwnUpdate(t, dir') /\ Grows
<1> USE DEF OwnUpdate, Grows, SetDir, KeepDir, TypeOK
<1>0. /\ dir.target \in Objects \cup {None} /\ dir.temp[t] \in Objects \cup {None}
      /\ dir.quar[t] \in Objects \cup {None} /\ None \in Objects \cup {None}
      /\ t \in Objects \cup {None}
  BY DirectoryParts DEF Objects
<1>1. CASE Observe(t) \/ Lock(t) \/ WriteTemp(t) \/ CheckCandidate(t)
  BY <1>0, <1>1 DEF Observe, Lock, WriteTemp, CheckCandidate
<1>2. CASE InstallNew(t) \/ Discard(t) \/ UnlinkTemp(t) \/ Release(t) \/ Sync(t)
  BY <1>0, <1>2 DEF InstallNew, Discard, UnlinkTemp, Release, Sync
<1>3. CASE ExchangeNames(t) \/ VerifyDisplaced(t) \/ UnlinkDisplaced(t)
  BY <1>0, <1>3 DEF ExchangeNames, VerifyDisplaced, UnlinkDisplaced
<1>4. CASE UndoExchange(t) \/ AsideOurs(t) \/ RestoreDisplaced(t)
  BY <1>0, <1>4 DEF UndoExchange, AsideOurs, RestoreDisplaced
<1>5. CASE MoveAside(t) \/ VerifyAside(t) \/ RecheckCandidate(t)
  BY <1>0, <1>5 DEF MoveAside, VerifyAside, RecheckCandidate
<1>6. CASE InstallOverAside(t) \/ Restore(t) \/ UnlinkAside(t)
  BY <1>0, <1>6 DEF InstallOverAside, Restore, UnlinkAside
<1> QED
  BY <1>1, <1>2, <1>3, <1>4, <1>5, <1>6 DEF Commit

LEMMA OthersUntouched ==
    ASSUME TypeOK, dir \in since, NEW t \in Txns, Commit(t)
    PROVE  Others(t) /\ Grows
<1>1. \A u \in Txns \ {t} : dir'.temp[u] = dir.temp[u] /\ dir'.quar[u] = dir.quar[u]
  BY NamesUntouched, OwnUpdateOthers DEF TypeOK
<1>2. \A u \in Txns \ {t} :
         pc'[u] = pc[u] /\ outcome'[u] = outcome[u] /\ seen'[u] = seen[u]
  BY DEF TypeOK, Goto, Report, NoReport, Refuse, Escape, Commit, Observe, Lock,
     WriteTemp, CheckCandidate, InstallNew, Sync, Discard, UnlinkTemp, Release,
     ExchangeNames, VerifyDisplaced, UnlinkDisplaced, UndoExchange, AsideOurs,
     RestoreDisplaced, MoveAside, VerifyAside, RecheckCandidate,
     InstallOverAside, Restore, UnlinkAside
<1> QED
  BY <1>1, <1>2, NamesUntouched DEF Others

\* What it reports, and that it enters with its candidate in hand.
ReportsOnce(t) ==
    /\ Reports(t)'
    /\ pc[t] = "sync" \/ outcome[t] \in {"replaced", "uncertain"}
          => seen'[t] = seen[t] /\ outcome'[t] \in {"replaced", "uncertain"}
    /\ outcome'[t] = "replaced" => outcome[t] = "replaced" \/ since' = {dir'}
    /\ outcome'[t] = "replaced" \/ pc'[t] \in Entering
          => \/ outcome[t] = "replaced" \/ pc[t] \in Entering
             \/ dir'.temp[t] = t

LEMMA ReportedOnce ==
    ASSUME TypeOK, NEW t \in Txns, Reports(t), Commit(t)
    PROVE  ReportsOnce(t)
<1> USE DEF ReportsOnce, Reports, Ready, Entering, TypeOK, Goto, Report, NoReport,
            Refuse, Escape
<1>1. CASE WriteTemp(t)
  BY <1>1 DEF WriteTemp, SetDir, Directories
<1>2. CASE Observe(t) \/ Lock(t) \/ CheckCandidate(t)
  BY <1>2 DEF Observe, Lock, CheckCandidate
<1>3. CASE InstallNew(t) \/ Sync(t) \/ Discard(t) \/ UnlinkTemp(t) \/ Release(t)
  BY <1>3 DEF InstallNew, Sync, Discard, UnlinkTemp, Release
<1>4. CASE ExchangeNames(t) \/ VerifyDisplaced(t) \/ UnlinkDisplaced(t)
  BY <1>4 DEF ExchangeNames, VerifyDisplaced, UnlinkDisplaced
<1>5. CASE UndoExchange(t) \/ AsideOurs(t) \/ RestoreDisplaced(t)
  BY <1>5 DEF UndoExchange, AsideOurs, RestoreDisplaced
<1>6. CASE MoveAside(t) \/ VerifyAside(t) \/ RecheckCandidate(t)
  BY <1>6 DEF MoveAside, VerifyAside, RecheckCandidate
<1>7. CASE InstallOverAside(t) \/ Restore(t) \/ UnlinkAside(t)
  BY <1>7 DEF InstallOverAside, Restore, UnlinkAside
<1> QED
  BY <1>1, <1>2, <1>3, <1>4, <1>5, <1>6, <1>7 DEF Commit

LEMMA OwnNamesKept ==
    ASSUME TypeOK, dir \in since, NEW t \in Txns, OwnNames(t), Commit(t)
    PROVE  OwnNames(t)'
<1> USE DEF OwnNames, Early, Ready, TypeOK, Goto, SetDir, KeepDir, Matches, Version,
            Outside, Refuse, Escape, Report
<1>1. CASE Observe(t) \/ Lock(t)
  BY <1>1 DEF Observe, Lock
<1>2. CASE WriteTemp(t)
  BY <1>2 DEF WriteTemp, Directories
<1>3. CASE CheckCandidate(t) \/ InstallNew(t) \/ Sync(t) \/ Release(t)
  BY <1>3 DEF CheckCandidate, InstallNew, Sync, Release
<1>4. CASE Discard(t) \/ UnlinkTemp(t)
  BY <1>4 DEF Discard, UnlinkTemp, CandidateIsOurs
<1>5. CASE ExchangeNames(t)
  BY <1>5, ZenonT(60) DEF ExchangeNames, Directories
<1>6. CASE VerifyDisplaced(t) \/ UnlinkDisplaced(t)
  BY <1>6 DEF VerifyDisplaced, UnlinkDisplaced
<1>7. CASE UndoExchange(t) \/ AsideOurs(t) \/ RestoreDisplaced(t)
  BY <1>7 DEF UndoExchange, AsideOurs, RestoreDisplaced
<1>8. CASE MoveAside(t) \/ VerifyAside(t) \/ RecheckCandidate(t)
  BY <1>8 DEF MoveAside, VerifyAside, RecheckCandidate
<1>9. CASE InstallOverAside(t)
  BY <1>9, ZenonT(60) DEF InstallOverAside, Directories
<1>10. CASE Restore(t) \/ UnlinkAside(t)
  BY <1>10 DEF Restore, UnlinkAside
<1> QED
  BY <1>1, <1>2, <1>3, <1>4, <1>5, <1>6, <1>7, <1>8, <1>9, <1>10 DEF Commit

\* The names an object may lose: a displaced document that was read, and a
\* candidate that is not to be installed any more.
Releases(t) ==
    \A o \in Objects :
        Linked(dir, o) =>
            \/ Linked(dir', o)
            \/ Superseded(o)'
            \/ o = t /\ outcome'[t] # "replaced" /\ pc'[t] \notin Entering

\* A change of names that only moves objects to vacant names.
Moves(t, d, e) ==
    \/ e = d
    \/ d.temp[t] = None /\ \E a \in Objects : e = [d EXCEPT !.temp[t] = a]
    \/ e = [d EXCEPT !.target = d.temp[t], !.temp[t] = d.target]
    \/ d.target = None /\ e = [d EXCEPT !.target = d.temp[t], !.temp[t] = None]
    \/ d.quar[t] = None /\ e = [d EXCEPT !.target = None, !.quar[t] = d.target]
    \/ d.target = None /\ e = [d EXCEPT !.target = d.quar[t], !.quar[t] = None]

LEMMA MovesLoseNothing ==
    ASSUME NEW d \in Directories, NEW e, NEW t \in Txns, Moves(t, d, e),
           NEW o \in Objects, Linked(d, o)
    PROVE  Linked(e, o)
<1> USE DEF Linked, Directories
<1>0. o # None
  BY ConstantsAssumption DEF Objects
<1>1. CASE d.temp[t] = None /\ \E a \in Objects : e = [d EXCEPT !.temp[t] = a]
  BY <1>0, <1>1
<1>2. CASE e = [d EXCEPT !.target = d.temp[t], !.temp[t] = d.target]
  <2>1. e.target = d.temp[t] /\ e.temp[t] = d.target /\ e.quar = d.quar
    BY <1>2
  <2>2. \A u \in Txns \ {t} : e.temp[u] = d.temp[u]
    BY <1>2
  <2> QED
    BY <2>1, <2>2
<1>3. CASE d.target = None /\ e = [d EXCEPT !.target = d.temp[t], !.temp[t] = None]
  <2>1. e.target = d.temp[t] /\ e.quar = d.quar
    BY <1>3
  <2>2. \A u \in Txns \ {t} : e.temp[u] = d.temp[u]
    BY <1>3
  <2> QED
    BY <1>0, <1>3, <2>1, <2>2
<1>4. CASE d.quar[t] = None /\ e = [d EXCEPT !.target = None, !.quar[t] = d.target]
  <2>1. e.quar[t] = d.target /\ e.temp = d.temp
    BY <1>4
  <2>2. \A u \in Txns \ {t} : e.quar[u] = d.quar[u]
    BY <1>4
  <2> QED
    BY <1>0, <1>4, <2>1, <2>2
<1>5. CASE d.target = None /\ e = [d EXCEPT !.target = d.quar[t], !.quar[t] = None]
  <2>1. e.target = d.quar[t] /\ e.temp = d.temp
    BY <1>5
  <2>2. \A u \in Txns \ {t} : e.quar[u] = d.quar[u]
    BY <1>5
  <2> QED
    BY <1>0, <1>5, <2>1, <2>2
<1> QED
  BY <1>1, <1>2, <1>3, <1>4, <1>5 DEF Moves

LEMMA ReleasesSafely ==
    ASSUME TypeOK, dir \in since, NEW t \in Txns, OwnNames(t), Reports(t), Commit(t)
    PROVE  Releases(t)
<1> USE DEF Releases
<1>0. dir \in Directories
  BY DEF TypeOK
<1>1. ASSUME Moves(t, dir, dir') PROVE Releases(t)
  <2> SUFFICES ASSUME NEW o \in Objects, Linked(dir, o)
               PROVE  Linked(dir', o)
    OBVIOUS
  <2> QED
    BY <1>0, <1>1, MovesLoseNothing
<1>2. CASE Observe(t) \/ Lock(t) \/ CheckCandidate(t) \/ Sync(t) \/ Discard(t)
           \/ Release(t) \/ VerifyDisplaced(t) \/ VerifyAside(t) \/ RecheckCandidate(t)
  <2>1. dir' = dir
    BY <1>2 DEF Observe, Lock, CheckCandidate, Sync, Discard, Release, VerifyDisplaced,
       VerifyAside, RecheckCandidate, KeepDir
  <2> QED
    BY <1>1, <2>1 DEF Moves
<1>3. CASE WriteTemp(t)
  <2>1. dir.temp[t] = None /\ t \in Objects
    BY <1>3 DEF WriteTemp, Ready, OwnNames, Early, Objects
  <2> QED
    BY <1>1, <1>3, <2>1 DEF Moves, WriteTemp, SetDir, KeepDir
<1>4. CASE InstallNew(t) \/ ExchangeNames(t) \/ UndoExchange(t)
  BY <1>1, <1>4 DEF Moves, InstallNew, ExchangeNames, UndoExchange, SetDir, KeepDir
<1>5. CASE RestoreDisplaced(t) \/ InstallOverAside(t) \/ Restore(t)
  BY <1>1, <1>5 DEF Moves, RestoreDisplaced, InstallOverAside, Restore, SetDir, KeepDir
<1>9. CASE AsideOurs(t) \/ MoveAside(t)
  <2>1. dir.quar[t] = None
    BY <1>9 DEF AsideOurs, MoveAside, Ready, OwnNames
  <2> QED
    BY <1>1, <1>9, <2>1 DEF Moves, AsideOurs, MoveAside, SetDir, KeepDir
<1>6. CASE UnlinkDisplaced(t)
  <2>0. CASE dir' = dir
    BY <1>1, <2>0 DEF Moves
  <2> SUFFICES ASSUME NEW o \in Objects, Linked(dir, o), dir' # dir
               PROVE  Linked(dir', o) \/ Superseded(o)'
    BY <2>0
  <2>1. /\ dir' = [dir EXCEPT !.temp[t] = None]
        /\ pc'[t] = "sync" /\ seen' = seen /\ edits' = edits
    BY <1>6 DEF UnlinkDisplaced, SetDir, Goto, Outside, TypeOK
  <2>2. CASE dir.temp[t] = o
    <3>1. seen[t] = Version(o)
      BY <1>6, <2>2 DEF UnlinkDisplaced, Ready, OwnNames, Matches
    <3> QED
      BY <2>1, <3>1 DEF Superseded, Version
  <2>3. CASE dir.temp[t] # o
    BY <1>0, <2>1, <2>3 DEF Linked, Directories
  <2> QED
    BY <2>2, <2>3
<1>7. CASE UnlinkAside(t)
  <2>0. CASE dir' = dir
    BY <1>1, <2>0 DEF Moves
  <2> SUFFICES ASSUME NEW o \in Objects, Linked(dir, o), dir' # dir
               PROVE  Linked(dir', o) \/ Superseded(o)'
    BY <2>0
  <2>1. /\ dir' = [dir EXCEPT !.quar[t] = None]
        /\ pc'[t] = "sync" /\ seen' = seen /\ edits' = edits
    BY <1>7 DEF UnlinkAside, SetDir, Goto, Outside, TypeOK
  <2>2. CASE dir.quar[t] = o
    <3>1. seen[t] = Version(o)
      BY <1>7, <2>2 DEF UnlinkAside, Ready, OwnNames, Matches
    <3> QED
      BY <2>1, <3>1 DEF Superseded, Version
  <2>3. CASE dir.quar[t] # o
    BY <1>0, <2>1, <2>3 DEF Linked, Directories
  <2> QED
    BY <2>2, <2>3
<1>8. CASE UnlinkTemp(t)
  <2>1. /\ dir' = dir \/ dir' = [dir EXCEPT !.temp[t] = None]
        /\ pc'[t] = "done" /\ dir.temp[t] = t /\ outcome'[t] # "replaced"
    BY <1>8 DEF UnlinkTemp, SetDir, KeepDir, NoReport, Goto, Ready, OwnNames, Reports,
       TypeOK
  <2>2. \A o \in Objects \ {t} : Linked(dir, o) => Linked(dir', o)
    BY <1>0, <2>1 DEF Linked, Directories
  <2> QED
    BY <2>1, <2>2 DEF Entering
<1> QED
  BY <1>2, <1>3, <1>4, <1>5, <1>6, <1>7, <1>8, <1>9 DEF Commit

-----------------------------------------------------------------------------
(* The invariant. *)

LEMMA InitPreserved == Init => PreservedInv
<1> SUFFICES ASSUME Init, WholeFilesOnly PROVE PreservedInv
  BY DEF PreservedInv
<1>0. Initial \in Objects /\ Txns \cap Docs = {} /\ Initial # None
  BY ConstantsAssumption DEF Objects
<1>1. ASSUME NEW t \in Txns PROVE Reports(t) /\ OwnNames(t)
  <2>1. dir.temp[t] = None /\ dir.quar[t] = None /\ since = {dir}
    BY DEF Init
  <2> QED
    BY <2>1 DEF Init, Reports, OwnNames
<1>2. Kept = {dir.target} \ {None} /\ Durables \subseteq Kept
  BY <1>0 DEF Init, Kept, Owed, Durables, Entering
<1>3. \A o \in Kept : Safe(dir, o)
  BY <1>2 DEF Safe, Linked
<1> QED
  BY <1>1, <1>2, <1>3 DEF PreservedInv, Init

\* What a transaction has taken charge of stays so.
LEMMA SupersededStays ==
    ASSUME NEW t \in Txns, UNCHANGED edits, Others(t), ReportsOnce(t),
           NEW o, Superseded(o)
    PROVE  Superseded(o)'
BY DEF Superseded, Version, Others, ReportsOnce

LEMMA CommitPreserves ==
    ASSUME TypeOK, PreservedInv, WholeFilesOnly, NEW t \in Txns, Commit(t)
    PROVE  PreservedInv'
<1> USE DEF PreservedInv
<1>1. /\ UNCHANGED <<env, crashed, edits, placed, forsaken, editor>>
      /\ t \notin crashed
  BY OutsideUntouched DEF Outside
<1>2. Others(t) /\ Grows
  BY OthersUntouched
<1>3. ReportsOnce(t) /\ OwnNames(t)' /\ Releases(t)
  BY ReportedOnce, OwnNamesKept, ReleasesSafely
<1>4. ASSUME NEW u \in Txns PROVE Reports(u)' /\ OwnNames(u)'
  <2>1. CASE u = t
    BY <1>3, <2>1 DEF ReportsOnce
  <2>2. CASE u # t
    <3>1. Reports(u)'
      BY <1>2, <2>2 DEF Reports, Others
    <3>2. OwnNames(u)'
      BY <1>1, <1>2, <2>2 DEF OwnNames, Others, Grows, Matches, Version
    <3> QED
      BY <3>1, <3>2
  <2> QED
    BY <2>1, <2>2
<1>5. Kept \subseteq Objects /\ Kept' \subseteq Objects
  BY <1>1 DEF Kept, Owed, Objects, TypeOK
<1>6. ASSUME NEW o \in Kept' PROVE Safe(dir, o)'
  <2>1. o \in Kept \/ (o = t /\ dir'.temp[t] = t)
    BY <1>1, <1>2, <1>3 DEF Kept, Owed, Others, ReportsOnce
  <2>2. CASE dir'.temp[t] = t /\ o = t
    BY <2>2 DEF Safe, Linked
  <2>3. CASE o \in Kept
    <3>1. ~(o = t /\ outcome'[t] # "replaced" /\ pc'[t] \notin Entering)
      BY <1>1, ConstantsAssumption DEF Kept, Owed, TypeOK
    <3> QED
      BY <1>1, <1>2, <1>3, <1>5, <2>3, <3>1, SupersededStays DEF Safe, Releases
  <2> QED
    BY <2>1, <2>2, <2>3
<1>7. ASSUME NEW d \in since', NEW o \in Durables' PROVE Safe(d, o)'
  <2>1. CASE d = dir'
    <3>1. o \in Kept'
      BY DEF Durables, Kept, Owed
    <3> QED
      BY <1>6, <2>1, <3>1
  <2>2. CASE d \in since /\ d # dir'
    <3>1. o \in Durables
      BY <1>1, <1>2, <1>3, <2>2 DEF Durables, Others, ReportsOnce, Grows
    <3> QED
      BY <1>1, <1>2, <1>3, <2>2, <3>1, SupersededStays DEF Safe, Linked
  <2> QED
    BY <1>2, <2>1, <2>2 DEF Grows
<1> QED
  BY <1>1, <1>2, <1>4, <1>6, <1>7 DEF Grows

\* An outside process that changes the target answers for what it displaces.
LEMMA OutsidePreserves ==
    ASSUME TypeOK, PreservedInv, WholeFilesOnly, UNCHANGED <<env, Inside, editor, edits>>,
           NEW x \in (Docs \ {Initial}) \cup {None},
           SetDir([dir EXCEPT !.target = x]),
           placed' = placed \cup ({x} \ {None}),
           forsaken' = forsaken \cup ({dir.target} \ {None})
    PROVE  PreservedInv'
<1> USE DEF PreservedInv, Inside
<1>1. /\ dir'.target = x /\ dir'.temp = dir.temp /\ dir'.quar = dir.quar
      /\ dir' \in since' /\ since' \subseteq since \cup {dir'}
  BY DEF SetDir, TypeOK, Directories
<1>2. \A t \in Txns : Reports(t)' /\ OwnNames(t)'
  BY <1>1 DEF Reports, OwnNames, Matches, Version, Early
<1>3. None \notin Kept' /\ Kept' = Kept \cup ({x} \ {None})
  BY ConstantsAssumption DEF Kept, Owed, TypeOK
<1>4. Durables' = Durables
  BY ConstantsAssumption DEF Durables
<1>5. \A o : Superseded(o)' = Superseded(o)
  BY DEF Superseded, Version
<1>6. ASSUME NEW o \in Kept' PROVE Safe(dir, o)'
  BY <1>1, <1>3, <1>5 DEF Safe, Linked
<1>7. ASSUME NEW d \in since', NEW o \in Durables' PROVE Safe(d, o)'
  <2>1. CASE d = dir'
    <3>1. o \in Kept'
      BY DEF Durables, Kept, Owed
    <3> QED
      BY <1>6, <2>1, <3>1
  <2>2. CASE d \in since
    BY <1>4, <1>5, <2>2 DEF Safe, Linked
  <2> QED
    BY <1>1, <2>1, <2>2
<1> QED
  BY <1>1, <1>2, <1>6, <1>7

LEMMA PowerCutPreserves ==
    ASSUME TypeOK, PreservedInv, WholeFilesOnly, UNCHANGED env, PowerCut
    PROVE  PreservedInv'
<1> USE DEF PreservedInv
<1>1. PICK d \in since :
         /\ dir' = d /\ since' = {d}
         /\ forsaken' = forsaken \cup {o \in Docs \ {Initial} : ~Linked(d, o)}
  BY DEF PowerCut
<1>2. /\ UNCHANGED <<outcome, recovery, seen, pc, placed, edits>> /\ editor' = None
      /\ crashed' = crashed \cup {t \in Txns : pc[t] \notin {"idle", "done"}}
  BY DEF PowerCut, NoReport
<1>3. ASSUME NEW t \in Txns PROVE Reports(t)' /\ OwnNames(t)'
  BY <1>1, <1>2 DEF Reports, OwnNames, Early
<1>4. \A o : Superseded(o)' = Superseded(o)
  BY <1>2 DEF Superseded, Version
<1>5. Durables' = Durables /\ Kept' = Owed
  BY <1>2 DEF Durables, Kept, Owed, Entering
<1>6. ASSUME NEW o \in Durables PROVE Safe(d, o)'
  BY <1>1, <1>4 DEF Safe, Linked
<1>7. ASSUME NEW o \in Kept' PROVE Safe(d, o)'
  <2>1. CASE o \in Docs \ {Initial}
    BY <1>1, <2>1 DEF Safe, Linked
  <2>2. CASE o \notin Docs \ {Initial}
    BY <1>5, <1>6, <2>2 DEF Durables, Owed, TypeOK
  <2> QED
    BY <2>1, <2>2
<1>8. \A o : Safe(dir, o)' <=> Safe(d, o)'
  BY <1>1 DEF Safe, Linked
<1> QED
  BY <1>1, <1>2, <1>3, <1>5, <1>6, <1>7, <1>8

LEMMA EnvironmentPreserves ==
    ASSUME TypeOK, PreservedInv, WholeFilesOnly, Environment
    PROVE  PreservedInv'
<1> USE DEF PreservedInv
<1>1. CASE \E o \in Docs : OutsidePut(o)
  <2>1. PICK o \in Docs : OutsidePut(o)
    BY <1>1
  <2>2. o \in (Docs \ {Initial}) \cup {None} /\ placed' = placed \cup ({o} \ {None})
    BY <2>1, ConstantsAssumption DEF OutsidePut
  <2> QED
    BY <2>1, <2>2, OutsidePreserves DEF OutsidePut, Environment
<1>2. CASE OutsideRemove
  <2>1. placed' = placed \cup ({None} \ {None})
        /\ forsaken' = forsaken \cup ({dir.target} \ {None})
    BY <1>2 DEF OutsideRemove
  <2> QED
    BY <1>2, <2>1, OutsidePreserves DEF OutsideRemove, Environment
<1>3. CASE \E t \in Txns : OutsideTemp(t)
  BY <1>3 DEF OutsideTemp, WholeFilesOnly
<1>4. CASE EditorOpen \/ EditorWrite
  BY <1>4 DEF EditorOpen, EditorWrite, WholeFilesOnly
<1>5. CASE \E c \in Txns : Crash(c)
  <2>1. /\ UNCHANGED <<dir, since, outcome, recovery, seen, pc, Outside>>
        /\ crashed \subseteq crashed'
    BY <1>5 DEF Crash, KeepDir, NoReport
  <2>2. \A t \in Txns : Reports(t)' /\ OwnNames(t)'
    BY <2>1 DEF Reports, OwnNames, Matches, Version, Outside
  <2>3. Kept' \subseteq Kept /\ Durables' = Durables
    BY <2>1 DEF Kept, Owed, Durables, Outside
  <2>4. \A d, o : Safe(d, o)' <=> Safe(d, o)
    BY <2>1 DEF Safe, Linked, Superseded, Version, Outside
  <2> QED
    BY <2>1, <2>2, <2>3, <2>4 DEF Safe, Linked, Superseded, Version, Outside
<1>6. CASE PowerCut
  BY <1>6, PowerCutPreserves DEF Environment
<1> QED
  BY <1>1, <1>2, <1>3, <1>4, <1>5, <1>6 DEF Environment

LEMMA StutterPreserves ==
    ASSUME PreservedInv, UNCHANGED vars
    PROVE  PreservedInv'
<1> USE DEF vars
<1>1. WholeFilesOnly' = WholeFilesOnly /\ Kept' = Kept /\ Durables' = Durables
  BY DEF WholeFilesOnly, Kept, Owed, Durables
<1>2. ASSUME NEW t \in Txns
      PROVE  Reports(t)' = Reports(t) /\ OwnNames(t)' = OwnNames(t)
  BY DEF Reports, OwnNames, Matches, Version
<1>3. ASSUME NEW d, NEW o PROVE Safe(d, o)' = Safe(d, o)
  BY DEF Safe, Linked, Superseded, Version
<1>4. ASSUME NEW o PROVE Safe(dir, o)' = Safe(dir, o)
  BY DEF Safe, Linked, Superseded, Version
<1> QED
  BY <1>1, <1>2, <1>3, <1>4 DEF PreservedInv

\* PreservedInv is inductive together with the types.
LEMMA PreservedAlways == Spec => []PreservedInv
<1>1. TypeOK /\ PreservedInv /\ [Next]_vars => PreservedInv'
  <2> SUFFICES ASSUME TypeOK, PreservedInv, [Next]_vars, WholeFilesOnly'
               PROVE  PreservedInv'
    BY DEF PreservedInv
  <2>1. CASE UNCHANGED vars
    BY <2>1, StutterPreserves
  <2>2. ASSUME Next PROVE WholeFilesOnly
    BY <2>2 DEF Next, Commit, Environment, WholeFilesOnly
  <2> QED
    BY <2>1, <2>2, CommitPreserves, EnvironmentPreserves DEF Next
<1> QED BY InitPreserved, TypeCorrect, <1>1, PTL DEF Spec

\* "An occupant that does not match is never destroyed", for any number of
\* callers, crashes at every system call, failing calls and power cuts.
THEOREM NothingIsLost == Spec => []Preserved
<1>1. PreservedInv => Preserved
  BY DEF PreservedInv, Preserved, Kept, Safe
<1> QED
  BY PreservedAlways, <1>1, PTL

-----------------------------------------------------------------------------
(* The order of commits.  An object has one name at most, in every         *)
(* directory a power cut may bring back, and never enters the directory    *)
(* twice; so what a call read and moved out of the way is nowhere else, it *)
(* is gone for good once the call returns, and of two calls that read the  *)
(* same document one finds it.                                             *)

\* Expectations that name no object.
Vague == {Unread, Absent}

\* Phases of a transaction that holds the lock, unless it has died.
Active == Phases \ {"idle", "observed", "done"}

\* Phases of a transaction that has found what it read.
Confirmed == {"matched", "recheck", "install", "unlinkAside", "sync"}

\* An object has one name at most.
Sole(d, o) ==
    /\ d.target = o => \A v \in Txns : d.temp[v] # o /\ d.quar[v] # o
    /\ \A v, w \in Txns : d.temp[v] = o => d.quar[w] # o /\ (d.temp[w] = o => w = v)
    /\ \A v, w \in Txns : d.quar[v] = o /\ d.quar[w] = o => w = v

\* No name but the temporary of t, or but its quarantine, has it.
OnlyTemp(t, o) ==
    dir.target # o /\ \A v \in Txns : dir.quar[v] # o /\ (v # t => dir.temp[v] # o)
OnlyQuar(t, o) ==
    dir.target # o /\ \A v \in Txns : dir.temp[v] # o /\ (v # t => dir.quar[v] # o)

\* An object that was in the directory at some time; it does not enter again.
Used(o) == o \in placed \/ (o \in Txns /\ pc[o] \notin Early)

\* No power cut brings it back.
Gone(o) == \A d \in since : ~Linked(d, o)

\* One name for an object, and no name for one that never entered.
Named == \A d \in since : \A o \in Objects : Sole(d, o) /\ (Linked(d, o) => Used(o))

\* The lock, and the report at the end of a call.
Turns(t) ==
    /\ pc[t] \in Active /\ t \notin crashed => holder = t
    /\ outcome[t] # "none" => pc[t] \in {"discard", "unlinkTemp", "done"}
    /\ outcome[t] = "replaced" => pc[t] = "done"
    /\ pc[t] # "idle" => seen[t] # Unread

\* Where the object a transaction read is, once it has found it.
Displaces(t) ==
    seen[t] \notin Vague =>
        LET o == seen[t][1] IN
        /\ Used(o)
        /\ t \notin crashed =>
              /\ pc[t] = "matched" => OnlyTemp(t, o)
              /\ pc[t] \in {"recheck", "install", "unlinkAside"} => OnlyQuar(t, o)
              /\ pc[t] = "sync" => ~Linked(dir, o)
        /\ outcome[t] = "replaced" => Gone(o)

\* Of two that read the same, one at most comes to replace it.
Rivals(t, u) ==
    outcome[t] = "replaced" /\ seen[t] = seen[u] /\ seen[t] # Absent =>
        outcome[u] # "replaced" /\ (u \in crashed \/ pc[u] \notin Confirmed)

\* The inductive invariant of NoLostUpdate and Durable.
OrderInv ==
    /\ dir \in since /\ Named
    /\ \A t \in Txns : Turns(t) /\ Displaces(t)
    /\ \A t, u \in Txns : t # u => Rivals(t, u)

-----------------------------------------------------------------------------
(* How a transaction moves names about. *)

\* The moves a transaction makes, none of which gives an object two names.
Shuffle(t, d, e) ==
    \/ e = d
    \/ e = [d EXCEPT !.temp[t] = None]
    \/ e = [d EXCEPT !.quar[t] = None]
    \/ e = [d EXCEPT !.target = d.temp[t], !.temp[t] = d.target]
    \/ e = [d EXCEPT !.target = d.temp[t], !.temp[t] = None]
    \/ e = [d EXCEPT !.target = None, !.quar[t] = d.target]
    \/ e = [d EXCEPT !.target = d.quar[t], !.quar[t] = None]

\* The same, name by name.
Shuffled(t, d, e) ==
    /\ \A v \in Txns \ {t} : e.temp[v] = d.temp[v] /\ e.quar[v] = d.quar[v]
    /\ \/ e.target = d.target /\ e.temp[t] = d.temp[t] /\ e.quar[t] = d.quar[t]
       \/ e.target = d.target /\ e.temp[t] = None /\ e.quar[t] = d.quar[t]
       \/ e.target = d.target /\ e.temp[t] = d.temp[t] /\ e.quar[t] = None
       \/ e.target = d.temp[t] /\ e.temp[t] = d.target /\ e.quar[t] = d.quar[t]
       \/ e.target = d.temp[t] /\ e.temp[t] = None /\ e.quar[t] = d.quar[t]
       \/ e.target = None /\ e.temp[t] = d.temp[t] /\ e.quar[t] = d.target
       \/ e.target = d.quar[t] /\ e.temp[t] = d.temp[t] /\ e.quar[t] = None

LEMMA ShuffleParts ==
    ASSUME NEW d \in Directories, NEW e, NEW t \in Txns, Shuffle(t, d, e)
    PROVE  Shuffled(t, d, e)
BY ZenonT(60) DEF Shuffle, Shuffled, Directories

LEMMA ShuffleSole ==
    ASSUME NEW d \in Directories, NEW e, NEW t \in Txns, Shuffle(t, d, e), NEW o \in Objects
    PROVE  /\ Sole(d, o) => Sole(e, o)
           /\ Linked(e, o) => Linked(d, o)
           /\ \A v \in Txns \ {t} : e.temp[v] = d.temp[v] /\ e.quar[v] = d.quar[v]
<1>0. o # None
  BY ConstantsAssumption DEF Objects
<1>1. Shuffled(t, d, e)
  BY ShuffleParts
<1> USE DEF Shuffled
<1>2. Linked(e, o) => Linked(d, o)
  BY <1>0, <1>1 DEF Linked
<1>3. ASSUME Sole(d, o) PROVE Sole(e, o)
  <2>1. /\ d.target = o => \A v \in Txns : d.temp[v] # o /\ d.quar[v] # o
        /\ \A v, w \in Txns : d.temp[v] = o => d.quar[w] # o /\ (d.temp[w] = o => w = v)
        /\ \A v, w \in Txns : d.quar[v] = o /\ d.quar[w] = o => w = v
    BY <1>3 DEF Sole
  <2>2. e.target = o => \A v \in Txns : e.temp[v] # o /\ e.quar[v] # o
    BY <1>0, <1>1, <2>1
  <2>3. \A v, w \in Txns : e.temp[v] = o => e.quar[w] # o /\ (e.temp[w] = o => w = v)
    BY <1>0, <1>1, <2>1
  <2>4. \A v, w \in Txns : e.quar[v] = o /\ e.quar[w] = o => w = v
    BY <1>0, <1>1, <2>1
  <2> QED BY <2>2, <2>3, <2>4 DEF Sole
<1> QED BY <1>1, <1>2, <1>3

\* Every step of a transaction but the first write only moves names.
LEMMA CommitShuffles ==
    ASSUME TypeOK, NEW t \in Txns, Commit(t)
    PROVE  \/ Shuffle(t, dir, dir')
           \/ pc[t] = "locked" /\ dir' = [dir EXCEPT !.temp[t] = t] /\ pc'[t] = "written"
<1> USE DEF Shuffle, SetDir, KeepDir
<1>1. CASE WriteTemp(t)
  BY <1>1 DEF WriteTemp, Ready, Goto, TypeOK
<1>2. CASE Observe(t) \/ Lock(t) \/ CheckCandidate(t) \/ Discard(t) \/ Release(t)
           \/ VerifyDisplaced(t) \/ VerifyAside(t) \/ RecheckCandidate(t) \/ Sync(t)
  BY <1>2 DEF Observe, Lock, CheckCandidate, Discard, Release, VerifyDisplaced,
     VerifyAside, RecheckCandidate, Sync
<1>3. CASE InstallNew(t) \/ UnlinkTemp(t) \/ ExchangeNames(t)
  BY <1>3 DEF InstallNew, UnlinkTemp, ExchangeNames
<1>4. CASE UnlinkDisplaced(t) \/ UndoExchange(t) \/ AsideOurs(t) \/ RestoreDisplaced(t)
  BY <1>4 DEF UnlinkDisplaced, UndoExchange, AsideOurs, RestoreDisplaced
<1>5. CASE MoveAside(t) \/ InstallOverAside(t) \/ Restore(t) \/ UnlinkAside(t)
  BY <1>5 DEF MoveAside, InstallOverAside, Restore, UnlinkAside
<1> QED BY <1>1, <1>2, <1>3, <1>4, <1>5 DEF Commit

-----------------------------------------------------------------------------
(* The order of commits: steps of a transaction. *)

\* The lock, and the order of a call's own steps.
Proceeds(t) ==
    /\ holder' # holder => \/ pc[t] = "observed" /\ holder = None /\ holder' = t
                           \/ pc[t] = "done" /\ pc'[t] = "done" /\ holder = t
    /\ pc'[t] \in Active /\ pc[t] \notin Active => holder = None /\ holder' = t
    /\ pc[t] \notin Early => pc'[t] \notin Early
    /\ seen' # seen => /\ pc[t] = "idle" /\ pc'[t] = "observed" /\ outcome'[t] = outcome[t]
                       /\ seen'[t] = IF dir.target = None THEN Absent ELSE Version(dir.target)
    /\ pc'[t] = "idle" => pc[t] = "idle"
    /\ pc[t] = "idle" => seen'[t] = IF dir.target = None THEN Absent ELSE Version(dir.target)

LEMMA CommitProceeds ==
    ASSUME TypeOK, NEW t \in Txns, Commit(t)
    PROVE  /\ Proceeds(t)
           /\ Turns(t) => (outcome'[t] # "none" => pc'[t] \in {"discard", "unlinkTemp", "done"})
           /\ Turns(t) => (outcome'[t] = "replaced" => pc'[t] = "done")
<1> USE DEF Proceeds, Turns, Active, Phases, Early, Ready, Goto, Report, NoReport, Refuse,
        Escape, TypeOK
<1>1. CASE Observe(t)
  BY <1>1 DEF Observe
<1>2. CASE Lock(t) \/ WriteTemp(t) \/ CheckCandidate(t)
  BY <1>2 DEF Lock, WriteTemp, CheckCandidate
<1>3. CASE InstallNew(t) \/ Sync(t) \/ Discard(t) \/ UnlinkTemp(t) \/ Release(t)
  BY <1>3 DEF InstallNew, Sync, Discard, UnlinkTemp, Release
<1>4. CASE ExchangeNames(t) \/ VerifyDisplaced(t) \/ UnlinkDisplaced(t)
  BY <1>4 DEF ExchangeNames, VerifyDisplaced, UnlinkDisplaced
<1>5. CASE UndoExchange(t) \/ AsideOurs(t) \/ RestoreDisplaced(t)
  BY <1>5 DEF UndoExchange, AsideOurs, RestoreDisplaced
<1>6. CASE MoveAside(t) \/ VerifyAside(t) \/ RecheckCandidate(t)
  BY <1>6 DEF MoveAside, VerifyAside, RecheckCandidate
<1>7. CASE InstallOverAside(t) \/ Restore(t) \/ UnlinkAside(t)
  BY <1>7 DEF InstallOverAside, Restore, UnlinkAside
<1> QED BY <1>1, <1>2, <1>3, <1>4, <1>5, <1>6, <1>7 DEF Commit

LEMMA CommitTurns ==
    ASSUME TypeOK, dir \in since, \A u \in Txns : Turns(u), NEW t \in Txns, Commit(t)
    PROVE  \A u \in Txns : Turns(u)'
<1>1. Proceeds(t) /\ Others(t) /\ UNCHANGED crashed /\ t \notin crashed
  BY CommitProceeds, OthersUntouched, OutsideUntouched
<1>2. Turns(t)'
  <2>1. pc'[t] \in Active => holder' = t
    BY <1>1, ConstantsAssumption DEF Proceeds, Turns, Active
  <2>2. pc'[t] # "idle" => seen'[t] # Unread
    <3>1. Unread # Absent /\ (dir.target # None => Version(dir.target) # Unread)
      BY ConstantsAssumption DEF TypeOK, Version, Objects, Directories
    <3>2. seen[t] # Unread \/ pc[t] = "idle"
      BY DEF Turns
    <3> QED BY <1>1, <3>1, <3>2 DEF Proceeds
  <2> QED BY <2>1, <2>2, CommitProceeds DEF Turns
<1>3. ASSUME NEW u \in Txns, u # t PROVE Turns(u)'
  BY <1>1, <1>3, ConstantsAssumption DEF Turns, Others, Proceeds, Active
<1> QED BY <1>2, <1>3

LEMMA CommitUses ==
    ASSUME TypeOK, dir \in since, NEW t \in Txns, Commit(t), NEW o, Used(o)
    PROVE  Used(o)'
<1>1. Proceeds(t) /\ Others(t) /\ UNCHANGED placed
  BY CommitProceeds, OthersUntouched, OutsideUntouched DEF Outside
<1> QED BY <1>1 DEF Used, Proceeds, Others

LEMMA CommitNamed ==
    ASSUME TypeOK, dir \in since, Named, NEW t \in Txns, Commit(t)
    PROVE  Named'
<1> SUFFICES ASSUME NEW d \in since', NEW o \in Objects
             PROVE  Sole(d, o) /\ (Linked(d, o) => Used(o)')
  BY DEF Named, Sole, Linked
<1>1. Grows /\ dir \in Directories
  BY OthersUntouched DEF TypeOK
<1>2. CASE d \in since
  BY <1>2, CommitUses DEF Named
<1>3. CASE d = dir' /\ Shuffle(t, dir, dir')
  BY <1>1, <1>3, ShuffleSole, CommitUses DEF Named
<1>4. CASE d = dir' /\ ~Shuffle(t, dir, dir')
  <2>1. /\ pc[t] = "locked" /\ pc'[t] = "written" /\ t \in Objects /\ t \notin placed
        /\ dir' = [dir EXCEPT !.temp[t] = t]
    BY <1>4, CommitShuffles, ConstantsAssumption DEF Objects, TypeOK
  <2>2. ~Linked(dir, t)
    BY <2>1 DEF Named, Used, Early
  <2>3. /\ dir'.target = dir.target /\ dir'.quar = dir.quar /\ dir'.temp[t] = t
        /\ \A v \in Txns : v # t => dir'.temp[v] = dir.temp[v]
    BY <1>1, <2>1 DEF Directories
  <2>4. CASE o = t
    <3>1. Sole(dir', o)
      BY <2>2, <2>3, <2>4 DEF Sole, Linked
    <3>2. Used(o)'
      BY <2>1, <2>4 DEF Used, Early
    <3> QED BY <1>4, <3>1, <3>2
  <2>5. CASE o # t
    <3>1. Sole(dir', o) /\ (Linked(dir', o) => Linked(dir, o))
      <4>1. Sole(dir, o)
        BY DEF Named
      <4>2. \A v \in Txns : dir'.temp[v] = o => dir.temp[v] = o /\ v # t
        BY <2>3, <2>5
      <4> QED BY <2>3, <4>1, <4>2 DEF Sole, Linked
    <3> QED BY <1>4, <3>1, CommitUses DEF Named
  <2> QED BY <2>4, <2>5
<1> QED BY <1>1, <1>2, <1>3, <1>4 DEF Grows

\* An object that is not where a transaction moves things stays where it is.
LEMMA ElsewhereStays ==
    ASSUME TypeOK, dir \in since, NEW t \in Txns, Commit(t), NEW u \in Txns \ {t},
           NEW o \in Objects, Used(o)
    PROVE  /\ OnlyTemp(u, o) => OnlyTemp(u, o)'
           /\ OnlyQuar(u, o) => OnlyQuar(u, o)'
           /\ ~Linked(dir, o) => ~Linked(dir', o)
<1>0. dir \in Directories /\ o # None
  BY ConstantsAssumption DEF TypeOK, Objects
<1>1. CASE Shuffle(t, dir, dir')
  <2>1. /\ \A v \in Txns \ {t} : dir'.temp[v] = dir.temp[v] /\ dir'.quar[v] = dir.quar[v]
        /\ ~Linked(dir, o) => ~Linked(dir', o)
    BY <1>0, <1>1, ShuffleSole
  <2>2. dir.target # o /\ dir.temp[t] # o /\ dir.quar[t] # o =>
           dir'.target # o /\ dir'.temp[t] # o /\ dir'.quar[t] # o
    BY <1>0, <1>1, ShuffleParts DEF Shuffled
  <2> QED BY <2>1, <2>2 DEF OnlyTemp, OnlyQuar
<1>2. CASE pc[t] = "locked" /\ dir' = [dir EXCEPT !.temp[t] = t]
  <2>1. o # t
    BY <1>2, ConstantsAssumption DEF Used, Early, TypeOK
  <2>2. /\ dir'.target = dir.target /\ dir'.quar = dir.quar /\ dir'.temp[t] = t
        /\ \A v \in Txns : v # t => dir'.temp[v] = dir.temp[v]
    BY <1>0, <1>2 DEF Directories
  <2> QED BY <2>1, <2>2 DEF OnlyTemp, OnlyQuar, Linked
<1> QED BY <1>1, <1>2, CommitShuffles

\* A definite expectation names an object.
LEMMA SeenObject ==
    ASSUME TypeOK, NEW t \in Txns, seen[t] \notin Vague
    PROVE  seen[t][1] \in Objects
BY DEF TypeOK, Vague

\* The object a call confirmed stays under the one name it moved it to.
LEMMA OwnDisplaces ==
    ASSUME TypeOK, dir \in since, Named, NEW t \in Txns, Turns(t), Displaces(t), Commit(t)
    PROVE  Displaces(t)'
<1> SUFFICES ASSUME seen'[t] \notin Vague PROVE Displaces(t)'
  BY DEF Displaces
<1>0. dir \in Directories /\ t \notin crashed
  BY OutsideUntouched DEF TypeOK
<1>1. CASE Observe(t)
  <2>1. dir.target # None /\ seen'[t] = Version(dir.target) /\ dir.target \in Objects
    BY <1>0, <1>1 DEF Observe, Vague, TypeOK, Directories
  <2>2. Used(dir.target)
    BY <2>1 DEF Named, Linked
  <2>3. seen'[t][1] = dir.target
    BY <2>1 DEF Version
  <2>4. Used(dir.target)'
    <3>1. PICK o : o = dir.target
      OBVIOUS
    <3>2. Used(o)'
      BY <2>2, <3>1, CommitUses
    <3>3. dir' = dir
      BY <1>1 DEF Observe, KeepDir
    <3> QED BY <3>1, <3>2, <3>3
  <2>5. pc'[t] = "observed" /\ outcome'[t] # "replaced" /\ dir' = dir
    BY <1>1 DEF Observe, Goto, NoReport, KeepDir, Turns, Ready, TypeOK
  <2> QED BY <2>3, <2>4, <2>5 DEF Displaces
<1>2. ASSUME ~Observe(t) PROVE Displaces(t)'
  <2>1. seen' = seen
    BY <1>2 DEF Commit, Lock, WriteTemp, CheckCandidate, InstallNew, Sync, Discard,
       UnlinkTemp, Release, ExchangeNames, VerifyDisplaced, UnlinkDisplaced,
       UndoExchange, AsideOurs, RestoreDisplaced, MoveAside, VerifyAside,
       RecheckCandidate, InstallOverAside, Restore, UnlinkAside
  <2>2. PICK o \in Objects : o = seen[t][1]
    BY <2>1, SeenObject
  <2>3. /\ Used(o)' /\ Sole(dir, o) /\ seen[t] \notin Vague /\ seen'[t] = seen[t]
        /\ pc[t] = "matched" => OnlyTemp(t, o)
        /\ pc[t] \in {"recheck", "install", "unlinkAside"} => OnlyQuar(t, o)
        /\ pc[t] = "sync" => ~Linked(dir, o)
        /\ outcome[t] = "replaced" => Gone(o) /\ pc[t] = "done"
        /\ \A p : Matches(t, p) => p = o
        /\ seen[t] # Absent /\ o # None
    BY <1>0, <2>1, <2>2, CommitUses, ConstantsAssumption
       DEF Displaces, Named, Turns, Matches, Version, Vague, Objects
  <2> SUFFICES /\ pc'[t] = "matched" => OnlyTemp(t, o)'
               /\ pc'[t] \in {"recheck", "install", "unlinkAside"} => OnlyQuar(t, o)'
               /\ pc'[t] = "sync" => ~Linked(dir', o)
               /\ outcome'[t] = "replaced" => Gone(o)'
    BY <2>2, <2>3 DEF Displaces
  <2> USE DEF Ready, Goto, Report, NoReport, Refuse, Escape, KeepDir, TypeOK
  <2>4. CASE Lock(t) \/ WriteTemp(t) \/ CheckCandidate(t) \/ InstallNew(t) \/ Discard(t) \/ UnlinkTemp(t)
    BY <2>3, <2>4 DEF Lock, WriteTemp, CheckCandidate, InstallNew, Discard, UnlinkTemp
  <2>5. CASE Sync(t) \/ Release(t)
    BY <2>3, <2>5 DEF Sync, Release, Gone
  <2>6. CASE VerifyDisplaced(t) \/ VerifyAside(t) \/ RecheckCandidate(t)
    BY <2>3, <2>6 DEF VerifyDisplaced, VerifyAside, RecheckCandidate, OnlyTemp, OnlyQuar, Sole
  <2>7. CASE UnlinkDisplaced(t)
    BY <2>3, <2>7 DEF UnlinkDisplaced, SetDir, OnlyTemp, Linked, Directories
  <2>8. CASE InstallOverAside(t)
    <3>1. CASE pc'[t] = "unlinkAside"
      <4>1. /\ dir' = [dir EXCEPT !.target = dir.temp[t], !.temp[t] = None]
            /\ OnlyQuar(t, o) /\ outcome'[t] = outcome[t]
        BY <2>3, <2>8, <3>1 DEF InstallOverAside, SetDir
      <4>2. /\ dir'.target = dir.temp[t] /\ dir'.quar = dir.quar /\ dir'.temp[t] = None
            /\ \A v \in Txns : v # t => dir'.temp[v] = dir.temp[v]
        BY <1>0, <4>1 DEF Directories
      <4>3. OnlyQuar(t, o)'
        BY <2>3, <4>1, <4>2 DEF OnlyQuar
      <4> QED BY <2>3, <2>8, <3>1, <4>1, <4>3 DEF InstallOverAside
    <3>2. CASE pc'[t] # "unlinkAside"
      BY <2>3, <2>8, <3>2 DEF InstallOverAside
    <3> QED BY <3>1, <3>2
  <2>9. CASE UnlinkAside(t)
    BY <2>3, <2>9 DEF UnlinkAside, SetDir, OnlyQuar, Linked, Directories
  <2>10. CASE ExchangeNames(t) \/ UndoExchange(t) \/ AsideOurs(t) \/ RestoreDisplaced(t) \/ MoveAside(t) \/ Restore(t)
    BY <2>3, <2>10 DEF ExchangeNames, UndoExchange, AsideOurs, RestoreDisplaced, MoveAside, Restore
  <2> QED BY <1>2, <2>4, <2>5, <2>6, <2>7, <2>8, <2>9, <2>10 DEF Commit
<1> QED BY <1>1, <1>2

LEMMA OthersDisplaces ==
    ASSUME TypeOK, dir \in since, Named, NEW t \in Txns, Commit(t), NEW u \in Txns \ {t},
           Displaces(u)
    PROVE  Displaces(u)'
<1> SUFFICES ASSUME seen'[u] \notin Vague PROVE Displaces(u)'
  BY DEF Displaces
<1>1. /\ pc'[u] = pc[u] /\ outcome'[u] = outcome[u] /\ seen'[u] = seen[u] /\ crashed' = crashed
      /\ since' \subseteq since \cup {dir'}
  BY OthersUntouched, OutsideUntouched DEF Others, Grows
<1>2. PICK o \in Objects : o = seen[u][1]
  BY <1>1, SeenObject
<1>3. /\ Used(o) /\ Used(o)'
      /\ OnlyTemp(u, o) => OnlyTemp(u, o)'
      /\ OnlyQuar(u, o) => OnlyQuar(u, o)'
      /\ ~Linked(dir, o) => ~Linked(dir', o)
  BY <1>1, <1>2, ElsewhereStays, CommitUses DEF Displaces
<1>4. Gone(o) => Gone(o)'
  BY <1>1, <1>3 DEF Gone
<1> QED BY <1>1, <1>2, <1>3, <1>4 DEF Displaces

\* How a call comes to be confirmed, and to be reported as done.
Confirms(t) ==
    /\ pc'[t] \in Confirmed /\ pc[t] \notin Confirmed =>
          seen[t] = Absent \/ Matches(t, dir.temp[t]) \/ Matches(t, dir.quar[t])
    /\ outcome'[t] = "replaced" /\ outcome[t] # "replaced" => pc[t] = "sync"

LEMMA CommitConfirms ==
    ASSUME TypeOK, NEW t \in Txns, Commit(t)
    PROVE  Confirms(t)
<1> USE DEF Confirms, Confirmed, Ready, Goto, Report, NoReport, Refuse, Escape, TypeOK
<1>1. CASE Observe(t) \/ Lock(t) \/ WriteTemp(t) \/ CheckCandidate(t)
  BY <1>1 DEF Observe, Lock, WriteTemp, CheckCandidate
<1>2. CASE InstallNew(t) \/ Sync(t) \/ Discard(t) \/ UnlinkTemp(t) \/ Release(t)
  BY <1>2 DEF InstallNew, Sync, Discard, UnlinkTemp, Release
<1>3. CASE ExchangeNames(t) \/ VerifyDisplaced(t) \/ UnlinkDisplaced(t)
  BY <1>3 DEF ExchangeNames, VerifyDisplaced, UnlinkDisplaced
<1>4. CASE UndoExchange(t) \/ AsideOurs(t) \/ RestoreDisplaced(t)
  BY <1>4 DEF UndoExchange, AsideOurs, RestoreDisplaced
<1>5. CASE MoveAside(t) \/ VerifyAside(t) \/ RecheckCandidate(t)
  BY <1>5 DEF MoveAside, VerifyAside, RecheckCandidate
<1>6. CASE InstallOverAside(t) \/ Restore(t) \/ UnlinkAside(t)
  BY <1>6 DEF InstallOverAside, Restore, UnlinkAside
<1> QED BY <1>1, <1>2, <1>3, <1>4, <1>5, <1>6 DEF Commit

LEMMA CommitRivals ==
    ASSUME TypeOK, OrderInv, NEW t \in Txns, Commit(t), NEW u \in Txns \ {t}
    PROVE  Rivals(t, u)' /\ Rivals(u, t)'
<1>1. /\ Confirms(t) /\ Proceeds(t) /\ t \notin crashed /\ crashed' = crashed
      /\ pc'[u] = pc[u] /\ outcome'[u] = outcome[u] /\ seen'[u] = seen[u]
      /\ Turns(t) /\ Turns(u) /\ Rivals(t, u) /\ Rivals(u, t) /\ Displaces(u)
      /\ pc[t] \in Phases /\ pc[u] \in Phases
  BY CommitConfirms, CommitProceeds, OthersUntouched, OutsideUntouched
     DEF Others, OrderInv, TypeOK
<1>2. ASSUME outcome'[t] = "replaced", seen'[t] = seen'[u], seen'[t] # Absent
      PROVE  outcome[u] # "replaced" /\ (u \in crashed \/ pc[u] \notin Confirmed)
  <2>1. CASE outcome[t] = "replaced"
    <3>1. seen'[t] = seen[t]
      BY <1>1, <2>1 DEF Turns, Proceeds
    <3> QED BY <1>1, <1>2, <2>1, <3>1 DEF Rivals
  <2>2. CASE outcome[t] # "replaced"
    <3>1. pc[t] = "sync" /\ seen'[t] = seen[t] /\ holder = t
      BY <1>1, <1>2, <2>2 DEF Confirms, Proceeds, Turns, Active, Phases
    <3>2. outcome[u] # "replaced"
      BY <1>1, <1>2, <3>1 DEF Rivals, Confirmed
    <3>3. u \in crashed \/ pc[u] \notin Confirmed
      BY <1>1, <3>1 DEF Turns, Active, Phases, Confirmed
    <3> QED BY <3>2, <3>3
  <2> QED BY <2>1, <2>2
<1>3. ASSUME outcome'[u] = "replaced", seen'[u] = seen'[t], seen'[u] # Absent
      PROVE  outcome'[t] # "replaced" /\ pc'[t] \notin Confirmed
  <2>1. CASE seen' # seen
    BY <1>1, <2>1 DEF Proceeds, Turns, Confirmed
  <2>2. CASE seen' = seen
    <3>1. outcome[t] # "replaced" /\ pc[t] \notin Confirmed
      BY <1>1, <1>3, <2>2 DEF Rivals
    <3>2. outcome'[t] # "replaced"
      BY <1>1, <3>1 DEF Confirms, Confirmed
    <3>3. ASSUME NEW o, Matches(t, o), Linked(dir, o) PROVE FALSE
      <4>1. seen[u] \notin Vague /\ seen[u][1] = o
        <5>1. seen[u] = <<o, edits[o]>>
          BY <1>1, <1>3, <2>2, <3>3 DEF Matches, Version
        <5>2. seen[u] # Unread
          BY <1>1, <1>3 DEF Turns
        <5> QED BY <1>1, <1>3, <2>2, <5>1, <5>2 DEF Vague
      <4>2. Gone(o)
        BY <1>1, <1>3, <4>1 DEF Displaces
      <4> QED BY <3>3, <4>2 DEF Gone, OrderInv
    <3>4. pc'[t] \notin Confirmed
      BY <1>1, <1>3, <2>2, <3>1, <3>3 DEF Confirms, Linked
    <3> QED BY <3>2, <3>4
  <2> QED BY <2>1, <2>2
<1> QED BY <1>1, <1>2, <1>3 DEF Rivals

LEMMA CommitOrder ==
    ASSUME TypeOK, OrderInv, NEW t \in Txns, Commit(t)
    PROVE  OrderInv'
<1> USE DEF OrderInv
<1>1. dir' \in since' /\ Named' /\ \A u \in Txns : Turns(u)'
  BY OthersUntouched, CommitNamed, CommitTurns DEF Grows
<1>2. \A u \in Txns : Displaces(u)'
  BY OwnDisplaces, OthersDisplaces
<1>3. ASSUME NEW v \in Txns, NEW w \in Txns, v # w PROVE Rivals(v, w)'
  <2>1. CASE v = t \/ w = t
    BY <1>3, <2>1, CommitRivals
  <2>2. CASE v # t /\ w # t
    BY <1>3, <2>2, OthersUntouched, OutsideUntouched DEF Rivals, Others
  <2> QED BY <2>1, <2>2
<1> QED BY <1>1, <1>2, <1>3

-----------------------------------------------------------------------------
(* The order of commits: steps of the environment. *)

\* An outside process puts a new document, or nothing, in the place of what a name held.
Intrudes(x) ==
    /\ \/ dir' = [dir EXCEPT !.target = x]
       \/ \E t \in Txns : dir' = [dir EXCEPT !.temp[t] = x]
    /\ SetDir(dir') /\ placed' = placed \cup ({x} \ {None})
    /\ UNCHANGED <<Inside>>

LEMMA IntrusionKeeps ==
    ASSUME TypeOK, NEW x \in (Docs \ placed) \cup {None}, Intrudes(x), NEW o \in Objects, o # x
    PROVE  /\ Sole(dir, o) => Sole(dir, o)'
           /\ Linked(dir', o) => Linked(dir, o)
           /\ \A u \in Txns : (OnlyTemp(u, o) => OnlyTemp(u, o)') /\ (OnlyQuar(u, o) => OnlyQuar(u, o)')
<1>1. /\ dir'.target \in {dir.target, x} /\ dir'.quar = dir.quar
      /\ \A v \in Txns : dir'.temp[v] \in {dir.temp[v], x}
  BY DEF Intrudes, TypeOK, Directories
<1>2. Linked(dir', o) => Linked(dir, o)
  BY <1>1 DEF Linked
<1>3. Sole(dir, o) => Sole(dir, o)'
  BY <1>1 DEF Sole
<1>4. ASSUME NEW u \in Txns
      PROVE  (OnlyTemp(u, o) => OnlyTemp(u, o)') /\ (OnlyQuar(u, o) => OnlyQuar(u, o)')
  BY <1>1 DEF OnlyTemp, OnlyQuar
<1> QED BY <1>2, <1>3, <1>4

LEMMA IntrusionOrder ==
    ASSUME TypeOK, OrderInv, NEW x \in (Docs \ placed) \cup {None}, Intrudes(x)
    PROVE  OrderInv'
<1> USE DEF OrderInv
<1>1. /\ UNCHANGED <<seen, pc, holder, outcome, recovery, crashed>>
      /\ dir' \in since' /\ since' \subseteq since \cup {dir'} /\ placed \subseteq placed'
      /\ x # None => x \in placed'
  BY DEF Intrudes, Inside, SetDir, TypeOK
<1>2. \A o : Used(o) => Used(o)'
  BY <1>1 DEF Used
<1>3. x \in Objects => ~Used(x) /\ \A d \in since : ~Linked(d, x)
  BY ConstantsAssumption DEF Used, Named, Objects
<1>4. Named'
  <2> SUFFICES ASSUME NEW d \in since', NEW o \in Objects
               PROVE  Sole(d, o) /\ (Linked(d, o) => Used(o)')
    BY DEF Named, Sole, Linked
  <2>1. CASE d \in since
    BY <1>2, <2>1 DEF Named
  <2>2. CASE d = dir' /\ o # x
    <3>1. Sole(dir, o)' /\ (Linked(dir', o) => Linked(dir, o))
      BY <2>2, IntrusionKeeps DEF Named
    <3>2. Sole(dir', o)
      BY <3>1 DEF Sole
    <3> QED BY <1>2, <2>2, <3>1, <3>2 DEF Named
  <2>3. CASE d = dir' /\ o = x
    <3>1. Used(o)'
      BY <1>1, <2>3, ConstantsAssumption DEF Used, Objects
    <3>2. Sole(dir', o)
      <4>1. ~Linked(dir, o)
        BY <1>3, <2>3
      <4>2. CASE dir' = [dir EXCEPT !.target = x]
        BY <2>3, <4>1, <4>2 DEF Linked, Sole, TypeOK, Directories
      <4>3. ASSUME NEW t \in Txns, dir' = [dir EXCEPT !.temp[t] = x] PROVE Sole(dir', o)
        <5>1. /\ dir'.target = dir.target /\ dir'.quar = dir.quar
              /\ \A v \in Txns : v # t => dir'.temp[v] = dir.temp[v]
          BY <4>3 DEF TypeOK, Directories
        <5> QED BY <4>1, <5>1 DEF Linked, Sole
      <4> QED BY <4>2, <4>3 DEF Intrudes
    <3> QED BY <2>3, <3>1, <3>2
  <2> QED BY <1>1, <2>1, <2>2, <2>3
<1>5. ASSUME NEW t \in Txns PROVE Turns(t)'
  BY <1>1 DEF Turns
<1>6. ASSUME NEW t \in Txns PROVE Displaces(t)'
  <2> SUFFICES ASSUME seen[t] \notin Vague PROVE Displaces(t)'
    BY <1>1 DEF Displaces
  <2>1. PICK o \in Objects : o = seen[t][1]
    BY SeenObject
  <2>2. Used(o) /\ o # x
    BY <1>3, <2>1 DEF Displaces
  <2>3. /\ OnlyTemp(t, o) => OnlyTemp(t, o)'
        /\ OnlyQuar(t, o) => OnlyQuar(t, o)'
        /\ ~Linked(dir, o) => ~Linked(dir', o)
    BY <2>2, IntrusionKeeps
  <2>4. Gone(o) => Gone(o)'
    BY <1>1, <2>3 DEF Gone
  <2> QED BY <1>1, <1>2, <2>1, <2>2, <2>3, <2>4 DEF Displaces
<1>7. ASSUME NEW t \in Txns, NEW u \in Txns, t # u PROVE Rivals(t, u)'
  BY <1>1, <1>7 DEF Rivals
<1> QED BY <1>1, <1>4, <1>5, <1>6, <1>7

LEMMA PowerCutOrder ==
    ASSUME TypeOK, OrderInv, PowerCut
    PROVE  OrderInv'
<1> USE DEF OrderInv
<1>1. /\ UNCHANGED <<outcome, seen, pc, placed>> /\ dir' \in since /\ since' = {dir'}
      /\ crashed' = crashed \cup {t \in Txns : pc[t] \notin {"idle", "done"}}
  BY DEF PowerCut, NoReport
<1>2. Named'
  BY <1>1 DEF Named, Sole, Linked, Used
<1>3. ASSUME NEW t \in Txns PROVE Turns(t)'
  <2>1. Turns(t) /\ (pc[t] \in Active => t \in crashed')
    BY <1>1 DEF Active
  <2> QED BY <1>1, <2>1 DEF Turns
<1>4. ASSUME NEW t \in Txns PROVE Displaces(t)'
  <2>1. pc[t] \in {"matched", "recheck", "install", "unlinkAside", "sync"} => t \in crashed'
    BY <1>1
  <2>2. \A o : (Used(o) => Used(o)') /\ (Gone(o) => Gone(o)')
    BY <1>1 DEF Used, Gone, Linked
  <2> QED BY <1>1, <2>1, <2>2 DEF Displaces
<1>5. ASSUME NEW t \in Txns, NEW u \in Txns, t # u PROVE Rivals(t, u)'
  BY <1>1, <1>5 DEF Rivals
<1> QED BY <1>1, <1>2, <1>3, <1>4, <1>5

LEMMA EnvironmentOrder ==
    ASSUME TypeOK, OrderInv, Environment
    PROVE  OrderInv'
<1>1. CASE \E o \in Docs : OutsidePut(o)
  <2>1. PICK o \in Docs : OutsidePut(o)
    BY <1>1
  <2>2. o \in (Docs \ placed) \cup {None} /\ Intrudes(o)
    <3>1. o # None /\ o \notin placed
      BY <2>1, ConstantsAssumption DEF OutsidePut
    <3> QED BY <2>1, <3>1 DEF OutsidePut, Intrudes, SetDir
  <2> QED BY <2>2, IntrusionOrder
<1>2. CASE OutsideRemove
  <2>1. Intrudes(None)
    BY <1>2 DEF OutsideRemove, Intrudes, SetDir
  <2> QED BY <2>1, IntrusionOrder
<1>3. CASE \E t \in Txns : OutsideTemp(t)
  <2>1. PICK t \in Txns : OutsideTemp(t)
    BY <1>3
  <2>2. PICK o \in (Docs \ placed) \cup {None} :
           SetDir([dir EXCEPT !.temp[t] = o]) /\ placed' = placed \cup ({o} \ {None})
    BY <2>1 DEF OutsideTemp
  <2>3. Intrudes(o)
    BY <2>1, <2>2 DEF OutsideTemp, Intrudes, SetDir
  <2> QED BY <2>3, IntrusionOrder
<1>4. CASE EditorOpen \/ EditorWrite
  <2>1. UNCHANGED <<dir, since, Inside, placed>>
    BY <1>4 DEF EditorOpen, EditorWrite, KeepDir, Inside
  <2>2. \A o : (Used(o)' <=> Used(o)) /\ (Gone(o)' <=> Gone(o)) /\ (Linked(dir, o)' <=> Linked(dir, o))
    BY <2>1 DEF Used, Gone, Linked, Inside
  <2>3. \A t \in Txns : Displaces(t)'
    BY <2>1, <2>2 DEF OrderInv, Displaces, OnlyTemp, OnlyQuar, Inside
  <2>4. Named'
    BY <2>1, <2>2 DEF OrderInv, Named, Sole, Linked, Inside
  <2> QED BY <2>1, <2>3, <2>4 DEF OrderInv, Turns, Rivals, Inside
<1>5. CASE \E c \in Txns : Crash(c)
  <2>1. PICK c \in Txns : Crash(c)
    BY <1>5
  <2>2. /\ UNCHANGED <<dir, since, seen, pc, outcome, placed>> /\ crashed' = crashed \cup {c}
        /\ holder' = IF holder = c THEN None ELSE holder
    BY <2>1 DEF Crash, KeepDir, NoReport, Outside
  <2>3. \A o : (Used(o)' <=> Used(o)) /\ (Gone(o)' <=> Gone(o)) /\ (Linked(dir, o)' <=> Linked(dir, o))
    BY <2>2 DEF Used, Gone, Linked
  <2>4. \A t \in Txns : Displaces(t)'
    BY <2>2, <2>3 DEF OrderInv, Displaces, OnlyTemp, OnlyQuar
  <2>5. Named'
    BY <2>2, <2>3 DEF OrderInv, Named, Sole, Linked
  <2> QED BY <2>2, <2>4, <2>5 DEF OrderInv, Turns, Rivals
<1>6. CASE PowerCut
  BY <1>6, PowerCutOrder
<1> QED BY <1>1, <1>2, <1>3, <1>4, <1>5, <1>6 DEF Environment

LEMMA OrderAlways == Spec => []OrderInv
<1>1. Init => OrderInv
  <2> SUFFICES ASSUME Init PROVE OrderInv
    OBVIOUS
  <2>1. \A o \in Objects : Sole(dir, o) /\ (Linked(dir, o) => Used(o))
    BY ConstantsAssumption DEF Init, Sole, Linked, Used, Objects
  <2>2. \A t \in Txns : Turns(t) /\ Displaces(t)
    BY DEF Init, Turns, Displaces, Vague, Active
  <2> QED BY <2>1, <2>2 DEF OrderInv, Init, Named, Rivals
<1>2. TypeOK /\ OrderInv /\ [Next]_vars => OrderInv'
  <2>1. TypeOK /\ OrderInv /\ UNCHANGED vars => OrderInv'
    <3> SUFFICES ASSUME OrderInv, UNCHANGED vars PROVE OrderInv'
      OBVIOUS
    <3>1. \A o : (Used(o)' <=> Used(o)) /\ (Gone(o)' <=> Gone(o)) /\ (Linked(dir, o)' <=> Linked(dir, o))
      BY DEF vars, Used, Gone, Linked
    <3>2. Named' /\ \A t \in Txns : Displaces(t)'
      BY <3>1 DEF vars, OrderInv, Named, Sole, Linked, Displaces, OnlyTemp, OnlyQuar
    <3> QED BY <3>2 DEF vars, OrderInv, Turns, Rivals
  <2> QED BY <2>1, CommitOrder, EnvironmentOrder DEF Next
<1> QED BY <1>1, <1>2, TypeCorrect, PTL DEF Spec

\* "A returning call means the new document is durable": whichever directory
\* a power cut after it brings back, the new document is there, and what it
\* replaced is not (_finish_commit).
THEOREM ReturnedIsDurable == Spec => []Durable
<1>1. TypeOK /\ OrderInv /\ PreservedInv => Durable
  <2> SUFFICES ASSUME TypeOK, OrderInv, PreservedInv, NEW t \in Txns, outcome[t] = "replaced",
                      WholeFilesOnly, NEW d \in since
               PROVE  /\ Linked(d, t) \/ t \in forsaken \/ Superseded(t)
                      /\ \A o \in Objects : seen[t] = Version(o) => ~Linked(d, o)
    BY DEF Durable
  <2>1. Safe(d, t)
    BY DEF PreservedInv, Durables
  <2>2. ASSUME NEW o \in Objects, seen[t] = Version(o) PROVE ~Linked(d, o)
    <3>1. seen[t] \notin Vague /\ seen[t][1] = o
      BY <2>2, ConstantsAssumption DEF Version, Vague, TypeOK, Objects
    <3>2. Gone(o)
      BY <3>1 DEF OrderInv, Displaces
    <3> QED BY <3>2 DEF Gone
  <2> QED BY <2>1, <2>2 DEF Safe
<1> QED BY <1>1, TypeCorrect, OrderAlways, PreservedAlways, PTL

-----------------------------------------------------------------------------
(* Refusals.  A candidate that may still be refused is under its temporary *)
(* name or in the exchange its own call is about to undo.                  *)

\* Phases of a candidate under its temporary name.
Pending == {"written", "checked", "fallback", "aside", "recheck", "install", "restore"}

\* A candidate that has not been installed, or is about to be taken back.
Refused(t) ==
    /\ pc[t] \in Pending \/ outcome[t] = "conflict" => OnlyTemp(t, t)
    /\ pc[t] \in {"exchanged", "undo"} /\ t \notin crashed =>
          \A v \in Txns : dir.temp[v] # t /\ dir.quar[v] # t

RefusedInv == ~PowerCuts => \A t \in Txns : Refused(t)

\* The candidate of the call that acts.
LEMMA OwnRefused ==
    ASSUME TypeOK, OrderInv, NEW t \in Txns, Refused(t), Commit(t)
    PROVE  Refused(t)'
<1>0. /\ dir \in Directories /\ t \notin crashed /\ t \in Objects /\ t # None
      /\ pc[t] \in Phases
  BY OutsideUntouched, ConstantsAssumption DEF TypeOK, Objects
<1>1. /\ Turns(t) /\ (pc[t] \in Early => ~Linked(dir, t))
      /\ Sole(dir, t)
  BY <1>0, ConstantsAssumption DEF OrderInv, Named, Used, TypeOK
<1>2. /\ pc[t] \in Pending \/ outcome[t] = "conflict" => OnlyTemp(t, t)
      /\ pc[t] \in {"exchanged", "undo"} => \A v \in Txns : dir.temp[v] # t /\ dir.quar[v] # t
      /\ outcome[t] # "none" => pc[t] \in {"discard", "unlinkTemp", "done"}
  BY <1>0, <1>1 DEF Refused, Turns
<1> SUFFICES /\ pc'[t] \in Pending \/ outcome'[t] = "conflict" => OnlyTemp(t, t)'
             /\ pc'[t] \in {"exchanged", "undo"} => \A v \in Txns : dir'.temp[v] # t /\ dir'.quar[v] # t
  BY DEF Refused
<1> USE DEF Ready, Goto, Report, NoReport, Refuse, Escape, KeepDir, SetDir, Pending, TypeOK
<1>3. CASE Observe(t) \/ Lock(t) \/ CheckCandidate(t) \/ Sync(t) \/ Discard(t) \/ Release(t)
  BY <1>2, <1>3 DEF Observe, Lock, CheckCandidate, Sync, Discard, Release, OnlyTemp
<1>4. CASE VerifyDisplaced(t) \/ VerifyAside(t) \/ RecheckCandidate(t)
  BY <1>2, <1>4 DEF VerifyDisplaced, VerifyAside, RecheckCandidate, OnlyTemp
<1>5. CASE dir' = [dir EXCEPT !.temp[t] = t] /\ pc[t] = "locked" /\ pc'[t] = "written"
  <2>1. /\ dir'.target = dir.target /\ dir'.quar = dir.quar
        /\ \A v \in Txns : v # t => dir'.temp[v] = dir.temp[v]
    BY <1>0, <1>5 DEF Directories
  <2> QED BY <1>1, <1>5, <2>1 DEF OnlyTemp, Linked, Early
<1>6. CASE WriteTemp(t)
  BY <1>2, <1>5, <1>6 DEF WriteTemp
<1>7. CASE InstallNew(t) \/ UnlinkTemp(t) \/ UnlinkDisplaced(t)
  <2>1. CASE dir' = dir
    BY <1>2, <1>7, <2>1 DEF InstallNew, UnlinkTemp, UnlinkDisplaced, OnlyTemp
  <2>2. CASE UnlinkTemp(t) /\ dir' = [dir EXCEPT !.temp[t] = None]
    <3>1. /\ dir'.target = dir.target /\ dir'.quar = dir.quar
          /\ \A v \in Txns : v # t => dir'.temp[v] = dir.temp[v]
      BY <1>0, <2>2 DEF Directories
    <3> QED BY <1>2, <2>2, <3>1 DEF UnlinkTemp, OnlyTemp
  <2>3. CASE pc'[t] = "sync" /\ outcome'[t] # "conflict"
    BY <2>3
  <2>4. ~UnlinkTemp(t) /\ dir' # dir => pc'[t] = "sync" /\ outcome'[t] # "conflict"
    BY <1>2, <1>7 DEF InstallNew, UnlinkDisplaced
  <2>5. UnlinkTemp(t) => dir' = dir \/ dir' = [dir EXCEPT !.temp[t] = None]
    BY DEF UnlinkTemp
  <2> QED BY <2>1, <2>2, <2>3, <2>4, <2>5
<1>8. CASE ExchangeNames(t) \/ UndoExchange(t)
  <2> DEFINE swap == dir' = [dir EXCEPT !.target = dir.temp[t], !.temp[t] = dir.target]
  <2>1. ExchangeNames(t) => /\ pc[t] = "checked"
                            /\ \/ swap /\ pc'[t] = "exchanged" /\ outcome'[t] # "conflict"
                               \/ dir' = dir /\ pc'[t] \in {"discard", "fallback"}
    BY <1>2 DEF ExchangeNames
  <2>2. UndoExchange(t) => /\ pc[t] = "undo"
                           /\ \/ swap /\ pc'[t] = "discard"
                              \/ dir' = dir /\ pc'[t] = "undoFailed" /\ outcome'[t] # "conflict"
    BY <1>2 DEF UndoExchange
  <2>3. swap => /\ dir'.target = dir.temp[t] /\ dir'.quar = dir.quar /\ dir'.temp[t] = dir.target
                /\ \A v \in Txns : v # t => dir'.temp[v] = dir.temp[v]
    BY <1>0 DEF Directories
  <2> HIDE DEF swap
  <2>4. CASE ExchangeNames(t)
    BY <1>2, <2>1, <2>3, <2>4 DEF OnlyTemp
  <2>5. CASE UndoExchange(t)
    BY <1>2, <2>2, <2>3, <2>5 DEF OnlyTemp
  <2> QED BY <1>8, <2>4, <2>5
<1>9. CASE AsideOurs(t) \/ RestoreDisplaced(t)
  BY <1>2, <1>9 DEF AsideOurs, RestoreDisplaced
<1>10. CASE MoveAside(t)
  <2>1. CASE dir' = dir
    BY <1>2, <1>10, <2>1 DEF MoveAside, OnlyTemp
  <2>2. CASE dir' # dir
    <3>1. dir' = [dir EXCEPT !.target = None, !.quar[t] = dir.target] /\ OnlyTemp(t, t) /\ pc'[t] = "aside"
      BY <1>2, <1>10, <2>2 DEF MoveAside
    <3>2. /\ dir'.target = None /\ dir'.temp = dir.temp /\ dir'.quar[t] = dir.target
          /\ \A v \in Txns : v # t => dir'.quar[v] = dir.quar[v]
      BY <1>0, <3>1 DEF Directories
    <3> QED BY <1>0, <3>1, <3>2 DEF OnlyTemp
  <2> QED BY <2>1, <2>2
<1>11. CASE InstallOverAside(t)
  BY <1>2, <1>11 DEF InstallOverAside, OnlyTemp
<1>12. CASE Restore(t)
  <2>1. CASE dir' = dir
    BY <1>2, <1>12, <2>1 DEF Restore, OnlyTemp
  <2>2. CASE dir' # dir
    <3>1. dir' = [dir EXCEPT !.target = dir.quar[t], !.quar[t] = None] /\ OnlyTemp(t, t) /\ pc'[t] = "discard"
      BY <1>2, <1>12, <2>2 DEF Restore
    <3>2. /\ dir'.target = dir.quar[t] /\ dir'.temp = dir.temp /\ dir'.quar[t] = None
          /\ \A v \in Txns : v # t => dir'.quar[v] = dir.quar[v]
      BY <1>0, <3>1 DEF Directories
    <3> QED BY <1>0, <3>1, <3>2 DEF OnlyTemp
  <2> QED BY <2>1, <2>2
<1>13. CASE UnlinkAside(t)
  BY <1>2, <1>13 DEF UnlinkAside
<1> QED BY <1>3, <1>4, <1>6, <1>7, <1>8, <1>9, <1>10, <1>11, <1>12, <1>13 DEF Commit

\* The candidate of another call: it is kept out of the target under its own
\* name, or by the lock.
LEMMA OthersRefused ==
    ASSUME TypeOK, OrderInv, NEW t \in Txns, Commit(t), NEW u \in Txns \ {t}, Refused(u)
    PROVE  Refused(u)'
<1>1. /\ pc'[u] = pc[u] /\ outcome'[u] = outcome[u] /\ crashed' = crashed /\ t \notin crashed
      /\ Turns(t) /\ Turns(u) /\ u \in Objects /\ pc[u] \in Phases /\ pc[t] \in Phases
  BY OthersUntouched, OutsideUntouched DEF Others, OrderInv, Objects, TypeOK
<1>2. pc[u] \in Pending \/ outcome[u] = "conflict" => OnlyTemp(u, u)'
  <2>1. pc[u] \in Pending \/ outcome[u] = "conflict" => Used(u)
    BY <1>1 DEF Pending, Turns, Used, Early
  <2> QED BY <1>1, <2>1, ElsewhereStays DEF Refused, OrderInv
<1>3. ASSUME pc[u] \in {"exchanged", "undo"}, u \notin crashed
      PROVE  \A v \in Txns : dir'.temp[v] # u /\ dir'.quar[v] # u
  <2>1. holder = u
    BY <1>1, <1>3 DEF Turns, Active, Phases
  <2>2. pc[t] \in {"idle", "observed", "done"}
    BY <1>1, <2>1 DEF Turns, Active
  <2>3. dir' = dir
    BY <2>2 DEF Commit, Observe, Lock, WriteTemp, CheckCandidate, InstallNew, Sync, Discard,
       UnlinkTemp, Release, ExchangeNames, VerifyDisplaced, UnlinkDisplaced,
       UndoExchange, AsideOurs, RestoreDisplaced, MoveAside, VerifyAside,
       RecheckCandidate, InstallOverAside, Restore, UnlinkAside, Ready, KeepDir
  <2> QED BY <1>3, <2>3 DEF Refused
<1> QED BY <1>1, <1>2, <1>3 DEF Refused

\* A step of the environment short of a power cut: the directory as it was, or
\* with one name given to a document nobody has seen, or to nothing.
Meddles ==
    /\ UNCHANGED <<seen, pc, outcome, recovery>> /\ crashed \subseteq crashed'
    /\ holder' \in {holder, None}
    /\ \/ dir' = dir
       \/ \E x \in (Docs \ placed) \cup {None} : Intrudes(x)

LEMMA EnvironmentMeddles ==
    ASSUME TypeOK, Environment, ~PowerCuts
    PROVE  Meddles
<1>1. CASE \E o \in Docs : OutsidePut(o)
  BY <1>1, ConstantsAssumption DEF OutsidePut, Intrudes, SetDir, Meddles, Inside
<1>2. CASE OutsideRemove
  BY <1>2 DEF OutsideRemove, Intrudes, SetDir, Meddles, Inside
<1>3. CASE \E t \in Txns : OutsideTemp(t)
  BY <1>3 DEF OutsideTemp, Intrudes, SetDir, Meddles, Inside
<1>4. CASE EditorOpen \/ EditorWrite
  BY <1>4 DEF EditorOpen, EditorWrite, KeepDir, Meddles, Inside
<1>5. CASE \E c \in Txns : Crash(c)
  BY <1>5 DEF Crash, KeepDir, NoReport, Meddles
<1> QED BY <1>1, <1>2, <1>3, <1>4, <1>5 DEF Environment, PowerCut

LEMMA EnvironmentRefused ==
    ASSUME TypeOK, Meddles, NEW t \in Txns, Refused(t)
    PROVE  Refused(t)'
<1>1. CASE dir' = dir
  BY <1>1 DEF Meddles, Refused, OnlyTemp
<1>2. ASSUME NEW x \in (Docs \ placed) \cup {None}, Intrudes(x) PROVE Refused(t)'
  <2>1. t \in Objects /\ t # x
    BY ConstantsAssumption DEF Objects
  <2>2. OnlyTemp(t, t) => OnlyTemp(t, t)'
    BY <1>2, <2>1, IntrusionKeeps
  <2>3. dir'.quar = dir.quar /\ \A v \in Txns : dir'.temp[v] \in {dir.temp[v], x}
    BY <1>2 DEF Intrudes, TypeOK, Directories
  <2> QED BY <2>1, <2>2, <2>3 DEF Meddles, Refused
<1> QED BY <1>1, <1>2 DEF Meddles

\* "OccupantConflict means nothing was replaced": short of a power cut, a
\* refused candidate never is the document again, whoever moves things in
\* the directory afterwards.
THEOREM RefusedStaysOut == Spec => []RefusedNotInstalled
<1>1. Init => RefusedInv
  BY ConstantsAssumption DEF Init, RefusedInv, Refused, Pending
<1>2. TypeOK /\ OrderInv /\ RefusedInv /\ [Next]_vars => RefusedInv'
  <2> SUFFICES ASSUME TypeOK, OrderInv, RefusedInv, [Next]_vars, ~PowerCuts', NEW t \in Txns
               PROVE  Refused(t)'
    BY DEF RefusedInv
  <2>1. CASE UNCHANGED vars
    BY <2>1 DEF vars, RefusedInv, Refused, OnlyTemp, PowerCuts
  <2>2. ASSUME NEW u \in Txns, Commit(u) PROVE Refused(t)'
    <3>1. ~PowerCuts
      BY <2>2 DEF Commit, PowerCuts
    <3> QED BY <2>2, <3>1, OwnRefused, OthersRefused DEF RefusedInv
  <2>3. CASE Environment
    <3>1. ~PowerCuts
      BY <2>3 DEF Environment, PowerCuts
    <3> QED BY <2>3, <3>1, EnvironmentMeddles, EnvironmentRefused DEF RefusedInv
  <2> QED BY <2>1, <2>2, <2>3 DEF Next
<1>3. RefusedInv => RefusedNotInstalled
  BY DEF RefusedInv, RefusedNotInstalled, Refused, OnlyTemp
<1> QED BY <1>1, <1>2, <1>3, TypeCorrect, OrderAlways, PTL DEF Spec

-----------------------------------------------------------------------------
(* Names of displaced objects on the quarantine path. *)

\* The surroundings of QuarantineNamed.
Quarantine == WholeFilesOnly /\ ~Exchange /\ ~Faults /\ ~PowerCuts

\* Phases with an object under the quarantine name.
Aside == {"aside", "recheck", "install", "restore", "unlinkAside"}

\* What is under the names of t is its own, in hand, or named in the report.
Told(t) ==
    /\ pc[t] \notin {"exchanged", "matched", "undo", "undoFailed", "restoring"}
    /\ dir.temp[t] \in {None, t}
    /\ pc[t] \in {"written", "checked", "fallback", "aside", "recheck", "install"} => dir.temp[t] = t
    /\ \/ dir.quar[t] = None \/ pc[t] \in Aside
       \/ "quar" \in recovery[t] /\ pc[t] \in {"discard", "unlinkTemp", "done"}

QuarantineInv == Quarantine => \A t \in Txns : Told(t)

\* What a move leaves under the target and the two names of t.
LEMMA OwnParts ==
    ASSUME dir \in Directories, NEW t \in Txns
    PROVE  /\ dir' = [dir EXCEPT !.temp[t] = t] =>
                 dir'.target = dir.target /\ dir'.temp[t] = t /\ dir'.quar[t] = dir.quar[t]
           /\ dir' = [dir EXCEPT !.temp[t] = None] =>
                 dir'.target = dir.target /\ dir'.temp[t] = None /\ dir'.quar[t] = dir.quar[t]
           /\ dir' = [dir EXCEPT !.quar[t] = None] =>
                 dir'.target = dir.target /\ dir'.temp[t] = dir.temp[t] /\ dir'.quar[t] = None
           /\ dir' = [dir EXCEPT !.target = dir.temp[t], !.temp[t] = dir.target] =>
                 dir'.target = dir.temp[t] /\ dir'.temp[t] = dir.target /\ dir'.quar[t] = dir.quar[t]
           /\ dir' = [dir EXCEPT !.target = dir.temp[t], !.temp[t] = None] =>
                 dir'.target = dir.temp[t] /\ dir'.temp[t] = None /\ dir'.quar[t] = dir.quar[t]
           /\ dir' = [dir EXCEPT !.target = None, !.quar[t] = dir.target] =>
                 dir'.target = None /\ dir'.temp[t] = dir.temp[t] /\ dir'.quar[t] = dir.target
           /\ dir' = [dir EXCEPT !.target = dir.quar[t], !.quar[t] = None] =>
                 dir'.target = dir.quar[t] /\ dir'.temp[t] = dir.temp[t] /\ dir'.quar[t] = None
<1>1. ASSUME dir' = [dir EXCEPT !.target = dir.temp[t], !.temp[t] = None]
      PROVE  dir'.target = dir.temp[t] /\ dir'.temp[t] = None /\ dir'.quar[t] = dir.quar[t]
  BY <1>1 DEF Directories
<1>2. ASSUME dir' = [dir EXCEPT !.target = None, !.quar[t] = dir.target]
      PROVE  dir'.target = None /\ dir'.temp[t] = dir.temp[t] /\ dir'.quar[t] = dir.target
  BY <1>2 DEF Directories
<1>3. ASSUME dir' = [dir EXCEPT !.target = dir.quar[t], !.quar[t] = None]
      PROVE  dir'.target = dir.quar[t] /\ dir'.temp[t] = dir.temp[t] /\ dir'.quar[t] = None
  BY <1>3 DEF Directories
<1>4. ASSUME dir' = [dir EXCEPT !.target = dir.temp[t], !.temp[t] = dir.target]
      PROVE  dir'.target = dir.temp[t] /\ dir'.temp[t] = dir.target /\ dir'.quar[t] = dir.quar[t]
  BY <1>4 DEF Directories
<1>5. /\ dir' = [dir EXCEPT !.temp[t] = t] =>
            dir'.target = dir.target /\ dir'.temp[t] = t /\ dir'.quar[t] = dir.quar[t]
      /\ dir' = [dir EXCEPT !.temp[t] = None] =>
            dir'.target = dir.target /\ dir'.temp[t] = None /\ dir'.quar[t] = dir.quar[t]
      /\ dir' = [dir EXCEPT !.quar[t] = None] =>
            dir'.target = dir.target /\ dir'.temp[t] = dir.temp[t] /\ dir'.quar[t] = None
  BY DEF Directories
<1> QED BY <1>1, <1>2, <1>3, <1>4, <1>5

LEMMA OwnTold ==
    ASSUME TypeOK, Quarantine, NEW t \in Txns, Told(t), Commit(t)
    PROVE  Told(t)'
<1>0. /\ dir \in Directories /\ t # None /\ ~Exchange /\ ~Faults
      /\ pc[t] \in Phases
  BY ConstantsAssumption DEF TypeOK, Quarantine, Told
<1> USE DEF Ready, Goto, Report, NoReport, Refuse, Escape, KeepDir, SetDir, Told, Aside, TypeOK
<1>1. CASE Observe(t) \/ Lock(t) \/ CheckCandidate(t) \/ Sync(t) \/ Discard(t) \/ Release(t)
  BY <1>0, <1>1 DEF Observe, Lock, CheckCandidate, Sync, Discard, Release, CandidateIsOurs
<1>2. CASE VerifyAside(t) \/ RecheckCandidate(t)
  BY <1>0, <1>2 DEF VerifyAside, RecheckCandidate, CandidateIsOurs
<1>3. CASE WriteTemp(t)
  BY <1>0, <1>3 DEF WriteTemp, Directories
<1>4. CASE InstallNew(t) \/ UnlinkTemp(t)
  <2>1. /\ dir'.quar[t] = dir.quar[t] /\ dir'.temp[t] \in {None, dir.temp[t]}
        /\ pc'[t] \in {"sync", "done", "discard"}
    <3>1. \/ dir' = dir
          \/ dir' = [dir EXCEPT !.target = dir.temp[t], !.temp[t] = None]
          \/ dir' = [dir EXCEPT !.temp[t] = None]
      BY <1>4 DEF InstallNew, UnlinkTemp
    <3>2. dir'.quar[t] = dir.quar[t] /\ dir'.temp[t] \in {None, dir.temp[t]}
      BY <1>0, <3>1, OwnParts
    <3> QED BY <1>0, <1>4, <3>2 DEF InstallNew, UnlinkTemp
  <2>2. "quar" \in recovery[t] /\ pc[t] # "checked" => "quar" \in recovery'[t] /\ pc'[t] = "done"
    BY <1>4 DEF InstallNew, UnlinkTemp
  <2>3. pc[t] \in {"checked", "unlinkTemp"}
    BY <1>4 DEF InstallNew, UnlinkTemp
  <2> QED BY <1>0, <2>1, <2>2, <2>3
<1>5. CASE ExchangeNames(t)
  BY <1>0, <1>5 DEF ExchangeNames
<1>6. CASE MoveAside(t)
  BY <1>0, <1>6, ZenonT(60) DEF MoveAside, Directories
<1>7. CASE InstallOverAside(t)
  <2>1. /\ dir'.quar[t] = dir.quar[t] /\ dir'.temp[t] \in {None, t} /\ pc'[t] \in {"unlinkAside", "restore"}
    <3>1. \/ dir' = dir
          \/ dir' = [dir EXCEPT !.target = dir.temp[t], !.temp[t] = None]
      BY <1>7 DEF InstallOverAside
    <3>2. dir'.quar[t] = dir.quar[t] /\ dir'.temp[t] \in {None, dir.temp[t]}
      BY <1>0, <3>1, OwnParts
    <3> QED BY <1>0, <1>7, <3>2 DEF InstallOverAside
  <2> QED BY <1>0, <2>1
<1>8. CASE Restore(t)
  <2>1. CASE dir' = [dir EXCEPT !.target = dir.quar[t], !.quar[t] = None]
    <3>1. dir'.temp = dir.temp /\ dir'.quar[t] = None
      BY <1>0, <2>1 DEF Directories
    <3> QED BY <1>0, <1>8, <3>1 DEF Restore
  <2>2. CASE dir' = dir /\ recovery'[t] = {"quar"}
    BY <1>0, <1>8, <2>2 DEF Restore
  <2> QED BY <1>0, <1>8, <2>1, <2>2 DEF Restore
<1>9. CASE UnlinkAside(t)
  BY <1>0, <1>9 DEF UnlinkAside, Directories
<1>10. CASE VerifyDisplaced(t) \/ UnlinkDisplaced(t) \/ UndoExchange(t) \/ AsideOurs(t) \/ RestoreDisplaced(t)
  BY <1>10 DEF VerifyDisplaced, UnlinkDisplaced, UndoExchange, AsideOurs, RestoreDisplaced
<1> QED BY <1>1, <1>2, <1>3, <1>4, <1>5, <1>6, <1>7, <1>8, <1>9, <1>10 DEF Commit

LEMMA OthersTold ==
    ASSUME TypeOK, dir \in since, NEW t \in Txns, Commit(t), NEW u \in Txns \ {t}, Told(u)
    PROVE  Told(u)'
<1>1. recovery'[u] = recovery[u]
  BY DEF TypeOK, Goto, Report, NoReport, Refuse, Escape, Commit, Observe, Lock,
     WriteTemp, CheckCandidate, InstallNew, Sync, Discard, UnlinkTemp, Release,
     ExchangeNames, VerifyDisplaced, UnlinkDisplaced, UndoExchange, AsideOurs,
     RestoreDisplaced, MoveAside, VerifyAside, RecheckCandidate,
     InstallOverAside, Restore, UnlinkAside
<1> QED BY <1>1, OthersUntouched DEF Others, Told

LEMMA EnvironmentTold ==
    ASSUME TypeOK, Quarantine, Environment, NEW t \in Txns, Told(t)
    PROVE  Told(t)'
<1>1. /\ UNCHANGED <<pc, recovery>>
      /\ \/ UNCHANGED dir
         \/ \E x : dir' = [dir EXCEPT !.target = x]
  BY DEF Environment, OutsidePut, OutsideRemove, OutsideTemp, EditorOpen, EditorWrite, Crash,
     PowerCut, Quarantine, WholeFilesOnly, SetDir, KeepDir, NoReport, Inside
<1>2. dir'.temp = dir.temp /\ dir'.quar = dir.quar
  BY <1>1 DEF TypeOK, Directories
<1> QED BY <1>1, <1>2 DEF Told

\* On the quarantine path any object a finished call displaced is named in
\* recovery_paths, whatever outside writers do to the contested name, as long
\* as no call fails and the machine stays up.
THEOREM DisplacedIsNamed == Spec => []QuarantineNamed
<1>1. ASSUME Init PROVE QuarantineInv
  <2> SUFFICES ASSUME NEW t \in Txns PROVE Told(t)
    BY DEF QuarantineInv
  <2>1. dir.temp[t] = None /\ dir.quar[t] = None /\ pc[t] = "idle"
    BY <1>1 DEF Init
  <2> QED BY <2>1 DEF Told
<1>2. TypeOK /\ OrderInv /\ QuarantineInv /\ [Next]_vars => QuarantineInv'
  <2> SUFFICES ASSUME TypeOK, OrderInv, QuarantineInv, [Next]_vars, Quarantine', NEW t \in Txns
               PROVE  Told(t)'
    BY DEF QuarantineInv
  <2>1. env' = env
    BY DEF Next, Commit, Environment, vars
  <2>2. Quarantine /\ Told(t)
    BY <2>1 DEF QuarantineInv, Quarantine, WholeFilesOnly, Exchange, Faults, PowerCuts
  <2>3. CASE UNCHANGED vars
    BY <2>2, <2>3 DEF vars, Told
  <2>4. ASSUME NEW u \in Txns, Commit(u) PROVE Told(t)'
    BY <2>2, <2>4, OwnTold, OthersTold DEF OrderInv
  <2>5. CASE Environment
    BY <2>2, <2>5, EnvironmentTold
  <2> QED BY <2>3, <2>4, <2>5 DEF Next
<1>3. TypeOK /\ QuarantineInv => QuarantineNamed
  BY DEF QuarantineInv, QuarantineNamed, Quarantine, DisplacedNamed, Told, Aside
<1> QED BY <1>1, <1>2, <1>3, TypeCorrect, OrderAlways, PTL DEF Spec

-----------------------------------------------------------------------------
(* No lost update.  Two that read the same document are rivals of OrderInv. *)
(* Two creations are kept apart by the document the first one left: while  *)
(* nothing vacates the target, it is there, or aside with the holder of the *)
(* lock.                                                                    *)

\* A call that read no document and has installed one.
Created(t) ==
    seen[t] = Absent /\ (outcome[t] = "replaced" \/ (pc[t] = "sync" /\ t \notin crashed))

\* Phases with the document under a quarantine name.
Vacating == {"aside", "recheck", "install", "restore"}

\* What a call has in hand while no system call of its own fails.
InHand(t) ==
    /\ pc[t] \in {"written", "checked", "fallback", "aside", "recheck", "install"} => dir.temp[t] = t
    /\ pc[t] \in {"exchanged", "undo"} => dir.temp[t] # None /\ dir.target # None
    /\ pc[t] \in Vacating => dir.quar[t] # None

\* No step of a call finds its names taken away.
Swapping(t) ==
    /\ pc[t] \notin {"undoFailed", "restoring"}
    /\ Exchange => pc[t] \notin Aside \cup {"fallback"}
    /\ ~Exchange => t \notin crashed /\ pc[t] \notin {"exchanged", "matched", "undo"}
    /\ pc[t] \in {"exchanged", "matched", "undo", "fallback"} \cup Aside => seen[t] # Absent
    /\ t \notin crashed => InHand(t)

\* There is a document, at its name or aside.
Filled ==
    \/ dir.target # None
    \/ \E v \in Txns \ crashed : pc[v] \in Vacating

\* The inductive invariant of creations.
CreationInv ==
    NeverVacated =>
        /\ \A t \in Txns : Swapping(t)
        /\ \A t \in Txns : Created(t) => Filled
        /\ \A t \in Txns : Exchange /\ Created(t) /\ outcome[t] = "replaced" =>
              \A d \in since : d.target # None
        /\ \A t, u \in Txns : Created(t) /\ Created(u) => t = u

\* While one call holds the lock no other moves a name.
LEMMA LockedOut ==
    ASSUME TypeOK, NEW t \in Txns, Commit(t), Turns(t), t \notin crashed,
           NEW u \in Txns \ {t}, Turns(u), u \notin crashed, pc[u] \in Active
    PROVE  dir' = dir
<1>1. pc[t] \in {"idle", "observed", "done"}
  BY DEF Turns, Active, TypeOK
<1> QED
  BY <1>1 DEF Commit, Observe, Lock, WriteTemp, CheckCandidate, InstallNew, Sync, Discard,
     UnlinkTemp, Release, ExchangeNames, VerifyDisplaced, UnlinkDisplaced,
     UndoExchange, AsideOurs, RestoreDisplaced, MoveAside, VerifyAside,
     RecheckCandidate, InstallOverAside, Restore, UnlinkAside, Ready, KeepDir

LEMMA OwnSwapping ==
    ASSUME TypeOK, NeverVacated, NEW t \in Txns, Swapping(t), Commit(t)
    PROVE  Swapping(t)'
<1>0. /\ dir \in Directories /\ t # None /\ ~Faults /\ env' = env /\ crashed' = crashed
      /\ t \notin crashed /\ pc[t] \in Phases /\ InHand(t)
  BY OutsideUntouched, ConstantsAssumption DEF TypeOK, NeverVacated, Swapping, Commit
<1> USE DEF Ready, Goto, Report, NoReport, Refuse, Escape, KeepDir, SetDir, Swapping, InHand,
            Aside, Vacating, TypeOK, Exchange
<1>1. CASE Observe(t) \/ Lock(t) \/ CheckCandidate(t) \/ Sync(t) \/ Discard(t) \/ Release(t)
  BY <1>0, <1>1 DEF Observe, Lock, CheckCandidate, Sync, Discard, Release, CandidateIsOurs
<1>2. CASE VerifyAside(t) \/ RecheckCandidate(t) \/ VerifyDisplaced(t)
  BY <1>0, <1>2 DEF VerifyAside, RecheckCandidate, CandidateIsOurs, VerifyDisplaced
<1>3. CASE WriteTemp(t)
  BY <1>0, <1>3 DEF WriteTemp, Directories
<1>4. CASE InstallNew(t) \/ UnlinkTemp(t) \/ UnlinkDisplaced(t) \/ UnlinkAside(t)
  BY <1>0, <1>4 DEF InstallNew, UnlinkTemp, UnlinkDisplaced, UnlinkAside
<1>5. CASE ExchangeNames(t)
  <2>1. CASE pc'[t] = "exchanged"
    <3>1. dir' = [dir EXCEPT !.target = dir.temp[t], !.temp[t] = dir.target]
          /\ dir.temp[t] # None /\ dir.target # None /\ Exchange
      BY <1>5, <2>1 DEF ExchangeNames
    <3>2. dir'.target # None /\ dir'.temp[t] # None
      BY <1>0, <3>1, OwnParts
    <3> QED BY <1>0, <1>5, <2>1, <3>1, <3>2 DEF ExchangeNames
  <2>2. CASE pc'[t] # "exchanged"
    BY <1>0, <1>5, <2>2 DEF ExchangeNames
  <2> QED BY <2>1, <2>2
<1>6. CASE UndoExchange(t)
  BY <1>0, <1>6 DEF UndoExchange
<1>7. CASE MoveAside(t)
  <2>1. CASE pc'[t] = "aside"
    <3>1. dir' = [dir EXCEPT !.target = None, !.quar[t] = dir.target] /\ dir.target # None
      BY <1>7, <2>1 DEF MoveAside
    <3>2. dir'.quar[t] # None /\ dir'.temp[t] = dir.temp[t]
      BY <1>0, <3>1, OwnParts
    <3> QED BY <1>0, <1>7, <2>1, <3>2 DEF MoveAside
  <2>2. CASE pc'[t] # "aside"
    BY <1>0, <1>7, <2>2 DEF MoveAside
  <2> QED BY <2>1, <2>2
<1>8. CASE InstallOverAside(t)
  BY <1>0, <1>8 DEF InstallOverAside
<1>9. CASE Restore(t)
  BY <1>0, <1>9 DEF Restore
<1>10. CASE AsideOurs(t) \/ RestoreDisplaced(t)
  BY <1>10 DEF AsideOurs, RestoreDisplaced
<1> QED BY <1>1, <1>2, <1>3, <1>4, <1>5, <1>6, <1>7, <1>8, <1>9, <1>10 DEF Commit

LEMMA OthersSwapping ==
    ASSUME TypeOK, OrderInv, NEW t \in Txns, Commit(t), NEW u \in Txns \ {t}, Swapping(u)
    PROVE  Swapping(u)'
<1>1. Others(t) /\ crashed' = crashed /\ env' = env /\ t \notin crashed /\ Turns(t) /\ Turns(u)
  BY OthersUntouched, OutsideUntouched DEF OrderInv
<1>2. u \notin crashed /\ pc[u] \in {"exchanged", "undo"} => dir' = dir
  BY <1>1, LockedOut DEF Active, Phases
<1> QED BY <1>1, <1>2 DEF Others, Swapping, InHand, Exchange

\* The target is filled again, or its document aside with a call that lives.
LEMMA FilledStays ==
    ASSUME TypeOK, OrderInv, NeverVacated, NEW t \in Txns, Swapping(t), Commit(t), Filled
    PROVE  Filled'
<1>0. /\ dir \in Directories /\ t # None /\ ~Faults /\ crashed' = crashed
      /\ t \notin crashed /\ InHand(t) /\ Others(t)
  BY OutsideUntouched, OthersUntouched, ConstantsAssumption
     DEF TypeOK, NeverVacated, Swapping, OrderInv
<1>1. dir'.target # None \/ pc'[t] \in Vacating => Filled'
  BY <1>0 DEF Filled
<1>2. dir'.target = dir.target /\ (pc[t] \in Vacating => pc'[t] \in Vacating) => Filled'
  BY <1>0, <1>1 DEF Filled, Others
<1> USE DEF Ready, Goto, Report, NoReport, Refuse, Escape, KeepDir, SetDir, InHand,
            Vacating, TypeOK
<1>3. CASE Observe(t) \/ Lock(t) \/ CheckCandidate(t) \/ Sync(t) \/ Discard(t) \/ Release(t)
           \/ VerifyDisplaced(t) \/ VerifyAside(t) \/ RecheckCandidate(t)
  BY <1>2, <1>3 DEF Observe, Lock, CheckCandidate, Sync, Discard, Release, VerifyDisplaced,
     VerifyAside, RecheckCandidate
<1>4. CASE WriteTemp(t) \/ UnlinkTemp(t) \/ UnlinkDisplaced(t) \/ UnlinkAside(t)
  <2>1. /\ \/ dir' = dir \/ dir' = [dir EXCEPT !.temp[t] = t]
           \/ dir' = [dir EXCEPT !.temp[t] = None] \/ dir' = [dir EXCEPT !.quar[t] = None]
        /\ pc[t] \notin Vacating
    BY <1>4 DEF WriteTemp, UnlinkTemp, UnlinkDisplaced, UnlinkAside
  <2> QED BY <1>0, <1>2, <2>1, OwnParts
<1>5. CASE InstallNew(t) \/ InstallOverAside(t)
  <2>1. \/ dir' = [dir EXCEPT !.target = dir.temp[t], !.temp[t] = None] /\ dir.temp[t] # None
        \/ dir' = dir /\ (pc[t] \in Vacating => dir.target # None)
    BY <1>0, <1>5 DEF InstallNew, InstallOverAside
  <2> QED BY <1>0, <1>1, <1>2, <2>1, OwnParts
<1>6. CASE ExchangeNames(t) \/ UndoExchange(t)
  <2>1. /\ \/ /\ dir' = [dir EXCEPT !.target = dir.temp[t], !.temp[t] = dir.target]
              /\ dir.temp[t] # None
           \/ dir' = dir
        /\ pc[t] \notin Vacating
    BY <1>6 DEF ExchangeNames, UndoExchange
  <2> QED BY <1>0, <1>1, <1>2, <2>1, OwnParts
<1>7. CASE MoveAside(t)
  BY <1>1, <1>2, <1>7 DEF MoveAside
<1>8. CASE Restore(t)
  <2>1. \/ dir' = [dir EXCEPT !.target = dir.quar[t], !.quar[t] = None] /\ dir.quar[t] # None
        \/ dir' = dir /\ dir.target # None
    BY <1>0, <1>8 DEF Restore
  <2> QED BY <1>0, <1>1, <2>1, OwnParts
<1>9. CASE AsideOurs(t) \/ RestoreDisplaced(t)
  BY <1>9 DEF AsideOurs, RestoreDisplaced, Swapping
<1> QED BY <1>3, <1>4, <1>5, <1>6, <1>7, <1>8, <1>9 DEF Commit

\* Only an installation over a vacant target makes a creation of a call.
LEMMA CommitCreates ==
    ASSUME TypeOK, OrderInv, NeverVacated, NEW t \in Txns, Swapping(t), Commit(t), Created(t)'
    PROVE  \/ Created(t)
           \/ pc[t] = "checked" /\ dir.target = None /\ dir'.target # None /\ outcome'[t] # "replaced"
<1>0. /\ dir \in Directories /\ ~Faults /\ t \notin crashed /\ crashed' = crashed /\ Turns(t)
      /\ pc[t] \in Phases
  BY OutsideUntouched DEF TypeOK, NeverVacated, OrderInv
<1> USE DEF Ready, Goto, Report, NoReport, Refuse, Escape, Turns, Created, TypeOK
<1>1. CASE Observe(t) \/ Lock(t) \/ WriteTemp(t) \/ CheckCandidate(t)
  BY <1>0, <1>1 DEF Observe, Lock, WriteTemp, CheckCandidate
<1>2. CASE InstallNew(t)
  <2>1. CASE dir.temp[t] # None /\ dir.target = None /\ pc'[t] = "sync"
    <3>1. dir' = [dir EXCEPT !.target = dir.temp[t], !.temp[t] = None]
      BY <1>2, <2>1 DEF InstallNew, SetDir, KeepDir
    <3>2. dir'.target = dir.temp[t]
      BY <1>0, <3>1, OwnParts
    <3> QED BY <1>0, <1>2, <2>1, <3>2 DEF InstallNew
  <2>2. CASE ~(dir.temp[t] # None /\ dir.target = None /\ pc'[t] = "sync")
    BY <1>0, <1>2, <2>2 DEF InstallNew
  <2> QED BY <2>1, <2>2
<1>3. CASE Sync(t) \/ Discard(t) \/ UnlinkTemp(t) \/ Release(t)
  BY <1>0, <1>3 DEF Sync, Discard, UnlinkTemp, Release
<1>4. CASE ExchangeNames(t) \/ VerifyDisplaced(t) \/ UnlinkDisplaced(t) \/ UndoExchange(t)
  BY <1>0, <1>4 DEF ExchangeNames, VerifyDisplaced, UnlinkDisplaced, UndoExchange, Swapping
<1>5. CASE AsideOurs(t) \/ RestoreDisplaced(t) \/ MoveAside(t) \/ VerifyAside(t)
  BY <1>0, <1>5 DEF AsideOurs, RestoreDisplaced, MoveAside, VerifyAside, Swapping
<1>6. CASE RecheckCandidate(t) \/ InstallOverAside(t) \/ Restore(t) \/ UnlinkAside(t)
  BY <1>0, <1>6 DEF RecheckCandidate, InstallOverAside, Restore, UnlinkAside, Swapping, Aside
<1> QED BY <1>1, <1>2, <1>3, <1>4, <1>5, <1>6 DEF Commit

LEMMA CommitCreations ==
    ASSUME TypeOK, OrderInv, CreationInv, NeverVacated, NEW t \in Txns, Commit(t)
    PROVE  CreationInv'
<1>1. /\ \A u \in Txns : Swapping(u) /\ (Created(u) => Filled)
      /\ \A u \in Txns : Exchange /\ Created(u) /\ outcome[u] = "replaced" =>
            \A d \in since : d.target # None
      /\ \A u, v \in Txns : Created(u) /\ Created(v) => u = v
  BY DEF CreationInv
<1>2. /\ Others(t) /\ Grows /\ crashed' = crashed /\ env' = env /\ t \notin crashed
      /\ \A u \in Txns : Turns(u)
  BY OthersUntouched, OutsideUntouched DEF OrderInv
<1>3. ASSUME NEW u \in Txns PROVE Swapping(u)'
  BY <1>1, OwnSwapping, OthersSwapping
<1>4. ASSUME NEW u \in Txns, Created(u)'
      PROVE  \/ Created(u)
             \/ /\ u = t /\ pc[t] = "checked" /\ dir.target = None /\ dir'.target # None
                /\ outcome'[u] # "replaced"
  <2>1. CASE u = t
    BY <1>1, <1>4, <2>1, CommitCreates
  <2>2. CASE u # t
    BY <1>2, <1>4, <2>2 DEF Created, Others
  <2> QED BY <2>1, <2>2
<1>5. ASSUME NEW u \in Txns, Created(u)' PROVE Filled'
  <2>1. CASE Created(u)
    BY <1>1, <2>1, FilledStays
  <2>2. CASE dir'.target # None
    BY <2>2 DEF Filled
  <2> QED BY <1>4, <1>5, <2>1, <2>2
<1>6. ASSUME Exchange', NEW u \in Txns, Created(u)', outcome'[u] = "replaced", NEW d \in since'
      PROVE  d.target # None
  <2>1. Created(u) /\ Exchange
    BY <1>2, <1>4, <1>6 DEF Exchange
  <2>2. dir'.target # None
    BY <1>3, <1>5, <1>6 DEF Filled, Swapping, Aside, Vacating
  <2>3. CASE outcome[u] = "replaced"
    BY <1>1, <1>2, <1>6, <2>1, <2>2, <2>3 DEF Grows
  <2>4. CASE outcome[u] # "replaced"
    <3>1. u = t
      BY <1>2, <1>6, <2>4 DEF Others
    <3>2. since' = {dir'}
      BY <1>6, <2>4, <3>1, ReportedOnce, <1>2 DEF Turns, ReportsOnce, Reports
    <3> QED BY <1>6, <2>2, <3>2
  <2> QED BY <2>3, <2>4
<1>7. ASSUME NEW u \in Txns, NEW v \in Txns, Created(u)', Created(v)', u # v PROVE FALSE
  <2>1. ~(Created(u) /\ Created(v))
    BY <1>1, <1>7
  <2>2. PICK w \in {u, v} : Created(w) /\ w # t
    BY <1>4, <1>7, <2>1
  <2>3. pc[t] = "checked" /\ dir.target = None
    BY <1>4, <1>7, <2>1
  <2>4. PICK x \in Txns \ crashed : pc[x] \in Vacating
    BY <1>1, <2>2, <2>3 DEF Filled
  <2>5. holder = x /\ holder = t
    BY <1>2, <2>3, <2>4 DEF Turns, Active, Phases, Vacating
  <2> QED BY <2>3, <2>4, <2>5 DEF Vacating
<1> QED BY <1>3, <1>5, <1>6, <1>7 DEF CreationInv

LEMMA EnvironmentCreations ==
    ASSUME TypeOK, CreationInv, NeverVacated, Environment
    PROVE  CreationInv'
<1>1. /\ \A u \in Txns : Swapping(u) /\ (Created(u) => Filled)
      /\ \A u \in Txns : Exchange /\ Created(u) /\ outcome[u] = "replaced" =>
            \A d \in since : d.target # None
      /\ \A u, v \in Txns : Created(u) /\ Created(v) => u = v
  BY DEF CreationInv
<1>2. env' = env /\ UNCHANGED <<seen, pc, outcome>> /\ crashed \subseteq crashed'
  BY DEF Environment, OutsidePut, OutsideRemove, OutsideTemp, EditorOpen, EditorWrite, Crash,
     PowerCut, NoReport, Inside
<1>3. \A u \in Txns : Created(u)' => Created(u)
  BY <1>2 DEF Created
<1>4. CASE crashed' = crashed /\ UNCHANGED <<dir, since>>
  BY <1>1, <1>2, <1>4 DEF CreationInv, Swapping, InHand, Created, Filled, Exchange
<1>5. CASE UNCHANGED <<dir, since>> /\ Exchange
  <2>1. \A u \in Txns : Swapping(u)'
    BY <1>1, <1>2, <1>5 DEF Swapping, InHand, Exchange
  <2>2. Filled => Filled'
    BY <1>1, <1>5 DEF Filled, Swapping, Aside, Vacating
  <2> QED BY <1>1, <1>2, <1>3, <1>5, <2>1, <2>2 DEF CreationInv, Exchange
<1>6. CASE PowerCut
  <2>1. Exchange /\ crashed' = crashed \cup {u \in Txns : pc[u] \notin {"idle", "done"}}
    BY <1>6 DEF PowerCut, NeverVacated
  <2>2. PICK d \in since : dir' = d /\ since' = {d}
    BY <1>6 DEF PowerCut
  <2>3. ASSUME NEW u \in Txns PROVE Swapping(u)'
    BY <1>1, <1>2, <2>1 DEF Swapping, InHand, Exchange, Aside, Vacating
  <2>4. ASSUME NEW u \in Txns, Created(u)' PROVE dir'.target # None
    <3>1. outcome[u] = "replaced"
      BY <1>2, <2>1, <2>4 DEF Created
    <3> QED BY <1>1, <1>3, <2>1, <2>2, <2>4, <3>1
  <2> QED BY <1>1, <1>3, <2>2, <2>3, <2>4 DEF CreationInv, Filled
<1>7. (EditorOpen \/ EditorWrite => crashed' = crashed /\ UNCHANGED <<dir, since>>)
      /\ ((\E c \in Txns : Crash(c)) => UNCHANGED <<dir, since>> /\ Exchange)
  BY DEF EditorOpen, EditorWrite, Crash, KeepDir, Inside, NeverVacated
<1>8. ~(\E o \in Docs : OutsidePut(o)) /\ ~OutsideRemove /\ ~(\E t \in Txns : OutsideTemp(t))
  BY DEF OutsidePut, OutsideRemove, OutsideTemp, NeverVacated
<1> QED BY <1>4, <1>5, <1>6, <1>7, <1>8 DEF Environment

LEMMA CreationsAlways == Spec => []CreationInv
<1>1. ASSUME Init PROVE CreationInv
  <2>1. \A t \in Txns : pc[t] = "idle" /\ outcome[t] = "none" /\ t \notin crashed
    BY <1>1 DEF Init
  <2> QED BY <2>1 DEF CreationInv, Swapping, InHand, Created, Aside, Vacating
<1>2. TypeOK /\ OrderInv /\ CreationInv /\ [Next]_vars => CreationInv'
  <2> SUFFICES ASSUME TypeOK, OrderInv, CreationInv, [Next]_vars, NeverVacated'
               PROVE  CreationInv'
    BY DEF CreationInv
  <2>1. NeverVacated
    BY DEF Next, Commit, Environment, vars, NeverVacated, Exchange, Faults, PowerCuts
  <2>2. CASE UNCHANGED vars
    BY <2>1, <2>2 DEF vars, CreationInv, Swapping, InHand, Created, Filled, Exchange
  <2> QED BY <2>1, <2>2, CommitCreations, EnvironmentCreations DEF Next
<1> QED BY <1>1, <1>2, TypeCorrect, OrderAlways, PTL DEF Spec

\* The compare-and-swap contract between callers: two commits that read the
\* same document are never both reported as done, whatever fails, dies or is
\* put in the way; nor are two creations, where nothing vacates the target.
THEOREM NoUpdateIsLost == Spec => []NoLostUpdate
<1>1. OrderInv /\ CreationInv => NoLostUpdate
  <2> SUFFICES ASSUME OrderInv, CreationInv, NEW t \in Txns, NEW u \in Txns, t # u,
                      outcome[t] = "replaced", outcome[u] = "replaced",
                      seen[t] # Absent \/ NeverVacated, seen[t] = seen[u]
               PROVE  FALSE
    BY DEF NoLostUpdate
  <2>1. CASE seen[t] # Absent
    BY <2>1 DEF OrderInv, Rivals
  <2>2. CASE seen[t] = Absent
    BY <2>2 DEF CreationInv, Created
  <2> QED BY <2>1, <2>2
<1> QED BY <1>1, OrderAlways, CreationsAlways, PTL

-----------------------------------------------------------------------------
(* The refinement of AtomicDocument.  What the holder of the lock does is  *)
(* seen through View, which is Document while no other is at work: each of *)
(* its steps is invisible, or the replacement, or the report.  A call that *)
(* has no lock is seen only when it reads.                                 *)

\* Phases with the candidate at the target.
Swapped == {"exchanged", "matched", "undo", "unlinkAside", "sync"}

\* What an orderly call knows of the target and tells of itself.
Tidy(t) ==
    /\ pc[t] = "idle" => seen[t] = Unread
    /\ pc[t] \in Swapped => dir.target = t
    /\ pc[t] \in Vacating => dir.target = None
    /\ pc[t] = "undo" => ~Matches(t, dir.temp[t])
    /\ pc[t] \in {"discard", "unlinkTemp"} => outcome[t] = "conflict"
    /\ pc[t] = "done" => outcome[t] # "none"

\* The inductive invariant of the refinement.
OrderlyInv == Orderly => crashed = {} /\ \A t \in Txns : Tidy(t)

\* What a transaction has at hand of all the invariants.
Known(t) ==
    /\ Swapping(t) /\ Turns(t) /\ Tidy(t) /\ OwnNames(t) /\ pc[t] \in Phases
    /\ t \notin crashed /\ ~Faults /\ t # None

LEMMA OrderlyKnows ==
    ASSUME TypeOK, PreservedInv, OrderInv, CreationInv, OrderlyInv, Orderly, NEW t \in Txns
    PROVE  Known(t)
BY ConstantsAssumption DEF TypeOK, PreservedInv, OrderInv, CreationInv, OrderlyInv, Orderly, Known,
   NeverVacated, WholeFilesOnly

LEMMA OwnTidy ==
    ASSUME TypeOK, NEW t \in Txns, Known(t), Commit(t)
    PROVE  Tidy(t)'
<1>0. dir \in Directories /\ outcome \in [Txns -> {"none", "replaced", "conflict", "uncertain", "error"}]
      /\ pc \in [Txns -> Phases] /\ DOMAIN seen = Txns /\ InHand(t) /\ Tidy(t) /\ t # None
  BY DEF TypeOK, Known, Swapping
<1>1. edits' = edits
  BY OutsideUntouched DEF Outside
<1> USE <1>0 DEF Ready, Goto, Report, NoReport, Refuse, Escape, KeepDir, SetDir, Tidy, InHand,
            Swapped, Vacating
<1>2. CASE Observe(t) \/ Lock(t) \/ CheckCandidate(t) \/ Sync(t) \/ Discard(t) \/ Release(t)
  BY <1>2 DEF Observe, Lock, CheckCandidate, Sync, Discard, Release
<1>3. CASE VerifyAside(t) \/ RecheckCandidate(t)
  BY <1>3 DEF VerifyAside, RecheckCandidate
<1>4. CASE VerifyDisplaced(t)
  BY <1>1, <1>4 DEF VerifyDisplaced, Matches, Version, Known
<1>5. CASE WriteTemp(t)
  BY <1>5 DEF WriteTemp, Known
<1>6. CASE InstallNew(t) \/ UnlinkTemp(t) \/ UnlinkDisplaced(t) \/ UnlinkAside(t)
  BY <1>6 DEF InstallNew, UnlinkTemp, UnlinkDisplaced, UnlinkAside, Directories, Known
<1>7. CASE ExchangeNames(t)
  BY <1>7 DEF ExchangeNames, Directories
<1>8. CASE UndoExchange(t)
  BY <1>8 DEF UndoExchange, Known
<1>9. CASE MoveAside(t)
  BY <1>9 DEF MoveAside, Directories
<1>10. CASE InstallOverAside(t)
  BY <1>10 DEF InstallOverAside, Known, Directories
<1>11. CASE Restore(t)
  BY <1>11 DEF Restore, Known
<1>12. CASE AsideOurs(t) \/ RestoreDisplaced(t)
  BY <1>12 DEF AsideOurs, RestoreDisplaced, Known, Swapping
<1> QED BY <1>2, <1>3, <1>4, <1>5, <1>6, <1>7, <1>8, <1>9, <1>10, <1>11, <1>12 DEF Commit

LEMMA OthersTidy ==
    ASSUME TypeOK, OrderInv, NEW t \in Txns, Commit(t), NEW u \in Txns \ {t}, Known(u)
    PROVE  Tidy(u)'
<1>1. Others(t) /\ UNCHANGED <<env, crashed, Outside>> /\ t \notin crashed /\ Turns(t) /\ Turns(u)
  BY OthersUntouched, OutsideUntouched DEF OrderInv
<1>2. pc[u] \in Active => dir' = dir
  BY <1>1, LockedOut DEF Known
<1> QED BY <1>1, <1>2 DEF Others, Tidy, Known, Active, Phases, Swapped, Vacating, Matches, Version, Outside

\* Nothing else moves.
LEMMA OrderlyEnvironment ==
    ASSUME PreservedInv, Orderly
    PROVE  ~Environment
BY DEF Environment, Orderly, PreservedInv, WholeFilesOnly, OutsidePut, OutsideRemove, OutsideTemp, EditorOpen,
   EditorWrite, Crash, PowerCut, PowerCuts

LEMMA OrderlyStep ==
    ASSUME TypeOK, PreservedInv, OrderInv, CreationInv, OrderlyInv, [Next]_vars
    PROVE  OrderlyInv'
<1> SUFFICES ASSUME Orderly' PROVE crashed' = {} /\ \A u \in Txns : Tidy(u)'
  BY DEF OrderlyInv
<1>1. env' = env /\ Orderly
  BY DEF Next, vars, Commit, Environment, Orderly, Faults, PowerCuts
<1>2. CASE UNCHANGED vars
  BY <1>1, <1>2 DEF OrderlyInv, vars, Tidy, Matches, Version
<1>3. ASSUME NEW t \in Txns, Commit(t) PROVE crashed' = {} /\ \A u \in Txns : Tidy(u)'
  BY <1>1, <1>3, OrderlyKnows, OwnTidy, OthersTidy, OutsideUntouched DEF OrderlyInv
<1> QED BY <1>1, <1>2, <1>3, OrderlyEnvironment DEF Next

LEMMA OrderlyAlways == Spec => [](TypeOK /\ PreservedInv /\ OrderInv /\ CreationInv /\ OrderlyInv)
<1>1. Init => OrderlyInv
  BY DEF Init, OrderlyInv, Tidy, Swapped, Vacating
<1>2. TypeOK /\ PreservedInv /\ OrderInv /\ CreationInv /\ OrderlyInv /\ [Next]_vars => OrderlyInv'
  BY OrderlyStep
<1> QED BY <1>1, <1>2, TypeCorrect, PreservedAlways, OrderAlways, CreationsAlways, PTL DEF Spec

\* The document as one transaction has it.
View(h) == IF PendingUndo(h) THEN dir.temp[h] ELSE IF MovedAside(h) THEN dir.quar[h] ELSE dir.target

\* No other has a document aside.
Alone(h) == \A u \in Txns \ {h} : pc[u] \notin {"exchanged", "undo"} \cup Vacating

LEMMA ViewOf ==
    ASSUME NEW h \in Txns
    PROVE  (Alone(h) => Document = View(h)) /\ (Alone(h)' => Document' = View(h)')
<1>1. ASSUME Alone(h) PROVE Document = View(h)
  <2>1. \A u \in Txns : PendingUndo(u) \/ MovedAside(u) => u = h
    BY <1>1 DEF Alone, Vacating, PendingUndo, MovedAside
  <2>2. CASE PendingUndo(h)
    <3>1. (CHOOSE t \in Txns : PendingUndo(t)) = h
      BY <2>1, <2>2
    <3> QED BY <2>2, <3>1 DEF Document, View
  <2>3. CASE ~PendingUndo(h) /\ MovedAside(h)
    <3>1. (CHOOSE t \in Txns : MovedAside(t)) = h
      BY <2>1, <2>3
    <3> QED BY <2>1, <2>3, <3>1 DEF Document, View
  <2>4. CASE ~PendingUndo(h) /\ ~MovedAside(h)
    BY <2>1, <2>4 DEF Document, View
  <2> QED BY <2>2, <2>3, <2>4
<1>2. ASSUME Alone(h)' PROVE Document' = View(h)'
  <2>1. \A u \in Txns : PendingUndo(u)' \/ MovedAside(u)' => u = h
    BY <1>2 DEF Alone, Vacating, PendingUndo, MovedAside
  <2>2. CASE PendingUndo(h)'
    <3>1. (CHOOSE t \in Txns : PendingUndo(t)') = h
      BY <2>1, <2>2
    <3> QED BY <2>2, <3>1 DEF Document, View
  <2>3. CASE ~PendingUndo(h)' /\ MovedAside(h)'
    <3>1. (CHOOSE t \in Txns : MovedAside(t)') = h
      BY <2>1, <2>3
    <3> QED BY <2>1, <2>3, <3>1 DEF Document, View
  <2>4. CASE ~PendingUndo(h)' /\ ~MovedAside(h)'
    BY <2>1, <2>4 DEF Document, View
  <2> QED BY <2>2, <2>3, <2>4
<1> QED BY <1>1, <1>2

LEMMA ReadsObject ==
    ASSUME TypeOK, NEW t \in Txns
    PROVE  /\ seen[t] = Absent => ReadDocument(t) = None
           /\ seen[t] = Unread <=> ReadDocument(t) = Unread
           /\ \A o \in Objects : Matches(t, o) => ReadDocument(t) = o
<1>1. seen[t] \in (Objects \X (0..MaxEdits)) \cup {Unread, Absent} /\ edits \in [Objects -> 0..MaxEdits]
  BY DEF TypeOK
<1>2. CASE seen[t] \in {Unread, Absent}
  <2>1. \A o \in Objects : ~Matches(t, o)
    BY <1>1, <1>2, ConstantsAssumption DEF Matches, Version, Objects
  <2> QED BY <1>2, <2>1, ConstantsAssumption DEF ReadDocument
<1>3. CASE seen[t] \in Objects \X (0..MaxEdits)
  <2>1. seen[t] # Unread /\ seen[t] # Absent
    BY <1>3, ConstantsAssumption DEF Objects
  <2>2. ReadDocument(t) = seen[t][1] /\ seen[t][1] \in Objects
    BY <1>3, <2>1 DEF ReadDocument
  <2> QED BY <2>1, <2>2, ConstantsAssumption DEF Matches, Version, Objects
<1> QED BY <1>1, <1>2, <1>3

\* Its replacement took place.
In(t) == \/ pc[t] \in {"matched", "unlinkAside", "sync"}
         \/ pc[t] = "exchanged" /\ Matches(t, dir.temp[t])
         \/ outcome[t] \in {"replaced", "uncertain"}

\* A step seen by the transaction that takes it: nothing, the replacement or the report.
Unseen(t) == View(t)' = View(t) /\ (In(t)' <=> In(t)) /\ outcome' = outcome
Replaces(t) ==
    /\ ~In(t) /\ outcome[t] = "none" /\ ReadDocument(t) = View(t)
    /\ View(t)' = t /\ In(t)' /\ outcome' = outcome
Tells(t) ==
    /\ View(t)' = View(t) /\ (In(t)' <=> In(t)) /\ outcome[t] = "none"
    /\ \E r \in {"replaced", "conflict"} :
          outcome' = [outcome EXCEPT ![t] = r] /\ (r = "replaced" <=> In(t))

LEMMA HolderSteps ==
    ASSUME TypeOK, NEW t \in Txns, Known(t), Commit(t), pc[t] \in Active
    PROVE  seen' = seen /\ (Unseen(t) \/ Replaces(t) \/ Tells(t))
<1>0. /\ dir \in Directories /\ outcome \in [Txns -> {"none", "replaced", "conflict", "uncertain", "error"}]
      /\ pc \in [Txns -> Phases] /\ InHand(t) /\ Tidy(t) /\ t # None /\ ~Faults /\ Turns(t) /\ OwnNames(t)
      /\ t \notin crashed
  BY DEF TypeOK, Known, Swapping
<1>1. edits' = edits
  BY OutsideUntouched DEF Outside
<1>2. /\ seen[t] = Absent => ReadDocument(t) = None
      /\ \A o \in Objects : Matches(t, o) => ReadDocument(t) = o
  BY ReadsObject
<1>3. seen' = seen
  BY DEF Commit, Active, Phases, Observe, Lock, WriteTemp, CheckCandidate, InstallNew, Sync,
     Discard, UnlinkTemp, Release, ExchangeNames, VerifyDisplaced, UnlinkDisplaced,
     UndoExchange, AsideOurs, RestoreDisplaced, MoveAside, VerifyAside,
     RecheckCandidate, InstallOverAside, Restore, UnlinkAside, Ready
<1>4. \A o : Matches(t, o)' <=> Matches(t, o)
  BY <1>1, <1>3 DEF Matches, Version
<1> USE <1>0, <1>1, <1>2, <1>3, <1>4
    DEF Ready, Goto, Report, NoReport, Refuse, Escape, KeepDir, SetDir
<1> USE DEF Unseen, View, In, PendingUndo, MovedAside
<1>5. CASE WriteTemp(t) \/ CheckCandidate(t) \/ Discard(t) \/ UnlinkTemp(t)
  BY <1>5 DEF WriteTemp, CheckCandidate, Discard, UnlinkTemp, CandidateIsOurs, InHand, Tidy, Turns, Directories
<1>6. CASE InstallNew(t)
  BY <1>6 DEF InstallNew, InHand, Turns, Replaces, Tells, Directories
<1>7. CASE Sync(t)
  BY <1>7 DEF Sync, Turns, Tells
<1>8. CASE ExchangeNames(t)
  <2>1. pc[t] = "checked" /\ outcome[t] = "none" /\ dir.temp[t] = t
    BY <1>8 DEF ExchangeNames, InHand, Turns
  <2>2. CASE pc'[t] = "exchanged"
    <3>1. dir' = [dir EXCEPT !.target = dir.temp[t], !.temp[t] = dir.target] /\ outcome' = outcome
      BY <1>8, <2>1, <2>2 DEF ExchangeNames
    <3>2. dir'.target = t /\ dir'.temp[t] = dir.target /\ dir.target \in Objects \cup {None}
      BY <2>1, <3>1 DEF Directories
    <3>3. View(t) = dir.target /\ ~In(t)
      BY <2>1
    <3>4. CASE Matches(t, dir.target)
      BY <2>1, <2>2, <3>1, <3>2, <3>3, <3>4, ConstantsAssumption DEF Replaces, Matches, Version
    <3>5. CASE ~Matches(t, dir.target)
      BY <2>1, <2>2, <3>1, <3>2, <3>3, <3>5
    <3> QED BY <3>4, <3>5
  <2>3. CASE pc'[t] # "exchanged"
    BY <1>8, <2>1, <2>3 DEF ExchangeNames, Tells
  <2> QED BY <2>2, <2>3
<1>9. CASE VerifyDisplaced(t)
  BY <1>9 DEF VerifyDisplaced, Turns, Tidy
<1>10. CASE UnlinkDisplaced(t)
  BY <1>10 DEF UnlinkDisplaced, OwnNames, Matches, Tidy, Directories
<1>11. CASE UndoExchange(t)
  BY <1>11 DEF UndoExchange, Turns, Tidy, InHand, Tells, Directories
<1>12. CASE MoveAside(t)
  <2>1. pc[t] = "fallback" /\ outcome[t] = "none"
    BY <1>12 DEF MoveAside, Turns
  <2>2. CASE pc'[t] = "aside"
    <3>1. dir' = [dir EXCEPT !.target = None, !.quar[t] = dir.target] /\ dir.target # None /\ outcome' = outcome
      BY <1>12, <2>1, <2>2 DEF MoveAside
    <3>2. dir'.target = None /\ dir'.quar[t] = dir.target
      BY <3>1 DEF Directories
    <3> QED BY <2>1, <2>2, <3>1, <3>2
  <2>3. CASE pc'[t] # "aside"
    BY <1>12, <2>1, <2>3 DEF MoveAside, Tells
  <2> QED BY <2>2, <2>3
<1>13. CASE VerifyAside(t) \/ RecheckCandidate(t)
  BY <1>13 DEF VerifyAside, RecheckCandidate, Turns
<1>14. CASE InstallOverAside(t)
  BY <1>14 DEF InstallOverAside, OwnNames, Turns, Tidy, InHand, Replaces, Vacating, Directories
<1>15. CASE Restore(t)
  BY <1>15 DEF Restore, OwnNames, Turns, Tidy, InHand, Tells, Vacating, Directories
<1>16. CASE UnlinkAside(t)
  BY <1>16 DEF UnlinkAside, OwnNames, Turns, Tidy, Swapped, Directories
<1>17. ~AsideOurs(t) /\ ~RestoreDisplaced(t) /\ ~Observe(t) /\ ~Lock(t) /\ ~Release(t)
  BY DEF AsideOurs, RestoreDisplaced, Observe, Lock, Release, Known, Swapping, Active
<1> QED BY <1>3, <1>5, <1>6, <1>7, <1>8, <1>9, <1>10, <1>11, <1>12, <1>13, <1>14, <1>15, <1>16, <1>17 DEF Commit

\* One call at a time is at work.
LEMMA OneAtWork ==
    ASSUME TypeOK, OrderInv, NEW t \in Txns, Commit(t), pc[t] \in Active, crashed = {}
    PROVE  Alone(t) /\ Alone(t)'
<1>1. Others(t) /\ \A u \in Txns : Turns(u)
  BY OthersUntouched DEF OrderInv
<1>2. \A u \in Txns \ {t} : pc[u] \notin Active
  BY <1>1 DEF Turns
<1> QED BY <1>1, <1>2 DEF Alone, Others, Active, Phases, Vacating

LEMMA HolderImplements ==
    ASSUME TypeOK, OrderInv, NEW t \in Txns, Known(t), Commit(t), pc[t] \in Active, crashed = {}
    PROVE  [Atomic!Next]_Atomic!vars
<1>1. /\ Document = View(t) /\ Document' = View(t)' /\ seen' = seen
      /\ Unseen(t) \/ Replaces(t) \/ Tells(t)
  BY ViewOf, OneAtWork, HolderSteps
<1>2. Installed = {u \in Txns : In(u)}
  BY DEF Installed, In
<1>3. Installed' = {u \in Txns : In(u)'}
  BY DEF Installed, In
<1>4. \A u \in Txns \ {t} : In(u)' <=> In(u)
  <2>1. Others(t) /\ Alone(t)
    BY OthersUntouched, OneAtWork DEF OrderInv
  <2> QED BY <2>1 DEF In, Others, Alone
<1>5. [u \in Txns |-> ReadDocument(u)]' = [u \in Txns |-> ReadDocument(u)]
  BY <1>1 DEF ReadDocument
<1>6. CASE Unseen(t)
  <2>1. Installed' = Installed
    BY <1>2, <1>3, <1>4, <1>6 DEF Unseen
  <2> QED BY <1>1, <1>5, <1>6, <2>1 DEF Unseen, Atomic!vars
<1>7. CASE Replaces(t)
  <2>1. Installed' = Installed \cup {t} /\ t \notin Installed
    BY <1>2, <1>3, <1>4, <1>7 DEF Replaces
  <2>2. Atomic!Replace(t)
    BY <1>1, <1>5, <1>7, <2>1 DEF Replaces, Atomic!Replace
  <2> QED BY <2>2 DEF Atomic!Next
<1>8. CASE Tells(t)
  <2>1. Installed' = Installed /\ (t \in Installed <=> In(t))
    BY <1>2, <1>3, <1>4, <1>8 DEF Tells
  <2>2. ReadDocument(t) # Unread
    BY ReadsObject DEF Known, Turns, Active
  <2>3. Atomic!Tell(t)
    BY <1>1, <1>5, <1>8, <2>1, <2>2 DEF Tells, Atomic!Tell
  <2> QED BY <2>3 DEF Atomic!Next
<1> QED BY <1>1, <1>6, <1>7, <1>8

\* A call that does not hold the lock reads, or does nothing to be seen.
LEMMA WaiterImplements ==
    ASSUME TypeOK, OrderInv, NEW t \in Txns, Commit(t), pc[t] \notin Active, crashed = {},
           \A u \in Txns : Known(u)
    PROVE  [Atomic!Next]_Atomic!vars
<1>1. Others(t) /\ edits' = edits /\ pc[t] \in {"idle", "observed", "done"}
  BY OthersUntouched, OutsideUntouched DEF OrderInv, Outside, Active, Known
<1>2. \/ Observe(t)
      \/ (Lock(t) \/ Release(t)) /\ seen' = seen
  BY <1>1 DEF Commit, Observe, Lock, WriteTemp, CheckCandidate, InstallNew, Sync, Discard,
     UnlinkTemp, Release, ExchangeNames, VerifyDisplaced, UnlinkDisplaced,
     UndoExchange, AsideOurs, RestoreDisplaced, MoveAside, VerifyAside,
     RecheckCandidate, InstallOverAside, Restore, UnlinkAside, Ready
<1>3. dir' = dir /\ outcome' = outcome /\ pc'[t] \in {"observed", "locked", "done"}
  BY <1>2 DEF Observe, Lock, Release, KeepDir, NoReport, Goto, Ready, TypeOK
<1>4. \A u \in Txns \ {t} : /\ PendingUndo(u)' <=> PendingUndo(u)
                            /\ MovedAside(u)' <=> MovedAside(u)
                            /\ In(u)' <=> In(u)
                            /\ ReadDocument(u)' = ReadDocument(u)
                            /\ View(u)' = View(u)
  BY <1>1, <1>3 DEF Others, PendingUndo, MovedAside, In, ReadDocument, View, Matches, Version
<1>5. /\ ~PendingUndo(t) /\ ~PendingUndo(t)' /\ ~MovedAside(t) /\ ~MovedAside(t)'
      /\ (In(t)' <=> In(t))
  BY <1>1, <1>3 DEF PendingUndo, MovedAside, In
<1>6. Installed' = Installed
  <2>1. Installed = {u \in Txns : In(u)}
    BY DEF Installed, In
  <2>2. Installed' = {u \in Txns : In(u)'}
    BY DEF Installed, In
  <2> QED BY <1>4, <1>5, <2>1, <2>2
<1>7. Document' = Document /\ dir.target \in {Document, None} \cup (Txns \ Installed)
  <2>1. CASE \E h \in Txns : pc[h] \in Active
    <3>1. PICK h \in Txns : pc[h] \in Active
      BY <2>1
    <3>2. Alone(h) /\ Alone(h)' /\ h # t
      BY <1>1, <1>3, <3>1 DEF OrderInv, Turns, Alone, Others, Active, Phases, Vacating
    <3>3. Document = View(h) /\ Document' = View(h)'
      BY <3>2, ViewOf
    <3>4. PendingUndo(h) => dir.target = h /\ h \notin Installed
      BY DEF PendingUndo, Installed, Known, Tidy, Swapped, Turns
    <3> QED BY <1>4, <3>2, <3>3, <3>4 DEF View, MovedAside
  <2>2. CASE \A h \in Txns : pc[h] \notin Active
    <3>1. Alone(t) /\ Alone(t)'
      BY <1>1, <1>3, <2>2 DEF Alone, Others, Active, Phases, Vacating
    <3> QED BY <1>3, <1>5, <3>1, ViewOf DEF View
  <2> QED BY <2>1, <2>2
<1>8. CASE seen' = seen
  BY <1>3, <1>6, <1>7, <1>8 DEF Atomic!vars, ReadDocument
<1>9. CASE Observe(t)
  <2>1. ReadDocument(t) = Unread
    BY <1>9, ReadsObject DEF Observe, Ready, Known, Tidy
  <2>2. ReadDocument(t)' = dir.target
    <3>1. dir.target \in Objects \cup {None} /\ edits \in [Objects -> 0..MaxEdits]
      BY DEF TypeOK, Directories
    <3>2. seen'[t] = IF dir.target = None THEN Absent ELSE Version(dir.target)
      BY <1>9 DEF Observe, TypeOK
    <3> QED BY <3>1, <3>2, ConstantsAssumption DEF ReadDocument, Version, Objects
  <2>3. [u \in Txns |-> ReadDocument(u)]' = [[u \in Txns |-> ReadDocument(u)] EXCEPT ![t] = dir.target]
    BY <1>4, <2>2
  <2>4. Atomic!Read(t)
    BY <1>3, <1>6, <1>7, <2>1, <2>3 DEF Atomic!Read
  <2> QED BY <2>4 DEF Atomic!Next
<1> QED BY <1>2, <1>8, <1>9

\* Seen through Document and Installed, calls that keep to the lock and are left in peace are
\* atomic compare-and-swaps with honest reports, on filesystems of both kinds.
THEOREM CommitsAreAtomic == Spec /\ Orderly => AtomicSpec
<1>1. Init => Atomic!Init
  <2> SUFFICES ASSUME Init PROVE Atomic!Init
    OBVIOUS
  <2>1. \A t \in Txns : pc[t] = "idle" /\ outcome[t] = "none" /\ seen[t] = Unread
    BY DEF Init
  <2>2. Document = dir.target /\ dir.target \in Docs \cup {None}
    BY <2>1, ConstantsAssumption DEF Init, Document, PendingUndo, MovedAside
  <2>3. Installed = {}
    BY <2>1 DEF Installed
  <2>4. [t \in Txns |-> ReadDocument(t)] = [t \in Txns |-> Unread]
    <3>1. \A t \in Txns : ReadDocument(t) = Unread
      BY <2>1, ConstantsAssumption DEF ReadDocument
    <3> QED BY <3>1
  <2> QED BY <2>2, <2>3, <2>4 DEF Atomic!Init, Init
<1>2. Orderly /\ [Next]_vars => Orderly'
  BY DEF Next, vars, Commit, Environment, Orderly, Faults, PowerCuts
<1>3. TypeOK /\ PreservedInv /\ OrderInv /\ CreationInv /\ OrderlyInv /\ Orderly /\ [Next]_vars
        => [Atomic!Next]_Atomic!vars
  <2> SUFFICES ASSUME TypeOK, PreservedInv, OrderInv, CreationInv, OrderlyInv, Orderly, [Next]_vars
               PROVE  [Atomic!Next]_Atomic!vars
    OBVIOUS
  <2>1. CASE UNCHANGED vars
    BY <2>1 DEF vars, Atomic!vars, Document, PendingUndo, MovedAside, ReadDocument, Installed, Matches, Version
  <2>2. ASSUME NEW t \in Txns, Commit(t) PROVE [Atomic!Next]_Atomic!vars
    BY <2>2, OrderlyKnows, HolderImplements, WaiterImplements DEF OrderlyInv
  <2> QED BY <2>1, <2>2, OrderlyEnvironment DEF Next
<1> QED BY <1>1, <1>2, <1>3, OrderlyAlways, PTL DEF Spec, AtomicSpec, Atomic!Spec

=============================================================================
