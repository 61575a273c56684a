------------------------------ MODULE WaveRun ------------------------------
(***************************************************************************)
(* Running waves and recording their receipts (waves.py).                  *)
(*                                                                         *)
(* Each member of Runs is one call of WaveRunner.run_wave, or one wave of  *)
(* run_all, in a thread of a process.  All the waves belong to one suite,  *)
(* so their receipts share one evidence directory.  People edit the        *)
(* manifest and the receipts while waves run, and one may put another      *)
(* directory in the place of the evidence directory.                       *)
(*                                                                         *)
(* commit_replacement (FileTxn) is here as far as the receipts show it:    *)
(* between an exchange and its undo the candidate is under the receipt's   *)
(* name, without exchange nothing is for a while, a call may die there and *)
(* a system call may fail.                                                 *)
(***************************************************************************)
EXTENDS Receipts, Naturals, FiniteSets

CONSTANTS
    Runs,      \* calls that run a wave
    Procs,     \* processes they run in
    Waves,     \* waves of the suite
    Names,     \* receipt names in the evidence directory
    Path,      \* Waves -> Names, the receipt each wave declares
    Role,      \* Waves -> Roles, which runner a wave has
    Specs,     \* Waves -> the specifications the manifest may give a wave
    First,     \* Waves -> the one it gives at first
    Calls,     \* what the calls may be: functions that give each a wave and a process
    Dirs,      \* directory objects that may be the evidence directory
    MaxEdits,  \* bound on what people do
    None

Roles == {"plain", "depth", "prose", "package", "consumer", "claims", "none"}

\* Who made a receipt: a run, an earlier run, or a person.
Makers == Runs \cup {"past", "hand"}
Receipt == [wave : Waves, contract : Contracts, shows : SUBSET Facts, by : Makers]

\* The last conjunct is how the runners were written: these waves claim an analysis.
ASSUME WaveAssumption ==
    /\ Path \in [Waves -> Names] /\ Role \in [Waves -> Roles]
    /\ Calls \subseteq [Runs -> [wave : Waves, proc : Procs]] /\ \A w \in Waves : First[w] \in Specs[w]
    /\ \A w \in Waves : First[w].claim.contract \in Contracts
    /\ Runs \cap Names = {} /\ Runs \cap {"past", "hand"} = {}
    /\ None \notin Runs \cup Names \cup Dirs \cup Receipt
    /\ Dirs # {} /\ MaxEdits \in Nat
    /\ \A w \in Waves : Role[w] \in {"prose", "package", "consumer", "claims"} => First[w].claim.kind = "analysis"

VARIABLES
    manifest,   \* Waves -> specification on disk
    published,  \* what the upstream brand tool has published
    canon,      \* the directory the evidence path reaches
    store,      \* Dirs -> (Names \cup Runs) -> receipt or None; a run stands for its temp's name
    flocked,    \* Dirs -> who holds the directory's lock
    threads,    \* Procs -> Names -> who holds the record lock
    run,        \* Runs -> the call
    edits       \* things people did

vars == <<manifest, published, canon, store, flocked, threads, run, edits>>

\* aside is what the commit has under a quarantine name, over the receipt whose place its own took.
NewRun == [pc |-> "idle", wave |-> None, proc |-> None, write |-> FALSE, full |-> FALSE, spec |-> None,
           doc |-> None, passed |-> FALSE, blocked |-> FALSE, skipped |-> FALSE,
           dir |-> None, prior |-> None, path |-> FALSE, sure |-> TRUE, note |-> FALSE,
           aside |-> None, over |-> None,
           status |-> None, tag |-> None]

\* The receipt that an earlier run left under a name.
Past(n) == LET w == CHOOSE w \in Waves : Path[w] = n
           IN  [wave |-> w, contract |-> First[w].claim.contract, shows |-> Facts, by |-> "past"]

Init ==
    /\ manifest = First
    /\ published = "claims"
    /\ canon = CHOOSE d \in Dirs : TRUE
    /\ store \in {[d \in Dirs |-> [n \in Names \cup Runs |->
                        IF d = canon /\ n \in past THEN Past(n) ELSE None]] : past \in {{}, {Path[w] : w \in Waves}}}
    /\ flocked = [d \in Dirs |-> None]
    /\ threads = [p \in Procs |-> [n \in Names |-> None]]
    /\ \E call \in Calls : run = [r \in Runs |-> [NewRun EXCEPT !.wave = call[r].wave, !.proc = call[r].proc]]
    /\ edits = 0

At(r, pc) == run[r].pc = pc
Name(r) == Path[run[r].wave]

-----------------------------------------------------------------------------
(* Running the gate.                                                       *)

\* Mutant: an outcome in doubt is not told apart.
StatusWithoutDoubt(u) == IF u.write /\ u.path THEN "recorded" ELSE "candidate_rejected"

\* The outcome is reported: the machine-readable status in the order the code asks.
Status(u) ==
    IF ~u.sure THEN "committed_unverified"
    ELSE IF ~u.write THEN "not_requested"
    ELSE IF u.path THEN IF u.note THEN "read_only" ELSE "recorded"
    ELSE CASE ~u.passed                                -> "gate_failed"
           [] u.passed /\ ~Eligible(u.spec.claim)      -> "ineligible"
           [] u.passed /\ Eligible(u.spec.claim)       -> "candidate_rejected"

Reported(u) ==
    LET kind == ReportedKind(u.spec, u.blocked, u.skipped)
    IN  [u EXCEPT !.pc = "done", !.status = Status(u), !.tag = Tag(u.spec, kind, u.passed)]

\* A wave without a runner is reported before any recording is considered.
Unintegrated(u) == [u EXCEPT !.pc = "done", !.status = "not_requested", !.tag = "SPECIFIED"]

Begin(r) ==
    /\ At(r, "idle")
    /\ \E write, full \in BOOLEAN :
        /\ full => Role[run[r].wave] = "depth"     \* the other runners have no depth
        /\ LET u == [run[r] EXCEPT !.write = write, !.full = full, !.spec = manifest[run[r].wave], !.pc = "gate"]
           IN  run' = [run EXCEPT ![r] = IF Role[run[r].wave] = "none" THEN Unintegrated(u) ELSE u]
    /\ UNCHANGED <<manifest, published, canon, store, flocked, threads, edits>>

Made(r, contract, shows) ==
    [wave |-> run[r].wave, contract |-> contract, shows |-> shows, by |-> r]

\* After the gate: offer the receipt to the recorder, which wants a request and a pass.
Settled(u) == IF u.write /\ u.passed THEN [u EXCEPT !.pc = "open"] ELSE Reported(u)

\* A gate that passed hands over what its run showed; one that did not claims nothing.
Passing(r, contract, shows) == [run[r] EXCEPT !.doc = Made(r, contract, shows), !.passed = TRUE]
Failing(r) == [run[r] EXCEPT !.doc = Made(r, "analysis", {}), !.passed = FALSE]

\* One adapter call and a pass predicate; a runtime wave hands over the runtime receipt.
PlainGate(r) ==
    /\ Role[run[r].wave] = "plain"
    /\ \E ok \in BOOLEAN, c \in {"analysis", "source"} :
        /\ c = First[run[r].wave].claim.contract
        /\ run' = [run EXCEPT ![r] = Settled(IF ok
                THEN Passing(r, c, {"basis", "clean", "invoked", "full"})
                ELSE Failing(r))]

\* A2: recording needs --full; a fast probe skips the long stages; a donor that cannot run
\* blocks the gate without failing the product.
DepthGate(r) ==
    /\ Role[run[r].wave] = "depth"
    /\ IF run[r].write /\ ~run[r].full
       THEN run' = [run EXCEPT ![r] = Reported(@)]
       ELSE \E result \in {"pass", "fail", "env"} :
            LET proof == {"clean", "invoked"} \cup (IF run[r].full THEN {"full"} ELSE {})
            IN  run' = [run EXCEPT ![r] = Settled(IF result = "pass"
                    THEN [Passing(r, "wcag", proof) EXCEPT !.skipped = ~run[r].full]
                    ELSE [Failing(r) EXCEPT !.blocked = (result = "env"), !.skipped = ~run[r].full])]

\* A1 reads the retained document and never writes one.
ProseGate(r) ==
    /\ Role[run[r].wave] = "prose"
    /\ LET w == run[r].wave
           found == store[canon][Path[w]]
           valid == found # None /\ Bears(w, run[r].spec.claim, found)
       IN  run' = [run EXCEPT ![r] =
                Reported([@ EXCEPT !.passed = valid, !.path = valid, !.note = run[r].write])]

\* B1 passes for an exported package and for the refusal that nothing is published.
PackageGate(r) ==
    /\ Role[run[r].wave] = "package"
    /\ \E ok \in BOOLEAN :
        LET proof == IF published = "nothing" THEN {"basis"} ELSE {"basis", "clean", "invoked"}
        IN  run' = [run EXCEPT ![r] = Settled(IF ok
                THEN Passing(r, "analysis", proof)
                ELSE Failing(r))]

\* B4 runs the export first and is blocked without a package; two consumers pin what it gave.
ConsumerGate(r) ==
    /\ Role[run[r].wave] = "consumer"
    /\ \E ok \in BOOLEAN :
        run' = [run EXCEPT ![r] = Settled(IF published # "nothing" /\ ok
            THEN Passing(r, "analysis", {"basis", "clean"})
            ELSE [Failing(r) EXCEPT !.doc = Made(r, "analysis", {"basis"})])]

\* B3 and B6 run the export first; without a package that has approved claims they are
\* blocked, and the blocked document is not a pass.
ClaimsGate(r) ==
    /\ Role[run[r].wave] = "claims"
    /\ \E ok \in BOOLEAN :
        run' = [run EXCEPT ![r] = Settled(IF published = "claims" /\ ok
            THEN Passing(r, "analysis", {"basis", "clean"})
            ELSE [Failing(r) EXCEPT !.doc = Made(r, "analysis", {"basis"})])]

Gate(r) ==
    /\ At(r, "gate")
    /\ PlainGate(r) \/ DepthGate(r) \/ ProseGate(r) \/ PackageGate(r) \/ ConsumerGate(r) \/ ClaimsGate(r)
    /\ UNCHANGED <<manifest, published, canon, store, flocked, threads, edits>>
-----------------------------------------------------------------------------
(* Recording.                                                              *)

Owners(n) == {w \in Waves : Path[w] = n}

Refused(r) == run' = [run EXCEPT ![r] = Reported(@)]

\* Only the one wave that declares a path may write it; the directory is pinned.
Open(r) ==
    /\ At(r, "open")
    /\ \/ Refused(r)                                        \* the directory cannot be opened
       \/ /\ Owners(Name(r)) = {run[r].wave}
          /\ run' = [run EXCEPT ![r].dir = canon, ![r].pc = "prior"]
    /\ UNCHANGED <<manifest, published, canon, store, flocked, threads, edits>>

\* What occupies the name now is all this recording may displace.  A receipt that cannot be
\* read counts as absent.
ReadPrior(r) ==
    /\ At(r, "prior")
    /\ \E seen \in {store[run[r].dir][Name(r)], None} :
        run' = [run EXCEPT ![r].prior = seen, ![r].pc = "thread"]
    /\ UNCHANGED <<manifest, published, canon, store, flocked, threads, edits>>

LockThread(r) ==
    /\ At(r, "thread")
    /\ threads[run[r].proc][Name(r)] = None
    /\ threads' = [threads EXCEPT ![run[r].proc][Name(r)] = r]
    /\ run' = [run EXCEPT ![r].pc = "flock"]
    /\ UNCHANGED <<manifest, published, canon, store, flocked, edits>>

LockDirectory(r) ==
    /\ At(r, "flock")
    /\ flocked[run[r].dir] = None
    /\ flocked' = [flocked EXCEPT ![run[r].dir] = r]
    /\ run' = [run EXCEPT ![r].pc = "write"]
    /\ UNCHANGED <<manifest, published, canon, store, threads, edits>>

Put(d, n, x) == store' = [store EXCEPT ![d][n] = x]

WriteTemp(r) ==
    /\ At(r, "write")
    /\ \/ run' = [run EXCEPT ![r].pc = "unlock"] /\ UNCHANGED store
       \/ run' = [run EXCEPT ![r].pc = "validate"] /\ Put(run[r].dir, r, run[r].doc)
    /\ UNCHANGED <<manifest, published, canon, flocked, threads, edits>>

\* Mutant: whatever can be read is good.
ValidateReadable(r) ==
    /\ At(r, "validate")
    /\ run' = [run EXCEPT ![r].pc = IF store[canon][r] # None THEN "verify" ELSE "discard"]
    /\ UNCHANGED <<manifest, published, canon, store, flocked, threads, edits>>

\* The candidate is validated under its path name, against the claim the run began with.
Validate(r) ==
    /\ At(r, "validate")
    /\ LET read == store[canon][r]
           good == read # None /\ Bears(run[r].wave, run[r].spec.claim, read)
       IN  run' = [run EXCEPT ![r].pc = IF good THEN "verify" ELSE "discard"]
    /\ UNCHANGED <<manifest, published, canon, store, flocked, threads, edits>>

\* verify_payload: the payload is re-derived from the pinned directory.
Verify(r) ==
    /\ At(r, "verify")
    /\ run' = [run EXCEPT ![r].pc = IF store[run[r].dir][r] = run[r].doc THEN "swap" ELSE "discard"]
    /\ UNCHANGED <<manifest, published, canon, store, flocked, threads, edits>>

-----------------------------------------------------------------------------
(* commit_replacement.                                                     *)

\* What the directory holds under the receipt's name and under the temp's.
Target(r) == store[run[r].dir][Name(r)]
Temp(r)   == store[run[r].dir][r]

Place(r, target, temp) ==
    store' = [store EXCEPT ![run[r].dir] = [@ EXCEPT ![Name(r)] = target, ![r] = temp]]

\* _finish_commit: the candidate is in its place, and the directory is made durable if it can.
Finish(u, r) ==
    \E sure \in BOOLEAN :
        run' = [run EXCEPT ![r] = [u EXCEPT !.pc = IF sure THEN "confirm" ELSE "unlock", !.sure = sure]]
InDoubt(u) == [u EXCEPT !.pc = "unlock", !.sure = FALSE]

\* No receipt was read, and none is there.
InstallAbsent(r) ==
    /\ At(r, "swap") /\ run[r].prior = None /\ Temp(r) # None /\ Target(r) = None
    /\ Place(r, Temp(r), None)
    /\ Finish(run[r], r)

\* One is there after all, the receipt that was read is gone, or a call fails.
CommitFails(r) ==
    /\ At(r, "swap")
    /\ run' = [run EXCEPT ![r].pc = "discard"]
    /\ UNCHANGED store

Exchange(r) ==
    /\ At(r, "swap") /\ run[r].prior # None /\ Temp(r) # None /\ Target(r) # None
    /\ Place(r, Temp(r), Target(r))
    /\ run' = [run EXCEPT ![r].pc = "exchanged"]

\* Mutant: the receipt is replaced whatever is there.
UndisturbedOrNot(r) == TRUE

Undisturbed(r) == Temp(r) = run[r].prior

\* What the exchange displaced is the receipt that was read; its unlink may fail.
Accept(r) ==
    /\ At(r, "exchanged") /\ Undisturbed(r)
    /\ LET u == [run[r] EXCEPT !.over = run[r].prior]
       IN  \/ Place(r, Target(r), None) /\ Finish(u, r)
           \/ run' = [run EXCEPT ![r] = InDoubt(u)] /\ UNCHANGED store

\* It is another, or cannot be read: a second exchange.
Undo(r) ==
    /\ At(r, "exchanged") /\ Temp(r) # None /\ Target(r) # None
    /\ Place(r, Temp(r), Target(r))
    /\ run' = [run EXCEPT ![r].pc = "discard"]

\* The second exchange fails: two renames take what is under the receipt's name aside and put
\* the displaced document in its place, and either may fail too.
UndoFails(r) ==
    /\ At(r, "exchanged")
    /\ \/ run' = [run EXCEPT ![r] = InDoubt(@)] /\ UNCHANGED store
       \/ /\ run' = [run EXCEPT ![r] = InDoubt([@ EXCEPT !.aside = Target(r)])]
          /\ Place(r, None, Temp(r)) \/ Place(r, Temp(r), None)
       \/ /\ Target(r) = None /\ run' = [run EXCEPT ![r] = InDoubt(@)]
          /\ Place(r, Temp(r), None)

\* Without exchange, the receipt is moved to a quarantine name.
MoveAside(r) ==
    /\ At(r, "swap") /\ run[r].prior # None /\ Temp(r) # None /\ Target(r) # None
    /\ Place(r, None, Temp(r))
    /\ run' = [run EXCEPT ![r].aside = Target(r), ![r].pc = "vacated"]

\* It is the receipt that was read: the candidate takes the name, and it is unlinked if it can.
Replace(r) ==
    /\ At(r, "vacated") /\ run[r].aside = run[r].prior /\ Target(r) = None /\ Temp(r) # None
    /\ Place(r, Temp(r), None)
    /\ LET u == [run[r] EXCEPT !.over = run[r].prior]
       IN  Finish([u EXCEPT !.aside = None], r) \/ run' = [run EXCEPT ![r] = InDoubt(u)]

\* It is not, or the candidate cannot be installed: what was moved goes back.
Return(r) ==
    /\ At(r, "vacated") /\ Target(r) = None
    /\ Place(r, run[r].aside, Temp(r))
    /\ run' = [run EXCEPT ![r].aside = None, ![r].pc = "discard"]

\* A rename fails for another reason than a taken name: the error leaves commit_replacement at
\* once, and the recording with it.
Strand(r) ==
    /\ At(r, "vacated")
    /\ run' = [run EXCEPT ![r].pc = "unlock"]
    /\ UNCHANGED store

Commit(r) ==
    /\ \/ InstallAbsent(r) \/ CommitFails(r)
       \/ Exchange(r) \/ Accept(r) \/ Undo(r) \/ UndoFails(r)
       \/ MoveAside(r) \/ Replace(r) \/ Return(r) \/ Strand(r)
    /\ UNCHANGED <<manifest, published, canon, flocked, threads, edits>>
-----------------------------------------------------------------------------
(* The end of a recording.                                                 *)

\* The commit is confirmed under the canonical names before a path is reported.
Confirm(r) ==
    /\ At(r, "confirm")
    /\ \/ /\ canon = run[r].dir /\ store[canon][Name(r)] # None
          /\ run' = [run EXCEPT ![r].path = TRUE, ![r].pc = "unlock"]
       \/ run' = [run EXCEPT ![r].sure = FALSE, ![r].pc = "unlock"]
    /\ UNCHANGED <<manifest, published, canon, store, flocked, threads, edits>>

\* Mutant: the directory stays locked.
UnlockThreadOnly(r) ==
    /\ run[r].pc \in {"discard", "unlock"}
    /\ UNCHANGED store \/ (At(r, "discard") /\ Put(run[r].dir, r, None))
    /\ threads' = [threads EXCEPT ![run[r].proc][Name(r)] = None]
    /\ run' = [run EXCEPT ![r] = Reported(@)]
    /\ UNCHANGED <<manifest, published, canon, flocked, edits>>

\* A candidate that is not needed is removed, though nobody hears if that fails, and the locks
\* are released.
Unlock(r) ==
    /\ run[r].pc \in {"discard", "unlock"}
    /\ UNCHANGED store \/ (At(r, "discard") /\ Put(run[r].dir, r, None))
    /\ flocked' = [flocked EXCEPT ![run[r].dir] = None]
    /\ threads' = [threads EXCEPT ![run[r].proc][Name(r)] = None]
    /\ run' = [run EXCEPT ![r] = Reported(@)]
    /\ UNCHANGED <<manifest, published, canon, edits>>
-----------------------------------------------------------------------------
(* The process, and the people around it.                                  *)

Active(r) == run[r].pc \notin {"idle", "done", "dead"}

\* A process dies with its calls; the kernel drops its directory locks, its files stay.
Die(p) ==
    LET dying == {r \in Runs : run[r].proc = p /\ Active(r)}
    IN  /\ dying # {}
        /\ run' = [r \in Runs |-> IF r \in dying THEN [run[r] EXCEPT !.pc = "dead"] ELSE run[r]]
        /\ flocked' = [d \in Dirs |-> IF flocked[d] \in dying THEN None ELSE flocked[d]]
        /\ threads' = [threads EXCEPT ![p] = [n \in Names |-> None]]
        /\ UNCHANGED <<manifest, published, canon, store, edits>>

EditManifest(w) ==
    /\ edits < MaxEdits /\ edits' = edits + 1
    /\ \E spec \in Specs[w] : manifest' = [manifest EXCEPT ![w] = spec]
    /\ UNCHANGED <<published, canon, store, flocked, threads, run>>

\* A receipt or a temp in the directory is rewritten in place or removed.
EditReceipt(n) ==
    /\ edits < MaxEdits /\ edits' = edits + 1
    /\ store[canon][n] # None
    /\ \E x \in {None, [store[canon][n] EXCEPT !.by = "hand"],
                 [store[canon][n] EXCEPT !.by = "hand", !.shows = {}]} : Put(canon, n, x)
    /\ UNCHANGED <<manifest, published, canon, flocked, threads, run>>

\* Another directory takes the evidence directory's name: one that had it before comes back as
\* it is, or a new one, which no run has pinned, comes with a copy of the content.
ReplaceDirectory ==
    /\ edits < MaxEdits /\ edits' = edits + 1
    /\ \E d \in Dirs \ {canon} :
        /\ canon' = d
        /\ \/ UNCHANGED store
           \/ (\A r \in Runs : run[r].dir # d) /\ store' = [store EXCEPT ![d] = store[canon]]
    /\ UNCHANGED <<manifest, published, flocked, threads, run>>

Publish ==
    /\ edits < MaxEdits /\ edits' = edits + 1
    /\ published' \in {"nothing", "package", "claims"} \ {published}
    /\ UNCHANGED <<manifest, canon, store, flocked, threads, run>>

\* A live process runs its threads.  Only a lock can keep a thread from its next step, and a
\* lock that keeps being released is eventually granted, as the kernel's and the interpreter's
\* queues provide: strong fairness matters for the two lock steps alone.
Advance(r) ==
    \/ Gate(r) \/ Open(r) \/ ReadPrior(r) \/ LockThread(r) \/ LockDirectory(r)
    \/ WriteTemp(r) \/ Validate(r) \/ Verify(r) \/ Commit(r) \/ Confirm(r) \/ Unlock(r)

Next ==
    \/ \E r \in Runs : Begin(r) \/ Advance(r)
    \/ \E p \in Procs : Die(p)
    \/ \E r \in Runs : EditManifest(run[r].wave)        \* no call reads the other waves'
    \/ \E n \in Names \cup Runs : EditReceipt(n)
    \/ ReplaceDirectory
    \/ Publish

Spec == Init /\ [][Next]_vars
FairSpec == Spec /\ \A r \in Runs : SF_vars(Advance(r))

-----------------------------------------------------------------------------
(* Properties.                                                             *)

Statuses == {"committed_unverified", "not_requested", "read_only", "recorded", "gate_failed",
             "ineligible", "candidate_rejected"}

\* The values the variables take.
TypeOK ==
    /\ \A w \in Waves : manifest[w] \in Specs[w]
    /\ published \in {"nothing", "package", "claims"}
    /\ canon \in Dirs
    /\ \A d \in Dirs, n \in Names \cup Runs : store[d][n] = None \/ store[d][n] \in Receipt
    /\ flocked \in [Dirs -> Runs \cup {None}]
    /\ threads \in [Procs -> [Names -> Runs \cup {None}]]
    /\ \A r \in Runs :
        /\ run[r].doc = None \/ run[r].doc \in Receipt
        /\ At(r, "done") => run[r].status \in Statuses

By(x, r) == x # None /\ x.by = r

\* A status that says nothing was written is true of the directory that the run had pinned: its
\* receipt is under no name but its temp's, no run has it aside or has taken its place, and its
\* temp's name holds none of the receipts that it may have moved.
RefusalLeftNothing ==
    \A r \in Runs : At(r, "done") /\ run[r].status \notin {"recorded", "committed_unverified"} =>
        \A d \in {run[r].dir} \cap Dirs :
            /\ \A n \in (Names \cup Runs) \ {r} : ~By(store[d][n], r)
            /\ \A q \in Runs : run[q].dir = d => ~By(run[q].aside, r) /\ ~By(run[q].over, r)
            /\ store[d][r] # None => store[d][r].by \in {r, "hand"}

Installed(r) == \E n \in Names : store[run[r].dir][n] = run[r].doc
Displaced(r) == \E q \in Runs : run[q].over = run[r].doc

\* A commit that is under way, died or could not be undone has it, or one that was cut short.
HeldAside(r) == \E q \in Runs \ {r} :
    \/ run[q].aside = run[r].doc
    \/ store[run[r].dir][q] = run[r].doc /\ (run[q].pc \in {"exchanged", "dead"} \/ ~run[q].sure)

\* While no person is at the files, a receipt that was reported as recorded is not lost to other
\* runs, whatever fails or dies: it is still there, or a run that had read exactly it took its
\* place, or a commit that did not end well left it under its temp's or a quarantine name.
RecordedIsKept ==
    \A r \in Runs : At(r, "done") /\ run[r].status = "recorded" /\ edits = 0 =>
        Installed(r) \/ Displaced(r) \/ HeldAside(r)

\* Whatever a run left under a receipt name came from a requested run of the one wave that
\* owns the name, whose gate passed, and bears the claim that run was judged by.
InstalledIsValidated ==
    \A d \in Dirs, n \in Names :
        LET x == store[d][n] IN x # None /\ x.by \in Runs =>
            /\ run[x.by].write /\ run[x.by].passed
            /\ Owners(n) = {x.wave}
            /\ Bears(x.wave, run[x.by].spec.claim, x)

\* Under the claim its runner was written for, a run is shown as a recovery only when it ran
\* every stage itself; nothing but a failure is shown when the gate did not pass, and a
\* prototype is never shown as more.
TagIsEarned ==
    \A r \in Runs : At(r, "done") =>
        /\ run[r].tag = "RECOVERED" /\ run[r].spec = First[run[r].wave] => "full" \in run[r].doc.shows
        /\ run[r].tag \notin {"FAIL", "UNVERIFIABLE", "SPECIFIED"} => run[r].passed
        /\ run[r].spec.claim.level = "prototype" => run[r].tag \in {"PROTOTYPE", "FAIL", "UNVERIFIABLE", "SPECIFIED"}

\* Every run that began reports, unless its process dies.
EveryRunReports == \A r \in Runs : At(r, "gate") ~> (At(r, "done") \/ At(r, "dead"))
=============================================================================
