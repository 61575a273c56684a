---------------------------- MODULE ReleaseState ----------------------------
(***************************************************************************)
(* The release ledger joined to the recovery program (release_state.py):   *)
(* criteria, blockers, phase gates that freeze files by digest, and the    *)
(* phase of a suite.                                                       *)
(*                                                                         *)
(* resolve_release_state is given the ledger, the program and the manifest *)
(* as they were read, and reads the evidence, the frozen files and the     *)
(* approvals while it validates, one after another and some of them more   *)
(* than once.  People edit all of these, a file at a time, before and      *)
(* during a call.  A step of Resolve looks at one criterion, gate, wave or *)
(* receipt, or at one file that a receipt binds; an error is a refusal.    *)
(***************************************************************************)
EXTENDS RecoveryProgram

CONSTANTS
    Criteria, Blockers, Gates,
    Ledger0,   \* the gate that freezes the ledger and the program
    Freeze,    \* the gate that freezes the contracts and that every blocker waits for
    Disks,     \* what the files may hold at first
    Closures,  \* closures that a person may write under a criterion
    Phases,    \* phases that a person may declare
    DepSets,   \* sets of obligations that a person may make one depend on
    Contents,  \* what a person may put into an evidence file
    MaxEdits   \* bound on edits

ASSUME LedgerAssumption ==
    {Ledger0, Freeze} \subseteq Gates /\ Gates \cap Blockers = {} /\ MaxEdits \in Nat

VARIABLES
    disk,   \* [ledger, program, manifest, files, gateDocs, contracts, retireDoc, approved]
    call,   \* the call of resolve_release_state
    disks,  \* what the files have held since the call began, in order
    edits   \* edits so far

vars == <<disk, call, disks, edits>>

\* "seen" is what the pass that pc names has looked at, "next" where the pass over the obligations
\* leads, and "bind" the adoption receipt whose bindings are looked at.
Idle == [pc |-> "idle", ledger |-> None, program |-> None, manifest |-> None, support |-> None,
         seen |-> {}, next |-> None, bind |-> None]

Init == disk \in Disks /\ call = Idle /\ disks = <<>> /\ edits = 0

-----------------------------------------------------------------------------
(* Freezing.                                                               *)

\* Mutant: the closures of criteria are left out too.
CanonicalAll(ledger) ==
    [ledger EXCEPT !.gates = [g \in Gates |-> [ledger.gates[g] EXCEPT !.closure = None]],
                   !.criteria = [k \in Criteria |-> [ledger.criteria[k] EXCEPT !.closure = None, !.status = "open"]]]

\* The ledger as its digest has it, without the closures that hold that digest.
Canonical(ledger) ==
    [ledger EXCEPT !.gates = [g \in Gates |-> [ledger.gates[g] EXCEPT !.closure = None]]]

\* The digests of what a gate freezes.
Digests(g, d) ==
    IF g = Ledger0 THEN [ledger |-> Canonical(d.ledger), program |-> d.program]
                   ELSE [contracts |-> d.contracts]

\* The receipt written for the gate and its owner, or None.
GateReceipt(d, g) == d.gateDocs[g]

\* Each bound digest is that of the file as it is now.
BindingsCurrent(closure, d, g) == closure = Digests(g, d)

\* A closed gate has a receipt of its own that binds the same digests, and they are current.
GateValid(ledger, d, g) ==
    LET closure == ledger.gates[g].closure IN
    closure # None => /\ GateReceipt(d, g) # None /\ closure = GateReceipt(d, g).bound
                      /\ BindingsCurrent(closure, d, g)

\* What the files are at first: documents with their fields, evidence names that are names, and
\* gate receipts that bind what they were written of.
LedgerShaped(ledger) ==
    /\ DOMAIN ledger = {"criteria", "blockers", "gates", "phase"} /\ DOMAIN ledger.gates = Gates
    /\ \A g \in Gates : DOMAIN ledger.gates[g] = {"closure", "deps"}

ReceiptsBind(d) == \A g \in Gates : d.gateDocs[g] # None =>
    LedgerShaped(d.gateDocs[g].asOf.ledger) /\ d.gateDocs[g].bound = Digests(g, d.gateDocs[g].asOf)

Shaped(d) ==
    /\ DOMAIN d = {"ledger", "program", "manifest", "files", "gateDocs", "contracts", "retireDoc", "approved"}
    /\ LedgerShaped(d.ledger) /\ DOMAIN d.gateDocs = Gates /\ ReceiptsBind(d)
    /\ DOMAIN d.program = Obls
    /\ \A o \in Obls : "evid" \in DOMAIN d.program[o] /\ d.program[o].evid \in Files \cup {None}
    /\ DOMAIN d.manifest = FollowUps
    /\ \A w \in FollowUps : "file" \in DOMAIN d.manifest[w] /\ d.manifest[w].file \in Files

ASSUME DisksAssumption == \A d \in Disks : Shaped(d)

-----------------------------------------------------------------------------
(* The phase of the suite.                                                 *)

Promises == {"supported", "beta", "release-candidate"}
Executes(kind) == kind \in {"runtime", "adoption", "convergence"}

\* The wave is the only one to declare its file, and the file bears its claim.
WaveProven(manifest, files, w) ==
    /\ \A v \in FollowUps : manifest[v].file = manifest[w].file => v = w
    /\ files[manifest[w].file] # None
    /\ Bears(w, manifest[w].claim, files[manifest[w].file])

\* The waves and the obligations that would reach the depth of a promise.
Reaching(depth, manifest) ==
    {w \in FollowUps : /\ manifest[w].status = "complete" /\ Executes(manifest[w].claim.kind)
                       /\ AtLeast(manifest[w].claim.level, depth)}

Reached(depth, program) ==
    {o \in Discharged(program) : Executes(program[o].target.kind) /\ AtLeast(program[o].target.level, depth)}

\* The bytes of a regular file inside the suites tree, or None.
ConfinedBytes(files, ref) == files[ref]

\* Mutant: the bytes under the name are taken for the bound ones.
BoundBytesAny(doc, files) == TRUE

\* The receipt of a retirement binds the bytes of the evidence that supports it.
BoundBytes(doc, files) == ConfinedBytes(files, doc.ref) # None /\ ConfinedBytes(files, doc.ref) = doc.bytes

\* The completed waves and the lifecycle obligations that have a file for their evidence.
WaveOwners(manifest, ref) == {w \in FollowUps : manifest[w].status = "complete" /\ manifest[w].file = ref}
LifeOwners(program, ref)  == {o \in Obls \ FollowUps : program[o].evid = ref}

-----------------------------------------------------------------------------
(* The ledger.                                                             *)

\* The closure of a criterion is evidenced for an obligation it refers to, or explained.
ClosureValid(criterion, program, files) ==
    LET closure == criterion.closure IN
    /\ (criterion.status = "closed") = (closure # None)
    /\ closure # None =>
        IF closure.outcome \in {"implemented", "already_covered", "independently_retained"}
        THEN /\ files[closure.evid] # None
             /\ \E o \in criterion.refs : Bears(o, program[o].target, files[closure.evid])
        ELSE closure.rationale

Owners(ledger, o) == {b \in Blockers : o \in ledger.blockers[b].refs}

\* Mutant: the queue need not follow the obligations.
QueueFree(ledger, program, o) == Cardinality(Owners(ledger, o)) = 1

\* One queue entry per obligation, behind the freeze and the entries of all it depends on.
Queued(ledger, program, o) ==
    /\ Cardinality(Owners(ledger, o)) = 1
    /\ \A b \in Owners(ledger, o) :
        {Freeze} \cup UNION {Owners(ledger, d) : d \in program[o].deps} \subseteq ledger.blockers[b].deps

Waits(ledger) == [n \in Blockers \cup Gates |->
    IF n \in Blockers THEN ledger.blockers[n].deps ELSE ledger.gates[n].deps]

\* What of the ledger one look at it and the program decides.
LedgerValid(ledger, program) ==
    /\ \A k \in Criteria : ledger.criteria[k].refs # {} /\ ledger.criteria[k].refs \subseteq Obls
    /\ \A o \in Obls : (\E k \in Criteria : o \in ledger.criteria[k].refs) /\ Queued(ledger, program, o)
    /\ \A b \in Blockers : ledger.blockers[b].refs # {} /\ ledger.blockers[b].refs \subseteq Obls
    /\ \A n \in Blockers \cup Gates : Waits(ledger)[n] \subseteq Blockers \cup Gates
    /\ Acyclic(Blockers \cup Gates, Waits(ledger))

-----------------------------------------------------------------------------
(* The report.                                                             *)

CriterionClosed(ledger, program, k) ==
    ledger.criteria[k].status = "closed" /\ ledger.criteria[k].refs \subseteq Discharged(program)

Residual(ledger, program, b) == ledger.blockers[b].refs \ Discharged(program)

OpenBlockers(ledger, program) ==
    {b \in Blockers : Residual(ledger, program, b) # {}} \cup {g \in Gates : ledger.gates[g].closure = None}

Actionable(ledger, program) ==
    {n \in OpenBlockers(ledger, program) : Waits(ledger)[n] \cap OpenBlockers(ledger, program) = {}}

-----------------------------------------------------------------------------
(* resolve_release_state.                                                  *)

At(pc) == call.pc = pc /\ UNCHANGED <<disk, disks, edits>>
Refuse == call' = [call EXCEPT !.pc = "refused"]
Pass(cond, next) == IF cond THEN call' = [call EXCEPT !.pc = next, !.seen = {}] ELSE Refuse
Look(x, cond)    == IF cond THEN call' = [call EXCEPT !.seen = @ \cup {x}] ELSE Refuse

\* resolve_recovery_obligations: the evidence of the obligations is looked at after the program.
ResolveProgram(cond, next) ==
    IF cond /\ ProgramSound(call.program, call.manifest)
    THEN call' = [call EXCEPT !.pc = "evidence", !.seen = {}, !.next = next]
    ELSE Refuse

Start ==
    /\ call.pc = "idle"
    /\ call' = [call EXCEPT !.pc = "program", !.ledger = disk.ledger]
    /\ disks' = <<disk>>
    /\ UNCHANGED <<disk, edits>>

LoadProgram == At("program") /\ call' = [call EXCEPT !.pc = "manifest", !.program = disk.program]
LoadSuites  == At("manifest") /\ call' = [call EXCEPT !.pc = "phase", !.manifest = disk.manifest]

Phase == call.ledger.phase

\* A phase that promises nothing, a promise, or a retirement.
CheckNoPromise ==
    /\ At("phase") /\ Phase.name \notin Promises \cup {"retired"}
    /\ Pass(Phase.name = "deprecated" => Phase.owner, "criteria")

\* A promise of a depth has a completed wave that reaches it, or else a discharged obligation.
CheckPromise ==
    /\ At("phase") /\ Phase.name \in Promises
    /\ Pass(Phase.owner /\ AtLeast(Phase.depth, "source_executed"), "waves")

CheckWave ==
    /\ At("waves")
    /\ \E w \in Reaching(Phase.depth, call.manifest) \ call.seen :
        IF WaveProven(call.manifest, disk.files, w) THEN Pass(TRUE, "criteria") ELSE Look(w, TRUE)

CheckObligations ==
    /\ At("waves") /\ Reaching(Phase.depth, call.manifest) \subseteq call.seen
    /\ ResolveProgram(Reached(Phase.depth, call.program) # {}, "criteria")

\* The bytes are read and compared with the bound ones, their owner's receipt is validated by
\* name, and the bytes are read again.
CheckRetirement ==
    /\ At("phase") /\ Phase.name = "retired"
    /\ LET doc == disk.retireDoc IN
       IF Phase.owner /\ doc # None /\ BoundBytes(doc, disk.files)
       THEN call' = [call EXCEPT !.pc = "owner", !.support = [doc |-> doc, before |-> ConfinedBytes(disk.files, doc.ref)]]
       ELSE Pass(FALSE, "owner")

CheckSupportOwner ==
    /\ At("owner")
    /\ LET waves == WaveOwners(call.manifest, call.support.doc.ref)
           lives == LifeOwners(call.program, call.support.doc.ref)
       IN  IF Cardinality(waves) = 1
           THEN Pass(\A w \in waves : WaveProven(call.manifest, disk.files, w), "unchanged")
           ELSE ResolveProgram(Cardinality(lives) = 1 /\ lives \subseteq Discharged(call.program), "unchanged")

CheckUnchanged ==
    At("unchanged") /\ Pass(ConfinedBytes(disk.files, call.support.doc.ref) = call.support.before, "approval")

\* The authority has an approval on record that was consumed for exactly this payload.
CheckApproval == At("approval") /\ Pass(call.support.doc \in disk.approved, "criteria")

CheckCriterion ==
    At("criteria") /\ \E k \in Criteria \ call.seen :
        Look(k, ClosureValid(call.ledger.criteria[k], call.program, disk.files))

CheckQueue == At("criteria") /\ call.seen = Criteria /\ Pass(LedgerValid(call.ledger, call.program), "gates")

CheckGate == At("gates") /\ \E g \in Gates \ call.seen : Look(g, GateValid(call.ledger, disk, g))

ResolveObligations == At("gates") /\ call.seen = Gates /\ ResolveProgram(TRUE, "done")

\* The evidence of one obligation.
CheckEvidence ==
    /\ At("evidence")
    /\ \E o \in Stored(call.program) \ call.seen :
        IF ~Evidenced(call.program, call.manifest, disk.files, o) THEN Refuse
        ELSE call' = [call EXCEPT !.seen = @ \cup {o},
                         !.pc = IF Adopts(call.program, o) THEN "reload" ELSE "evidence",
                         !.bind = [obl |-> o, doc |-> None]]

\* An adoption receipt is read again for its bindings; one that is gone has none to look at.
ReloadReceipt ==
    /\ At("reload")
    /\ LET doc == disk.files[EvidenceRef(call.program, call.manifest, call.bind.obl)] IN
       call' = [call EXCEPT !.bind.doc = doc, !.pc = IF doc = None THEN "evidence" ELSE "run"]

CheckRun ==
    At("run") /\ IF RunBound(disk.files, call.bind.doc) THEN call' = [call EXCEPT !.pc = "parity"] ELSE Refuse

CheckParity ==
    /\ At("parity")
    /\ IF ParityBound(call.manifest, disk.files, call.bind.obl, call.bind.doc)
       THEN call' = [call EXCEPT !.pc = "evidence"] ELSE Refuse

EndResolve == At("evidence") /\ Stored(call.program) \subseteq call.seen /\ Pass(TRUE, call.next)

Resolve ==
    \/ Start \/ LoadProgram \/ LoadSuites \/ CheckNoPromise
    \/ CheckPromise \/ CheckWave \/ CheckObligations
    \/ CheckRetirement \/ CheckSupportOwner \/ CheckUnchanged \/ CheckApproval
    \/ CheckCriterion \/ CheckQueue \/ CheckGate \/ ResolveObligations
    \/ CheckEvidence \/ ReloadReceipt \/ CheckRun \/ CheckParity \/ EndResolve

-----------------------------------------------------------------------------
(* People edit one file at a time; the authority consumes an approval.     *)

EditProgram == \E o \in Obls :
    \/ \E s \in {"planned", "in_progress", "discharged"} \ {disk.program[o].state} : disk' = [disk EXCEPT !.program[o].state = s]
    \/ \E S \in DepSets \ {disk.program[o].deps} : disk' = [disk EXCEPT !.program[o].deps = S]
    \/ \E r \in {disk.program[p].route : p \in Obls} : disk' = [disk EXCEPT !.program[o].route = r]
    \/ o \notin FollowUps /\ disk' = [disk EXCEPT !.program[o].evid = None]
    \/ disk' = [disk EXCEPT !.program[o].sound = FALSE]

EditLedger ==
    \/ \E k \in Criteria, c \in Closures : disk' = [disk EXCEPT !.ledger.criteria[k].status = "closed", !.ledger.criteria[k].closure = c]
    \/ \E k \in Criteria : disk' = [disk EXCEPT !.ledger.criteria[k].status = "open", !.ledger.criteria[k].closure = None]
    \/ \E a, b \in Blockers : disk' = [disk EXCEPT !.ledger.blockers[a].deps = disk.ledger.blockers[b].deps]
    \/ \E b \in Blockers, n \in Blockers \cup Gates : disk' = [disk EXCEPT !.ledger.blockers[b].deps = @ \cup {n}]
    \/ \E g \in Gates : disk.gateDocs[g] # None /\ disk' = [disk EXCEPT !.ledger.gates[g].closure = disk.gateDocs[g].bound]
    \/ \E g \in Gates : disk' = [disk EXCEPT !.ledger.gates[g].closure = None]
    \/ \E p \in Phases : disk' = [disk EXCEPT !.ledger.phase = p]

EditManifest == \E w \in FollowUps :
    \/ disk' = [disk EXCEPT !.manifest[w].status = "in_progress"]
    \/ disk' = [disk EXCEPT !.manifest[w].claim.level = "source_inspected"]
    \/ disk' = [disk EXCEPT !.manifest[w].followup = FALSE]

EditEvidence == \E f \in Files, c \in Contents : disk' = [disk EXCEPT !.files[f] = c]

\* A gate's receipt; asOf is what it was written of.
WriteGateReceipt == \E g \in Gates : disk' = [disk EXCEPT !.gateDocs[g] = [bound |-> Digests(g, disk),
    asOf |-> [ledger |-> disk.ledger, program |-> disk.program, contracts |-> disk.contracts]]]

EditContracts == disk' = [disk EXCEPT !.contracts = 1 - @]

Retire ==
    \/ \E f \in Files : disk' = [disk EXCEPT !.retireDoc = [ref |-> f, bytes |-> disk.files[f]]]
    \/ disk.retireDoc # None /\ disk' = [disk EXCEPT !.approved = @ \cup {disk.retireDoc}]

Edit ==
    /\ edits < MaxEdits /\ call.pc \notin {"done", "refused"}
    /\ EditProgram \/ EditLedger \/ EditManifest \/ EditEvidence \/ WriteGateReceipt \/ EditContracts \/ Retire
    /\ disk' # disk
    /\ disks' = IF call.pc = "idle" THEN disks ELSE Append(disks, disk')
    /\ edits' = edits + 1
    /\ UNCHANGED call

Next == Resolve \/ Edit

Spec == Init /\ [][Next]_vars

-----------------------------------------------------------------------------
(* Properties.                                                             *)

Loaded(pc) == pc \notin {"idle", "program", "manifest", "refused"}

\* The values the variables take; past the loading a call has its three documents.
TypeOK ==
    /\ edits \in 0 .. MaxEdits /\ disk.contracts \in {0, 1}
    /\ \A o \in Obls : disk.program[o].state \in States /\ disk.program[o].deps \subseteq Obls
    /\ \A k \in Criteria : disk.ledger.criteria[k].closure \in Closures \cup {None}
    /\ DOMAIN disk.files = Files /\ DOMAIN disk.gateDocs = Gates
    /\ call.pc \in {"idle", "program", "manifest", "phase", "waves", "owner", "unchanged", "approval",
                    "criteria", "gates", "evidence", "reload", "run", "parity", "done", "refused"}
    /\ Loaded(call.pc) => None \notin {call.ledger, call.program, call.manifest}

Reported == call.pc = "done"

\* The evidence of an obligation was there at a moment of the call and met its contract.
Shown(x) == \E i \in DOMAIN disks : Evidenced(call.program, call.manifest, disks[i].files, x)

\* What an adoption receipt held at a moment of the call bound a run and a parity receipt that
\* were there, each at a moment of the call; or the receipt had gone when it was read again.
Bound(x) == \E j \in DOMAIN disks :
    LET doc == disks[j].files[EvidenceRef(call.program, call.manifest, x)] IN
    doc # None => /\ \E k \in DOMAIN disks : RunBound(disks[k].files, doc)
                  /\ \E k \in DOMAIN disks : ParityBound(call.manifest, disks[k].files, x, doc)

\* All that a set of obligations rests on, however far down, was discharged in the program
\* that was read, and during the call its evidence was there, each at a moment of its own.
Proven(S) == \A x \in UNION {RestsOn(call.program, o) : o \in S} :
    call.program[x].state = "discharged" /\ Shown(x) /\ (Adopts(call.program, x) => Bound(x))

\* A criterion or a blocker that is reported closed rests on nothing that is open or that has
\* lost its evidence before the call, at any depth of dependency.
ClosedIsProven == Reported =>
    /\ \A k \in Criteria : CriterionClosed(call.ledger, call.program, k) => Proven(call.ledger.criteria[k].refs)
    /\ \A b \in Blockers \ OpenBlockers(call.ledger, call.program) : Proven(call.ledger.blockers[b].refs)

\* A blocker is offered as actionable only behind a closed freeze and when nothing it is to
\* discharge waits for another obligation; while anything is open, something is actionable.
QueueIsSound == Reported =>
    LET open == OpenBlockers(call.ledger, call.program)
        next == Actionable(call.ledger, call.program)
    IN  /\ \A b \in Blockers \cap next : /\ Freeze \notin open
                                         /\ \A o \in Residual(call.ledger, call.program, b) :
                                                EffectiveState(call.program, o) # "blocked_dependency"
        /\ open # {} => next # {}

\* Undisturbed, a call that reports a gate closed reports what the gate's receipt was written
\* of: no criterion, blocker, phase, obligation or contract has changed since.
FreezeIsCurrent == Reported /\ Len(disks) = 1 =>
    \A g \in Gates : call.ledger.gates[g].closure # None =>
        LET then == disk.gateDocs[g].asOf IN
        IF g = Ledger0
        THEN /\ call.program = then.program /\ call.ledger.criteria = then.ledger.criteria
             /\ call.ledger.blockers = then.ledger.blockers /\ call.ledger.phase = then.ledger.phase
             /\ \A h \in Gates : call.ledger.gates[h].deps = then.ledger.gates[h].deps
        ELSE disk.contracts = then.contracts

Executed(doc) == doc # None /\ doc.shows \cap {"invoked", "used", "approved"} # {}

\* A suite that is reported as promised or retired has what its phase asserts: at some moment
\* of the call a receipt of an execution; or, unless the call was disturbed twice, supporting
\* bytes that the authority approved and that bear the claim of their owner.
PhaseIsBacked == Reported =>
    /\ Phase.name \in Promises => Phase.owner /\ \E i \in DOMAIN disks, f \in Files : Executed(disks[i].files[f])
    /\ Phase.name = "retired" /\ Len(disks) <= 2 =>
        LET doc == call.support.doc IN
        /\ doc \in disk.approved
        /\ \/ \E w \in FollowUps : call.manifest[w].file = doc.ref /\ Bears(w, call.manifest[w].claim, doc.bytes)
           \/ \E o \in Obls \ FollowUps : call.program[o].evid = doc.ref /\ Bears(o, call.program[o].target, doc.bytes)
=============================================================================
