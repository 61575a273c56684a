------------------------------ MODULE DonorGate ------------------------------
(***************************************************************************)
(* The Operator OS gates that execute donor code (adapters/operator_os.py: *)
(* O1 and O4), the isolated probe they start                               *)
(* (donor_pkos_cas_probe.py) and the runtime candidate they build.         *)
(*                                                                         *)
(* The donors are working trees that people edit meanwhile.  A gate takes  *)
(* a fingerprint of each, looks for the files it needs, runs the probe     *)
(* under a timeout, reads again what the probe says it read, and joins the *)
(* outcome to the route the recovery program governs.  Each step is one    *)
(* pass over files.  A file is <<donor, name>>; its digest is its content. *)
(* The checks that a gate makes of its own projection (fences, citations)  *)
(* depend on no file but a fenced one, which is refused, and are left out. *)
(***************************************************************************)
EXTENDS ExecutionTrace, Receipts, Sequences

CONSTANTS
    Disks,          \* what the files may hold at first
    Edited,         \* the contents a person may give a file, by its name
    Programs,       \* recovery programs a person may write
    TraceContracts, \* trace contracts a person may write
    MaxEdits        \* bound on edits

Waves  == {"O1", "O4"}
Donors == {"dotfiles", "PKos", "observer"}
Readme(d) == <<d, "README">>
Agents  == <<"dotfiles", "AGENTS">>
Script  == <<"observer", "script">>
Modules == {<<"PKos", "storage">>, <<"PKos", "normalize">>}
Names   == {Readme(d) : d \in Donors} \cup {Agents, Script} \cup Modules

ASSUME GateAssumption ==
    /\ MaxEdits \in Nat /\ \A n \in Names : None \notin Edited[n]
    /\ None \notin Waves \cup {"import", "ok"}

Source(wave) == IF wave = "O1" THEN Agents ELSE Readme("PKos")
Action(wave) == IF wave = "O1" THEN "source_record_observer" ELSE "pkos_stream_intake"
SourceClaim  == [kind |-> "runtime", level |-> "source_executed", contract |-> "source"]

VARIABLES
    disk,   \* [files, repo, program, contract, clock]
    gate,   \* the gate
    probe,  \* its subprocess
    after,  \* what the files have held since the probe ended
    edits   \* edits so far

vars == <<disk, gate, probe, after, edits>>

NewGate == [pc |-> "idle", wave |-> None, prints |-> <<>>, started |-> 0, notes |-> <<>>, has |-> {},
            errors |-> {}, modules |-> <<>>, verified |-> FALSE, program |-> None, result |-> None]
NewProbe == [pc |-> "off", exit |-> None, elsewhere |-> FALSE, cas |-> None, match |-> FALSE,
             counts |-> FALSE, attested |-> <<>>]

Init == disk \in Disks /\ gate = NewGate /\ probe = NewProbe /\ after = {} /\ edits = 0

-----------------------------------------------------------------------------
(* Before the probe.                                                       *)

At(pc) == gate.pc = pc /\ UNCHANGED <<disk, after, edits>>
ByWave(o1, o4) == IF gate.wave = "O1" THEN o1 ELSE o4
Error(kind, blocked) == [kind |-> kind, blocked |-> blocked]

Start == \E w \in Waves :
    /\ At("idle") /\ UNCHANGED probe
    /\ gate' = [gate EXCEPT !.wave = w, !.pc = IF w = "O1" THEN "prints" ELSE "stamp"]

\* Git names a commit; a call that fails or outlasts its timeout leaves placeholders.
HasCommit(d) == disk.repo[d]

\* A fingerprint identifies a donor that has a commit and content to tell it by: the file that
\* is always looked at, or one that differs from the commit.
Meaningful(d) ==
    /\ HasCommit(d)
    /\ \E n \in Names : /\ n[1] = d /\ disk.files[n] # None
                        /\ n = Readme(d) \/ disk.files[n] # "committed"

Order == ByWave(<<"dotfiles", "PKos", "observer">>, <<"PKos", "observer", "dotfiles">>)

TakePrint ==
    /\ At("prints") /\ UNCHANGED probe
    /\ LET n == Cardinality(DOMAIN gate.prints) + 1
           d == Order[n]
           more == [x \in DOMAIN gate.prints \cup {d} |-> IF x = d THEN Meaningful(d) ELSE gate.prints[x]]
       IN  gate' = [gate EXCEPT !.prints = more,
                                !.pc = IF n < Len(Order) THEN "prints" ELSE ByWave("stamp", "notes")]

Stamp ==
    /\ At("stamp") /\ UNCHANGED probe
    /\ gate' = [gate EXCEPT !.started = disk.clock, !.pc = ByWave("check", "prints")]

\* A regular file of a bounded size and an ordinary name.
Readable(n) == disk.files[n] # None

\* O4 reads the READMEs of the three donors, and leaves out one that it cannot read.
ReadNotes ==
    /\ At("notes") /\ UNCHANGED probe
    /\ gate' = [gate EXCEPT !.pc = "check",
                             !.notes = [d \in {e \in Donors : Readable(Readme(e))} |-> disk.files[Readme(d)]]]

Missing(kind, names) == IF names \subseteq {n \in Names : disk.files[n] # None} THEN {} ELSE {Error(kind, FALSE)}

\* Each file is asked for; O4 goes on to ask for its source again.
CheckFiles ==
    /\ At("check") /\ UNCHANGED probe
    /\ gate' = [gate EXCEPT !.pc = "launch", !.has = {n \in Names : disk.files[n] # None},
          !.errors = Missing("missing_donor_file", {Source(gate.wave)})
                     \cup Missing("missing_destination_module", Modules)]

SourceNow == disk.files[Source(gate.wave)]

\* The probe is started in PKos, with a timeout of fifteen seconds, if its source and its
\* modules are there: O1 goes by what it found, O4 by a second look at the source.
Launched == Modules \subseteq gate.has /\ ByWave(Agents \in gate.has, SourceNow # None)

Launch ==
    /\ At("launch")
    /\ gate' = [gate EXCEPT !.pc = IF Launched THEN "wait" ELSE "read"]
    /\ probe' = IF Launched THEN [probe EXCEPT !.pc = "open"] ELSE probe

-----------------------------------------------------------------------------
(* The probe.                                                              *)

ProbeAt(pc) == probe.pc = pc /\ UNCHANGED <<disk, gate, edits>>
Runs(pc)    == probe' = [probe EXCEPT !.pc = pc] /\ UNCHANGED after
Exits(exit) == probe' = [probe EXCEPT !.pc = "ended", !.exit = exit] /\ after' = {disk.files}

ProbeOpen == ProbeAt("open") /\ IF SourceNow = None THEN Exits("usage") ELSE Runs("import")

\* Modules that do not import, or are not there; without a package in the donor, another one
\* on the path may be taken.
ProbeImportFails ==
    ProbeAt("import") /\ (\E m \in Modules : disk.files[m] \in {None, "broken"}) /\ Exits("import")

ProbeImport ==
    /\ ProbeAt("import") /\ UNCHANGED after
    /\ LET gone == {m \in Modules : disk.files[m] = None} IN
       /\ gone \in {{}, Modules} /\ \A m \in Modules : disk.files[m] # "broken"
       /\ probe' = [probe EXCEPT !.pc = "acquire", !.elsewhere = (gone = Modules)]

ProbeAcquire ==
    /\ ProbeAt("acquire") /\ SourceNow # None /\ UNCHANGED after
    /\ probe' = [probe EXCEPT !.pc = "compare", !.cas = SourceNow]

\* The stored object and the source file both have the digest of the record.
ProbeCompare ==
    /\ ProbeAt("compare") /\ SourceNow # None /\ UNCHANGED after
    /\ probe' = [probe EXCEPT !.pc = "normalize", !.match = (SourceNow = probe.cas)]

ProbeNormalize == \E good \in BOOLEAN :
    /\ ProbeAt("normalize") /\ UNCHANGED after
    /\ probe' = [probe EXCEPT !.pc = "report", !.counts = good]

\* An exception in PKos, or a source file that is gone.
ProbeCrash ==
    \/ ProbeAt("acquire") /\ Exits("crash")
    \/ ProbeAt("compare") /\ SourceNow = None /\ Exits("crash")
    \/ ProbeAt("normalize") /\ Exits("crash")

\* The modules that have a file are hashed when all else is done.
ProbeReport ==
    /\ ProbeAt("report")
    /\ probe' = [probe EXCEPT !.pc = "ended", !.exit = "ok",
                    !.attested = [m \in {x \in Modules : ~probe.elsewhere /\ disk.files[x] # None} |-> disk.files[m]]]
    /\ after' = {disk.files}

Probe == \/ ProbeOpen \/ ProbeImport \/ ProbeImportFails \/ ProbeAcquire
         \/ ProbeCompare \/ ProbeNormalize \/ ProbeCrash \/ ProbeReport

-----------------------------------------------------------------------------
(* After the probe.                                                        *)

\* Mutant: any exit status but zero is a failed import.
ExitErrorBlocked(exit) == Error("non_zero_exit", TRUE)

ExitError(exit) == IF exit = "import" THEN Error("donor_import_failed", TRUE) ELSE Error("non_zero_exit", FALSE)

ReadAnswer ==
    /\ At("wait") /\ probe.pc = "ended" /\ UNCHANGED probe
    /\ gate' = IF probe.exit = "ok" THEN [gate EXCEPT !.pc = "hash"]
               ELSE [gate EXCEPT !.pc = "read", !.errors = @ \cup {ExitError(probe.exit)}]

\* Mutant: no timeout.
TimeOutNever == gate.pc = "never" /\ UNCHANGED vars

TimeOut ==
    /\ gate.pc = "wait" /\ probe.pc # "ended" /\ UNCHANGED <<disk, edits>>
    /\ probe' = [probe EXCEPT !.pc = "ended", !.exit = "killed"] /\ after' = {disk.files}
    /\ gate' = [gate EXCEPT !.pc = "read", !.errors = @ \cup {Error("TimeoutExpired", FALSE)}]

\* Modules, as [name -> [donor, host]], whose digests agree.
Agreeing(modules) ==
    DOMAIN modules # {} /\ \A m \in DOMAIN modules : modules[m].host # None /\ modules[m].host = modules[m].donor

\* The host hashes each module that the probe names inside PKos.
HashModules ==
    /\ At("hash") /\ UNCHANGED probe
    /\ LET modules == [m \in DOMAIN probe.attested |-> [donor |-> probe.attested[m], host |-> disk.files[m]]]
       IN  gate' = [gate EXCEPT !.pc = "cross", !.modules = modules,
              !.errors = @ \cup IF Agreeing(modules) THEN {} ELSE {Error("module_disagreement", FALSE)}]

\* Mutant: the probe is believed about the bytes it stored.
CrossedUnread(now) == probe.match /\ probe.counts /\ Agreeing(gate.modules)

Crossed(now) == probe.cas = now /\ probe.match /\ probe.counts /\ Agreeing(gate.modules)

\* The host compares the stored bytes with the file's.
CrossCheck ==
    /\ At("cross") /\ UNCHANGED probe
    /\ gate' = [gate EXCEPT !.pc = "read", !.verified = SourceNow # None /\ Crossed(SourceNow),
          !.errors = @ \cup IF SourceNow = None THEN {Error("FileNotFoundError", FALSE)} ELSE {}]

\* A document that bears the fence of a projection is not captured again.
Captured(content) == content # "fenced"

\* O1 reads the source a second time, O4 captures the notes that it read; a file that is gone
\* and a document that bears a projection's fence end the gate with an exception.
ReadSource ==
    /\ At("read") /\ UNCHANGED probe
    /\ LET refused == ByWave(Agents \in gate.has /\ (SourceNow = None \/ ~Captured(SourceNow)),
                             \E d \in DOMAIN gate.notes : ~Captured(gate.notes[d]))
       IN  gate' = [gate EXCEPT !.pc = IF refused THEN "raised" ELSE "route"]

Printed == \A d \in DOMAIN gate.prints : gate.prints[d]

SourceOk == {Agents, Script} \cup Modules \subseteq gate.has
StreamOk == DOMAIN gate.notes = Donors

\* Every stage passed, as far as the gate itself goes.
StagesPassed == gate.verified /\ Printed /\ ByWave(SourceOk, StreamOk)

\* Without a governed route there is neither a trace nor a receipt.
Ungoverned ==
    [eligible |-> FALSE, outcome |-> None, errors |-> gate.errors \cup {Error("recovery_program_unavailable", TRUE)},
     receipt |-> [wave |-> gate.wave, contract |-> "none", shows |-> {}, by |-> gate.wave]]

LoadProgram ==
    /\ At("route") /\ UNCHANGED probe
    /\ gate' = IF Routed(disk.program, Action(gate.wave))
               THEN [gate EXCEPT !.pc = "trace", !.program = disk.program]
               ELSE [gate EXCEPT !.pc = "done", !.result = Ungoverned]

\* Mutant: modules that the probe did not name are not missed.
CompleteAny(modules) == TRUE

Complete(modules) == DOMAIN modules = Modules

Passed == StagesPassed /\ Complete(gate.modules)

Trace ==
    LET owner == RouteOwner(gate.program, Action(gate.wave))
        obligation == gate.program.obls[owner]
        route == obligation.route
    IN  [mappings |-> route.mappings, candidates |-> route.candidates, selected |-> route.selected,
         decisions |-> route.decisions, keys |-> route.keys,
         obligation |-> owner, journey |-> obligation.journey,
         outcome |-> IF Passed THEN "passed" ELSE "failed", class |-> IF Passed THEN None ELSE "failed",
         prints |-> gate.prints, started |-> gate.started, finished |-> disk.clock, fallback |-> FALSE]

\* The facts that the validators of receipts find.
Shows(passed, errors) ==
    (IF passed /\ errors = {} THEN {"clean"} ELSE {})
    \cup (IF probe.exit = "ok" /\ Agreeing(gate.modules) /\ Printed THEN {"invoked"} ELSE {})

\* Mutant: a trace that is not valid demotes the trace and not the receipt.
DemotedTrace(valid, errors) == [passed |-> Passed, errors |-> errors]

\* A trace that is not valid demotes the receipt with it.
Demoted(valid, errors) ==
    [passed |-> Passed /\ valid, errors |-> errors \cup IF valid THEN {} ELSE {Error("invalid_execution_trace", FALSE)}]

\* The receipt is written to the contract that the program governs the route by.
Receipt(obligation, passed, errors) ==
    [wave |-> gate.wave, by |-> gate.wave, shows |-> Shows(passed, errors), contract |-> gate.program.obls[obligation].contract]

\* The trace is validated by the contract as it is now; one that cannot be read raises.
ValidateTrace ==
    /\ At("trace") /\ UNCHANGED probe
    /\ LET valid  == TraceValid(Trace, gate.program, disk.contract)
           errors == gate.errors \cup IF Complete(gate.modules) THEN {} ELSE {Error("incomplete_modules", FALSE)}
           final  == Demoted(valid, errors)
       IN  gate' = IF disk.contract = None THEN [gate EXCEPT !.pc = "raised"]
                   ELSE [gate EXCEPT !.pc = "done", !.result =
                            [eligible |-> Passed /\ valid, outcome |-> IF valid THEN Trace.outcome ELSE "failed",
                             errors |-> final.errors,
                             receipt |-> Receipt(Trace.obligation, final.passed, final.errors)]]

Gate ==
    \/ Start \/ TakePrint \/ Stamp \/ ReadNotes \/ CheckFiles \/ Launch \/ ReadAnswer
    \/ TimeOut \/ HashModules \/ CrossCheck \/ ReadSource \/ LoadProgram \/ ValidateTrace

-----------------------------------------------------------------------------
(* People.                                                                 *)

Used(wave) == Modules \cup IF wave = "O1" THEN {Agents, Script} ELSE {Readme(d) : d \in Donors}

\* The files are read for the last time by ReadSource.
EditFile ==
    /\ gate.pc \notin {"route", "trace"}
    /\ \/ \E n \in Used(gate.wave) : \E c \in Edited[n] \cup {None} : disk' = [disk EXCEPT !.files[n] = c]
       \/ disk' = [disk EXCEPT !.files = [n \in Names |-> IF n \in Modules THEN None ELSE @[n]]]

\* What one step reads is edited right before it: an earlier edit is no different.
EditRest ==
    \/ gate.pc = "prints" /\ \E d \in Donors : disk' = [disk EXCEPT !.repo[d] = FALSE]
    \/ gate.pc = "route"  /\ \E p \in Programs : disk' = [disk EXCEPT !.program = p]
    \/ gate.pc = "trace"  /\ \E c \in TraceContracts : disk' = [disk EXCEPT !.contract = c]
    \/ gate.pc = "trace"  /\ disk' = [disk EXCEPT !.clock = 0]

Edit ==
    /\ edits < MaxEdits /\ gate.pc \notin {"idle", "done", "raised"}
    /\ EditFile \/ EditRest
    /\ disk' # disk
    /\ after' = IF probe.pc = "ended" THEN after \cup {disk'.files} ELSE after
    /\ edits' = edits + 1 /\ UNCHANGED <<gate, probe>>

Next == Gate \/ Probe \/ Edit

\* The gate runs on; its subprocess need not.
Spec == Init /\ [][Next]_vars /\ WF_vars(Gate)

-----------------------------------------------------------------------------
(* Properties.                                                             *)

Done == gate.pc = "done"

\* The error of a README that came back.
CameBack == ByWave({}, {Error("missing_donor_file", FALSE)})

\* What the validators accept, the gate called eligible, and its trace passed.  The other way
\* an eligible candidate that is governed by the contract of sources is refused for an error
\* that it retains, and it can retain one only: a README that O4 did not find when it first
\* asked for it and found when it asked again.
AcceptedIsEligible == Done =>
    LET result   == gate.result
        accepted == Bears(gate.wave, SourceClaim, result.receipt)
    IN  /\ accepted => result.eligible /\ result.outcome = "passed"
        /\ result.eligible /\ result.receipt.contract = "source" => (accepted <=> result.errors = {})
        /\ result.eligible => result.errors \subseteq CameBack

\* An eligible candidate is of donor files that were there after the probe had ended, not only
\* of what the probe says: the bytes it stored, and each module that it had to run.
EligibleIsWitnessed == Done /\ gate.result.eligible =>
    /\ probe.exit = "ok" /\ \E f \in after : f[Source(gate.wave)] = probe.cas
    /\ \A m \in Modules : m \in DOMAIN probe.attested /\ \E f \in after : f[m] = probe.attested[m]

\* The words of a trace that the contract has to have, whatever the program's validator knows.
Spoken(contract, trace) ==
    /\ {m.relationship : m \in trace.mappings} \subseteq contract.relationships
    /\ trace.decisions \subseteq contract.decisions /\ trace.outcome \in contract.outcomes
    /\ contract.fields \subseteq Fields(trace) /\ Private(trace, contract)

\* A route that the program's validator accepts and that denies nothing is refused to a gate
\* that passed for nothing but words: those that the contract of traces, a file of its own,
\* does not have, asks for besides or forbids (as long as the clock runs forward).
GovernedIsEligible ==
    Done /\ gate.program # None /\ ContractSound(disk.contract) /\ gate.started <= disk.clock =>
        LET owner == RouteOwner(gate.program, Action(gate.wave))
        IN  RouteSound(gate.program, owner) /\ "denied" \notin gate.program.obls[owner].route.decisions
                => (gate.result.eligible <=> Passed /\ Spoken(disk.contract, Trace))

\* A gate blames its environment exactly when PKos could not be imported or no unique route
\* could be read; a crash, a timeout or a wrong answer is not excused.
BlockedIsEnvironment == Done =>
    ((\E e \in gate.result.errors : e.blocked)
        <=> probe.exit = "import" \/ gate.program = None)

\* Every gate comes to an end, whatever its probe does.
GateEnds == gate.pc # "idle" ~> gate.pc \in {"done", "raised"}
=============================================================================
