# A TLA+ model of the Portfolio Suites control plane

Portfolio Suites is a local control plane over many donor projects: a command
line, a loopback web server and a library that share one directory of JSON
documents. There is no database and no daemon. Every guarantee about its state
rests on a few hundred lines that replace files under `flock`, compare before
they replace, and say honestly what happened. This directory models those
lines and what is built on them (approvals, receipts, recovery, gates), checks
them with TLC, and proves with TLAPS what matters most.

## Inventory

The code is in `src/src/portfolio_suites`. "State" is what outlives a call.

| Component | State it keeps | Operations | Hard behaviours | What makes it correct |
|---|---|---|---|---|
| Document commits (`txn.py`, the renames of `paths.py`) | the directory entries of one document: target, temporary and quarantine names | `write_temp_payload`, `commit_replacement`, `discard_temp` | writers that take no lock, failing system calls, death and power cuts between them, filesystems without exchange | nothing that somebody put in place is destroyed; one atomic compare-and-swap; an honest report |
| Operator approvals (`approvals.py`) | the approval store, outside the repository | `verify_operator_approval`, `verify_consumed_operator_approval` | an issuer that takes no lock, uncertain commits, death after the commit, expiry | an approval is spent once, for what it approves; a refusal spent nothing |
| Operator catalog (`catalog.py`) | operator fields and revisions of `project-ledger.json` | `load_catalog_ledger`, `update_project` | web sessions with old drafts, a renumbered selection at its ceiling | the Now list is an order without gaps; no newer work is overwritten |
| Project registration (`project_registration.py`) | rows of the same ledger | `connect_project` | two sessions that take the same identity or location | a project is added once and nothing is dropped |
| Operator state (`operator_state.py`) | return-point backups, the same ledger | `manage_state` | restoring into a ledger that has moved on | a restore can be undone and takes back only operator fields |
| Portfolio registry (`registry.py`) | baselines in the same ledger | `fingerprint_baselines`, validation | a rewrite of text beside hand edits | no hand edit is lost |
| Wave runner (`waves.py`, `receipts.py`) | receipts under `<suite>/evidence` | `run_wave`, `_record_evidence` | a digest read before the lock, validation by name, uncertain commits | a receipt is replaced only by validated bytes over what was read |
| Operator actions (`engines/operator_os.py`) | caches, note trees and backups of the operator | four handlers behind an approval | directories exchanged during the verification, rollbacks beside other writers | nothing of others is removed; errors say where things are |
| Action chains (`chains.py`, `engine_actions.py`) | none beyond a run | `run_chain`, `run_action` | a step fails half-way, cached answers, authority spent inside a step | a record says what its step consumed |
| Recovery program and release state (`recovery_program.py`, `recovery_policy.py`, `release_state.py`) | JSON documents edited by hand | validation and resolution | dependency cycles, reopened obligations, closures bound to digests | nothing closes before what it depends on |
| Donor gates (`adapters/operator_os.py`, `adapters/common.py`, the PKos probe), execution traces (`execution_trace.py`) | none | `execute_o1_source_record_observer_gate`, `execute_o4_pkos_stream_intake`, `validate_execution_trace` | donors that are edited while a gate runs, a probe that hangs or crashes | an eligible candidate is of bytes that were there; what is accepted is what is eligible |
| Source candidates (`candidate.py`) | none | `inspect_candidate` | a tree that changes while it is read | a digest is of one state of the tree |
| Assistance client (`ai.py`), server (`server.py`), command line (`cli.py`), web (`web/`) | a browser's draft | one request each | bounded requests, no retries | see the components they call |
| Engines, other adapters, contracts | none | transformations of their arguments and of files they read | | |

How they interact: `catalog.py`, `project_registration.py`, `operator_state.py`
and `registry.py` take the same sidecar flock around one ledger and commit with
`commit_replacement`. `approvals.py` and `waves.py` have locks of their own and
commit in the same way. `engines/operator_os.py` and
`engines/brand_publishing.py` spend approvals before they act; `chains.py` runs
them in sequence. `waves.py` asks `receipts.py` whether a receipt bears its
wave's claim; `recovery_program.py` asks the same of retained evidence and
`release_state.py` asks `recovery_program.py` what is discharged. The donor gates
take their route from the recovery program and answer with a candidate that the
wave runner records. The server runs each request in a thread, which takes no
part in the locking beyond those calls.

## The modules

### FileTxn: `commit_replacement`, one system call at a time

The state is one directory with the target name and, for every transaction, one
temporary and one quarantine name (`dir`). Objects stand for inodes: a
transaction's candidate is the object named after it, outside documents are
`Docs`, and an in-place edit raises the version of an object. Every action is
one system call of the code together with what the code does until the next
one. `pc` names the call that is next:

| Action | Code |
|---|---|
| `Observe`, `Lock`, `Release` | the caller reads the document and takes or leaves the sidecar flock |
| `WriteTemp`, `CheckCandidate` | `write_temp_payload`, `_candidate_is_ours` |
| `InstallNew` | `expected_absent`: the no-replace rename |
| `ExchangeNames`, `VerifyDisplaced`, `UnlinkDisplaced` | the exchange and what follows if it displaced the expected document |
| `UndoExchange`, `AsideOurs`, `RestoreDisplaced` | the second exchange, and the two renames tried when it fails |
| `MoveAside`, `VerifyAside`, `RecheckCandidate`, `InstallOverAside`, `Restore`, `UnlinkAside` | the quarantine path |
| `Sync`, `Discard`, `UnlinkTemp` | `_finish_commit`, `discard_temp` |
| `OutsidePut`, `OutsideRemove`, `OutsideTemp`, `EditorOpen`, `EditorWrite` | processes that take no lock |
| `Crash`, `PowerCut` | a process or the machine stops; the lock is released |

`since` is the set of directories a power cut may bring back: all that were
visible since the last successful `fsync` of the directory. This is the
guarantee of a journalling filesystem, where directory operations reach the
disk as whole states, and not of every filesystem there is. `env` fixes for a
behaviour which surroundings it has: exchange or not, which names outsiders
touch, in-place edits, failing calls, crashes, power cuts. A property that
holds only in some surroundings says so in its premise.

Left out: the contents of documents (an object and its version stand for
bytes and digest), permissions, the 64 MiB limit on digests. Random names
never collide.

### AtomicDocument: what the callers may rely on

One document, replaced in one step by a transaction that read it, and a report
that is never wrong in what it states plainly. `FileTxn` implements it
(`AtomicSpec`) in `Orderly` surroundings, where nothing but the calls touches
the directory and none of them fails or dies; beside outside writers, or after a
death between an exchange and its verification, it does not. The refinement
mapping takes as the document the object at the target, except while an exchange
is about to be undone or an occupant is aside: then it is that occupant. A read
without the lock may return a candidate not yet accepted; the abstract `Read`
therefore allows it.

Three callers of `commit_replacement` have neighbours that take no lock: the
issuer of approvals, editors of the ledger, editors of receipts. For them a
commit is not one step, and `ApprovalStore`, `OperatorLedger` and `WaveRun` do not
make it one. Each has the steps of `FileTxn` that its neighbours can tell apart:
the exchange, which shows the candidate, and its verification; the undo, or an
undo that fails and leaves the target, the displaced document or nothing there;
without exchange, the vacated name, the install and the return of what was moved.
A call may die between any two of them. The steps of `FileTxn` that nobody else
sees (the temporary file, the unlink of what was replaced, the `fsync`) are part of
the one before, with their failures.

### ApprovalStore: single-use approvals

The store is a function from approvals to records; its value stands for its
digest. Consumers go through `ReadStore`, `Validate`, `Stamp`, the commit, `Recheck`
and `Unlock` under the exclusive flock, auditors through `ReadStore` and `Audit`
under a shared one. The commit is `Exchange`, which accepts the document that was
read at once and any other only to undo it (`Undo`, `UndoFails`), or `MoveAside`,
`Install` and `PutBack` where there is no exchange; `CommitFails` is every refusal
before the first rename. `aside` is what a commit has taken from the store's name
and not put back. The issuer is not in the repository. The module docstring of
`approvals.py` says that it replaces the store without taking the lock; `careful`
says whether it does so only over the store it read. `peeked` remembers whose
candidate it read between an exchange and its undo. The clock is read where the
code reads it, once in `Validate` and again in `Stamp`.

### SingleUse: what an approval is worth

An approval is issued once, for one payload, and spent at most once, in one step,
by a call about that approval and payload; no answer is false of the moment it is
given. There are no documents, locks or expiry here, and nothing is promised of a
call that dies or cannot verify its commit, except that no spent approval is
dropped, changed or fresh again: it may take approvals that are not spent with it
(`Tear`), since a candidate that stays over a store its call has not read is without
what was issued since. `ApprovalStore` implements it (`SingleUseSpec`) with a careful
issuer. The mapping reads terms and spender off the document that stands once a
commit in flight is undone (`Standing`); with a careless issuer, of which nothing of
the kind holds, it shows the initial state throughout.

### OperatorLedger: one ledger, four callers

The ledger is a function from projects to rows: the operator's fields, the
revision, the location, and a counter (`authored`) that stands for everything
else on the row. Sessions `Load` a record without the lock, which becomes the
draft they later save; under the lock they `Update`, `Connect`, `Backup`,
`Restore` or `Fingerprint`, and then commit (`Exchange`, `Undo`, `UndoFails`,
`MoveAside`, `Install`, `PutBack`), or `Leave` at any point, which covers every early
return, error and death. `stage` says how far the commit of the lock's holder has
come and `aside` what it has taken from the ledger's name. A page that loads while
a candidate is shown gets a draft that is not `settled`. `Edited` is the
renumbering of the Now list, which the code does with a list and an insertion and
the model with ranks. `HandEdit` is an editor without the lock that changes what
operators do not own, in the document it finds; reading and saving are one step
of it.

One text stands for the free-text fields; enough, since the only rule about
them is that a waiting project has a trigger.

### OperatorActions: backups, note synchronisation and cache rotation

Two runs of the three actions work in the same directories. The state is a tree
of two levels (`tree`): what each name of the working directory holds, and what
each note name holds in every directory there may be, outsiders' and those the
runs make. A subdirectory is an object with an identity of its own (`Subs`), so
that one that is moved takes its notes along and a descriptor stays on the
directory it was opened on. `aside` holds what stands under random names: who
set it aside, from which name of which directory. A run surveys what is to be
done, spends its approval (`Approve`, which is the grant of `ApprovalStore`),
and then creates, writes, links and verifies one system call at a time. `Failed`
starts the rollback the code starts (`MoveAside`, `Settle`): each object is
moved aside, identified, and removed or put back without overwriting. `env` says
which names outsiders touch, which calls may fail and whether processes die.
`named` is what the error or receipt names for the operator.

### Receipts and WaveRun: from a run to a recorded receipt

`Receipts` is the vocabulary shared with the release side: which contract a
claim must name (`Expected`), which facts each validator asks of a receipt
(`Proof`), whether a receipt bears a claim (`Bears`), and how a run is shown
(`ReportedKind`, `Tag`). A fact stands for the fields a validator inspects to
establish it.

`WaveRun` has one call of `run_wave` per member of `Runs`; threads of one
process share its table of record locks, all share the flock of the evidence
directory. After its gate, a call goes through `Open` (the ownership of the
receipt name and the pinned directory), `ReadPrior`, `LockThread`,
`LockDirectory`, `WriteTemp`, `Validate`, `Verify`, the commit, `Confirm` and
`Unlock`. The commit is `InstallAbsent`, or `Exchange` with `Accept`, `Undo` or
`UndoFails`, or `MoveAside` with `Replace`, `Return` or `Strand`, the last for a
rename whose error leaves the recording at once; `CommitFails` is every refusal
before the first rename. The temporary is a name of the directory of its own,
since its removal may fail and a death leaves it; `aside` is what a commit has
under a quarantine name and `over` the receipt whose place its own took. People
rewrite and remove receipts; nobody creates one under a free name, which
`FileTxn` has. The roles are the runners whose gates differ: plain, with a
depth, over prose, over a published package, over the package or the claims that
another wave exports, and none. People edit the manifest and the receipts,
publish upstream and put another directory in place of the pinned one.

### ActionChain: `run_chain`

`Submit` is the preflight of the whole plan, `Begin` resolves references and asks
the chain's cache, `Act` runs the function, `Record` takes the result apart. The
five actions are the kinds that differ: one that reads only its arguments, one
that reads the file system, and three that spend approvals and report it in
different places of their answer. `trail` is what really ran and what it was
granted; the records are compared with it.

### RecoveryProgram and ReleaseState: what is closed, and why

`RecoveryProgram` has the obligations, their dependencies (`Acyclic`,
`Consistent`), the evidence each must retain (`Evidenced`, `Retained`) and what
is discharged. `ReleaseState` is one call of `resolve_release_state`, a pass over
files per action, beside people who edit any file before and during the call:
the ledger, the program, the manifest, the evidence, gate receipts, contracts,
retirements and their approvals. The errors of a pass refuse the report. The
evidence of the obligations is looked at one obligation after another
(`CheckEvidence`), and that of an adoption in four reads: the receipt, the receipt
again, the run it names and the parity receipt (`ReloadReceipt`, `CheckRun`,
`CheckParity`), with edits between any two.
`disks` is what the files have held since the call began, in order; the
properties ask for a moment of the call at which a reported fact was true, of its
own for each piece of evidence, and for a retirement for three moments in the
order the code read in.

### ExecutionTrace and DonorGate: executing donor code

`ExecutionTrace` is the governed route of an action, its validation by
`recovery_program.py` (`RouteSound`) and the validation of a trace by
`execution_trace.py` (`TraceValid`). The two do not share a vocabulary: programs are
held to constants of the code, traces to the lists of the contract, which people
edit, and `ContractSound` asks only that these lists are not empty. `DonorGate` is
one O1 or O4 gate with its subprocess, step by step: fingerprints, the files it
needs (`CheckFiles`), which O4 asks for once more when it decides whether to start
the probe (`Launch`), the probe (open,
import, store, compare, normalize, report) under a timeout of the host, the
host's own hashes of the modules and comparison of the stored bytes, the second
read of the source, the route, the trace, the receipt. A file is a donor and a
name and its digest is its content. People rewrite and remove donor files at any
point of it, and a repository, the program or the contract right before the step
that reads it.

### The modules of theorems

`FileTxn_proofs`, `ApprovalStore_proofs`, `OperatorLedger_proofs`,
`OperatorActions_proofs`, `WaveRun_proofs`, `ActionChain_proofs`,
`ReleaseState_proofs` and `DonorGate_proofs` each extend the module they are
about; see "What is proved".

## What the runs check

| Run | Question | Bounds |
|---|---|---|
| `txn_hostile` | What does the compare-and-swap keep beside outside writers, failures, crashes, power cuts, sweepers of temporary names and in-place editors? | two transactions, two outside documents, one edit per object, ten surroundings |
| `txn_atomic` | Do callers that take the lock see one atomic compare-and-swap, and is a vacated name always filled again? | three transactions, both kinds of filesystem |
| `approval_calls` | Does every call spend its approval in one step or not at all, and is every answer true? | two consumers, one auditor, two approvals, two payloads, a clock of two instants, a lifetime of one |
| `ledger_sessions` | Do the four callers keep the order, the revisions and the backups? | two sessions, three projects, three locations, a ceiling of two, two revisions, two backups, one hand edit |
| `operator_actions` | What does a failed action take back, what does it name, what does it leave alone? | two runs, a note at the top and one below, two directories and two files of outsiders, seven surroundings |
| `wave_record` | Is the status of a run what happened to the files, and is what it installed validated? | two runs, five pairs of waves and processes, seven waves over six names, two directories, one edit |
| `action_chains` | Is what a caller is told ran what ran, is no answer stale, is a reported consumption real? | two chains of eleven plans of at most three steps, three tokens, one change of the files |
| `release_state` | Is everything reported closed, actionable, frozen, promised or retired backed by the files? | three obligations in a chain, three blockers, two gates, two criteria, seven stages of a suite, two edits |
| `donor_gate` | Do gate, receipt and trace agree, and on bytes that were there? | both gates, two initial disks, seven other recovery programs, eight other trace contracts, two edits |
| `ledger_phantom_draft`, `backup_shared`, `chain_authority` | three statements that the code does not keep | two sessions; two backups; two chains |

The properties, by hazard:

* **Nothing is destroyed** (`Preserved`): every document in force at some time
  can be reached by a name, or was replaced by a transaction that had read
  exactly it, or was removed by its owner. `QuarantineNamed`: it is also named
  in the exception on the quarantine path, as long as no call fails.
* **Compare-and-swap** (`NoLostUpdate`, `RefusedNotInstalled`, `AtomicSpec`): two
  commits based on the same document are not both done, nor are two creations
  where nothing vacates the target (`NeverVacated`); a refused candidate is not
  the document.
* **Durability** (`Durable`): after a return no power cut brings the old document
  back.
* **Progress** (`EveryCallEnds`, `BrieflyVacant`): a call that began ends and
  gives its lock back, whoever dies holding it; a vacated name is filled again.
* **Approvals** (`RefusedUnspent`, `GrantOnRecord`, `AuditSound`,
  `SingleUseSpec`): the consumption of a refused call is not in the store, unless
  the issuer read that call's candidate before it was undone and wrote it back
  without looking again (`Echoes`, which a careful one never does); a grant is on
  record for as long as there is a store; an audit confirms only a consumption of
  that approval and payload, by a call that was not refused, with the same
  exception; the calls implement `SingleUse`, so that no step makes a spent
  approval fresh or drops one, but for the unspent that a torn commit takes with it.
* **Ledger** (`NowDense`, `SettledDraftCurrent`, `RevisionTracksChange`,
  `NothingLost`, `RestoreUndoable`): no gaps; no draft overwrites what it did not
  see; no field changes without a new revision; no project is lost, and no hand
  edit but to a commit that dies or cannot undo while its candidate stands over a
  ledger it has not read (`Torn`); the undo backup of a restore undoes it.
* **Rollbacks** (`RemovesOnlyOwn`, `FailureLeavesNothing`,
  `AsideNamedElsewhere`, `SpendsFirst`): a run makes nothing unreachable but
  what it created; a failed one leaves nothing of its own that its report does
  not name, under names that no outsider touches and, for notes below the top,
  between two runs; what stays under a random name is named; nothing moves
  before the approval is spent.
* **Recording** (`RefusalLeftNothing`, `RecordedIsKept`, `InstalledIsValidated`,
  `TagIsEarned`, `EveryRunReports`): a status that says nothing was written is true
  of the directory the run had pinned, where its receipt is under no name but its
  own temporary, no run has it aside and none took its place; while no person is
  at the files, a recorded receipt is installed, or a run that had seen it
  replaced it, or a commit that did not end well has it under another name;
  only a receipt that bears the claim of the one wave that owns its name is
  installed; a recovery is shown only for a run of every stage.
* **Chains** (`ReportIsExact`, `AnswersAreFresh`, `ClaimedIsConsumed`): the
  completed steps are a prefix that ran once each; no answer is older than its
  step; a reported consumption happened there and nowhere else.
* **Release** (`ClosedIsProven`, `QueueIsSound`, `FreezeIsCurrent`,
  `PhaseIsBacked`): a closed criterion or blocker rests, at any depth, on
  discharged obligations whose evidence was there during the call, each at a
  moment of its own (they are read one after another);
  what is actionable waits for nothing and something always is; a closed gate is
  of the files its receipt was written of; a promise or retirement is backed.
* **Gates** (`AcceptedIsEligible`, `EligibleIsWitnessed`, `BlockedIsEnvironment`,
  `GovernedIsEligible`, `GateEnds`): what the receipt validators accept the gate
  calls eligible, and what it calls eligible they refuse for one reason, the
  retained error of a README that came back between O4's two looks; an eligible
  candidate is of donor files there after the probe had ended; a crash or timeout
  is not excused as the environment; a route the program's validator accepts fails
  the trace's only for words, those that the contract of traces lacks, asks for
  besides or forbids; a gate ends whatever its probe does.

### Why the bounds are enough

Two transactions and an outside writer meet at every pair of system calls; a
third transaction adds only another reader, which `txn_atomic` has. Two outside
documents let a second replacement land inside an undo. Two consumers suffice
for a double spending and a second approval for what the store must not lose; a
lifetime of one instant and a clock of two has an approval that is checked and
stamped before its end, checked before and stamped at it, and expired. Three
projects under a ceiling of two have a first and a last position and a third
project that the ceiling refuses, connected at the start or late.
Revisions grow with every step, so two of them and two backups bound a
behaviour to a few calls; that is enough for a save, a restore and the undo of
it, and for a stale draft of each.

In `operator_actions` the seven surroundings pair the actions so that each path
(install, descend, link, rotate, undo) meets a second run, an outsider and a
failing call; one note at each level has the subdirectory made, entered and
taken back. (With two notes below, a directory may hold one while the other is
taken back; the run then outgrows a check that is to be repeated, and the
theorem has any number. The invariant it rests on was checked with two of them.)
In `wave_record` the five pairs are two runs of one wave in two processes and in
one, two waves of different depth, the exporter beside a reader of its package,
and a consumer beside a wave without a runner; one edit is one change of
manifest, receipt, directory or publication at any point. Plans in
`action_chains` have the repetitions, references and shared tokens that could go
wrong, and nothing in a step depends on more than the one before and the one it
refers to. In `release_state` a chain of three obligations has a dependency at
depth two, and two edits are enough to move something away and back or to change
two files between two passes; the stages start a call where phases, closures and
retirements are possible, which would take people many edits. In `donor_gate`
two edits make a file differ at two of the three times it is read, and remove a
file and bring it back between two looks; the theorems have any number.

Symmetry is used in `approval_calls`, `ledger_sessions` and the chains, where
the permuted elements occur in no property by name; no liveness is checked with
it.

### Fairness

`FileTxn`: a call that has begun takes its next step, weakly fair. The steps are
system calls of one thread of one process and wait for nothing but the flock.
Waiting is weakly fair as well, which is enough because the lock becomes free and
stays so unless another call takes it, and there are finitely many calls.

`WaveRun`: the next step of each run, strongly fair. Strong fairness matters
only for the two locks, which other runs take and leave while one waits; both
are blocking calls that the system answers in the end. No fairness is assumed of
people, and none that a run begins or that a process lives.

`DonorGate`: the gate's next step, weakly fair; none for the probe, which may
hang. The timeout is what ends it.

No other specification states fairness: the other properties are of safety.

### Findings

Three statements of the repository that the code does not keep each have a run
and a counterexample; `PROJECT.json` quotes them with their lines.

1. A page that loads a candidate about to be undone holds a revision that a
   later save is also given, and overwrites that save
   (`ledger_phantom_draft`).
2. A backup that fails after installing the archive removes it although a second
   backup of the same content has reported it as its own (`backup_shared`).
3. A step whose answer carries its approval under another name or a level deeper
   is recorded as replayable and as having consumed nothing
   (`chain_authority`).

Seen while modelling, without a run of their own:

* Commits. An outside document that lands inside the undo of an exchange ends
  under a temporary name that no exception mentions (`txn.py:333`, against
  `txn.py:30`). `CommitUncertain` after a failed undo does not mean that the
  replacement is in place (`txn.py:328`). On the quarantine path an error other
  than `FileExistsError` leaves the target vacant and the original unnamed
  (`txn.py:356`).
* Approvals. An issuer that writes back a store it read before a consumption
  makes the approval fresh again (`approvals.py:205`), and one that writes back a
  candidate it read before its undo puts the consumption of a refused call on the
  store. That a writer loses nothing (`approvals.py:139`) does not hold of an issue
  made between an exchange and its undo, nor of one that a call displaces before it
  dies: each is left under a temporary name. An approval granted at the end of its
  life is stamped after it and audits reject it (`approvals.py:252`, `303`);
  the clock of the run is too short for it.
* Ledger. A hand edit made between an exchange and its undo, or displaced by a
  call that then dies, is left under a temporary name too, although it was to
  block the commit instead (`registry.py:1404`). `restore latest` after a
  restore that ended in a conflict picks that restore's own undo backup; a gap
  in the Now order, which only a hand edit can make, passes `validate_catalog`
  and blocks edits of projects whose position is to stay.
* Operator actions. A rotated object that is not a directory stays under the
  rotated name, which the error gives only in the system's own text and without its
  directory (`engines/operator_os.py:1295`, `1372`). `install_new_file` drops
  what its own undo reports (`paths.py:208`). Between making and opening a
  directory, an outsider's empty one may be taken for the run's own. Two
  simultaneous rollbacks of one name beside an outsider may put back each other's
  files. Parents made by `open_confined_directory` are not taken back.
* Waves. That a rejection leaves the prior receipt unchanged (`waves.py:125`)
  does not hold without exchange when a rename fails with an error other than
  `FileExistsError` (`txn.py:356`, `379`): the receipt is aside, its name
  vacant, and the run reports `candidate_rejected`. A temporary whose unlink
  fails stays (`txn.py:465`). A run without a runner that was asked to record
  reports `not_requested`. A claim promoted by hand is displayed from the
  manifest though the run proved less. A recorder that dies leaves its temporary
  file in `evidence/`, which the registry then refuses. An analysis claim at an
  executed level passes the receipt validator (`receipts.py:1737`); only the
  registry refuses it.
* Chains. A step that raises after spending its token leaves no record.
* Release. A call reads several files more than once, so that the program it
  loaded may differ from the one whose digest a gate check reads. Evidence is
  read one obligation after another, so that there may be no moment at which all of
  it was there. An adoption receipt that is gone when its bindings are read passes
  without them (`recovery_program.py:248`). The "unchanged"
  check of retirement evidence passes two edits that cancel out. Discharging an
  obligation makes the ledger invalid until the gate that freezes the program is
  renewed.
* Gates. O4 asks for the README twice (`adapters/operator_os.py:890`, `907`). If
  it comes back in between, the candidate is eligible with `missing_donor_file`
  retained and its own validator refuses the receipt (`receipts.py:1431`). A
  contract of traces is sound with fewer words than the program may use
  (`execution_trace.py:43`, against `recovery_program.py:59`), and then refuses
  the trace of a route that was accepted. An edit between the cross-check and
  the second read of the source, or a source with CRLF line ends, gives an
  eligible candidate whose own `cas_sha256_matches_source` is false. A source
  that vanishes or bears a fence, or a trace contract that cannot be read,
  raises out of the gate instead of landing in `operational_errors`. A module
  edited between its import and the probe's report is named with bytes that did
  not run.

## What is proved

All proofs are for every value of the constants that satisfies the assumptions of
the module: any number of transactions, sessions, runs, chains, edits, and any
contents of the files. The assumptions say that values are distinct where the
model tells them apart (an absent row is no row, a run is no name), that the
constant functions have the domains and ranges their comments give, and that
bounds are numbers. A few are about the program: a wave over prose, a package or
claims makes an analysis claim (`WaveRun`); the first disks have the shape of the
documents (`ReleaseState`); a plan is a list of steps (`ActionChain`); the ceiling
of the Now list and the lifetime of an approval are at least one. TLC evaluates
every assumption on the runs.

Each invariant a run checks is proved from a stronger one that is inductive; the
stronger ones were model-checked before they were proved.

**`FileTxn_proofs`**

* `TypeCorrect`: `Spec => []TypeOK`.
* `NothingIsLost`: `Spec => []Preserved`. `Preserved` is not inductive: it says
  nothing of an object that is owed later, and nothing of directories a power
  cut may bring back. `PreservedInv` adds that reports are made once and at the
  end (`Reports`), that a transaction's two names hold only its own candidate or
  what it moved there (`OwnNames`), that each object that must be kept is
  linked (`Kept`), and all of this for every directory in `since` (`Durables`).
  The steps are of three kinds: moves, which lose no link whatever they
  move; releases, which unlink only a matched or an own object; and the rest,
  which leave the directory alone. The proof uses neither the lock nor any
  order among calls: preservation is local to `commit_replacement`.
* `NoUpdateIsLost` and `ReturnedIsDurable`, from `OrderInv`: an object has one name
  at most in every directory a power cut may bring back (`Named`) and never enters
  twice, so what a call found and moved out of the way is nowhere else, and is
  gone once the call returned (`Displaces`); of two that read the same one comes
  to replace it (`Rivals`). Two creations have no object between them;
  `CreationInv` keeps the document the first one made at its name or aside with
  the holder of the lock, where nothing vacates the target.
* `RefusedStaysOut` (`RefusedInv`) and `DisplacedIsNamed` (`QuarantineInv`).
* `CommitsAreAtomic`: `Spec /\ Orderly => AtomicSpec`, the refinement of
  `AtomicDocument`. `OrderlyInv` says what an orderly call knows of the target at
  each place. While a call is at work no other is, and `Document` is that call's
  `View`; each of its steps is invisible, the replacement (the exchange that
  displaces what was read, or either no-replace rename) or the report. A call
  without the lock is seen when it reads, and may read a candidate that is about
  to be undone.

**`ApprovalStore_proofs`**

* `TypeCorrect`, `RefusalsSpendNothing`, `GrantsStayOnRecord`,
  `CarefulGrantsOnce`, `AuditsAreSound`, `NothingIsUnissued`, all from one
  invariant, `IInv`. `Exclusion` and `Placed` say where the store is while a commit is
  under way: calls that hold the flock are alone, so that at most one has taken the
  store aside. The core is `Attributed`: every consumption in any document there is
  (the store, what a commit displaced, the issuer's draft, what a call has read,
  `Documents`) is of a consumer that asked for that approval and payload and is past
  its commit without having been told "refused", or whose candidate the issuer read
  before its undo (`Echoes`), or, in the store alone, which may yet undo it
  (`Displaced`). A consumer past its commit stays so (`PastStays`), hence old
  documents stay attributed. `Engaged` ties what a call holds to its place in the
  code. With a careful issuer, `Current` says that what stands differs from what a
  call read only by what was issued since, and `OnRecord` is what survives in every
  document there is. Of the issuer, who takes no lock, the proof needs the
  compare-and-swap alone.
* `ConsumptionIsAtomic`: `Spec => SingleUseSpec`, the refinement of `SingleUse`. The
  exchange that displaces what was read, or the install, is the spending, an issuer's
  write an issue, an answer a telling. A call that ends with its candidate over a
  document it has not read, by death or a failed undo, is a `Tear`. All else is
  invisible: a candidate about to be undone does not stand (`Standing`). An audit
  answers from a document that may be old when it does; that its answer is still true
  follows from `Current`.

**`OperatorLedger_proofs`**

* `NowDenseAlways`, `SettledDraftCurrentAlways`, `RevisionTracksChangeAlways`,
  `NothingLostAlways`, `RestoreUndoableAlways`, all from `LedgerInv`. Its parts: the
  ledger is `Dense` and every backup would restore a dense one (`Backed`); what a
  call is about to commit is dense and `Follows` what it read (no row dropped or
  moved, revisions grow with every change), which hand edits alone have changed since
  (`Prepared`, `Grown`); a save with a draft compared its revision (`Compared`); a
  settled draft tells the fields of its revision in the document that stands
  (`CurrentIn`); the last backup is the one a pending restore took (`Undoable`).
  `Placed` says where the ledger is at each stage of a commit. That a renumbering
  leaves no gap is an argument about counting: the ranks of the others fill all places
  but the one that is taken (`Ranks`). The lock keeps the calls of the four callers
  apart, whose commits take several steps and whose backups a restore must find the
  latest; of hand edits the proof needs the compare-and-swap alone. Every step leads
  to a ledger that follows the one that stood, or is torn and keeps all but hand edits
  (`StepInv`).

**`OperatorActions_proofs`**

* `RemovesOnlyOwnAlways`, `SpendsFirstAlways` and `AsideNamedElsewhereAlways`, from
  `Inv`: a run without an approval has made nothing (`Paid`), the random names it
  has yet to use are free (`Unused`), and what is under the others is under way,
  named, or the stated exception: a file taken back by an install that drops its own
  report (`Accounted`).
* `FailureLeavesNothingPlain`, the part of `FailureLeavesNothing` about the directory
  an action works in, for any number of runs, from `FailInv`: under a name that no
  outsider touches is the object of a run exactly while that run has it to take
  back or has succeeded with it (`Placed`), and an empty cache a run made stays
  only with its success (`CacheMade`).
* `FailureLeavesNothingAlways`, all of it, from `FailInv` and, for notes in the
  subdirectory and two runs, `DeepInv`. There the name says little: the directory
  may be another one by the time a run looks. The invariant therefore follows
  directories and not names. A note is in one place at most, and a run that still
  has its directory open finds it there (`Alone`). While a run has a note to take
  back, the directory of the note is the subdirectory, or a run took it aside from
  that name (`Kept`). Once it has not, the directory is neither the subdirectory
  nor one that a run may put back (`Lost`), or the note is reported and the other
  run looks for no note any more (`Let`). A directory enters the tree once: what is
  the subdirectory, aside, held open or holds a note is no longer new (`Entered`),
  and a directory at the cache's name is none of these. What makes it true is the
  order of a rollback, files before the directory they are in, an install's own
  before its caller's: a run takes the subdirectory aside only when it looks for no
  note any more, or when the other run does not (`Hiding`, `Mints`). So a run that
  misses its note because the directory is aside is the last one to look, and names
  the note. `NotesStay` covers the steps that move no note, `NoteMoves` those that
  move one; the lemmas named `Deep...` go through the actions.

**`WaveRun_proofs`**

* `InstalledIsValidatedAlways`, `RefusalLeftNothingAlways`,
  `RecordedIsKeptAlways`, `TagIsEarnedAlways`, from `WaveInv`. `Holds` is what a
  run holds at each place of its code and `Mutex` that one run at a time is at
  the names of a directory. A receipt that a run made is the document it handed
  over, under a name it belongs to (`Fits`), and outside that run's hands only
  after it was found good (`Proven`, `Cleared`, `Traced`); before, its temporary
  proves no more than its document (`Temps`). Until its commit has landed, the
  pinned directory shows the receipt to others only between an exchange and its
  undo (`Private`). Without people at the files, a confirmed receipt is
  installed, was displaced by a run that read it, or is aside of a commit that
  did not end well (`Kept`). `Staged` is what a tag will rest on. The lemmas are
  of three kinds: `Local...` for steps that leave the receipts alone, `Shift...`
  for the steps of a commit, which move what is at the target, the temporary,
  aside or over, and `Files...` for people.

**`ActionChain_proofs`**

* `ReportIsExactAlways`, `AnswersAreFreshAlways`, `ClaimedIsConsumedAlways`, from an
  invariant that joins the records of a chain to its trail: what was invoked is
  what the records show uncached, and the step under way (`Exact`); cached answers
  do not depend on the files (`Fresh`); a step that says or is about to say that it
  consumed a token was granted it, and no other says so (`Once`). The last holds
  across chains because the authority spends a token once.

**`ReleaseState_proofs`**

* `ClosedIsProvenAlways`, `QueueIsSoundAlways`, `FreezeIsCurrentAlways`,
  `PhaseIsBackedAlways`, from `Inv`: every document of the call was on disk and, in an
  undisturbed call, still is (`Read`); what the pass over the obligations has looked
  at was there at some moment, each binding of an adoption at its own (`Looked`,
  `Passed`); a promise was backed at one moment
  (`Promised`); the bytes of a retirement were there before and after their owner
  was (`Retired`); and what the passes over ledger, gates and program have decided
  (`Checked`). That something is always actionable is a property of a valid
  program alone: the open dependency that waits for nothing.

**`DonorGate_proofs`**

* `AcceptedIsEligibleAlways`, `EligibleIsWitnessedAlways`,
  `BlockedIsEnvironmentAlways`, `GovernedIsEligibleAlways`, all from `GateInv`.
  None of the four is inductive, since each speaks of finished gates only.
  `Stages` says what a stage that has not come yet has left alone, that the
  probe has ended when its answer is used, and that a gate that started its
  probe has at most the error of a README that came back (`Looked`, `CameBack`);
  `Witnessed` keeps, for every module and the source, a directory among those
  since the end of the probe that held what was compared; `Blamed` ties the
  errors so far to the exit of the probe. `SoundRouteTraces` is the fact about
  the two validators alone: the trace of a route that `RouteSound` accepts is
  one that `TraceValid` accepts exactly when the contract knows its words
  (`Spoken`).

Three statements turned out narrower under proof than the bounds of the runs
showed:

* `NoLostUpdate` fails for two creations as soon as three calls meet: one creates,
  one dies with the document aside, one creates again. Hence `NeverVacated`.
* The part of `FailureLeavesNothing` about notes in the subdirectory holds for two
  runs. A third that takes the subdirectory aside and puts it back hides its notes
  from the rollback of the other meanwhile. For the proof, directories had to have
  identities: a model that only says what the names below the subdirectory hold
  cannot tell a directory that was put back from one made anew.
* The three moments of `PhaseIsBacked` for a retirement have an order, which a set of
  past disks does not show; `disks` became a sequence.

Only model-checked:

* liveness (`EveryCallEnds`, `BrieflyVacant`, `EveryRunReports`, `GateEnds`), which is
  out of the prover's reach, as is `ENABLED`;
* the three statements the code does not keep, which are counterexamples.

What a recursive definition computes for every input cannot be proved here either
(the library's induction theorems take an operator). The modules need none: that
dependencies have no cycle is stated over sets of obligations (`Acyclic`), and the
ranks of the Now list are cardinalities.

## What is not modelled

`PROJECT.json` lists every component with the reason. In short:

* validators of documents and transformations of arguments (contracts,
  identifiers, most of the engines, the projections of the adapters), which one
  look at a document decides; where a model needs their verdict it has it as a
  field or a fact;
* the adapters other than the two Operator OS gates that are joined to governed
  routes; their probes follow the same pattern without a trace;
* two observations of a tree by `candidate.py`: a change that is reverted between
  them is invisible to both by construction, and one that is not is a difference;
* rendering, argument parsing, the server's routing, the assistance request and
  the donor projects themselves.

## Plan

Done: every module above, and the proofs of all invariants and action properties
that the runs check, and of both refinements. In order of worth:

1. The commits of `ApprovalStore`, `OperatorLedger` and `WaveRun` as a
   composition with `FileTxn`: they have its steps, less those nobody else sees,
   but that they are those steps is not yet stated as a refinement.
2. `OperatorLedger`: that a restore and the restore of its undo backup give back all
   operator fields, as one step of an abstract ledger.
