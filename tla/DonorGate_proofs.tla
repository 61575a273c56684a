-------------------------- MODULE DonorGate_proofs --------------------------
(***************************************************************************)
(* Theorems about DonorGate, for any donor files, recovery programs and    *)
(* number of edits: what an eligible candidate and an accepted receipt     *)
(* stand for, and when a sound program can have them refused.              *)
(***************************************************************************)
EXTENDS DonorGate, FiniteSetTheorems, TLAPS

GateFields  == {"pc", "wave", "prints", "started", "notes", "has", "errors", "modules",
                "verified", "program", "result"}
ProbeFields == {"pc", "exit", "elsewhere", "cas", "match", "counts", "attested"}

Early  == {"idle", "prints", "stamp", "notes", "check"}
Later  == {"launch", "wait", "hash", "cross", "read", "route", "trace", "done", "raised"}

Shape ==
    /\ DOMAIN gate = GateFields /\ DOMAIN probe = ProbeFields
    /\ gate.pc \in Early \cup Later /\ (gate.pc # "idle" => gate.wave \in Waves)

\* A stage that has not come yet has left nothing behind.
Unread  == ~gate.verified /\ DOMAIN gate.modules = {}
Fresh   == Unread /\ gate.errors = {}
Off     == probe.pc = "off" /\ probe.exit = None
EndedOk == probe.pc = "ended" /\ probe.exit = "ok"

\* The errors of a gate before it starts its probe.
NoSource  == Error("missing_donor_file", FALSE)
NoModules == Error("missing_destination_module", FALSE)
Looked ==
    /\ gate.errors \subseteq {NoSource, NoModules}
    /\ Modules \subseteq gate.has => NoModules \notin gate.errors
    /\ gate.wave = "O1" /\ Agents \in gate.has => NoSource \notin gate.errors

Stages ==
    /\ gate.pc \in Early    => Fresh /\ Off
    /\ gate.pc = "launch"   => Unread /\ Off /\ Looked
    /\ gate.pc = "wait"     => Unread /\ gate.errors \subseteq CameBack
    /\ gate.pc = "hash"     => Unread /\ gate.errors \subseteq CameBack /\ EndedOk
    /\ gate.pc = "cross"    => /\ ~gate.verified /\ EndedOk
                              /\ (Agreeing(gate.modules) => gate.errors \subseteq CameBack)
    /\ gate.pc \in {"read", "route", "trace", "done"} => probe.pc \in {"off", "ended"}
    /\ gate.pc \in Early \cup {"launch", "wait", "hash", "cross", "read", "route"} => gate.program = None
    /\ gate.pc = "trace" => Routed(gate.program, Action(gate.wave))

\* The fingerprints are taken before the files are looked for.
PrintsTaken ==
    \/ gate.pc \in {"idle", "prints", "raised"}
    \/ gate.pc = "stamp" /\ gate.wave # "O1"
    \/ DOMAIN gate.prints # {}

Blamed == gate.pc \in {"cross", "read", "route", "trace"} =>
    ((\E e \in gate.errors : e.blocked) <=> probe.exit = "import")

\* What the host has compared was in the files after the probe had ended.
Witnessed ==
    /\ probe.pc = "ended" => disk.files \in after
    /\ DOMAIN gate.modules # {} => probe.pc = "ended"
    /\ \A m \in DOMAIN gate.modules :
          /\ m \in DOMAIN probe.attested /\ gate.modules[m].donor = probe.attested[m]
          /\ \E f \in after : gate.modules[m].host = f[m]
    /\ gate.verified => /\ EndedOk /\ Agreeing(gate.modules) /\ gate.errors \subseteq CameBack
                        /\ \E f \in after : f[Source(gate.wave)] = probe.cas

Results == AcceptedIsEligible /\ EligibleIsWitnessed /\ BlockedIsEnvironment /\ GovernedIsEligible

GateInv == Shape /\ Stages /\ PrintsTaken /\ Blamed /\ Witnessed /\ Results

-----------------------------------------------------------------------------
(* The first state.                                                        *)

LEMMA InitInv == Init => GateInv
<1> SUFFICES ASSUME Init PROVE GateInv
  OBVIOUS
<1> USE GateAssumption DEF Init, NewGate, NewProbe
<1>1. Shape /\ Stages /\ PrintsTaken
  BY DEF Shape, GateFields, ProbeFields, Stages, Early, Later, Fresh, Unread, Off, PrintsTaken
<1>2. Blamed /\ Witnessed /\ Results
  BY DEF Blamed, Witnessed, Results, AcceptedIsEligible, EligibleIsWitnessed, BlockedIsEnvironment,
         GovernedIsEligible, Done
<1> QED BY <1>1, <1>2 DEF GateInv

-----------------------------------------------------------------------------
(* The steps of the gate before it has a result.                           *)

\* No result is due before the last two steps.
LEMMA NotDone == gate'.pc # "done" => Results'
BY DEF Results, AcceptedIsEligible, EligibleIsWitnessed, BlockedIsEnvironment, GovernedIsEligible, Done

LEMMA SameCameBack == gate'.wave = gate.wave => CameBack' = CameBack
BY DEF CameBack, ByWave

LEMMA StartInv == GateInv /\ Start => GateInv'
<1> SUFFICES ASSUME GateInv, Start PROVE GateInv'
  OBVIOUS
<1> USE GateAssumption DEF GateInv, Start, At, ByWave, Waves
<1>1. Shape'
  BY DEF Shape, GateFields, ProbeFields, Early, Later
<1>2. Stages'
  BY DEF Shape, GateFields, ProbeFields, Stages, Early, Fresh, Unread, Off, EndedOk, CameBack
<1>3. PrintsTaken'
  BY DEF Shape, GateFields, Stages, Early, PrintsTaken
<1>4. Blamed'
  BY DEF Shape, GateFields, ProbeFields, Stages, Early, Fresh, Unread, Off, EndedOk, CameBack, Blamed
<1>5. Witnessed'
  BY DEF Shape, GateFields, ProbeFields, Stages, Early, Fresh, Unread, Off, EndedOk, CameBack, Witnessed
<1>6. Results'
  BY NotDone DEF Shape, GateFields
<1> QED BY <1>1, <1>2, <1>3, <1>4, <1>5, <1>6

LEMMA TakePrintInv == GateInv /\ TakePrint => GateInv'
<1> SUFFICES ASSUME GateInv, TakePrint PROVE GateInv'
  OBVIOUS
<1> USE GateAssumption DEF GateInv, TakePrint, At, ByWave, Waves
<1>1. Shape'
  BY DEF Shape, GateFields, ProbeFields, Early, Later
<1>2. Stages'
  BY DEF Shape, GateFields, ProbeFields, Stages, Early, Fresh, Unread, Off, EndedOk, CameBack
<1>3. PrintsTaken'
  BY DEF Shape, GateFields, Stages, Early, PrintsTaken
<1>4. Blamed'
  BY DEF Shape, GateFields, ProbeFields, Stages, Early, Fresh, Unread, Off, EndedOk, CameBack, Blamed
<1>5. Witnessed'
  BY DEF Shape, GateFields, ProbeFields, Stages, Early, Fresh, Unread, Off, EndedOk, CameBack, Witnessed
<1>6. Results'
  BY NotDone DEF Shape, GateFields
<1> QED BY <1>1, <1>2, <1>3, <1>4, <1>5, <1>6

LEMMA StampInv == GateInv /\ Stamp => GateInv'
<1> SUFFICES ASSUME GateInv, Stamp PROVE GateInv'
  OBVIOUS
<1> USE GateAssumption DEF GateInv, Stamp, At, ByWave, Waves
<1>1. Shape'
  BY DEF Shape, GateFields, ProbeFields, Early, Later
<1>2. Stages'
  BY DEF Shape, GateFields, ProbeFields, Stages, Early, Fresh, Unread, Off, EndedOk, CameBack
<1>3. PrintsTaken'
  BY DEF Shape, GateFields, Stages, Early, PrintsTaken
<1>4. Blamed'
  BY DEF Shape, GateFields, ProbeFields, Stages, Early, Fresh, Unread, Off, EndedOk, CameBack, Blamed
<1>5. Witnessed'
  BY DEF Shape, GateFields, ProbeFields, Stages, Early, Fresh, Unread, Off, EndedOk, CameBack, Witnessed
<1>6. Results'
  BY NotDone DEF Shape, GateFields
<1> QED BY <1>1, <1>2, <1>3, <1>4, <1>5, <1>6

LEMMA ReadNotesInv == GateInv /\ ReadNotes => GateInv'
<1> SUFFICES ASSUME GateInv, ReadNotes PROVE GateInv'
  OBVIOUS
<1> USE GateAssumption DEF GateInv, ReadNotes, At, ByWave, Waves
<1>1. Shape'
  BY DEF Shape, GateFields, ProbeFields, Early, Later
<1>2. Stages'
  BY DEF Shape, GateFields, ProbeFields, Stages, Early, Fresh, Unread, Off, EndedOk, CameBack
<1>3. PrintsTaken'
  BY DEF Shape, GateFields, Stages, Early, PrintsTaken
<1>4. Blamed'
  BY DEF Shape, GateFields, ProbeFields, Stages, Early, Fresh, Unread, Off, EndedOk, CameBack, Blamed
<1>5. Witnessed'
  BY DEF Shape, GateFields, ProbeFields, Stages, Early, Fresh, Unread, Off, EndedOk, CameBack, Witnessed
<1>6. Results'
  BY NotDone DEF Shape, GateFields
<1> QED BY <1>1, <1>2, <1>3, <1>4, <1>5, <1>6

LEMMA CheckFilesInv == GateInv /\ CheckFiles => GateInv'
<1> SUFFICES ASSUME GateInv, CheckFiles PROVE GateInv'
  OBVIOUS
<1> USE GateAssumption DEF GateInv, CheckFiles, At
<1>1. Shape'
  BY DEF Shape, GateFields, ProbeFields, Early, Later
<1>2. Stages'
  <2>1. /\ gate'.pc = "launch" /\ gate'.wave = gate.wave /\ gate'.has = {n \in Names : disk.files[n] # None}
        /\ gate'.verified = gate.verified /\ gate'.modules = gate.modules /\ gate'.program = gate.program
        /\ gate'.errors = Missing("missing_donor_file", {Source(gate.wave)})
                          \cup Missing("missing_destination_module", Modules)
    BY DEF Shape, GateFields
  <2>2. Missing("missing_donor_file", {Source(gate.wave)}) \subseteq {NoSource}
    BY DEF Missing, NoSource
  <2>3. gate.wave = "O1" /\ Agents \in gate'.has => Missing("missing_donor_file", {Source(gate.wave)}) = {}
    BY <2>1 DEF Missing, Source
  <2>4. Missing("missing_destination_module", Modules) \subseteq {NoModules}
    BY DEF Missing, NoModules
  <2>5. Modules \subseteq gate'.has => Missing("missing_destination_module", Modules) = {}
    BY <2>1 DEF Missing
  <2>6. NoSource # NoModules
    BY DEF NoSource, NoModules, Error
  <2>7. Looked'
    BY <2>1, <2>2, <2>3, <2>4, <2>5, <2>6 DEF Looked
  <2> QED BY <2>1, <2>7 DEF Stages, Early, Fresh, Unread, Off
<1>3. PrintsTaken' /\ Blamed'
  BY DEF Shape, GateFields, PrintsTaken, Blamed
<1>4. Witnessed'
  BY DEF Shape, GateFields, Witnessed, EndedOk, Stages, Early, Fresh, Unread, Off
<1>5. Results'
  BY NotDone DEF Shape, GateFields
<1> QED BY <1>1, <1>2, <1>3, <1>4, <1>5

\* The probe is started beside one error at most, that of a README that came back.
LEMMA LaunchInv == GateInv /\ Launch => GateInv'
<1> SUFFICES ASSUME GateInv, Launch PROVE GateInv'
  OBVIOUS
<1> USE GateAssumption DEF GateInv, Launch, At
<1>1. /\ Unread /\ Off /\ Looked /\ gate.program = None /\ gate.wave \in Waves
      /\ gate'.pc = (IF Launched THEN "wait" ELSE "read") /\ gate'.wave = gate.wave /\ gate'.errors = gate.errors
      /\ gate'.verified = gate.verified /\ gate'.modules = gate.modules /\ gate'.program = gate.program
      /\ gate'.prints = gate.prints /\ disk' = disk /\ after' = after
      /\ probe'.exit = None /\ probe'.pc = (IF Launched THEN "open" ELSE "off")
  BY DEF Shape, GateFields, ProbeFields, Stages, Early, Off
<1>2. Shape'
  BY DEF Shape, GateFields, ProbeFields, Early, Later
<1>3. Launched => gate.errors \subseteq CameBack
  <2>1. CASE gate.wave = "O1"
    BY <1>1, <2>1 DEF Launched, Looked, ByWave
  <2>2. CASE gate.wave # "O1"
    BY <1>1, <2>2 DEF Launched, Looked, ByWave, CameBack, NoSource
  <2> QED BY <2>1, <2>2
<1>4. Stages'
  BY <1>1, <1>3, SameCameBack DEF Stages, Early, Unread
<1>5. PrintsTaken' /\ Witnessed'
  BY <1>1 DEF PrintsTaken, Witnessed, Unread, Off
<1>6. Blamed'
  <2>1. ~NoSource.blocked /\ ~NoModules.blocked
    BY DEF NoSource, NoModules, Error
  <2> QED BY <1>1, <2>1 DEF Blamed, Looked
<1>7. Results'
  BY <1>1, NotDone
<1> QED BY <1>2, <1>4, <1>5, <1>6, <1>7

\* No step before the answer blames the environment.
LEMMA UnblockedCameBack == gate.errors \subseteq CameBack => \A e \in gate.errors : ~e.blocked
<1>1. \A e \in CameBack : ~e.blocked
  BY DEF CameBack, ByWave, Error
<1> QED BY <1>1

LEMMA ReadAnswerInv == GateInv /\ ReadAnswer => GateInv'
<1> SUFFICES ASSUME GateInv, ReadAnswer PROVE GateInv'
  OBVIOUS
<1> USE GateAssumption DEF GateInv, ReadAnswer, At, ByWave, Waves
<1>1. Shape'
  BY DEF Shape, GateFields, ProbeFields, Early, Later, ExitError, Error
<1>2. Stages'
  BY DEF Shape, GateFields, ProbeFields, Stages, Early, Fresh, Unread, Off, EndedOk, CameBack, ExitError, Error
<1>3. PrintsTaken'
  BY DEF Shape, GateFields, Stages, Early, PrintsTaken, ExitError, Error
<1>4. Blamed'
  <2>1. CASE probe.exit = "ok"
    BY <2>1 DEF Shape, GateFields, Blamed
  <2>2. CASE probe.exit # "ok"
    <3>1. gate'.errors = gate.errors \cup {ExitError(probe.exit)} /\ probe'.exit = probe.exit
      BY <2>2 DEF Shape, GateFields
    <3>2. ExitError(probe.exit).blocked <=> probe.exit = "import"
      BY DEF ExitError, Error
    <3>3. \A e \in gate.errors : ~e.blocked
      BY UnblockedCameBack DEF Stages
    <3> QED BY <3>1, <3>2, <3>3, Zenon DEF Blamed
  <2> QED BY <2>1, <2>2
<1>5. Witnessed'
  BY DEF Shape, GateFields, ProbeFields, Stages, Early, Fresh, Unread, Off, EndedOk, CameBack, Witnessed, ExitError, Error
<1>6. Results'
  BY NotDone DEF Shape, GateFields, ExitError, Error
<1> QED BY <1>1, <1>2, <1>3, <1>4, <1>5, <1>6

LEMMA TimeOutInv == GateInv /\ TimeOut => GateInv'
<1> SUFFICES ASSUME GateInv, TimeOut PROVE GateInv'
  OBVIOUS
<1> USE GateAssumption DEF GateInv, TimeOut, At, ByWave, Waves
<1>1. Shape'
  BY DEF Shape, GateFields, ProbeFields, Early, Later, Error
<1>2. Stages'
  BY DEF Shape, GateFields, ProbeFields, Stages, Early, Fresh, Unread, Off, EndedOk, CameBack, Error
<1>3. PrintsTaken'
  BY DEF Shape, GateFields, Stages, Early, PrintsTaken, Error
<1>4. Blamed'
  BY DEF Shape, GateFields, ProbeFields, Stages, Early, Fresh, Unread, Off, EndedOk, CameBack, Blamed, Error
<1>5. Witnessed'
  BY DEF Shape, GateFields, ProbeFields, Stages, Early, Fresh, Unread, Off, EndedOk, CameBack, Witnessed, Error
<1>6. Results'
  BY NotDone DEF Shape, GateFields, Error
<1> QED BY <1>1, <1>2, <1>3, <1>4, <1>5, <1>6

LEMMA HashModulesInv == GateInv /\ HashModules => GateInv'
<1> SUFFICES ASSUME GateInv, HashModules PROVE GateInv'
  OBVIOUS
<1> USE GateAssumption DEF GateInv, HashModules, At, ByWave, Waves
<1>1. Shape'
  BY DEF Shape, GateFields, ProbeFields, Early, Later, Agreeing, Error
<1>2. Stages'
  BY SMTT(20), SameCameBack DEF Shape, GateFields, ProbeFields, Stages, Early, Unread, EndedOk, Agreeing, Error
<1>3. PrintsTaken'
  BY DEF Shape, GateFields, Stages, Early, PrintsTaken, Agreeing, Error
<1>4. Blamed'
  BY DEF Shape, GateFields, ProbeFields, Stages, Early, Fresh, Unread, Off, EndedOk, CameBack, Blamed, Agreeing, Error
<1>5. Witnessed'
  BY DEF Shape, GateFields, ProbeFields, Stages, Early, Fresh, Unread, Off, EndedOk, CameBack, Witnessed, Agreeing, Error
<1>6. Results'
  BY NotDone DEF Shape, GateFields, Agreeing, Error
<1> QED BY <1>1, <1>2, <1>3, <1>4, <1>5, <1>6

LEMMA CrossCheckInv == GateInv /\ CrossCheck => GateInv'
<1> SUFFICES ASSUME GateInv, CrossCheck PROVE GateInv'
  OBVIOUS
<1> USE DEF GateInv, CrossCheck, At
<1>1. /\ gate'.pc = "read" /\ gate'.wave = gate.wave /\ gate'.modules = gate.modules
      /\ gate'.prints = gate.prints /\ gate'.program = gate.program
      /\ gate'.verified = (SourceNow # None /\ Crossed(SourceNow))
      /\ gate'.errors = gate.errors \cup IF SourceNow = None THEN {Error("FileNotFoundError", FALSE)} ELSE {}
      /\ probe' = probe /\ disk' = disk /\ after' = after
  BY DEF Shape, GateFields
<1>2. Shape'
  BY DEF Shape, GateFields, ProbeFields, Early, Later
<1>3. EndedOk /\ gate.program = None /\ (Agreeing(gate.modules) => gate.errors \subseteq CameBack)
  BY DEF Stages
<1>4. Stages' /\ PrintsTaken'
  BY <1>1, <1>3 DEF Stages, Early, EndedOk, PrintsTaken
<1>5. Blamed'
  <2>1. ~Error("FileNotFoundError", FALSE).blocked
    BY DEF Error
  <2>2. (\E e \in gate'.errors : e.blocked) <=> (\E e \in gate.errors : e.blocked)
    <3>1. CASE SourceNow = None
      BY <1>1, <2>1, <3>1, Zenon
    <3>2. CASE SourceNow # None
      BY <1>1, <3>2
    <3> QED BY <3>1, <3>2
  <2>3. (\E e \in gate.errors : e.blocked) <=> probe.exit = "import"
    BY DEF Blamed
  <2> HIDE DEF CrossCheck, GateInv
  <2> QED BY <1>1, <2>2, <2>3 DEF Blamed
<1>6. Witnessed'
  <2>1. ASSUME gate'.verified
        PROVE  /\ Agreeing(gate.modules) /\ gate'.errors \subseteq CameBack
               /\ \E f \in after : f[Source(gate.wave)] = probe.cas
    <3>1. SourceNow # None /\ probe.cas = SourceNow /\ Agreeing(gate.modules)
      BY <1>1, <2>1 DEF Crossed
    <3>2. disk.files \in after
      BY <1>3 DEF Witnessed, EndedOk
    <3> QED BY <1>1, <1>3, <3>1, <3>2 DEF SourceNow
  <2>2. /\ Witnessed /\ CameBack' = CameBack /\ (Agreeing(gate.modules) <=> Agreeing(gate.modules)')
        /\ Source(gate.wave)' = Source(gate.wave)
    BY <1>1, SameCameBack DEF Agreeing, Source
  <2> HIDE DEF CrossCheck, GateInv
  <2>3. gate'.verified => EndedOk' /\ (Agreeing(gate.modules) /\ gate.errors \subseteq CameBack)'
                          /\ (\E f \in after : f[Source(gate.wave)] = probe.cas)'
    BY <1>1, <1>3, <2>1, <2>2 DEF EndedOk
  <2> QED BY <1>1, <2>2, <2>3 DEF Witnessed
<1>7. Results'
  BY <1>1, NotDone
<1> QED BY <1>2, <1>4, <1>5, <1>6, <1>7

LEMMA ReadSourceInv == GateInv /\ ReadSource => GateInv'
<1> SUFFICES ASSUME GateInv, ReadSource PROVE GateInv'
  OBVIOUS
<1> USE GateAssumption DEF GateInv, ReadSource, At, ByWave, Waves
<1>1. Shape'
  BY DEF Shape, GateFields, ProbeFields, Early, Later
<1>2. Stages'
  BY DEF Shape, GateFields, ProbeFields, Stages, Early, Fresh, Unread, Off, EndedOk, CameBack
<1>3. PrintsTaken'
  BY DEF Shape, GateFields, Stages, Early, PrintsTaken
<1>4. Blamed'
  BY DEF Shape, GateFields, ProbeFields, Stages, Early, Fresh, Unread, Off, EndedOk, CameBack, Blamed
<1>5. Witnessed'
  BY DEF Shape, GateFields, ProbeFields, Stages, Early, Fresh, Unread, Off, EndedOk, CameBack, Witnessed
<1>6. Results'
  BY NotDone DEF Shape, GateFields
<1> QED BY <1>1, <1>2, <1>3, <1>4, <1>5, <1>6

-----------------------------------------------------------------------------
(* The steps of the probe and of people, which leave the gate as it is.    *)

\* While its probe runs, a gate has compared nothing.
LEMMA ProbeInv == GateInv /\ Probe => GateInv'
<1> SUFFICES ASSUME GateInv, Probe PROVE GateInv'
  OBVIOUS
<1> USE DEF GateInv
<1>1. /\ gate' = gate /\ disk' = disk /\ probe.pc \notin {"off", "ended"} /\ DOMAIN probe = ProbeFields
  BY DEF Probe, ProbeOpen, ProbeImportFails, ProbeImport, ProbeAcquire, ProbeCompare, ProbeNormalize,
         ProbeCrash, ProbeReport, ProbeAt, Shape
<1>2. DOMAIN probe' = ProbeFields /\ (probe'.pc = "ended" => disk'.files \in after') /\ probe'.pc # "off"
  <2>1. CASE ProbeOpen \/ ProbeImportFails \/ ProbeCrash
    BY <1>1, <2>1 DEF ProbeOpen, ProbeImportFails, ProbeCrash, ProbeAt, Runs, Exits, ProbeFields
  <2>2. CASE ProbeImport \/ ProbeAcquire \/ ProbeCompare \/ ProbeNormalize
    BY <1>1, <2>2 DEF ProbeImport, ProbeAcquire, ProbeCompare, ProbeNormalize, ProbeAt, ProbeFields
  <2>3. CASE ProbeReport
    BY <1>1, <2>3 DEF ProbeReport, ProbeAt, ProbeFields
  <2> QED BY <2>1, <2>2, <2>3 DEF Probe
<1>3. gate.pc \in {"wait", "raised"} /\ ~gate.verified /\ DOMAIN gate.modules = {}
  BY <1>1 DEF Shape, Stages, Early, Later, Fresh, Unread, Off, EndedOk, Witnessed
<1>4. Shape' /\ Stages' /\ PrintsTaken' /\ Blamed'
  BY <1>1, <1>2, <1>3, SameCameBack DEF Shape, Stages, Early, Fresh, Unread, Off, EndedOk, PrintsTaken, Blamed
<1>5. Witnessed'
  BY <1>1, <1>2, <1>3 DEF Witnessed
<1>6. Results'
  BY <1>1, <1>3, NotDone
<1> QED BY <1>4, <1>5, <1>6

LEMMA EditInv == GateInv /\ Edit => GateInv'
<1> SUFFICES ASSUME GateInv, Edit PROVE GateInv'
  OBVIOUS
<1> USE DEF GateInv
<1>1. gate' = gate /\ probe' = probe /\ gate.pc # "done" /\ after \subseteq after'
  BY DEF Edit
<1>2. probe.pc = "ended" => disk'.files \in after'
  BY DEF Edit
<1>3. Shape' /\ Stages' /\ PrintsTaken' /\ Blamed'
  BY <1>1, SameCameBack DEF Shape, Stages, Fresh, Unread, Off, EndedOk, Looked, PrintsTaken, Blamed
<1>4. Witnessed'
  BY <1>1, <1>2, SameCameBack DEF Witnessed, EndedOk
<1>5. Results'
  BY <1>1, NotDone
<1> QED BY <1>3, <1>4, <1>5

-----------------------------------------------------------------------------
(* The steps that give a result.                                           *)

LEMMA LoadProgramInv == GateInv /\ LoadProgram => GateInv'
<1> SUFFICES ASSUME GateInv, LoadProgram PROVE GateInv'
  OBVIOUS
<1> USE DEF GateInv, LoadProgram, At
<1>1. Shape' /\ Stages' /\ PrintsTaken' /\ Witnessed'
  <2>1. Shape'
    BY DEF Shape, GateFields, ProbeFields, Early, Later
  <2>2. Stages'
    BY DEF Shape, GateFields, Stages, Early, Later
  <2>3. PrintsTaken'
    BY DEF Shape, GateFields, PrintsTaken
  <2>4. Witnessed'
    BY SameCameBack DEF Shape, GateFields, Witnessed, EndedOk
  <2> QED BY <2>1, <2>2, <2>3, <2>4
<1>2. Blamed'
  BY DEF Shape, GateFields, Blamed
<1>3. CASE Routed(disk.program, Action(gate.wave))
  BY <1>1, <1>2, <1>3, NotDone DEF Shape, GateFields
<1>4. CASE ~Routed(disk.program, Action(gate.wave))
  <2>1. /\ gate'.result = Ungoverned /\ gate'.program = None /\ probe' = probe /\ gate'.wave = gate.wave
    BY <1>4 DEF Shape, GateFields, Stages
  <2>2. ~Bears(gate'.wave, SourceClaim, gate'.result.receipt) /\ ~gate'.result.eligible
    BY <2>1 DEF Ungoverned, Bears, Eligible, SourceClaim
  <2>3. \E e \in gate'.result.errors : e.blocked
    <3>1. Error("recovery_program_unavailable", TRUE) \in gate'.result.errors
      BY <2>1 DEF Ungoverned, Error
    <3>2. Error("recovery_program_unavailable", TRUE).blocked
      BY DEF Error
    <3> QED BY <3>1, <3>2
  <2>4. Results'
    BY <2>1, <2>2, <2>3 DEF Results, AcceptedIsEligible, EligibleIsWitnessed, BlockedIsEnvironment,
       GovernedIsEligible
  <2> QED BY <1>1, <1>2, <2>4
<1> QED BY <1>3, <1>4

\* A gate that passed its own stages has compared what it says with the files.
LEMMA PassedIsCompared ==
    GateInv /\ gate.pc = "trace" /\ Passed =>
        /\ EndedOk /\ Agreeing(gate.modules) /\ Printed /\ gate.errors \subseteq CameBack
        /\ Complete(gate.modules) /\ DOMAIN gate.prints # {}
        /\ \E f \in after : f[Source(gate.wave)] = probe.cas
BY DEF GateInv, Passed, StagesPassed, Witnessed, PrintsTaken

\* What the validators ask of the receipt of a gate.
LEMMA AcceptedMeans ==
    ASSUME NEW w, NEW doc
    PROVE  Bears(w, SourceClaim, doc) <=> doc.contract = "source" /\ {"clean", "invoked"} \subseteq doc.shows
BY DEF Bears, SourceClaim, Eligible, Expected, Proof, RuntimeProof

\* The validators of programs and of traces agree on a route that denies nothing, but for words.
LEMMA SoundRouteTraces ==
    ASSUME GateInv, gate.pc = "trace", Passed, ContractSound(disk.contract), gate.started <= disk.clock,
           RouteSound(gate.program, RouteOwner(gate.program, Action(gate.wave))),
           "denied" \notin gate.program.obls[RouteOwner(gate.program, Action(gate.wave))].route.decisions
    PROVE  TraceValid(Trace, gate.program, disk.contract) <=> Spoken(disk.contract, Trace)
<1> DEFINE program  == gate.program
           contract == disk.contract
           owner   == RouteOwner(program, Action(gate.wave))
           route   == program.obls[owner].route
           journey == program.journeys[program.obls[owner].journey]
<1>1. owner \in DOMAIN program.obls /\ program.obls[owner].journey \in DOMAIN program.journeys
  <2>1. Routed(program, Action(gate.wave))
    BY DEF GateInv, Stages
  <2>2. Matches(program, Action(gate.wave)) # {}
    BY <2>1, FS_EmptySet DEF Routed
  <2>3. owner \in Matches(program, Action(gate.wave))
    BY <2>2 DEF RouteOwner
  <2> QED BY <2>1, <2>3 DEF Routed, Matches
<1>2. /\ Trace.mappings = route.mappings /\ Trace.candidates = route.candidates
      /\ Trace.selected = route.selected /\ Trace.decisions = route.decisions
      /\ Trace.obligation = owner /\ Trace.journey = program.obls[owner].journey
      /\ Trace.outcome = "passed" /\ Trace.class = None /\ Trace.prints = gate.prints
      /\ Trace.started = gate.started /\ Trace.finished = disk.clock /\ Trace.fallback = FALSE
  BY DEF Trace
<1> HIDE DEF owner, route, journey
<1>3. /\ Within(route.mappings, journey, Relationships)
      /\ route.selected # None /\ route.selected \in route.candidates
      /\ route.candidates \subseteq journey.authorities /\ route.decisions # {}
  BY DEF RouteSound, owner, route, journey
<1>4. Resolves(Trace, journey, contract)
        <=> {m.relationship : m \in Trace.mappings} \subseteq contract.relationships
  BY <1>2, <1>3 DEF Resolves, Within
<1>5. Selects(Trace, journey) /\ FollowsRoute(Trace, route)
  BY <1>2, <1>3 DEF Selects, FollowsRoute, Unresolved
<1>6. Decides(Trace, contract) <=> Trace.decisions \subseteq contract.decisions
  BY <1>2, <1>3 DEF Decides, route, owner
<1>7. Closes(Trace, contract) <=> Trace.outcome \in contract.outcomes
  BY <1>2 DEF Closes
<1>8. DOMAIN Trace.prints # {} /\ \A d \in DOMAIN Trace.prints : Trace.prints[d]
  BY <1>2, PassedIsCompared DEF Printed
<1> HIDE DEF contract
<1>9. TraceValid(Trace, program, contract) <=>
        /\ ContractSound(contract) /\ contract.fields \subseteq Fields(Trace)
        /\ Resolves(Trace, journey, contract) /\ Decides(Trace, contract) /\ Closes(Trace, contract)
        /\ Private(Trace, contract)
  BY <1>1, <1>2, <1>5, <1>8 DEF TraceValid, journey, route
<1> QED BY <1>4, <1>6, <1>7, <1>9 DEF Spoken, contract

LEMMA ValidateTraceInv == GateInv /\ ValidateTrace => GateInv'
<1> SUFFICES ASSUME GateInv, ValidateTrace PROVE GateInv'
  OBVIOUS
<1> DEFINE valid  == TraceValid(Trace, gate.program, disk.contract)
           errors == gate.errors \cup IF Complete(gate.modules) THEN {} ELSE {Error("incomplete_modules", FALSE)}
           final  == Demoted(valid, errors)
           result == [eligible |-> Passed /\ valid, outcome |-> IF valid THEN Trace.outcome ELSE "failed",
                      errors |-> final.errors,
                      receipt |-> Receipt(Trace.obligation, final.passed, final.errors)]
<1>1. /\ gate.pc = "trace" /\ UNCHANGED <<disk, after, edits, probe>>
      /\ gate' = IF disk.contract = None THEN [gate EXCEPT !.pc = "raised"]
                 ELSE [gate EXCEPT !.pc = "done", !.result = result]
  BY DEF ValidateTrace, At
<1> HIDE DEF valid, errors, final, result
<1>2. /\ gate'.pc = "raised" \/ (gate'.pc = "done" /\ gate'.result = result)
      /\ gate'.wave = gate.wave /\ gate'.prints = gate.prints /\ gate'.started = gate.started
      /\ gate'.notes = gate.notes /\ gate'.has = gate.has /\ gate'.errors = gate.errors
      /\ gate'.modules = gate.modules /\ gate'.verified = gate.verified /\ gate'.program = gate.program
      /\ DOMAIN gate' = DOMAIN gate
  BY <1>1 DEF GateInv, Shape, GateFields
<1>3. Shape' /\ Stages' /\ PrintsTaken' /\ Blamed' /\ Witnessed'
  <2>1. Shape' /\ Stages'
    BY <1>1, <1>2 DEF GateInv, Shape, Early, Later, Stages
  <2>2. PrintsTaken' /\ Blamed' /\ Witnessed'
    BY <1>1, <1>2, SameCameBack DEF GateInv, PrintsTaken, Blamed, Witnessed, EndedOk
  <2> QED BY <2>1, <2>2
<1>4. CASE gate'.pc = "raised"
  BY <1>3, <1>4, NotDone DEF GateInv
<1>5. CASE gate'.pc = "done" /\ gate'.result = result
  <2>1. /\ result.eligible <=> Passed /\ valid
        /\ result.outcome = IF valid THEN Trace.outcome ELSE "failed"
        /\ result.errors = final.errors
        /\ result.receipt = Receipt(Trace.obligation, final.passed, final.errors)
    BY DEF result
  <2>2. /\ final.passed <=> Passed /\ valid
        /\ final.errors = errors \cup IF valid THEN {} ELSE {Error("invalid_execution_trace", FALSE)}
    BY DEF final, Demoted
  <2>3. Passed /\ valid => final.errors = gate.errors /\ gate.errors \subseteq CameBack /\ result.outcome = "passed"
    BY <1>1, <2>1, <2>2, PassedIsCompared DEF errors, Trace
  <2>4. AcceptedIsEligible'
    <3>1. result.receipt.shows = Shows(final.passed, final.errors)
      BY <2>1 DEF Receipt
    <3>2. "clean" \in Shows(final.passed, final.errors) <=> final.passed /\ final.errors = {}
      BY DEF Shows
    <3>3. "invoked" \in Shows(final.passed, final.errors)
            <=> probe.exit = "ok" /\ Agreeing(gate.modules) /\ Printed
      BY DEF Shows
    <3>4. Bears(gate.wave, SourceClaim, result.receipt)
            <=> /\ result.receipt.contract = "source"
                /\ "clean" \in result.receipt.shows /\ "invoked" \in result.receipt.shows
      BY AcceptedMeans
    <3>5. Bears(gate.wave, SourceClaim, result.receipt) => result.eligible /\ result.outcome = "passed"
      BY <2>1, <2>2, <2>3, <3>1, <3>2, <3>4
    <3>6. result.eligible => result.errors \subseteq CameBack
      BY <2>1, <2>3
    <3>7. result.eligible /\ result.receipt.contract = "source"
            => (Bears(gate.wave, SourceClaim, result.receipt) <=> result.errors = {})
      BY <1>1, <2>1, <2>2, <2>3, <3>1, <3>2, <3>3, <3>4, PassedIsCompared DEF EndedOk
    <3>8. CameBack' = CameBack
      BY <1>2 DEF CameBack, ByWave
    <3> QED BY <1>2, <1>5, <3>5, <3>6, <3>7, <3>8 DEF AcceptedIsEligible
  <2>5. EligibleIsWitnessed'
    <3> SUFFICES ASSUME result.eligible
                 PROVE  /\ probe.exit = "ok" /\ \E f \in after : f[Source(gate.wave)] = probe.cas
                        /\ \A m \in Modules : m \in DOMAIN probe.attested /\ \E f \in after : f[m] = probe.attested[m]
      BY <1>1, <1>2, <1>5 DEF EligibleIsWitnessed, Source
    <3>1. /\ EndedOk /\ Agreeing(gate.modules) /\ Complete(gate.modules)
          /\ \E f \in after : f[Source(gate.wave)] = probe.cas
      BY <1>1, <2>1, PassedIsCompared
    <3>2. ASSUME NEW m \in Modules
          PROVE  m \in DOMAIN probe.attested /\ \E f \in after : f[m] = probe.attested[m]
      <4>1. m \in DOMAIN gate.modules
        BY <3>1 DEF Complete
      <4>2. gate.modules[m].host = gate.modules[m].donor
        BY <3>1, <4>1 DEF Agreeing
      <4> QED BY <4>1, <4>2 DEF GateInv, Witnessed
    <3> QED BY <3>1, <3>2 DEF EndedOk
  <2>6. BlockedIsEnvironment'
    <3>1. (\E e \in gate.errors : e.blocked) <=> probe.exit = "import"
      BY <1>1 DEF GateInv, Blamed
    <3>2. \A e \in final.errors : e \in gate.errors \/ ~e.blocked
      <4>1. ~Error("incomplete_modules", FALSE).blocked /\ ~Error("invalid_execution_trace", FALSE).blocked
        BY DEF Error
      <4> QED BY <2>2, <4>1 DEF errors
    <3>3. gate.errors \subseteq final.errors
      BY <2>2 DEF errors
    <3>4. gate.program # None
      BY <1>1 DEF GateInv, Stages, Routed
    <3>5. (\E e \in result.errors : e.blocked) <=> probe.exit = "import" \/ gate.program = None
      BY <2>1, <3>1, <3>2, <3>3, <3>4
    <3> QED BY <1>1, <1>2, <1>5, <3>5 DEF BlockedIsEnvironment
  <2>7. GovernedIsEligible'
    <3>1. Passed' <=> Passed
      BY <1>1, <1>2 DEF Passed, StagesPassed, Printed, SourceOk, StreamOk, Complete, ByWave
    <3>2. Trace' = Trace
      BY <1>1, <1>2, <3>1 DEF Trace
    <3>3. ASSUME ContractSound(disk.contract), gate.started <= disk.clock,
                 RouteSound(gate.program, RouteOwner(gate.program, Action(gate.wave))),
                 "denied" \notin gate.program.obls[RouteOwner(gate.program, Action(gate.wave))].route.decisions
          PROVE  result.eligible <=> Passed /\ Spoken(disk.contract, Trace)
      BY <1>1, <2>1, <3>3, SoundRouteTraces DEF valid
    <3> QED BY <1>1, <1>2, <1>5, <3>1, <3>2, <3>3 DEF GovernedIsEligible
  <2> QED BY <1>3, <2>4, <2>5, <2>6, <2>7 DEF GateInv, Results
<1> QED BY <1>2, <1>4, <1>5

-----------------------------------------------------------------------------
(* The theorems.                                                           *)

LEMMA StutterInv == GateInv /\ UNCHANGED vars => GateInv'
<1> SUFFICES ASSUME GateInv, UNCHANGED vars PROVE GateInv'
  OBVIOUS
<1> USE DEF GateInv, vars
<1>1. Shape' /\ Stages' /\ PrintsTaken' /\ Blamed' /\ Witnessed'
  BY SameCameBack DEF Shape, Stages, Fresh, Unread, Off, EndedOk, Looked, PrintsTaken, Blamed, Witnessed
<1>2. Passed' = Passed /\ Trace' = Trace /\ CameBack' = CameBack
  BY SameCameBack DEF Passed, StagesPassed, Printed, SourceOk, StreamOk, ByWave, Trace
<1>3. Results'
  BY <1>2 DEF Results, AcceptedIsEligible, EligibleIsWitnessed, BlockedIsEnvironment, GovernedIsEligible, Done
<1> QED BY <1>1, <1>3

LEMMA InductiveInv == Spec => []GateInv
<1>1. GateInv /\ [Next]_vars => GateInv'
  BY StutterInv, StartInv, TakePrintInv, StampInv, ReadNotesInv, CheckFilesInv, LaunchInv,
     ReadAnswerInv, TimeOutInv, HashModulesInv, CrossCheckInv, ReadSourceInv, LoadProgramInv, ValidateTraceInv, ProbeInv, EditInv
  DEF Next, Gate
<1> QED BY InitInv, <1>1, PTL DEF Spec

\* What the receipt validators accept the gate called eligible; what it called eligible they
\* refuse for the error of a README that came back, and for nothing else.
THEOREM AcceptedIsEligibleAlways == Spec => []AcceptedIsEligible
<1>1. GateInv => AcceptedIsEligible
  BY DEF GateInv, Results
<1> QED BY InductiveInv, <1>1, PTL

\* An eligible candidate is of files that were there after the probe had ended.
THEOREM EligibleIsWitnessedAlways == Spec => []EligibleIsWitnessed
<1>1. GateInv => EligibleIsWitnessed
  BY DEF GateInv, Results
<1> QED BY InductiveInv, <1>1, PTL

\* A blocked environment is one that PKos cannot be imported in or that has no governed route.
THEOREM BlockedIsEnvironmentAlways == Spec => []BlockedIsEnvironment
<1>1. GateInv => BlockedIsEnvironment
  BY DEF GateInv, Results
<1> QED BY InductiveInv, <1>1, PTL

\* A route that the program's validator accepts fails the trace's for a word that the contract of
\* traces does not have, asks for or forbids, unless it denies something, the contract is unsound
\* or the clock runs backwards.
THEOREM GovernedIsEligibleAlways == Spec => []GovernedIsEligible
<1>1. GateInv => GovernedIsEligible
  BY DEF GateInv, Results
<1> QED BY InductiveInv, <1>1, PTL
=============================================================================
