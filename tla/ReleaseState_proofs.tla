------------------------ MODULE ReleaseState_proofs ------------------------
(***************************************************************************)
(* Theorems about ReleaseState, for any obligations, blockers, criteria    *)
(* and gates, any contents of the files and any number of edits: what a    *)
(* report of resolve_release_state rests on.                               *)
(***************************************************************************)
EXTENDS ReleaseState, FiniteSetTheorems, SequenceTheorems, TLAPS

\* The places of the pass over the evidence of the obligations, and of an adoption in it.
Binding == {"reload", "run", "parity"}
InPass  == {"evidence"} \cup Binding
Places  == {"idle", "program", "manifest", "phase", "waves", "owner", "unchanged", "approval", "criteria", "gates",
            "done", "refused"} \cup InPass

\* The pass leads to a place; the phase of the suite is behind the call.
Passing(place) == call.pc \in InPass /\ call.next = place
PhaseDone      == call.pc \in {"criteria", "gates", "done"} \/ Passing("done")

\* The files keep their shape, and the call remembers all that they have held.
Shape ==
    /\ Shaped(disk)
    /\ DOMAIN call = DOMAIN Idle /\ call.pc \in Places
    /\ disks \in Seq({disks[i] : i \in DOMAIN disks})
    /\ (call.pc = "idle") <=> (Len(disks) = 0)
    /\ Len(disks) > 0 => disks[Len(disks)] = disk

\* The documents of the call were on disk, and undisturbed they are what is there now.
Read ==
    /\ call.pc # "idle" => LedgerShaped(call.ledger)
    /\ call.pc \notin {"idle", "program", "refused"} => \A o \in Obls : call.program[o].evid \in Files \cup {None}
    /\ Loaded(call.pc) => \A w \in FollowUps : call.manifest[w].file \in Files
    /\ Len(disks) = 1 => call.ledger = disk.ledger
    /\ Len(disks) = 1 /\ call.pc \notin {"program", "refused"} => call.program = disk.program

\* What is true of an obligation whose evidence was looked at with its bindings.
Looked(o) == Shown(o) /\ (Adopts(call.program, o) => Bound(o))

\* The pass: what it has looked at was there; an adoption is looked at in four steps.
Passed ==
    /\ call.pc \in InPass =>
        /\ ProgramSound(call.program, call.manifest) /\ call.next \in {"criteria", "unchanged", "done"}
        /\ \A o \in Stored(call.program) \cap call.seen :
            Shown(o) /\ (Looked(o) \/ (call.pc \in Binding /\ o = call.bind.obl))
    /\ call.pc \in Binding => DOMAIN call.bind = {"obl", "doc"}
    /\ call.pc \in {"run", "parity"} =>
        \E j \in DOMAIN disks : disks[j].files[EvidenceRef(call.program, call.manifest, call.bind.obl)] = call.bind.doc
    /\ call.pc = "parity" => \E k \in DOMAIN disks : RunBound(disks[k].files, call.bind.doc)

\* A promise was backed by an execution at some moment of the call.
Promised ==
    /\ call.pc = "waves" \/ Passing("criteria") => Phase.name \in Promises /\ Phase.owner
    /\ Passing("criteria") => Reached(Phase.depth, call.program) # {}
    /\ PhaseDone /\ Phase.name \in Promises =>
        Phase.owner /\ \E i \in DOMAIN disks, f \in Files : Executed(disks[i].files[f])

\* The bytes of the retirement were there before and after their owner was validated.
Bytes(i) == disks[i].files[call.support.doc.ref] = call.support.doc.bytes
Life(o)  == o \in LifeOwners(call.program, call.support.doc.ref)
Borne(j) ==
    \/ \E w \in FollowUps : call.manifest[w].file = call.support.doc.ref /\ WaveProven(call.manifest, disks[j].files, w)
    \/ \E o \in Obls : Life(o) /\ Evidenced(call.program, call.manifest, disks[j].files, o)

Retired ==
    /\ call.pc \in {"owner", "unchanged", "approval"} \/ Passing("unchanged") => Phase.name = "retired"
    /\ call.pc \in {"owner", "unchanged"} \/ Passing("unchanged") => call.support.before = call.support.doc.bytes
    /\ call.pc = "owner" => \E i \in DOMAIN disks : Bytes(i)
    /\ Passing("unchanged") => \E i \in DOMAIN disks, o \in Stored(call.program) :
        /\ Bytes(i) /\ Life(o)
        /\ o \in call.seen => \E j \in DOMAIN disks : i <= j /\ Evidenced(call.program, call.manifest, disks[j].files, o)
    /\ call.pc = "unchanged" => \E i, j \in DOMAIN disks : i <= j /\ Bytes(i) /\ Borne(j)
    /\ call.pc = "approval" \/ (PhaseDone /\ Phase.name = "retired") =>
            \E i, j, k \in DOMAIN disks : i <= j /\ j <= k /\ Bytes(i) /\ Borne(j) /\ Bytes(k)
    /\ PhaseDone /\ Phase.name = "retired" => call.support.doc \in disk.approved

\* What the last passes decided.
Checked ==
    /\ call.pc \in {"gates", "done"} \/ Passing("done") => LedgerValid(call.ledger, call.program)
    /\ call.pc = "gates" /\ Len(disks) = 1 => \A g \in Gates \cap call.seen : GateValid(call.ledger, disk, g)
    /\ (call.pc = "done" \/ Passing("done")) /\ Len(disks) = 1 => \A g \in Gates : GateValid(call.ledger, disk, g)
    /\ call.pc = "done" => ProgramSound(call.program, call.manifest) /\ \A o \in Stored(call.program) : Looked(o)

Inv == Shape /\ Read /\ Passed /\ Promised /\ Retired /\ Checked

-----------------------------------------------------------------------------
(* The history of a call.                                                  *)

LEMMA Recorded == ASSUME NEW s, s \in Seq({s[i] : i \in DOMAIN s}), NEW x, NEW t, t = Append(s, x)
                  PROVE  /\ t \in Seq({t[i] : i \in DOMAIN t}) /\ Len(t) = Len(s) + 1 /\ t[Len(t)] = x
                         /\ DOMAIN s \subseteq DOMAIN t /\ \A i \in DOMAIN s : t[i] = s[i]
<1> DEFINE S == {s[i] : i \in DOMAIN s} \cup {x}
<1>1. s \in Seq(S) /\ x \in S
  <2>1. Len(s) \in Nat /\ DOMAIN s = 1 .. Len(s) /\ s \in [1 .. Len(s) -> {s[i] : i \in DOMAIN s}]
    OBVIOUS
  <2>2. s \in [1 .. Len(s) -> S]
    BY <2>1
  <2> QED BY <2>1, <2>2
<1> HIDE DEF S
<1>2. /\ t \in Seq(S) /\ Len(t) = Len(s) + 1 /\ t[Len(s) + 1] = x /\ \A i \in 1 .. Len(s) : t[i] = s[i]
  BY <1>1, AppendProperties
<1>3. DOMAIN s = 1 .. Len(s) /\ DOMAIN t = 1 .. Len(t) /\ Len(s) \in Nat
  BY <1>1, <1>2
<1>4. t \in Seq({t[i] : i \in DOMAIN t})
  <2> DEFINE R == {t[i] : i \in DOMAIN t}
  <2>1. \A i \in 1 .. Len(t) : t[i] \in R
    BY <1>3
  <2>2. t \in [1 .. Len(t) -> S] /\ Len(t) \in Nat
    BY <1>2, LenProperties
  <2> HIDE DEF R
  <2>3. t \in [1 .. Len(t) -> R]
    BY <2>1, <2>2
  <2>4. t \in Seq(R)
    <3>1. \A n \in Nat : \A f : f \in [1 .. n -> R] => f \in Seq(R)
      <4>1. Seq(R) = UNION {[1 .. n -> R] : n \in Nat}
        BY SeqDef
      <4> QED BY <4>1, Zenon
    <3> QED BY <2>2, <2>3, <3>1
  <2> QED BY <2>4 DEF R
<1> QED BY <1>2, <1>3, <1>4

-----------------------------------------------------------------------------
(* Edits keep the shape of the files and the approvals on record.          *)

LEMMA ProgramEdited == ASSUME Shaped(disk), EditProgram PROVE Shaped(disk') /\ disk.approved \subseteq disk'.approved
<1>1. PICK o \in Obls :
        \/ \E s : disk' = [disk EXCEPT !.program[o].state = s]
        \/ \E S : disk' = [disk EXCEPT !.program[o].deps = S]
        \/ \E r : disk' = [disk EXCEPT !.program[o].route = r]
        \/ disk' = [disk EXCEPT !.program[o].evid = None]
        \/ disk' = [disk EXCEPT !.program[o].sound = FALSE]
  BY DEF EditProgram
<1>2. /\ DOMAIN disk' = DOMAIN disk /\ disk'.ledger = disk.ledger /\ disk'.manifest = disk.manifest
      /\ disk'.gateDocs = disk.gateDocs /\ disk'.approved = disk.approved
  BY <1>1 DEF Shaped
<1>3. /\ DOMAIN disk'.program = DOMAIN disk.program
      /\ \A p \in Obls : DOMAIN disk'.program[p] = DOMAIN disk.program[p]
                         /\ (disk'.program[p].evid = disk.program[p].evid \/ disk'.program[p].evid = None)
  BY <1>1 DEF Shaped
<1> QED BY <1>2, <1>3 DEF Shaped, ReceiptsBind

LEMMA LedgerEdited == ASSUME Shaped(disk), EditLedger PROVE Shaped(disk') /\ disk.approved \subseteq disk'.approved
<1>1. /\ DOMAIN disk' = DOMAIN disk /\ disk'.program = disk.program /\ disk'.manifest = disk.manifest
      /\ disk'.gateDocs = disk.gateDocs /\ disk'.approved = disk.approved
  BY DEF EditLedger, Shaped
<1>2. LedgerShaped(disk'.ledger)
  <2>0. LedgerShaped(disk.ledger) /\ "ledger" \in DOMAIN disk
    BY DEF Shaped
  <2>1. \/ \E g \in Gates : \E c : disk' = [disk EXCEPT !.ledger.gates[g].closure = c]
        \/ DOMAIN disk'.ledger = DOMAIN disk.ledger /\ disk'.ledger.gates = disk.ledger.gates
    <3>1. ASSUME NEW k \in Criteria, NEW c,
                 disk' = [disk EXCEPT !.ledger.criteria[k].status = "closed", !.ledger.criteria[k].closure = c]
          PROVE  DOMAIN disk'.ledger = DOMAIN disk.ledger /\ disk'.ledger.gates = disk.ledger.gates
      BY <2>0, <3>1 DEF LedgerShaped
    <3>2. ASSUME NEW k \in Criteria,
                 disk' = [disk EXCEPT !.ledger.criteria[k].status = "open", !.ledger.criteria[k].closure = None]
          PROVE  DOMAIN disk'.ledger = DOMAIN disk.ledger /\ disk'.ledger.gates = disk.ledger.gates
      BY <2>0, <3>2 DEF LedgerShaped
    <3>3. ASSUME NEW a \in Blockers, NEW S, disk' = [disk EXCEPT !.ledger.blockers[a].deps = S]
          PROVE  DOMAIN disk'.ledger = DOMAIN disk.ledger /\ disk'.ledger.gates = disk.ledger.gates
      BY <2>0, <3>3 DEF LedgerShaped
    <3>4. ASSUME NEW p, disk' = [disk EXCEPT !.ledger.phase = p]
          PROVE  DOMAIN disk'.ledger = DOMAIN disk.ledger /\ disk'.ledger.gates = disk.ledger.gates
      BY <2>0, <3>4 DEF LedgerShaped
    <3> QED BY <3>1, <3>2, <3>3, <3>4 DEF EditLedger
  <2>2. ASSUME NEW g \in Gates, NEW c, disk' = [disk EXCEPT !.ledger.gates[g].closure = c]
        PROVE  /\ DOMAIN disk'.ledger = DOMAIN disk.ledger /\ DOMAIN disk'.ledger.gates = DOMAIN disk.ledger.gates
               /\ \A h \in Gates : DOMAIN disk'.ledger.gates[h] = DOMAIN disk.ledger.gates[h]
    BY <2>0, <2>2 DEF LedgerShaped
  <2> QED BY <2>0, <2>1, <2>2 DEF LedgerShaped
<1> QED BY <1>1, <1>2 DEF Shaped, ReceiptsBind

LEMMA ManifestEdited == ASSUME Shaped(disk), EditManifest PROVE Shaped(disk') /\ disk.approved \subseteq disk'.approved
<1>1. PICK w \in FollowUps :
        \/ disk' = [disk EXCEPT !.manifest[w].status = "in_progress"]
        \/ disk' = [disk EXCEPT !.manifest[w].claim.level = "source_inspected"]
        \/ disk' = [disk EXCEPT !.manifest[w].followup = FALSE]
  BY DEF EditManifest
<1>2. /\ DOMAIN disk' = DOMAIN disk /\ disk'.ledger = disk.ledger /\ disk'.program = disk.program
      /\ disk'.gateDocs = disk.gateDocs /\ disk'.approved = disk.approved
  BY <1>1 DEF Shaped
<1>3. /\ DOMAIN disk'.manifest = DOMAIN disk.manifest
      /\ \A v \in FollowUps : DOMAIN disk'.manifest[v] = DOMAIN disk.manifest[v]
                              /\ disk'.manifest[v].file = disk.manifest[v].file
  BY <1>1 DEF Shaped
<1> QED BY <1>2, <1>3 DEF Shaped, ReceiptsBind

LEMMA ReceiptWritten == ASSUME Shaped(disk), WriteGateReceipt PROVE Shaped(disk') /\ disk.approved \subseteq disk'.approved
<1>1. PICK g \in Gates : disk' = [disk EXCEPT !.gateDocs[g] = [bound |-> Digests(g, disk),
        asOf |-> [ledger |-> disk.ledger, program |-> disk.program, contracts |-> disk.contracts]]]
  BY DEF WriteGateReceipt
<1>2. /\ DOMAIN disk' = DOMAIN disk /\ disk'.ledger = disk.ledger /\ disk'.program = disk.program
      /\ disk'.manifest = disk.manifest /\ disk'.approved = disk.approved
  BY <1>1 DEF Shaped
<1>3. /\ DOMAIN disk'.gateDocs = Gates /\ \A h \in Gates : h # g => disk'.gateDocs[h] = disk.gateDocs[h]
      /\ disk'.gateDocs[g].asOf.ledger = disk.ledger /\ disk'.gateDocs[g].bound = Digests(g, disk)
      /\ Digests(g, disk'.gateDocs[g].asOf) = Digests(g, disk)
  BY <1>1 DEF Shaped, Digests
<1>4. ReceiptsBind(disk')
  BY <1>3 DEF Shaped, ReceiptsBind
<1> QED BY <1>2, <1>3, <1>4 DEF Shaped

LEMMA OthersEdited == ASSUME Shaped(disk), EditEvidence \/ EditContracts \/ Retire
                      PROVE  Shaped(disk') /\ disk.approved \subseteq disk'.approved
<1>1. /\ DOMAIN disk' = DOMAIN disk /\ disk'.ledger = disk.ledger /\ disk'.program = disk.program
      /\ disk'.manifest = disk.manifest /\ disk'.gateDocs = disk.gateDocs /\ disk.approved \subseteq disk'.approved
  BY DEF EditEvidence, EditContracts, Retire, Shaped
<1> QED BY <1>1 DEF Shaped, ReceiptsBind

LEMMA EditKeeps == ASSUME Shape, Edit
                   PROVE  /\ Shape' /\ call' = call /\ disk.approved \subseteq disk'.approved
                          /\ call.pc = "idle" => disks' = disks
                          /\ call.pc # "idle" => /\ Len(disks') \notin {0, 1} /\ DOMAIN disks \subseteq DOMAIN disks'
                                                /\ \A i \in DOMAIN disks : disks'[i] = disks[i]
<1>1. Shaped(disk') /\ disk.approved \subseteq disk'.approved /\ call' = call
  BY ProgramEdited, LedgerEdited, ManifestEdited, ReceiptWritten, OthersEdited DEF Edit, Shape
<1>2. CASE call.pc = "idle"
  <2>1. disks' = disks
    BY <1>2 DEF Edit
  <2> QED BY <1>1, <1>2, <2>1 DEF Shape
<1>3. CASE call.pc # "idle"
  <2>1. disks' = Append(disks, disk')
    BY <1>3 DEF Edit
  <2>2. /\ disks' \in Seq({disks'[i] : i \in DOMAIN disks'}) /\ Len(disks') = Len(disks) + 1 /\ disks'[Len(disks')] = disk'
        /\ DOMAIN disks \subseteq DOMAIN disks' /\ \A i \in DOMAIN disks : disks'[i] = disks[i]
    <3>1. disks \in Seq({disks[i] : i \in DOMAIN disks})
      BY DEF Shape
    <3> QED BY <2>1, <3>1, Recorded, SMTT(30)
  <2>3. Len(disks) \in Nat /\ Len(disks) # 0
    BY <1>3 DEF Shape
  <2> QED BY <1>1, <1>3, <2>2, <2>3 DEF Shape
<1> QED BY <1>2, <1>3

-----------------------------------------------------------------------------
(* The steps of the call.                                                  *)

LEMMA InitInv == Init => Inv
<1> SUFFICES ASSUME Init PROVE Inv
  OBVIOUS
<1>1. Shaped(disk) /\ call = Idle /\ disks = <<>>
  BY DisksAssumption DEF Init
<1>2. disks \in Seq({disks[i] : i \in DOMAIN disks}) /\ Len(disks) = 0
  BY <1>1
<1>3. call.pc = "idle" /\ DOMAIN call = DOMAIN Idle
  BY <1>1 DEF Idle
<1> QED
  BY <1>1, <1>2, <1>3
  DEF Inv, Shape, Read, Passed, Promised, Retired, Checked, Places, InPass, Binding, Passing, PhaseDone, Loaded

\* A call that goes on with the same documents keeps what was shown of them.
LEMMA ShownKept == ASSUME call'.program = call.program, call'.manifest = call.manifest,
                          DOMAIN disks \subseteq DOMAIN disks', \A i \in DOMAIN disks : disks'[i] = disks[i]
                   PROVE  \A x : (Shown(x) => Shown(x)') /\ (Bound(x) => Bound(x)') /\ (Looked(x) => Looked(x)')
<1>1. ASSUME NEW x, Shown(x) PROVE Shown(x)'
  BY <1>1 DEF Shown
<1>2. ASSUME NEW x, Bound(x) PROVE Bound(x)'
  <2> DEFINE ref == EvidenceRef(call.program, call.manifest, x)
  <2>1. PICK j \in DOMAIN disks : disks[j].files[ref] # None =>
            /\ \E k \in DOMAIN disks : RunBound(disks[k].files, disks[j].files[ref])
            /\ \E k \in DOMAIN disks : ParityBound(call.manifest, disks[k].files, x, disks[j].files[ref])
    BY <1>2 DEF Bound
  <2>2. ref' = ref /\ disks'[j] = disks[j] /\ j \in DOMAIN disks'
    BY <2>1
  <2>3. disks'[j].files[ref'] # None =>
            /\ \E k \in DOMAIN disks' : RunBound(disks'[k].files, disks'[j].files[ref'])
            /\ \E k \in DOMAIN disks' : ParityBound(call'.manifest, disks'[k].files, x, disks'[j].files[ref'])
    <3> HIDE DEF ref
    <3> QED BY <2>1, <2>2
  <2> QED BY <2>2, <2>3 DEF Bound
<1> QED BY <1>1, <1>2 DEF Looked

LEMMA EditInv == ASSUME Inv, Edit PROVE Inv'
<1>1. /\ Shape' /\ call' = call /\ disk.approved \subseteq disk'.approved
      /\ call.pc = "idle" => disks' = disks
      /\ call.pc # "idle" => /\ Len(disks') \notin {0, 1} /\ DOMAIN disks \subseteq DOMAIN disks'
                            /\ \A i \in DOMAIN disks : disks'[i] = disks[i]
  BY EditKeeps DEF Inv
<1>2. CASE call.pc = "idle"
  <2>1. Len(disks') = 0 /\ call'.pc = "idle"
    BY <1>1, <1>2 DEF Inv, Shape
  <2>2. Read' /\ Passed' /\ Promised' /\ Retired' /\ Checked'
    BY <2>1 DEF Read, Passed, Promised, Retired, Checked, InPass, Binding, Passing, PhaseDone, Loaded
  <2> QED BY <1>1, <2>2 DEF Inv
<1>3. CASE call.pc # "idle"
  <2>1. /\ Len(disks') # 1 /\ DOMAIN disks \subseteq DOMAIN disks' /\ \A i \in DOMAIN disks : disks'[i] = disks[i]
        /\ call' = call
    BY <1>1, <1>3
  <2>0. \A x : (Shown(x) => Shown(x)') /\ (Bound(x) => Bound(x)') /\ (Looked(x) => Looked(x)')
    BY <2>1, ShownKept
  <2>2. Read'
    BY <2>1 DEF Inv, Read, Loaded
  <2>3. Passed'
    BY <2>0, <2>1 DEF Inv, Passed
  <2>4. Promised'
    BY <2>1 DEF Inv, Promised, Phase, Passing, PhaseDone
  <2>5. Retired'
    <3>1. \A i \in DOMAIN disks : (Bytes(i) => Bytes(i)') /\ (Borne(i) => Borne(i)')
      BY <2>1 DEF Bytes, Borne, Life
    <3>2. (\A o : Life(o)' = Life(o)) /\ (\A p : Passing(p)' = Passing(p)) /\ PhaseDone' = PhaseDone /\ Phase' = Phase
      BY <2>1 DEF Life, Passing, PhaseDone, Phase
    <3>3. Retired
      BY DEF Inv
    <3> QED BY <1>1, <2>1, <3>1, <3>2, <3>3 DEF Retired
  <2>6. Checked'
    BY <2>0, <2>1 DEF Inv, Checked, Passing
  <2> QED BY <1>1, <2>2, <2>3, <2>4, <2>5, <2>6 DEF Inv
<1> QED BY <1>2, <1>3

\* What is on disk now is the latest that the call remembers.
LEMMA Now == ASSUME Shape, call.pc # "idle"
             PROVE  \E n \in DOMAIN disks : disks[n] = disk /\ \A i \in DOMAIN disks : i <= n
<1>1. Len(disks) \in Nat /\ Len(disks) # 0 /\ DOMAIN disks = 1 .. Len(disks)
  BY LenProperties DEF Shape
<1> QED BY <1>1 DEF Shape

LEMMA LoadInv == ASSUME Inv, Start \/ LoadProgram \/ LoadSuites PROVE Inv'
<1>1. Shape /\ Read /\ Shaped(disk)
  BY DEF Inv, Shape
<1>2. CASE Start
  <2>1. /\ call'.pc = "program" /\ call'.ledger = disk.ledger /\ DOMAIN call' = DOMAIN call /\ disk' = disk
        /\ disks' = <<disk>> /\ call.pc = "idle"
    BY <1>1, <1>2 DEF Start, Shape
  <2>2. disks' \in Seq({disks'[i] : i \in DOMAIN disks'}) /\ Len(disks') = 1 /\ disks'[1] = disk
    <3>1. <<disk>> = Append(<<>>, disk) /\ <<>> \in Seq({<<>>[i] : i \in DOMAIN <<>>}) /\ Len(<<>>) = 0
      OBVIOUS
    <3> QED BY <2>1, <3>1, Recorded
  <2>3. Shape'
    BY <1>1, <2>1, <2>2 DEF Shape, Places
  <2>4. Read' /\ Passed' /\ Promised' /\ Retired' /\ Checked'
    BY <1>1, <2>1 DEF Read, Passed, Promised, Retired, Checked, InPass, Binding, Passing, PhaseDone, Loaded, Shaped
  <2> QED BY <2>3, <2>4 DEF Inv
<1>3. CASE LoadProgram
  <2>1. /\ call'.pc = "manifest" /\ call'.ledger = call.ledger /\ call'.program = disk.program /\ DOMAIN call' = DOMAIN call
        /\ UNCHANGED <<disk, disks>> /\ call.pc = "program"
    BY <1>1, <1>3 DEF LoadProgram, At, Shape
  <2>2. Shape'
    BY <1>1, <2>1 DEF Shape, Places
  <2>3. Read' /\ Passed' /\ Promised' /\ Retired' /\ Checked'
    BY <1>1, <2>1 DEF Read, Passed, Promised, Retired, Checked, InPass, Binding, Passing, PhaseDone, Loaded, Shaped
  <2> QED BY <2>2, <2>3 DEF Inv
<1>4. CASE LoadSuites
  <2>1. /\ call'.pc = "phase" /\ call'.ledger = call.ledger /\ call'.program = call.program /\ call'.manifest = disk.manifest
        /\ DOMAIN call' = DOMAIN call /\ UNCHANGED <<disk, disks>> /\ call.pc = "manifest"
    BY <1>1, <1>4 DEF LoadSuites, At, Shape
  <2>2. Shape'
    BY <1>1, <2>1 DEF Shape, Places
  <2>3. Read' /\ Passed' /\ Promised' /\ Retired' /\ Checked'
    BY <1>1, <2>1 DEF Read, Passed, Promised, Retired, Checked, InPass, Binding, Passing, PhaseDone, Loaded, Shaped
  <2> QED BY <2>2, <2>3 DEF Inv
<1> QED BY <1>2, <1>3, <1>4

\* A step of the call leaves its documents alone and the files too.
Onward(pc) ==
    /\ UNCHANGED <<disk, disks>> /\ DOMAIN call' = DOMAIN call /\ call'.pc = pc
    /\ call'.ledger = call.ledger /\ call'.program = call.program /\ call'.manifest = call.manifest

\* What the steps of the loaded call are made of.
LEMMA RefuseKeeps == ASSUME Shape, Refuse, UNCHANGED <<disk, disks>> PROVE Onward("refused")
BY DEF Refuse, Shape, Idle, Onward

LEMMA PassKeeps == ASSUME Shape, NEW cond, NEW next, Pass(cond, next), UNCHANGED <<disk, disks>>
                   PROVE  \/ Onward("refused")
                          \/ cond /\ Onward(next) /\ call'.support = call.support /\ call'.seen = {}
BY RefuseKeeps DEF Pass, Shape, Idle, Onward

LEMMA LookKeeps == ASSUME Shape, NEW cond, NEW x, Look(x, cond), UNCHANGED <<disk, disks>>
                   PROVE  \/ Onward("refused")
                          \/ /\ cond /\ Onward(call.pc) /\ call'.support = call.support
                             /\ call'.next = call.next /\ call'.seen = call.seen \cup {x}
BY RefuseKeeps DEF Look, Shape, Idle, Onward

LEMMA ResolveKeeps == ASSUME Shape, NEW cond, NEW next, ResolveProgram(cond, next), UNCHANGED <<disk, disks>>
                      PROVE  \/ Onward("refused")
                             \/ /\ cond /\ ProgramSound(call.program, call.manifest)
                                /\ Onward("evidence") /\ call'.support = call.support
                                /\ call'.next = next /\ call'.seen = {}
BY RefuseKeeps DEF ResolveProgram, Shape, Idle, Onward

LEMMA OnwardShape == ASSUME Inv, Loaded(call.pc), NEW pc, Onward(pc), pc \in Places \ {"idle", "program", "manifest"}
                     PROVE  Shape' /\ Read'
<1>1. call.pc \notin {"idle", "program", "manifest", "refused"} /\ call'.pc \notin {"idle", "program", "manifest"}
  BY DEF Loaded, Onward
<1>2. Shape'
  BY <1>1 DEF Inv, Shape, Places, Onward
<1>3. Read'
  BY <1>1 DEF Inv, Read, Loaded, Onward
<1> QED BY <1>2, <1>3

\* A refused call claims nothing.
LEMMA RefusedInv == ASSUME Inv, Loaded(call.pc), Onward("refused") PROVE Inv'
<1>1. Shape' /\ Read'
  BY OnwardShape DEF Places
<1>2. call'.pc = "refused"
  BY DEF Onward
<1> QED BY <1>1, <1>2 DEF Inv, Passed, Promised, Retired, Checked, InPass, Binding, Passing, PhaseDone

\* The documents of an onward step say what they said.
LEMMA OnwardSame == ASSUME NEW pc, Onward(pc)
                    PROVE  /\ Phase' = Phase /\ \A x : (Shown(x)' = Shown(x)) /\ (Looked(x)' = Looked(x))
                           /\ call'.support = call.support =>
                                \A i : (Bytes(i)' = Bytes(i)) /\ (Borne(i)' = Borne(i)) /\ (Life(i)' = Life(i))
<1>1. Phase' = Phase
  BY DEF Onward, Phase
<1>2. ASSUME NEW x PROVE Shown(x)' = Shown(x) /\ Looked(x)' = Looked(x)
  <2>1. Shown(x)' = Shown(x)
    BY DEF Onward, Shown
  <2>2. Bound(x)' = Bound(x)
    BY DEF Onward, Bound
  <2> QED BY <2>1, <2>2 DEF Looked, Onward
<1>3. ASSUME NEW i, call'.support = call.support
      PROVE  Bytes(i)' = Bytes(i) /\ Borne(i)' = Borne(i) /\ Life(i)' = Life(i)
  BY <1>3 DEF Onward, Bytes, Borne, Life
<1> QED BY <1>1, <1>2, <1>3

\* A receipt that bears a claim of an execution shows one.
LEMMA BearsExecution == ASSUME NEW w, NEW claim, NEW doc, Executes(claim.kind), Bears(w, claim, doc)
                        PROVE  doc.shows \cap {"invoked", "used", "approved"} # {}
<1>1. claim.kind \in {"runtime", "adoption", "convergence"} /\ claim.contract \in Expected(claim)
  BY DEF Executes, Bears, Eligible
<1>2. claim.contract \in {"source", "wcag", "parity", "adoption", "convergence"}
  BY <1>1 DEF Expected
<1>3. Proof(claim.contract) \subseteq doc.shows
  BY <1>1 DEF Bears
<1>4. Proof(claim.contract) \cap {"invoked", "used", "approved"} # {}
  BY <1>2 DEF Proof, WcagProof, RuntimeProof, AdoptionProof, ConvergenceProof
<1> QED BY <1>3, <1>4

\* An obligation is reported discharged only when its stored state is.
LEMMA DischargedState == ASSUME NEW program, NEW o \in Discharged(program)
                         PROVE  o \in Stored(program)
BY DEF Discharged, EffectiveState, Stored

\* The evidence of a discharged execution is a receipt of one.
LEMMA EvidenceExecutes == ASSUME Read, Loaded(call.pc), NEW o \in Obls, NEW i \in DOMAIN disks,
                                 Executes(call.program[o].target.kind),
                                 Evidenced(call.program, call.manifest, disks[i].files, o)
                          PROVE  \E f \in Files : Executed(disks[i].files[f])
<1> DEFINE ref == EvidenceRef(call.program, call.manifest, o)
<1>1. ref \in Files
  BY DEF Read, Evidenced, EvidenceRef, Loaded
<1>2. disks[i].files[ref] # None /\ Bears(o, call.program[o].target, disks[i].files[ref])
  BY DEF Evidenced
<1>3. Executed(disks[i].files[ref])
  BY <1>2, BearsExecution DEF Executed
<1> HIDE DEF ref
<1> QED BY <1>1, <1>3

LEMMA PhaseInv == ASSUME Inv, CheckNoPromise \/ CheckPromise \/ CheckWave \/ CheckObligations PROVE Inv'
<1>0. /\ Shape /\ Read /\ Promised /\ UNCHANGED <<disk, disks>> /\ call.pc \in {"phase", "waves"} /\ Loaded(call.pc)
      /\ call.pc = "waves" => Phase.name \in Promises /\ Phase.owner
  BY DEF Inv, Promised, CheckNoPromise, CheckPromise, CheckWave, CheckObligations, At, Loaded
<1>1. CASE Onward("refused")
  BY <1>0, <1>1, RefusedInv
<1>2. CASE CheckNoPromise /\ ~Onward("refused")
  <2>1. Onward("criteria") /\ Phase.name \notin Promises \cup {"retired"}
    BY <1>0, <1>2, PassKeeps DEF CheckNoPromise
  <2>2. Shape' /\ Read' /\ Phase' = Phase /\ call'.pc = "criteria"
    BY <1>0, <2>1, OnwardShape, OnwardSame DEF Places, Onward
  <2> QED BY <2>1, <2>2 DEF Inv, Passed, Promised, Retired, Checked, InPass, Binding, Passing, PhaseDone
<1>3. CASE CheckPromise /\ ~Onward("refused")
  <2>1. Onward("waves") /\ Phase.name \in Promises /\ Phase.owner
    BY <1>0, <1>3, PassKeeps DEF CheckPromise
  <2>2. Shape' /\ Read' /\ Phase' = Phase /\ call'.pc = "waves"
    BY <1>0, <2>1, OnwardShape, OnwardSame DEF Places, Onward
  <2> QED BY <2>1, <2>2 DEF Inv, Passed, Promised, Retired, Checked, InPass, Binding, Passing, PhaseDone
<1>4. CASE CheckWave /\ ~Onward("refused")
  <2>1. PICK w \in Reaching(Phase.depth, call.manifest) \ call.seen :
            IF WaveProven(call.manifest, disk.files, w) THEN Pass(TRUE, "criteria") ELSE Look(w, TRUE)
    BY <1>4 DEF CheckWave
  <2>2. CASE WaveProven(call.manifest, disk.files, w)
    <3>1. Onward("criteria")
      BY <1>0, <1>4, <2>1, <2>2, PassKeeps
    <3>2. Shape' /\ Read' /\ Phase' = Phase /\ call'.pc = "criteria"
      BY <1>0, <3>1, OnwardShape, OnwardSame DEF Places, Onward
    <3>3. PICK n \in DOMAIN disks : disks[n] = disk
      BY <1>0, Now
    <3>4. w \in FollowUps /\ Executes(call.manifest[w].claim.kind) /\ call.manifest[w].file \in Files
      BY <1>0, <2>1 DEF Reaching, Read
    <3>5. Executed(disks[n].files[call.manifest[w].file])
      BY <2>2, <3>3, <3>4, BearsExecution DEF WaveProven, Executed
    <3>6. call.pc = "waves"
      BY <1>4 DEF CheckWave, At
    <3>7. Promised'
      BY <1>0, <3>1, <3>2, <3>4, <3>5, <3>6 DEF Promised, InPass, Binding, Passing, PhaseDone, Onward
    <3>8. Phase.name # "retired"
      BY <1>0, <3>6 DEF Promises
    <3> QED BY <3>2, <3>7, <3>8 DEF Inv, Passed, Retired, Checked, InPass, Binding, Passing, PhaseDone
  <2>3. CASE ~WaveProven(call.manifest, disk.files, w)
    <3>1. Onward("waves") /\ call.pc = "waves"
      BY <1>0, <1>4, <2>1, <2>3, LookKeeps DEF CheckWave, At
    <3>2. Shape' /\ Read' /\ Phase' = Phase /\ call'.pc = "waves"
      BY <1>0, <3>1, OnwardShape, OnwardSame DEF Places, Onward
    <3> QED BY <1>0, <3>1, <3>2 DEF Inv, Passed, Promised, Retired, Checked, InPass, Binding, Passing, PhaseDone
  <2> QED BY <2>2, <2>3
<1>5. CASE CheckObligations /\ ~Onward("refused")
  <2>1. /\ Onward("evidence") /\ ProgramSound(call.program, call.manifest) /\ Reached(Phase.depth, call.program) # {}
        /\ call'.next = "criteria" /\ call'.seen = {} /\ call.pc = "waves"
    BY <1>0, <1>5, ResolveKeeps DEF CheckObligations, At
  <2>2. Shape' /\ Read' /\ Phase' = Phase /\ call'.pc = "evidence"
    BY <1>0, <2>1, OnwardShape, OnwardSame DEF Places, InPass, Onward
  <2>3. Passed'
    BY <2>1, <2>2 DEF Passed, Binding, Onward
  <2>4. Promised'
    BY <1>0, <2>1, <2>2 DEF Promised, Passing, PhaseDone, Onward
  <2> QED BY <2>1, <2>2, <2>3, <2>4 DEF Inv, Retired, Checked, Passing, PhaseDone
<1> QED BY <1>1, <1>2, <1>3, <1>4, <1>5

LEMMA RetirementInv == ASSUME Inv, CheckRetirement PROVE Inv'
<1>1. call.pc = "phase" /\ UNCHANGED <<disk, disks>> /\ Shape /\ Read /\ Loaded(call.pc)
  BY DEF CheckRetirement, At, Inv, Loaded
<1>2. CASE Pass(FALSE, "owner")
  BY <1>1, <1>2, PassKeeps, RefusedInv
<1>3. ASSUME NEW doc, BoundBytes(doc, disk.files),
             call' = [call EXCEPT !.pc = "owner", !.support = [doc |-> doc, before |-> ConfinedBytes(disk.files, doc.ref)]]
      PROVE  Inv'
  <2>0. Phase.name = "retired"
    BY DEF CheckRetirement
  <2>1. Onward("owner") /\ call'.support.doc = doc /\ call'.support.before = disk.files[doc.ref]
    BY <1>1, <1>3 DEF Shape, Idle, ConfinedBytes, Onward
  <2>2. disk.files[doc.ref] = doc.bytes
    BY <1>3 DEF BoundBytes, ConfinedBytes
  <2>3. PICK n \in DOMAIN disks : disks[n] = disk
    BY <1>1, Now
  <2>4. Shape' /\ Read' /\ Phase' = Phase /\ call'.pc = "owner"
    BY <1>1, <2>1, OnwardShape, OnwardSame DEF Places, Onward
  <2>5. Retired'
    BY <1>1, <2>0, <2>1, <2>2, <2>3, <2>4 DEF Retired, Bytes, InPass, Binding, Passing, PhaseDone
  <2> QED BY <2>4, <2>5 DEF Inv, Passed, Promised, Checked, InPass, Binding, Passing, PhaseDone
<1> QED BY <1>2, <1>3 DEF CheckRetirement

LEMMA OneIsSome == ASSUME NEW S, Cardinality(S) = 1 PROVE S # {}
BY FS_EmptySet

LEMMA OwnerInv == ASSUME Inv, CheckSupportOwner PROVE Inv'
<1>0. /\ Shape /\ Read /\ Retired /\ UNCHANGED <<disk, disks>> /\ call.pc = "owner" /\ Loaded(call.pc)
      /\ Phase.name = "retired" /\ call.support.before = call.support.doc.bytes
  BY DEF Inv, Retired, CheckSupportOwner, At, Loaded
<1> DEFINE ref == call.support.doc.ref
           waves == WaveOwners(call.manifest, ref)
           lives == LifeOwners(call.program, ref)
<1>1. PICK i \in DOMAIN disks : Bytes(i)
  BY <1>0 DEF Retired
<1>2. PICK n \in DOMAIN disks : disks[n] = disk /\ \A m \in DOMAIN disks : m <= n
  BY <1>0, Now
<1>3. CASE Onward("refused")
  BY <1>0, <1>3, RefusedInv
<1>4. CASE Cardinality(waves) = 1 /\ ~Onward("refused")
  <2>1. Pass(\A w \in waves : WaveProven(call.manifest, disk.files, w), "unchanged")
    BY <1>4 DEF CheckSupportOwner
  <2>2. /\ Onward("unchanged") /\ call'.support = call.support
        /\ \A w \in waves : WaveProven(call.manifest, disk.files, w)
    <3> DEFINE c == \A w \in waves : WaveProven(call.manifest, disk.files, w)
    <3>1. Pass(c, "unchanged")
      BY <2>1
    <3> HIDE DEF c
    <3>2. c /\ Onward("unchanged") /\ call'.support = call.support
      BY <1>0, <1>4, <3>1, PassKeeps
    <3> QED BY <3>2 DEF c
  <2>3. PICK w \in waves : TRUE
    BY <1>4, OneIsSome
  <2>4. Borne(n)
    BY <1>2, <2>2, <2>3 DEF Borne, WaveOwners
  <2>5. /\ Shape' /\ Read' /\ Phase' = Phase /\ call'.pc = "unchanged"
        /\ \A m : (Bytes(m)' = Bytes(m)) /\ (Borne(m)' = Borne(m))
    BY <1>0, <2>2, OnwardShape, OnwardSame DEF Places, Onward
  <2>6. Retired'
    BY <1>0, <1>1, <1>2, <2>2, <2>4, <2>5 DEF Retired, InPass, Binding, Passing, PhaseDone, Onward
  <2> QED BY <2>5, <2>6 DEF Inv, Passed, Promised, Checked, InPass, Binding, Passing, PhaseDone
<1>5. CASE Cardinality(waves) # 1 /\ ~Onward("refused")
  <2>1. ResolveProgram(Cardinality(lives) = 1 /\ lives \subseteq Discharged(call.program), "unchanged")
    BY <1>5 DEF CheckSupportOwner
  <2>2. /\ Onward("evidence") /\ call'.support = call.support /\ ProgramSound(call.program, call.manifest)
        /\ Cardinality(lives) = 1 /\ lives \subseteq Discharged(call.program)
        /\ call'.next = "unchanged" /\ call'.seen = {}
    <3> DEFINE c == Cardinality(lives) = 1 /\ lives \subseteq Discharged(call.program)
    <3>1. ResolveProgram(c, "unchanged")
      BY <2>1
    <3> HIDE DEF c
    <3>2. /\ Onward("evidence") /\ call'.support = call.support /\ ProgramSound(call.program, call.manifest)
          /\ c /\ call'.next = "unchanged" /\ call'.seen = {}
      BY <1>0, <1>5, <3>1, ResolveKeeps
    <3> QED BY <3>2 DEF c
  <2>3. PICK o \in lives : TRUE
    BY <2>2, OneIsSome
  <2>4. o \in Stored(call.program) /\ Life(o)
    BY <2>2, <2>3, DischargedState DEF Life
  <2>5. /\ Shape' /\ Read' /\ Phase' = Phase /\ call'.pc = "evidence"
        /\ \A m : (Bytes(m)' = Bytes(m)) /\ (Life(m)' = Life(m))
    BY <1>0, <2>2, OnwardShape, OnwardSame DEF Places, InPass, Onward
  <2>6. Retired'
    BY <1>0, <1>1, <2>2, <2>4, <2>5 DEF Retired, Passing, PhaseDone, Onward
  <2>7. Passed'
    BY <2>2, <2>5 DEF Passed, Binding, Onward
  <2> QED BY <2>2, <2>5, <2>6, <2>7 DEF Inv, Promised, Checked, Passing, PhaseDone
<1> QED BY <1>3, <1>4, <1>5

LEMMA SupportInv == ASSUME Inv, CheckUnchanged \/ CheckApproval PROVE Inv'
<1>0. /\ Shape /\ Read /\ Retired /\ UNCHANGED <<disk, disks>> /\ call.pc \in {"unchanged", "approval"}
      /\ Loaded(call.pc) /\ Phase.name = "retired"
  BY DEF Inv, Retired, CheckUnchanged, CheckApproval, At, Loaded
<1>1. CASE Onward("refused")
  BY <1>0, <1>1, RefusedInv
<1>2. CASE CheckUnchanged /\ ~Onward("refused")
  <2>1. /\ Onward("approval") /\ call'.support = call.support /\ call.pc = "unchanged"
        /\ disk.files[call.support.doc.ref] = call.support.before
    BY <1>0, <1>2, PassKeeps DEF CheckUnchanged, ConfinedBytes, At
  <2>2. PICK n \in DOMAIN disks : disks[n] = disk /\ \A i \in DOMAIN disks : i <= n
    BY <1>0, Now
  <2>3. /\ Shape' /\ Read' /\ Phase' = Phase /\ call'.pc = "approval"
        /\ \A m : (Bytes(m)' = Bytes(m)) /\ (Borne(m)' = Borne(m))
    BY <1>0, <2>1, OnwardShape, OnwardSame DEF Places, Onward
  <2>4. Bytes(n)
    BY <1>0, <2>1, <2>2 DEF Retired, Bytes
  <2>5. Retired'
    BY <1>0, <2>1, <2>2, <2>3, <2>4 DEF Retired, InPass, Binding, Passing, PhaseDone, Onward
  <2> QED BY <2>3, <2>5 DEF Inv, Passed, Promised, Checked, InPass, Binding, Passing, PhaseDone
<1>3. CASE CheckApproval /\ ~Onward("refused")
  <2>1. Onward("criteria") /\ call'.support = call.support /\ call.pc = "approval" /\ call.support.doc \in disk.approved
    <3> DEFINE c == call.support.doc \in disk.approved
    <3>1. Pass(c, "criteria") /\ call.pc = "approval"
      BY <1>3 DEF CheckApproval, At
    <3> HIDE DEF c
    <3>2. c /\ Onward("criteria") /\ call'.support = call.support
      BY <1>0, <1>3, <3>1, PassKeeps
    <3> QED BY <3>1, <3>2 DEF c
  <2>2. /\ Shape' /\ Read' /\ Phase' = Phase /\ call'.pc = "criteria"
        /\ \A m : (Bytes(m)' = Bytes(m)) /\ (Borne(m)' = Borne(m))
    BY <1>0, <2>1, OnwardShape, OnwardSame DEF Places, Onward
  <2>3. Retired'
    BY <1>0, <2>1, <2>2 DEF Retired, InPass, Binding, Passing, PhaseDone, Onward
  <2> QED BY <1>0, <2>2, <2>3 DEF Inv, Passed, Promised, Promises, Checked, InPass, Binding, Passing, PhaseDone
<1> QED BY <1>1, <1>2, <1>3

LEMMA LastInv == ASSUME Inv, CheckCriterion \/ CheckQueue \/ CheckGate \/ ResolveObligations PROVE Inv'
<1>0. /\ Shape /\ Read /\ Promised /\ Retired /\ Checked /\ UNCHANGED <<disk, disks>>
      /\ call.pc \in {"criteria", "gates"} /\ Loaded(call.pc) /\ PhaseDone
  BY DEF Inv, CheckCriterion, CheckQueue, CheckGate, ResolveObligations, At, Loaded, PhaseDone
<1>1. CASE Onward("refused")
  BY <1>0, <1>1, RefusedInv
<1>2. ASSUME NEW pc, Onward(pc), call'.support = call.support, pc \in {"criteria", "gates", "evidence"},
             pc = "evidence" => call'.next = "done"
      PROVE  Shape' /\ Read' /\ Promised' /\ Retired'
  <2>1. /\ Shape' /\ Read' /\ Phase' = Phase /\ call'.pc = pc
        /\ \A m : (Bytes(m)' = Bytes(m)) /\ (Borne(m)' = Borne(m))
    BY <1>0, <1>2, OnwardShape, OnwardSame DEF Places, InPass, Onward
  <2>2. Promised'
    BY <1>0, <1>2, <2>1 DEF Promised, InPass, Binding, Passing, PhaseDone, Onward
  <2>3. Retired'
    BY <1>0, <1>2, <2>1 DEF Retired, InPass, Binding, Passing, PhaseDone, Onward
  <2> QED BY <2>1, <2>2, <2>3
<1>3. CASE CheckCriterion /\ ~Onward("refused")
  <2>1. call.pc = "criteria" /\ Onward("criteria") /\ call'.support = call.support
    BY <1>0, <1>3, LookKeeps DEF CheckCriterion, At
  <2>2. call'.pc = "criteria"
    BY <2>1 DEF Onward
  <2> QED BY <1>2, <2>1, <2>2 DEF Inv, Passed, Checked, InPass, Binding, Passing
<1>4. CASE CheckQueue /\ ~Onward("refused")
  <2>1. Onward("gates") /\ call'.support = call.support /\ LedgerValid(call.ledger, call.program) /\ call'.seen = {}
    BY <1>0, <1>4, PassKeeps DEF CheckQueue
  <2>2. call'.pc = "gates" /\ call'.ledger = call.ledger /\ call'.program = call.program
    BY <2>1 DEF Onward
  <2> QED BY <1>2, <2>1, <2>2 DEF Inv, Passed, Checked, InPass, Binding, Passing
<1>5. CASE CheckGate /\ ~Onward("refused")
  <2>1. PICK g \in Gates : Look(g, GateValid(call.ledger, disk, g)) /\ call.pc = "gates"
    BY <1>5 DEF CheckGate, At
  <2>2. Onward("gates") /\ call'.support = call.support /\ GateValid(call.ledger, disk, g) /\ call'.seen = call.seen \cup {g}
    <3> DEFINE c == GateValid(call.ledger, disk, g)
    <3>1. Look(g, c)
      BY <2>1
    <3> HIDE DEF c
    <3>2. c /\ Onward("gates") /\ call'.support = call.support /\ call'.seen = call.seen \cup {g}
      BY <1>0, <1>5, <2>1, <3>1, LookKeeps
    <3> QED BY <3>2 DEF c
  <2>3. call'.pc = "gates" /\ call'.ledger = call.ledger /\ call'.program = call.program /\ UNCHANGED <<disk, disks>>
    BY <2>2 DEF Onward
  <2>4. Checked'
    BY <1>0, <2>1, <2>2, <2>3 DEF Checked, InPass, Binding, Passing
  <2> QED BY <1>2, <2>2, <2>3, <2>4 DEF Inv, Passed, InPass, Binding
<1>6. CASE ResolveObligations /\ ~Onward("refused")
  <2>1. /\ Onward("evidence") /\ call'.support = call.support /\ ProgramSound(call.program, call.manifest)
        /\ call'.next = "done" /\ call'.seen = {} /\ call.pc = "gates" /\ call.seen = Gates
    BY <1>0, <1>6, ResolveKeeps DEF ResolveObligations, At
  <2>2. call'.pc = "evidence" /\ UNCHANGED <<disk, disks>> /\ call'.ledger = call.ledger /\ call'.program = call.program
    BY <2>1 DEF Onward
  <2>3. Checked'
    BY <1>0, <2>1, <2>2 DEF Checked, InPass, Binding, Passing
  <2>4. Passed'
    BY <2>1, <2>2 DEF Passed, Binding, Onward
  <2> QED BY <1>2, <2>1, <2>3, <2>4 DEF Inv
<1> QED BY <1>1, <1>3, <1>4, <1>5, <1>6

\* A step within the pass, or out of it to where it leads, leaves what was decided before.
LEMMA PassInv == ASSUME Inv, call.pc \in InPass, NEW pc \in InPass, Onward(pc), call'.support = call.support,
                        call'.next = call.next, call'.seen = call.seen, Passed'
                 PROVE  Inv'
<1>1. /\ Shape' /\ Read' /\ Phase' = Phase /\ call'.pc = pc
      /\ \A m : (Bytes(m)' = Bytes(m)) /\ (Borne(m)' = Borne(m)) /\ (Life(m)' = Life(m))
  BY OnwardShape, OnwardSame DEF Places, InPass, Binding, Onward, Loaded
<1>2. \A p : Passing(p)' = Passing(p)
  BY <1>1 DEF Passing
<1>3. call.pc \notin {"owner", "unchanged", "approval", "waves", "criteria", "gates", "done"}
      /\ call'.pc \notin {"owner", "unchanged", "approval", "waves", "criteria", "gates", "done"}
  BY <1>1 DEF InPass, Binding
<1>4. Promised'
  BY <1>1, <1>2, <1>3 DEF Inv, Promised, PhaseDone, Onward
<1>5. Retired'
  BY <1>1, <1>2, <1>3 DEF Inv, Retired, PhaseDone, Onward
<1>6. Checked'
  BY <1>1, <1>2, <1>3 DEF Inv, Checked, Onward
<1> QED BY <1>1, <1>4, <1>5, <1>6 DEF Inv

LEMMA EvidenceInv == ASSUME Inv, CheckEvidence PROVE Inv'
<1>0. /\ Shape /\ Read /\ Passed /\ Promised /\ Retired /\ Checked /\ UNCHANGED <<disk, disks>>
      /\ call.pc = "evidence" /\ call.pc \in InPass /\ Loaded(call.pc)
  BY DEF Inv, CheckEvidence, At, Loaded, InPass
<1>1. CASE Refuse
  BY <1>0, <1>1, RefuseKeeps, RefusedInv
<1>2. CASE ~Refuse
  <2>1. PICK o \in Stored(call.program) :
            /\ Evidenced(call.program, call.manifest, disk.files, o)
            /\ call' = [call EXCEPT !.seen = @ \cup {o},
                         !.pc = IF Adopts(call.program, o) THEN "reload" ELSE "evidence",
                         !.bind = [obl |-> o, doc |-> None]]
    BY <1>2 DEF CheckEvidence
  <2>2. /\ Onward(call'.pc) /\ call'.pc = (IF Adopts(call.program, o) THEN "reload" ELSE "evidence")
        /\ call'.support = call.support /\ call'.next = call.next /\ call'.seen = call.seen \cup {o} /\ call'.bind.obl = o
        /\ DOMAIN call'.bind = {"obl", "doc"}
    BY <1>0, <2>1 DEF Shape, Idle, Onward
  <2>3. /\ Shape' /\ Read' /\ Phase' = Phase /\ (\A x : (Shown(x)' = Shown(x)) /\ (Looked(x)' = Looked(x)))
        /\ \A m : (Bytes(m)' = Bytes(m)) /\ (Borne(m)' = Borne(m)) /\ (Life(m)' = Life(m))
    BY <1>0, <2>2, OnwardShape, OnwardSame DEF Places, InPass, Binding
  <2>4. PICK n \in DOMAIN disks : disks[n] = disk /\ \A m \in DOMAIN disks : m <= n
    BY <1>0, Now
  <2>5. Shown(o) /\ (~Adopts(call.program, o) => Looked(o))
    BY <2>1, <2>4 DEF Shown, Looked
  <2>6. /\ call'.pc \in InPass /\ call'.program = call.program /\ call'.manifest = call.manifest
        /\ call'.pc \notin {"run", "parity"} /\ (Adopts(call.program, o) => call'.pc \in Binding)
    BY <2>2 DEF InPass, Binding, Onward
  <2>7. Passed'
    <3>1. ProgramSound(call.program, call.manifest) /\ call.next \in {"criteria", "unchanged", "done"}
      BY <1>0 DEF Passed
    <3>2. ASSUME NEW x \in Stored(call'.program) \cap call'.seen
          PROVE  Shown(x)' /\ (Looked(x)' \/ (call'.pc \in Binding /\ x = call'.bind.obl))
      <4>1. CASE x = o
        BY <2>2, <2>3, <2>5, <2>6, <4>1
      <4>2. CASE x # o
        BY <1>0, <2>2, <2>3, <2>6, <4>2 DEF Passed, Binding
      <4> QED BY <4>1, <4>2
    <3> QED BY <2>2, <2>6, <3>1, <3>2 DEF Passed
  <2>8. \A p : Passing(p)' = Passing(p)
    BY <1>0, <2>2, <2>6 DEF Passing
  <2>9. call'.pc \notin {"owner", "unchanged", "approval", "waves", "criteria", "gates", "done"}
    BY <2>2
  <2>10. Promised'
    BY <1>0, <2>2, <2>3, <2>8, <2>9 DEF Promised, PhaseDone, Onward
  <2>11. Retired'
    <3>1. Passing("unchanged") => \E i \in DOMAIN disks, x \in Stored(call.program) :
            /\ Bytes(i) /\ Life(x)
            /\ x \in call'.seen => \E j \in DOMAIN disks : i <= j /\ Evidenced(call.program, call.manifest, disks[j].files, x)
      BY <1>0, <2>1, <2>2, <2>4 DEF Retired
    <3> QED BY <1>0, <2>2, <2>3, <2>6, <2>8, <2>9, <3>1 DEF Retired, PhaseDone, Onward
  <2>12. Checked'
    BY <1>0, <2>2, <2>8, <2>9 DEF Checked, Onward
  <2> QED BY <2>3, <2>7, <2>10, <2>11, <2>12 DEF Inv
<1> QED BY <1>1, <1>2

LEMMA BindInv == ASSUME Inv, ReloadReceipt \/ CheckRun \/ CheckParity PROVE Inv'
<1>0. /\ Shape /\ Read /\ Passed /\ UNCHANGED <<disk, disks>> /\ call.pc \in Binding /\ call.pc \in InPass /\ Loaded(call.pc)
  BY DEF Inv, ReloadReceipt, CheckRun, CheckParity, At, Loaded, InPass, Binding
<1> DEFINE o == call.bind.obl
           ref == EvidenceRef(call.program, call.manifest, o)
<1>1. PICK n \in DOMAIN disks : disks[n] = disk
  BY <1>0, Now DEF Binding
<1>2. CASE Refuse
  BY <1>0, <1>2, RefuseKeeps, RefusedInv
<1>3. ASSUME NEW pc \in {"run", "parity"}, Onward(pc), call'.support = call.support, call'.next = call.next,
             call'.seen = call.seen, call'.bind.obl = o, DOMAIN call'.bind = {"obl", "doc"},
             \E j \in DOMAIN disks : disks[j].files[ref] = call'.bind.doc,
             pc = "parity" => \E k \in DOMAIN disks : RunBound(disks[k].files, call'.bind.doc)
      PROVE  Inv'
  <2>1. /\ call'.pc = pc /\ call'.pc \in InPass /\ call'.pc \in Binding /\ UNCHANGED disks
        /\ call'.program = call.program /\ call'.manifest = call.manifest
        /\ \A x : (Shown(x)' = Shown(x)) /\ (Looked(x)' = Looked(x))
    BY <1>3, OnwardSame DEF Onward, InPass, Binding
  <2>2. Passed'
    BY <1>0, <1>3, <2>1 DEF Passed
  <2> QED BY <1>0, <1>3, <2>1, <2>2, PassInv
<1>4. ASSUME Onward("evidence"), call'.support = call.support, call'.next = call.next, call'.seen = call.seen, Bound(o)
      PROVE  Inv'
  <2>1. /\ call'.pc = "evidence" /\ call'.pc \in InPass /\ UNCHANGED disks
        /\ call'.program = call.program /\ call'.manifest = call.manifest
        /\ \A x : (Shown(x)' = Shown(x)) /\ (Looked(x)' = Looked(x))
    BY <1>4, OnwardSame DEF Onward, InPass
  <2>2. \A x \in Stored(call.program) \cap call.seen : Shown(x) /\ Looked(x)
    BY <1>0, <1>4 DEF Passed, Looked
  <2>3. Passed'
    BY <1>0, <1>4, <2>1, <2>2 DEF Passed, Binding
  <2> QED BY <1>0, <1>4, <2>1, <2>3, PassInv DEF InPass
<1>5. CASE ReloadReceipt /\ ~Refuse
  <2>1. call' = [call EXCEPT !.bind.doc = disk.files[ref], !.pc = IF disk.files[ref] = None THEN "evidence" ELSE "run"]
    BY <1>5 DEF ReloadReceipt
  <2>2. /\ call'.support = call.support /\ call'.next = call.next /\ call'.seen = call.seen
        /\ Onward(call'.pc) /\ call'.pc = (IF disk.files[ref] = None THEN "evidence" ELSE "run")
    BY <1>0, <2>1 DEF Shape, Idle, Onward
  <2>3. CASE disk.files[ref] = None
    <3>1. Bound(o)
      BY <1>1, <2>3 DEF Bound
    <3> QED BY <1>4, <2>2, <2>3, <3>1
  <2>4. CASE disk.files[ref] # None
    <3>1. DOMAIN call.bind = {"obl", "doc"}
      BY <1>0 DEF Passed
    <3>2. call'.bind = [call.bind EXCEPT !.doc = disk.files[ref]]
      BY <1>0, <2>1 DEF Shape, Idle
    <3>3. call'.bind.obl = o /\ call'.bind.doc = disk.files[ref] /\ DOMAIN call'.bind = {"obl", "doc"}
      BY <3>1, <3>2
    <3> QED BY <1>1, <1>3, <2>2, <2>4, <3>3
  <2> QED BY <2>3, <2>4
<1>6. CASE CheckRun /\ ~Refuse
  <2>1. call.pc = "run" /\ RunBound(disk.files, call.bind.doc) /\ call' = [call EXCEPT !.pc = "parity"]
    BY <1>6 DEF CheckRun, At
  <2>2. /\ call'.support = call.support /\ call'.next = call.next /\ call'.seen = call.seen
        /\ Onward("parity") /\ call'.bind = call.bind
    BY <1>0, <2>1 DEF Shape, Idle, Onward
  <2>3. DOMAIN call.bind = {"obl", "doc"} /\ \E j \in DOMAIN disks : disks[j].files[ref] = call.bind.doc
    BY <1>0, <2>1 DEF Passed
  <2> QED BY <1>1, <1>3, <2>1, <2>2, <2>3
<1>7. CASE CheckParity /\ ~Refuse
  <2>1. call.pc = "parity" /\ ParityBound(call.manifest, disk.files, o, call.bind.doc) /\ call' = [call EXCEPT !.pc = "evidence"]
    BY <1>7 DEF CheckParity, At
  <2>2. call'.support = call.support /\ call'.next = call.next /\ call'.seen = call.seen /\ Onward("evidence")
    BY <1>0, <2>1 DEF Shape, Idle, Onward
  <2>3. Bound(o)
    <3>1. PICK j \in DOMAIN disks : disks[j].files[ref] = call.bind.doc
      BY <1>0, <2>1 DEF Passed
    <3>2. PICK k \in DOMAIN disks : RunBound(disks[k].files, call.bind.doc)
      BY <1>0, <2>1 DEF Passed
    <3>3. /\ \E m \in DOMAIN disks : RunBound(disks[m].files, disks[j].files[ref])
          /\ \E m \in DOMAIN disks : ParityBound(call.manifest, disks[m].files, o, disks[j].files[ref])
      BY <1>1, <2>1, <3>1, <3>2
    <3> QED BY <3>1, <3>3 DEF Bound
  <2> QED BY <1>4, <2>2, <2>3
<1> QED BY <1>2, <1>5, <1>6, <1>7

LEMMA EndInv == ASSUME Inv, EndResolve PROVE Inv'
<1>0. /\ Shape /\ Read /\ Passed /\ Promised /\ Retired /\ Checked /\ UNCHANGED <<disk, disks>>
      /\ call.pc = "evidence" /\ call.pc \in InPass /\ Loaded(call.pc) /\ Stored(call.program) \subseteq call.seen
  BY DEF Inv, EndResolve, At, Loaded, InPass
<1>1. CASE Onward("refused")
  BY <1>0, <1>1, RefusedInv
<1>2. CASE ~Onward("refused")
  <2>1. Onward(call.next) /\ call'.support = call.support /\ call.next \in {"criteria", "unchanged", "done"}
    BY <1>0, <1>2, PassKeeps DEF EndResolve, Passed
  <2>2. /\ Shape' /\ Read' /\ Phase' = Phase /\ (\A x : (Shown(x)' = Shown(x)) /\ (Looked(x)' = Looked(x)))
        /\ \A m : (Bytes(m)' = Bytes(m)) /\ (Borne(m)' = Borne(m))
    BY <1>0, <2>1, OnwardShape, OnwardSame DEF Places
  <2>3. ProgramSound(call.program, call.manifest) /\ \A o \in Stored(call.program) : Looked(o)
    BY <1>0 DEF Passed, Binding
  <2>4. /\ call'.pc = call.next /\ Passing(call.next) /\ call'.ledger = call.ledger /\ call'.program = call.program
        /\ call'.manifest = call.manifest
    BY <1>0, <2>1 DEF Passing, Onward
  <2>5. call'.pc \notin InPass
    BY <2>1, <2>4 DEF InPass, Binding
  <2>6. CASE call.next = "criteria"
    <3>1. Phase.name \in Promises /\ Phase.owner /\ Reached(Phase.depth, call.program) # {}
      BY <1>0, <2>4, <2>6 DEF Promised
    <3>2. PICK o \in Reached(Phase.depth, call.program) : TRUE
      BY <3>1
    <3>3. o \in Stored(call.program) /\ o \in Obls /\ Executes(call.program[o].target.kind)
      BY <3>2, DischargedState DEF Reached, Stored
    <3>4. PICK i \in DOMAIN disks : Evidenced(call.program, call.manifest, disks[i].files, o)
      BY <2>3, <3>3 DEF Looked, Shown
    <3>5. \E f \in Files : Executed(disks[i].files[f])
      BY <1>0, <3>3, <3>4, EvidenceExecutes
    <3>6. Promised'
      BY <1>0, <2>2, <2>4, <2>5, <2>6, <3>1, <3>5 DEF Promised, Passing, PhaseDone
    <3>7. Phase.name # "retired"
      BY <3>1 DEF Promises
    <3> QED BY <2>2, <2>4, <2>5, <2>6, <3>6, <3>7 DEF Inv, Passed, Retired, Checked, InPass, Binding, Passing, PhaseDone
  <2>7. CASE call.next = "unchanged"
    <3>1. PICK i \in DOMAIN disks, o \in Stored(call.program) :
            /\ Bytes(i) /\ Life(o)
            /\ o \in call.seen => \E j \in DOMAIN disks : i <= j /\ Evidenced(call.program, call.manifest, disks[j].files, o)
      BY <1>0, <2>4, <2>7 DEF Retired
    <3>2. PICK j \in DOMAIN disks : i <= j /\ Evidenced(call.program, call.manifest, disks[j].files, o)
      BY <1>0, <3>1
    <3>3. Borne(j)
      BY <3>1, <3>2 DEF Borne, Stored
    <3>4. Retired'
      BY <1>0, <2>1, <2>2, <2>4, <2>5, <2>7, <3>1, <3>2, <3>3 DEF Retired, Passing, PhaseDone
    <3> QED BY <2>2, <2>4, <2>5, <2>7, <3>4 DEF Inv, Passed, Promised, Checked, InPass, Binding, Passing, PhaseDone
  <2>8. CASE call.next = "done"
    <3>1. PhaseDone /\ PhaseDone'
      BY <2>4, <2>8 DEF PhaseDone
    <3>2. Promised'
      BY <1>0, <2>2, <2>4, <2>5, <2>8, <3>1 DEF Promised, Passing
    <3>3. Retired'
      BY <1>0, <2>1, <2>2, <2>4, <2>5, <2>8, <3>1 DEF Retired, Passing
    <3>4. Checked'
      BY <1>0, <2>2, <2>3, <2>4, <2>5, <2>8 DEF Checked, Passing
    <3> QED BY <2>2, <2>4, <2>5, <2>8, <3>2, <3>3, <3>4 DEF Inv, Passed, InPass, Binding
  <2> QED BY <2>1, <2>6, <2>7, <2>8
<1> QED BY <1>1, <1>2

LEMMA StepInv == ASSUME Inv, [Next]_vars PROVE Inv'
<1>1. CASE Resolve
  BY <1>1, LoadInv, PhaseInv, RetirementInv, OwnerInv, SupportInv, LastInv, EvidenceInv, BindInv, EndInv DEF Resolve
<1>2. CASE Edit
  BY <1>2, EditInv
<1>3. CASE UNCHANGED vars
  <2>1. UNCHANGED <<disk, call, disks>>
    BY <1>3 DEF vars
  <2>2. Shape' /\ Read'
    BY <2>1 DEF Inv, Shape, Read
  <2>3. Passed' /\ Promised' /\ Checked'
    BY <2>1 DEF Inv, Passed, Promised, Checked, Passing, PhaseDone, Phase, Looked, Shown, Bound
  <2>4. Retired'
    BY <2>1 DEF Inv, Retired, Passing, PhaseDone, Phase, Bytes, Borne, Life
  <2> QED BY <2>2, <2>3, <2>4 DEF Inv
<1> QED BY <1>1, <1>2, <1>3 DEF Next

LEMMA InvAlways == Spec => []Inv
<1>1. Init => Inv
  BY InitInv
<1>2. Inv /\ [Next]_vars => Inv'
  BY StepInv
<1> QED BY <1>1, <1>2, PTL DEF Spec

-----------------------------------------------------------------------------
(* What a sound program and a valid ledger imply.                          *)

\* In a sound program, what a discharged obligation rests on is discharged.
LEMMA RestIsStored == ASSUME NEW program, NEW manifest, ProgramSound(program, manifest),
                             NEW o \in Discharged(program), NEW x \in RestsOn(program, o)
                      PROVE  x \in Stored(program)
<1> DEFINE S == Stored(program)
<1>1. o \in S /\ S \in SUBSET Obls
  BY DischargedState DEF Stored
<1>2. Closed(S, program)
  BY DEF Closed, ProgramSound, Consistent, Stored
<1> QED BY <1>1, <1>2 DEF RestsOn

LEMMA SetIsProven == ASSUME NEW S, S \subseteq Discharged(call.program), ProgramSound(call.program, call.manifest),
                            \A o \in Stored(call.program) : Looked(o)
                     PROVE  Proven(S)
<1> DEFINE all == UNION {RestsOn(call.program, o) : o \in S}
<1>1. \A x \in all : \E o \in Discharged(call.program) : x \in RestsOn(call.program, o)
  OBVIOUS
<1>2. \A x \in all : x \in Stored(call.program)
  BY <1>1, RestIsStored
<1> QED BY <1>2 DEF Proven, Looked, Stored

\* Every obligation has a blocker that is to discharge it.
LEMMA HasOwner == ASSUME NEW ledger, NEW program, NEW o, Queued(ledger, program, o)
                  PROVE  Owners(ledger, o) # {}
BY OneIsSome DEF Queued

\* An actionable blocker waits for nothing.
LEMMA NextIsFree == ASSUME NEW ledger, NEW program, NEW manifest, LedgerValid(ledger, program),
                           ProgramSound(program, manifest), NEW b \in Blockers \cap Actionable(ledger, program)
                    PROVE  /\ Freeze \notin OpenBlockers(ledger, program)
                           /\ \A o \in Residual(ledger, program, b) : EffectiveState(program, o) # "blocked_dependency"
<1> DEFINE open == OpenBlockers(ledger, program)
<1>1. b \in open /\ ledger.blockers[b].deps \cap open = {}
  BY DEF Actionable, Waits
<1>2. Residual(ledger, program, b) # {} /\ ledger.blockers[b].refs \subseteq Obls
  BY <1>1, LedgerAssumption DEF OpenBlockers, LedgerValid
<1>3. ASSUME NEW o \in Residual(ledger, program, b)
      PROVE  o \in Obls /\ b \in Owners(ledger, o) /\ Queued(ledger, program, o)
  BY <1>2, <1>3 DEF Residual, Owners, LedgerValid
<1>4. Freeze \notin open
  <2>1. PICK o : o \in Residual(ledger, program, b)
    BY <1>2
  <2>2. Freeze \in ledger.blockers[b].deps
    BY <1>3, <2>1 DEF Queued
  <2> QED BY <1>1, <2>2
<1>5. ASSUME NEW o \in Residual(ledger, program, b) PROVE EffectiveState(program, o) # "blocked_dependency"
  <2>1. ASSUME NEW d \in program[o].deps PROVE program[d].state = "discharged"
    <3>1. d \in Obls /\ Queued(ledger, program, d)
      BY <1>3, <2>1 DEF ProgramSound, LedgerValid
    <3>2. PICK c : c \in Owners(ledger, d)
      BY <3>1, HasOwner
    <3>3. c \in Blockers /\ d \in ledger.blockers[c].refs /\ c \in ledger.blockers[b].deps
      <4>1. Owners(ledger, d) \subseteq UNION {Owners(ledger, e) : e \in program[o].deps}
        BY <2>1
      <4> QED BY <1>3, <3>2, <4>1 DEF Queued, Owners
    <3>4. Residual(ledger, program, c) = {}
      BY <1>1, <3>3 DEF OpenBlockers
    <3> QED BY <3>3, <3>4, DischargedState DEF Residual, Stored
  <2>2. o \in Obls /\ program[o].state \in States
    BY <1>3 DEF ProgramSound
  <2> QED BY <2>1, <2>2 DEF EffectiveState, States
<1> QED BY <1>4, <1>5

\* While anything is open, something is actionable: the queue has no cycle.
LEMMA SomethingIsNext == ASSUME NEW ledger, NEW program, LedgerValid(ledger, program), OpenBlockers(ledger, program) # {}
                         PROVE  Actionable(ledger, program) # {}
<1>1. OpenBlockers(ledger, program) \in SUBSET (Blockers \cup Gates)
  BY DEF OpenBlockers
<1>2. Acyclic(Blockers \cup Gates, Waits(ledger))
  BY DEF LedgerValid
<1>3. \E n \in OpenBlockers(ledger, program) : Waits(ledger)[n] \cap OpenBlockers(ledger, program) = {}
  BY <1>1, <1>2 DEF Acyclic
<1> QED BY <1>3 DEF Actionable

-----------------------------------------------------------------------------
(* The theorems.                                                           *)

\* A criterion or blocker that is reported closed rests, at any depth of dependency, on
\* obligations that are discharged and whose evidence was there during the call, each at a
\* moment of its own, with the run and the parity receipt that an adoption binds
\* (_resolve_criterion_state, release_state.py; validate_recovery_program).
THEOREM ClosedIsProvenAlways == Spec => []ClosedIsProven
<1>1. ASSUME Inv PROVE ClosedIsProven
  <2> SUFFICES ASSUME Reported PROVE ClosedIsProven
    BY DEF ClosedIsProven
  <2>1. ProgramSound(call.program, call.manifest) /\ \A o \in Stored(call.program) : Looked(o)
    BY <1>1 DEF Inv, Checked, Reported
  <2>2. ASSUME NEW k \in Criteria, CriterionClosed(call.ledger, call.program, k) PROVE Proven(call.ledger.criteria[k].refs)
    BY <2>1, <2>2, SetIsProven DEF CriterionClosed
  <2>3. ASSUME NEW b \in Blockers \ OpenBlockers(call.ledger, call.program) PROVE Proven(call.ledger.blockers[b].refs)
    <3>1. call.ledger.blockers[b].refs \subseteq Discharged(call.program)
      BY <2>3 DEF OpenBlockers, Residual
    <3> QED BY <2>1, <3>1, SetIsProven
  <2> QED BY <2>2, <2>3 DEF ClosedIsProven
<1> QED BY <1>1, InvAlways, PTL

\* What is offered as actionable waits for nothing, and while anything is open something is
\* offered (resolve_release_state, release_state.py).
THEOREM QueueIsSoundAlways == Spec => []QueueIsSound
<1>1. ASSUME Inv PROVE QueueIsSound
  <2> SUFFICES ASSUME Reported PROVE QueueIsSound
    BY DEF QueueIsSound
  <2>1. ProgramSound(call.program, call.manifest) /\ \A o \in Stored(call.program) : Looked(o)
    BY <1>1 DEF Inv, Checked, Reported
  <2>2. LedgerValid(call.ledger, call.program)
    BY <1>1 DEF Inv, Checked, Reported
  <2> QED BY <2>1, <2>2, NextIsFree, SomethingIsNext DEF QueueIsSound
<1> QED BY <1>1, InvAlways, PTL

\* Two ledgers with one digest differ in the closures of their gates only.
LEMMA CanonicalIsInjective == ASSUME NEW L, NEW M, LedgerShaped(L), LedgerShaped(M), Canonical(L) = Canonical(M)
                              PROVE  /\ L.criteria = M.criteria /\ L.blockers = M.blockers /\ L.phase = M.phase
                                     /\ \A h \in Gates : L.gates[h].deps = M.gates[h].deps
<1>1. ASSUME NEW K, LedgerShaped(K)
      PROVE  /\ Canonical(K).criteria = K.criteria /\ Canonical(K).blockers = K.blockers /\ Canonical(K).phase = K.phase
             /\ \A h \in Gates : Canonical(K).gates[h].deps = K.gates[h].deps
  BY <1>1 DEF LedgerShaped, Canonical
<1>2. /\ Canonical(L).criteria = L.criteria /\ Canonical(L).blockers = L.blockers /\ Canonical(L).phase = L.phase
      /\ \A h \in Gates : Canonical(L).gates[h].deps = L.gates[h].deps
  BY <1>1
<1>3. /\ Canonical(M).criteria = M.criteria /\ Canonical(M).blockers = M.blockers /\ Canonical(M).phase = M.phase
      /\ \A h \in Gates : Canonical(M).gates[h].deps = M.gates[h].deps
  BY <1>1
<1> QED BY <1>2, <1>3

\* A gate that an undisturbed call reports closed freezes what its receipt was written of
\* (_global_blocker_closure_errors and _frozen_binding_errors, release_state.py).
THEOREM FreezeIsCurrentAlways == Spec => []FreezeIsCurrent
<1>1. ASSUME Inv PROVE FreezeIsCurrent
  <2> SUFFICES ASSUME Reported, Len(disks) = 1, NEW g \in Gates, call.ledger.gates[g].closure # None
               PROVE  LET then == disk.gateDocs[g].asOf IN
                      IF g = Ledger0
                      THEN /\ call.program = then.program /\ call.ledger.criteria = then.ledger.criteria
                           /\ call.ledger.blockers = then.ledger.blockers /\ call.ledger.phase = then.ledger.phase
                           /\ \A h \in Gates : call.ledger.gates[h].deps = then.ledger.gates[h].deps
                      ELSE disk.contracts = then.contracts
    BY DEF FreezeIsCurrent
  <2> DEFINE then == disk.gateDocs[g].asOf
  <2>1. GateValid(call.ledger, disk, g) /\ call.ledger = disk.ledger /\ call.program = disk.program
    BY <1>1 DEF Inv, Checked, Read, Reported
  <2>2. disk.gateDocs[g] # None /\ disk.gateDocs[g].bound = Digests(g, disk)
    BY <2>1 DEF GateValid, GateReceipt, BindingsCurrent
  <2>3. LedgerShaped(then.ledger) /\ LedgerShaped(disk.ledger) /\ Digests(g, then) = Digests(g, disk)
    BY <1>1, <2>2 DEF Inv, Shape, Shaped, ReceiptsBind
  <2> HIDE DEF then
  <2>4. CASE g = Ledger0
    <3>1. Canonical(then.ledger) = Canonical(disk.ledger) /\ then.program = disk.program
      BY <2>3, <2>4 DEF Digests
    <3> QED BY <2>1, <2>3, <2>4, <3>1, CanonicalIsInjective DEF then
  <2>5. CASE g # Ledger0
    <3>1. then.contracts = disk.contracts
      BY <2>3, <2>5 DEF Digests
    <3> QED BY <2>5, <3>1 DEF then
  <2> QED BY <2>4, <2>5
<1> QED BY <1>1, InvAlways, PTL

\* A suite that is reported as promised had a receipt of an execution at some moment of the
\* call; one reported as retired, unless the call was disturbed twice, has approved bytes that
\* bear the claim of their owner (_support_promise_evidence_errors and
\* _retirement_supporting_evidence_errors, release_state.py).
THEOREM PhaseIsBackedAlways == Spec => []PhaseIsBacked
<1>1. ASSUME Inv PROVE PhaseIsBacked
  <2> SUFFICES ASSUME Reported PROVE PhaseIsBacked
    BY DEF PhaseIsBacked
  <2>0. call.pc = "done" /\ PhaseDone /\ Loaded(call.pc)
    BY DEF Reported, PhaseDone, Loaded
  <2>1. ASSUME Phase.name \in Promises
        PROVE  Phase.owner /\ \E i \in DOMAIN disks, f \in Files : Executed(disks[i].files[f])
    BY <1>1, <2>0, <2>1 DEF Inv, Promised
  <2>2. ASSUME Phase.name = "retired", Len(disks) <= 2
        PROVE  LET doc == call.support.doc IN
               /\ doc \in disk.approved
               /\ \/ \E w \in FollowUps : call.manifest[w].file = doc.ref /\ Bears(w, call.manifest[w].claim, doc.bytes)
                  \/ \E o \in Obls \ FollowUps : call.program[o].evid = doc.ref /\ Bears(o, call.program[o].target, doc.bytes)
    <3> DEFINE doc == call.support.doc
    <3>1. doc \in disk.approved
      BY <1>1, <2>0, <2>2 DEF Inv, Retired
    <3>2. PICK j \in DOMAIN disks : Bytes(j) /\ Borne(j)
      <4>1. PICK a, b, c \in DOMAIN disks : a <= b /\ b <= c /\ Bytes(a) /\ Borne(b) /\ Bytes(c)
        BY <1>1, <2>0, <2>2 DEF Inv, Retired
      <4>2. Len(disks) \in Nat /\ DOMAIN disks = 1 .. Len(disks)
        BY <1>1, LenProperties DEF Inv, Shape
      <4>3. a \in {1, 2} /\ b \in {1, 2} /\ c \in {1, 2}
        BY <2>2, <4>2
      <4>4. b = a \/ b = c
        BY <4>1, <4>3
      <4> QED BY <4>1, <4>4
    <3>3. disks[j].files[doc.ref] = doc.bytes
      BY <3>2 DEF Bytes
    <3>4. CASE \E w \in FollowUps : call.manifest[w].file = doc.ref /\ WaveProven(call.manifest, disks[j].files, w)
      BY <3>1, <3>3, <3>4 DEF WaveProven
    <3>5. CASE \E o \in Obls : Life(o) /\ Evidenced(call.program, call.manifest, disks[j].files, o)
      <4>1. PICK o \in Obls : Life(o) /\ Evidenced(call.program, call.manifest, disks[j].files, o)
        BY <3>5
      <4>2. o \in Obls \ FollowUps /\ call.program[o].evid = doc.ref
        BY <4>1 DEF Life, LifeOwners
      <4>3. Bears(o, call.program[o].target, doc.bytes)
        BY <3>3, <4>1, <4>2 DEF Evidenced, EvidenceRef
      <4> QED BY <3>1, <4>2, <4>3
    <3> QED BY <3>2, <3>4, <3>5 DEF Borne
  <2> QED BY <2>1, <2>2 DEF PhaseIsBacked
<1> QED BY <1>1, InvAlways, PTL
=============================================================================
