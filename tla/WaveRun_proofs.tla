--------------------------- MODULE WaveRun_proofs ---------------------------
(***************************************************************************)
(* Theorems about WaveRun, for any number of runs, waves, directories and  *)
(* edits: what a reported status says of the files, and what a receipt     *)
(* that was installed had to show.                                         *)
(***************************************************************************)
EXTENDS WaveRun, TLAPS

RunFields == {"pc", "wave", "proc", "write", "full", "spec", "doc", "passed", "blocked", "skipped", "dir",
              "prior", "path", "sure", "note", "aside", "over", "status", "tag"}

Early     == {"idle", "gate"}                          \* there is no document yet
Unwritten == {"open", "prior", "thread", "flock", "write"}
Staging   == {"validate", "verify", "swap"}            \* the candidate is under the temp's name
Swapping  == {"swap", "exchanged", "vacated"}          \* commit_replacement runs
Locked    == Staging \cup Swapping \cup {"write", "confirm", "discard", "unlock"}
Recording == Unwritten \cup Locked
Places    == Early \cup Recording \cup {"done", "dead"}

Slot == Receipt \cup {None}

Shape ==
    /\ canon \in Dirs
    /\ store \in [Dirs -> [Names \cup Runs -> Slot]]
    /\ edits \in Nat
    /\ DOMAIN run = Runs
    /\ \A r \in Runs :
        /\ DOMAIN run[r] = RunFields /\ run[r].pc \in Places /\ run[r].wave \in Waves
        /\ {run[r].doc, run[r].prior, run[r].aside, run[r].over} \subseteq Slot
        /\ run[r].dir \in Dirs \cup {None}

\* What a run holds at each place of its code.
Holds(r) == LET u == run[r] IN
    /\ u.doc # None => u.doc.by = r /\ u.doc.wave = u.wave
    /\ u.pc \in Early => u.doc = None /\ ~u.path /\ u.sure /\ ~u.note /\ ~u.passed
    /\ u.pc \in Early \cup {"open"} => u.dir = None
    /\ u.doc = None => u.dir = None
    /\ u.pc \in Early \cup {"open", "prior"} => u.prior = None
    /\ u.pc \in (Early \cup Recording) \ {"vacated", "unlock"} => u.aside = None
    /\ u.pc \in (Early \cup Recording) \ {"confirm", "unlock"} => u.over = None
    /\ u.pc \in Recording => u.doc # None /\ u.write /\ u.passed /\ ~u.note
    /\ u.pc \in Recording \ {"unlock"} => ~u.path /\ u.sure
    /\ u.pc \in Recording \ {"open"} => u.dir \in Dirs /\ Owners(Path[u.wave]) = {u.wave}
    /\ u.pc \in Swapping \cup {"verify", "confirm"} => Bears(u.wave, u.spec.claim, u.doc)
    /\ u.path /\ u.doc # None => u.write /\ ~u.note /\ u.dir \in Dirs
    /\ u.path /\ u.doc = None => u.note = u.write
    /\ ~u.sure => u.doc # None
    /\ u.pc = "done" => u.status = Status(u) \/ (u.status = "not_requested" /\ u.doc = None)

\* A run whose receipt was found good, by the one wave that may write it.
Proven(r) == LET u == run[r] IN
    /\ u.pc \notin Early \cup Unwritten \cup {"validate"}
    /\ u.write /\ u.passed /\ u.doc # None
    /\ Owners(Path[u.wave]) = {u.wave} /\ Bears(u.wave, u.spec.claim, u.doc)

\* A receipt that a run made is the one it handed over, and belongs under that name ...
Fits(x, n) == x # None /\ x.by \in Runs => x = run[x.by].doc /\ Name(x.by) = n
\* ... and it got out of that run's hands only after it was found good.
Cleared(x) == x # None /\ x.by \in Runs => Proven(x.by)

Traced ==
    /\ \A d \in Dirs, n \in Names : Fits(store[d][n], n) /\ Cleared(store[d][n])
    /\ \A d \in Dirs, q \in Runs : Fits(store[d][q], Name(q)) /\ (By(store[d][q], q) \/ Cleared(store[d][q]))
    /\ \A q \in Runs : Fits(run[q].aside, Name(q)) /\ Cleared(run[q].aside) /\ Cleared(run[q].over)

\* No temporary is there before its run wrote it, and what is validated proves no more than the
\* document it was written from.
Temps == \A r \in Runs, d \in Dirs : store[d][r] # None =>
    /\ run[r].pc \notin Early \cup Unwritten
    /\ At(r, "validate") => LET x == store[d][r] IN
          x.contract = run[r].doc.contract /\ x.wave = run[r].doc.wave /\ x.shows \subseteq run[r].doc.shows

\* Past the point where the receipt may be left under its name.
Landed(u) == u.pc \in {"confirm", "dead"} \/ (u.pc \in {"unlock", "done"} /\ (~u.sure \/ u.path))

\* Until then the pinned directory shows it to others only between an exchange and its undo.
Private(r) == run[r].dir \in Dirs /\ ~Landed(run[r]) => LET d == run[r].dir IN
    /\ \A n \in Names : By(store[d][n], r) => At(r, "exchanged")
    /\ \A q \in Runs \ {r} : ~By(store[d][q], r)
    /\ \A q \in Runs : run[q].dir = d => ~By(run[q].aside, r) /\ ~By(run[q].over, r)
    /\ At(r, "exchanged") => ~By(Temp(r), r) /\ (Target(r) # None => Target(r).by \in {r, "hand"})
    /\ ~At(r, "exchanged") => (Temp(r) # None => Temp(r).by \in {r, "hand"})

\* One run at a time is at the names of a directory.
Mutex ==
    /\ DOMAIN flocked = Dirs
    /\ \A r \in Runs : run[r].pc \in Locked => flocked[run[r].dir] = r

\* Without people at the files there is one directory, a candidate is where its run put it, and
\* a confirmed receipt is somewhere.
Kept == edits = 0 => \A r \in Runs :
    /\ run[r].dir # None => run[r].dir = canon
    /\ run[r].pc \in Staging \cup {"vacated"} => Temp(r) = run[r].doc
    /\ At(r, "exchanged") => Target(r) = run[r].doc
    /\ At(r, "confirm") \/ (run[r].path /\ run[r].doc # None) => Installed(r) \/ Displaced(r) \/ HeldAside(r)

\* What the tag will rest on.
Staged == \A r \in Runs :
    run[r].pc \notin Early /\ run[r].passed /\ ~run[r].skipped /\ First[run[r].wave].claim.kind = "runtime" =>
        run[r].doc # None /\ "full" \in run[r].doc.shows

EveryHolds == \A r \in Runs : Holds(r)
EveryPrivate == \A r \in Runs : Private(r)

WaveInv == Shape /\ EveryHolds /\ Traced /\ Temps /\ EveryPrivate /\ Mutex /\ Kept /\ Staged /\ TagIsEarned

-----------------------------------------------------------------------------
(* The first state.                                                        *)

LEMMA Given ==
    /\ \A w \in Waves : Path[w] \in Names
    /\ None \notin Runs /\ None \notin Dirs /\ None \notin Receipt
    /\ "past" \notin Runs /\ "hand" \notin Runs
    /\ \A n \in Names : n \notin Runs
    /\ \E d \in Dirs : TRUE
<1> QED BY WaveAssumption

\* The receipts of earlier runs are receipts, and no run of the model made them.
LEMMA PastReceipt == ASSUME NEW n \in {Path[w] : w \in Waves} PROVE Past(n) \in Receipt /\ Past(n).by = "past"
<1>1. \E w \in Waves : Path[w] = n
  OBVIOUS
<1>2. (CHOOSE w \in Waves : Path[w] = n) \in Waves
  BY <1>1
<1> QED BY <1>2, WaveAssumption DEF Past, Receipt, Makers

LEMMA InitInv == Init => WaveInv
<1> SUFFICES ASSUME Init PROVE WaveInv
  OBVIOUS
<1> PICK call \in Calls : run = [r \in Runs |-> [NewRun EXCEPT !.wave = call[r].wave, !.proc = call[r].proc]]
  BY DEF Init
<1>0. \A r \in Runs : call[r].wave \in Waves
  BY WaveAssumption
<1>1. DOMAIN run = Runs /\ \A r \in Runs :
        /\ DOMAIN run[r] = RunFields /\ run[r].pc = "idle" /\ run[r].wave \in Waves
        /\ run[r].doc = None /\ run[r].prior = None /\ run[r].dir = None
        /\ run[r].aside = None /\ run[r].over = None
        /\ ~run[r].path /\ run[r].sure /\ ~run[r].note /\ ~run[r].passed
  BY <1>0 DEF NewRun, RunFields
<1>2. canon \in Dirs /\ edits = 0 /\ flocked = [d \in Dirs |-> None]
  BY WaveAssumption DEF Init
<1>3. PICK past \in {{}, {Path[w] : w \in Waves}} :
        store = [d \in Dirs |-> [n \in Names \cup Runs |-> IF d = canon /\ n \in past THEN Past(n) ELSE None]]
  BY DEF Init
<1>4. ASSUME NEW n \in past PROVE n \in Names /\ Past(n) \in Receipt /\ Past(n).by = "past"
  <2>1. n \in {Path[w] : w \in Waves}
    BY <1>3
  <2> QED BY <2>1, PastReceipt, Given
<1>5. /\ store \in [Dirs -> [Names \cup Runs -> Slot]]
      /\ \A d \in Dirs, n \in Names : store[d][n] # None => store[d][n].by = "past"
      /\ \A d \in Dirs, r \in Runs : store[d][r] = None
  BY <1>3, <1>4, Given DEF Slot
<1>6. Shape
  BY <1>1, <1>2, <1>5 DEF Shape, Places, Early, Slot
<1>7. EveryHolds
  BY <1>1 DEF EveryHolds, Holds, Early, Unwritten, Recording, Locked, Staging, Swapping
<1>8. Traced /\ Temps
  <2>1. \A d \in Dirs, x \in Names \cup Runs : store[d][x] # None => store[d][x].by \notin Runs
    BY <1>5, Given
  <2>2. Traced
    BY <1>1, <2>1 DEF Traced, Fits, Cleared
  <2> QED BY <1>5, <2>2 DEF Temps
<1>9. EveryPrivate /\ Mutex /\ Kept
  <2>1. EveryPrivate
    BY <1>1, Given DEF EveryPrivate, Private
  <2>2. Mutex
    BY <1>1, <1>2 DEF Mutex, Locked, Staging, Swapping
  <2>3. Kept
    BY <1>1 DEF Kept, At, Staging
  <2> QED BY <2>1, <2>2, <2>3
<1>10. Staged /\ TagIsEarned
  BY <1>1 DEF Staged, TagIsEarned, At, Early
<1> QED BY <1>6, <1>7, <1>8, <1>9, <1>10 DEF WaveInv

-----------------------------------------------------------------------------
(* Steps of one run.                                                       *)

\* Run r alone moves, to u.
Moves(r, u) ==
    /\ run' = [run EXCEPT ![r] = u] /\ UNCHANGED <<canon, edits>>
    /\ store' \in [Dirs -> [Names \cup Runs -> Slot]]
    /\ DOMAIN u = RunFields /\ u.pc \in Places \ {"dead"} /\ u.wave = run[r].wave
    /\ {u.doc, u.prior, u.aside, u.over} \subseteq Slot /\ u.dir \in Dirs \cup {None}
    /\ u.dir = run[r].dir \/ (run[r].pc = "open" /\ u.dir = canon)
    /\ run[r].pc \in Early \/ (u.doc = run[r].doc /\ u.write = run[r].write /\ u.passed = run[r].passed /\ u.spec = run[r].spec)
    \* and forward only.
    /\ u.pc \in Early \cup Unwritten => run[r].pc \in Early \cup Unwritten
    /\ u.pc \in Early \cup Unwritten \cup {"validate"} => run[r].pc \in Early \cup Unwritten \cup {"validate"}
    /\ Landed(run[r]) => Landed(u)
    /\ ~run[r].sure => ~u.sure

LEMMA Others == ASSUME Shape, NEW r \in Runs, NEW u, Moves(r, u)
                PROVE  DOMAIN run' = Runs /\ run'[r] = u /\ \A q \in Runs : q # r => run'[q] = run[q]
BY DEF Shape, Moves

LEMMA ShapeStays == ASSUME Shape, NEW r \in Runs, NEW u, Moves(r, u) PROVE Shape'
<1>0. DOMAIN run' = Runs /\ run'[r] = u /\ \A q \in Runs : q # r => run'[q] = run[q]
  BY Others
<1>1. ASSUME NEW q \in Runs
      PROVE  /\ DOMAIN run'[q] = RunFields /\ run'[q].pc \in Places /\ run'[q].wave \in Waves
             /\ {run'[q].doc, run'[q].prior, run'[q].aside, run'[q].over} \subseteq Slot
             /\ run'[q].dir \in Dirs \cup {None}
  <2>1. CASE q = r
    BY <1>0, <2>1 DEF Shape, Moves
  <2>2. CASE q # r
    BY <1>0, <2>2 DEF Shape
  <2> QED BY <2>1, <2>2
<1>2. canon' \in Dirs /\ edits' \in Nat /\ store' \in [Dirs -> [Names \cup Runs -> Slot]]
  BY DEF Shape, Moves
<1> QED BY <1>0, <1>1, <1>2 DEF Shape

LEMMA ProvenStays == ASSUME Shape, NEW r \in Runs, NEW u, Moves(r, u), NEW q \in Runs, Proven(q)
                     PROVE  /\ Proven(q)' /\ run'[q].doc = run[q].doc /\ run'[q].wave = run[q].wave
<1>0. run'[r] = u /\ (q # r => run'[q] = run[q])
  BY Others
<1>1. CASE q # r
  BY <1>0, <1>1 DEF Proven
<1>2. CASE q = r
  <2>1. /\ u.pc \notin Early \cup Unwritten \cup {"validate"} /\ run[r].pc \notin Early
        /\ u.doc = run[r].doc /\ u.wave = run[r].wave
        /\ u.write = run[r].write /\ u.passed = run[r].passed /\ u.spec = run[r].spec
    BY <1>2 DEF Proven, Moves
  <2> QED BY <1>0, <1>2, <2>1 DEF Proven
<1> QED BY <1>1, <1>2

\* What was traced stays traced.
LEMMA ClearedStays == ASSUME Shape, NEW r \in Runs, NEW u, Moves(r, u), NEW x, Cleared(x)
                      PROVE  /\ x # None /\ x.by \in Runs => Proven(x.by)'
                             /\ \A n : Fits(x, n) => (x # None /\ x.by \in Runs =>
                                    x = run'[x.by].doc /\ Path[run'[x.by].wave] = n)
BY ProvenStays DEF Cleared, Fits, Name

\* The receipts stay, but for the run's own temporary while it writes or discards it.
Local(r, u) ==
    /\ Moves(r, u) /\ u.aside = run[r].aside /\ u.over = run[r].over
    /\ run[r].pc \notin {"exchanged", "dead"} /\ u.pc \notin {"exchanged", "vacated"}
    /\ u.pc \in {"verify", "swap"} => run[r].pc \in {"validate", "verify"} /\ store' = store
    /\ u.pc = "confirm" \/ (u.path /\ u.doc # None) => run[r].pc = "confirm" \/ (run[r].path /\ run[r].doc # None)
    /\ u.pc = "validate" => run[r].pc = "write" /\ store'[u.dir][r] = u.doc
    /\ \/ store' = store
       \/ /\ run[r].pc \in {"write", "discard"} /\ run[r].dir \in Dirs
          /\ u.pc \notin Early \cup Unwritten
          /\ store'[run[r].dir][r] \in {None, u.doc}
          /\ \A d \in Dirs, x \in Names \cup Runs : x # r \/ d # run[r].dir => store'[d][x] = store[d][x]

LEMMA LocalNames == ASSUME Shape, NEW r \in Runs, NEW u, Local(r, u)
                    PROVE  /\ \A d \in Dirs, n \in Names : store'[d][n] = store[d][n]
                           /\ \A d \in Dirs, q \in Runs : q # r => store'[d][q] = store[d][q]
BY Given DEF Local

LEMMA LocalTraced == ASSUME Shape, Traced, Temps, EveryHolds, NEW r \in Runs, NEW u, Local(r, u) PROVE Traced'
<1>0. Moves(r, u) /\ run'[r] = u /\ \A q \in Runs : q # r => run'[q] = run[q]
  BY Others DEF Local
<1>w. \A q \in Runs : run'[q].wave = run[q].wave
  BY <1>0 DEF Moves
<1>1. ASSUME NEW d \in Dirs, NEW n \in Names PROVE (Fits(store[d][n], n) /\ Cleared(store[d][n]))'
  <2>1. store'[d][n] = store[d][n] /\ Fits(store[d][n], n) /\ Cleared(store[d][n])
    BY LocalNames DEF Traced
  <2> QED BY <1>0, <2>1, ClearedStays DEF Fits, Cleared, Name
<1>2. ASSUME NEW q \in Runs
      PROVE  (Fits(run[q].aside, Name(q)) /\ Cleared(run[q].aside) /\ Cleared(run[q].over))'
  <2>1. run'[q].aside = run[q].aside /\ run'[q].over = run[q].over
    BY <1>0 DEF Local
  <2>2. Fits(run[q].aside, Name(q)) /\ Cleared(run[q].aside) /\ Cleared(run[q].over)
    BY DEF Traced
  <2>3. ASSUME NEW x, Cleared(x)
        PROVE  (x # None /\ x.by \in Runs => Proven(x.by)') /\ \A n : Fits(x, n) => (x # None /\ x.by \in Runs =>
                    x = run'[x.by].doc /\ Path[run'[x.by].wave] = n)
    BY <1>0, <2>3, ClearedStays
  <2>4. Cleared(run[q].aside)' /\ Cleared(run[q].over)'
    BY <2>1, <2>2, <2>3 DEF Cleared
  <2>5. Fits(run[q].aside, Name(q))'
    BY <1>w, <2>1, <2>2, <2>3 DEF Fits, Name
  <2> QED BY <2>4, <2>5
<1>3. ASSUME NEW d \in Dirs, NEW q \in Runs
      PROVE  (Fits(store[d][q], Name(q)) /\ (By(store[d][q], q) \/ Cleared(store[d][q])))'
  <2>0. Fits(store[d][q], Name(q)) /\ (By(store[d][q], q) \/ Cleared(store[d][q]))
    BY DEF Traced
  <2>1. CASE store'[d][q] = store[d][q] /\ Cleared(store[d][q])
    <3> DEFINE x == store[d][q]
    <3>1. /\ x # None /\ x.by \in Runs => Proven(x.by)'
          /\ x # None /\ x.by \in Runs => x = run'[x.by].doc /\ Path[run'[x.by].wave] = Name(q)
      BY <1>0, <2>0, <2>1, ClearedStays
    <3>2. Cleared(store[d][q])'
      BY <2>1, <3>1 DEF Cleared
    <3>3. Fits(store[d][q], Name(q))'
      BY <1>w, <2>1, <3>1 DEF Fits, Name
    <3> QED BY <3>2, <3>3
  <2>2. CASE store'[d][q] = store[d][q] /\ By(store[d][q], q)
    <3>1. store[d][q] # None /\ store[d][q].by = q /\ run[q].pc \notin Early /\ store[d][q] = run[q].doc
      BY <2>0, <2>2 DEF By, Temps, Fits
    <3>2. run'[q].doc = run[q].doc
      BY <1>0, <3>1 DEF Moves
    <3> QED BY <1>w, <2>2, <3>1, <3>2 DEF Fits, By, Name
  <2>3. CASE store'[d][q] # store[d][q]
    <3>1. q = r /\ d = run[r].dir /\ store'[d][r] \in {None, u.doc} /\ run[r].pc \notin Early
      BY <2>3 DEF Local, Early
    <3>2. CASE store'[d][r] = None
      BY <3>1, <3>2 DEF Fits, Cleared
    <3>3. CASE store'[d][r] # None
      <4>1. store'[d][r] = u.doc /\ u.doc = run[r].doc /\ run[r].doc.by = r
        BY <3>1, <3>3 DEF Local, Moves, EveryHolds, Holds
      <4> QED BY <1>0, <3>1, <3>3, <4>1 DEF Fits, By, Name
    <3> QED BY <3>2, <3>3
  <2> QED BY <2>0, <2>1, <2>2, <2>3
<1> QED BY <1>1, <1>2, <1>3 DEF Traced

LEMMA LocalTemps == ASSUME Shape, Temps, NEW r \in Runs, NEW u, Local(r, u) PROVE Temps'
<1>0. Moves(r, u) /\ run'[r] = u /\ \A q \in Runs : q # r => run'[q] = run[q]
  BY Others DEF Local
<1> SUFFICES ASSUME NEW q \in Runs, NEW d \in Dirs, store'[d][q] # None
             PROVE  /\ run'[q].pc \notin Early \cup Unwritten
                    /\ run'[q].pc = "validate" => LET x == store'[d][q] IN
                          /\ x.contract = run'[q].doc.contract /\ x.wave = run'[q].doc.wave
                          /\ x.shows \subseteq run'[q].doc.shows
  BY DEF Temps, At
<1>1. CASE q # r
  BY <1>0, <1>1, LocalNames DEF Temps, At
<1>2. CASE q = r /\ store'[d][r] = store[d][r]
  <2>1. run[r].pc \notin Early \cup Unwritten
    BY <1>2 DEF Temps
  <2>2. u.pc \notin Early \cup Unwritten /\ u.pc # "validate"
    BY <1>0, <2>1 DEF Moves, Local, Unwritten
  <2> QED BY <1>0, <1>2, <2>2
<1>3. CASE q = r /\ store'[d][r] # store[d][r]
  <2>1. d = run[r].dir /\ store'[d][r] = u.doc /\ u.pc \notin Early \cup Unwritten
    BY <1>3 DEF Local
  <2> QED BY <1>0, <1>3, <2>1
<1> QED BY <1>1, <1>2, <1>3

LEMMA LocalPrivate == ASSUME Shape, EveryHolds, Traced, Temps, EveryPrivate, NEW r \in Runs, NEW u, Local(r, u)
                      PROVE  EveryPrivate'
<1>0. Moves(r, u) /\ run'[r] = u /\ \A q \in Runs : q # r => run'[q] = run[q]
  BY Others DEF Local
<1>n. \A q \in Runs : run'[q].wave = run[q].wave /\ run'[q].aside = run[q].aside /\ run'[q].over = run[q].over
  BY <1>0 DEF Moves, Local
<1>w. \A q \in Runs : Path[run[q].wave] \in Names
  BY Given DEF Shape
<1>t. ASSUME NEW d \in Dirs PROVE store'[d][r] # None => store'[d][r] = store[d][r] \/ store'[d][r].by = r
  <2>1. CASE store'[d][r] = store[d][r]
    BY <2>1
  <2>2. CASE store'[d][r] # store[d][r] /\ store'[d][r] # None
    <3>1. store'[d][r] = u.doc /\ run[r].pc \in {"write", "discard"}
      BY <2>2 DEF Local
    <3>2. u.doc = run[r].doc /\ run[r].doc.by = r
      BY <2>2, <3>1 DEF Local, Moves, EveryHolds, Holds, Early
    <3> QED BY <3>1, <3>2
  <2> QED BY <2>1, <2>2
<1>d. ASSUME NEW q \in Runs PROVE run'[q].dir = run[q].dir \/ (q = r /\ run[r].aside = None /\ run[r].over = None)
  <2>1. run[r].pc = "open" => run[r].aside = None /\ run[r].over = None
    BY DEF EveryHolds, Holds, Recording, Unwritten
  <2> QED BY <1>0, <2>1 DEF Moves
<1>1. ASSUME NEW q \in Runs, q # r PROVE Private(q)'
  <2> SUFFICES ASSUME run'[q].dir \in Dirs, ~Landed(run'[q])
               PROVE  LET d == run'[q].dir IN
                      /\ \A n \in Names : By(store'[d][n], q) => run'[q].pc = "exchanged"
                      /\ \A t \in Runs \ {q} : ~By(store'[d][t], q)
                      /\ \A t \in Runs : run'[t].dir = d => ~By(run'[t].aside, q) /\ ~By(run'[t].over, q)
                      /\ run'[q].pc = "exchanged" => ~By(store'[d][q], q) /\ (store'[d][Path[run'[q].wave]] # None =>
                            store'[d][Path[run'[q].wave]].by \in {q, "hand"})
                      /\ run'[q].pc # "exchanged" => (store'[d][q] # None => store'[d][q].by \in {q, "hand"})
    BY DEF Private, At, Target, Temp, Name
  <2> DEFINE d == run[q].dir
  <2>1. run'[q] = run[q] /\ d \in Dirs /\ Private(q) /\ ~Landed(run[q])
    BY <1>0, <1>1 DEF EveryPrivate
  <2>2. \A n \in Names : By(store[d][n], q) => run[q].pc = "exchanged"
    BY <2>1 DEF Private, At
  <2>3. \A t \in Runs \ {q} : ~By(store[d][t], q)
    BY <2>1 DEF Private
  <2>4. \A t \in Runs : run[t].dir = d => ~By(run[t].aside, q) /\ ~By(run[t].over, q)
    BY <2>1 DEF Private
  <2>5. /\ run[q].pc = "exchanged" => ~By(store[d][q], q) /\ (store[d][Path[run[q].wave]] # None =>
                            store[d][Path[run[q].wave]].by \in {q, "hand"})
        /\ run[q].pc # "exchanged" => (store[d][q] # None => store[d][q].by \in {q, "hand"})
    BY <2>1 DEF Private, At, Target, Temp, Name
  <2> HIDE DEF d
  <2>6. run'[q].dir = d
    BY <2>1 DEF d
  <2>7. \A t \in Runs \ {q} : ~By(store'[d][t], q)
    BY <1>1, <1>t, <2>1, <2>3, LocalNames DEF By
  <2>8. \A t \in Runs : run'[t].dir = d => ~By(run'[t].aside, q) /\ ~By(run'[t].over, q)
    BY <1>d, <1>n, <2>4 DEF By
  <2>9. (\A n \in Names : store'[d][n] = store[d][n]) /\ store'[d][q] = store[d][q]
    BY <1>1, <2>1, LocalNames
  <2> QED BY <1>w, <2>1, <2>2, <2>5, <2>6, <2>7, <2>8, <2>9
<1>2. Private(r)'
  <2> SUFFICES ASSUME u.dir \in Dirs, ~Landed(u)
               PROVE  LET d == u.dir IN
                      /\ \A n \in Names : ~By(store'[d][n], r)
                      /\ \A t \in Runs \ {r} : ~By(store'[d][t], r)
                      /\ \A t \in Runs : run'[t].dir = d => ~By(run'[t].aside, r) /\ ~By(run'[t].over, r)
                      /\ store'[d][r] # None => store'[d][r].by \in {r, "hand"}
    BY <1>0 DEF Private, At, Target, Temp, Name, Local
  <2>1. CASE u.dir = run[r].dir
    <3> DEFINE d == u.dir
    <3>1. Private(r) /\ run[r].dir = d /\ d \in Dirs /\ ~Landed(run[r]) /\ ~At(r, "exchanged")
      BY <1>0, <2>1 DEF EveryPrivate, Moves, Local, At
    <3>2. \A n \in Names : ~By(store[d][n], r)
      BY <3>1 DEF Private
    <3>3. \A t \in Runs \ {r} : ~By(store[d][t], r)
      BY <3>1 DEF Private
    <3>4. \A t \in Runs : run[t].dir = d => ~By(run[t].aside, r) /\ ~By(run[t].over, r)
      BY <3>1 DEF Private
    <3>5. store[d][r] # None => store[d][r].by \in {r, "hand"}
      BY <3>1 DEF Private, Temp
    <3>6. \A t \in Runs : run'[t].dir = run[t].dir
      BY <1>0, <2>1
    <3>7. store'[d][r] # None => store'[d][r].by \in {r, "hand"}
      BY <1>t, <3>1, <3>5
    <3> HIDE DEF d
    <3>8. \A n \in Names : store'[d][n] = store[d][n]
      BY <3>1, LocalNames
    <3>9. \A t \in Runs \ {r} : store'[d][t] = store[d][t]
      BY <3>1, LocalNames
    <3> QED BY <1>n, <3>2, <3>3, <3>4, <3>6, <3>7, <3>8, <3>9 DEF d
  <2>2. CASE u.dir # run[r].dir
    <3>1. run[r].pc = "open" /\ ~Proven(r)
      BY <1>0, <2>2 DEF Moves, Proven, Unwritten
    <3>2. \A x : Cleared(x) => ~By(x, r)
      BY <3>1 DEF Cleared, By
    <3>3. store' = store
      BY <3>1 DEF Local
    <3>4. \A d \in Dirs, n \in Names : ~By(store[d][n], r)
      BY <3>2 DEF Traced
    <3>5. \A d \in Dirs, t \in Runs \ {r} : ~By(store[d][t], r)
      BY <3>2 DEF Traced, By
    <3>6. \A t \in Runs : ~By(run[t].aside, r) /\ ~By(run[t].over, r)
      BY <3>2 DEF Traced
    <3>7. store[u.dir][r] = None
      BY <3>1 DEF Temps, Unwritten
    <3> QED BY <1>n, <3>3, <3>4, <3>5, <3>6, <3>7
  <2> QED BY <2>1, <2>2
<1> QED BY <1>1, <1>2 DEF EveryPrivate

LEMMA LocalKept == ASSUME Shape, EveryHolds, Kept, NEW r \in Runs, NEW u, Local(r, u) PROVE Kept'
<1>0. Moves(r, u) /\ run'[r] = u /\ \A q \in Runs : q # r => run'[q] = run[q]
  BY Others DEF Local
<1> SUFFICES ASSUME edits = 0, NEW q \in Runs
             PROVE  /\ run'[q].dir # None => run'[q].dir = canon
                    /\ run'[q].pc \in Staging \cup {"vacated"} => Temp(q)' = run'[q].doc
                    /\ run'[q].pc = "exchanged" => Target(q)' = run'[q].doc
                    /\ run'[q].pc = "confirm" \/ (run'[q].path /\ run'[q].doc # None) =>
                            Installed(q)' \/ Displaced(q)' \/ HeldAside(q)'
  BY <1>0 DEF Kept, At, Moves
<1>k. /\ run[q].dir # None => run[q].dir = canon
      /\ run[q].pc \in Staging \cup {"vacated"} => Temp(q) = run[q].doc
      /\ run[q].pc = "exchanged" => Target(q) = run[q].doc
      /\ run[q].pc = "confirm" \/ (run[q].path /\ run[q].doc # None) =>
              Installed(q) \/ Displaced(q) \/ HeldAside(q)
  BY DEF Kept, At
<1>h. Holds(q) /\ Holds(r) /\ canon \in Dirs
  BY DEF EveryHolds, Shape
<1>1. run'[q].dir # None => run'[q].dir = canon
  BY <1>0, <1>k DEF Moves
<1>2. run'[q].pc \in Staging \cup {"vacated"} => Temp(q)' = run'[q].doc
  <2>1. CASE q # r
    <3>1. run[q].pc \in Staging \cup {"vacated"} => run[q].dir \in Dirs
      BY <1>h DEF Holds, Recording, Locked, Staging, Swapping
    <3> QED BY <1>0, <1>k, <2>1, <3>1, LocalNames DEF Temp
  <2>2. CASE q = r
    <3>1. u.pc = "validate" => Temp(r)' = u.doc
      BY <1>0 DEF Local, Temp
    <3>2. u.pc \in {"verify", "swap"} => Temp(r)' = u.doc
      <4>1. SUFFICES ASSUME u.pc \in {"verify", "swap"} PROVE Temp(r)' = u.doc
        OBVIOUS
      <4>2. run[r].pc \in {"validate", "verify"} /\ store' = store
        BY <4>1 DEF Local
      <4>3. u.doc = run[r].doc /\ u.dir = run[r].dir /\ Temp(r) = run[r].doc
        BY <1>0, <1>k, <2>2, <4>2 DEF Moves, Early, Staging
      <4> QED BY <1>0, <4>2, <4>3 DEF Temp
    <3> QED BY <1>0, <2>2, <3>1, <3>2 DEF Staging, Local
  <2> QED BY <2>1, <2>2
<1>3. run'[q].pc = "exchanged" => Target(q)' = run'[q].doc
  <2>1. SUFFICES ASSUME run'[q].pc = "exchanged" PROVE Target(q)' = run'[q].doc
    OBVIOUS
  <2>2. q # r
    BY <1>0, <2>1 DEF Local
  <2>3. run'[q] = run[q] /\ run[q].dir \in Dirs /\ Path[run[q].wave] \in Names
    BY <1>0, <1>h, <2>1, <2>2, Given DEF Holds, Recording, Locked, Staging, Swapping, Shape
  <2> QED BY <1>k, <2>1, <2>3, LocalNames DEF Target, Name
<1>4. ASSUME run'[q].pc = "confirm" \/ (run'[q].path /\ run'[q].doc # None)
      PROVE  Installed(q)' \/ Displaced(q)' \/ HeldAside(q)'
  <2>1. run[q].pc = "confirm" \/ (run[q].path /\ run[q].doc # None)
    BY <1>0, <1>4 DEF Local
  <2>2. run'[q].doc = run[q].doc /\ run'[q].dir = run[q].dir /\ run[q].dir \in Dirs
    <3>1. run[q].dir \in Dirs /\ run[q].pc \notin Early \cup {"open"}
      BY <1>h, <2>1, Given DEF Holds, Recording, Locked, Staging, Swapping, Early
    <3> QED BY <1>0, <3>1 DEF Moves
  <2>3. CASE Installed(q)
    BY <2>2, <2>3, LocalNames DEF Installed
  <2>4. CASE Displaced(q)
    BY <1>0, <2>2, <2>4 DEF Displaced, Local
  <2>5. CASE HeldAside(q)
    <3>1. PICK t \in Runs \ {q} :
            \/ run[t].aside = run[q].doc
            \/ store[run[q].dir][t] = run[q].doc /\ (run[t].pc \in {"exchanged", "dead"} \/ ~run[t].sure)
      BY <2>5 DEF HeldAside
    <3>2. CASE run[t].aside = run[q].doc
      <4>1. run'[t].aside = run[t].aside
        BY <1>0 DEF Local
      <4> QED BY <2>2, <3>2, <4>1 DEF HeldAside
    <3>3. CASE t # r /\ store[run[q].dir][t] = run[q].doc /\ (run[t].pc \in {"exchanged", "dead"} \/ ~run[t].sure)
      <4>1. run'[t] = run[t] /\ store'[run[q].dir][t] = store[run[q].dir][t]
        BY <1>0, <2>2, <3>3, LocalNames
      <4> QED BY <2>2, <3>3, <4>1 DEF HeldAside
    <3>4. CASE t = r /\ store[run[q].dir][r] = run[q].doc /\ (run[r].pc \in {"exchanged", "dead"} \/ ~run[r].sure)
      <4>1. ~run[r].sure /\ run[r].pc \notin {"write", "discard"}
        BY <1>h, <3>4 DEF Local, Holds, Recording, Unwritten, Locked
      <4>2. store' = store /\ ~u.sure
        BY <1>0, <4>1 DEF Local, Moves
      <4> QED BY <1>0, <2>2, <3>4, <4>2 DEF HeldAside
    <3> QED BY <3>1, <3>2, <3>3, <3>4
  <2> QED BY <1>k, <2>1, <2>3, <2>4, <2>5
<1> QED BY <1>1, <1>2, <1>3, <1>4

\* What a run is shown as.
Full(u) == u.passed /\ ~u.skipped /\ First[u.wave].claim.kind = "runtime" => u.doc # None /\ "full" \in u.doc.shows

Shown(u) ==
    /\ u.tag = "RECOVERED" /\ u.spec = First[u.wave] => "full" \in u.doc.shows
    /\ u.tag \notin {"FAIL", "UNVERIFIABLE", "SPECIFIED"} => u.passed
    /\ u.spec.claim.level = "prototype" => u.tag \in {"PROTOTYPE", "FAIL", "UNVERIFIABLE", "SPECIFIED"}

LEMMA Moved == ASSUME WaveInv, NEW r \in Runs, NEW u, Moves(r, u), Holds(r)',
                      u.pc \notin Early => Full(u), u.pc = "done" => Shown(u)
               PROVE  EveryHolds' /\ Staged' /\ TagIsEarned'
<1>0. DOMAIN run' = Runs /\ run'[r] = u /\ \A q \in Runs : q # r => run'[q] = run[q]
  BY Others DEF WaveInv
<1>1. ASSUME NEW q \in Runs PROVE Holds(q)'
  <2>1. CASE q # r
    <3>1. run'[q] = run[q]
      BY <1>0, <2>1
    <3>2. Holds(q)
      BY DEF WaveInv, EveryHolds
    <3> QED BY <3>1, <3>2 DEF Holds, Status
  <2> QED BY <2>1
<1>2. Staged'
  BY <1>0 DEF WaveInv, Staged, Full
<1>3. TagIsEarned'
  BY <1>0 DEF WaveInv, TagIsEarned, Shown, At
<1> QED BY <1>1, <1>2, <1>3 DEF EveryHolds

LEMMA MutexStays == ASSUME Shape, Mutex, NEW r \in Runs, NEW u, Moves(r, u), flocked' = flocked,
                           u.pc \in Locked => run[r].pc \in Locked
                    PROVE  Mutex'
<1>0. run'[r] = u /\ \A q \in Runs : q # r => run'[q] = run[q]
  BY Others
<1>1. u.pc \in Locked => u.dir = run[r].dir /\ run[r].pc \in Locked
  BY DEF Moves, Locked, Staging, Swapping
<1> QED BY <1>0, <1>1 DEF Mutex

LEMMA LocalInv == ASSUME WaveInv, NEW r \in Runs, NEW u, Local(r, u), Mutex', Holds(r)',
                         u.pc \notin Early => Full(u), u.pc = "done" => Shown(u)
                  PROVE  WaveInv'
<1>1. /\ Shape /\ EveryHolds /\ Traced /\ Temps /\ EveryPrivate /\ Mutex /\ Kept /\ Moves(r, u)
  BY DEF WaveInv, Local
<1>2. EveryHolds' /\ Staged' /\ TagIsEarned'
  BY <1>1, Moved
<1>3. Shape' /\ Traced' /\ Temps' /\ EveryPrivate' /\ Kept'
  BY <1>1, ShapeStays, LocalTraced, LocalTemps, LocalPrivate, LocalKept
<1> QED BY <1>2, <1>3 DEF WaveInv

\* What the tag of a report says.
LEMMA TagFacts == ASSUME NEW spec, NEW blocked, NEW skipped, NEW passed
    PROVE LET tag == Tag(spec, ReportedKind(spec, blocked, skipped), passed) IN
          /\ tag = "RECOVERED" => passed /\ ~skipped /\ spec.claim.kind = "runtime"
          /\ tag \notin {"FAIL", "UNVERIFIABLE", "SPECIFIED"} => passed
          /\ spec.claim.level = "prototype" => tag \in {"PROTOTYPE", "FAIL", "UNVERIFIABLE", "SPECIFIED"}
<1> DEFINE kind == ReportedKind(spec, blocked, skipped)
           tag  == Tag(spec, kind, passed)
<1>1. kind = "verified_runtime_recovery" => ~skipped /\ spec.claim.kind = "runtime"
  BY DEF ReportedKind, Classified
<1> HIDE DEF kind
<1>2. tag = "RECOVERED" => passed /\ kind = "verified_runtime_recovery"
  BY DEF Tag, PassedTag, Verified
<1>3. tag \notin {"FAIL", "UNVERIFIABLE", "SPECIFIED"} => passed
  BY DEF Tag
<1>4. spec.claim.level = "prototype" => tag \in {"PROTOTYPE", "FAIL", "UNVERIFIABLE", "SPECIFIED"}
  <2>1. spec.claim.level = "prototype" => Prototype(spec, kind)
    BY DEF Prototype
  <2> QED BY <2>1 DEF Tag
<1> QED BY <1>1, <1>2, <1>3, <1>4 DEF kind

LEMMA ReportedShown == ASSUME NEW u, DOMAIN u = RunFields, Full(u)
    PROVE LET v == Reported(u) IN
          /\ DOMAIN v = RunFields /\ v.pc = "done" /\ v.status = Status(v) /\ Full(v) /\ Shown(v)
          /\ v.wave = u.wave /\ v.doc = u.doc /\ v.dir = u.dir /\ v.prior = u.prior /\ v.write = u.write
          /\ v.passed = u.passed /\ v.spec = u.spec /\ v.path = u.path /\ v.sure = u.sure /\ v.note = u.note
          /\ v.aside = u.aside /\ v.over = u.over
<1> DEFINE v == Reported(u)
<1>1. /\ DOMAIN v = RunFields /\ v.pc = "done" /\ v.wave = u.wave /\ v.doc = u.doc /\ v.dir = u.dir
      /\ v.prior = u.prior /\ v.write = u.write /\ v.passed = u.passed /\ v.spec = u.spec
      /\ v.path = u.path /\ v.sure = u.sure /\ v.note = u.note /\ v.blocked = u.blocked /\ v.skipped = u.skipped
      /\ v.aside = u.aside /\ v.over = u.over
      /\ v.status = Status(u) /\ v.tag = Tag(u.spec, ReportedKind(u.spec, u.blocked, u.skipped), u.passed)
  BY DEF Reported, RunFields
<1> HIDE DEF v
<1>2. v.status = Status(v)
  BY <1>1 DEF Status
<1>3. Full(v)
  BY <1>1 DEF Full
<1>4. Shown(v)
  BY <1>1, TagFacts DEF Shown, Full
<1> QED BY <1>1, <1>2, <1>3, <1>4 DEF v

-----------------------------------------------------------------------------
(* Running the gate.                                                       *)

LEMMA BeginInv == ASSUME WaveInv, NEW r \in Runs, Begin(r) PROVE WaveInv'
<1> USE DEF WaveInv
<1>1. PICK write, full \in BOOLEAN :
        LET v == [run[r] EXCEPT !.write = write, !.full = full, !.spec = manifest[run[r].wave], !.pc = "gate"]
        IN  run' = [run EXCEPT ![r] = IF Role[run[r].wave] = "none" THEN Unintegrated(v) ELSE v]
  BY DEF Begin
<1> DEFINE v == [run[r] EXCEPT !.write = write, !.full = full, !.spec = manifest[run[r].wave], !.pc = "gate"]
           u == IF Role[run[r].wave] = "none" THEN Unintegrated(v) ELSE v
<1>2. /\ run[r].pc = "idle" /\ DOMAIN run[r] = RunFields /\ run[r].wave \in Waves
      /\ run[r].doc = None /\ run[r].prior = None /\ run[r].dir = None /\ ~run[r].path /\ run[r].sure
      /\ ~run[r].note /\ ~run[r].passed /\ run[r].aside = None /\ run[r].over = None
  BY DEF Begin, At, Shape, EveryHolds, Holds, Early
<1>3. /\ DOMAIN u = RunFields /\ u.pc \in {"gate", "done"} /\ u.wave = run[r].wave /\ u.doc = None /\ u.prior = None
      /\ u.dir = None /\ ~u.path /\ u.sure /\ ~u.note /\ ~u.passed /\ u.aside = None /\ u.over = None
      /\ u.pc = "done" => u.status = "not_requested" /\ u.tag = "SPECIFIED"
  BY <1>2 DEF Unintegrated, RunFields
<1>4. run' = [run EXCEPT ![r] = u]
  BY <1>1
<1> HIDE DEF u
<1>5. Local(r, u)
  <2>1. UNCHANGED <<canon, edits, store>> /\ store' \in [Dirs -> [Names \cup Runs -> Slot]]
    BY DEF Begin, Shape
  <2>2. Moves(r, u)
    BY <1>2, <1>3, <1>4, <2>1 DEF Moves, Places, Early, Unwritten, Slot, Landed
  <2> QED BY <1>2, <1>3, <2>1, <2>2 DEF Local
<1>t. Mutex'
  BY <1>3, <1>5, MutexStays DEF Local, Begin, Locked, Staging, Swapping
<1>6. run'[r] = u
  BY <1>4 DEF Shape
<1>7. Holds(r)'
  BY <1>3, <1>6 DEF Holds, Early, Recording, Unwritten, Locked, Staging, Swapping
<1>8. (u.pc \notin Early => Full(u)) /\ (u.pc = "done" => Shown(u))
  BY <1>3 DEF Full, Shown
<1> QED BY <1>5, <1>t, <1>7, <1>8, LocalInv

\* What a gate makes of its run.
Judged(r, u) ==
    /\ DOMAIN u = RunFields /\ u.wave = run[r].wave /\ u.write = run[r].write /\ u.spec = run[r].spec
    /\ u.prior = None /\ u.dir = None /\ u.sure /\ u.aside = None /\ u.over = None
    /\ u.doc # None => u.doc \in Receipt /\ u.doc.by = r /\ u.doc.wave = u.wave
    /\ u.path \/ u.note => u.doc = None
    /\ u.path => u.note = u.write
    /\ u.passed /\ ~u.path => u.doc # None
    /\ Full(u)

LEMMA Settling == ASSUME WaveInv, NEW r \in Runs, At(r, "gate"), NEW u, Judged(r, u),
                         UNCHANGED <<canon, store, flocked, edits>>,
                         \/ run' = [run EXCEPT ![r] = Reported(u)]
                         \/ u.passed /\ u.write /\ ~u.path /\ ~u.note /\ run' = [run EXCEPT ![r] = [u EXCEPT !.pc = "open"]]
                  PROVE  WaveInv'
<1> USE DEF WaveInv
<1>1. run[r].pc = "gate" /\ DOMAIN run = Runs /\ run[r].wave \in Waves /\ run[r].prior = None
      /\ run[r].aside = None /\ run[r].over = None /\ run[r].dir = None /\ run[r].sure
  BY DEF At, Shape, EveryHolds, Holds, Early
<1>4. UNCHANGED <<canon, edits, store>> /\ store' \in [Dirs -> [Names \cup Runs -> Slot]]
  BY DEF Shape
<1>2. CASE run' = [run EXCEPT ![r] = Reported(u)]
  <2> DEFINE v == Reported(u)
  <2>1. /\ DOMAIN v = RunFields /\ v.pc = "done" /\ v.status = Status(v) /\ Full(v) /\ Shown(v)
        /\ v.wave = u.wave /\ v.doc = u.doc /\ v.dir = u.dir /\ v.prior = u.prior /\ v.write = u.write
        /\ v.passed = u.passed /\ v.spec = u.spec /\ v.path = u.path /\ v.sure = u.sure /\ v.note = u.note
        /\ v.aside = u.aside /\ v.over = u.over
    BY ReportedShown DEF Judged
  <2> HIDE DEF v
  <2>2. run' = [run EXCEPT ![r] = v] /\ run'[r] = v
    BY <1>1, <1>2 DEF v
  <2>3. Local(r, v)
    <3>1. Moves(r, v)
      <4>1. {v.doc, v.prior, v.aside, v.over} \subseteq Slot /\ v.dir = None
        BY <2>1 DEF Judged, Slot
      <4>2. v.wave = run[r].wave /\ ~Landed(run[r]) /\ run[r].dir = None
        BY <1>1, <2>1 DEF Judged, Landed
      <4> QED BY <1>1, <1>4, <2>1, <2>2, <4>1, <4>2 DEF Moves, Places, Early, Unwritten
    <3>2. v.path => v.doc = None
      BY <2>1 DEF Judged
    <3> QED BY <1>1, <1>4, <2>1, <3>1, <3>2 DEF Local, Judged
  <2>t. Mutex'
    BY <2>1, <2>3, MutexStays DEF Local, Locked, Staging, Swapping
  <2>4. Holds(r)'
    <3>1. run'[r].status = Status(run'[r])
      BY <2>1, <2>2
    <3>2. run'[r].path /\ run'[r].doc # None => run'[r].write /\ ~run'[r].note
      BY <2>1, <2>2 DEF Judged
    <3>3. (~run'[r].sure => run'[r].doc # None) /\ (run'[r].path => run'[r].note = run'[r].write)
      BY <2>1, <2>2 DEF Judged
    <3>4. /\ run'[r].pc = "done"
          /\ run'[r].doc # None => run'[r].doc.by = r /\ run'[r].doc.wave = run'[r].wave
      BY <2>1, <2>2 DEF Judged
    <3>5. (run'[r].path => run'[r].doc = None) /\ run'[r].dir = None
      BY <2>1, <2>2 DEF Judged
    <3> QED BY <3>1, <3>2, <3>3, <3>4, <3>5 DEF Holds, Early, Recording, Unwritten, Locked, Staging, Swapping
  <2> QED BY <2>1, <2>3, <2>t, <2>4, LocalInv
<1>3. CASE u.passed /\ u.write /\ ~u.path /\ ~u.note /\ run' = [run EXCEPT ![r] = [u EXCEPT !.pc = "open"]]
  <2> DEFINE v == [u EXCEPT !.pc = "open"]
  <2>1. /\ DOMAIN v = RunFields /\ v.pc = "open"
        /\ v.wave = u.wave /\ v.doc = u.doc /\ v.dir = u.dir /\ v.prior = u.prior /\ v.write = u.write
        /\ v.passed = u.passed /\ v.spec = u.spec /\ v.path = u.path /\ v.sure = u.sure /\ v.note = u.note
        /\ v.skipped = u.skipped /\ v.aside = u.aside /\ v.over = u.over
    BY DEF Judged, RunFields
  <2> HIDE DEF v
  <2>2. run' = [run EXCEPT ![r] = v] /\ run'[r] = v
    BY <1>1, <1>3 DEF v
  <2>3. Local(r, v)
    <3>1. Moves(r, v)
      <4>1. {v.doc, v.prior, v.aside, v.over} \subseteq Slot /\ v.dir = None
        BY <2>1 DEF Judged, Slot
      <4>2. v.wave = run[r].wave /\ ~Landed(run[r]) /\ run[r].dir = None
        BY <1>1, <2>1 DEF Judged, Landed
      <4> QED BY <1>1, <1>4, <2>1, <2>2, <4>1, <4>2 DEF Moves, Places, Early, Unwritten, Recording
    <3> QED BY <1>1, <1>3, <1>4, <2>1, <3>1 DEF Local, Judged
  <2>t. Mutex'
    BY <2>1, <2>3, MutexStays DEF Local, Locked, Staging, Swapping
  <2>4. Holds(r)'
    BY <1>3, <2>1, <2>2 DEF Holds, Judged, Early, Recording, Unwritten, Locked, Staging, Swapping
  <2>5. Full(v)
    BY <2>1 DEF Judged, Full
  <2> QED BY <2>1, <2>3, <2>t, <2>4, <2>5, LocalInv
<1> QED BY <1>2, <1>3

LEMMA MadeReceipt == ASSUME NEW r \in Runs, run[r].wave \in Waves, NEW c \in Contracts, NEW shows \in SUBSET Facts
                     PROVE  /\ Made(r, c, shows) \in Receipt /\ Made(r, c, shows) # None
                            /\ Made(r, c, shows).by = r /\ Made(r, c, shows).wave = run[r].wave
                            /\ Made(r, c, shows).shows = shows
BY WaveAssumption DEF Made, Receipt, Makers

\* What a run is when its gate starts.
LEMMA AtGate == ASSUME WaveInv, NEW r \in Runs, At(r, "gate")
                PROVE  /\ DOMAIN run[r] = RunFields /\ run[r].wave \in Waves /\ run[r].doc = None /\ run[r].prior = None
                       /\ run[r].dir = None /\ ~run[r].path /\ run[r].sure /\ ~run[r].note /\ ~run[r].passed
                       /\ run[r].aside = None /\ run[r].over = None
BY DEF WaveInv, EveryHolds, Shape, Holds, At, Early

LEMMA PassingJudged == ASSUME WaveInv, NEW r \in Runs, At(r, "gate"), NEW c \in Contracts, NEW shows \in SUBSET Facts,
                              "full" \in shows \/ First[run[r].wave].claim.kind # "runtime"
                       PROVE  LET u == Passing(r, c, shows) IN Judged(r, u) /\ ~u.path /\ ~u.note
<1> DEFINE m == Made(r, c, shows)
           u == Passing(r, c, shows)
<1>1. m \in Receipt /\ m # None /\ m.by = r /\ m.wave = run[r].wave /\ m.shows = shows
  BY MadeReceipt, AtGate
<1> HIDE DEF m
<1>2. /\ DOMAIN u = RunFields /\ u.wave = run[r].wave /\ u.write = run[r].write /\ u.spec = run[r].spec /\ u.doc = m
      /\ u.prior = run[r].prior /\ u.dir = run[r].dir /\ u.sure = run[r].sure /\ u.passed
      /\ u.path = run[r].path /\ u.note = run[r].note
      /\ u.aside = run[r].aside /\ u.over = run[r].over
  BY AtGate DEF Passing, RunFields, m
<1> HIDE DEF u
<1>3. Full(u)
  BY <1>1, <1>2 DEF Full
<1> QED BY <1>1, <1>2, <1>3, AtGate DEF Judged, u

LEMMA FailingJudged == ASSUME WaveInv, NEW r \in Runs, At(r, "gate"), NEW shows \in SUBSET Facts,
                              NEW blocked, NEW skipped,
                              NEW u, u = [Failing(r) EXCEPT !.doc = Made(r, "analysis", shows), !.blocked = blocked, !.skipped = skipped]
                       PROVE  Judged(r, u) /\ ~u.path /\ ~u.note /\ ~u.passed
<1> DEFINE m == Made(r, "analysis", shows)
<1>1. m \in Receipt /\ m # None /\ m.by = r /\ m.wave = run[r].wave /\ m.shows = shows
  BY MadeReceipt, AtGate DEF Contracts
<1> HIDE DEF m
<1>2. /\ DOMAIN u = RunFields /\ u.wave = run[r].wave /\ u.write = run[r].write /\ u.spec = run[r].spec /\ u.doc = m
      /\ u.prior = run[r].prior /\ u.dir = run[r].dir /\ u.sure = run[r].sure /\ ~u.passed
      /\ u.path = run[r].path /\ u.note = run[r].note
      /\ u.aside = run[r].aside /\ u.over = run[r].over
  BY AtGate DEF Failing, RunFields, m
<1>3. Full(u)
  BY <1>1, <1>2 DEF Full
<1> QED BY <1>1, <1>2, <1>3, AtGate DEF Judged

LEMMA SettledInv == ASSUME WaveInv, NEW r \in Runs, At(r, "gate"), NEW u, Judged(r, u), ~u.path, ~u.note,
                           UNCHANGED <<canon, store, flocked, edits>>, run' = [run EXCEPT ![r] = Settled(u)]
                    PROVE  WaveInv'
BY Settling DEF Settled

LEMMA PlainInv == ASSUME WaveInv, NEW r \in Runs, At(r, "gate"), PlainGate(r), UNCHANGED <<canon, store, flocked, edits>> PROVE WaveInv'
<1>1. PICK ok \in BOOLEAN, c \in {"analysis", "source"} :
        run' = [run EXCEPT ![r] = Settled(IF ok THEN Passing(r, c, {"basis", "clean", "invoked", "full"}) ELSE Failing(r))]
  BY DEF PlainGate
<1>2. CASE ok
  <2>1. c \in Contracts /\ {"basis", "clean", "invoked", "full"} \in SUBSET Facts
    BY DEF Contracts, Facts
  <2>2. LET u == Passing(r, c, {"basis", "clean", "invoked", "full"}) IN Judged(r, u) /\ ~u.path /\ ~u.note
    BY <2>1, PassingJudged
  <2>3. run' = [run EXCEPT ![r] = Settled(Passing(r, c, {"basis", "clean", "invoked", "full"}))]
    BY <1>1, <1>2
  <2> QED BY <2>2, <2>3, SettledInv
<1>3. CASE ~ok
  <2> DEFINE u == Failing(r)
  <2>1. u = [Failing(r) EXCEPT !.doc = Made(r, "analysis", {}), !.blocked = run[r].blocked, !.skipped = run[r].skipped]
    BY AtGate DEF Failing, RunFields
  <2>2. run' = [run EXCEPT ![r] = Settled(u)]
    BY <1>1, <1>3
  <2> HIDE DEF u
  <2>3. Judged(r, u) /\ ~u.path /\ ~u.note
    BY <2>1, FailingJudged
  <2> QED BY <2>2, <2>3, SettledInv
<1> QED BY <1>2, <1>3

LEMMA FailedInv == ASSUME WaveInv, NEW r \in Runs, At(r, "gate"), NEW shows \in SUBSET Facts, UNCHANGED <<canon, store, flocked, edits>>,
                          run' = [run EXCEPT ![r] = Settled([Failing(r) EXCEPT !.doc = Made(r, "analysis", shows)])]
                   PROVE  WaveInv'
<1> DEFINE u == [Failing(r) EXCEPT !.doc = Made(r, "analysis", shows)]
<1>1. u = [Failing(r) EXCEPT !.doc = Made(r, "analysis", shows), !.blocked = run[r].blocked, !.skipped = run[r].skipped]
  BY AtGate DEF Failing, RunFields
<1>2. run' = [run EXCEPT ![r] = Settled(u)]
  OBVIOUS
<1> HIDE DEF u
<1>3. Judged(r, u) /\ ~u.path /\ ~u.note
  BY <1>1, FailingJudged
<1> QED BY <1>2, <1>3, SettledInv

LEMMA PassedInv == ASSUME WaveInv, NEW r \in Runs, At(r, "gate"), NEW shows \in SUBSET Facts, UNCHANGED <<canon, store, flocked, edits>>,
                          First[run[r].wave].claim.kind = "analysis",
                          run' = [run EXCEPT ![r] = Settled(Passing(r, "analysis", shows))]
                   PROVE  WaveInv'
<1>1. LET u == Passing(r, "analysis", shows) IN Judged(r, u) /\ ~u.path /\ ~u.note
  BY PassingJudged DEF Contracts
<1> QED BY <1>1, SettledInv

\* The waves that were written for an analysis.
LEMMA AnalysisInv == ASSUME WaveInv, NEW r \in Runs, At(r, "gate"), UNCHANGED <<canon, store, flocked, edits>>,
                            PackageGate(r) \/ ConsumerGate(r) \/ ClaimsGate(r)
                     PROVE  WaveInv'
<1>1. First[run[r].wave].claim.kind = "analysis"
  BY AtGate, WaveAssumption DEF PackageGate, ConsumerGate, ClaimsGate
<1>2. PICK shows \in SUBSET Facts, left \in SUBSET Facts :
        \/ run' = [run EXCEPT ![r] = Settled(Passing(r, "analysis", shows))]
        \/ run' = [run EXCEPT ![r] = Settled([Failing(r) EXCEPT !.doc = Made(r, "analysis", left)])]
  <2>1. CASE PackageGate(r)
    <3>1. PICK ok \in BOOLEAN :
            LET proof == IF published = "nothing" THEN {"basis"} ELSE {"basis", "clean", "invoked"}
            IN  run' = [run EXCEPT ![r] = Settled(IF ok THEN Passing(r, "analysis", proof) ELSE Failing(r))]
      BY <2>1 DEF PackageGate
    <3>2. Failing(r) = [Failing(r) EXCEPT !.doc = Made(r, "analysis", {})]
      BY AtGate DEF Failing, RunFields
    <3>3. {"basis"} \in SUBSET Facts /\ {"basis", "clean", "invoked"} \in SUBSET Facts /\ {} \in SUBSET Facts
      BY DEF Facts
    <3> QED BY <3>1, <3>2, <3>3
  <2>2. CASE ConsumerGate(r) \/ ClaimsGate(r)
    <3>1. PICK good : run' = [run EXCEPT ![r] = Settled(IF good
            THEN Passing(r, "analysis", {"basis", "clean"})
            ELSE [Failing(r) EXCEPT !.doc = Made(r, "analysis", {"basis"})])]
      BY <2>2 DEF ConsumerGate, ClaimsGate
    <3>2. {"basis"} \in SUBSET Facts /\ {"basis", "clean"} \in SUBSET Facts
      BY DEF Facts
    <3> QED BY <3>1, <3>2
  <2> QED BY <2>1, <2>2
<1>3. CASE run' = [run EXCEPT ![r] = Settled(Passing(r, "analysis", shows))]
  BY <1>1, <1>3, PassedInv
<1>4. CASE run' = [run EXCEPT ![r] = Settled([Failing(r) EXCEPT !.doc = Made(r, "analysis", left)])]
  BY <1>4, FailedInv
<1> QED BY <1>2, <1>3, <1>4

LEMMA DepthInv == ASSUME WaveInv, NEW r \in Runs, At(r, "gate"), DepthGate(r), UNCHANGED <<canon, store, flocked, edits>> PROVE WaveInv'
<1>1. CASE run[r].write /\ ~run[r].full
  <2>1. run' = [run EXCEPT ![r] = Reported(run[r])]
    BY <1>1 DEF DepthGate, WaveInv, Shape
  <2>2. Judged(r, run[r])
    BY AtGate DEF Judged, Full
  <2> QED BY <2>1, <2>2, Settling
<1>2. CASE ~(run[r].write /\ ~run[r].full)
  <2> DEFINE proof == {"clean", "invoked"} \cup (IF run[r].full THEN {"full"} ELSE {})
  <2>0. proof \in SUBSET Facts /\ {} \in SUBSET Facts
    BY DEF Facts
  <2>1. PICK result \in {"pass", "fail", "env"} : run' = [run EXCEPT ![r] = Settled(IF result = "pass"
            THEN [Passing(r, "wcag", proof) EXCEPT !.skipped = ~run[r].full]
            ELSE [Failing(r) EXCEPT !.blocked = (result = "env"), !.skipped = ~run[r].full])]
    BY <1>2 DEF DepthGate
  <2>2. CASE result = "pass"
    <3> DEFINE m == Made(r, "wcag", proof)
               u == [Passing(r, "wcag", proof) EXCEPT !.skipped = ~run[r].full]
    <3>1. run' = [run EXCEPT ![r] = Settled(u)]
      BY <2>1, <2>2
    <3>2. m \in Receipt /\ m # None /\ m.by = r /\ m.wave = run[r].wave /\ m.shows = proof
      BY MadeReceipt, AtGate, <2>0 DEF Contracts
    <3> HIDE DEF m
    <3>3. /\ DOMAIN u = RunFields /\ u.wave = run[r].wave /\ u.write = run[r].write /\ u.spec = run[r].spec /\ u.doc = m
          /\ u.prior = run[r].prior /\ u.dir = run[r].dir /\ u.sure = run[r].sure /\ u.passed
          /\ u.path = run[r].path /\ u.note = run[r].note
          /\ u.aside = run[r].aside /\ u.over = run[r].over /\ u.skipped = ~run[r].full
      BY AtGate DEF Passing, RunFields, m
    <3> HIDE DEF u
    <3>4. Full(u)
      BY <3>2, <3>3 DEF Full
    <3>5. Judged(r, u) /\ ~u.path /\ ~u.note
      BY <3>2, <3>3, <3>4, AtGate DEF Judged
    <3> QED BY <3>1, <3>5, SettledInv
  <2>3. CASE result # "pass"
    <3> DEFINE u == [Failing(r) EXCEPT !.blocked = (result = "env"), !.skipped = ~run[r].full]
    <3>1. run' = [run EXCEPT ![r] = Settled(u)]
      BY <2>1, <2>3
    <3>2. u = [Failing(r) EXCEPT !.doc = Made(r, "analysis", {}), !.blocked = (result = "env"), !.skipped = ~run[r].full]
      BY AtGate DEF Failing, RunFields
    <3> HIDE DEF u
    <3>3. Judged(r, u) /\ ~u.path /\ ~u.note
      BY <3>2, <2>0, FailingJudged
    <3> QED BY <3>1, <3>3, SettledInv
  <2> QED BY <2>2, <2>3
<1> QED BY <1>1, <1>2

LEMMA ProseInv == ASSUME WaveInv, NEW r \in Runs, At(r, "gate"), ProseGate(r), UNCHANGED <<canon, store, flocked, edits>> PROVE WaveInv'
<1>1. First[run[r].wave].claim.kind = "analysis"
  BY AtGate, WaveAssumption DEF ProseGate
<1>2. PICK valid : run' = [run EXCEPT ![r] = Reported([run[r] EXCEPT !.passed = valid, !.path = valid, !.note = run[r].write])]
  BY DEF ProseGate, WaveInv, Shape
<1> DEFINE u == [run[r] EXCEPT !.passed = valid, !.path = valid, !.note = run[r].write]
<1>3. /\ DOMAIN u = RunFields /\ u.wave = run[r].wave /\ u.write = run[r].write /\ u.spec = run[r].spec /\ u.doc = None
      /\ u.prior = None /\ u.dir = None /\ u.sure /\ u.passed = u.path /\ u.note = u.write
      /\ u.aside = None /\ u.over = None
  BY AtGate DEF RunFields
<1>4. run' = [run EXCEPT ![r] = Reported(u)]
  BY <1>2
<1> HIDE DEF u
<1>5. Judged(r, u)
  BY <1>1, <1>3 DEF Judged, Full
<1> QED BY <1>4, <1>5, Settling

LEMMA GateInv == ASSUME WaveInv, NEW r \in Runs, Gate(r) PROVE WaveInv'
BY PlainInv, DepthInv, ProseInv, AnalysisInv DEF Gate

-----------------------------------------------------------------------------
(* Recording.                                                              *)

\* What a run is while it records.
LEMMA AtRecording == ASSUME WaveInv, NEW r \in Runs, run[r].pc \in Recording
                     PROVE  /\ DOMAIN run[r] = RunFields /\ run[r].wave \in Waves /\ run[r].doc \in Receipt
                            /\ run[r].doc # None /\ run[r].doc.by = r /\ run[r].doc.wave = run[r].wave
                            /\ run[r].write /\ run[r].passed /\ ~run[r].note /\ Full(run[r])
                            /\ {run[r].prior, run[r].aside, run[r].over} \subseteq Slot
                            /\ run[r].dir \in Dirs \cup {None} /\ Path[run[r].wave] \in Names
<1> USE DEF WaveInv
<1>1. Holds(r) /\ DOMAIN run[r] = RunFields /\ run[r].wave \in Waves
      /\ {run[r].doc, run[r].prior, run[r].aside, run[r].over} \subseteq Slot /\ run[r].dir \in Dirs \cup {None}
  BY DEF EveryHolds, Shape
<1>2. /\ run[r].doc # None /\ run[r].doc.by = r /\ run[r].doc.wave = run[r].wave
      /\ run[r].write /\ run[r].passed /\ ~run[r].note
  BY <1>1 DEF Holds
<1>3. Full(run[r])
  BY <1>2 DEF Staged, Full, Recording, Unwritten, Early, Locked, Staging, Swapping
<1> QED BY <1>1, <1>2, <1>3, Given DEF Slot

LEMMA AtPlace == ASSUME WaveInv, NEW r \in Runs, run[r].pc \in Recording \ {"open"}
                 PROVE  /\ run[r].dir \in Dirs /\ Owners(Path[run[r].wave]) = {run[r].wave}
                        /\ run[r].pc # "unlock" => ~run[r].path /\ run[r].sure
                        /\ run[r].pc \notin {"vacated", "unlock"} => run[r].aside = None
                        /\ run[r].pc \notin {"confirm", "unlock"} => run[r].over = None
                        /\ run[r].pc \in Swapping \cup {"verify", "confirm"} =>
                                Bears(run[r].wave, run[r].spec.claim, run[r].doc)
BY DEF WaveInv, EveryHolds, Holds

\* A run goes on recording, with the document and the directory it has.
Carries(r, v) ==
    /\ DOMAIN v = RunFields /\ v.dir = run[r].dir /\ v.wave = run[r].wave /\ v.doc = run[r].doc
    /\ v.write = run[r].write /\ v.passed = run[r].passed /\ v.spec = run[r].spec
    /\ v.note = run[r].note /\ v.skipped = run[r].skipped
    /\ {v.prior, v.aside, v.over} \subseteq Slot
    /\ v.pc \in Recording \ {"open", "prior"} /\ (v.pc # "unlock" => ~v.path /\ v.sure)
    /\ v.pc \notin {"vacated", "unlock"} => v.aside = None
    /\ v.pc \notin {"confirm", "unlock"} => v.over = None
    /\ v.pc \in Swapping \cup {"verify", "confirm"} => Bears(v.wave, v.spec.claim, v.doc)

LEMMA CarriedHolds == ASSUME WaveInv, NEW r \in Runs, run[r].pc \in Recording \ {"open"}, NEW v, Carries(r, v),
                             run' = [run EXCEPT ![r] = v]
                      PROVE  Holds(r)' /\ Full(v)
<1>1. run'[r] = v
  BY DEF WaveInv, Shape
<1>2. /\ v.doc # None /\ v.doc.by = r /\ v.doc.wave = v.wave /\ v.write /\ v.passed /\ ~v.note
      /\ v.dir \in Dirs /\ Owners(Path[v.wave]) = {v.wave} /\ Full(v)
  BY AtRecording, AtPlace DEF Carries, Full
<1>3. /\ v.pc \in Recording \ {"open", "prior"} /\ (v.pc # "unlock" => ~v.path /\ v.sure)
      /\ v.pc \notin {"vacated", "unlock"} => v.aside = None
      /\ v.pc \notin {"confirm", "unlock"} => v.over = None
      /\ v.pc \in Swapping \cup {"verify", "confirm"} => Bears(v.wave, v.spec.claim, v.doc)
  BY DEF Carries
<1>4. Holds(r)'
  BY <1>1, <1>2, <1>3 DEF Holds, Recording, Unwritten, Early, Locked, Staging, Swapping
<1> QED BY <1>2, <1>4

LEMMA CarriedMoves == ASSUME WaveInv, NEW r \in Runs, run[r].pc \in Recording \ {"open", "unlock"}, NEW v, Carries(r, v),
                             run' = [run EXCEPT ![r] = v], UNCHANGED <<canon, edits>>,
                             store' \in [Dirs -> [Names \cup Runs -> Slot]],
                             v.pc \in Unwritten => run[r].pc \in Unwritten,
                             v.pc = "validate" => run[r].pc = "write",
                             run[r].pc = "confirm" => Landed(v)
                      PROVE  Moves(r, v)
<1>1. v.pc \in Places \ {"dead"} /\ v.pc \notin Early /\ run[r].pc \notin Early /\ run[r].sure
  BY AtPlace DEF Carries, Places, Recording, Unwritten, Early, Locked, Staging, Swapping
<1>2. {v.doc, v.prior, v.aside, v.over} \subseteq Slot /\ v.dir \in Dirs \cup {None}
  BY AtRecording DEF Carries, Slot
<1>3. Landed(run[r]) => Landed(v)
  BY DEF Landed, Recording, Unwritten, Locked, Staging, Swapping
<1> QED BY <1>1, <1>2, <1>3 DEF Moves, Carries, Unwritten

\* ... and no receipt changes.
LEMMA Along == ASSUME WaveInv, NEW r \in Runs, run[r].pc \in Recording \ {"open", "exchanged", "unlock"},
                      NEW v, Carries(r, v), run' = [run EXCEPT ![r] = v], UNCHANGED <<canon, edits, store>>, Mutex',
                      v.aside = run[r].aside, v.over = run[r].over,
                      v.pc \notin {"validate", "exchanged", "vacated", "confirm"},
                      v.pc \in Unwritten => run[r].pc \in Unwritten,
                      v.pc \in {"verify", "swap"} => run[r].pc \in {"validate", "verify"},
                      v.path => run[r].pc = "confirm", run[r].pc = "confirm" => Landed(v)
               PROVE  WaveInv'
<1>1. store' \in [Dirs -> [Names \cup Runs -> Slot]]
  BY DEF WaveInv, Shape
<1>2. Moves(r, v)
  BY <1>1, CarriedMoves
<1>3. Local(r, v)
  BY <1>2 DEF Local, Recording, Unwritten, Locked, Staging, Swapping
<1>4. Holds(r)' /\ Full(v) /\ v.pc # "done"
  BY CarriedHolds DEF Carries, Recording, Unwritten, Locked, Staging, Swapping
<1> QED BY <1>3, <1>4, LocalInv

\* The run r with other values where it is and of what it has.
Going(r, pc, prior, path, sure, aside, over) ==
    [run[r] EXCEPT !.pc = pc, !.prior = prior, !.path = path, !.sure = sure, !.aside = aside, !.over = over]


LEMMA PcOnly == ASSUME WaveInv, NEW r \in Runs, run[r].pc \in Recording, NEW pc
                PROVE  [run EXCEPT ![r].pc = pc] =
                       [run EXCEPT ![r] = Going(r, pc, run[r].prior, run[r].path, run[r].sure, run[r].aside, run[r].over)]
<1>1. DOMAIN run[r] = RunFields
  BY AtRecording
<1>2. [run[r] EXCEPT !.pc = pc] = Going(r, pc, run[r].prior, run[r].path, run[r].sure, run[r].aside, run[r].over)
  BY <1>1 DEF Going, RunFields
<1> QED BY <1>2

\* Only the place changes, and no receipt.
LEMMA PcInv == ASSUME WaveInv, NEW r \in Runs, run[r].pc \in Recording \ {"open", "exchanged", "confirm", "unlock"},
                      NEW pc \in Recording \ {"open", "prior", "validate", "exchanged", "vacated", "confirm"},
                      run' = [run EXCEPT ![r].pc = pc], UNCHANGED <<canon, edits, store>>,
                      run[r].pc = "vacated" => pc = "unlock",
                      pc \in Unwritten => run[r].pc \in Unwritten,
                      pc \in {"verify", "swap"} => run[r].pc \in {"validate", "verify"}
                                                   /\ Bears(run[r].wave, run[r].spec.claim, run[r].doc),
                      (flocked' = flocked /\ (pc \in Locked => run[r].pc \in Locked)) \/ Mutex'
               PROVE  WaveInv'
<1> DEFINE v == Going(r, pc, run[r].prior, run[r].path, run[r].sure, run[r].aside, run[r].over)
<1>1. {run[r].prior, run[r].aside, run[r].over} \subseteq Slot /\ ~run[r].path /\ run[r].sure
      /\ (run[r].pc # "vacated" => run[r].aside = None) /\ run[r].over = None
  BY AtRecording, AtPlace
<1>2. Carries(r, v) /\ v.pc = pc /\ v.path = run[r].path /\ v.aside = run[r].aside /\ v.over = run[r].over
  <2>1. run[r].prior \in Slot /\ run[r].aside \in Slot /\ run[r].over \in Slot
    BY <1>1
  <2>2. pc \in Swapping \cup {"verify", "confirm"} => Bears(run[r].wave, run[r].spec.claim, run[r].doc)
    BY DEF Swapping
  <2>3. pc \in Recording \ {"open", "prior"} /\ run[r].pc \in Recording \ {"open"}
    OBVIOUS
  <2>5. /\ DOMAIN v = RunFields /\ v.pc = pc /\ v.prior = run[r].prior /\ v.path = run[r].path /\ v.sure = run[r].sure
        /\ v.aside = run[r].aside /\ v.over = run[r].over
        /\ v.dir = run[r].dir /\ v.wave = run[r].wave /\ v.doc = run[r].doc
        /\ v.write = run[r].write /\ v.passed = run[r].passed /\ v.spec = run[r].spec
        /\ v.note = run[r].note /\ v.skipped = run[r].skipped
    <3>1. DOMAIN run[r] = RunFields
      BY AtRecording
    <3> QED BY <3>1 DEF Going, RunFields
  <2> HIDE DEF v
  <2>6. {v.prior, v.aside, v.over} \subseteq Slot /\ ~v.path /\ v.sure
    BY <1>1, <2>5
  <2>7. (pc \notin {"vacated", "unlock"} => v.aside = None) /\ (pc \notin {"confirm", "unlock"} => v.over = None)
    BY <1>1, <2>5
  <2> QED BY <2>2, <2>3, <2>5, <2>6, <2>7 DEF Carries
<1>3. run' = [run EXCEPT ![r] = v]
  BY PcOnly, Zenon DEF Recording
<1> HIDE DEF v
<1>4. Mutex'
  <2>1. CASE flocked' = flocked /\ (pc \in Locked => run[r].pc \in Locked)
    <3>1. store' \in [Dirs -> [Names \cup Runs -> Slot]]
      BY DEF WaveInv, Shape
    <3>2. Moves(r, v)
      BY <1>2, <1>3, <3>1, CarriedMoves
    <3> QED BY <1>2, <2>1, <3>2, MutexStays DEF WaveInv
  <2> QED BY <2>1
<1> QED BY <1>1, <1>2, <1>3, <1>4, Along

LEMMA OpenInv == ASSUME WaveInv, NEW r \in Runs, Open(r) PROVE WaveInv'
<1>1. run[r].pc = "open" /\ run[r].pc \in Recording /\ DOMAIN run = Runs /\ canon \in Dirs
  BY DEF Open, At, Recording, Unwritten, WaveInv, Shape
<1>2. run[r].dir = None /\ run[r].prior = None /\ ~run[r].path /\ run[r].sure /\ run[r].aside = None /\ run[r].over = None
  BY <1>1 DEF WaveInv, EveryHolds, Holds
<1>5. UNCHANGED <<canon, edits, store, flocked>> /\ store' \in [Dirs -> [Names \cup Runs -> Slot]]
  BY DEF Open, WaveInv, Shape
<1>3. CASE Refused(r)
  <2> DEFINE v == Reported(run[r])
  <2>1. /\ DOMAIN v = RunFields /\ v.pc = "done" /\ v.status = Status(v) /\ Full(v) /\ Shown(v)
        /\ v.wave = run[r].wave /\ v.doc = run[r].doc /\ v.dir = run[r].dir /\ v.prior = run[r].prior
        /\ v.write = run[r].write /\ v.passed = run[r].passed /\ v.spec = run[r].spec /\ v.path = run[r].path
        /\ v.sure = run[r].sure /\ v.note = run[r].note /\ v.aside = run[r].aside /\ v.over = run[r].over
    BY <1>1, AtRecording, ReportedShown
  <2>2. run' = [run EXCEPT ![r] = v]
    BY <1>1, <1>3 DEF Refused
  <2> HIDE DEF v
  <2>3. run'[r] = v
    BY <1>1, <2>2
  <2>4. Local(r, v)
    <3>1. {v.doc, v.prior, v.aside, v.over} \subseteq Slot /\ v.dir \in Dirs \cup {None} /\ ~Landed(run[r])
      BY <1>1, <2>1, AtRecording DEF Slot, Landed
    <3>2. Moves(r, v)
      BY <1>1, <1>2, <1>5, <2>1, <2>2, <3>1 DEF Moves, Places, Early, Unwritten
    <3> QED BY <1>1, <1>2, <1>5, <2>1, <3>2 DEF Local
  <2>t. Mutex'
    BY <1>5, <2>1, <2>4, MutexStays DEF Local, WaveInv, Locked, Staging, Swapping
  <2>5. Holds(r)'
    <3>1. run'[r].status = Status(run'[r])
      BY <2>1, <2>3
    <3> QED BY <1>1, <1>2, <2>1, <2>3, <3>1, AtRecording DEF Holds, Early, Recording, Unwritten, Locked, Staging, Swapping
  <2> QED BY <2>1, <2>4, <2>t, <2>5, LocalInv
<1>4. CASE Owners(Name(r)) = {run[r].wave} /\ run' = [run EXCEPT ![r].dir = canon, ![r].pc = "prior"]
  <2> DEFINE v == [run[r] EXCEPT !.dir = canon, !.pc = "prior"]
  <2>1. /\ DOMAIN v = RunFields /\ v.pc = "prior" /\ v.dir = canon
        /\ v.wave = run[r].wave /\ v.doc = run[r].doc /\ v.prior = run[r].prior
        /\ v.write = run[r].write /\ v.passed = run[r].passed /\ v.spec = run[r].spec /\ v.path = run[r].path
        /\ v.sure = run[r].sure /\ v.note = run[r].note /\ v.skipped = run[r].skipped
        /\ v.aside = run[r].aside /\ v.over = run[r].over
    BY <1>1, AtRecording DEF RunFields
  <2>2. run' = [run EXCEPT ![r] = v]
    BY <1>1, <1>4, AtRecording DEF RunFields
  <2> HIDE DEF v
  <2>3. run'[r] = v
    BY <1>1, <2>2
  <2>4. Local(r, v)
    <3>1. {v.doc, v.prior, v.aside, v.over} \subseteq Slot /\ v.dir \in Dirs \cup {None} /\ ~Landed(run[r])
      BY <1>1, <2>1, AtRecording DEF Slot, Landed
    <3>2. Moves(r, v)
      BY <1>1, <1>2, <1>5, <2>1, <2>2, <3>1 DEF Moves, Places, Early, Unwritten, Recording
    <3> QED BY <1>1, <1>2, <1>5, <2>1, <3>2 DEF Local
  <2>t. Mutex'
    BY <1>5, <2>1, <2>4, MutexStays DEF Local, WaveInv, Locked, Staging, Swapping
  <2>5. Holds(r)'
    BY <1>1, <1>2, <1>4, <2>1, <2>3, AtRecording DEF Holds, Early, Recording, Unwritten, Locked, Staging, Swapping, Name
  <2>6. Full(v)
    BY <1>1, <2>1, AtRecording DEF Full
  <2> QED BY <2>1, <2>4, <2>t, <2>5, <2>6, LocalInv
<1> QED BY <1>3, <1>4 DEF Open

LEMMA ReadPriorInv == ASSUME WaveInv, NEW r \in Runs, ReadPrior(r) PROVE WaveInv'
<1>1. run[r].pc = "prior" /\ run[r].pc \in Recording /\ DOMAIN run[r] = RunFields
  BY AtRecording DEF ReadPrior, At, Recording, Unwritten
<1>2. PICK seen \in {store[run[r].dir][Name(r)], None} : run' = [run EXCEPT ![r].prior = seen, ![r].pc = "thread"]
  BY DEF ReadPrior
<1>3. seen \in Slot
  <2>1. run[r].dir \in Dirs /\ Name(r) \in Names /\ store \in [Dirs -> [Names \cup Runs -> Slot]] /\ None \in Slot
    BY <1>1, AtPlace, AtRecording DEF WaveInv, Shape, Name, Slot
  <2> QED BY <2>1
<1>4. ~run[r].path /\ run[r].sure /\ run[r].aside = None /\ run[r].over = None /\ None \in Slot
  BY <1>1, AtPlace DEF Slot
<1> DEFINE v == Going(r, "thread", seen, run[r].path, run[r].sure, run[r].aside, run[r].over)
<1>5. [run[r] EXCEPT !.prior = seen, !.pc = "thread"] = v
  BY <1>1 DEF Going, RunFields
<1>6. run' = [run EXCEPT ![r] = v]
  BY <1>2, <1>5
<1>7. Carries(r, v) /\ v.pc = "thread" /\ ~v.path /\ v.aside = run[r].aside /\ v.over = run[r].over
  <2>1. run[r].aside \in Slot /\ run[r].over \in Slot
    BY <1>4
  <2>2. "thread" \in Recording \ {"open", "prior"} /\ "thread" \notin Swapping \cup {"verify", "confirm"}
    BY DEF Recording, Unwritten, Swapping
  <2>4. /\ DOMAIN v = RunFields /\ v.pc = "thread" /\ v.prior = seen /\ v.path = run[r].path /\ v.sure = run[r].sure
        /\ v.aside = run[r].aside /\ v.over = run[r].over
        /\ v.dir = run[r].dir /\ v.wave = run[r].wave /\ v.doc = run[r].doc
        /\ v.write = run[r].write /\ v.passed = run[r].passed /\ v.spec = run[r].spec
        /\ v.note = run[r].note /\ v.skipped = run[r].skipped
    BY <1>1 DEF Going, RunFields
  <2> HIDE DEF v
  <2>5. {v.prior, v.aside, v.over} \subseteq Slot /\ ~v.path /\ v.sure
    BY <1>3, <1>4, <2>4
  <2> QED BY <1>1, <1>4, <2>2, <2>4, <2>5 DEF Carries
<1> HIDE DEF v
<1>8. UNCHANGED <<canon, edits, store, flocked>> /\ store' \in [Dirs -> [Names \cup Runs -> Slot]]
  BY DEF ReadPrior, WaveInv, Shape
<1>9. Moves(r, v)
  BY <1>1, <1>6, <1>7, <1>8, CarriedMoves DEF Unwritten
<1>10. Mutex'
  BY <1>7, <1>8, <1>9, MutexStays DEF WaveInv, Locked, Staging, Swapping
<1> QED BY <1>1, <1>6, <1>7, <1>8, <1>10, Along DEF Unwritten

LEMMA LockThreadInv == ASSUME WaveInv, NEW r \in Runs, LockThread(r) PROVE WaveInv'
<1>1. run[r].pc = "thread" /\ run' = [run EXCEPT ![r].pc = "flock"] /\ UNCHANGED <<canon, edits, store, flocked>>
  BY DEF LockThread, At
<1> QED BY <1>1, PcInv DEF Recording, Unwritten, Locked, Staging, Swapping

LEMMA LockDirectoryInv == ASSUME WaveInv, NEW r \in Runs, LockDirectory(r) PROVE WaveInv'
<1>1. /\ run[r].pc = "flock" /\ run' = [run EXCEPT ![r].pc = "write"] /\ UNCHANGED <<canon, edits, store>>
      /\ flocked[run[r].dir] = None /\ flocked' = [flocked EXCEPT ![run[r].dir] = r]
  BY DEF LockDirectory, At
<1>2. run[r].dir \in Dirs /\ run[r].pc \in Recording /\ DOMAIN run[r] = RunFields
  BY <1>1, AtPlace, AtRecording DEF Recording, Unwritten
<1>3. run'[r].dir = run[r].dir /\ \A q \in Runs : q # r => run'[q] = run[q]
  BY <1>1, <1>2 DEF RunFields, WaveInv, Shape
<1>4. Mutex /\ DOMAIN run = Runs
  BY DEF WaveInv, Shape
<1>5. \A q \in Runs : q # r /\ run[q].pc \in Locked => run[q].dir # run[r].dir /\ run[q].dir \in Dirs
  BY <1>1, <1>4, AtPlace, Given DEF Mutex, Recording, Unwritten, Locked, Staging, Swapping
<1>6. Mutex'
  BY <1>1, <1>2, <1>3, <1>4, <1>5 DEF Mutex
<1> QED BY <1>1, <1>6, PcInv DEF Recording, Unwritten, Locked, Staging, Swapping

\* A receipt that proves no more than another, to the same contract, bears no more.
LEMMA BearsMore == ASSUME NEW w, NEW claim, NEW x, NEW y, Bears(w, claim, x),
                          x.contract = y.contract, x.wave = y.wave, x.shows \subseteq y.shows
                   PROVE  Bears(w, claim, y)
BY DEF Bears

LEMMA ValidateInv == ASSUME WaveInv, NEW r \in Runs, Validate(r) PROVE WaveInv'
<1> DEFINE good == store[canon][r] # None /\ Bears(run[r].wave, run[r].spec.claim, store[canon][r])
<1>1. /\ run[r].pc = "validate" /\ run' = [run EXCEPT ![r].pc = IF good THEN "verify" ELSE "discard"]
      /\ UNCHANGED <<canon, edits, store, flocked>>
  BY DEF Validate, At
<1>2. good => Bears(run[r].wave, run[r].spec.claim, run[r].doc)
  BY <1>1, BearsMore DEF WaveInv, Temps, Shape, At
<1> HIDE DEF good
<1>3. CASE good
  BY <1>1, <1>2, <1>3, PcInv DEF Recording, Unwritten, Locked, Staging, Swapping
<1>4. CASE ~good
  BY <1>1, <1>4, PcInv DEF Recording, Unwritten, Locked, Staging, Swapping
<1> QED BY <1>3, <1>4

LEMMA VerifyInv == ASSUME WaveInv, NEW r \in Runs, Verify(r) PROVE WaveInv'
<1>1. PICK pc \in {"swap", "discard"} : run' = [run EXCEPT ![r].pc = pc]
  BY DEF Verify
<1>2. run[r].pc = "verify" /\ UNCHANGED <<canon, edits, store, flocked>>
  BY DEF Verify, At
<1>3. Bears(run[r].wave, run[r].spec.claim, run[r].doc)
  BY <1>2, AtPlace DEF Recording, Locked, Staging
<1> QED BY <1>1, <1>2, <1>3, PcInv DEF Recording, Unwritten, Locked, Staging, Swapping

LEMMA WriteTempInv == ASSUME WaveInv, NEW r \in Runs, WriteTemp(r) PROVE WaveInv'
<1>1. run[r].pc = "write" /\ UNCHANGED <<canon, edits, flocked>>
  BY DEF WriteTemp, At
<1>2. CASE run' = [run EXCEPT ![r].pc = "unlock"] /\ UNCHANGED store
  BY <1>1, <1>2, PcInv DEF Recording, Unwritten, Locked, Staging, Swapping
<1>3. CASE run' = [run EXCEPT ![r].pc = "validate"] /\ Put(run[r].dir, r, run[r].doc)
  <2>1. run[r].pc \in Recording \ {"open", "unlock"} /\ run[r].pc \in Recording
    BY <1>1 DEF Recording, Unwritten
  <2>2. /\ DOMAIN run[r] = RunFields /\ run[r].doc \in Receipt /\ run[r].dir \in Dirs /\ Full(run[r])
        /\ ~run[r].path /\ run[r].sure /\ run[r].aside = None /\ run[r].over = None /\ run[r].prior \in Slot
    BY <1>1, <2>1, AtRecording, AtPlace
  <2> DEFINE v == [run[r] EXCEPT !.pc = "validate"]
  <2>3. /\ DOMAIN v = RunFields /\ v.pc = "validate" /\ v.prior = run[r].prior /\ v.path = run[r].path /\ v.sure = run[r].sure
        /\ v.aside = run[r].aside /\ v.over = run[r].over
        /\ v.dir = run[r].dir /\ v.wave = run[r].wave /\ v.doc = run[r].doc
        /\ v.write = run[r].write /\ v.passed = run[r].passed /\ v.spec = run[r].spec
        /\ v.note = run[r].note /\ v.skipped = run[r].skipped
    BY <2>2 DEF RunFields
  <2>4. run' = [run EXCEPT ![r] = v]
    BY <1>3
  <2> HIDE DEF v
  <2>5. /\ store' \in [Dirs -> [Names \cup Runs -> Slot]] /\ store'[run[r].dir][r] = run[r].doc
        /\ \A d \in Dirs, x \in Names \cup Runs : x # r \/ d # run[r].dir => store'[d][x] = store[d][x]
    <3>1. store \in [Dirs -> [Names \cup Runs -> Slot]] /\ run[r].doc \in Slot
      BY <2>2 DEF WaveInv, Shape, Slot
    <3> QED BY <1>3, <2>2, <3>1 DEF Put
  <2>6. Carries(r, v)
    <3>1. v.pc \in Recording \ {"open", "prior"} /\ v.pc \notin Swapping \cup {"verify", "confirm"}
      BY <2>3 DEF Recording, Locked, Staging, Swapping
    <3>2. {v.prior, v.aside, v.over} \subseteq Slot
      BY <2>2, <2>3 DEF Slot
    <3> QED BY <2>2, <2>3, <3>1, <3>2 DEF Carries
  <2>7. Moves(r, v)
    BY <1>1, <2>1, <2>3, <2>4, <2>5, <2>6, CarriedMoves DEF Unwritten
  <2>8. Local(r, v)
    BY <1>1, <2>2, <2>3, <2>5, <2>7 DEF Local, Early, Unwritten
  <2>9. Mutex'
    BY <1>1, <2>1, <2>3, <2>7, MutexStays DEF WaveInv, Locked, Staging
  <2>10. Holds(r)' /\ Full(v)
    BY <2>1, <2>4, <2>6, CarriedHolds
  <2> QED BY <2>3, <2>8, <2>9, <2>10, LocalInv
<1> QED BY <1>2, <1>3 DEF WriteTemp

\* A confirmed receipt is reported, and one that cannot be confirmed is in doubt.
LEMMA ConfirmInv == ASSUME WaveInv, NEW r \in Runs, Confirm(r) PROVE WaveInv'
<1>1. run[r].pc = "confirm" /\ UNCHANGED <<canon, edits, store, flocked>>
  BY DEF Confirm, At
<1>2. run[r].pc \in Recording \ {"open", "exchanged", "unlock"} /\ run[r].pc \in Recording
  BY <1>1 DEF Recording, Locked
<1>3. /\ DOMAIN run[r] = RunFields /\ ~run[r].path /\ run[r].sure /\ run[r].aside = None /\ run[r].over \in Slot /\ run[r].prior \in Slot
      /\ run[r].dir \in Dirs
  BY <1>1, <1>2, AtRecording, AtPlace
<1>4. ASSUME NEW v, DOMAIN v = RunFields, v.pc = "unlock", v.prior = run[r].prior, v.path \/ ~v.sure,
             v.aside = run[r].aside, v.over = run[r].over,
             v.dir = run[r].dir, v.wave = run[r].wave, v.doc = run[r].doc, v.write = run[r].write,
             v.passed = run[r].passed, v.spec = run[r].spec, v.note = run[r].note, v.skipped = run[r].skipped,
             run' = [run EXCEPT ![r] = v]
      PROVE  WaveInv'
  <2>1. v.pc \in Recording \ {"open", "prior"} /\ v.pc \notin Swapping \cup {"verify", "confirm"} /\ v.pc \notin Unwritten
    BY <1>4 DEF Recording, Unwritten, Locked, Staging, Swapping
  <2>2. {v.prior, v.aside, v.over} \subseteq Slot
    BY <1>3, <1>4 DEF Slot
  <2>3. Carries(r, v) /\ Landed(v)
    BY <1>4, <2>1, <2>2 DEF Carries, Landed
  <2>4. store' \in [Dirs -> [Names \cup Runs -> Slot]]
    BY <1>1 DEF WaveInv, Shape
  <2>5. Moves(r, v)
    BY <1>1, <1>2, <1>4, <2>1, <2>3, <2>4, CarriedMoves
  <2>6. Mutex'
    BY <1>1, <2>5, MutexStays DEF WaveInv, Locked
  <2> QED BY <1>1, <1>2, <1>4, <2>1, <2>3, <2>6, Along
<1>5. CASE run' = [run EXCEPT ![r].path = TRUE, ![r].pc = "unlock"]
  <2> DEFINE v == [run[r] EXCEPT !.path = TRUE, !.pc = "unlock"]
  <2>1. /\ DOMAIN v = RunFields /\ v.pc = "unlock" /\ v.prior = run[r].prior /\ v.path
        /\ v.aside = run[r].aside /\ v.over = run[r].over
        /\ v.dir = run[r].dir /\ v.wave = run[r].wave /\ v.doc = run[r].doc
        /\ v.write = run[r].write /\ v.passed = run[r].passed /\ v.spec = run[r].spec
        /\ v.note = run[r].note /\ v.skipped = run[r].skipped
    BY <1>3 DEF RunFields
  <2>2. run' = [run EXCEPT ![r] = v]
    BY <1>3, <1>5 DEF RunFields, WaveInv, Shape
  <2> HIDE DEF v
  <2> QED BY <1>4, <2>1, <2>2
<1>6. CASE run' = [run EXCEPT ![r].sure = FALSE, ![r].pc = "unlock"]
  <2> DEFINE v == [run[r] EXCEPT !.sure = FALSE, !.pc = "unlock"]
  <2>1. /\ DOMAIN v = RunFields /\ v.pc = "unlock" /\ v.prior = run[r].prior /\ ~v.sure
        /\ v.aside = run[r].aside /\ v.over = run[r].over
        /\ v.dir = run[r].dir /\ v.wave = run[r].wave /\ v.doc = run[r].doc
        /\ v.write = run[r].write /\ v.passed = run[r].passed /\ v.spec = run[r].spec
        /\ v.note = run[r].note /\ v.skipped = run[r].skipped
    BY <1>3 DEF RunFields
  <2>2. run' = [run EXCEPT ![r] = v]
    BY <1>3, <1>6 DEF RunFields, WaveInv, Shape
  <2> HIDE DEF v
  <2> QED BY <1>4, <2>1, <2>2
<1> QED BY <1>5, <1>6 DEF Confirm

LEMMA UnlockInv == ASSUME WaveInv, NEW r \in Runs, Unlock(r) PROVE WaveInv'
<1>1. run[r].pc \in {"discard", "unlock"} /\ UNCHANGED <<canon, edits>> /\ flocked' = [flocked EXCEPT ![run[r].dir] = None]
  BY DEF Unlock
<1>2. run[r].pc \in Recording \ {"open"} /\ run[r].pc \in Recording /\ run[r].pc \in Locked /\ DOMAIN run = Runs
  BY <1>1 DEF Recording, Locked, WaveInv, Shape
<1>3. /\ DOMAIN run[r] = RunFields /\ run[r].doc \in Receipt /\ run[r].dir \in Dirs /\ Full(run[r])
      /\ run[r].doc # None /\ run[r].doc.by = r /\ run[r].doc.wave = run[r].wave
      /\ run[r].write /\ run[r].passed /\ ~run[r].note
      /\ {run[r].prior, run[r].aside, run[r].over} \subseteq Slot
  BY <1>2, AtRecording, AtPlace
<1> DEFINE v == Reported(run[r])
<1>4. /\ DOMAIN v = RunFields /\ v.pc = "done" /\ v.status = Status(v) /\ Full(v) /\ Shown(v)
      /\ v.wave = run[r].wave /\ v.doc = run[r].doc /\ v.dir = run[r].dir /\ v.prior = run[r].prior
      /\ v.write = run[r].write /\ v.passed = run[r].passed /\ v.spec = run[r].spec /\ v.path = run[r].path
      /\ v.sure = run[r].sure /\ v.note = run[r].note /\ v.aside = run[r].aside /\ v.over = run[r].over
  BY <1>3, ReportedShown
<1>5. run' = [run EXCEPT ![r] = v]
  BY DEF Unlock
<1> HIDE DEF v
<1>6. run'[r] = v /\ \A q \in Runs : q # r => run'[q] = run[q]
  BY <1>2, <1>5
<1>7. /\ store' \in [Dirs -> [Names \cup Runs -> Slot]]
      /\ \/ store' = store
         \/ /\ run[r].pc = "discard" /\ store'[run[r].dir][r] = None
            /\ \A d \in Dirs, x \in Names \cup Runs : x # r \/ d # run[r].dir => store'[d][x] = store[d][x]
  <2>1. store \in [Dirs -> [Names \cup Runs -> Slot]] /\ None \in Slot
    BY DEF WaveInv, Shape, Slot
  <2>2. CASE store' = store
    BY <2>1, <2>2
  <2>3. CASE At(r, "discard") /\ Put(run[r].dir, r, None)
    BY <1>3, <2>1, <2>3 DEF Put, At
  <2> QED BY <2>2, <2>3 DEF Unlock
<1>8. Moves(r, v)
  <2>1. Landed(run[r]) => Landed(v)
    BY <1>1, <1>4 DEF Landed
  <2>2. {v.doc, v.prior, v.aside, v.over} \subseteq Slot /\ v.dir \in Dirs \cup {None}
    BY <1>3, <1>4 DEF Slot
  <2> QED BY <1>1, <1>4, <1>5, <1>7, <2>1, <2>2 DEF Moves, Places, Early, Unwritten
<1>9. Local(r, v)
  BY <1>1, <1>3, <1>4, <1>7, <1>8 DEF Local, Early, Unwritten
<1>10. Mutex'
  <2>1. Mutex /\ flocked[run[r].dir] = r
    BY <1>2 DEF WaveInv, Mutex
  <2>2. ASSUME NEW q \in Runs, run'[q].pc \in Locked PROVE flocked'[run'[q].dir] = q
    <3>1. q # r /\ run'[q] = run[q]
      BY <1>4, <1>6, <2>2 DEF Locked, Staging, Swapping
    <3>2. flocked[run[q].dir] = q /\ run[q].dir \in Dirs
      BY <2>1, <2>2, <3>1, AtPlace DEF Mutex, Recording, Unwritten, Locked, Staging, Swapping
    <3> QED BY <1>1, <2>1, <3>1, <3>2 DEF Mutex
  <2>3. DOMAIN flocked' = Dirs
    BY <1>1, <2>1 DEF Mutex
  <2> QED BY <2>2, <2>3 DEF Mutex
<1>11. Holds(r)'
  <2>1. run'[r].status = Status(run'[r])
    BY <1>4, <1>6
  <2> QED BY <1>3, <1>4, <1>6, <2>1 DEF Holds, Early, Recording, Unwritten, Locked, Staging, Swapping
<1> QED BY <1>4, <1>9, <1>10, <1>11, LocalInv

-----------------------------------------------------------------------------
(* The steps of commit_replacement.                                        *)

\* A step of the commit leaves target under the receipt's name and temp under the temp's, both
\* and what it has aside or has displaced among what it had there.
Shifts(r, v, target, temp) ==
    /\ run[r].pc \in Swapping /\ Carries(r, v) /\ run' = [run EXCEPT ![r] = v]
    /\ v.pc \in {"exchanged", "vacated", "confirm", "discard", "unlock"} /\ v.path = run[r].path
    /\ UNCHANGED <<canon, edits, flocked>>
    /\ Place(r, target, temp)
    /\ \A x \in {target, temp, v.aside, v.over} : x \in {None, Target(r), Temp(r), run[r].aside}
    \* while nothing may be left behind, nothing of the run is where others see it ...
    /\ ~Landed(v) =>
        /\ By(target, r) => v.pc = "exchanged"
        /\ ~By(v.aside, r) /\ ~By(v.over, r)
        /\ v.pc = "exchanged" => ~By(temp, r) /\ (target # None => target.by \in {r, "hand"})
        /\ v.pc # "exchanged" => (temp # None => temp.by \in {r, "hand"})
    \* ... and without people at the files no other run's receipt is lost.
    /\ edits = 0 =>
        /\ v.pc \in {"exchanged", "confirm"} => target = v.doc
        /\ v.pc = "vacated" => temp = v.doc
        /\ \A x \in Receipt :
            x.by # r /\ (x \in {Target(r), run[r].aside} \/ (x = Temp(r) /\ At(r, "exchanged"))) =>
                x \in {target, v.aside, v.over} \/ (x = temp /\ (v.pc = "exchanged" \/ ~v.sure))

LEMMA SwapFacts == ASSUME WaveInv, NEW r \in Runs, run[r].pc \in Swapping
    PROVE  /\ run[r].pc \in Recording \ {"open", "unlock"} /\ run[r].pc \in Locked /\ run[r].pc \notin Early \cup Unwritten
           /\ DOMAIN run = Runs /\ DOMAIN run[r] = RunFields /\ run[r].dir \in Dirs /\ Name(r) \in Names /\ Name(r) # r
           /\ run[r].doc \in Receipt /\ run[r].doc.by = r
           /\ run[r].prior \in Slot /\ run[r].aside \in Slot /\ run[r].over = None /\ ~run[r].path /\ run[r].sure
           /\ Target(r) \in Slot /\ Temp(r) \in Slot
           /\ store \in [Dirs -> [Names \cup Runs -> Slot]]
           /\ Bears(run[r].wave, run[r].spec.claim, run[r].doc) /\ Proven(r) /\ ~Landed(run[r])
<1>1. run[r].pc \in Recording \ {"open", "unlock"} /\ run[r].pc \in Locked /\ run[r].pc \notin Early \cup Unwritten \cup {"validate"}
  BY DEF Recording, Locked, Swapping, Early, Unwritten
<1>2. /\ DOMAIN run[r] = RunFields /\ run[r].dir \in Dirs /\ Name(r) \in Names
      /\ run[r].doc \in Receipt /\ run[r].doc.by = r /\ run[r].doc # None /\ run[r].write /\ run[r].passed
      /\ run[r].prior \in Slot /\ run[r].aside \in Slot /\ ~run[r].path /\ run[r].sure
      /\ Owners(Path[run[r].wave]) = {run[r].wave}
      /\ Bears(run[r].wave, run[r].spec.claim, run[r].doc)
  BY <1>1, AtRecording, AtPlace DEF Name
<1>3. run[r].over = None
  BY <1>1, AtPlace DEF Swapping
<1>4. store \in [Dirs -> [Names \cup Runs -> Slot]] /\ DOMAIN run = Runs
  BY DEF WaveInv, Shape
<1>5. Target(r) \in Slot /\ Temp(r) \in Slot
  BY <1>2, <1>4 DEF Target, Temp
<1>6. Proven(r)
  BY <1>1, <1>2 DEF Proven
<1>7. ~Landed(run[r])
  BY DEF Landed, Swapping
<1>8. Name(r) # r
  BY <1>2, Given
<1> QED BY <1>1, <1>2, <1>3, <1>4, <1>5, <1>6, <1>7, <1>8

LEMMA Placed == ASSUME WaveInv, NEW r \in Runs, run[r].pc \in Swapping, NEW target \in Slot, NEW temp \in Slot,
                       Place(r, target, temp)
                PROVE  /\ store' \in [Dirs -> [Names \cup Runs -> Slot]]
                       /\ store'[run[r].dir][Name(r)] = target /\ store'[run[r].dir][r] = temp
                       /\ \A d \in Dirs, x \in Names \cup Runs :
                            d # run[r].dir \/ x \notin {r, Name(r)} => store'[d][x] = store[d][x]
<1> DEFINE d == run[r].dir
           n == Name(r)
           f == [store[d] EXCEPT ![n] = target, ![r] = temp]
<1>1. d \in Dirs /\ n \in Names /\ n # r /\ store \in [Dirs -> [Names \cup Runs -> Slot]]
  BY SwapFacts
<1>2. store' = [store EXCEPT ![d] = f]
  BY <1>1 DEF Place
<1> HIDE DEF d, n
<1>3. /\ f \in [Names \cup Runs -> Slot] /\ f[n] = target /\ f[r] = temp
      /\ \A x \in Names \cup Runs : x \notin {r, n} => f[x] = store[d][x]
  BY <1>1
<1> HIDE DEF f
<1>4. /\ store' \in [Dirs -> [Names \cup Runs -> Slot]] /\ store'[d][n] = target /\ store'[d][r] = temp
      /\ \A e \in Dirs, x \in Names \cup Runs : e # d \/ x \notin {r, n} => store'[e][x] = store[e][x]
  BY <1>1, <1>2, <1>3
<1> QED BY <1>4 DEF d, n

LEMMA ShiftedTraced == ASSUME WaveInv, NEW r \in Runs, NEW v, NEW target \in Slot, NEW temp \in Slot,
                              Shifts(r, v, target, temp), Moves(r, v)
                       PROVE  Traced' /\ Temps'
<1>0. run'[r] = v /\ \A q \in Runs : q # r => run'[q] = run[q]
  BY Others DEF WaveInv
<1>1. run[r].pc \in Swapping
  BY DEF Shifts
<1>2. \A q \in Runs : run'[q].wave = run[q].wave /\ run'[q].doc = run[q].doc
  BY <1>0, <1>1, SwapFacts DEF Moves
<1>3. ASSUME NEW x, Cleared(x) PROVE Cleared(x)'
  BY <1>3, ClearedStays DEF WaveInv, Cleared
<1>4. ASSUME NEW x, NEW n, Fits(x, n) PROVE x # None /\ x.by \in Runs => x = run'[x.by].doc /\ Path[run'[x.by].wave] = n
  BY <1>2, <1>4 DEF Fits, Name
<1>5. \A x \in {None, Target(r), Temp(r), run[r].aside} : Fits(x, Name(r)) /\ Cleared(x)
  <2>1. Proven(r) /\ run[r].dir \in Dirs /\ Name(r) \in Names
    BY <1>1, SwapFacts
  <2>2. Fits(Target(r), Name(r)) /\ Cleared(Target(r))
    BY <2>1 DEF WaveInv, Traced, Target
  <2>3. Fits(Temp(r), Name(r)) /\ (By(Temp(r), r) \/ Cleared(Temp(r)))
    BY <2>1 DEF WaveInv, Traced, Temp
  <2>4. Cleared(Temp(r))
    BY <2>1, <2>3 DEF By, Cleared
  <2>5. Fits(run[r].aside, Name(r)) /\ Cleared(run[r].aside)
    BY DEF WaveInv, Traced
  <2>6. Fits(None, Name(r)) /\ Cleared(None)
    BY DEF Fits, Cleared
  <2> QED BY <2>2, <2>3, <2>4, <2>5, <2>6
<1>6. \A x \in {target, temp, v.aside, v.over} : Fits(x, Name(r)) /\ Cleared(x)
  BY <1>5 DEF Shifts
<1>7. /\ store'[run[r].dir][Name(r)] = target /\ store'[run[r].dir][r] = temp
      /\ \A d \in Dirs, x \in Names \cup Runs : d # run[r].dir \/ x \notin {r, Name(r)} => store'[d][x] = store[d][x]
  BY <1>1, Placed DEF Shifts
<1>8. ASSUME NEW d \in Dirs, NEW n \in Names PROVE (Fits(store[d][n], n) /\ Cleared(store[d][n]))'
  <2>1. Fits(store'[d][n], n) /\ Cleared(store'[d][n])
    <3>1. CASE d = run[r].dir /\ n = Name(r)
      BY <1>6, <1>7, <3>1
    <3>2. CASE ~(d = run[r].dir /\ n = Name(r))
      <4>1. store'[d][n] = store[d][n]
        BY <1>7, <3>2, Given
      <4> QED BY <4>1 DEF WaveInv, Traced
    <3> QED BY <3>1, <3>2
  <2>2. Cleared(store[d][n])'
    <3>1. \A x : Cleared(x) => (x # None /\ x.by \in Runs => Proven(x.by)')
      BY ClearedStays DEF WaveInv
    <3> QED BY <2>1, <3>1 DEF Cleared
  <2>3. Fits(store[d][n], n)'
    BY <1>4, <2>1 DEF Fits, Name
  <2> QED BY <2>2, <2>3
<1>p. \A x : Cleared(x) => (x # None /\ x.by \in Runs => Proven(x.by)')
  BY ClearedStays DEF WaveInv
<1>9. ASSUME NEW d \in Dirs, NEW q \in Runs
      PROVE  (Fits(store[d][q], Name(q)) /\ (By(store[d][q], q) \/ Cleared(store[d][q])))'
  <2>1. Fits(store'[d][q], Name(q)) /\ (By(store'[d][q], q) \/ Cleared(store'[d][q]))
    <3>1. CASE d = run[r].dir /\ q = r
      BY <1>6, <1>7, <3>1
    <3>2. CASE ~(d = run[r].dir /\ q = r)
      <4>1. store'[d][q] = store[d][q]
        BY <1>1, <1>7, <3>2, SwapFacts, Given
      <4> QED BY <4>1 DEF WaveInv, Traced
    <3> QED BY <3>1, <3>2
  <2>2. Fits(store[d][q], Name(q))'
    BY <1>2, <1>4, <2>1 DEF Fits, Name
  <2>3. By(store'[d][q], q) \/ Cleared(store[d][q])'
    BY <1>p, <2>1 DEF Cleared
  <2> QED BY <2>2, <2>3 DEF By
<1>10. ASSUME NEW q \in Runs
       PROVE  (Fits(run[q].aside, Name(q)) /\ Cleared(run[q].aside) /\ Cleared(run[q].over))'
  <2>1. Fits(run'[q].aside, Name(q)) /\ Cleared(run'[q].aside) /\ Cleared(run'[q].over)
    <3>1. CASE q = r
      BY <1>0, <1>6, <3>1
    <3>2. CASE q # r
      BY <1>0, <3>2 DEF WaveInv, Traced
    <3> QED BY <3>1, <3>2
  <2> QED BY <1>2, <1>4, <1>p, <2>1 DEF Fits, Cleared, Name
<1>11. Temps'
  <2> SUFFICES ASSUME NEW q \in Runs, NEW d \in Dirs, store'[d][q] # None
               PROVE  /\ run'[q].pc \notin Early \cup Unwritten
                      /\ run'[q].pc = "validate" => LET x == store'[d][q] IN
                            /\ x.contract = run'[q].doc.contract /\ x.wave = run'[q].doc.wave
                            /\ x.shows \subseteq run'[q].doc.shows
    BY DEF Temps, At
  <2>1. CASE q = r
    BY <1>0, <2>1 DEF Shifts, Early, Unwritten
  <2>2. CASE q # r
    <3>1. store'[d][q] = store[d][q] /\ run'[q] = run[q]
      BY <1>0, <1>1, <1>7, <2>2, SwapFacts, Given
    <3> QED BY <3>1 DEF WaveInv, Temps, At
  <2> QED BY <2>1, <2>2
<1> QED BY <1>8, <1>9, <1>10, <1>11 DEF Traced

LEMMA ShiftedPrivate == ASSUME WaveInv, NEW r \in Runs, NEW v, NEW target \in Slot, NEW temp \in Slot,
                               Shifts(r, v, target, temp), Moves(r, v)
                        PROVE  EveryPrivate'
<1>0. run'[r] = v /\ \A q \in Runs : q # r => run'[q] = run[q]
  BY Others DEF WaveInv
<1>1. run[r].pc \in Swapping
  BY DEF Shifts
<1>2. /\ run[r].dir \in Dirs /\ Name(r) \in Names /\ v.dir = run[r].dir /\ v.wave = run[r].wave
      /\ run[r].pc \in Locked /\ ~Landed(run[r])
  BY <1>1, SwapFacts DEF Shifts, Carries
<1> DEFINE d == run[r].dir
           n == Name(r)
<1>3. /\ store'[d][n] = target /\ store'[d][r] = temp
      /\ \A e \in Dirs, x \in Names \cup Runs : e # d \/ x \notin {r, n} => store'[e][x] = store[e][x]
  BY <1>1, Placed DEF Shifts
<1>4. d \in Dirs /\ n \in Names /\ run[r].dir = d /\ v.dir = d /\ n = Path[run[r].wave]
  BY <1>2 DEF Name
<1>5. \A x \in {target, temp, v.aside, v.over} : x \in {None, store[d][n], store[d][r], run[r].aside}
  BY DEF Shifts, Target, Temp
<1> HIDE DEF d, n
<1>6. ASSUME NEW q \in Runs, q # r PROVE Private(q)'
  <2> SUFFICES ASSUME run[q].dir \in Dirs, ~Landed(run[q])
               PROVE  LET e == run[q].dir IN
                      /\ \A m \in Names : By(store'[e][m], q) => run[q].pc = "exchanged"
                      /\ \A t \in Runs \ {q} : ~By(store'[e][t], q)
                      /\ \A t \in Runs : run'[t].dir = e => ~By(run'[t].aside, q) /\ ~By(run'[t].over, q)
                      /\ run[q].pc = "exchanged" => ~By(store'[e][q], q) /\ (store'[e][Path[run[q].wave]] # None =>
                            store'[e][Path[run[q].wave]].by \in {q, "hand"})
                      /\ run[q].pc # "exchanged" => (store'[e][q] # None => store'[e][q].by \in {q, "hand"})
    BY <1>0, <1>6 DEF Private, At, Target, Temp, Name
  <2> DEFINE e == run[q].dir
  <2>1. e \in Dirs /\ Private(q) /\ Path[run[q].wave] \in Names /\ run[q].dir = e
    BY Given DEF WaveInv, EveryPrivate, Shape
  <2>2. \A m \in Names : By(store[e][m], q) => run[q].pc = "exchanged"
    BY <2>1 DEF Private, At
  <2>3. \A t \in Runs \ {q} : ~By(store[e][t], q)
    BY <2>1 DEF Private
  <2>4. \A t \in Runs : run[t].dir = e => ~By(run[t].aside, q) /\ ~By(run[t].over, q)
    BY <2>1 DEF Private
  <2>5. /\ run[q].pc = "exchanged" => ~By(store[e][q], q) /\ (store[e][Path[run[q].wave]] # None =>
                            store[e][Path[run[q].wave]].by \in {q, "hand"})
        /\ run[q].pc # "exchanged" => (store[e][q] # None => store[e][q].by \in {q, "hand"})
    BY <2>1 DEF Private, At, Target, Temp, Name
  <2> HIDE DEF e
  <2>6. CASE e # d
    <3>1. \A x \in Names \cup Runs : store'[e][x] = store[e][x]
      BY <1>3, <2>1, <2>6
    <3>2. \A t \in Runs : run'[t].dir = e => run'[t] = run[t]
      BY <1>0, <1>4, <2>6
    <3> QED BY <2>1, <2>2, <2>3, <2>4, <2>5, <3>1, <3>2 DEF e
  <2>7. CASE e = d
    <3>1. run[q].pc # "exchanged"
      BY <1>2, <1>4, <1>6, <2>1, <2>7 DEF WaveInv, Mutex, Locked, Swapping
    <3>2. \A x \in {None, store[d][n], store[d][r], run[r].aside} : ~By(x, q)
      BY <1>4, <1>6, <2>2, <2>3, <2>4, <2>7, <3>1 DEF By
    <3>3. ~By(target, q) /\ ~By(temp, q) /\ ~By(v.aside, q) /\ ~By(v.over, q)
      BY <1>5, <3>2
    <3>4. \A m \in Names : ~By(store'[e][m], q)
      BY <1>3, <1>4, <2>2, <2>7, <3>1, <3>3, Given
    <3>5. \A t \in Runs \ {q} : ~By(store'[e][t], q)
      BY <1>3, <1>4, <2>3, <2>7, <3>3, Given
    <3>6. \A t \in Runs : run'[t].dir = e => ~By(run'[t].aside, q) /\ ~By(run'[t].over, q)
      BY <1>0, <2>4, <3>3
    <3>7. store'[e][q] = store[e][q]
      BY <1>3, <1>4, <1>6, <2>1, Given
    <3> QED BY <2>5, <3>1, <3>4, <3>5, <3>6, <3>7 DEF e
  <2> QED BY <2>6, <2>7
<1>7. Private(r)'
  <2> SUFFICES ASSUME ~Landed(v)
               PROVE  /\ \A m \in Names : By(store'[d][m], r) => v.pc = "exchanged"
                      /\ \A t \in Runs \ {r} : ~By(store'[d][t], r)
                      /\ \A t \in Runs : run'[t].dir = d => ~By(run'[t].aside, r) /\ ~By(run'[t].over, r)
                      /\ v.pc = "exchanged" => ~By(store'[d][r], r) /\ (store'[d][n] # None => store'[d][n].by \in {r, "hand"})
                      /\ v.pc # "exchanged" => (store'[d][r] # None => store'[d][r].by \in {r, "hand"})
    BY <1>0, <1>2, <1>4 DEF Private, At, Target, Temp, Name
  <2>1. /\ By(target, r) => v.pc = "exchanged"
        /\ ~By(v.aside, r) /\ ~By(v.over, r)
        /\ v.pc = "exchanged" => ~By(temp, r) /\ (target # None => target.by \in {r, "hand"})
        /\ v.pc # "exchanged" => (temp # None => temp.by \in {r, "hand"})
    BY DEF Shifts
  <2>2. Private(r)
    BY DEF WaveInv, EveryPrivate
  <2>3. \A t \in Runs \ {r} : ~By(store[d][t], r)
    BY <1>2, <1>4, <2>2 DEF Private
  <2>4. \A t \in Runs : run[t].dir = d => ~By(run[t].aside, r) /\ ~By(run[t].over, r)
    BY <1>2, <1>4, <2>2 DEF Private
  <2>5. ASSUME NEW m \in Names, By(store'[d][m], r) PROVE v.pc = "exchanged"
    <3>1. CASE m = n
      BY <1>3, <2>1, <2>5, <3>1
    <3>2. CASE m # n
      <4>1. store'[d][m] = store[d][m] /\ Fits(store[d][m], m)
        BY <1>3, <1>4, <3>2, Given DEF WaveInv, Traced
      <4> QED BY <1>4, <2>5, <3>2, <4>1 DEF By, Fits, Name
    <3> QED BY <3>1, <3>2
  <2>6. \A t \in Runs \ {r} : ~By(store'[d][t], r)
    BY <1>3, <1>4, <2>3, Given
  <2>7. \A t \in Runs : run'[t].dir = d => ~By(run'[t].aside, r) /\ ~By(run'[t].over, r)
    BY <1>0, <2>1, <2>4
  <2> QED BY <1>3, <2>1, <2>5, <2>6, <2>7
<1> QED BY <1>6, <1>7 DEF EveryPrivate

LEMMA ShiftedKept == ASSUME WaveInv, NEW r \in Runs, NEW v, NEW target \in Slot, NEW temp \in Slot,
                            Shifts(r, v, target, temp), Moves(r, v)
                     PROVE  Kept'
<1>0. run'[r] = v /\ (\A q \in Runs : q # r => run'[q] = run[q]) /\ canon' = canon /\ edits' = edits
  BY Others DEF WaveInv, Moves
<1>1. run[r].pc \in Swapping
  BY DEF Shifts
<1>2. /\ run[r].dir \in Dirs /\ Name(r) \in Names /\ v.dir = run[r].dir /\ v.wave = run[r].wave /\ v.doc = run[r].doc
      /\ run[r].pc \in Locked /\ run[r].over = None /\ ~v.path /\ run[r].sure /\ run[r].pc # "dead"
  BY <1>1, SwapFacts DEF Shifts, Carries, Swapping
<1> DEFINE d == run[r].dir
           n == Name(r)
<1>3. /\ store'[d][n] = target /\ store'[d][r] = temp
      /\ \A e \in Dirs, x \in Names \cup Runs : e # d \/ x \notin {r, n} => store'[e][x] = store[e][x]
  BY <1>1, Placed DEF Shifts
<1>4. d \in Dirs /\ n \in Names /\ run[r].dir = d /\ v.dir = d /\ n = Path[run[r].wave]
  BY <1>2 DEF Name
<1> SUFFICES ASSUME edits = 0, NEW q \in Runs
             PROVE  /\ run'[q].dir # None => run'[q].dir = canon
                    /\ run'[q].pc \in Staging \cup {"vacated"} => Temp(q)' = run'[q].doc
                    /\ run'[q].pc = "exchanged" => Target(q)' = run'[q].doc
                    /\ run'[q].pc = "confirm" \/ (run'[q].path /\ run'[q].doc # None) =>
                            Installed(q)' \/ Displaced(q)' \/ HeldAside(q)'
  BY <1>0 DEF Kept, At
<1>5. /\ v.pc \in {"exchanged", "confirm"} => target = v.doc
      /\ v.pc = "vacated" => temp = v.doc
      /\ \A x \in Receipt :
            x.by # r /\ (x \in {store[d][n], run[r].aside} \/ (x = store[d][r] /\ At(r, "exchanged"))) =>
                x \in {target, v.aside, v.over} \/ (x = temp /\ (v.pc = "exchanged" \/ ~v.sure))
  BY DEF Shifts, Target, Temp
<1>k. ASSUME NEW p \in Runs
      PROVE  /\ run[p].dir # None => run[p].dir = canon
             /\ run[p].pc \in Staging \cup {"vacated"} => Temp(p) = run[p].doc
             /\ run[p].pc = "exchanged" => Target(p) = run[p].doc
             /\ run[p].pc = "confirm" \/ (run[p].path /\ run[p].doc # None) =>
                     Installed(p) \/ Displaced(p) \/ HeldAside(p)
  BY DEF WaveInv, Kept, At
<1> HIDE DEF d, n
<1>6. CASE q = r
  <2>1. v.pc = "confirm" => Installed(r)'
    <3>1. SUFFICES ASSUME v.pc = "confirm" PROVE Installed(r)'
      OBVIOUS
    <3>2. store'[d][n] = v.doc
      BY <1>3, <1>5, <3>1
    <3> QED BY <1>0, <1>4, <3>2 DEF Installed
  <2>2. run[r].dir # None => run[r].dir = canon
    BY <1>k
  <2>3. v.pc \in Staging \cup {"vacated"} => Temp(r)' = v.doc
    <3>1. v.pc \in Staging \cup {"vacated"} => v.pc = "vacated"
      BY DEF Shifts, Staging
    <3> QED BY <1>0, <1>3, <1>4, <1>5, <3>1 DEF Temp
  <2>4. v.pc = "exchanged" => Target(r)' = v.doc
    BY <1>0, <1>2, <1>3, <1>4, <1>5 DEF Target, Name
  <2> QED BY <1>0, <1>2, <1>6, <2>1, <2>2, <2>3, <2>4
<1>7. CASE q # r
  <2>0. run'[q] = run[q] /\ Holds(q)
    BY <1>0, <1>7 DEF WaveInv, EveryHolds
  <2>1. run[q].dir \in Dirs => store'[run[q].dir][q] = store[run[q].dir][q]
    BY <1>3, <1>4, <1>7, Given
  <2>2. run[q].pc \in Staging \cup {"vacated"} => Temp(q)' = run[q].doc
    <3>1. run[q].pc \in Staging \cup {"vacated"} => run[q].dir \in Dirs
      BY <2>0 DEF Holds, Recording, Locked, Staging, Swapping
    <3> QED BY <1>k, <2>0, <2>1, <3>1 DEF Temp
  <2>3. run[q].pc = "exchanged" => Target(q)' = run[q].doc
    <3>1. SUFFICES ASSUME run[q].pc = "exchanged" PROVE Target(q)' = run[q].doc
      OBVIOUS
    <3>2. run[q].dir \in Dirs /\ run[q].pc \in Locked /\ Path[run[q].wave] \in Names
      BY <2>0, <3>1, Given DEF Holds, Recording, Locked, Staging, Swapping, WaveInv, Shape
    <3>3. run[q].dir # d
      BY <1>2, <1>4, <1>7, <3>2 DEF WaveInv, Mutex
    <3>4. store'[run[q].dir][Path[run[q].wave]] = store[run[q].dir][Path[run[q].wave]]
      BY <1>3, <3>2, <3>3
    <3> QED BY <1>k, <2>0, <3>1, <3>4 DEF Target, Name
  <2>4. ASSUME run[q].pc = "confirm" \/ (run[q].path /\ run[q].doc # None)
        PROVE  Installed(q)' \/ Displaced(q)' \/ HeldAside(q)'
    <3> DEFINE x == run[q].doc
    <3>1. run[q].dir \in Dirs /\ x # None /\ x \in Slot /\ x.by = q
      BY <2>0, <2>4 DEF Holds, Recording, Locked, WaveInv, Shape
    <3>2. x \in Receipt /\ x.by # r /\ x # None /\ run'[q].doc = x
      BY <1>7, <2>0, <3>1 DEF Slot
    <3>3. run[q].dir = d /\ run'[q].dir = d
      BY <1>4, <1>k, <2>0, <3>1, Given
    <3>c. x \in {store[d][n], run[r].aside} \/ (x = store[d][r] /\ At(r, "exchanged"))
            => Installed(q)' \/ Displaced(q)' \/ HeldAside(q)'
      <4> SUFFICES ASSUME x \in {store[d][n], run[r].aside} \/ (x = store[d][r] /\ At(r, "exchanged"))
                   PROVE  Installed(q)' \/ Displaced(q)' \/ HeldAside(q)'
        OBVIOUS
      <4>1. x \in {target, v.aside, v.over} \/ (x = temp /\ (v.pc = "exchanged" \/ ~v.sure))
        BY <1>5, <3>2
      <4> HIDE DEF x
      <4>2. CASE x = target
        BY <1>3, <1>4, <3>2, <3>3, <4>2 DEF Installed
      <4>3. CASE x = v.over
        BY <1>0, <3>2, <4>3 DEF Displaced
      <4>4. CASE x = v.aside
        BY <1>0, <1>7, <3>2, <4>4 DEF HeldAside
      <4>5. CASE x = temp /\ (v.pc = "exchanged" \/ ~v.sure)
        BY <1>0, <1>3, <1>7, <3>2, <3>3, <4>5 DEF HeldAside
      <4> QED BY <4>1, <4>2, <4>3, <4>4, <4>5
    <3>i. run[q].doc = x
      OBVIOUS
    <3> HIDE DEF x
    <3>4. CASE Installed(q)
      <4>1. PICK m \in Names : store[d][m] = x
        BY <3>3, <3>4, <3>i DEF Installed
      <4>2. CASE m = n
        BY <3>c, <4>1, <4>2
      <4>3. CASE m # n
        BY <1>3, <1>4, <3>2, <3>3, <4>1, <4>3, Given DEF Installed
      <4> QED BY <4>2, <4>3
    <3>5. CASE Displaced(q)
      <4>1. PICK s \in Runs : run[s].over = x
        BY <3>5, <3>i DEF Displaced
      <4>2. s # r
        BY <1>2, <3>2, <4>1
      <4> QED BY <1>0, <3>2, <4>1, <4>2 DEF Displaced
    <3>6. CASE HeldAside(q)
      <4>1. PICK s \in Runs \ {q} :
              \/ run[s].aside = x
              \/ store[d][s] = x /\ (run[s].pc \in {"exchanged", "dead"} \/ ~run[s].sure)
        BY <3>3, <3>6, <3>i DEF HeldAside
      <4>2. CASE s = r
        <5>1. x = run[r].aside \/ (x = store[d][r] /\ At(r, "exchanged"))
          BY <1>2, <4>1, <4>2 DEF At
        <5> QED BY <3>c, <5>1
      <4>3. CASE s # r
        <5>1. run'[s] = run[s] /\ store'[d][s] = store[d][s]
          BY <1>0, <1>3, <1>4, <4>3, Given
        <5> QED BY <3>2, <3>3, <4>1, <5>1 DEF HeldAside
      <4> QED BY <4>2, <4>3
    <3> QED BY <1>k, <2>4, <3>4, <3>5, <3>6
  <2> QED BY <1>k, <2>0, <2>2, <2>3, <2>4
<1> QED BY <1>6, <1>7

LEMMA ShiftInv == ASSUME WaveInv, NEW r \in Runs, NEW v, NEW target \in Slot, NEW temp \in Slot,
                         Shifts(r, v, target, temp)
                  PROVE  WaveInv'
<1>1. /\ run[r].pc \in Swapping /\ Carries(r, v) /\ run' = [run EXCEPT ![r] = v] /\ UNCHANGED <<canon, edits, flocked>>
      /\ v.pc \in {"exchanged", "vacated", "confirm", "discard", "unlock"} /\ Place(r, target, temp)
  BY DEF Shifts
<1>2. run[r].pc \in Recording \ {"open", "unlock"} /\ run[r].pc \in Locked /\ run[r].pc # "confirm"
  BY <1>1, SwapFacts DEF Swapping
<1>3. store' \in [Dirs -> [Names \cup Runs -> Slot]]
  BY <1>1, Placed
<1>4. Moves(r, v)
  BY <1>1, <1>2, <1>3, CarriedMoves DEF Unwritten
<1>5. Shape' /\ Mutex'
  BY <1>1, <1>2, <1>4, ShapeStays, MutexStays DEF WaveInv
<1>6. EveryHolds' /\ Staged' /\ TagIsEarned'
  BY <1>1, <1>2, <1>4, CarriedHolds, Moved
<1>7. Traced' /\ Temps' /\ EveryPrivate' /\ Kept'
  BY <1>4, ShiftedTraced, ShiftedPrivate, ShiftedKept
<1> QED BY <1>5, <1>6, <1>7 DEF WaveInv

\* What a run in the commit holds, and what lies at its names.
LEMMA SwapHas == ASSUME WaveInv, NEW r \in Runs, run[r].pc \in Swapping
    PROVE  /\ run[r].pc # "vacated" => run[r].aside = None
           /\ ~By(run[r].aside, r)
           /\ run[r].pc # "exchanged" => ~By(Target(r), r) /\ (Temp(r) # None => Temp(r).by \in {r, "hand"})
           /\ run[r].pc = "exchanged" => ~By(Temp(r), r) /\ (Target(r) # None => Target(r).by \in {r, "hand"})
           /\ edits = 0 => /\ run[r].pc # "exchanged" => Temp(r) = run[r].doc
                           /\ run[r].pc = "exchanged" => Target(r) = run[r].doc
<1>1. Private(r) /\ run[r].dir \in Dirs /\ ~Landed(run[r]) /\ Name(r) \in Names /\ run[r].pc \in Recording \ {"open", "unlock"}
  BY SwapFacts DEF WaveInv, EveryPrivate
<1>2. ~By(run[r].aside, r)
  BY <1>1 DEF Private
<1>3. run[r].pc # "exchanged" => ~By(Target(r), r)
  BY <1>1 DEF Private, Target, At
<1>4. /\ run[r].pc # "exchanged" => (Temp(r) # None => Temp(r).by \in {r, "hand"})
      /\ run[r].pc = "exchanged" => ~By(Temp(r), r) /\ (Target(r) # None => Target(r).by \in {r, "hand"})
  BY <1>1 DEF Private, At
<1>5. edits = 0 => /\ run[r].pc # "exchanged" => Temp(r) = run[r].doc
                   /\ run[r].pc = "exchanged" => Target(r) = run[r].doc
  BY DEF WaveInv, Kept, At, Swapping, Staging
<1>6. run[r].pc # "vacated" => run[r].aside = None
  BY <1>1, AtPlace
<1> QED BY <1>2, <1>3, <1>4, <1>5, <1>6

\* Apart from where it is, what it has aside or displaced and whether it is sure, a run stays.
Same(r, v) ==
    /\ DOMAIN v = RunFields /\ v.dir = run[r].dir /\ v.wave = run[r].wave /\ v.doc = run[r].doc
    /\ v.write = run[r].write /\ v.passed = run[r].passed /\ v.spec = run[r].spec
    /\ v.note = run[r].note /\ v.skipped = run[r].skipped
    /\ v.prior = run[r].prior /\ v.path = run[r].path

LEMMA SameCarries == ASSUME WaveInv, NEW r \in Runs, run[r].pc \in Swapping, NEW v, Same(r, v),
                            v.pc \in {"exchanged", "vacated", "confirm", "discard", "unlock"},
                            v.aside \in Slot, v.over \in Slot, v.pc # "unlock" => v.sure,
                            v.pc \notin {"vacated", "unlock"} => v.aside = None,
                            v.pc \notin {"confirm", "unlock"} => v.over = None
                     PROVE  Carries(r, v)
<1>1. /\ Bears(run[r].wave, run[r].spec.claim, run[r].doc) /\ run[r].prior \in Slot /\ ~run[r].path
  BY SwapFacts
<1>2. v.pc \in Recording \ {"open", "prior"}
  BY DEF Recording, Locked, Swapping
<1> QED BY <1>1, <1>2 DEF Carries, Same

LEMMA CommitFailsInv == ASSUME WaveInv, NEW r \in Runs, CommitFails(r), UNCHANGED <<canon, flocked, edits>> PROVE WaveInv'
<1>1. run[r].pc = "swap" /\ run' = [run EXCEPT ![r].pc = "discard"] /\ UNCHANGED store
  BY DEF CommitFails, At
<1> QED BY <1>1, PcInv DEF Recording, Unwritten, Locked, Staging, Swapping

LEMMA StrandInv == ASSUME WaveInv, NEW r \in Runs, Strand(r), UNCHANGED <<canon, flocked, edits>> PROVE WaveInv'
<1>1. run[r].pc = "vacated" /\ run' = [run EXCEPT ![r].pc = "unlock"] /\ UNCHANGED store
  BY DEF Strand, At
<1> QED BY <1>1, PcInv DEF Recording, Unwritten, Locked, Staging, Swapping

\* The commit ends with the candidate in its place, or in doubt about it.
LEMMA EndInv == ASSUME WaveInv, NEW r \in Runs, run[r].pc \in Swapping, UNCHANGED <<canon, flocked, edits>>,
                       NEW v, Same(r, v), v.aside \in Slot, v.over \in Slot,
                       NEW target \in Slot, NEW temp \in Slot, Place(r, target, temp), run' = [run EXCEPT ![r] = v],
                       \A x \in {target, temp, v.aside, v.over} : x \in {None, Target(r), Temp(r), run[r].aside},
                       \/ v.pc = "unlock" /\ ~v.sure
                       \/ v.pc = "confirm" /\ v.sure /\ v.aside = None /\ (edits = 0 => target = run[r].doc),
                       edits = 0 => \A x \in Receipt :
                            x.by # r /\ (x \in {Target(r), run[r].aside} \/ (x = Temp(r) /\ At(r, "exchanged"))) =>
                                x \in {target, v.aside, v.over} \/ (x = temp /\ ~v.sure)
                PROVE  WaveInv'
<1>1. Carries(r, v)
  BY SameCarries
<1>2. Landed(v)
  BY DEF Landed
<1>3. edits = 0 =>
      /\ v.pc \in {"exchanged", "confirm"} => target = v.doc
      /\ v.pc = "vacated" => temp = v.doc
      /\ \A x \in Receipt :
          x.by # r /\ (x \in {Target(r), run[r].aside} \/ (x = Temp(r) /\ At(r, "exchanged"))) =>
              x \in {target, v.aside, v.over} \/ (x = temp /\ (v.pc = "exchanged" \/ ~v.sure))
  BY DEF Same
<1>4. Shifts(r, v, target, temp)
  BY <1>1, <1>2, <1>3 DEF Shifts, Same
<1> QED BY <1>4, ShiftInv

LEMMA InDoubtInv == ASSUME WaveInv, NEW r \in Runs, run[r].pc \in Swapping, UNCHANGED <<canon, flocked, edits>>,
                           NEW u, Same(r, u), u.aside \in Slot, u.over \in Slot, run' = [run EXCEPT ![r] = InDoubt(u)],
                           NEW target \in Slot, NEW temp \in Slot, Place(r, target, temp),
                           \A x \in {target, temp, u.aside, u.over} : x \in {None, Target(r), Temp(r), run[r].aside},
                           edits = 0 => \A x \in Receipt :
                                x.by # r /\ (x \in {Target(r), run[r].aside} \/ (x = Temp(r) /\ At(r, "exchanged"))) =>
                                    x \in {target, u.aside, u.over, temp}
                    PROVE  WaveInv'
<1> DEFINE v == InDoubt(u)
<1>1. Same(r, v) /\ v.aside = u.aside /\ v.over = u.over /\ v.pc = "unlock" /\ ~v.sure
  BY DEF Same, RunFields, InDoubt
<1>2. run' = [run EXCEPT ![r] = v]
  OBVIOUS
<1> HIDE DEF v
<1>3. /\ v.aside \in Slot /\ v.over \in Slot
      /\ \A x \in {target, temp, v.aside, v.over} : x \in {None, Target(r), Temp(r), run[r].aside}
  BY <1>1
<1>4. edits = 0 => \A x \in Receipt :
          x.by # r /\ (x \in {Target(r), run[r].aside} \/ (x = Temp(r) /\ At(r, "exchanged"))) =>
              x \in {target, v.aside, v.over} \/ (x = temp /\ ~v.sure)
  BY <1>1
<1> QED BY <1>1, <1>2, <1>3, <1>4, EndInv

LEMMA FinishInv == ASSUME WaveInv, NEW r \in Runs, run[r].pc \in Swapping, UNCHANGED <<canon, flocked, edits>>,
                          NEW u, Same(r, u), u.aside = None, u.over \in Slot, Finish(u, r),
                          NEW target \in Slot, NEW temp \in Slot, Place(r, target, temp),
                          \A x \in {target, temp, u.over} : x \in {None, Target(r), Temp(r), run[r].aside},
                          edits = 0 => target = run[r].doc,
                          edits = 0 => \A x \in Receipt :
                                x.by # r /\ (x \in {Target(r), run[r].aside} \/ (x = Temp(r) /\ At(r, "exchanged"))) =>
                                    x \in {target, u.over}
                   PROVE  WaveInv'
<1>1. PICK sure \in BOOLEAN :
        run' = [run EXCEPT ![r] = [u EXCEPT !.pc = IF sure THEN "confirm" ELSE "unlock", !.sure = sure]]
  BY DEF Finish
<1> DEFINE v == [u EXCEPT !.pc = IF sure THEN "confirm" ELSE "unlock", !.sure = sure]
<1>2. Same(r, v) /\ v.aside = None /\ v.over = u.over /\ v.pc = (IF sure THEN "confirm" ELSE "unlock") /\ v.sure = sure
  BY DEF Same, RunFields
<1>3. run' = [run EXCEPT ![r] = v]
  BY <1>1
<1>4. None \in Slot
  BY DEF Slot
<1> HIDE DEF v
<1>5. (v.pc = "unlock" /\ ~v.sure) \/ (v.pc = "confirm" /\ v.sure)
  BY <1>2
<1>6. \A x \in {target, temp, v.aside, v.over} : x \in {None, Target(r), Temp(r), run[r].aside}
  BY <1>2
<1>7. edits = 0 => \A x \in Receipt :
          x.by # r /\ (x \in {Target(r), run[r].aside} \/ (x = Temp(r) /\ At(r, "exchanged"))) =>
              x \in {target, v.aside, v.over} \/ (x = temp /\ ~v.sure)
  BY <1>2
<1> QED BY <1>2, <1>3, <1>4, <1>5, <1>6, <1>7, EndInv

\* Nothing moves.
LEMMA Unmoved == ASSUME WaveInv, NEW r \in Runs, run[r].pc \in Swapping, UNCHANGED store
                 PROVE  Place(r, Target(r), Temp(r))
<1> DEFINE d == run[r].dir
           n == Name(r)
<1>1. d \in Dirs /\ n \in Names /\ store \in [Dirs -> [Names \cup Runs -> Slot]]
  BY SwapFacts
<1> HIDE DEF d, n
<1>2. [store[d] EXCEPT ![n] = store[d][n], ![r] = store[d][r]] = store[d]
  BY <1>1
<1>3. store = [store EXCEPT ![d] = store[d]]
  BY <1>1
<1>4. store' = [store EXCEPT ![d] = [store[d] EXCEPT ![n] = store[d][n], ![r] = store[d][r]]]
  BY <1>2, <1>3
<1> QED BY <1>4 DEF Place, Target, Temp, d, n

LEMMA InstallAbsentInv == ASSUME WaveInv, NEW r \in Runs, InstallAbsent(r), UNCHANGED <<canon, flocked, edits>> PROVE WaveInv'
<1>1. /\ run[r].pc = "swap" /\ run[r].pc \in Swapping /\ Target(r) = None
      /\ Place(r, Temp(r), None) /\ Finish(run[r], r)
  BY DEF InstallAbsent, At, Swapping
<1>2. Same(r, run[r]) /\ run[r].over = None /\ Temp(r) \in Slot /\ None \in Slot
  BY <1>1, SwapFacts DEF Same, Slot
<1>3. run[r].aside = None /\ (edits = 0 => Temp(r) = run[r].doc)
  BY <1>1, SwapHas
<1>4. \A x \in Receipt : x # None
  BY Given
<1>5. \A x \in Receipt : ~(x \in {Target(r), run[r].aside} \/ (x = Temp(r) /\ At(r, "exchanged")))
  BY <1>1, <1>3, <1>4 DEF At
<1> QED BY <1>1, <1>2, <1>3, <1>5, FinishInv

\* The other steps that move receipts and go on.
LEMMA ExchangeInv == ASSUME WaveInv, NEW r \in Runs, Exchange(r), UNCHANGED <<canon, flocked, edits>> PROVE WaveInv'
<1>1. /\ run[r].pc = "swap" /\ run[r].pc \in Swapping
      /\ Place(r, Temp(r), Target(r)) /\ run' = [run EXCEPT ![r].pc = "exchanged"]
  BY DEF Exchange, At, Swapping
<1>2. /\ DOMAIN run[r] = RunFields /\ run[r].over = None /\ Temp(r) \in Slot /\ Target(r) \in Slot /\ None \in Slot
      /\ run[r].sure
  BY <1>1, SwapFacts DEF Slot
<1>3. /\ run[r].aside = None /\ (edits = 0 => Temp(r) = run[r].doc)
      /\ ~By(Target(r), r) /\ (Temp(r) # None => Temp(r).by \in {r, "hand"})
  BY <1>1, SwapHas
<1> DEFINE v == [run[r] EXCEPT !.pc = "exchanged"]
<1>4. Same(r, v) /\ v.pc = "exchanged" /\ v.aside = None /\ v.over = None /\ v.sure
  BY <1>2, <1>3 DEF Same, RunFields
<1>5. run' = [run EXCEPT ![r] = v]
  BY <1>1
<1> HIDE DEF v
<1>6. Carries(r, v)
  BY <1>1, <1>2, <1>4, SameCarries
<1>7. ~By(None, r)
  BY DEF By
<1>8. \A x \in Receipt : x # None
  BY Given
<1>9. Shifts(r, v, Temp(r), Target(r))
  BY <1>1, <1>3, <1>4, <1>5, <1>6, <1>7, <1>8 DEF Shifts, Same, At
<1> QED BY <1>2, <1>9, ShiftInv

LEMMA UndoInv == ASSUME WaveInv, NEW r \in Runs, Undo(r), UNCHANGED <<canon, flocked, edits>> PROVE WaveInv'
<1>1. /\ run[r].pc = "exchanged" /\ run[r].pc \in Swapping
      /\ Place(r, Temp(r), Target(r)) /\ run' = [run EXCEPT ![r].pc = "discard"]
  BY DEF Undo, At, Swapping
<1>2. /\ DOMAIN run[r] = RunFields /\ run[r].over = None /\ Temp(r) \in Slot /\ Target(r) \in Slot /\ None \in Slot
      /\ run[r].sure /\ run[r].doc.by = r
  BY <1>1, SwapFacts DEF Slot
<1>3. /\ run[r].aside = None /\ (edits = 0 => Target(r) = run[r].doc)
      /\ ~By(Temp(r), r) /\ (Target(r) # None => Target(r).by \in {r, "hand"})
  BY <1>1, SwapHas
<1> DEFINE v == [run[r] EXCEPT !.pc = "discard"]
<1>4. Same(r, v) /\ v.pc = "discard" /\ v.aside = None /\ v.over = None /\ v.sure
  BY <1>2, <1>3 DEF Same, RunFields
<1>5. run' = [run EXCEPT ![r] = v]
  BY <1>1
<1> HIDE DEF v
<1>6. Carries(r, v)
  BY <1>1, <1>2, <1>4, SameCarries
<1>7. ~By(None, r)
  BY DEF By
<1>8. \A x \in Receipt : x # None
  BY Given
<1>9. edits = 0 => \A x \in Receipt :
        x.by # r /\ (x \in {Target(r), run[r].aside} \/ (x = Temp(r) /\ At(r, "exchanged"))) => x = Temp(r)
  BY <1>2, <1>3, <1>8
<1>10. Shifts(r, v, Temp(r), Target(r))
  BY <1>1, <1>3, <1>4, <1>5, <1>6, <1>7, <1>9 DEF Shifts, Same
<1> QED BY <1>2, <1>10, ShiftInv

LEMMA MoveAsideInv == ASSUME WaveInv, NEW r \in Runs, MoveAside(r), UNCHANGED <<canon, flocked, edits>> PROVE WaveInv'
<1>1. /\ run[r].pc = "swap" /\ run[r].pc \in Swapping /\ Place(r, None, Temp(r))
      /\ run' = [run EXCEPT ![r].aside = Target(r), ![r].pc = "vacated"]
  BY DEF MoveAside, At, Swapping
<1>2. /\ DOMAIN run[r] = RunFields /\ DOMAIN run = Runs /\ run[r].over = None
      /\ Temp(r) \in Slot /\ Target(r) \in Slot /\ None \in Slot /\ run[r].sure
  BY <1>1, SwapFacts DEF Slot
<1>3. /\ run[r].aside = None /\ (edits = 0 => Temp(r) = run[r].doc)
      /\ ~By(Target(r), r) /\ (Temp(r) # None => Temp(r).by \in {r, "hand"})
  BY <1>1, SwapHas
<1> DEFINE v == [run[r] EXCEPT !.aside = Target(r), !.pc = "vacated"]
<1>4. Same(r, v) /\ v.pc = "vacated" /\ v.aside = Target(r) /\ v.over = None /\ v.sure
  BY <1>2 DEF Same, RunFields
<1>5. run' = [run EXCEPT ![r] = v]
  BY <1>1, <1>2 DEF RunFields
<1> HIDE DEF v
<1>6. Carries(r, v)
  BY <1>1, <1>2, <1>4, SameCarries
<1>7. ~By(None, r)
  BY DEF By
<1>8. \A x \in Receipt : x # None
  BY Given
<1>9. Shifts(r, v, None, Temp(r))
  BY <1>1, <1>3, <1>4, <1>5, <1>6, <1>7, <1>8 DEF Shifts, Same, At
<1> QED BY <1>2, <1>9, ShiftInv

LEMMA ReturnInv == ASSUME WaveInv, NEW r \in Runs, Return(r), UNCHANGED <<canon, flocked, edits>> PROVE WaveInv'
<1>1. /\ run[r].pc = "vacated" /\ run[r].pc \in Swapping /\ Target(r) = None /\ Place(r, run[r].aside, Temp(r))
      /\ run' = [run EXCEPT ![r].aside = None, ![r].pc = "discard"]
  BY DEF Return, At, Swapping
<1>2. /\ DOMAIN run[r] = RunFields /\ DOMAIN run = Runs /\ run[r].over = None
      /\ Temp(r) \in Slot /\ run[r].aside \in Slot /\ None \in Slot /\ run[r].sure
  BY <1>1, SwapFacts DEF Slot
<1>3. ~By(run[r].aside, r) /\ (Temp(r) # None => Temp(r).by \in {r, "hand"})
  BY <1>1, SwapHas
<1> DEFINE v == [run[r] EXCEPT !.aside = None, !.pc = "discard"]
<1>4. Same(r, v) /\ v.pc = "discard" /\ v.aside = None /\ v.over = None /\ v.sure
  BY <1>2 DEF Same, RunFields
<1>5. run' = [run EXCEPT ![r] = v]
  BY <1>1, <1>2 DEF RunFields
<1> HIDE DEF v
<1>6. Carries(r, v)
  BY <1>1, <1>2, <1>4, SameCarries
<1>7. ~By(None, r)
  BY DEF By
<1>8. \A x \in Receipt : x # None
  BY Given
<1>9. Shifts(r, v, run[r].aside, Temp(r))
  BY <1>1, <1>3, <1>4, <1>5, <1>6, <1>7, <1>8 DEF Shifts, Same, At
<1> QED BY <1>2, <1>9, ShiftInv

LEMMA AcceptInv == ASSUME WaveInv, NEW r \in Runs, Accept(r), UNCHANGED <<canon, flocked, edits>> PROVE WaveInv'
<1>1. run[r].pc = "exchanged" /\ run[r].pc \in Swapping /\ Temp(r) = run[r].prior
  BY DEF Accept, Undisturbed, At, Swapping
<1>2. /\ DOMAIN run[r] = RunFields /\ Temp(r) \in Slot /\ Target(r) \in Slot /\ None \in Slot /\ run[r].prior \in Slot
  BY <1>1, SwapFacts DEF Slot
<1>3. run[r].aside = None /\ (edits = 0 => Target(r) = run[r].doc)
  BY <1>1, SwapHas
<1> DEFINE u == [run[r] EXCEPT !.over = run[r].prior]
<1>4. Same(r, u) /\ u.aside = None /\ u.over = run[r].prior
  BY <1>2, <1>3 DEF Same, RunFields
<1>5. \/ Place(r, Target(r), None) /\ Finish(u, r)
      \/ run' = [run EXCEPT ![r] = InDoubt(u)] /\ UNCHANGED store
  BY DEF Accept
<1> HIDE DEF u
<1>6. \A x \in Receipt : x # None
  BY Given
<1>7. \A x \in Receipt : x \in {Target(r), run[r].aside} \/ x = Temp(r) => x \in {Target(r), u.over}
  BY <1>1, <1>3, <1>4, <1>6
<1>8. CASE Place(r, Target(r), None) /\ Finish(u, r)
  <2>1. \A x \in {Target(r), None, u.over} : x \in {None, Target(r), Temp(r), run[r].aside}
    BY <1>1, <1>4
  <2> QED BY <1>1, <1>2, <1>3, <1>4, <1>7, <1>8, <2>1, FinishInv
<1>9. CASE run' = [run EXCEPT ![r] = InDoubt(u)] /\ UNCHANGED store
  <2>1. \A x \in {Target(r), Temp(r), u.aside, u.over} : x \in {None, Target(r), Temp(r), run[r].aside}
    BY <1>1, <1>4
  <2>2. Place(r, Target(r), Temp(r))
    BY <1>1, <1>9, Unmoved
  <2> QED BY <1>1, <1>2, <1>4, <1>7, <1>9, <2>1, <2>2, InDoubtInv
<1> QED BY <1>5, <1>8, <1>9

LEMMA UndoFailsInv == ASSUME WaveInv, NEW r \in Runs, UndoFails(r), UNCHANGED <<canon, flocked, edits>> PROVE WaveInv'
<1>1. run[r].pc = "exchanged" /\ run[r].pc \in Swapping
  BY DEF UndoFails, At, Swapping
<1>2. /\ DOMAIN run[r] = RunFields /\ Temp(r) \in Slot /\ Target(r) \in Slot /\ None \in Slot /\ run[r].over = None
  BY <1>1, SwapFacts DEF Slot
<1>3. run[r].aside = None /\ (edits = 0 => Target(r) = run[r].doc)
  BY <1>1, SwapHas
<1>4. \A x \in Receipt : x # None
  BY Given
<1>5. CASE run' = [run EXCEPT ![r] = InDoubt(@)] /\ UNCHANGED store
  <2>1. Place(r, Target(r), Temp(r)) /\ run' = [run EXCEPT ![r] = InDoubt(run[r])]
    BY <1>1, <1>5, Unmoved
  <2>2. Same(r, run[r])
    BY <1>2 DEF Same
  <2> QED BY <1>1, <1>2, <1>3, <1>4, <2>1, <2>2, InDoubtInv
<1>6. CASE Target(r) = None /\ run' = [run EXCEPT ![r] = InDoubt(@)] /\ Place(r, Temp(r), None)
  <2>1. run' = [run EXCEPT ![r] = InDoubt(run[r])]
    BY <1>6
  <2>2. Same(r, run[r])
    BY <1>2 DEF Same
  <2> QED BY <1>1, <1>2, <1>3, <1>4, <1>6, <2>1, <2>2, InDoubtInv
<1>7. CASE run' = [run EXCEPT ![r] = InDoubt([@ EXCEPT !.aside = Target(r)])] /\ (Place(r, None, Temp(r)) \/ Place(r, Temp(r), None))
  <2> DEFINE u == [run[r] EXCEPT !.aside = Target(r)]
  <2>1. Same(r, u) /\ u.aside = Target(r) /\ u.over = None
    BY <1>2 DEF Same, RunFields
  <2>2. run' = [run EXCEPT ![r] = InDoubt(u)]
    BY <1>7
  <2> HIDE DEF u
  <2>3. CASE Place(r, None, Temp(r))
    BY <1>1, <1>2, <1>3, <1>4, <2>1, <2>2, <2>3, InDoubtInv
  <2>4. CASE Place(r, Temp(r), None)
    BY <1>1, <1>2, <1>3, <1>4, <2>1, <2>2, <2>4, InDoubtInv
  <2> QED BY <1>7, <2>3, <2>4
<1> QED BY <1>5, <1>6, <1>7 DEF UndoFails

LEMMA ReplaceInv == ASSUME WaveInv, NEW r \in Runs, Replace(r), UNCHANGED <<canon, flocked, edits>> PROVE WaveInv'
<1>1. /\ run[r].pc = "vacated" /\ run[r].pc \in Swapping /\ run[r].aside = run[r].prior /\ Target(r) = None
      /\ Place(r, Temp(r), None)
  BY DEF Replace, At, Swapping
<1>2. DOMAIN run[r] = RunFields /\ Temp(r) \in Slot /\ None \in Slot /\ run[r].prior \in Slot
  BY <1>1, SwapFacts DEF Slot
<1>3. edits = 0 => Temp(r) = run[r].doc
  BY <1>1, SwapHas
<1> DEFINE u == [run[r] EXCEPT !.over = run[r].prior]
           w == [u EXCEPT !.aside = None]
<1>4. Same(r, u) /\ u.aside = run[r].prior /\ u.over = run[r].prior /\ Same(r, w) /\ w.aside = None /\ w.over = run[r].prior
  BY <1>1, <1>2 DEF Same, RunFields
<1>5. Finish(w, r) \/ run' = [run EXCEPT ![r] = InDoubt(u)]
  BY DEF Replace
<1> HIDE DEF u, w
<1>6. \A x \in Receipt : x # None
  BY Given
<1>7. \A x \in Receipt : ~(x = Temp(r) /\ At(r, "exchanged")) /\ (x \in {Target(r), run[r].aside} => x = run[r].prior)
  BY <1>1, <1>6 DEF At
<1>8. CASE Finish(w, r)
  BY <1>1, <1>2, <1>3, <1>4, <1>7, <1>8, FinishInv
<1>9. CASE run' = [run EXCEPT ![r] = InDoubt(u)]
  BY <1>1, <1>2, <1>4, <1>7, <1>9, InDoubtInv
<1> QED BY <1>5, <1>8, <1>9

LEMMA CommitInv == ASSUME WaveInv, NEW r \in Runs, Commit(r) PROVE WaveInv'
<1>1. UNCHANGED <<canon, flocked, edits>>
  BY DEF Commit
<1>2. CASE InstallAbsent(r) \/ CommitFails(r)
  BY <1>1, <1>2, InstallAbsentInv, CommitFailsInv
<1>3. CASE Exchange(r) \/ Accept(r) \/ Undo(r) \/ UndoFails(r)
  BY <1>1, <1>3, ExchangeInv, AcceptInv, UndoInv, UndoFailsInv
<1>4. CASE MoveAside(r) \/ Replace(r) \/ Return(r) \/ Strand(r)
  BY <1>1, <1>4, MoveAsideInv, ReplaceInv, ReturnInv, StrandInv
<1> QED BY <1>2, <1>3, <1>4 DEF Commit

-----------------------------------------------------------------------------
(* The process, and the people around it.                                  *)

LEMMA DieInv == ASSUME WaveInv, NEW p \in Procs, Die(p) PROVE WaveInv'
<1> DEFINE dying == {r \in Runs : run[r].proc = p /\ Active(r)}
<1>1. /\ run' = [r \in Runs |-> IF r \in dying THEN [run[r] EXCEPT !.pc = "dead"] ELSE run[r]]
      /\ flocked' = [d \in Dirs |-> IF flocked[d] \in dying THEN None ELSE flocked[d]]
      /\ UNCHANGED <<canon, store, edits>>
  BY DEF Die
<1>2. \A r \in dying : r \in Runs /\ run[r].pc \notin {"idle", "done", "dead"}
  BY DEF Active
<1> HIDE DEF dying
<1>3. /\ DOMAIN run' = Runs
      /\ \A r \in Runs : r \notin dying => run'[r] = run[r]
      /\ \A r \in dying : r \in Runs /\ run'[r] = [run[r] EXCEPT !.pc = "dead"]
  BY <1>1, <1>2
<1>4. ASSUME NEW r \in Runs
      PROVE  /\ DOMAIN run'[r] = RunFields
             /\ run'[r].wave = run[r].wave /\ run'[r].write = run[r].write /\ run'[r].spec = run[r].spec
             /\ run'[r].doc = run[r].doc /\ run'[r].passed = run[r].passed /\ run'[r].skipped = run[r].skipped
             /\ run'[r].dir = run[r].dir /\ run'[r].prior = run[r].prior /\ run'[r].path = run[r].path
             /\ run'[r].sure = run[r].sure /\ run'[r].note = run[r].note /\ run'[r].aside = run[r].aside
             /\ run'[r].over = run[r].over
             /\ (r \in dying /\ run'[r].pc = "dead") \/ (r \notin dying /\ run'[r] = run[r])
  <2>1. DOMAIN run[r] = RunFields
    BY DEF WaveInv, Shape
  <2>2. CASE r \in dying
    <3>1. run'[r] = [run[r] EXCEPT !.pc = "dead"]
      BY <1>3, <2>2
    <3> QED BY <2>1, <2>2, <3>1 DEF RunFields
  <2>3. CASE r \notin dying
    BY <1>3, <2>1, <2>3
  <2> QED BY <2>2, <2>3
<1>5. Shape'
  <2>1. ASSUME NEW r \in Runs
        PROVE  /\ DOMAIN run'[r] = RunFields /\ run'[r].pc \in Places /\ run'[r].wave \in Waves
               /\ {run'[r].doc, run'[r].prior, run'[r].aside, run'[r].over} \subseteq Slot
               /\ run'[r].dir \in Dirs \cup {None}
    BY <1>4 DEF WaveInv, Shape, Places
  <2> QED BY <1>1, <1>3, <2>1 DEF WaveInv, Shape
<1>6. EveryHolds'
  <2>1. ASSUME NEW r \in Runs PROVE Holds(r)'
    <3>1. Holds(r)
      BY DEF WaveInv, EveryHolds
    <3>2. CASE r \in dying
      <4>1. run'[r].pc = "dead" /\ run'[r].pc \notin Early \cup Recording
        BY <1>4, <3>2 DEF Early, Recording, Unwritten, Locked, Staging, Swapping
      <4> QED BY <1>4, <3>1, <4>1 DEF Holds, Swapping
    <3>3. CASE r \notin dying
      <4>1. run'[r] = run[r]
        BY <1>3, <3>3
      <4> QED BY <3>1, <4>1 DEF Holds, Status
    <3> QED BY <3>2, <3>3
  <2> QED BY <2>1 DEF EveryHolds
<1>7. ASSUME NEW r \in Runs, Proven(r) PROVE Proven(r)'
  <2>1. run'[r].pc \notin Early \cup Unwritten \cup {"validate"}
    BY <1>4, <1>7 DEF Proven, Early, Unwritten
  <2> QED BY <1>4, <1>7, <2>1 DEF Proven
<1>8. Traced' /\ Temps'
  <2>1. ASSUME NEW x, Cleared(x) PROVE x # None /\ x.by \in Runs => Proven(x.by)'
    BY <1>7, <2>1 DEF Cleared
  <2>2. ASSUME NEW x, NEW n, Fits(x, n) PROVE x # None /\ x.by \in Runs => x = run'[x.by].doc /\ Path[run'[x.by].wave] = n
    BY <1>4, <2>2 DEF Fits, Name
  <2>3. ASSUME NEW d \in Dirs, NEW n \in Names PROVE (Fits(store[d][n], n) /\ Cleared(store[d][n]))'
    <3>1. store'[d][n] = store[d][n] /\ Fits(store[d][n], n) /\ Cleared(store[d][n])
      BY <1>1 DEF WaveInv, Traced
    <3> QED BY <2>1, <2>2, <3>1 DEF Fits, Cleared, Name
  <2>4. ASSUME NEW d \in Dirs, NEW q \in Runs
        PROVE  (Fits(store[d][q], Name(q)) /\ (By(store[d][q], q) \/ Cleared(store[d][q])))'
    <3>1. store'[d][q] = store[d][q] /\ Fits(store[d][q], Name(q)) /\ (By(store[d][q], q) \/ Cleared(store[d][q]))
      BY <1>1 DEF WaveInv, Traced
    <3>2. Fits(store[d][q], Name(q))'
      BY <1>4, <2>2, <3>1 DEF Fits, Name
    <3> QED BY <2>1, <3>1, <3>2 DEF Cleared, By
  <2>5. ASSUME NEW q \in Runs
        PROVE  (Fits(run[q].aside, Name(q)) /\ Cleared(run[q].aside) /\ Cleared(run[q].over))'
    <3>1. /\ run'[q].aside = run[q].aside /\ run'[q].over = run[q].over /\ run'[q].wave = run[q].wave
          /\ Fits(run[q].aside, Name(q)) /\ Cleared(run[q].aside) /\ Cleared(run[q].over)
      BY <1>4 DEF WaveInv, Traced
    <3> QED BY <2>1, <2>2, <3>1 DEF Fits, Cleared, Name
  <2>6. Temps'
    <3> SUFFICES ASSUME NEW r \in Runs, NEW d \in Dirs, store[d][r] # None
                 PROVE  /\ run'[r].pc \notin Early \cup Unwritten
                        /\ run'[r].pc = "validate" => LET x == store[d][r] IN
                              /\ x.contract = run'[r].doc.contract /\ x.wave = run'[r].doc.wave
                              /\ x.shows \subseteq run'[r].doc.shows
      BY <1>1 DEF Temps, At
    <3>1. CASE r \in dying
      BY <1>4, <3>1 DEF Early, Unwritten
    <3>2. CASE r \notin dying
      BY <1>3, <3>2 DEF WaveInv, Temps, At
    <3> QED BY <3>1, <3>2
  <2> QED BY <2>3, <2>4, <2>5, <2>6 DEF Traced
<1>9. EveryPrivate'
  <2>1. ASSUME NEW r \in Runs PROVE Private(r)'
    <3>1. CASE r \in dying
      <4>1. Landed(run'[r])
        BY <1>4, <3>1 DEF Landed
      <4> QED BY <4>1 DEF Private
    <3>2. CASE r \notin dying
      <4>1. run'[r] = run[r] /\ Private(r) /\ store' = store
        BY <1>1, <1>3, <3>2 DEF WaveInv, EveryPrivate
      <4>2. \A q \in Runs : run'[q].dir = run[q].dir /\ run'[q].aside = run[q].aside /\ run'[q].over = run[q].over
        BY <1>4
      <4> QED BY <4>1, <4>2 DEF Private, At, Target, Temp, Name
    <3> QED BY <3>1, <3>2
  <2> QED BY <2>1 DEF EveryPrivate
<1>10. Mutex'
  <2>1. DOMAIN flocked' = Dirs
    BY <1>1
  <2>2. ASSUME NEW r \in Runs, run'[r].pc \in Locked PROVE flocked'[run'[r].dir] = r
    <3>1. r \notin dying /\ run'[r] = run[r]
      BY <1>4, <2>2 DEF Locked, Staging, Swapping
    <3>2. flocked[run[r].dir] = r /\ run[r].dir \in Dirs
      BY <2>2, <3>1, AtPlace DEF WaveInv, Mutex, Recording, Unwritten, Locked, Staging, Swapping
    <3> QED BY <1>1, <3>1, <3>2
  <2> QED BY <2>1, <2>2 DEF Mutex
<1>11. Kept'
  <2> SUFFICES ASSUME edits = 0, NEW q \in Runs
               PROVE  /\ run'[q].dir # None => run'[q].dir = canon
                      /\ run'[q].pc \in Staging \cup {"vacated"} => Temp(q)' = run'[q].doc
                      /\ run'[q].pc = "exchanged" => Target(q)' = run'[q].doc
                      /\ run'[q].pc = "confirm" \/ (run'[q].path /\ run'[q].doc # None) =>
                              Installed(q)' \/ Displaced(q)' \/ HeldAside(q)'
    BY <1>1 DEF Kept, At
  <2>1. /\ run[q].dir # None => run[q].dir = canon
        /\ run[q].pc \in Staging \cup {"vacated"} => Temp(q) = run[q].doc
        /\ run[q].pc = "exchanged" => Target(q) = run[q].doc
        /\ run[q].pc = "confirm" \/ (run[q].path /\ run[q].doc # None) =>
                Installed(q) \/ Displaced(q) \/ HeldAside(q)
    BY DEF WaveInv, Kept, At
  <2>2. run'[q].pc \in Staging \cup {"exchanged", "vacated", "confirm"} => run'[q] = run[q]
    BY <1>4 DEF Staging
  <2>3. run'[q].dir = run[q].dir /\ run'[q].doc = run[q].doc /\ run'[q].path = run[q].path
    BY <1>4
  <2>4. run'[q].pc \in Staging \cup {"vacated"} => Temp(q)' = run'[q].doc
    BY <1>1, <2>1, <2>2 DEF Temp
  <2>5. run'[q].pc = "exchanged" => Target(q)' = run'[q].doc
    BY <1>1, <2>1, <2>2 DEF Target, Name
  <2>6. Installed(q) => Installed(q)'
    BY <1>1, <2>3 DEF Installed
  <2>7. Displaced(q) => Displaced(q)'
    BY <1>4 DEF Displaced
  <2>8. HeldAside(q) => HeldAside(q)'
    <3>1. ASSUME NEW t \in Runs, run[t].pc \in {"exchanged", "dead"} \/ ~run[t].sure
          PROVE  run'[t].pc \in {"exchanged", "dead"} \/ ~run'[t].sure
      BY <1>4, <3>1
    <3>2. \A t \in Runs : run'[t].aside = run[t].aside
      BY <1>4
    <3> QED BY <1>1, <2>3, <3>1, <3>2 DEF HeldAside
  <2> QED BY <2>1, <2>2, <2>3, <2>4, <2>5, <2>6, <2>7, <2>8
<1>12. Staged'
  <2> SUFFICES ASSUME NEW r \in Runs, run'[r].pc \notin Early, run'[r].passed, ~run'[r].skipped,
                      First[run'[r].wave].claim.kind = "runtime"
               PROVE  run'[r].doc # None /\ "full" \in run'[r].doc.shows
    BY DEF Staged
  <2>1. run[r].passed /\ ~run[r].skipped /\ First[run[r].wave].claim.kind = "runtime"
    BY <1>4
  <2>2. run[r].pc \notin Early
    BY <2>1 DEF WaveInv, EveryHolds, Holds
  <2> QED BY <1>4, <2>1, <2>2 DEF WaveInv, Staged
<1>13. TagIsEarned'
  <2>1. \A r \in Runs : run'[r].pc = "done" => run'[r] = run[r]
    BY <1>4
  <2> QED BY <2>1 DEF WaveInv, TagIsEarned, At
<1> QED BY <1>5, <1>6, <1>8, <1>9, <1>10, <1>11, <1>12, <1>13 DEF WaveInv

\* While the runs stay, the invariant depends on the files alone.
LEMMA RunsStay == ASSUME WaveInv, UNCHANGED <<run, flocked>> PROVE EveryHolds' /\ Staged' /\ TagIsEarned' /\ Mutex'
<1>1. ASSUME NEW r \in Runs PROVE Holds(r)'
  <2>1. Holds(r) /\ run'[r] = run[r]
    BY DEF WaveInv, EveryHolds
  <2> QED BY <2>1 DEF Holds, Status
<1>2. Staged'
  BY DEF WaveInv, Staged
<1>3. TagIsEarned'
  BY DEF WaveInv, TagIsEarned, At
<1>4. Mutex'
  BY DEF WaveInv, Mutex
<1> QED BY <1>1, <1>2, <1>3, <1>4 DEF EveryHolds

LEMMA FilesTraced == ASSUME WaveInv, UNCHANGED run,
                            \A d \in Dirs, n \in Names : Fits(store'[d][n], n) /\ Cleared(store'[d][n]),
                            \A d \in Dirs, q \in Runs : Fits(store'[d][q], Name(q)) /\ (By(store'[d][q], q) \/ Cleared(store'[d][q]))
                     PROVE  Traced'
<1>1. \A q \in Runs : Proven(q) => Proven(q)'
  BY DEF Proven
<1>2. ASSUME NEW d \in Dirs, NEW n \in Names PROVE (Fits(store[d][n], n) /\ Cleared(store[d][n]))'
  BY <1>1 DEF Fits, Cleared, Name
<1>3. ASSUME NEW d \in Dirs, NEW q \in Runs
      PROVE  (Fits(store[d][q], Name(q)) /\ (By(store[d][q], q) \/ Cleared(store[d][q])))'
  BY <1>1 DEF Fits, Cleared, Name, By
<1>4. ASSUME NEW q \in Runs PROVE (Fits(run[q].aside, Name(q)) /\ Cleared(run[q].aside) /\ Cleared(run[q].over))'
  <2>1. Fits(run[q].aside, Name(q)) /\ Cleared(run[q].aside) /\ Cleared(run[q].over)
    BY DEF WaveInv, Traced
  <2> QED BY <1>1, <2>1 DEF Fits, Cleared, Name
<1> QED BY <1>2, <1>3, <1>4 DEF Traced

\* A directory that nobody touched is as private as before.
LEMMA FilesPrivate == ASSUME WaveInv, UNCHANGED run, NEW r \in Runs, run[r].dir \in Dirs => store'[run[r].dir] = store[run[r].dir]
                      PROVE  Private(r)'
<1>1. Private(r)
  BY DEF WaveInv, EveryPrivate
<1>2. Landed(run'[r]) = Landed(run[r])
  OBVIOUS
<1> QED BY <1>1, <1>2 DEF Private, At, Target, Temp, Name

\* What people do reaches the invariant through the files alone.
LEMMA EditedInv == ASSUME WaveInv, UNCHANGED <<run, flocked>>, edits' = edits + 1, canon' \in Dirs,
                          store' \in [Dirs -> [Names \cup Runs -> Slot]], Traced', Temps', EveryPrivate'
                   PROVE  WaveInv'
<1>1. Shape'
  <2>1. ASSUME NEW r \in Runs
        PROVE  /\ DOMAIN run'[r] = RunFields /\ run'[r].pc \in Places /\ run'[r].wave \in Waves
               /\ {run'[r].doc, run'[r].prior, run'[r].aside, run'[r].over} \subseteq Slot
               /\ run'[r].dir \in Dirs \cup {None}
    BY DEF WaveInv, Shape
  <2>2. DOMAIN run' = Runs /\ edits' \in Nat
    BY DEF WaveInv, Shape
  <2> QED BY <2>1, <2>2 DEF Shape
<1>2. EveryHolds' /\ Staged' /\ TagIsEarned' /\ Mutex'
  BY RunsStay
<1>3. edits' # 0
  BY DEF WaveInv, Shape
<1>4. Kept'
  BY <1>3 DEF Kept
<1> QED BY <1>1, <1>2, <1>4 DEF WaveInv

LEMMA FilesStay == ASSUME WaveInv, UNCHANGED <<run, store>> PROVE Traced' /\ Temps' /\ EveryPrivate'
<1>1. Traced'
  BY FilesTraced DEF WaveInv, Traced
<1>2. Temps'
  BY DEF WaveInv, Temps, At
<1>3. EveryPrivate'
  BY FilesPrivate DEF EveryPrivate
<1> QED BY <1>1, <1>2, <1>3

LEMMA NoFileInv == ASSUME WaveInv, UNCHANGED <<run, flocked, store, canon>>, edits' = edits + 1 PROVE WaveInv'
<1>1. canon' \in Dirs /\ store' \in [Dirs -> [Names \cup Runs -> Slot]]
  BY DEF WaveInv, Shape
<1> QED BY <1>1, FilesStay, EditedInv

LEMMA EditReceiptInv == ASSUME WaveInv, NEW n \in Names \cup Runs, EditReceipt(n) PROVE WaveInv'
<1> DEFINE old == store[canon][n]
<1>1. PICK x \in {None, [old EXCEPT !.by = "hand"], [old EXCEPT !.by = "hand", !.shows = {}]} :
        store' = [store EXCEPT ![canon][n] = x]
  BY DEF EditReceipt, Put
<1>2. /\ UNCHANGED <<run, flocked, canon>> /\ edits' = edits + 1 /\ canon \in Dirs /\ old \in Receipt
      /\ store \in [Dirs -> [Names \cup Runs -> Slot]]
  <2>1. UNCHANGED <<run, flocked, canon>> /\ edits' = edits + 1 /\ old # None
    BY DEF EditReceipt
  <2>2. canon \in Dirs /\ store \in [Dirs -> [Names \cup Runs -> Slot]]
    BY DEF WaveInv, Shape
  <2>3. old \in Slot
    BY <2>2
  <2> QED BY <2>1, <2>2, <2>3 DEF Slot
<1>3. x # None => x \in Receipt /\ x.by = "hand" /\ x.wave = old.wave /\ x.contract = old.contract /\ x.shows \subseteq old.shows
  BY <1>2 DEF Receipt, Makers
<1>o. old = store[canon][n]
  OBVIOUS
<1> HIDE DEF old
<1>4. /\ store' \in [Dirs -> [Names \cup Runs -> Slot]] /\ store'[canon][n] = x
      /\ \A d \in Dirs, m \in Names \cup Runs : d # canon \/ m # n => store'[d][m] = store[d][m]
  BY <1>1, <1>2, <1>3 DEF Slot
<1>5. ASSUME NEW m PROVE (\A q \in Runs : ~By(x, q)) /\ Fits(x, m) /\ Cleared(x)
  BY <1>3, Given DEF By, Fits, Cleared
<1>6. ASSUME NEW d \in Dirs, NEW m \in Names \cup Runs PROVE store'[d][m] = store[d][m] \/ (d = canon /\ m = n /\ store'[d][m] = x)
  BY <1>4
<1>7. Traced'
  <2>1. \A d \in Dirs, m \in Names : Fits(store'[d][m], m) /\ Cleared(store'[d][m])
    BY <1>5, <1>6 DEF WaveInv, Traced
  <2>2. \A d \in Dirs, q \in Runs : Fits(store'[d][q], Name(q)) /\ (By(store'[d][q], q) \/ Cleared(store'[d][q]))
    BY <1>5, <1>6 DEF WaveInv, Traced
  <2> QED BY <1>2, <2>1, <2>2, FilesTraced
<1>8. Temps'
  <2> SUFFICES ASSUME NEW r \in Runs, NEW d \in Dirs, store'[d][r] # None
               PROVE  /\ run[r].pc \notin Early \cup Unwritten
                      /\ run[r].pc = "validate" => LET y == store'[d][r] IN
                            y.contract = run[r].doc.contract /\ y.wave = run[r].doc.wave /\ y.shows \subseteq run[r].doc.shows
    BY <1>2 DEF Temps, At
  <2>1. CASE store'[d][r] = store[d][r]
    BY <2>1 DEF WaveInv, Temps, At
  <2>2. CASE d = canon /\ r = n /\ store'[d][r] = x
    <3>1. store[canon][r] # None /\ store[canon][r] = old
      BY <1>2, <1>o, <2>2, Given
    <3>2. /\ run[r].pc \notin Early \cup Unwritten
          /\ run[r].pc = "validate" => LET y == old IN
                y.contract = run[r].doc.contract /\ y.wave = run[r].doc.wave /\ y.shows \subseteq run[r].doc.shows
      BY <2>2, <3>1 DEF WaveInv, Temps, At
    <3> QED BY <1>2, <1>3, <2>2, <3>1, <3>2
  <2> QED BY <1>6, <2>1, <2>2
<1>9. EveryPrivate'
  <2> SUFFICES ASSUME NEW r \in Runs, run[r].dir \in Dirs, ~Landed(run[r])
               PROVE  LET d == run[r].dir IN
                      /\ \A m \in Names : By(store'[d][m], r) => run[r].pc = "exchanged"
                      /\ \A q \in Runs \ {r} : ~By(store'[d][q], r)
                      /\ \A q \in Runs : run[q].dir = d => ~By(run[q].aside, r) /\ ~By(run[q].over, r)
                      /\ run[r].pc = "exchanged" => ~By(store'[d][r], r) /\ (store'[d][Path[run[r].wave]] # None =>
                            store'[d][Path[run[r].wave]].by \in {r, "hand"})
                      /\ run[r].pc # "exchanged" => (store'[d][r] # None => store'[d][r].by \in {r, "hand"})
    BY <1>2 DEF EveryPrivate, Private, At, Target, Temp, Name, Landed, By
  <2> DEFINE d == run[r].dir
  <2>1. d \in Dirs /\ Private(r) /\ Path[run[r].wave] \in Names
    BY Given DEF WaveInv, EveryPrivate, Shape
  <2>2. \A m \in Names : By(store[d][m], r) => run[r].pc = "exchanged"
    BY <2>1 DEF Private, At
  <2>3. \A q \in Runs \ {r} : ~By(store[d][q], r)
    BY <2>1 DEF Private
  <2>4. \A q \in Runs : run[q].dir = d => ~By(run[q].aside, r) /\ ~By(run[q].over, r)
    BY <2>1 DEF Private
  <2>5. /\ run[r].pc = "exchanged" => ~By(store[d][r], r) /\ (store[d][Path[run[r].wave]] # None =>
                            store[d][Path[run[r].wave]].by \in {r, "hand"})
        /\ run[r].pc # "exchanged" => (store[d][r] # None => store[d][r].by \in {r, "hand"})
    BY <2>1 DEF Private, At, Target, Temp, Name
  <2>d. d = run[r].dir
    OBVIOUS
  <2> HIDE DEF d
  <2>6. \A m \in Names \cup Runs : store'[d][m] = store[d][m] \/ ((\A q \in Runs : ~By(store'[d][m], q)) /\ (store'[d][m] # None => store'[d][m].by = "hand"))
    BY <1>3, <1>5, <1>6, <2>1
  <2> QED BY <2>1, <2>2, <2>3, <2>4, <2>5, <2>6, <2>d DEF By
<1> QED BY <1>2, <1>4, <1>7, <1>8, <1>9, EditedInv

LEMMA ReplaceDirectoryInv == ASSUME WaveInv, ReplaceDirectory PROVE WaveInv'
<1>1. PICK d \in Dirs : /\ canon' = d
                        /\ \/ UNCHANGED store
                           \/ (\A r \in Runs : run[r].dir # d) /\ store' = [store EXCEPT ![d] = store[canon]]
  BY DEF ReplaceDirectory
<1>2. UNCHANGED <<run, flocked>> /\ edits' = edits + 1 /\ canon \in Dirs /\ store \in [Dirs -> [Names \cup Runs -> Slot]]
  BY DEF ReplaceDirectory, WaveInv, Shape
<1>3. /\ store' \in [Dirs -> [Names \cup Runs -> Slot]]
      /\ \A e \in Dirs : store'[e] = store[e] \/ (store'[e] = store[canon] /\ \A r \in Runs : run[r].dir # e)
  BY <1>1, <1>2
<1>4. \A e \in Dirs : \E f \in Dirs : store'[e] = store[f]
  BY <1>2, <1>3
<1>5. Traced' /\ Temps'
  <2>1. \A e \in Dirs, m \in Names : Fits(store'[e][m], m) /\ Cleared(store'[e][m])
    BY <1>4 DEF WaveInv, Traced
  <2>2. \A e \in Dirs, q \in Runs : Fits(store'[e][q], Name(q)) /\ (By(store'[e][q], q) \/ Cleared(store'[e][q]))
    BY <1>4 DEF WaveInv, Traced
  <2>3. Traced'
    BY <1>2, <2>1, <2>2, FilesTraced
  <2>4. Temps'
    BY <1>2, <1>4 DEF WaveInv, Temps, At
  <2> QED BY <2>3, <2>4
<1>6. EveryPrivate'
  <2>1. \A r \in Runs : run[r].dir \in Dirs => store'[run[r].dir] = store[run[r].dir]
    BY <1>3
  <2> QED BY <1>2, <2>1, FilesPrivate DEF EveryPrivate
<1> QED BY <1>1, <1>2, <1>3, <1>5, <1>6, EditedInv

LEMMA StepInv == ASSUME WaveInv, [Next]_vars PROVE WaveInv'
<1>1. CASE \E r \in Runs : Begin(r)
  BY <1>1, BeginInv
<1>2. ASSUME NEW r \in Runs, Advance(r) PROVE WaveInv'
  <2>1. CASE Gate(r) \/ Open(r) \/ ReadPrior(r) \/ LockThread(r) \/ LockDirectory(r)
    BY <2>1, GateInv, OpenInv, ReadPriorInv, LockThreadInv, LockDirectoryInv
  <2>2. CASE WriteTemp(r) \/ Validate(r) \/ Verify(r) \/ Commit(r) \/ Confirm(r) \/ Unlock(r)
    BY <2>2, WriteTempInv, ValidateInv, VerifyInv, CommitInv, ConfirmInv, UnlockInv
  <2> QED BY <1>2, <2>1, <2>2 DEF Advance
<1>3. CASE \E p \in Procs : Die(p)
  BY <1>3, DieInv
<1>4. CASE (\E r \in Runs : EditManifest(run[r].wave)) \/ Publish
  <2>1. UNCHANGED <<run, flocked, store, canon>> /\ edits' = edits + 1
    BY <1>4 DEF EditManifest, Publish
  <2> QED BY <2>1, NoFileInv
<1>5. CASE \E n \in Names \cup Runs : EditReceipt(n)
  BY <1>5, EditReceiptInv
<1>6. CASE ReplaceDirectory
  BY <1>6, ReplaceDirectoryInv
<1>7. CASE UNCHANGED vars
  <2>1. UNCHANGED <<canon, store, flocked, run, edits>>
    BY <1>7 DEF vars
  <2>2. EveryHolds' /\ Mutex' /\ Staged' /\ TagIsEarned' /\ Traced' /\ Temps' /\ EveryPrivate'
    BY <2>1, RunsStay, FilesStay
  <2>3. Shape'
    BY <2>1 DEF WaveInv, Shape
  <2>4. Kept'
    BY <2>1 DEF WaveInv, Kept, At, Temp, Target, Name, Installed, Displaced, HeldAside
  <2> QED BY <2>2, <2>3, <2>4 DEF WaveInv
<1> QED BY <1>1, <1>2, <1>3, <1>4, <1>5, <1>6, <1>7 DEF Next

-----------------------------------------------------------------------------
(* The theorems.                                                           *)

\* The invariant holds in every state of every behaviour.
THEOREM InvAlways == Spec => []WaveInv
<1>1. Init => WaveInv
  BY InitInv
<1>2. WaveInv /\ [Next]_vars => WaveInv'
  BY StepInv
<1> QED BY <1>1, <1>2, PTL DEF Spec

\* However the runs, the failures, the deaths and the edits interleave, what a run left under a
\* receipt name, between an exchange and its undo too, came from a requested run of the wave that
\* owns the name, whose gate passed, and bears the claim it was judged by (_record_evidence,
\* waves.py).
THEOREM InstalledIsValidatedAlways == Spec => []InstalledIsValidated
<1>1. ASSUME WaveInv PROVE InstalledIsValidated
  <2> SUFFICES ASSUME NEW d \in Dirs, NEW n \in Names, store[d][n] # None, store[d][n].by \in Runs
               PROVE  LET x == store[d][n] IN
                      /\ run[x.by].write /\ run[x.by].passed
                      /\ Owners(n) = {x.wave}
                      /\ Bears(x.wave, run[x.by].spec.claim, x)
    BY DEF InstalledIsValidated
  <2> DEFINE x == store[d][n]
             r == x.by
  <2>1. x = run[r].doc /\ Path[run[r].wave] = n /\ Proven(r)
    BY <1>1 DEF WaveInv, Traced, Fits, Cleared, Name
  <2>2. run[r].doc.wave = run[r].wave
    BY <1>1, <2>1 DEF WaveInv, EveryHolds, Holds, Proven
  <2> HIDE DEF x, r
  <2>3. run[r].write /\ run[r].passed /\ Owners(n) = {x.wave} /\ Bears(x.wave, run[r].spec.claim, x)
    BY <2>1, <2>2 DEF Proven
  <2> QED BY <2>3 DEF x, r
<1> QED BY <1>1, InvAlways, PTL

\* A status that says nothing was written is true of the directory that the run had pinned,
\* whatever failed in the commit and whoever else recorded beside it: its receipt is under no
\* receipt name, no run has moved it aside or taken its place (_record_status, waves.py, and
\* commit_replacement, txn.py).
THEOREM RefusalLeftNothingAlways == Spec => []RefusalLeftNothing
<1>1. ASSUME WaveInv PROVE RefusalLeftNothing
  <2> SUFFICES ASSUME NEW r \in Runs, At(r, "done"), run[r].status \notin {"recorded", "committed_unverified"},
                      run[r].dir \in Dirs
               PROVE  LET d == run[r].dir IN
                      /\ \A n \in (Names \cup Runs) \ {r} : ~By(store[d][n], r)
                      /\ \A q \in Runs : run[q].dir = d => ~By(run[q].aside, r) /\ ~By(run[q].over, r)
                      /\ store[d][r] # None => store[d][r].by \in {r, "hand"}
    BY DEF RefusalLeftNothing
  <2>1. Holds(r) /\ Private(r) /\ run[r].pc = "done"
    BY <1>1 DEF WaveInv, EveryHolds, EveryPrivate, At
  <2>2. run[r].doc # None /\ run[r].status = Status(run[r])
    BY <2>1, Given DEF Holds
  <2>3. run[r].path => run[r].write /\ ~run[r].note
    BY <2>1, <2>2 DEF Holds
  <2>4. run[r].sure /\ ~run[r].path
    BY <2>2, <2>3 DEF Status
  <2>5. ~Landed(run[r])
    BY <2>1, <2>4 DEF Landed
  <2>6. \A n \in Names : ~By(store[run[r].dir][n], r)
    BY <2>1, <2>5 DEF Private, At
  <2>7. /\ \A q \in Runs \ {r} : ~By(store[run[r].dir][q], r)
        /\ \A q \in Runs : run[q].dir = run[r].dir => ~By(run[q].aside, r) /\ ~By(run[q].over, r)
    BY <2>1, <2>5 DEF Private
  <2>8. store[run[r].dir][r] # None => store[run[r].dir][r].by \in {r, "hand"}
    BY <2>1, <2>5 DEF Private, At, Temp
  <2> QED BY <2>6, <2>7, <2>8
<1> QED BY <1>1, InvAlways, PTL

\* While no person is at the files, a receipt reported as recorded is not lost to other runs,
\* whatever fails and whichever processes die: it is installed, or a run that had read exactly
\* it took its place, or a commit that did not end well has it under another name
\* (commit_replacement, txn.py, as _record_evidence, waves.py, calls it).
THEOREM RecordedIsKeptAlways == Spec => []RecordedIsKept
<1>1. ASSUME WaveInv PROVE RecordedIsKept
  <2> SUFFICES ASSUME NEW r \in Runs, At(r, "done"), run[r].status = "recorded", edits = 0
               PROVE  Installed(r) \/ Displaced(r) \/ HeldAside(r)
    BY DEF RecordedIsKept
  <2>0. Holds(r) /\ Kept /\ run[r].pc = "done"
    BY <1>1 DEF WaveInv, EveryHolds, At
  <2>1. run[r].status = Status(run[r])
    BY <2>0 DEF Holds
  <2>2. run[r].path /\ run[r].write /\ ~run[r].note
    BY <2>1 DEF Status
  <2>3. run[r].doc # None
    BY <2>0, <2>2 DEF Holds
  <2> QED BY <2>0, <2>2, <2>3 DEF Kept
<1> QED BY <1>1, InvAlways, PTL

\* A wave is shown as a recovery only when the run showed every stage, and a prototype is
\* never shown as more (format_wave_tag, waves.py).
THEOREM TagIsEarnedAlways == Spec => []TagIsEarned
<1>1. WaveInv => TagIsEarned
  BY DEF WaveInv
<1> QED BY <1>1, InvAlways, PTL
=============================================================================
