----------------------- MODULE OperatorActions_proofs -----------------------
(***************************************************************************)
(* Theorems about OperatorActions, for any number of notes and objects of  *)
(* outsiders: what a run's step may make unreachable, when it may touch a  *)
(* directory at all, what an ended run leaves under a random name, and     *)
(* what a failed one leaves in the directories it works in.                *)
(***************************************************************************)
EXTENDS OperatorActions, FiniteSetTheorems, TLAPS

RunFields == {"pc", "todo", "pend", "same", "made", "silent", "minted", "base", "held",
              "cur", "target", "found", "spent", "status", "named"}

\* A run that has set nothing aside yet.
Before == {"begin", "survey", "approve", "install", "open", "create", "write", "archive",
           "manifest", "link", "reopen", "rotate"}

\* Directories that may take the name of the subdirectory, and what a run makes under other names.
Inner == Dirs \cup Subs

OwnFiles(r) == {r} \X (Notes \cup {"archive", "manifest"})

\* What a run set aside last.
Taken(r) == <<r, NameOf(run[r].target), run[r].held, run[r].found>>

Rotated(r) == <<r, "cache", Root, run[r].found>>

\* The record of a run, phase by phase.
Form(r) ==
    /\ DOMAIN run[r] = RunFields
    /\ run[r].pend \subseteq Notes
    /\ run[r].made \subseteq OwnFiles(r) \cup Inner /\ run[r].silent \subseteq OwnFiles(r) \cup Inner
    /\ run[r].pc \in Before => run[r].silent = {}
    /\ run[r].pc \in {"begin", "survey", "approve", "install"} => run[r].minted = FALSE
    /\ run[r].pc = "open" => run[r].cur \in NestedNotes
    /\ run[r].pc \in {"open", "create", "write"} => run[r].cur \in run[r].pend
    /\ run[r].pc \in {"create", "write"} =>
          /\ run[r].cur \in Notes
          /\ run[r].cur \in TopNotes => run[r].held = Root
          /\ run[r].cur \in NestedNotes => run[r].held \in Inner
          /\ run[r].minted => run[r].base \in Inner
    /\ run[r].pc = "link" => /\ run[r].cur \in {"archive", "manifest"}
                             /\ run[r].cur = "archive" => run[r].made = {}
    /\ run[r].pc \in {"begin", "survey", "approve", "archive", "reopen", "rotate", "verify", "replace"} =>
          run[r].made = {}
    /\ run[r].pc = "done" => run[r].made = {} \/ run[r].status = "success"

\* The same of a run that takes back, or rotates.
Taking(r) ==
    /\ run[r].pc \in {"undo", "settle"} => \A o \in run[r].silent : o \in Inner \/ o = <<r, run[r].cur>>
    /\ run[r].pc = "undo" =>
          \A x \in NestedNotes : <<r, x>> \in run[r].silent \cap run[r].made => run[r].held \in Inner
    /\ run[r].pc = "settle" =>
          /\ run[r].target \in run[r].made /\ run[r].found \in Objects /\ Taken(r) \in aside
          /\ \A x \in Notes : <<r, x>> \in run[r].silent \cap run[r].made => run[r].target = <<r, x>>
    /\ run[r].pc \in {"verify", "replace"} => run[r].found \in Objects /\ Rotated(r) \in aside
    /\ run[r].pc = "replace" => run[r].found = run[r].base

\* A run without an approval has made nothing and is where it makes nothing.
Paid(r) ==
    run[r].spent \/ /\ run[r].made = {}
                    /\ \/ run[r].pc \in {"begin", "survey", "approve", "done", "dead"}
                       \/ run[r].pc = "install" /\ run[r].pend = {}

Unused(r) == run[r].pc \in Before => \A e \in aside : e[1] # r

\* What a run set aside is under way, or the run tells of it where it tells of anything.
Excused(r, e) ==
    \/ e[4] \in run[r].named \/ \E o \in run[r].silent : NameOf(o) = e[2]
    \/ run[r].pc = "settle" /\ e = Taken(r)
    \/ run[r].pc \in {"verify", "replace"} /\ e = Rotated(r)

Accounted(r) == run[r].pc # "dead" => \A e \in aside : e[1] = r => Excused(r, e)

Each(r) == Form(r) /\ Taking(r) /\ Paid(r) /\ Unused(r) /\ Accounted(r)

Shape ==
    /\ DOMAIN tree = Containers
    /\ \A d \in Containers : DOMAIN tree[d] = Entries(d)
    /\ \A d \in Containers : \A x \in Entries(d) : tree[d][x] \in Objects \cup {None}
    /\ aside \subseteq Runs \X Names \X Containers \X Objects
    /\ \A e \in aside : e[2] \in Entries(e[3])

Inv == Shape /\ env \in Scenarios /\ DOMAIN run = Runs /\ \A r \in Runs : Each(r)

\* What a step of r may make unreachable.
Removes(r) == OwnOf(r) \cup {o \in run[r].made : IsDir(o)}

\* What a step of r may do.
Allowed(r) ==
    /\ \A q \in Runs : q # r => run'[q] = run[q]
    /\ Linked \ Linked' \subseteq Removes(r)
    /\ <<tree, aside>>' # <<tree, aside>> => run[r].spent

-----------------------------------------------------------------------------
(* Names and objects.                                                      *)

LEMMA Facts ==
    /\ \A r \in Runs, x \in Names \ {"sub"} : <<r, x>> \in Own /\ <<r, x>> \in Objects /\ <<r, x>> # None
    /\ \A r \in Runs, x \in Names \ {"sub", "cache"} : /\ ~IsDir(<<r, x>>) /\ NameOf(<<r, x>>) = x
                                                       /\ <<r, x>> \notin Inner
    /\ \A d \in Inner : /\ IsDir(d) /\ NameOf(d) = "sub" /\ d \in Objects /\ d \in Containers /\ d # Root /\ d # None
                        /\ Entries(d) = NestedNotes
    /\ Containers = {Root} \cup Inner /\ Entries(Root) = Plain
    /\ None \notin Objects /\ Root # None /\ None \notin Runs /\ None \notin Containers
    /\ "sub" \in Plain /\ "cache" \in Plain /\ "archive" \in Plain /\ "manifest" \in Plain /\ TopNotes \subseteq Plain
    /\ NestedNotes \cap Plain = {} /\ Plain \subseteq Names /\ NestedNotes \subseteq Names
    /\ Notes \cup {"archive", "manifest"} \subseteq Names \ {"sub", "cache"}
    /\ \A r \in Runs, x \in NestedNotes : <<r, "sub", x>> \in Subs /\ <<r, "sub", x>> \in Inner
<1>1. \A r \in Runs, x \in Names \ {"sub"} : <<r, x>> \in Own
  BY DEF Own
<1>2. \A r \in Runs, x \in Names \ {"sub", "cache"} : ~IsDir(<<r, x>>) /\ NameOf(<<r, x>>) = x
  BY <1>1, ConstantsAssumption DEF NameOf, IsDir
<1>3. \A r \in Runs, x \in Names \ {"sub", "cache"} : <<r, x>> \notin Inner
  BY <1>1, ConstantsAssumption DEF Inner, Subs
<1>4. \A d \in Inner : IsDir(d) /\ d \in Objects
  BY DEF Inner, Subs, IsDir, Own, Objects
<1>5. \A d \in Inner : NameOf(d) = "sub" /\ d \in Containers /\ d # Root /\ d # None /\ Entries(d) = NestedNotes
  BY <1>4, ConstantsAssumption DEF NameOf, Inner, Containers, Entries
<1>6. Notes \cup {"archive", "manifest"} \subseteq Names \ {"sub", "cache"}
  BY ConstantsAssumption DEF Notes, Names, Plain
<1> QED BY <1>1, <1>2, <1>3, <1>4, <1>5, <1>6, ConstantsAssumption
    DEF Objects, Containers, Inner, Entries, Plain, Names, Subs

\* What a run made, it takes back under its name.
LEMMA MadeFacts ==
    ASSUME NEW r \in Runs, NEW o \in OwnFiles(r) \cup Inner
    PROVE  /\ o \in Objects /\ NameOf(o) \in Names /\ (o \in Own \cup Dirs)
           /\ o \notin Inner => /\ o[2] \in Notes \cup {"archive", "manifest"} /\ o = <<r, o[2]>>
                                /\ NameOf(o) = o[2] /\ ~IsDir(o)
<1>1. CASE o \in Inner
  BY <1>1, Facts DEF Inner, Own
<1>2. CASE o \in OwnFiles(r)
  <2>1. o = <<r, o[2]>> /\ o[2] \in Notes \cup {"archive", "manifest"}
    BY <1>2 DEF OwnFiles
  <2> QED BY <2>1, Facts
<1> QED BY <1>1, <1>2

\* A name, taken or given up.
LEMMA Renames ==
    ASSUME Shape, NEW dir \in Containers, NEW x \in Entries(dir), NEW o \in Objects \cup {None}, tree' = With(dir, x, o)
    PROVE  /\ DOMAIN tree' = Containers
           /\ \A d \in Containers : DOMAIN tree'[d] = Entries(d)
           /\ \A d \in Containers : \A y \in Entries(d) : tree'[d][y] \in Objects \cup {None}
           /\ tree'[dir][x] = o
           /\ \A d \in Containers : \A y \in Entries(d) : d # dir \/ y # x => tree'[d][y] = tree[d][y]
<1>1. tree' = [tree EXCEPT ![dir] = [tree[dir] EXCEPT ![x] = o]]
  BY DEF With
<1> DEFINE row == [tree[dir] EXCEPT ![x] = o]
<1>2. DOMAIN row = Entries(dir) /\ row[x] = o /\ \A y \in Entries(dir) : y # x => row[y] = tree[dir][y]
  BY DEF Shape
<1> HIDE DEF row
<1>3. DOMAIN tree' = Containers /\ tree'[dir] = row /\ \A d \in Containers : d # dir => tree'[d] = tree[d]
  BY <1>1 DEF Shape, row
<1> QED BY <1>2, <1>3 DEF Shape

\* Taking a free name keeps everything within reach.
LEMMA Takes ==
    ASSUME Shape, NEW dir \in Containers, NEW x \in Entries(dir), NEW o \in Objects, tree' = With(dir, x, o),
           tree[dir][x] = None, aside' = aside
    PROVE  Shape' /\ Linked \subseteq Linked' /\ o \in Linked'
<1>1. Shape'
  BY Renames DEF Shape
<1>2. ASSUME NEW p \in Objects, NEW d \in Containers, NEW y \in Entries(d), tree[d][y] = p
      PROVE  tree'[d][y] = p
  BY <1>2, Facts, Renames
<1> QED BY <1>1, <1>2, Renames DEF Linked

\* Setting aside what a name holds, and putting it back where it was, do as well.
LEMMA SetsAside ==
    ASSUME Shape, NEW r \in Runs, NEW dir \in Containers, NEW x \in Entries(dir), tree[dir][x] # None,
           tree' = With(dir, x, None), aside' = aside \cup {<<r, x, dir, tree[dir][x]>>}
    PROVE  Shape' /\ Linked \subseteq Linked' /\ tree[dir][x] \in Objects
<1>1. tree[dir][x] \in Objects /\ x \in Names
  BY Facts DEF Shape, Entries
<1>2. Shape'
  BY <1>1, Renames DEF Shape
<1>3. ASSUME NEW p \in Objects, NEW d \in Containers, NEW y \in Entries(d), tree[d][y] = p
      PROVE  p \in Linked'
  <2>1. CASE d = dir /\ y = x
    <3>1. <<r, x, dir, p>> \in aside' /\ <<r, x, dir, p>>[4] = p
      BY <1>3, <2>1
    <3> QED BY <3>1 DEF Linked
  <2>2. CASE d # dir \/ y # x
    BY <1>3, <2>2, Renames DEF Linked
  <2> QED BY <2>1, <2>2
<1>4. ASSUME NEW p \in Objects, NEW e \in aside, e[4] = p
      PROVE  p \in Linked'
  BY <1>4 DEF Linked
<1> QED BY <1>1, <1>2, <1>3, <1>4 DEF Linked

LEMMA PutsBack ==
    ASSUME Shape, NEW r \in Runs, NEW dir \in Containers, NEW x \in Entries(dir), NEW o \in Objects,
           tree[dir][x] = None, tree' = With(dir, x, o), aside' = aside \ {<<r, x, dir, o>>}
    PROVE  Shape' /\ Linked \subseteq Linked'
<1>1. Shape' /\ tree'[dir][x] = o
  BY Renames DEF Shape
<1>2. ASSUME NEW p \in Objects, NEW d \in Containers, NEW y \in Entries(d), tree[d][y] = p
      PROVE  tree'[d][y] = p
  BY <1>2, Facts, Renames
<1>3. ASSUME NEW p \in Objects, NEW e \in aside, e[4] = p
      PROVE  e \in aside' \/ tree'[dir][x] = p
  BY <1>1, <1>3
<1> QED BY <1>1, <1>2, <1>3 DEF Linked

-----------------------------------------------------------------------------
(* What each action does to the record of its run.                         *)

\* A step of r that alters no other fields.
Alters(r, F) ==
    /\ DOMAIN run' = Runs /\ \A q \in Runs : q # r => run'[q] = run[q]
    /\ DOMAIN run'[r] = RunFields /\ \A f \in RunFields \ F : run'[r][f] = run[r][f]

Ends(r, status, objects) ==
    /\ Alters(r, {"pc", "status", "named"})
    /\ run'[r].pc = "done" /\ run'[r].status = status /\ run'[r].named = run[r].named \cup objects

Fails(r, made, silent) ==
    /\ Alters(r, {"pc", "made", "silent", "status"})
    /\ run'[r].pc = (IF made = {} THEN "done" ELSE "undo")
    /\ run'[r].made = made /\ run'[r].silent = silent /\ run'[r].status = "error"

TakesBack(r, o, objects) ==
    /\ Alters(r, {"made", "pc", "target", "found", "named"})
    /\ run'[r].made = run[r].made \ {o} /\ run'[r].pc = (IF run[r].made = {o} THEN "done" ELSE "undo")
    /\ run'[r].named = run[r].named \cup Reported(r, o, objects)

LEMMA Fields == ASSUME Inv, NEW r \in Runs PROVE DOMAIN run = Runs /\ DOMAIN run[r] = RunFields
  BY DEF Inv, Each, Form

LEMMA SetEnded == ASSUME Inv, NEW r \in Runs, NEW status, NEW objects, Set(r, Ended(r, status, objects))
                  PROVE  Ends(r, status, objects)
  BY Fields DEF Set, Ended, Ends, Alters, RunFields

LEMMA SetFailed == ASSUME Inv, NEW r \in Runs, NEW made, NEW silent, Set(r, Failed(r, made, silent))
                   PROVE  Fails(r, made, silent)
  BY Fields DEF Set, Failed, Fails, Alters, RunFields

LEMMA SetTakenBack == ASSUME Inv, NEW r \in Runs, NEW o, NEW objects, Set(r, TakenBack(r, o, objects))
                      PROVE  TakesBack(r, o, objects)
<1> DEFINE pc == IF run[r].made = {o} THEN "done" ELSE "undo"
           named == run[r].named \cup Reported(r, o, objects)
           rec == [run[r] EXCEPT !.made = @ \ {o}, !.pc = pc, !.target = None, !.found = None, !.named = named]
<1>1. run' = [run EXCEPT ![r] = rec]
  <2>1. run' = [run EXCEPT ![r] = TakenBack(r, o, objects)]
    BY DEF Set
  <2>2. TakenBack(r, o, objects) = rec
    BY Fields DEF TakenBack, RunFields
  <2> QED BY <2>1, <2>2
<1> HIDE DEF pc, named
<1>2. /\ DOMAIN rec = RunFields /\ rec.pc = pc /\ rec.made = run[r].made \ {o} /\ rec.named = named
      /\ \A f \in RunFields \ {"made", "pc", "target", "found", "named"} : rec[f] = run[r][f]
  BY Fields DEF RunFields
<1> HIDE DEF rec
<1> QED BY <1>1, <1>2, Fields DEF TakesBack, Alters, pc, named

\* The surroundings, the tree and what is set aside stay.
Untouched == UNCHANGED <<env, tree, aside, fresh>>

LEMMA BeginSteps == ASSUME Inv, NEW r \in Runs, Refuse(r) \/ Approve(r) \/ BeginSync(r) \/ BeginBackup(r) \/ BeginRotation(r)
                    PROVE  /\ Untouched /\ run[r].pc \in {"begin", "approve"}
                           /\ \/ \E status : status # "success" /\ Ends(r, status, {})
                              \/ /\ Alters(r, {"pc", "todo", "spent", "base"})
                                 /\ \/ run[r].pc = "begin" /\ run'[r].pc \in {"survey", "approve"} /\ run'[r].spent = run[r].spent
                                    \/ /\ run[r].pc = "approve" /\ run'[r].pc \in {"install", "archive", "reopen"}
                                       /\ run'[r].spent = TRUE
<1>1. CASE Refuse(r)
  BY <1>1, SetEnded DEF Refuse, Untouched
<1>2. CASE Approve(r)
  <2> DEFINE next == AfterApproval[env.kind[r]]
  <2>1. next \in {"install", "archive", "reopen"}
    <3>1. env.kind[r] \in {"sync", "backup", "rotate"}
      BY ConstantsAssumption DEF Inv
    <3> QED BY <3>1 DEF AfterApproval
  <2>2. \/ Set(r, [run[r] EXCEPT !.pc = next, !.spent = TRUE])
        \/ Ends(r, "unapproved", {})
    BY <1>2, SetEnded DEF Approve
  <2>3. Untouched /\ run[r].pc = "approve"
    BY <1>2 DEF Approve, Untouched
  <2> HIDE DEF next
  <2> QED BY <2>1, <2>2, <2>3, Fields DEF Set, Alters, RunFields
<1>3. CASE BeginSync(r)
  BY <1>3, Fields DEF BeginSync, Set, Alters, RunFields, Untouched
<1>4. CASE BeginBackup(r)
  BY <1>4, Fields DEF BeginBackup, Set, Alters, RunFields, Untouched
<1>5. CASE BeginRotation(r)
  <2> DEFINE base == At("cache")
  <2>1. Set(r, [run[r] EXCEPT !.pc = "approve", !.base = base]) /\ run[r].pc = "begin" /\ Untouched
    BY <1>5 DEF BeginRotation, Untouched
  <2> HIDE DEF base
  <2> QED BY <2>1, Fields DEF Set, Alters, RunFields
<1> QED BY <1>1, <1>2, <1>3, <1>4, <1>5

LEMMA SurveySteps == ASSUME Inv, NEW r \in Runs, Surveyed(r) \/ \E x \in Notes : Survey(r, x)
                     PROVE  /\ Untouched /\ run[r].pc = "survey"
                            /\ \/ Ends(r, "error", {})
                               \/ /\ Alters(r, {"pc", "todo", "pend", "same"})
                                  /\ run'[r].pc \in {"survey", "approve", "install"} /\ run'[r].pend \subseteq run[r].pend \cup Notes
                                  /\ run'[r].pc = "install" => run'[r].pend = {}
<1>1. CASE Surveyed(r)
  <2> DEFINE pc == IF NeedsApproval(run[r].pend, run[r].same) THEN "approve" ELSE "install"
  <2>1. /\ Set(r, [run[r] EXCEPT !.pc = pc, !.todo = run[r].same]) /\ run[r].pc = "survey" /\ Untouched
        /\ pc \in {"approve", "install"} /\ (pc = "install" => run[r].pend = {})
    BY <1>1 DEF Surveyed, Untouched, NeedsApproval
  <2> HIDE DEF pc
  <2> QED BY <2>1, Fields DEF Set, Alters, RunFields
<1>2. ASSUME NEW x \in Notes, Survey(r, x)
      PROVE  /\ Untouched /\ run[r].pc = "survey"
             /\ \/ Ends(r, "error", {})
                \/ /\ Alters(r, {"todo", "pend", "same"})
                   /\ run'[r].pc = "survey" /\ run'[r].pend \subseteq run[r].pend \cup Notes
  <2>1. /\ Untouched /\ run[r].pc = "survey"
        /\ \/ Set(r, [run[r] EXCEPT !.todo = @ \ {x}, !.pend = @ \cup {x}])
           \/ Set(r, [run[r] EXCEPT !.todo = @ \ {x}, !.same = @ \cup {x}])
           \/ Ends(r, "error", {})
    BY <1>2, SetEnded DEF Survey, Untouched
  <2>2. CASE Set(r, [run[r] EXCEPT !.todo = @ \ {x}, !.pend = @ \cup {x}])
    BY <2>1, <2>2, Fields DEF Set, Alters, RunFields
  <2>3. CASE Set(r, [run[r] EXCEPT !.todo = @ \ {x}, !.same = @ \cup {x}])
    BY <2>1, <2>3, Fields DEF Set, Alters, RunFields
  <2> QED BY <2>1, <2>2, <2>3
<1> QED BY <1>1, <1>2 DEF Alters, RunFields

LEMMA MakeSubSteps == ASSUME Inv, NEW r \in Runs, NEW x \in NestedNotes, MakeSub(r, x)
                      PROVE  /\ UNCHANGED <<env, aside, fresh>> /\ run[r].pc = "install" /\ x \in run[r].pend
                             /\ Alters(r, {"pc", "cur", "minted"}) /\ run'[r].pc = "open" /\ run'[r].cur = x
                             /\ run'[r].minted = (tree[Root]["sub"] = None)
                             /\ \/ tree[Root]["sub"] = None /\ tree' = With(Root, "sub", <<r, "sub", x>>)
                                \/ tree[Root]["sub"] # None /\ tree' = tree
<1> DEFINE vacant == tree[Root]["sub"] = None
<1>1. /\ Set(r, [run[r] EXCEPT !.pc = "open", !.cur = x, !.minted = vacant])
      /\ UNCHANGED <<env, aside, fresh>> /\ run[r].pc = "install" /\ x \in run[r].pend
      /\ tree' = IF vacant THEN With(Root, "sub", <<r, "sub", x>>) ELSE tree
  BY DEF MakeSub
<1>2. Alters(r, {"pc", "cur", "minted"}) /\ run'[r].pc = "open" /\ run'[r].cur = x /\ run'[r].minted = vacant
  <2> HIDE DEF vacant
  <2> QED BY <1>1, Fields DEF Set, Alters, RunFields
<1> QED BY <1>1, <1>2

LEMMA OpenSubSteps == ASSUME Inv, NEW r \in Runs, OpenSub(r)
                      PROVE  /\ Untouched /\ run[r].pc = "open"
                             /\ \/ Fails(r, run[r].made, {})
                                \/ /\ Alters(r, {"pc", "held", "base"}) /\ run'[r].pc = "create"
                                   /\ tree[Root]["sub"] \in Containers /\ run'[r].held = tree[Root]["sub"]
                                   /\ run[r].minted => run'[r].base = tree[Root]["sub"]
<1> DEFINE sub == tree[Root]["sub"]
           base == IF run[r].minted THEN sub ELSE run[r].base
<1>1. /\ Untouched /\ run[r].pc = "open"
      /\ \/ sub \in Containers /\ Set(r, [run[r] EXCEPT !.pc = "create", !.held = sub, !.base = base])
         \/ Fails(r, run[r].made, {})
  BY SetFailed DEF OpenSub, Untouched
<1>2. run[r].minted => base = sub
  OBVIOUS
<1> HIDE DEF sub, base
<1>3. CASE sub \in Containers /\ Set(r, [run[r] EXCEPT !.pc = "create", !.held = sub, !.base = base])
  <2>1. Alters(r, {"pc", "held", "base"}) /\ run'[r].pc = "create" /\ run'[r].held = sub /\ run'[r].base = base
    BY <1>3, Fields DEF Set, Alters, RunFields
  <2> QED BY <1>1, <1>2, <1>3, <2>1 DEF sub
<1> QED BY <1>1, <1>3

LEMMA StartTopSteps == ASSUME Inv, NEW r \in Runs, NEW x \in TopNotes, StartTop(r, x)
                       PROVE  /\ Untouched /\ run[r].pc = "install" /\ x \in run[r].pend
                              /\ Alters(r, {"pc", "cur", "held"})
                              /\ run'[r].pc = "create" /\ run'[r].cur = x /\ run'[r].held = Root
  BY Fields DEF StartTop, Set, Alters, RunFields, Untouched

LEMMA CreateSteps == ASSUME Inv, NEW r \in Runs, Create(r)
                     PROVE  /\ UNCHANGED <<env, aside, fresh>> /\ run[r].pc = "create"
                            /\ \/ /\ Creatable(run[r].held, run[r].cur)
                                  /\ tree' = With(run[r].held, run[r].cur, <<r, run[r].cur>>)
                                  /\ Alters(r, {"pc"}) /\ run'[r].pc = "write"
                               \/ tree' = tree /\ Fails(r, run[r].made \cup Minted(r), Minted(r))
<1>1. /\ UNCHANGED <<env, aside, fresh>> /\ run[r].pc = "create"
      /\ \/ /\ Creatable(run[r].held, run[r].cur)
            /\ tree' = With(run[r].held, run[r].cur, <<r, run[r].cur>>)
            /\ Set(r, [run[r] EXCEPT !.pc = "write"])
         \/ tree' = tree /\ Fails(r, run[r].made \cup Minted(r), Minted(r))
  BY SetFailed DEF Create
<1>2. Set(r, [run[r] EXCEPT !.pc = "write"]) => Alters(r, {"pc"}) /\ run'[r].pc = "write"
  BY Fields DEF Set, Alters, RunFields
<1> QED BY <1>1, <1>2

LEMMA WriteSteps == ASSUME Inv, NEW r \in Runs, Write(r)
                    PROVE  LET made == {<<r, run[r].cur>>} \cup Minted(r) IN
                           /\ Untouched /\ run[r].pc = "write"
                           /\ \/ /\ Alters(r, {"pc", "pend", "made", "minted"}) /\ run'[r].pc = "install"
                                 /\ run'[r].pend = run[r].pend \ {run[r].cur} /\ run'[r].made = run[r].made \cup made
                                 /\ run'[r].minted = FALSE
                              \/ Fails(r, run[r].made \cup made, made)
<1> DEFINE made == {<<r, run[r].cur>>} \cup Minted(r)
<1>1. /\ Untouched /\ run[r].pc = "write"
      /\ \/ Set(r, [run[r] EXCEPT !.pc = "install", !.pend = @ \ {run[r].cur}, !.made = @ \cup made, !.minted = FALSE])
         \/ Fails(r, run[r].made \cup made, made)
  BY SetFailed DEF Write, Untouched
<1> HIDE DEF made
<1>2. CASE Set(r, [run[r] EXCEPT !.pc = "install", !.pend = @ \ {run[r].cur}, !.made = @ \cup made, !.minted = FALSE])
  <2>1. /\ Alters(r, {"pc", "pend", "made", "minted"}) /\ run'[r].pc = "install"
        /\ run'[r].pend = run[r].pend \ {run[r].cur} /\ run'[r].made = run[r].made \cup made
        /\ run'[r].minted = FALSE
    BY <1>2, Fields DEF Set, Alters, RunFields
  <2> QED BY <1>1, <2>1 DEF made
<1> QED BY <1>1, <1>2 DEF made

LEMMA InstallSteps == ASSUME Inv, NEW r \in Runs, Synced(r) \/ \E x \in Notes : Recheck(r, x)
                      PROVE  /\ Untouched /\ run[r].pc = "install"
                             /\ \/ \E objects : Ends(r, "success", objects)
                                \/ Alters(r, {"todo"})
                                \/ Fails(r, run[r].made, {})
<1>1. CASE Synced(r)
  BY <1>1, SetEnded DEF Synced, Untouched
<1>2. ASSUME NEW x \in Notes, Recheck(r, x)
      PROVE  Untouched /\ run[r].pc = "install" /\ (Alters(r, {"todo"}) \/ Fails(r, run[r].made, {}))
  <2>1. /\ Untouched /\ run[r].pc = "install"
        /\ Set(r, [run[r] EXCEPT !.todo = @ \ {x}]) \/ Fails(r, run[r].made, {})
    BY <1>2, SetFailed DEF Recheck, Untouched
  <2>2. Set(r, [run[r] EXCEPT !.todo = @ \ {x}]) => Alters(r, {"todo"})
    BY Fields DEF Set, Alters, RunFields
  <2> QED BY <2>1, <2>2
<1> QED BY <1>1, <1>2

LEMMA ExistingSteps == ASSUME Inv, NEW r \in Runs, Archive(r) \/ Manifest(r)
                       PROVE  /\ Untouched /\ run[r].pc \in {"archive", "manifest"}
                              /\ \/ /\ Alters(r, {"pc", "cur"}) /\ run'[r].pc = "link" /\ run'[r].cur = run[r].pc
                                 \/ run[r].pc = "archive" /\ Alters(r, {"pc"}) /\ run'[r].pc = "manifest"
                                 \/ Ends(r, "success", {}) \/ Fails(r, run[r].made, {})
<1>1. PICK x \in {"archive", "manifest"} :
         /\ run[r].pc = x /\ Untouched
         /\ \/ Set(r, [run[r] EXCEPT !.pc = "link", !.cur = x])
            \/ x = "archive" /\ Set(r, [run[r] EXCEPT !.pc = "manifest"])
            \/ Ends(r, "success", {}) \/ Fails(r, run[r].made, {})
  BY SetEnded, SetFailed DEF Archive, Manifest, Existing, BackedUp, Untouched
<1>2. Set(r, [run[r] EXCEPT !.pc = "link", !.cur = x]) =>
         Alters(r, {"pc", "cur"}) /\ run'[r].pc = "link" /\ run'[r].cur = x
  BY Fields DEF Set, Alters, RunFields
<1>3. Set(r, [run[r] EXCEPT !.pc = "manifest"]) => Alters(r, {"pc"}) /\ run'[r].pc = "manifest"
  BY Fields DEF Set, Alters, RunFields
<1> QED BY <1>1, <1>2, <1>3

LEMMA LinkSteps == ASSUME Inv, NEW r \in Runs, Link(r)
                   PROVE  LET x == run[r].cur IN
                          /\ UNCHANGED <<env, aside, fresh>> /\ run[r].pc = "link" /\ x \in {"archive", "manifest"}
                          /\ \/ /\ tree[Root][x] = None /\ tree' = With(Root, x, <<r, x>>)
                                /\ \/ /\ x = "archive" /\ Alters(r, {"pc", "made"})
                                      /\ run'[r].pc = "manifest" /\ run'[r].made = {<<r, x>>}
                                   \/ Ends(r, "success", {})
                                   \/ Fails(r, run[r].made \cup {<<r, x>>}, {})
                             \/ tree' = tree /\ Fails(r, run[r].made, {})
<1> DEFINE x == run[r].cur
<1>1. /\ UNCHANGED <<env, aside, fresh>> /\ run[r].pc = "link"
      /\ \/ /\ At(x) = None /\ tree' = With(Root, x, <<r, x>>)
            /\ \/ x = "archive" /\ Set(r, [run[r] EXCEPT !.pc = "manifest", !.made = {<<r, x>>}])
               \/ Ends(r, "success", {})
               \/ Fails(r, run[r].made \cup {<<r, x>>}, {})
         \/ tree' = tree /\ Fails(r, run[r].made, {})
  BY SetEnded, SetFailed DEF Link, BackedUp
<1>2. x \in {"archive", "manifest"} /\ At(x) = tree[Root][x]
  BY <1>1, Facts DEF Inv, Each, Form, At, Home
<1> HIDE DEF x
<1>3. Set(r, [run[r] EXCEPT !.pc = "manifest", !.made = {<<r, x>>}]) =>
         Alters(r, {"pc", "made"}) /\ run'[r].pc = "manifest" /\ run'[r].made = {<<r, x>>}
  BY Fields DEF Set, Alters, RunFields
<1> QED BY <1>1, <1>2, <1>3 DEF x

\* Where a run looks for what it takes back, and what it meets.
LEMMA Targets ==
    ASSUME Inv, NEW r \in Runs, NEW o \in run[r].made
    PROVE  /\ o \in OwnFiles(r) \cup Inner
           /\ run[r].pc = "undo" /\ UndoDir(r, o) # None =>
                 UndoDir(r, o) \in Containers /\ NameOf(o) \in Entries(UndoDir(r, o))
           /\ NameOf(o) \in Plain => UndoDir(r, o) = Root
<1>1. Form(r) /\ Taking(r) /\ o \in OwnFiles(r) \cup Inner
  BY DEF Inv, Each, Form
<1>2. NameOf(o) \in Plain => UndoDir(r, o) = Root
  BY DEF UndoDir
<1>3. ASSUME NameOf(o) \notin Plain, run[r].pc = "undo", UndoDir(r, o) # None
      PROVE  UndoDir(r, o) \in Inner /\ NameOf(o) \in NestedNotes
  <2>1. NameOf(o) \in NestedNotes /\ o = <<r, NameOf(o)>>
    BY <1>1, <1>3, MadeFacts, Facts DEF Names
  <2>2. CASE o \in run[r].silent
    BY <1>1, <1>3, <2>1, <2>2 DEF UndoDir, Taking
  <2>3. CASE o \notin run[r].silent
    <3>1. UndoDir(r, o) = tree[Root]["sub"] /\ tree[Root]["sub"] \in Containers
      BY <1>3, <2>3 DEF UndoDir, Home
    <3>2. tree[Root]["sub"] # Root
      BY Facts, ConstantsAssumption DEF Inv, Shape
    <3> QED BY <2>1, <3>1, <3>2, Facts
  <2> QED BY <2>2, <2>3
<1> QED BY <1>1, <1>2, <1>3, Facts

LEMMA MoveAsideSteps ==
    ASSUME Inv, NEW r \in Runs, NEW o \in Own \cup Dirs, MoveAside(r, o)
    PROVE  LET dir == UndoDir(r, o)
               x == NameOf(o)
           IN /\ UNCHANGED <<env, fresh>> /\ run[r].pc = "undo" /\ o \in Due(r) /\ o \in run[r].made
              /\ \/ /\ dir \in Containers /\ x \in Entries(dir) /\ tree[dir][x] # None
                    /\ tree' = With(dir, x, None) /\ aside' = aside \cup {<<r, x, dir, tree[dir][x]>>}
                    /\ Alters(r, {"pc", "held", "target", "found"}) /\ run'[r].pc = "settle"
                    /\ run'[r].held = dir /\ run'[r].target = o /\ run'[r].found = tree[dir][x]
                 \/ /\ "undo" \notin env.faults => dir = None \/ tree[dir][x] = None
                    /\ UNCHANGED <<tree, aside>> /\ TakesBack(r, o, {o})
<1> DEFINE dir == UndoDir(r, o)
           x == NameOf(o)
           met == tree[dir][x]
<1>1. /\ UNCHANGED <<env, fresh>> /\ run[r].pc = "undo" /\ o \in Due(r)
      /\ \/ /\ dir # None /\ met # None
            /\ tree' = With(dir, x, None) /\ aside' = aside \cup {<<r, x, dir, met>>}
            /\ Set(r, [run[r] EXCEPT !.pc = "settle", !.held = dir, !.target = o, !.found = met])
         \/ /\ "undo" \notin env.faults => dir = None \/ met = None
            /\ UNCHANGED <<tree, aside>> /\ TakesBack(r, o, {o})
  BY SetTakenBack DEF MoveAside
<1>2. o \in run[r].made
  BY <1>1 DEF Due
<1>3. dir # None => dir \in Containers /\ x \in Entries(dir)
  BY <1>1, <1>2, Targets
<1> HIDE DEF dir, x, met
<1>4. Set(r, [run[r] EXCEPT !.pc = "settle", !.held = dir, !.target = o, !.found = met]) =>
         /\ Alters(r, {"pc", "held", "target", "found"}) /\ run'[r].pc = "settle"
         /\ run'[r].held = dir /\ run'[r].target = o /\ run'[r].found = met
  BY Fields DEF Set, Alters, RunFields
<1> QED BY <1>1, <1>2, <1>3, <1>4 DEF dir, x, met

LEMMA SettleSteps ==
    ASSUME Inv, NEW r \in Runs, Settle(r)
    PROVE  LET o == run[r].target
               x == NameOf(o)
               dir == run[r].held
               found == run[r].found
           IN /\ UNCHANGED <<env, fresh>> /\ run[r].pc = "settle" /\ o \in run[r].made
              /\ dir \in Containers /\ x \in Entries(dir) /\ found \in Objects /\ Taken(r) \in aside
              /\ \/ /\ Removable(o, found) /\ tree' = tree /\ aside' = aside \ {Taken(r)} /\ TakesBack(r, o, {})
                 \/ /\ "undo" \in env.faults \/ ~Removable(o, found)
                    /\ \/ /\ tree[dir][x] = None /\ tree' = With(dir, x, found) /\ aside' = aside \ {Taken(r)}
                          /\ TakesBack(r, o, {})
                       \/ /\ tree[dir][x] # None /\ UNCHANGED <<tree, aside>> /\ TakesBack(r, o, {found, o})
<1>1. run[r].pc = "settle"
  BY DEF Settle
<1>2. run[r].target \in run[r].made /\ run[r].found \in Objects /\ Taken(r) \in aside
  BY <1>1 DEF Inv, Each, Taking
<1>3. run[r].held \in Containers /\ NameOf(run[r].target) \in Entries(run[r].held)
  BY <1>2 DEF Taken, Inv, Shape
<1> DEFINE o == run[r].target
           x == NameOf(o)
           dir == run[r].held
           found == run[r].found
<1>4. /\ UNCHANGED <<env, fresh>>
      /\ \/ /\ Removable(o, found) /\ tree' = tree /\ aside' = aside \ {Taken(r)} /\ TakesBack(r, o, {})
         \/ /\ "undo" \in env.faults \/ ~Removable(o, found)
            /\ \/ /\ tree[dir][x] = None /\ tree' = With(dir, x, found) /\ aside' = aside \ {Taken(r)}
                  /\ TakesBack(r, o, {})
               \/ /\ tree[dir][x] # None /\ UNCHANGED <<tree, aside>> /\ TakesBack(r, o, {found, o})
  BY SetTakenBack DEF Settle, Taken
<1> QED BY <1>1, <1>2, <1>3, <1>4

LEMMA RotationSteps ==
    ASSUME Inv, NEW r \in Runs, Reopen(r) \/ RotateName(r) \/ VerifyRotated(r) \/ ReplaceCache(r)
    PROVE  LET cache == tree[Root]["cache"] IN
           /\ UNCHANGED <<env, fresh>>
           /\ \/ /\ run[r].pc \in {"reopen", "rotate"} /\ UNCHANGED <<tree, aside>>
                 /\ Ends(r, "error", {}) \/ (run[r].pc = "reopen" /\ Alters(r, {"pc"}) /\ run'[r].pc = "rotate")
              \/ /\ run[r].pc = "rotate" /\ cache # None /\ tree' = With(Root, "cache", None)
                 /\ aside' = aside \cup {<<r, "cache", Root, cache>>}
                 /\ Alters(r, {"pc", "found"}) /\ run'[r].pc = "verify" /\ run'[r].found = cache
              \/ /\ run[r].pc = "verify" /\ UNCHANGED <<tree, aside>> /\ Alters(r, {"pc"}) /\ run'[r].pc = "replace"
                 /\ run[r].found = run[r].base
              \/ /\ run[r].pc \in {"verify", "replace"} /\ cache = None /\ tree' = With(Root, "cache", run[r].found)
                 /\ aside' = aside \ {Rotated(r)} /\ Ends(r, "error", {})
              \/ run[r].pc \in {"verify", "replace"} /\ UNCHANGED <<tree, aside>> /\ Ends(r, "error", {run[r].found})
              \/ /\ run[r].pc = "replace" /\ cache = None /\ tree' = With(Root, "cache", <<r, "cache">>)
                 /\ aside' = aside /\ Ends(r, "success", {run[r].base})
              \/ run[r].pc = "replace" /\ UNCHANGED <<tree, aside>> /\ Ends(r, "error", {run[r].base})
<1> DEFINE cache == tree[Root]["cache"]
<1>1. At("cache") = cache
  BY Facts DEF At, Home
<1>2. ASSUME NEW rest, PutBack(r, rest)
      PROVE  \/ cache = None /\ tree' = With(Root, "cache", run[r].found) /\ aside' = aside \ {Rotated(r)} /\ Ends(r, "error", {})
             \/ UNCHANGED <<tree, aside>> /\ Ends(r, "error", {run[r].found})
  BY <1>1, <1>2, SetEnded DEF PutBack, Rotated
<1>3. CASE Reopen(r)
  <2>1. /\ UNCHANGED <<env, tree, aside, fresh>> /\ run[r].pc = "reopen"
        /\ Set(r, [run[r] EXCEPT !.pc = "rotate"]) \/ Ends(r, "error", {})
    BY <1>3, SetEnded DEF Reopen
  <2>2. Set(r, [run[r] EXCEPT !.pc = "rotate"]) => Alters(r, {"pc"}) /\ run'[r].pc = "rotate"
    BY Fields DEF Set, Alters, RunFields
  <2> QED BY <2>1, <2>2
<1>4. CASE RotateName(r)
  <2>1. /\ UNCHANGED <<env, fresh>> /\ run[r].pc = "rotate"
        /\ \/ /\ cache # None /\ tree' = With(Root, "cache", None)
              /\ aside' = aside \cup {<<r, "cache", Root, cache>>}
              /\ Set(r, [run[r] EXCEPT !.pc = "verify", !.found = cache])
           \/ UNCHANGED <<tree, aside>> /\ Ends(r, "error", {})
    BY <1>1, <1>4, SetEnded DEF RotateName
  <2>2. Set(r, [run[r] EXCEPT !.pc = "verify", !.found = cache]) =>
           Alters(r, {"pc", "found"}) /\ run'[r].pc = "verify" /\ run'[r].found = cache
    <3> HIDE DEF cache
    <3> QED BY Fields DEF Set, Alters, RunFields
  <2> HIDE DEF cache
  <2> QED BY <2>1, <2>2 DEF cache
<1>5. CASE VerifyRotated(r)
  <2>1. /\ UNCHANGED <<env, fresh>> /\ run[r].pc = "verify"
        /\ \/ UNCHANGED <<tree, aside>> /\ Set(r, [run[r] EXCEPT !.pc = "replace"]) /\ run[r].found = run[r].base
           \/ PutBack(r, TRUE)
           \/ UNCHANGED <<tree, aside>> /\ Ends(r, "error", {run[r].found})
    BY <1>5, SetEnded DEF VerifyRotated
  <2>2. Set(r, [run[r] EXCEPT !.pc = "replace"]) => Alters(r, {"pc"}) /\ run'[r].pc = "replace"
    BY Fields DEF Set, Alters, RunFields
  <2> QED BY <1>2, <2>1, <2>2
<1>6. CASE ReplaceCache(r)
  <2>1. /\ UNCHANGED <<env, fresh>> /\ run[r].pc = "replace"
        /\ \/ /\ cache = None /\ tree' = With(Root, "cache", <<r, "cache">>)
              /\ aside' = aside /\ Ends(r, "success", {run[r].base})
           \/ UNCHANGED <<tree, aside>> /\ Ends(r, "error", {run[r].base})
           \/ \E rest : PutBack(r, rest)
    BY <1>1, <1>6, SetEnded DEF ReplaceCache
  <2> QED BY <1>2, <2>1
<1> QED BY <1>3, <1>4, <1>5, <1>6

LEMMA DieSteps == ASSUME Inv, NEW r \in Runs, Die(r)
                  PROVE  Untouched /\ run[r].pc \notin {"begin", "done", "dead"} /\ Alters(r, {"pc"}) /\ run'[r].pc = "dead"
  BY Fields DEF Die, Set, Alters, RunFields, Untouched

LEMMA OutsideSteps == ASSUME Inv, NEW x \in Names, OutsideRemove(x) \/ \E o \in Dirs \cup Files : OutsidePut(x, o)
                      PROVE  /\ UNCHANGED <<env, aside, run>> /\ fresh' \subseteq fresh /\ x \in env.touched
                             /\ x = "sub" => tree[Root]["sub"] = None \/ Empty(tree[Root]["sub"])
                             /\ \E o \in Objects \cup {None} :
                                   /\ Home(x) \in Containers /\ x \in Entries(Home(x)) /\ tree' = With(Home(x), x, o)
                                   /\ o = None \/ (o \in fresh /\ o \in Dirs \cup Files /\ fresh' = fresh \ {o} /\ Fits(x, o))
<1>1. Home(x) # None => Home(x) \in Containers /\ x \in Entries(Home(x))
  <2>1. tree[Root]["sub"] # Root
    BY Facts, ConstantsAssumption DEF Inv, Shape
  <2> QED BY <2>1, Facts DEF Home, Names
<1>2. At("sub") = tree[Root]["sub"]
  BY Facts DEF At, Home
<1>3. At(x) # None => Home(x) # None
  BY DEF At
<1> QED BY <1>1, <1>2, <1>3 DEF OutsideRemove, OutsidePut, Objects

-----------------------------------------------------------------------------
(* The invariant.                                                          *)

LEMMA InitInv == Init => Inv
<1> SUFFICES ASSUME Init PROVE Inv
  OBVIOUS
<1>1. env.cache \in Objects
  BY ConstantsAssumption DEF Init, Objects
<1>2. /\ DOMAIN tree = Containers
      /\ \A d \in Containers : DOMAIN tree[d] = Entries(d)
      /\ \A d \in Containers : \A x \in Entries(d) : tree[d][x] \in Objects \cup {None}
  BY <1>1 DEF Init
<1>3. aside = {}
  BY DEF Init
<1>4. ASSUME NEW r \in Runs PROVE Each(r)
  <2>1. run[r] = Idle
    BY DEF Init
  <2> QED BY <1>3, <2>1 DEF Each, Form, Taking, Paid, Unused, Accounted, Idle, RunFields, Before
<1> QED BY <1>2, <1>3, <1>4 DEF Inv, Shape, Init

\* Another run's steps leave a run's record and what it set aside alone.
LEMMA OtherKeeps ==
    ASSUME Inv, NEW q \in Runs, run'[q] = run[q], \A e \in aside \cup aside' : e[1] = q => e \in aside \cap aside'
    PROVE  Each(q)'
<1>1. Each(q)
  BY DEF Inv
<1>2. Taken(q)' = Taken(q) /\ Rotated(q)' = Rotated(q)
  BY DEF Taken, Rotated, NameOf, IsDir
<1>3. Taken(q)[1] = q /\ Rotated(q)[1] = q
  BY DEF Taken, Rotated
<1>4. Form(q)'
  BY <1>1 DEF Each, Form
<1>5. Taking(q)'
  BY <1>1, <1>2, <1>3 DEF Each, Taking
<1>6. Paid(q)' /\ Unused(q)'
  BY <1>1 DEF Each, Paid, Unused
<1>7. ASSUME NEW e \in aside', e[1] = q, run[q].pc # "dead" PROVE Excused(q, e)'
  <2>1. e \in aside /\ Excused(q, e)
    BY <1>1, <1>7 DEF Each, Accounted
  <2> QED BY <1>2, <2>1 DEF Excused, NameOf, IsDir
<1>8. Accounted(q)'
  BY <1>7 DEF Accounted
<1> QED BY <1>4, <1>5, <1>6, <1>8 DEF Each

\* What is left to show of a step of r.
LEMMA OneSteps ==
    ASSUME Inv, NEW r \in Runs, UNCHANGED env, Alters(r, RunFields),
           Shape', Each(r)', \A e \in aside \cup aside' : e[1] # r => e \in aside \cap aside',
           Linked \ Linked' \subseteq Removes(r), <<tree, aside>>' # <<tree, aside>> => run[r].spent
    PROVE  Inv' /\ Allowed(r)
<1>1. DOMAIN run' = Runs /\ \A q \in Runs : q # r => run'[q] = run[q]
  BY DEF Alters
<1>2. ASSUME NEW q \in Runs PROVE Each(q)'
  BY <1>1, OtherKeeps
<1> QED BY <1>1, <1>2 DEF Inv, Allowed

\* A step that sets nothing aside.
LEMMA Early ==
    ASSUME Inv, NEW r \in Runs, UNCHANGED <<env, aside>>, Alters(r, RunFields), Shape', Linked \subseteq Linked',
           run[r].pc \in Before, run'[r].pc \in Before \cup {"undo", "done"}, Form(r)', Taking(r)', Paid(r)',
           tree' # tree => run[r].spent
    PROVE  Inv' /\ Allowed(r)
<1>1. \A e \in aside : e[1] # r
  BY DEF Inv, Each, Unused
<1>2. Unused(r)' /\ Accounted(r)'
  BY <1>1 DEF Unused, Accounted
<1> QED BY <1>2, OneSteps DEF Each

\* The same of a step that leaves the tree alone, too.
LEMMA Untouching ==
    ASSUME Inv, NEW r \in Runs, Untouched, Alters(r, RunFields),
           run[r].pc \in Before, run'[r].pc \in Before \cup {"undo", "done"}, Form(r)', Taking(r)', Paid(r)'
    PROVE  Inv' /\ Allowed(r)
<1>1. Shape' /\ Linked' = Linked
  BY DEF Inv, Shape, Untouched, Linked
<1> QED BY <1>1, Early DEF Untouched

\* Where a run ends, or begins to take back.
LEMMA Ending ==
    ASSUME Inv, NEW r \in Runs, run[r].pc \in Before, NEW status, NEW objects, Ends(r, status, objects),
           run[r].made = {} \/ status = "success", run[r].spent \/ run[r].made = {}
    PROVE  Form(r)' /\ Taking(r)' /\ Paid(r)' /\ Alters(r, RunFields)
  BY DEF Inv, Each, Form, Taking, Paid, Ends, Alters, RunFields, Before

LEMMA Failing ==
    ASSUME Inv, NEW r \in Runs, run[r].pc \in Before, NEW made, NEW silent, Fails(r, made, silent), run[r].spent,
           made \subseteq OwnFiles(r) \cup Inner,
           \/ silent = {}
           \/ /\ silent \subseteq made /\ run[r].pc \in {"create", "write"}
              /\ \A o \in silent : o \in Inner \/ o = <<r, run[r].cur>>
    PROVE  Form(r)' /\ Taking(r)' /\ Paid(r)' /\ Alters(r, RunFields)
<1>1. Form(r) /\ Paid(r) /\ Alters(r, RunFields) /\ DOMAIN run'[r] = RunFields
  BY DEF Inv, Each, Fails, Alters
<1>2. /\ run'[r].pend = run[r].pend /\ run'[r].cur = run[r].cur /\ run'[r].held = run[r].held
      /\ run'[r].spent = run[r].spent
      /\ run'[r].made = made /\ run'[r].silent = silent /\ run'[r].status = "error"
      /\ run'[r].pc = IF made = {} THEN "done" ELSE "undo"
  BY DEF Fails, Alters, RunFields
<1>3. Form(r)' /\ Paid(r)'
  BY <1>1, <1>2 DEF Form, Paid, Before
<1>4. ASSUME NEW x \in NestedNotes, <<r, x>> \in silent PROVE run[r].held \in Inner
  BY <1>1, <1>4, Facts DEF Form
<1>5. Taking(r)'
  BY <1>2, <1>4 DEF Taking
<1> QED BY <1>1, <1>3, <1>5

LEMMA KeepsBegin ==
    ASSUME Inv, NEW r \in Runs, \/ Refuse(r) \/ Approve(r) \/ BeginSync(r) \/ BeginBackup(r) \/ BeginRotation(r)
    PROVE  Inv' /\ Allowed(r)
<1>1. Form(r) /\ Paid(r) /\ Taking(r)
  BY DEF Inv, Each
<1>2. Untouched /\ run[r].pc \in {"begin", "approve"} /\ run[r].made = {}
  BY <1>1, BeginSteps DEF Form
<1>3. ASSUME NEW status, Ends(r, status, {}) PROVE Inv' /\ Allowed(r)
  BY <1>2, <1>3, Ending, Untouching DEF Before, Ends
<1>4. CASE /\ Alters(r, {"pc", "todo", "spent", "base"})
           /\ \/ run[r].pc = "begin" /\ run'[r].pc \in {"survey", "approve"} /\ run'[r].spent = run[r].spent
              \/ /\ run[r].pc = "approve" /\ run'[r].pc \in {"install", "archive", "reopen"}
                 /\ run'[r].spent = TRUE
  <2>1. Form(r)' /\ Taking(r)' /\ Paid(r)' /\ Alters(r, RunFields)
    BY <1>1, <1>4 DEF Form, Taking, Paid, Alters, RunFields, Before
  <2> QED BY <1>2, <1>4, <2>1, Untouching DEF Before
<1> QED BY <1>3, <1>4, BeginSteps

LEMMA KeepsSurvey ==
    ASSUME Inv, NEW r \in Runs, Surveyed(r) \/ \E x \in Notes : Survey(r, x)
    PROVE  Inv' /\ Allowed(r)
<1>1. Form(r) /\ Paid(r) /\ Taking(r)
  BY DEF Inv, Each
<1>2. Untouched /\ run[r].pc = "survey" /\ run[r].made = {}
  BY <1>1, SurveySteps DEF Form
<1>3. CASE Ends(r, "error", {})
  BY <1>2, <1>3, Ending, Untouching DEF Before, Ends
<1>4. CASE /\ Alters(r, {"pc", "todo", "pend", "same"})
           /\ run'[r].pc \in {"survey", "approve", "install"} /\ run'[r].pend \subseteq run[r].pend \cup Notes
           /\ run'[r].pc = "install" => run'[r].pend = {}
  <2>1. Form(r)' /\ Taking(r)' /\ Paid(r)' /\ Alters(r, RunFields)
    BY <1>1, <1>2, <1>4 DEF Form, Taking, Paid, Alters, RunFields, Before
  <2> QED BY <1>2, <1>4, <2>1, Untouching DEF Before
<1> QED BY <1>3, <1>4, SurveySteps

LEMMA KeepsMakeSub ==
    ASSUME Inv, NEW r \in Runs, NEW x \in NestedNotes, MakeSub(r, x)
    PROVE  Inv' /\ Allowed(r)
<1>1. Form(r) /\ Paid(r) /\ Taking(r) /\ Shape
  BY DEF Inv, Each
<1>2. /\ UNCHANGED <<env, aside>> /\ run[r].pc = "install" /\ x \in run[r].pend
      /\ Alters(r, {"pc", "cur", "minted"}) /\ run'[r].pc = "open" /\ run'[r].cur = x
  BY MakeSubSteps
<1>3. Form(r)' /\ Taking(r)' /\ Paid(r)' /\ Alters(r, RunFields) /\ run[r].spent
  BY <1>1, <1>2 DEF Form, Taking, Paid, Alters, RunFields, Before
<1>4. Shape' /\ Linked \subseteq Linked'
  <2>1. CASE tree' = tree
    BY <1>1, <1>2, <2>1 DEF Shape, Linked
  <2>2. CASE tree[Root]["sub"] = None /\ tree' = With(Root, "sub", <<r, "sub", x>>)
    BY <1>1, <1>2, <2>2, Facts, Takes
  <2> QED BY <2>1, <2>2, MakeSubSteps
<1> QED BY <1>2, <1>3, <1>4, Early DEF Before

LEMMA KeepsOpenSub ==
    ASSUME Inv, NEW r \in Runs, OpenSub(r)
    PROVE  Inv' /\ Allowed(r)
<1>1. Form(r) /\ Paid(r) /\ Taking(r) /\ Untouched /\ run[r].pc = "open" /\ run[r].spent
  BY OpenSubSteps DEF Inv, Each, Paid
<1>2. CASE Fails(r, run[r].made, {})
  <2>1. Form(r)' /\ Taking(r)' /\ Paid(r)' /\ Alters(r, RunFields)
    BY <1>1, <1>2, Failing DEF Before, Form
  <2> QED BY <1>1, <1>2, <2>1, Untouching DEF Before, Fails
<1>3. CASE /\ Alters(r, {"pc", "held", "base"}) /\ run'[r].pc = "create"
           /\ tree[Root]["sub"] \in Containers /\ run'[r].held = tree[Root]["sub"]
           /\ run[r].minted => run'[r].base = tree[Root]["sub"]
  <2>1. tree[Root]["sub"] \in Inner
    BY <1>3, Facts, ConstantsAssumption DEF Inv, Shape
  <2>2. Form(r)' /\ Taking(r)' /\ Paid(r)' /\ Alters(r, RunFields)
    BY <1>1, <1>3, <2>1, Facts DEF Form, Taking, Paid, Alters, RunFields, Before, Notes
  <2> QED BY <1>1, <1>3, <2>2, Untouching DEF Before
<1> QED BY <1>2, <1>3, OpenSubSteps

LEMMA KeepsStartTop ==
    ASSUME Inv, NEW r \in Runs, NEW x \in TopNotes, StartTop(r, x)
    PROVE  Inv' /\ Allowed(r)
<1>1. Form(r) /\ Paid(r) /\ Taking(r)
  BY DEF Inv, Each
<1>2. /\ Untouched /\ run[r].pc = "install" /\ x \in run[r].pend
      /\ Alters(r, {"pc", "cur", "held"})
      /\ run'[r].pc = "create" /\ run'[r].cur = x /\ run'[r].held = Root
  BY StartTopSteps
<1>3. x \notin NestedNotes /\ x \in Notes
  BY Facts DEF Notes
<1>4. Form(r)' /\ Taking(r)' /\ Paid(r)' /\ Alters(r, RunFields)
  BY <1>1, <1>2, <1>3 DEF Form, Taking, Paid, Alters, RunFields, Before
<1> QED BY <1>2, <1>4, Untouching DEF Before

\* What the install under way has made.
LEMMA MakesFacts ==
    ASSUME Inv, NEW r \in Runs, run[r].pc \in {"create", "write"}
    PROVE  /\ Form(r) /\ Taking(r) /\ Paid(r) /\ run[r].spent /\ run[r].cur \in Notes /\ run[r].pc \in Before
           /\ Minted(r) \subseteq Inner /\ <<r, run[r].cur>> \in OwnFiles(r)
           /\ run[r].made \subseteq OwnFiles(r) \cup Inner
           /\ run[r].held \in Containers /\ run[r].cur \in Entries(run[r].held)
<1>1. Form(r) /\ Taking(r) /\ Paid(r)
  BY DEF Inv, Each
<1>2. run[r].spent /\ run[r].cur \in Notes /\ run[r].made \subseteq OwnFiles(r) \cup Inner
  BY <1>1 DEF Form, Paid
<1>3. Minted(r) \subseteq Inner /\ <<r, run[r].cur>> \in OwnFiles(r)
  BY <1>1, <1>2 DEF Form, Minted, OwnFiles
<1>4. run[r].held \in Containers /\ run[r].cur \in Entries(run[r].held)
  BY <1>1, <1>2, Facts DEF Form, Notes
<1> QED BY <1>1, <1>2, <1>3, <1>4 DEF Before

LEMMA KeepsCreate ==
    ASSUME Inv, NEW r \in Runs, Create(r)
    PROVE  Inv' /\ Allowed(r)
<1>1. UNCHANGED <<env, aside>> /\ run[r].pc = "create"
  BY CreateSteps
<1> USE <1>1
<1>2. CASE tree' = tree /\ Fails(r, run[r].made \cup Minted(r), Minted(r))
  <2>1. Form(r)' /\ Taking(r)' /\ Paid(r)' /\ Alters(r, RunFields)
    BY <1>2, MakesFacts, Failing
  <2>2. Shape' /\ Linked' = Linked
    BY <1>2 DEF Inv, Shape, Linked
  <2> QED BY <1>2, <2>1, <2>2, MakesFacts, Early DEF Fails
<1>3. CASE /\ Creatable(run[r].held, run[r].cur)
           /\ tree' = With(run[r].held, run[r].cur, <<r, run[r].cur>>)
           /\ Alters(r, {"pc"}) /\ run'[r].pc = "write"
  <2>1. Form(r) /\ Taking(r) /\ Paid(r) /\ run[r].spent
    BY MakesFacts
  <2>2. Form(r)' /\ Taking(r)' /\ Paid(r)' /\ Alters(r, RunFields)
    BY <1>3, <2>1 DEF Form, Taking, Paid, Alters, RunFields, Before
  <2>3. Shape' /\ Linked \subseteq Linked'
    <3>1. <<r, run[r].cur>> \in Objects
      BY MakesFacts, MadeFacts
    <3> QED BY <1>3, <3>1, MakesFacts, Takes DEF Inv, Creatable
  <2> QED BY <1>3, <2>1, <2>2, <2>3, Early DEF Before
<1> QED BY <1>2, <1>3, CreateSteps

LEMMA KeepsWrite ==
    ASSUME Inv, NEW r \in Runs, Write(r)
    PROVE  Inv' /\ Allowed(r)
<1> DEFINE made == {<<r, run[r].cur>>} \cup Minted(r)
<1>1. Untouched /\ run[r].pc = "write"
  BY WriteSteps
<1> USE <1>1
<1>2. CASE Fails(r, run[r].made \cup made, made)
  <2>1. Form(r)' /\ Taking(r)' /\ Paid(r)' /\ Alters(r, RunFields)
    BY <1>2, MakesFacts, Failing
  <2> QED BY <1>2, <2>1, MakesFacts, Untouching DEF Fails
<1>3. CASE /\ Alters(r, {"pc", "pend", "made", "minted"}) /\ run'[r].pc = "install"
           /\ run'[r].pend = run[r].pend \ {run[r].cur} /\ run'[r].made = run[r].made \cup made
           /\ run'[r].minted = FALSE
  <2>1. /\ Form(r) /\ Taking(r) /\ Paid(r) /\ run[r].spent
        /\ run[r].made \cup made \subseteq OwnFiles(r) \cup Inner
    BY MakesFacts
  <2> HIDE DEF made
  <2>2. Form(r)' /\ Taking(r)' /\ Paid(r)' /\ Alters(r, RunFields)
    BY <1>3, <2>1 DEF Form, Taking, Paid, Alters, RunFields, Before
  <2> QED BY <1>3, <2>2, MakesFacts, Untouching DEF Before
<1> QED BY <1>2, <1>3, WriteSteps

LEMMA KeepsInstall ==
    ASSUME Inv, NEW r \in Runs, Synced(r) \/ \E x \in Notes : Recheck(r, x)
    PROVE  Inv' /\ Allowed(r)
<1>1. Form(r) /\ Paid(r) /\ Taking(r) /\ Untouched /\ run[r].pc = "install"
  BY InstallSteps DEF Inv, Each
<1>2. ASSUME NEW objects, Ends(r, "success", objects) PROVE Inv' /\ Allowed(r)
  BY <1>1, <1>2, Ending, Untouching DEF Before, Ends, Paid
<1>3. CASE Alters(r, {"todo"})
  <2>1. Form(r)' /\ Taking(r)' /\ Paid(r)' /\ Alters(r, RunFields) /\ run'[r].pc = "install"
    BY <1>1, <1>3 DEF Form, Taking, Paid, Alters, RunFields, Before
  <2> QED BY <1>1, <2>1, Untouching DEF Before
<1>4. CASE Fails(r, run[r].made, {})
  <2>1. CASE run[r].spent
    <3>1. Form(r)' /\ Taking(r)' /\ Paid(r)' /\ Alters(r, RunFields)
      BY <1>1, <1>4, <2>1, Failing DEF Before, Form
    <3> QED BY <1>1, <1>4, <3>1, Untouching DEF Before, Fails
  <2>2. CASE run[r].made = {}
    <3>1. run'[r].pc = "done" /\ run'[r].made = {} /\ run'[r].silent = {} /\ run'[r].pend = run[r].pend
      BY <1>4, <2>2 DEF Fails, Alters, RunFields
    <3>2. Form(r)' /\ Taking(r)' /\ Paid(r)' /\ Alters(r, RunFields)
      BY <1>1, <1>4, <3>1 DEF Form, Taking, Paid, Alters, RunFields, Fails, Before
    <3> QED BY <1>1, <3>1, <3>2, Untouching DEF Before
  <2> QED BY <1>1, <2>1, <2>2 DEF Paid
<1> QED BY <1>2, <1>3, <1>4, InstallSteps

LEMMA KeepsExisting ==
    ASSUME Inv, NEW r \in Runs, Archive(r) \/ Manifest(r)
    PROVE  Inv' /\ Allowed(r)
<1>1. /\ Form(r) /\ Paid(r) /\ Taking(r) /\ Untouched /\ run[r].pc \in {"archive", "manifest"} /\ run[r].spent
      /\ run[r].pc \in Before
  BY ExistingSteps DEF Inv, Each, Paid, Before
<1>2. CASE Ends(r, "success", {})
  BY <1>1, <1>2, Ending, Untouching DEF Ends
<1>3. CASE /\ run'[r].pc \in {"link", "manifest"} /\ Alters(r, {"pc", "cur"})
           /\ run'[r].pc = "link" => run'[r].cur = run[r].pc
  <2>1. Form(r)' /\ Taking(r)' /\ Paid(r)' /\ Alters(r, RunFields)
    BY <1>1, <1>3 DEF Form, Taking, Paid, Alters, RunFields, Before
  <2> QED BY <1>1, <1>3, <2>1, Untouching DEF Before
<1>4. CASE Fails(r, run[r].made, {})
  <2>1. Form(r)' /\ Taking(r)' /\ Paid(r)' /\ Alters(r, RunFields)
    BY <1>1, <1>4, Failing DEF Form
  <2> QED BY <1>1, <1>4, <2>1, Untouching DEF Before, Fails
<1>5. Alters(r, {"pc"}) => Alters(r, {"pc", "cur"})
  BY DEF Alters
<1> QED BY <1>2, <1>3, <1>4, <1>5, ExistingSteps

LEMMA KeepsLink ==
    ASSUME Inv, NEW r \in Runs, Link(r)
    PROVE  Inv' /\ Allowed(r)
<1> DEFINE x == run[r].cur
<1>1. /\ UNCHANGED <<env, aside>> /\ run[r].pc = "link" /\ x \in {"archive", "manifest"} /\ run[r].pc \in Before
      /\ Form(r) /\ Paid(r) /\ Taking(r) /\ run[r].spent
  BY LinkSteps DEF Inv, Each, Paid, Before
<1>2. /\ <<r, x>> \in OwnFiles(r) /\ <<r, x>> \in Objects /\ run[r].made \subseteq OwnFiles(r) \cup Inner
      /\ Root \in Containers /\ x \in Entries(Root)
  BY <1>1, Facts DEF OwnFiles, Form
<1>3. \/ tree[Root][x] = None /\ tree' = With(Root, x, <<r, x>>)
      \/ tree' = tree
  BY LinkSteps
<1>4. Shape' /\ Linked \subseteq Linked'
  <2>1. CASE tree' = tree
    BY <1>1, <2>1 DEF Inv, Shape, Linked
  <2>2. CASE tree[Root][x] = None /\ tree' = With(Root, x, <<r, x>>)
    BY <1>1, <1>2, <2>2, Takes DEF Inv
  <2> QED BY <1>3, <2>1, <2>2
<1>5. CASE x = "archive" /\ Alters(r, {"pc", "made"}) /\ run'[r].pc = "manifest" /\ run'[r].made = {<<r, x>>}
  <2>1. Form(r)' /\ Taking(r)' /\ Paid(r)' /\ Alters(r, RunFields)
    BY <1>1, <1>2, <1>5 DEF Form, Taking, Paid, Alters, RunFields, Before
  <2> QED BY <1>1, <1>4, <1>5, <2>1, Early DEF Before
<1>6. CASE Ends(r, "success", {})
  BY <1>1, <1>4, <1>6, Ending, Early DEF Ends
<1>7. ASSUME NEW made, made \subseteq OwnFiles(r) \cup Inner, Fails(r, made, {}) PROVE Inv' /\ Allowed(r)
  <2>1. Form(r)' /\ Taking(r)' /\ Paid(r)' /\ Alters(r, RunFields)
    BY <1>1, <1>7, Failing
  <2> QED BY <1>1, <1>4, <1>7, <2>1, Early DEF Fails
<1> QED BY <1>2, <1>5, <1>6, <1>7, LinkSteps

LEMMA KeepsMoveAside ==
    ASSUME Inv, NEW r \in Runs, NEW o \in Own \cup Dirs, MoveAside(r, o)
    PROVE  Inv' /\ Allowed(r)
<1> DEFINE dir == UndoDir(r, o)
           x == NameOf(o)
           met == tree[dir][x]
           e0 == <<r, x, dir, met>>
<1>1. /\ UNCHANGED env /\ run[r].pc = "undo" /\ o \in Due(r) /\ o \in run[r].made
      /\ Form(r) /\ Taking(r) /\ Paid(r) /\ Accounted(r) /\ Shape /\ run[r].spent
  BY MoveAsideSteps DEF Inv, Each, Paid
<1>2. CASE UNCHANGED <<tree, aside>> /\ TakesBack(r, o, {o})
  <2>1. Form(r)' /\ Taking(r)' /\ Paid(r)' /\ Alters(r, RunFields)
    BY <1>1, <1>2 DEF Form, Taking, Paid, TakesBack, Alters, RunFields, Before
  <2>2. ASSUME NEW e \in aside, e[1] = r PROVE Excused(r, e)'
    <3>1. Excused(r, e)
      BY <1>1, <2>2 DEF Accounted
    <3>2. run'[r].named = run[r].named \cup Reported(r, o, {o}) /\ run'[r].silent = run[r].silent
      BY <1>2 DEF TakesBack, Alters, RunFields
    <3> QED BY <1>1, <3>1, <3>2 DEF Excused, NameOf, IsDir
  <2>3. Accounted(r)' /\ Unused(r)'
    BY <1>2, <2>2 DEF Accounted, Unused, TakesBack, Before
  <2>4. Shape' /\ Linked' = Linked
    BY <1>1, <1>2 DEF Shape, Linked
  <2> QED BY <1>1, <1>2, <2>1, <2>3, <2>4, OneSteps DEF Each
<1>3. CASE /\ dir \in Containers /\ x \in Entries(dir) /\ tree[dir][x] # None
           /\ tree' = With(dir, x, None) /\ aside' = aside \cup {<<r, x, dir, tree[dir][x]>>}
           /\ Alters(r, {"pc", "held", "target", "found"}) /\ run'[r].pc = "settle"
           /\ run'[r].held = dir /\ run'[r].target = o /\ run'[r].found = tree[dir][x]
  <2>1. Shape' /\ Linked \subseteq Linked' /\ met \in Objects
    BY <1>1, <1>3, SetsAside
  <2>2. Taken(r)' = e0
    BY <1>3 DEF Taken, NameOf, IsDir
  <2>3. ASSUME NEW y \in Notes, <<r, y>> \in run[r].silent \cap run[r].made
        PROVE  o = <<r, y>>
    <3>1. /\ ~IsDir(<<r, y>>) /\ <<r, y>> \notin Inner
      BY Facts
    <3>2. o \in run[r].silent /\ ~IsDir(o)
      BY <1>1, <2>3, <3>1 DEF Due
    <3> QED BY <1>1, <2>3, <3>1, <3>2, Facts DEF Taking
  <2> HIDE DEF dir, x, met, e0
  <2>4. Form(r)' /\ Paid(r)' /\ Alters(r, RunFields)
    BY <1>1, <1>3 DEF Form, Paid, Alters, RunFields, Before
  <2>5. Taking(r)'
    <3>1. /\ run'[r].pc = "settle" /\ run'[r].silent = run[r].silent /\ run'[r].made = run[r].made
          /\ run'[r].cur = run[r].cur /\ run'[r].target = o /\ run'[r].found = met
      BY <1>3 DEF Alters, RunFields, met
    <3>2. Taken(r)' \in aside'
      BY <1>3, <2>2 DEF e0, met
    <3> QED BY <1>1, <2>1, <2>3, <3>1, <3>2 DEF Taking
  <2>6. ASSUME NEW e \in aside', e[1] = r PROVE Excused(r, e)'
    <3>1. CASE e = e0
      BY <1>3, <2>2, <3>1 DEF Excused
    <3>2. CASE e # e0
      <4>1. Excused(r, e)
        BY <1>1, <1>3, <2>6, <3>2 DEF Accounted, e0, met
      <4>2. run'[r].named = run[r].named /\ run'[r].silent = run[r].silent
        BY <1>3 DEF Alters, RunFields
      <4> QED BY <1>1, <4>1, <4>2 DEF Excused, NameOf, IsDir
    <3> QED BY <3>1, <3>2
  <2>7. Accounted(r)' /\ Unused(r)'
    BY <1>3, <2>6 DEF Accounted, Unused, Before
  <2>8. \A e \in aside \cup aside' : e[1] # r => e \in aside \cap aside'
    BY <1>3
  <2> QED BY <1>1, <2>1, <2>4, <2>5, <2>7, <2>8, OneSteps DEF Each
<1> QED BY <1>2, <1>3, MoveAsideSteps

LEMMA KeepsSettle ==
    ASSUME Inv, NEW r \in Runs, Settle(r)
    PROVE  Inv' /\ Allowed(r)
<1> DEFINE o == run[r].target
           x == NameOf(o)
           dir == run[r].held
           found == run[r].found
<1>1. /\ UNCHANGED env /\ run[r].pc = "settle" /\ o \in run[r].made
      /\ dir \in Containers /\ x \in Entries(dir) /\ found \in Objects /\ Taken(r) \in aside
      /\ Form(r) /\ Taking(r) /\ Paid(r) /\ Accounted(r) /\ Shape /\ run[r].spent
  BY SettleSteps DEF Inv, Each, Paid
<1>2. \E objects : TakesBack(r, o, objects)
  BY SettleSteps
<1>3. Form(r)' /\ Taking(r)' /\ Paid(r)' /\ Alters(r, RunFields)
  <2>1. /\ run'[r].made = run[r].made \ {o} /\ run'[r].pc = (IF run[r].made = {o} THEN "done" ELSE "undo")
        /\ run'[r].silent = run[r].silent /\ run'[r].cur = run[r].cur /\ run'[r].pend = run[r].pend
        /\ run'[r].spent = run[r].spent /\ DOMAIN run'[r] = RunFields /\ Alters(r, RunFields)
    BY <1>2 DEF TakesBack, Alters, RunFields
  <2>2. \A y \in NestedNotes : <<r, y>> \notin run'[r].silent \cap run'[r].made
    BY <1>1, <2>1 DEF Taking, Notes
  <2> HIDE DEF o
  <2> QED BY <1>1, <2>1, <2>2 DEF Form, Taking, Paid, Before
<1>4. ASSUME NEW e \in aside, e[1] = r, e # Taken(r) PROVE Excused(r, e)'
  <2>1. Excused(r, e) /\ run[r].pc = "settle"
    BY <1>1, <1>4 DEF Accounted
  <2>2. run[r].named \subseteq run'[r].named /\ run'[r].silent = run[r].silent
    BY <1>2 DEF TakesBack, Alters, RunFields
  <2> QED BY <1>4, <2>1, <2>2 DEF Excused, NameOf, IsDir
<1>5. Taken(r) = <<r, x, dir, found>>
  BY DEF Taken
<1>6. CASE aside' = aside \ {Taken(r)}
  <2>1. Accounted(r)' /\ Unused(r)'
    BY <1>2, <1>4, <1>6 DEF Accounted, Unused, TakesBack, Before
  <2>2. \A e \in aside \cup aside' : e[1] # r => e \in aside \cap aside'
    BY <1>5, <1>6
  <2>3. CASE tree' = tree /\ Removable(o, found)
    <3>1. Shape'
      BY <1>1, <1>6, <2>3 DEF Shape
    <3>2. Linked \ Linked' \subseteq {found}
      BY <1>5, <1>6, <2>3 DEF Linked
    <3>3. found \in Removes(r)
      <4>1. found = o
        BY <2>3 DEF Removable
      <4>2. CASE o \in Inner
        BY <1>1, <4>1, <4>2, Facts DEF Removes
      <4>3. CASE o \in OwnFiles(r)
        <5>1. o \in Own /\ o[1] = r
          BY <4>3, Facts DEF OwnFiles
        <5> QED BY <4>1, <5>1 DEF Removes, OwnOf
      <4> QED BY <1>1, <4>2, <4>3 DEF Form
    <3> QED BY <1>1, <1>3, <2>1, <2>2, <3>1, <3>2, <3>3, OneSteps DEF Each
  <2>4. CASE tree[dir][x] = None /\ tree' = With(dir, x, found)
    <3>1. Shape' /\ Linked \subseteq Linked'
      BY <1>1, <1>5, <1>6, <2>4, PutsBack
    <3> QED BY <1>1, <1>3, <2>1, <2>2, <3>1, OneSteps DEF Each
  <2>5. (tree' = tree /\ Removable(o, found)) \/ (tree[dir][x] = None /\ tree' = With(dir, x, found))
    BY <1>1, <1>6, SettleSteps
  <2> QED BY <2>3, <2>4, <2>5
<1>7. CASE UNCHANGED <<tree, aside>> /\ TakesBack(r, o, {found, o})
  <2>1. ASSUME NEW e, e = Taken(r) PROVE Excused(r, e)'
    <3>1. e[2] = NameOf(o) /\ e[4] = found
      BY <1>5, <2>1
    <3>2. run'[r].named = run[r].named \cup Reported(r, o, {found, o}) /\ run'[r].silent = run[r].silent
      BY <1>7 DEF TakesBack, Alters, RunFields
    <3>3. CASE o \in run[r].silent
      BY <3>1, <3>2, <3>3 DEF Excused, NameOf, IsDir
    <3>4. CASE o \notin run[r].silent
      BY <3>1, <3>2, <3>4 DEF Excused, Reported
    <3> QED BY <3>3, <3>4
  <2>2. Accounted(r)' /\ Unused(r)'
    BY <1>4, <1>7, <2>1 DEF Accounted, Unused, TakesBack, Before
  <2>3. Shape' /\ Linked' = Linked
    BY <1>1, <1>7 DEF Shape, Linked
  <2> QED BY <1>1, <1>3, <1>7, <2>2, <2>3, OneSteps DEF Each
<1> QED BY <1>6, <1>7, SettleSteps

LEMMA KeepsRotation ==
    ASSUME Inv, NEW r \in Runs, Reopen(r) \/ RotateName(r) \/ VerifyRotated(r) \/ ReplaceCache(r)
    PROVE  Inv' /\ Allowed(r)
<1> DEFINE cache == tree[Root]["cache"]
           e0 == <<r, "cache", Root, cache>>
<1>1. /\ UNCHANGED env /\ run[r].pc \in {"reopen", "rotate", "verify", "replace"} /\ run[r].made = {}
      /\ Form(r) /\ Taking(r) /\ Paid(r) /\ Accounted(r) /\ Unused(r) /\ Shape /\ run[r].spent
      /\ Root \in Containers /\ "cache" \in Entries(Root) /\ <<r, "cache">> \in Objects
  BY RotationSteps, Facts DEF Inv, Each, Paid, Form
<1>2. ASSUME NEW status, NEW objects, Ends(r, status, objects)
      PROVE  /\ Form(r)' /\ Taking(r)' /\ Paid(r)' /\ Unused(r)' /\ Alters(r, RunFields)
             /\ run'[r].named = run[r].named \cup objects /\ run'[r].silent = run[r].silent
  BY <1>1, <1>2 DEF Form, Taking, Paid, Unused, Ends, Alters, RunFields, Before
<1>3. ASSUME NEW e \in aside, e[1] = r, run'[r].silent = run[r].silent, run[r].named \subseteq run'[r].named
      PROVE  Excused(r, e)' \/ (run[r].pc \in {"verify", "replace"} /\ e = Rotated(r))
  <2>1. Excused(r, e)
    BY <1>1, <1>3 DEF Accounted
  <2> QED BY <1>1, <1>3, <2>1 DEF Excused, NameOf, IsDir
<1>4. ASSUME UNCHANGED <<tree, aside>>, NEW status, NEW objects, Ends(r, status, objects),
             run[r].pc \in {"verify", "replace"} => run[r].found \in objects
      PROVE  Inv' /\ Allowed(r)
  <2>1. ASSUME NEW e \in aside, e[1] = r PROVE Excused(r, e)'
    <3>1. CASE run[r].pc \in {"verify", "replace"} /\ e = Rotated(r)
      <4>1. e[2] = "cache" /\ e[4] = run[r].found
        BY <3>1 DEF Rotated
      <4> QED BY <1>2, <1>4, <3>1, <4>1 DEF Excused
    <3> QED BY <1>2, <1>3, <1>4, <2>1, <3>1
  <2>2. Shape' /\ Linked' = Linked /\ Accounted(r)'
    BY <1>1, <1>4, <2>1 DEF Shape, Linked, Accounted
  <2> QED BY <1>1, <1>2, <1>4, <2>2, OneSteps DEF Each
<1>5. CASE run[r].pc = "reopen" /\ Alters(r, {"pc"}) /\ run'[r].pc = "rotate" /\ UNCHANGED <<tree, aside>>
  <2>1. Form(r)' /\ Taking(r)' /\ Paid(r)' /\ Alters(r, RunFields)
    BY <1>1, <1>5 DEF Form, Taking, Paid, Alters, RunFields, Before
  <2>2. Shape' /\ Linked' = Linked
    BY <1>1, <1>5 DEF Shape, Linked
  <2> QED BY <1>1, <1>5, <2>1, <2>2, Early DEF Before
<1>6. CASE /\ run[r].pc = "rotate" /\ cache # None /\ tree' = With(Root, "cache", None)
           /\ aside' = aside \cup {<<r, "cache", Root, cache>>}
           /\ Alters(r, {"pc", "found"}) /\ run'[r].pc = "verify" /\ run'[r].found = cache
  <2>1. Shape' /\ Linked \subseteq Linked' /\ cache \in Objects
    BY <1>1, <1>6, SetsAside
  <2>2. Rotated(r)' = e0
    BY <1>6 DEF Rotated
  <2>3. \A e \in aside : e[1] # r
    BY <1>1, <1>6 DEF Unused, Before
  <2>4. Accounted(r)' /\ Unused(r)'
    <3>1. \A e \in aside' : e[1] = r => e = Rotated(r)'
      BY <1>6, <2>2, <2>3
    <3> QED BY <1>6, <3>1 DEF Accounted, Unused, Excused, Before
  <2>5. Rotated(r)' \in aside' /\ (\A e \in aside \cup aside' : e[1] # r => e \in aside \cap aside')
    BY <1>6, <2>2
  <2> HIDE DEF cache, e0
  <2>6. Form(r)' /\ Taking(r)' /\ Paid(r)' /\ Alters(r, RunFields)
    BY <1>1, <1>6, <2>1, <2>5 DEF Form, Taking, Paid, Alters, RunFields, Before
  <2> QED BY <1>1, <2>1, <2>4, <2>5, <2>6, OneSteps DEF Each
<1>7. CASE /\ run[r].pc = "verify" /\ UNCHANGED <<tree, aside>> /\ Alters(r, {"pc"}) /\ run'[r].pc = "replace"
           /\ run[r].found = run[r].base
  <2>1. Rotated(r)' = Rotated(r)
    BY <1>7 DEF Rotated, Alters, RunFields
  <2>2. Form(r)' /\ Taking(r)' /\ Paid(r)' /\ Alters(r, RunFields) /\ Unused(r)'
    BY <1>1, <1>7, <2>1 DEF Form, Taking, Paid, Unused, Alters, RunFields, Before
  <2>3. ASSUME NEW e \in aside, e[1] = r PROVE Excused(r, e)'
    BY <1>3, <1>7, <2>1, <2>3 DEF Excused, Alters, RunFields
  <2>4. Shape' /\ Linked' = Linked /\ Accounted(r)'
    BY <1>1, <1>7, <2>3 DEF Shape, Linked, Accounted
  <2> QED BY <1>1, <1>7, <2>2, <2>4, OneSteps DEF Each
<1>8. CASE /\ run[r].pc \in {"verify", "replace"} /\ cache = None /\ tree' = With(Root, "cache", run[r].found)
           /\ aside' = aside \ {Rotated(r)} /\ Ends(r, "error", {})
  <2>1. run[r].found \in Objects /\ Rotated(r) = <<r, "cache", Root, run[r].found>>
    BY <1>1, <1>8 DEF Taking, Rotated
  <2>2. Shape' /\ Linked \subseteq Linked'
    BY <1>1, <1>8, <2>1, PutsBack
  <2>3. Accounted(r)' /\ (\A e \in aside \cup aside' : e[1] # r => e \in aside \cap aside')
    BY <1>2, <1>3, <1>8, <2>1 DEF Accounted
  <2> QED BY <1>1, <1>2, <1>8, <2>2, <2>3, OneSteps DEF Each
<1>9. CASE /\ run[r].pc = "replace" /\ cache = None /\ tree' = With(Root, "cache", <<r, "cache">>)
           /\ aside' = aside /\ Ends(r, "success", {run[r].base})
  <2>1. Shape' /\ Linked \subseteq Linked'
    BY <1>1, <1>9, Takes
  <2>2. ASSUME NEW e \in aside, e[1] = r PROVE Excused(r, e)'
    <3>1. CASE e = Rotated(r)
      <4>1. e[4] = run[r].base
        BY <1>1, <1>9, <3>1 DEF Rotated, Taking
      <4> QED BY <1>2, <1>9, <4>1 DEF Excused
    <3> QED BY <1>2, <1>3, <1>9, <2>2, <3>1
  <2>3. Accounted(r)'
    BY <1>9, <2>2 DEF Accounted
  <2> QED BY <1>1, <1>2, <1>9, <2>1, <2>3, OneSteps DEF Each
<1>10. CASE run[r].pc \in {"reopen", "rotate"} /\ UNCHANGED <<tree, aside>> /\ Ends(r, "error", {})
  BY <1>4, <1>10
<1>12. CASE run[r].pc \in {"verify", "replace"} /\ UNCHANGED <<tree, aside>> /\ Ends(r, "error", {run[r].found})
  BY <1>4, <1>12
<1>13. CASE run[r].pc = "replace" /\ UNCHANGED <<tree, aside>> /\ Ends(r, "error", {run[r].base})
  BY <1>1, <1>4, <1>13 DEF Taking
<1>14. /\ UNCHANGED <<env, fresh>>
       /\ \/ /\ run[r].pc \in {"reopen", "rotate"} /\ UNCHANGED <<tree, aside>>
             /\ Ends(r, "error", {}) \/ (run[r].pc = "reopen" /\ Alters(r, {"pc"}) /\ run'[r].pc = "rotate")
          \/ /\ run[r].pc = "rotate" /\ cache # None /\ tree' = With(Root, "cache", None)
             /\ aside' = aside \cup {<<r, "cache", Root, cache>>}
             /\ Alters(r, {"pc", "found"}) /\ run'[r].pc = "verify" /\ run'[r].found = cache
          \/ /\ run[r].pc = "verify" /\ UNCHANGED <<tree, aside>> /\ Alters(r, {"pc"}) /\ run'[r].pc = "replace"
             /\ run[r].found = run[r].base
          \/ /\ run[r].pc \in {"verify", "replace"} /\ cache = None /\ tree' = With(Root, "cache", run[r].found)
             /\ aside' = aside \ {Rotated(r)} /\ Ends(r, "error", {})
          \/ run[r].pc \in {"verify", "replace"} /\ UNCHANGED <<tree, aside>> /\ Ends(r, "error", {run[r].found})
          \/ /\ run[r].pc = "replace" /\ cache = None /\ tree' = With(Root, "cache", <<r, "cache">>)
             /\ aside' = aside /\ Ends(r, "success", {run[r].base})
          \/ run[r].pc = "replace" /\ UNCHANGED <<tree, aside>> /\ Ends(r, "error", {run[r].base})
  BY RotationSteps
<1> QED BY <1>5, <1>6, <1>7, <1>8, <1>9, <1>10, <1>12, <1>13, <1>14

LEMMA KeepsDie ==
    ASSUME Inv, NEW r \in Runs, Die(r)
    PROVE  Inv' /\ Allowed(r)
<1>1. /\ Untouched /\ run[r].pc \notin {"begin", "done", "dead"} /\ Alters(r, {"pc"}) /\ run'[r].pc = "dead"
      /\ Form(r) /\ Taking(r) /\ Paid(r) /\ Shape
  BY DieSteps DEF Inv, Each
<1>2. Form(r)' /\ Taking(r)' /\ Paid(r)' /\ Unused(r)' /\ Accounted(r)' /\ Alters(r, RunFields)
  BY <1>1 DEF Form, Taking, Paid, Unused, Accounted, Alters, RunFields, Before
<1>3. Shape' /\ Linked' = Linked
  BY <1>1 DEF Shape, Linked, Untouched
<1> QED BY <1>1, <1>2, <1>3, OneSteps DEF Each, Untouched

LEMMA KeepsOutside ==
    ASSUME Inv, NEW x \in Names, OutsideRemove(x) \/ \E o \in Dirs \cup Files : OutsidePut(x, o)
    PROVE  Inv'
<1>1. UNCHANGED <<env, aside, run>>
  BY OutsideSteps
<1>2. Shape'
  <2>1. PICK o \in Objects \cup {None} : Home(x) \in Containers /\ x \in Entries(Home(x)) /\ tree' = With(Home(x), x, o)
    BY OutsideSteps
  <2> DEFINE home == Home(x)
  <2> HIDE DEF home
  <2>2. home \in Containers /\ x \in Entries(home) /\ tree' = With(home, x, o)
    BY <2>1 DEF home
  <2> QED BY <1>1, <2>2, Renames DEF Inv, Shape
<1>3. \A q \in Runs : Each(q)'
  BY <1>1, OtherKeeps
<1> QED BY <1>1, <1>2, <1>3 DEF Inv

LEMMA StepInv == ASSUME Inv, NEW r \in Runs, Step(r) \/ Die(r) PROVE Inv' /\ Allowed(r)
  BY KeepsBegin, KeepsSurvey, KeepsMakeSub, KeepsOpenSub, KeepsStartTop, KeepsCreate, KeepsWrite, KeepsInstall,
     KeepsExisting, KeepsLink, KeepsMoveAside, KeepsSettle, KeepsRotation, KeepsDie DEF Step

LEMMA NextInv == Inv /\ [Next]_vars => Inv'
<1> SUFFICES ASSUME Inv, [Next]_vars PROVE Inv'
  OBVIOUS
<1>1. CASE \E r \in Runs : Step(r) \/ Die(r)
  BY <1>1, StepInv
<1>2. CASE \E x \in Names : OutsideRemove(x) \/ \E o \in Dirs \cup Files : OutsidePut(x, o)
  BY <1>2, KeepsOutside
<1>3. CASE UNCHANGED vars
  <2>1. Shape'
    BY <1>3 DEF vars, Inv, Shape
  <2>2. \A q \in Runs : Each(q)'
    BY <1>3, OtherKeeps DEF vars
  <2> QED BY <1>3, <2>1, <2>2 DEF vars, Inv
<1> QED BY <1>1, <1>2, <1>3 DEF Next

\* Only its own step changes the record of a run.
LEMMA StepsAllowed == ASSUME Inv, [Next]_vars, NEW r \in Runs, run'[r] # run[r] PROVE Allowed(r)
<1>1. ASSUME NEW q \in Runs, Step(q) \/ Die(q) PROVE Allowed(r)
  <2>1. Allowed(q)
    BY <1>1, StepInv
  <2>2. q = r
    BY <2>1 DEF Allowed
  <2> QED BY <2>1, <2>2
<1>2. ASSUME NEW x \in Names, OutsideRemove(x) \/ \E o \in Dirs \cup Files : OutsidePut(x, o) PROVE FALSE
  BY <1>2, OutsideSteps
<1> QED BY <1>1, <1>2 DEF Next, vars

LEMMA InvAlways == Spec => []Inv
BY InitInv, NextInv, PTL DEF Spec

\* A step of a run makes nothing unreachable but what that run created, or an empty directory it
\* descended into right after it had made one (paths.remove_fd_if_same, the rotation's no-replace
\* renames).
THEOREM RemovesOnlyOwnAlways == Spec => RemovesOnlyOwn
<1>1. Inv /\ [Next]_vars =>
         [\A r \in Runs : run'[r] # run[r] =>
             Linked \ Linked' \subseteq OwnOf(r) \cup {o \in run[r].made : IsDir(o)}]_vars
  BY StepsAllowed DEF Allowed, Removes
<1> QED BY <1>1, InvAlways, PTL DEF Spec, RemovesOnlyOwn

\* Until its own approval is verified, no step of a run touches a directory (every write action
\* calls verify_operator_approval before its first system call that writes).
THEOREM SpendsFirstAlways == Spec => SpendsFirst
<1>1. Inv /\ [Next]_vars =>
         [\A r \in Runs : run'[r] # run[r] /\ <<tree, aside>>' # <<tree, aside>> => run[r].spent]_vars
  BY StepsAllowed DEF Allowed
<1> QED BY <1>1, InvAlways, PTL DEF Spec, SpendsFirst

\* What an ended run leaves under a random name it names for the operator, but for a file that
\* took the name of the cache and for what an install that undoes itself met.
THEOREM AsideNamedElsewhereAlways == Spec => []AsideNamedElsewhere
<1>1. Inv => AsideNamedElsewhere
  BY DEF AsideNamedElsewhere, Inv, Each, Accounted, Excused
<1> QED BY <1>1, InvAlways, PTL

-----------------------------------------------------------------------------
(* What a failed run leaves.  A name that no outsider touches holds what a *)
(* run made there from its creation to its removal.                        *)

Filed == Notes \cup {"archive", "manifest"}

\* A run that may leave what it made.
Free(r) == run[r].pc = "dead" \/ (run[r].pc = "done" /\ run[r].status = "success")

\* A run has its file x to take back.
Keeps(r, x) ==
    /\ run[r].pc \notin {"dead", "done"}
    /\ \/ <<r, x>> \in run[r].made /\ ~(run[r].pc = "settle" /\ run[r].target = <<r, x>>)
       \/ run[r].pc = "write" /\ run[r].cur = x

\* A run is in the middle of taking it back.
Holding(r, x) == run[r].pc = "settle" /\ run[r].target = <<r, x>>

\* A step of r is not about its file x.
Steady(r, x) ==
    /\ run[r].pc \notin {"dead", "done"}
    /\ Keeps(r, x)' => Keeps(r, x)
    /\ Keeps(r, x) => Keeps(r, x)' \/ Free(r)'
    /\ ~Holding(r, x)'
    /\ Holding(r, x) => Free(r)'

Steadily(r) == \A x \in Filed : Steady(r, x)

LEMMA SteadyMoves ==
    ASSUME Inv, NEW r \in Runs, Alters(r, RunFields \ {"made"}), run[r].pc \notin {"dead", "done", "settle", "write"},
           run'[r].pc \notin {"dead", "settle", "write", "done"}
    PROVE  Steadily(r)
  BY DEF Steadily, Steady, Keeps, Free, Holding, Alters, RunFields

LEMMA SteadyEnds ==
    ASSUME Inv, NEW r \in Runs, run[r].pc \notin {"dead", "done", "settle", "write"}, NEW status, NEW objects,
           Ends(r, status, objects), run[r].made = {} \/ status = "success"
    PROVE  Steadily(r)
  BY DEF Steadily, Steady, Keeps, Free, Holding, Ends, Alters, RunFields

LEMMA SteadyFails ==
    ASSUME Inv, NEW r \in Runs, run[r].pc \in Before, NEW made, NEW silent, Fails(r, made, silent),
           \A x \in Filed : <<r, x>> \in made <=> <<r, x>> \in run[r].made \/ (run[r].pc = "write" /\ run[r].cur = x)
    PROVE  Steadily(r)
  BY DEF Steadily, Steady, Keeps, Free, Holding, Fails, Alters, RunFields, Before

LEMMA SteadyTakes ==
    ASSUME Inv, NEW r \in Runs, run[r].pc \in {"undo", "settle"}, NEW o, NEW objects, TakesBack(r, o, objects),
           run[r].pc = "settle" => run[r].target = o
    PROVE  \A x \in Filed : <<r, x>> # o => Steady(r, x)
  BY DEF Steady, Keeps, Free, Holding, TakesBack, Alters, RunFields

LEMMA SteadyEarly ==
    ASSUME Inv, NEW r \in Runs,
           \/ Refuse(r) \/ Approve(r) \/ BeginSync(r) \/ BeginBackup(r) \/ BeginRotation(r) \/ Surveyed(r)
           \/ OpenSub(r) \/ Write(r) \/ Synced(r) \/ Archive(r) \/ Manifest(r) \/ Die(r)
           \/ (\E x \in Notes : Survey(r, x) \/ Recheck(r, x)) \/ (\E x \in TopNotes : StartTop(r, x))
           \/ (\E x \in NestedNotes : MakeSub(r, x))
    PROVE  Steadily(r)
<1>1. Form(r)
  BY DEF Inv, Each
<1>2. CASE Refuse(r) \/ Approve(r) \/ BeginSync(r) \/ BeginBackup(r) \/ BeginRotation(r)
  <2>1. run[r].pc \in {"begin", "approve"} /\ run[r].made = {}
    BY <1>1, <1>2, BeginSteps DEF Form
  <2>2. CASE \E status : status # "success" /\ Ends(r, status, {})
    BY <2>1, <2>2, SteadyEnds
  <2>3. CASE Alters(r, {"pc", "todo", "spent", "base"}) /\ run'[r].pc \in {"survey", "approve", "install", "archive", "reopen"}
    <3>1. Alters(r, RunFields \ {"made"})
      BY <2>3 DEF Alters, RunFields
    <3> QED BY <2>1, <2>3, <3>1, SteadyMoves
  <2> QED BY <1>2, <2>2, <2>3, BeginSteps
<1>3. CASE Surveyed(r) \/ \E x \in Notes : Survey(r, x)
  <2>1. run[r].pc = "survey" /\ run[r].made = {}
    BY <1>1, <1>3, SurveySteps DEF Form
  <2>2. CASE Ends(r, "error", {})
    BY <2>1, <2>2, SteadyEnds
  <2>3. CASE Alters(r, {"pc", "todo", "pend", "same"}) /\ run'[r].pc \in {"survey", "approve", "install"}
    <3>1. Alters(r, RunFields \ {"made"})
      BY <2>3 DEF Alters, RunFields
    <3> QED BY <2>1, <2>3, <3>1, SteadyMoves
  <2> QED BY <1>3, <2>2, <2>3, SurveySteps
<1>4. CASE OpenSub(r)
  <2>1. run[r].pc = "open" /\ run[r].pc \in Before
    BY <1>4, OpenSubSteps DEF Before
  <2>2. CASE Fails(r, run[r].made, {})
    BY <2>1, <2>2, SteadyFails
  <2>3. CASE Alters(r, {"pc", "held", "base"}) /\ run'[r].pc = "create"
    <3>1. Alters(r, RunFields \ {"made"})
      BY <2>3 DEF Alters, RunFields
    <3> QED BY <2>1, <2>3, <3>1, SteadyMoves
  <2> QED BY <1>4, <2>2, <2>3, OpenSubSteps
<1>5. CASE Write(r)
  <2> DEFINE made == {<<r, run[r].cur>>} \cup Minted(r)
  <2>1. Minted(r) \subseteq Inner /\ run[r].pc = "write" /\ run[r].pc \in Before
    BY <1>5, WriteSteps, MakesFacts
  <2>2. \A x \in Filed : <<r, x>> \notin Inner
    BY Facts DEF Filed
  <2>3. \A x \in Filed : <<r, x>> \in run[r].made \cup made <=> <<r, x>> \in run[r].made \/ run[r].cur = x
    BY <2>1, <2>2
  <2>4. CASE Fails(r, run[r].made \cup made, made)
    BY <2>1, <2>3, <2>4, SteadyFails
  <2>5. CASE Alters(r, {"pc", "pend", "made", "minted"}) /\ run'[r].pc = "install" /\ run'[r].made = run[r].made \cup made
    <3> HIDE DEF made
    <3> QED BY <2>1, <2>3, <2>5 DEF Steadily, Steady, Keeps, Free, Holding, Alters, RunFields
  <2> QED BY <1>5, <2>4, <2>5, WriteSteps
<1>6. CASE Synced(r) \/ \E x \in Notes : Recheck(r, x)
  <2>1. run[r].pc = "install" /\ run[r].pc \in Before
    BY <1>6, InstallSteps DEF Before
  <2>2. CASE Alters(r, {"todo"})
    <3>1. Alters(r, RunFields \ {"made"}) /\ run'[r].pc = run[r].pc
      BY <2>2 DEF Alters, RunFields
    <3> QED BY <2>1, <3>1, SteadyMoves
  <2>3. (\E objects : Ends(r, "success", objects)) => Steadily(r)
    BY <2>1, SteadyEnds
  <2>4. Fails(r, run[r].made, {}) => Steadily(r)
    BY <2>1, SteadyFails
  <2> QED BY <1>6, <2>2, <2>3, <2>4, InstallSteps
<1>7. CASE Archive(r) \/ Manifest(r)
  <2>1. run[r].pc \in {"archive", "manifest"} /\ run[r].pc \in Before
    BY <1>7, ExistingSteps DEF Before
  <2>2. ASSUME Alters(r, {"pc"}) \/ Alters(r, {"pc", "cur"}), run'[r].pc \in {"link", "manifest"}
        PROVE  Steadily(r)
    <3>1. Alters(r, RunFields \ {"made"})
      BY <2>2 DEF Alters, RunFields
    <3> QED BY <2>1, <2>2, <3>1, SteadyMoves
  <2>3. Ends(r, "success", {}) => Steadily(r)
    BY <2>1, SteadyEnds
  <2>4. Fails(r, run[r].made, {}) => Steadily(r)
    BY <2>1, SteadyFails
  <2> QED BY <1>7, <2>2, <2>3, <2>4, ExistingSteps
<1>8. CASE Die(r)
  BY <1>8, DieSteps DEF Steadily, Steady, Keeps, Free, Holding
<1>9. ASSUME NEW x \in TopNotes, StartTop(r, x) PROVE Steadily(r)
  <2>1. Alters(r, {"pc", "cur", "held"}) /\ run[r].pc = "install" /\ run'[r].pc = "create"
    BY <1>9, StartTopSteps
  <2>2. Alters(r, RunFields \ {"made"})
    BY <2>1 DEF Alters, RunFields
  <2> QED BY <2>1, <2>2, SteadyMoves
<1>10. ASSUME NEW x \in NestedNotes, MakeSub(r, x) PROVE Steadily(r)
  <2>1. Alters(r, {"pc", "cur", "minted"}) /\ run[r].pc = "install" /\ run'[r].pc = "open"
    BY <1>10, MakeSubSteps
  <2>2. Alters(r, RunFields \ {"made"})
    BY <2>1 DEF Alters, RunFields
  <2> QED BY <2>1, <2>2, SteadyMoves
<1> QED BY <1>2, <1>3, <1>4, <1>5, <1>6, <1>7, <1>8, <1>9, <1>10

\* A step changes nothing but what this name holds or held.
OnlyAt(x) ==
    /\ \A d \in Containers : \A y \in Entries(d) : y # x => tree'[d][y] = tree[d][y]
    /\ \A e \in aside \cup aside' : e[2] # x => e \in aside \cap aside'

LEMMA OnlyThere ==
    ASSUME Inv, NEW dir, NEW x, NEW o, tree' = tree \/ (dir \in Containers /\ x \in Entries(dir) /\ o \in Objects \cup {None} /\ tree' = With(dir, x, o)),
           \A e \in aside \cup aside' : e[2] # x => e \in aside \cap aside'
    PROVE  OnlyAt(x)
  BY Renames DEF OnlyAt, Inv

LEMMA NoteNames == \A r \in Runs, x \in Filed : /\ <<r, x>> \in OwnFiles(r) /\ <<r, x>> \in Objects /\ <<r, x>> # None
                                                /\ <<r, x>> \notin Inner /\ NameOf(<<r, x>>) = x /\ ~IsDir(<<r, x>>)
                                                /\ x # "sub" /\ x # "cache" /\ x \in Names
                                                /\ x \in NestedNotes <=> x \notin Plain
  BY Facts, ConstantsAssumption DEF Filed, OwnFiles, Notes, Names

LEMMA CreateMakes ==
    ASSUME Inv, NEW r \in Runs, Create(r)
    PROVE  \/ UNCHANGED <<tree, aside>> /\ Steadily(r)
           \/ LET x == run[r].cur
                  dir == run[r].held
              IN /\ Creatable(dir, x) /\ tree' = With(dir, x, <<r, x>>) /\ UNCHANGED aside
                 /\ Alters(r, {"pc"}) /\ run'[r].pc = "write" /\ \A y \in Filed \ {x} : Steady(r, y)
<1>1. UNCHANGED <<env, aside>> /\ run[r].pc = "create" /\ Minted(r) \subseteq Inner /\ run[r].pc \in Before
  BY CreateSteps, MakesFacts
<1>2. CASE tree' = tree /\ Fails(r, run[r].made \cup Minted(r), Minted(r))
  BY <1>1, <1>2, SteadyFails, NoteNames
<1>3. CASE /\ Creatable(run[r].held, run[r].cur)
           /\ tree' = With(run[r].held, run[r].cur, <<r, run[r].cur>>)
           /\ Alters(r, {"pc"}) /\ run'[r].pc = "write"
  <2>1. \A y \in Filed \ {run[r].cur} : Steady(r, y)
    BY <1>1, <1>3 DEF Steady, Keeps, Free, Holding, Alters, RunFields
  <2> QED BY <1>1, <1>3, <2>1
<1> QED BY <1>2, <1>3, CreateSteps

LEMMA LinkMakes ==
    ASSUME Inv, NEW r \in Runs, Link(r)
    PROVE  \/ UNCHANGED <<tree, aside>> /\ Steadily(r)
           \/ \E x \in {"archive", "manifest"} :
                 /\ tree[Root][x] = None /\ tree' = With(Root, x, <<r, x>>) /\ UNCHANGED aside
                 /\ \A y \in Filed \ {x} : Steady(r, y)
                 /\ ~Holding(r, x)' /\ (Keeps(r, x)' \/ Free(r)')
<1>1. /\ UNCHANGED <<env, aside>> /\ run[r].pc = "link" /\ run[r].pc \in Before
      /\ run[r].cur = "archive" => run[r].made = {}
  BY LinkSteps DEF Inv, Each, Form, Before
<1>2. PICK x \in {"archive", "manifest"} : x = run[r].cur
  BY LinkSteps
<1>3. x \in Filed
  BY DEF Filed
<1>4. CASE tree' = tree /\ Fails(r, run[r].made, {})
  BY <1>1, <1>4, SteadyFails
<1> DEFINE moved == x = "archive" /\ Alters(r, {"pc", "made"}) /\ run'[r].pc = "manifest" /\ run'[r].made = {<<r, x>>}
           makes == (\A y \in Filed \ {x} : Steady(r, y)) /\ ~Holding(r, x)' /\ (Keeps(r, x)' \/ Free(r)')
<1>5. moved => makes
  BY <1>1, <1>2, <1>3 DEF Steady, Keeps, Free, Holding, Alters, RunFields
<1>6. Ends(r, "success", {}) => makes
  BY <1>1, <1>2, <1>3 DEF Steady, Keeps, Free, Holding, Ends, Alters, RunFields
<1>7. Fails(r, run[r].made \cup {<<r, x>>}, {}) => makes
  BY <1>1, <1>2, <1>3 DEF Steady, Keeps, Free, Holding, Fails, Alters, RunFields
<1>8. \/ tree' = tree /\ Fails(r, run[r].made, {})
      \/ /\ tree[Root][x] = None /\ tree' = With(Root, x, <<r, x>>)
         /\ moved \/ Ends(r, "success", {}) \/ Fails(r, run[r].made \cup {<<r, x>>}, {})
  BY <1>2, LinkSteps
<1>9. CASE tree[Root][x] = None /\ tree' = With(Root, x, <<r, x>>) /\ makes
  BY <1>1, <1>9
<1> QED BY <1>4, <1>5, <1>6, <1>7, <1>8, <1>9

LEMMA MoveAsideSteady ==
    ASSUME Inv, NEW r \in Runs, NEW o \in Own \cup Dirs, MoveAside(r, o)
    PROVE  /\ \A x \in Filed : <<r, x>> # o => Steady(r, x)
           /\ \A x \in Filed : <<r, x>> = o => Keeps(r, x) /\ ~Keeps(r, x)'
           /\ OnlyAt(NameOf(o))
<1> DEFINE dir == UndoDir(r, o)
           x0 == NameOf(o)
<1>1. run[r].pc = "undo" /\ o \in run[r].made
  BY MoveAsideSteps
<1>2. CASE UNCHANGED <<tree, aside>> /\ TakesBack(r, o, {o})
  <2>1. \A x \in Filed : <<r, x>> # o => Steady(r, x)
    BY <1>1, <1>2, SteadyTakes
  <2>2. \A x \in Filed : <<r, x>> = o => Keeps(r, x) /\ ~Keeps(r, x)'
    BY <1>1, <1>2 DEF Keeps, TakesBack
  <2> QED BY <1>2, <2>1, <2>2, OnlyThere
<1>3. CASE /\ dir \in Containers /\ x0 \in Entries(dir) /\ tree[dir][x0] # None
           /\ tree' = With(dir, x0, None) /\ aside' = aside \cup {<<r, x0, dir, tree[dir][x0]>>}
           /\ Alters(r, {"pc", "held", "target", "found"}) /\ run'[r].pc = "settle" /\ run'[r].target = o
  <2> HIDE DEF dir, x0
  <2>1. /\ \A x \in Filed : <<r, x>> # o => Steady(r, x)
        /\ \A x \in Filed : <<r, x>> = o => Keeps(r, x) /\ ~Keeps(r, x)'
    BY <1>1, <1>3 DEF Steady, Keeps, Free, Holding, Alters, RunFields
  <2>2. OnlyAt(x0)
    BY <1>3, OnlyThere
  <2> QED BY <2>1, <2>2 DEF x0
<1> QED BY <1>2, <1>3, MoveAsideSteps

LEMMA SettleSteady ==
    ASSUME Inv, NEW r \in Runs, Settle(r)
    PROVE  /\ \A x \in Filed : <<r, x>> # run[r].target => Steady(r, x)
           /\ \A x \in Filed : <<r, x>> = run[r].target => Holding(r, x) /\ ~Keeps(r, x)' /\ ~Holding(r, x)'
           /\ OnlyAt(NameOf(run[r].target))
<1>1. /\ run[r].pc = "settle" /\ \E objects : TakesBack(r, run[r].target, objects)
      /\ Taken(r) = <<r, NameOf(run[r].target), run[r].held, run[r].found>>
  BY SettleSteps DEF Taken
<1>2. \A x \in Filed : <<r, x>> # run[r].target => Steady(r, x)
  BY <1>1, SteadyTakes
<1>3. \A x \in Filed : <<r, x>> = run[r].target => Holding(r, x) /\ ~Keeps(r, x)' /\ ~Holding(r, x)'
  BY <1>1 DEF Keeps, Holding, TakesBack
<1>4. OnlyAt(NameOf(run[r].target))
  <2>1. aside' = aside \/ aside' = aside \ {Taken(r)}
    BY SettleSteps
  <2>2. Taken(r)[2] = NameOf(run[r].target)
    BY DEF Taken
  <2>3. \A e \in aside \cup aside' : e[2] # NameOf(run[r].target) => e \in aside \cap aside'
    BY <2>1, <2>2
  <2> DEFINE x == NameOf(run[r].target)
             dir == run[r].held
  <2>4. /\ dir \in Containers /\ x \in Entries(dir) /\ run[r].found \in Objects
        /\ tree' = tree \/ tree' = With(dir, x, run[r].found)
    BY SettleSteps
  <2> QED BY <2>3, <2>4, OnlyThere
<1> QED BY <1>2, <1>3, <1>4

LEMMA RotationSteady ==
    ASSUME Inv, NEW r \in Runs, Reopen(r) \/ RotateName(r) \/ VerifyRotated(r) \/ ReplaceCache(r)
    PROVE  Steadily(r) /\ OnlyAt("cache")
<1>1. run[r].made = {} /\ run[r].pc \in {"reopen", "rotate", "verify", "replace"}
  BY RotationSteps DEF Inv, Each, Form
<1>2. Steadily(r)
  <2>1. ASSUME NEW objects, NEW status, Ends(r, status, objects) PROVE Steadily(r)
    BY <1>1, <2>1, SteadyEnds
  <2>2. ASSUME Alters(r, {"pc"}) \/ Alters(r, {"pc", "found"}), run'[r].pc \in {"rotate", "verify", "replace"}
        PROVE  Steadily(r)
    <3>1. Alters(r, RunFields \ {"made"})
      BY <2>2 DEF Alters, RunFields
    <3> QED BY <1>1, <2>2, <3>1, SteadyMoves
  <2> QED BY <2>1, <2>2, RotationSteps
<1>3. OnlyAt("cache")
  <2>1. /\ Root \in Containers /\ "cache" \in Entries(Root) /\ Rotated(r)[2] = "cache" /\ <<r, "cache">> \in Objects
        /\ run[r].pc \in {"verify", "replace"} => run[r].found \in Objects
    BY Facts DEF Rotated, Inv, Each, Taking
  <2>2. \A e \in aside \cup aside' : e[2] # "cache" => e \in aside \cap aside'
    <3>1. aside' = aside \/ aside' = aside \ {Rotated(r)} \/ \E o : aside' = aside \cup {<<r, "cache", Root, o>>}
      BY RotationSteps
    <3> QED BY <2>1, <3>1
  <2>3. tree' = tree \/ \E o \in Objects \cup {None} : tree' = With(Root, "cache", o)
    BY <2>1, RotationSteps
  <2> QED BY <2>1, <2>2, <2>3, OnlyThere
<1> QED BY <1>2, <1>3

Here(x) == tree[Root][x]

Placed(r, x) ==
    /\ Keeps(r, x) => Here(x) = <<r, x>>
    /\ Here(x) = <<r, x>> => Keeps(r, x) \/ Free(r)
    /\ Holding(r, x) => run[r].held = Root /\ run[r].found = <<r, x>>

\* An empty cache that a run made is there only if that run succeeded.
CacheMade(r) ==
    tree[Root]["cache"] = <<r, "cache">> \/ (\E e \in aside : e[2] = "cache" /\ e[4] = <<r, "cache">>) =>
        run[r].pc = "done" /\ run[r].status = "success"

\* The names that the theorem is about, the cache apart.
Bare == Plain \ (env.touched \cup {"sub", "cache"})

FailInv ==
    /\ "undo" \notin env.faults => \A r \in Runs, x \in Bare : Placed(r, x)
    /\ "cache" \notin env.touched => \A r \in Runs : CacheMade(r)

LEMMA BareFiled == /\ Bare \subseteq Filed /\ \A x \in Bare : x \in Plain /\ x \in Entries(Root) /\ x # "sub" /\ x # "cache"
                   /\ Root \in Containers /\ "cache" \in Entries(Root) /\ "sub" \in Entries(Root)
                   /\ \A x \in Filed : x \in Plain => x \in Entries(Root)
  BY Facts DEF Bare, Filed, Plain, Notes

\* What happens under other names, or to other files, leaves a file placed.
LEMMA StaysPlaced ==
    ASSUME NEW r \in Runs, NEW x \in Filed, Here(x)' = Here(x), \A q \in Runs : Placed(q, x),
           \A q \in Runs : q # r => run'[q] = run[q], Steady(r, x)
    PROVE  \A q \in Runs : Placed(q, x)'
  BY DEF Placed, Steady, Keeps, Free, Holding

LEMMA CacheStays ==
    ASSUME Inv, NEW y, y # "cache", OnlyAt(y), NEW q \in Runs, CacheMade(q),
           run'[q] = run[q] \/ run[q].pc # "done"
    PROVE  CacheMade(q)'
<1>1. tree'[Root]["cache"] = tree[Root]["cache"]
  BY BareFiled DEF OnlyAt
<1>2. \A e \in aside' : e[2] = "cache" => e \in aside
  BY DEF OnlyAt
<1> QED BY <1>1, <1>2 DEF CacheMade

LEMMA RotationCache ==
    ASSUME Inv, NEW r \in Runs, Reopen(r) \/ RotateName(r) \/ VerifyRotated(r) \/ ReplaceCache(r),
           \A q \in Runs : CacheMade(q)
    PROVE  \A q \in Runs : CacheMade(q)'
<1> DEFINE cache == tree[Root]["cache"]
           Was(o) == cache = o \/ \E e \in aside : e[2] = "cache" /\ e[4] = o
           Is(o) == tree'[Root]["cache"] = o \/ \E e \in aside' : e[2] = "cache" /\ e[4] = o
<1>1. /\ run[r].pc # "done" /\ Allowed(r) /\ DOMAIN run' = Runs
      /\ run[r].pc \in {"verify", "replace"} => run[r].found \in Objects /\ Rotated(r) \in aside
      /\ Root \in Containers /\ "cache" \in Entries(Root) /\ Shape
      /\ \A q \in Runs : <<q, "cache">> \in Objects /\ <<q, "cache">> # None
      /\ Rotated(r) = <<r, "cache", Root, run[r].found>>
  <2>1. run[r].pc # "done" /\ Allowed(r) /\ DOMAIN run' = Runs
    BY RotationSteps, KeepsRotation DEF Inv
  <2>2. run[r].pc \in {"verify", "replace"} => run[r].found \in Objects /\ Rotated(r) \in aside
    BY DEF Inv, Each, Taking
  <2> QED BY <2>1, <2>2, Facts DEF Inv, Rotated
<1>2. ASSUME NEW o, o # None, Is(o), ~Was(o)
      PROVE  o = <<r, "cache">> /\ run'[r].pc = "done" /\ run'[r].status = "success"
  <2>1. CASE UNCHANGED <<tree, aside>>
    BY <1>2, <2>1
  <2>2. CASE tree' = With(Root, "cache", None) /\ aside' = aside \cup {<<r, "cache", Root, cache>>}
    <3>1. tree'[Root]["cache"] = None
      BY <1>1, <2>2, Renames
    <3> QED BY <1>2, <2>2, <3>1
  <2>3. CASE run[r].pc \in {"verify", "replace"} /\ tree' = With(Root, "cache", run[r].found) /\ aside' = aside \ {Rotated(r)}
    <3>1. tree'[Root]["cache"] = run[r].found /\ Rotated(r)[2] = "cache" /\ Rotated(r)[4] = run[r].found
      BY <1>1, <2>3, Renames
    <3> QED BY <1>1, <1>2, <2>3, <3>1
  <2>4. CASE tree' = With(Root, "cache", <<r, "cache">>) /\ aside' = aside /\ Ends(r, "success", {run[r].base})
    <3>1. tree'[Root]["cache"] = <<r, "cache">>
      BY <1>1, <2>4, Renames
    <3> QED BY <1>2, <2>4, <3>1 DEF Ends
  <2> QED BY <2>1, <2>2, <2>3, <2>4, RotationSteps
<1> HIDE DEF Is
<1>3. ASSUME NEW q \in Runs, Is(<<q, "cache">>) PROVE run'[q].pc = "done" /\ run'[q].status = "success"
  <2>1. CASE Was(<<q, "cache">>)
    BY <1>1, <2>1 DEF CacheMade, Allowed
  <2>2. CASE ~Was(<<q, "cache">>)
    <3> HIDE DEF Was
    <3>1. <<q, "cache">> # None
      BY <1>1
    <3>2. <<q, "cache">> = <<r, "cache">> /\ run'[r].pc = "done" /\ run'[r].status = "success"
      BY <1>2, <1>3, <2>2, <3>1
    <3> QED BY <3>2
  <2> QED BY <2>1, <2>2
<1> QED BY <1>3 DEF CacheMade, Is

\* A run makes a file under a free name.
LEMMA MakesPlaced ==
    ASSUME Inv, NEW r \in Runs, NEW x \in Filed \cap Plain, tree[Root][x] = None, tree' = With(Root, x, <<r, x>>),
           \A q \in Runs : Placed(q, x), \A q \in Runs : q # r => run'[q] = run[q],
           ~Holding(r, x)', Keeps(r, x)' \/ Free(r)'
    PROVE  \A q \in Runs : Placed(q, x)'
<1>1. Here(x) = None /\ Here(x)' = <<r, x>>
  BY NoteNames, BareFiled, Renames DEF Here, Inv
<1>2. ASSUME NEW q \in Runs, q # r PROVE Placed(q, x)'
  BY <1>1, <1>2, NoteNames DEF Placed, Keeps, Free, Holding
<1> QED BY <1>1, <1>2 DEF Placed

\* It takes it back.
LEMMA MovesPlaced ==
    ASSUME Inv, NEW r \in Runs, NEW x \in Filed \cap Plain, MoveAside(r, <<r, x>>), "undo" \notin env.faults,
           \A q \in Runs : Placed(q, x), \A q \in Runs : q # r => run'[q] = run[q]
    PROVE  \A q \in Runs : Placed(q, x)'
<1>1. <<r, x>> \in Own /\ NameOf(<<r, x>>) = x
  BY NoteNames, Facts DEF Filed, Own
<1>2. run[r].pc = "undo" /\ <<r, x>> \in run[r].made
  BY <1>1, MoveAsideSteps
<1>3. Keeps(r, x) /\ Here(x) = <<r, x>>
  BY <1>2 DEF Keeps, Placed
<1>4. UndoDir(r, <<r, x>>) = Root /\ Root # None /\ tree[Root][x] = <<r, x>> /\ <<r, x>> # None
  BY <1>1, <1>3, Facts, NoteNames DEF UndoDir, Here
<1>5. /\ tree' = With(Root, x, None) /\ run'[r].pc = "settle" /\ run'[r].held = Root
      /\ run'[r].target = <<r, x>> /\ run'[r].found = <<r, x>>
  <2>1. PICK o \in Own : o = <<r, x>>
    BY <1>1
  <2>2. MoveAside(r, o) /\ UndoDir(r, o) = Root /\ NameOf(o) = x /\ tree[Root][x] # None
    BY <1>1, <1>4, <2>1
  <2>3. /\ tree' = With(UndoDir(r, o), NameOf(o), None) /\ run'[r].pc = "settle" /\ run'[r].held = UndoDir(r, o)
        /\ run'[r].target = o /\ run'[r].found = tree[UndoDir(r, o)][NameOf(o)]
    <3>1. UndoDir(r, o) # None /\ tree[UndoDir(r, o)][NameOf(o)] # None
      BY <1>4, <2>2
    <3>2. o \in Own \cup Dirs /\ MoveAside(r, o) /\ "undo" \notin env.faults
      BY <2>2
    <3> HIDE <2>2
    <3> QED BY <3>1, <3>2, MoveAsideSteps
  <2> QED BY <1>4, <2>1, <2>2, <2>3
<1>6. Here(x)' = None
  BY <1>5, BareFiled, Renames DEF Here, Inv
<1>7. ASSUME NEW q \in Runs, q # r PROVE Placed(q, x)'
  BY <1>3, <1>6, <1>7, NoteNames DEF Placed, Keeps, Free, Holding
<1> QED BY <1>5, <1>6, <1>7, NoteNames DEF Placed, Keeps, Holding

LEMMA SettlesPlaced ==
    ASSUME Inv, NEW r \in Runs, NEW x \in Filed \cap Plain, Settle(r), run[r].target = <<r, x>>, "undo" \notin env.faults,
           \A q \in Runs : Placed(q, x), \A q \in Runs : q # r => run'[q] = run[q]
    PROVE  \A q \in Runs : Placed(q, x)'
<1>1. Holding(r, x) /\ ~Keeps(r, x)' /\ ~Holding(r, x)' /\ ~Keeps(r, x) /\ ~Free(r)
  BY SettleSteady DEF Holding, Keeps, Free
<1>2. Removable(run[r].target, run[r].found)
  BY <1>1, NoteNames DEF Placed, Removable
<1>3. tree' = tree
  BY <1>2, SettleSteps
<1>4. Here(x)' = Here(x) /\ Here(x) # <<r, x>>
  BY <1>1, <1>3 DEF Here, Placed
<1> QED BY <1>1, <1>4 DEF Placed, Keeps, Free, Holding

LEMMA StepFails ==
    ASSUME Inv, FailInv, NEW r \in Runs, Step(r) \/ Die(r)
    PROVE  FailInv'
<1>1. /\ \A q \in Runs : q # r => run'[q] = run[q]
      /\ env' = env /\ Bare' = Bare
  <2>1. env' = env
    BY DEF Step, Die, Refuse, Approve, BeginSync, Surveyed, OpenSub, Create, Write, Synced, Survey, Recheck,
       MakeSub, StartTop, BeginBackup, Archive, Manifest, Existing, Link, MoveAside, Settle,
       BeginRotation, Reopen, RotateName, VerifyRotated, ReplaceCache
  <2> QED BY <2>1, StepInv DEF Allowed, Bare
<1>2. ASSUME NEW x \in Bare, "undo" \notin env.faults PROVE \A q \in Runs : Placed(q, x)
  BY <1>2 DEF FailInv
<1>3. ASSUME NEW y, OnlyAt(y), NEW x \in Bare, x # y, Steady(r, x), "undo" \notin env.faults
      PROVE  \A q \in Runs : Placed(q, x)'
  <2>1. Here(x)' = Here(x) /\ x \in Filed
    BY <1>3, BareFiled DEF Here, OnlyAt
  <2> QED BY <1>1, <1>2, <1>3, <2>1, StaysPlaced
<1>4. ASSUME NEW y, y # "cache", OnlyAt(y), "cache" \notin env.touched PROVE \A q \in Runs : CacheMade(q)'
  <2>1. run[r].pc # "done"
    BY DEF Step, Die, Refuse, Approve, BeginSync, Surveyed, OpenSub, Create, Write, Synced, Survey, Recheck,
       MakeSub, StartTop, BeginBackup, Archive, Manifest, Existing, Link, MoveAside, Settle,
       BeginRotation, Reopen, RotateName, VerifyRotated, ReplaceCache
  <2> QED BY <1>1, <1>4, <2>1, CacheStays DEF FailInv
<1>5. ASSUME NEW y, y # "cache", OnlyAt(y), \A x \in Bare : x # y => Steady(r, x),
             y \in Bare /\ "undo" \notin env.faults => \A q \in Runs : Placed(q, y)'
      PROVE  FailInv'
  BY <1>1, <1>3, <1>4, <1>5 DEF FailInv
<1>6. CASE \/ Refuse(r) \/ Approve(r) \/ BeginSync(r) \/ BeginBackup(r) \/ BeginRotation(r) \/ Surveyed(r)
           \/ OpenSub(r) \/ Write(r) \/ Synced(r) \/ Archive(r) \/ Manifest(r) \/ Die(r)
           \/ (\E x \in Notes : Survey(r, x) \/ Recheck(r, x)) \/ (\E x \in TopNotes : StartTop(r, x))
           \/ (\E x \in NestedNotes : MakeSub(r, x))
  <2>1. OnlyAt("sub")
    <3>1. ASSUME UNCHANGED <<tree, aside>> PROVE OnlyAt("sub")
      BY <3>1 DEF OnlyAt
    <3>2. ASSUME NEW x \in NestedNotes, MakeSub(r, x) PROVE OnlyAt("sub")
      <4>1. \A e \in aside \cup aside' : e \in aside \cap aside'
        BY <3>2, MakeSubSteps
      <4>2. <<r, "sub", x>> \in Objects
        BY Facts
      <4> QED BY <3>2, <4>1, <4>2, MakeSubSteps, OnlyThere, BareFiled
    <3> QED BY <1>6, <3>1, <3>2, BeginSteps, SurveySteps, OpenSubSteps, WriteSteps, InstallSteps, ExistingSteps,
               DieSteps, StartTopSteps DEF Untouched
  <2>2. Steadily(r)
    BY <1>6, SteadyEarly
  <2> QED BY <1>5, <2>1, <2>2, BareFiled DEF Steadily
<1>7. ASSUME UNCHANGED <<tree, aside>>, Steadily(r) PROVE FailInv'
  <2>1. OnlyAt("sub")
    BY <1>7 DEF OnlyAt
  <2> QED BY <1>5, <1>7, <2>1, BareFiled DEF Steadily
<1>8. CASE Create(r)
  <2> DEFINE x == run[r].cur
             dir == run[r].held
  <2>1. CASE /\ Creatable(dir, x) /\ tree' = With(dir, x, <<r, x>>) /\ UNCHANGED aside
             /\ Alters(r, {"pc"}) /\ run'[r].pc = "write" /\ \A y \in Filed \ {x} : Steady(r, y)
    <3>1. /\ x \in Filed /\ dir \in Containers /\ x \in Entries(dir) /\ tree[dir][x] = None /\ <<r, x>> \in Objects
          /\ run'[r].cur = x
      BY <1>8, <2>1, CreateSteps, MakesFacts, NoteNames DEF Creatable, Filed, Alters, RunFields
    <3>2. OnlyAt(x)
      BY <2>1, <3>1, OnlyThere
    <3>3. x \in Bare => dir = Root
      BY <3>1, BareFiled, Facts
    <3>4. Keeps(r, x)' /\ ~Holding(r, x)'
      BY <2>1, <3>1 DEF Keeps, Holding
    <3>5. ASSUME x \in Bare, "undo" \notin env.faults PROVE \A q \in Runs : Placed(q, x)'
      BY <1>1, <1>2, <2>1, <3>1, <3>3, <3>4, <3>5, BareFiled, MakesPlaced
    <3> QED BY <1>5, <2>1, <3>1, <3>2, <3>5, BareFiled, NoteNames
  <2> QED BY <1>7, <1>8, <2>1, CreateMakes
<1>9. CASE Link(r)
  <2>1. ASSUME NEW x \in {"archive", "manifest"}, tree[Root][x] = None, tree' = With(Root, x, <<r, x>>), UNCHANGED aside,
               \A y \in Filed \ {x} : Steady(r, y), ~Holding(r, x)', Keeps(r, x)' \/ Free(r)'
        PROVE  FailInv'
    <3>1. x \in Filed \cap Plain /\ <<r, x>> \in Objects /\ Root \in Containers /\ x \in Entries(Root)
      BY NoteNames, BareFiled, Facts DEF Filed
    <3>2. OnlyAt(x)
      BY <2>1, <3>1, OnlyThere
    <3>3. ASSUME x \in Bare, "undo" \notin env.faults PROVE \A q \in Runs : Placed(q, x)'
      BY <1>1, <1>2, <2>1, <3>1, <3>3, MakesPlaced
    <3> QED BY <1>5, <2>1, <3>1, <3>2, <3>3, BareFiled, NoteNames
  <2> QED BY <1>7, <1>9, <2>1, LinkMakes
<1>10. ASSUME NEW o \in Own \cup Dirs, MoveAside(r, o) PROVE FailInv'
  <2>1. OnlyAt(NameOf(o)) /\ \A x \in Filed : <<r, x>> # o => Steady(r, x)
    BY <1>10, MoveAsideSteady
  <2>2. o \in OwnFiles(r) \cup Inner
    BY <1>10, MoveAsideSteps, Targets
  <2>3. PICK y : y = NameOf(o)
    OBVIOUS
  <2>4. y # "cache" /\ (y \in Bare => o = <<r, y>>)
    BY <2>2, <2>3, MadeFacts, BareFiled, Facts
  <2>5. \A x \in Bare : x # y => Steady(r, x)
    BY <2>1, <2>3, BareFiled, NoteNames
  <2>6. ASSUME y \in Bare, "undo" \notin env.faults PROVE \A q \in Runs : Placed(q, y)'
    BY <1>1, <1>2, <1>10, <2>4, <2>6, MovesPlaced, BareFiled
  <2> QED BY <1>5, <2>1, <2>3, <2>4, <2>5, <2>6
<1>11. CASE Settle(r)
  <2>1. run[r].target \in OwnFiles(r) \cup Inner
    BY <1>11, SettleSteps, Targets
  <2>2. PICK o \in OwnFiles(r) \cup Inner : o = run[r].target
    BY <2>1
  <2>3. OnlyAt(NameOf(o)) /\ \A x \in Filed : <<r, x>> # o => Steady(r, x)
    BY <1>11, <2>2, SettleSteady
  <2>4. PICK y : y = NameOf(o)
    OBVIOUS
  <2>5. y # "cache" /\ (y \in Bare => o = <<r, y>>)
    BY <2>4, MadeFacts, BareFiled, Facts
  <2>6. \A x \in Bare : x # y => Steady(r, x)
    BY <2>3, <2>4, BareFiled, NoteNames
  <2>7. ASSUME y \in Bare, "undo" \notin env.faults PROVE \A q \in Runs : Placed(q, y)'
    BY <1>1, <1>2, <1>11, <2>2, <2>5, <2>7, SettlesPlaced, BareFiled
  <2> QED BY <1>5, <2>3, <2>4, <2>5, <2>6, <2>7
<1>12. CASE Reopen(r) \/ RotateName(r) \/ VerifyRotated(r) \/ ReplaceCache(r)
  <2>1. Steadily(r) /\ OnlyAt("cache")
    BY <1>12, RotationSteady
  <2>2. "cache" \notin env.touched => \A q \in Runs : CacheMade(q)'
    BY <1>12, RotationCache DEF FailInv
  <2> QED BY <1>1, <1>3, <2>1, <2>2, BareFiled DEF FailInv, Steadily
<1> QED BY <1>6, <1>8, <1>9, <1>10, <1>11, <1>12 DEF Step

LEMMA OutsideFails == ASSUME Inv, FailInv, NEW x \in Names, OutsideRemove(x) \/ \E o \in Dirs \cup Files : OutsidePut(x, o)
                      PROVE  FailInv'
<1>1. UNCHANGED <<env, aside, run>> /\ x \in env.touched
  BY OutsideSteps
<1>2. PICK dir \in Containers, o \in Objects \cup {None} : x \in Entries(dir) /\ tree' = With(dir, x, o)
  BY OutsideSteps
<1>3. \A y \in Plain \ env.touched : Here(y)' = Here(y)
  BY <1>1, <1>2, Renames, Facts DEF Here, Inv
<1> QED BY <1>1, <1>3, BareFiled DEF FailInv, Bare, Placed, CacheMade, Keeps, Free, Holding, Here, Plain

LEMMA InitFails == Init => FailInv
<1> SUFFICES ASSUME Init PROVE FailInv
  OBVIOUS
<1>1. /\ \A r \in Runs : run[r] = Idle
      /\ \A x \in Plain : tree[Root][x] = IF x = "cache" THEN env.cache ELSE None
      /\ env.cache \in Dirs /\ aside = {}
  BY BareFiled, ConstantsAssumption DEF Init, Entries
<1>2. ASSUME NEW r \in Runs, NEW x \in Bare PROVE Placed(r, x)
  <2>1. Here(x) = None /\ <<r, x>> # None
    BY <1>1, BareFiled, NoteNames DEF Here
  <2> QED BY <1>1, <2>1 DEF Placed, Keeps, Holding, Idle
<1>3. ASSUME NEW r \in Runs PROVE CacheMade(r)
  <2>1. <<r, "cache">> \in Own
    BY Facts
  <2>2. <<r, "cache">> # env.cache
    BY <1>1, <2>1, ConstantsAssumption
  <2> QED BY <1>1, <2>2, Facts DEF CacheMade
<1> QED BY <1>2, <1>3 DEF FailInv

LEMMA NextFails == Inv /\ FailInv /\ [Next]_vars => FailInv'
<1> SUFFICES ASSUME Inv, FailInv, [Next]_vars PROVE FailInv'
  OBVIOUS
<1>1. CASE UNCHANGED vars
  BY <1>1 DEF vars, FailInv, Bare, Placed, Keeps, Free, Holding, Here, CacheMade
<1> QED BY <1>1, StepFails, OutsideFails DEF Next

LEMMA FailAlways == Spec => [](Inv /\ FailInv)
BY InitFails, NextFails, InvAlways, PTL DEF Spec

LEMMA NothingPlain ==
    ASSUME Inv, FailInv, NEW r \in Runs, run[r].pc = "done", run[r].status = "error", "undo" \notin env.faults
    PROVE  LeftBehind(r, Plain) = {}
<1> SUFFICES ASSUME NEW x \in Plain \ (env.touched \cup {"sub"}), At(x) = <<r, x>> PROVE FALSE
  BY DEF LeftBehind
<1>1. Here(x) = <<r, x>>
  BY Facts DEF At, Home, Here
<1>2. CASE x = "cache"
  BY <1>1, <1>2 DEF FailInv, CacheMade, Here
<1>3. CASE x # "cache"
  BY <1>1, <1>3 DEF FailInv, Bare, Placed, Keeps, Free
<1> QED BY <1>2, <1>3

\* A run that ends in an error leaves nothing it made in the directory the action works in, under
\* a name that no outsider touches, the shared subdirectory apart, unless removing fails (_rollback
\* and remove_fd_if_same), whatever the number of runs.
THEOREM FailureLeavesNothingPlain ==
    Spec => [](\A r \in Runs : run[r].pc = "done" /\ run[r].status = "error" /\ "undo" \notin env.faults =>
                  LeftBehind(r, Plain) = {})
<1>1. Inv /\ FailInv => \A r \in Runs : run[r].pc = "done" /\ run[r].status = "error" /\ "undo" \notin env.faults =>
                            LeftBehind(r, Plain) = {}
  BY NothingPlain
<1> QED BY <1>1, FailAlways, PTL

-----------------------------------------------------------------------------
(* The notes in the subdirectory, for two runs.  A run's note is where the *)
(* run will look for it, or in a directory that another run took aside;    *)
(* one that loses its run's hold stays in a directory that is not, and     *)
(* does not become, the subdirectory, or is reported.                      *)

Deep == NestedNotes \ env.touched

Sub == tree[Root]["sub"]

Holds(D, x, r) == tree[D][x] = <<r, x>>

Hidden(D) == \E q \in Runs : <<q, "sub", Root, D>> \in aside

\* A directory that a run may yet put back.
Coming(q, D) == run[q].pc = "settle" /\ NameOf(run[q].target) = "sub" /\ run[q].found = D

Lost(D) == D # Sub /\ \A q \in Runs : ~Coming(q, D)

\* A run that will look for no note any more.
Past(r) == \/ run[r].pc \in {"dead", "done"}
           \/ run[r].pc \in {"undo", "settle"} /\ \A x \in Deep : <<r, x>> \notin run[r].made

SomePast == \E p \in Runs : Past(p)

\* The directory of this note is still open.
Clutches(r, x) == Keeps(r, x) /\ (<<r, x>> \in run[r].silent \/ (run[r].pc = "write" /\ run[r].cur = x))

\* A note, and a directory, that a run has not made yet.
Clean(r, x) == \/ run[r].pc \in {"begin", "survey", "approve"}
               \/ run[r].pc \in {"install", "open", "create"} /\ x \in run[r].pend
               \/ run[r].pc = "write" /\ x \in run[r].pend /\ run[r].cur # x

Unmade(r, y) == \/ run[r].pc \in {"begin", "survey", "approve"}
                \/ run[r].pc = "install" /\ y \in run[r].pend
                \/ run[r].pc \in {"open", "create", "write"} /\ y \in run[r].pend /\ run[r].cur # y

Used(D) == D \notin fresh \cap Dirs /\ \A r \in Runs, y \in NestedNotes : D = <<r, "sub", y>> => ~Unmade(r, y)

Walks(r, D) == run[r].pc \in {"create", "write"} /\ run[r].cur \in NestedNotes /\ run[r].held = D

\* A run that has notes installed and may take back a directory of the install under way.
Mints(r) ==
    /\ \E x \in Deep : <<r, x>> \in run[r].made \ run[r].silent
    /\ \/ run[r].pc \in {"open", "create", "write"} /\ run[r].minted
       \/ run[r].pc \in {"undo", "settle"} /\ run[r].made \cap run[r].silent \cap Inner # {}

AtCache(D) == tree[Root]["cache"] = D \/ \E e \in aside : e[2] = "cache" /\ e[4] = D

\* Where a note is.
Alone(r, x) ==
    /\ Clutches(r, x) => run[r].held \in Inner /\ Holds(run[r].held, x, r)
    /\ \A D, E \in Inner : Holds(D, x, r) /\ Holds(E, x, r) => D = E
    /\ \A e \in aside : e[2] = x /\ e[4] = <<r, x>> =>
          /\ \A D \in Inner : ~Holds(D, x, r)
          /\ \A f \in aside : f[2] = x /\ f[4] = <<r, x>> => f = e
          /\ Free(r) \/ (e[1] = r /\ Holding(r, x) /\ run[r].found = <<r, x>>)
    /\ Clean(r, x) => /\ \A D \in Inner : ~Holds(D, x, r)
                      /\ \A e \in aside : ~(e[2] = x /\ e[4] = <<r, x>>)

OnlyNotes ==
    /\ \A D \in Inner, x \in Deep : tree[D][x] = None \/ \E r \in Runs : Holds(D, x, r)
    /\ \A e \in aside : e[2] \in Deep => \E r \in Runs : e[4] = <<r, e[2]>>

Kinds ==
    /\ \A d \in Containers : \A y \in Entries(d) \ {"sub", "cache"} : tree[d][y] \notin Inner
    /\ \A e \in aside : e[2] \notin {"sub", "cache"} => e[4] \notin Inner
    /\ Sub \in Inner \cup {None} /\ \A e \in aside : e[2] = "sub" => e[4] \in Inner

\* A directory enters the tree once.
Entered(D) ==
    /\ \/ D = Sub \/ Hidden(D) \/ (\E r \in Runs : Walks(r, D)) \/ (\E x \in Deep : tree[D][x] # None)
       \/ \E e \in aside : e[2] \in Deep /\ e[3] = D
       => Used(D)
    /\ AtCache(D) => D \in Dirs \ fresh /\ D # Sub /\ ~Hidden(D) /\ \A r \in Runs : ~Walks(r, D)

Kept(r, x) == Keeps(r, x) => \E D \in Inner : Holds(D, x, r) /\ (D = Sub \/ Hidden(D))

Let(r, x, D) ==
    Holds(D, x, r) /\ ~Keeps(r, x) /\ ~Free(r) =>
        Lost(D) \/ (<<r, x>> \in run[r].named /\ \A q \in Runs : q # r => Past(q))

Hiding == (\E D \in Inner : Hidden(D)) \/ (\E r \in Runs : Mints(r)) => SomePast

DeepInv ==
    /\ \A r \in Runs, x \in Deep : Alone(r, x) /\ Kept(r, x) /\ \A D \in Inner : Let(r, x, D)
    /\ OnlyNotes /\ Kinds /\ Hiding
    /\ \A D \in Inner : Entered(D)

-----------------------------------------------------------------------------
(* A step that moves no note and no directory of notes.                    *)

\* What it may do to its record.
Slack(r) ==
    /\ (\A q \in Runs : q # r => run'[q] = run[q]) /\ run[r].pc \notin {"dead", "done"}
    /\ \A x \in Deep : /\ Steady(r, x)
                       /\ Clutches(r, x)' => Clutches(r, x) /\ run'[r].held = run[r].held
                       /\ Clean(r, x)' => Clean(r, x)
    /\ run[r].named \subseteq run'[r].named
    /\ Past(r) => Past(r)'
    /\ Mints(r)' => Mints(r) \/ SomePast
    /\ \A y \in NestedNotes : Unmade(r, y)' => Unmade(r, y)
    /\ \A D \in Inner : /\ Coming(r, D)' => Coming(r, D) \/ D = Sub
                        /\ Walks(r, D)' => Walks(r, D) \/ D = Sub

\* The notes, and what is set aside of them, stay.
SameNotes ==
    /\ env' = env
    /\ \A D \in Inner, x \in Deep : tree'[D][x] = tree[D][x]
    /\ \A e \in aside \cup aside' : e[2] \in Deep => e \in aside \cap aside'

SameNote(q, x) ==
    /\ \A D \in Inner : tree'[D][x] = <<q, x>> <=> tree[D][x] = <<q, x>>
    /\ \A e \in aside \cup aside' : e[2] = x /\ e[4] = <<q, x>> => e \in aside \cap aside'

\* What a step leaves of a run's hold on a note, and of the rest of its record.
Quiet(q, x) ==
    /\ Clutches(q, x)' => Clutches(q, x) /\ run'[q].held = run[q].held
    /\ Clean(q, x)' => Clean(q, x)
    /\ Keeps(q, x)' => Keeps(q, x)
    /\ Keeps(q, x) => Keeps(q, x)' \/ Free(q)'
    /\ Holding(q, x) => Free(q)' \/ (Holding(q, x)' /\ run'[q].found = run[q].found)

Calm(q) ==
    /\ Free(q) => Free(q)'
    /\ run[q].named \subseteq run'[q].named
    /\ Past(q) => Past(q)'
    /\ Mints(q)' => Mints(q) \/ SomePast
    /\ \A y \in NestedNotes : Unmade(q, y)' => Unmade(q, y)
    /\ \A D \in Inner : /\ Coming(q, D)' => Coming(q, D) \/ D = Sub
                        /\ Walks(q, D)' => Walks(q, D) \/ D = Sub

Calmly == \A q \in Runs : Calm(q)

LEMMA DeepFacts ==
    /\ \A x \in Deep : /\ x \in NestedNotes /\ x \in Filed /\ x \in Names /\ x \notin Plain /\ x # "sub" /\ x # "cache"
                       /\ x \notin env.touched
    /\ \A r \in Runs, x \in Deep : <<r, x>> \in Own /\ <<r, x>> # None /\ <<r, x>> \notin Inner /\ NameOf(<<r, x>>) = x
    /\ \A r \in Runs, x \in Filed, q \in Runs, y \in Filed : <<r, x>> = <<q, y>> => r = q /\ x = y
    /\ \A D \in Inner : D \in Containers /\ D # Root /\ D # None /\ Entries(D) = NestedNotes
    /\ Root \in Containers /\ "sub" \in Entries(Root) /\ "cache" \in Entries(Root)
<1>1. \A x \in Deep : x \in NestedNotes /\ x \in Filed /\ x \notin env.touched
  BY DEF Deep, Filed, Notes
<1> QED BY <1>1, NoteNames, Facts

\* Of two runs, the other is the one that looks no more.
Two == \A p, q, r \in Runs : p = q \/ q = r \/ p = r

LEMMA SameDeep == env' = env => Deep' = Deep
  BY DEF Deep

LEMMA Idles ==
    ASSUME NEW q \in Runs, run'[q] = run[q], env' = env
    PROVE  Calm(q) /\ \A x \in Deep : Quiet(q, x)
<1>1. Deep' = Deep
  BY SameDeep
<1> QED BY <1>1 DEF Calm, Quiet, Clutches, Clean, Keeps, Free, Holding, Past, Mints, Unmade, Coming, Walks, NameOf, IsDir

\* What such a step says of every run.
LEMMA Slacks ==
    ASSUME NEW r \in Runs, Slack(r), env' = env
    PROVE  Calmly /\ \A q \in Runs, x \in Deep : Quiet(q, x)
<1>1. Calm(r) /\ \A x \in Deep : Quiet(r, x)
  BY DEF Slack, Steady, Free, Calm, Quiet
<1>2. ASSUME NEW q \in Runs, q # r PROVE Calm(q) /\ \A x \in Deep : Quiet(q, x)
  BY <1>2, Idles DEF Slack
<1> QED BY <1>1, <1>2 DEF Calmly

LEMMA SameEach ==
    ASSUME SameNotes, NEW q \in Runs, NEW x \in Deep PROVE SameNote(q, x)
  BY DEF SameNotes, SameNote

LEMMA AloneStays ==
    ASSUME NEW q \in Runs, NEW x \in Deep, Quiet(q, x), Calm(q), SameNote(q, x), Alone(q, x)
    PROVE  Alone(q, x)'
<1>1. /\ \A D \in Inner : Holds(D, x, q)' <=> Holds(D, x, q)
      /\ \A e \in aside' : e[2] = x /\ e[4] = <<q, x>> => e \in aside
  BY DEF SameNote, Holds
<1>2. Clutches(q, x)' => run'[q].held \in Inner /\ tree'[run'[q].held][x] = <<q, x>>
  BY DEF Alone, Holds, Quiet, SameNote
<1>3. \A e \in aside' : e[2] = x /\ e[4] = <<q, x>> =>
          /\ \A D \in Inner : ~Holds(D, x, q)'
          /\ \A f \in aside' : f[2] = x /\ f[4] = <<q, x>> => f = e
          /\ Free(q)' \/ (e[1] = q /\ Holding(q, x)' /\ run'[q].found = <<q, x>>)
  BY <1>1 DEF Alone, Quiet, Calm
<1>4. Clean(q, x)' => /\ \A D \in Inner : ~Holds(D, x, q)'
                      /\ \A e \in aside' : ~(e[2] = x /\ e[4] = <<q, x>>)
  BY <1>1 DEF Alone, Quiet
<1>5. \A D, E \in Inner : Holds(D, x, q)' /\ Holds(E, x, q)' => D = E
  BY <1>1 DEF Alone
<1> QED BY <1>2, <1>3, <1>4, <1>5 DEF Alone, Holds

LEMMA OnlyNotesStay ==
    ASSUME SameNotes, OnlyNotes PROVE OnlyNotes'
  BY SameDeep DEF SameNotes, OnlyNotes, Holds

LEMMA KeptStays ==
    ASSUME NEW q \in Runs, NEW x \in Deep, Keeps(q, x)' => Keeps(q, x), SameNote(q, x), Kept(q, x),
           \A D \in Inner : Holds(D, x, q) /\ (D = Sub \/ Hidden(D)) => D = Sub' \/ Hidden(D)'
    PROVE  Kept(q, x)'
  BY DEF Kept, Holds, SameNote

\* A directory stays lost unless it is put under the name.
LEMMA LetStays ==
    ASSUME NEW q \in Runs, NEW x \in Deep, Keeps(q, x) => Keeps(q, x)' \/ Free(q)', Calmly, SameNote(q, x),
           NEW D \in Inner, Let(q, x, D), Lost(D) /\ Holds(D, x, q) => D # Sub'
    PROVE  Let(q, x, D)'
<1>1. /\ Holds(D, x, q)' => Holds(D, x, q)
      /\ ~Keeps(q, x)' /\ ~Free(q)' => ~Keeps(q, x) /\ ~Free(q)
  BY DEF Holds, SameNote, Calmly, Calm
<1>2. Lost(D) /\ Holds(D, x, q) => Lost(D)'
  BY DEF Lost, Calmly, Calm
<1>3. <<q, x>> \in run[q].named => <<q, x>> \in run'[q].named
  BY DEF Calmly, Calm
<1>4. \A p \in Runs : Past(p) => Past(p)'
  BY DEF Calmly, Calm
<1> QED BY <1>1, <1>2, <1>3, <1>4 DEF Let

LEMMA HidingStays ==
    ASSUME Calmly, Hiding, (\E D \in Inner : Hidden(D)') => (\E D \in Inner : Hidden(D)) \/ SomePast'
    PROVE  Hiding'
<1>1. SomePast => SomePast'
  BY DEF SomePast, Calmly, Calm
<1> QED BY <1>1 DEF Hiding, Calmly, Calm

LEMMA UsedStays ==
    ASSUME Calmly, fresh' \subseteq fresh, NEW D \in Inner, Used(D)
    PROVE  Used(D)'
  BY DEF Used, Calmly, Calm

LEMMA EnteredStays ==
    ASSUME Calmly, SameNotes, fresh' \subseteq fresh, NEW D \in Inner, Entered(D),
           D = Sub' \/ Hidden(D)' => D = Sub \/ Hidden(D),
           AtCache(D)' => AtCache(D)
    PROVE  Entered(D)'
<1>1. Used(D) => Used(D)'
  BY UsedStays
<1>2. \A q \in Runs : Walks(q, D)' => Walks(q, D) \/ D = Sub
  BY DEF Calmly, Calm
<1>3. \A x \in Deep' : x \in Deep /\ tree'[D][x] = tree[D][x]
  BY SameDeep DEF SameNotes
<1>4. \A e \in aside' : e[2] \in Deep' => e \in aside /\ e[2] \in Deep
  BY SameDeep DEF SameNotes
<1>5. D = Sub' \/ Hidden(D)' \/ (\E r \in Runs : Walks(r, D)') \/ (\E x \in Deep' : tree'[D][x] # None)
      \/ (\E e \in aside' : e[2] \in Deep' /\ e[3] = D)
      => Used(D)
  BY <1>2, <1>3, <1>4 DEF Entered
<1>6. AtCache(D)' => D \in Dirs \ fresh' /\ D # Sub' /\ ~Hidden(D)' /\ \A r \in Runs : ~Walks(r, D)'
  BY <1>2 DEF Entered
<1> QED BY <1>1, <1>5, <1>6 DEF Entered

LEMMA KindsStay ==
    ASSUME Kinds, NEW x, OnlyAt(x),
           x \notin {"sub", "cache"} =>
              /\ \A d \in Containers : x \in Entries(d) => tree'[d][x] \notin Inner
              /\ \A e \in aside' : e[2] = x => e[4] \notin Inner,
           x = "sub" => Sub' \in Inner \cup {None} /\ \A e \in aside' : e[2] = "sub" => e[4] \in Inner
    PROVE  Kinds'
<1>1. Root \in Containers /\ "sub" \in Entries(Root)
  BY DeepFacts
<1>2. \A e \in aside' : e[2] # x => e \in aside
  BY DEF OnlyAt
<1>3. \A d \in Containers : \A y \in Entries(d) : y # x => tree'[d][y] = tree[d][y]
  BY DEF OnlyAt
<1> QED BY <1>1, <1>2, <1>3 DEF Kinds, Sub

\* A step that leaves the notes where they are.
LEMMA NotesStay ==
    ASSUME Calmly, \A q \in Runs, y \in Deep : Quiet(q, y), SameNotes, DeepInv, Kinds',
           \A D \in Inner : Entered(D)',
           (\E D \in Inner : Hidden(D)') => (\E D \in Inner : Hidden(D)) \/ SomePast',
           \A q \in Runs, y \in Deep : \A D \in Inner : Holds(D, y, q) =>
               /\ D = Sub \/ Hidden(D) => D = Sub' \/ Hidden(D)'
               /\ Lost(D) => D # Sub'
    PROVE  DeepInv'
<1>1. OnlyNotes' /\ Hiding' /\ Deep' = Deep
  BY OnlyNotesStay, HidingStays, SameDeep DEF DeepInv, SameNotes
<1>2. ASSUME NEW q \in Runs, NEW y \in Deep
      PROVE  Alone(q, y)' /\ Kept(q, y)' /\ \A D \in Inner : Let(q, y, D)'
  <2>1. SameNote(q, y) /\ Quiet(q, y) /\ Calm(q) /\ Alone(q, y) /\ Kept(q, y) /\ \A D \in Inner : Let(q, y, D)
    BY SameEach DEF DeepInv, Calmly
  <2>2. Alone(q, y)'
    BY <2>1, AloneStays
  <2>3. Kept(q, y)'
    BY <2>1, KeptStays DEF Quiet
  <2>4. \A D \in Inner : Let(q, y, D)'
    BY <2>1, LetStays DEF Quiet
  <2> QED BY <2>2, <2>3, <2>4
<1> QED BY <1>1, <1>2 DEF DeepInv

\* A step under a name that is neither a note's nor the subdirectory's.
LEMMA OtherNames ==
    ASSUME NEW x, OnlyAt(x), x \notin Deep \cup {"sub"}, env' = env
    PROVE  /\ SameNotes /\ Sub' = Sub /\ \A D \in Inner : Hidden(D)' <=> Hidden(D)
<1>1. SameNotes
  BY DeepFacts DEF OnlyAt, SameNotes
<1>2. \A q \in Runs, D \in Inner : <<q, "sub", Root, D>> \in aside' <=> <<q, "sub", Root, D>> \in aside
  <2>1. \A q \in Runs, D \in Inner : <<q, "sub", Root, D>>[2] # x
    OBVIOUS
  <2> QED BY <2>1 DEF OnlyAt
<1> QED BY <1>1, <1>2, DeepFacts DEF OnlyAt, Hidden, Sub

LEMMA DeepStays ==
    ASSUME NEW r \in Runs, Slack(r), env' = env, UNCHANGED fresh, DeepInv,
           NEW x, OnlyAt(x), x \notin Deep \cup {"sub"},
           x # "cache" => /\ \A d \in Containers : x \in Entries(d) => tree'[d][x] \notin Inner
                          /\ \A e \in aside' : e[2] = x => e[4] \notin Inner,
           \A D \in Inner : AtCache(D)' => AtCache(D)
    PROVE  DeepInv'
<1>1. /\ SameNotes /\ Sub' = Sub /\ (\A D \in Inner : Hidden(D)' <=> Hidden(D))
      /\ Calmly /\ \A q \in Runs, y \in Deep : Quiet(q, y)
  BY OtherNames, Slacks
<1>2. Kinds'
  BY KindsStay DEF DeepInv
<1>3. \A D \in Inner : Entered(D)'
  BY <1>1, EnteredStays DEF DeepInv
<1> QED BY <1>1, <1>2, <1>3, NotesStay DEF Lost

-----------------------------------------------------------------------------
(* What the steps do to what the notes depend on. *)

LEMMA SlackForth ==
    ASSUME Inv, Inv', NEW r \in Runs, Alters(r, RunFields \ {"named"}), Steadily(r), Deep' = Deep,
           run[r].pc \in Before, run'[r].pc \in Before \ {"write"},
           \A x \in Deep : Clean(r, x)' => Clean(r, x),
           Mints(r)' => Mints(r),
           \A y \in NestedNotes : Unmade(r, y)' => Unmade(r, y),
           \A D \in Inner : Walks(r, D)' => Walks(r, D) \/ D = Sub
    PROVE  Slack(r)
<1>1. run'[r].silent = {} /\ run'[r].named = run[r].named /\ run[r].pc \notin {"dead", "done", "undo", "settle"}
  BY DEF Inv, Each, Form, Alters, RunFields, Before
<1>2. \A x \in Deep : ~Clutches(r, x)'
  BY <1>1 DEF Clutches
<1>3. ~Past(r) /\ \A D \in Inner : ~Coming(r, D)'
  BY <1>1 DEF Past, Coming, Before
<1>4. \A x \in Deep : Steady(r, x)
  BY DeepFacts DEF Steadily
<1> QED BY <1>1, <1>2, <1>3, <1>4 DEF Slack, Alters

LEMMA SlackEnds ==
    ASSUME NEW r \in Runs, NEW status, NEW objects, Ends(r, status, objects), Steadily(r), Deep' = Deep,
           run[r].pc \notin {"dead", "done"}
    PROVE  Slack(r)
<1>1. run'[r].pc = "done" /\ run[r].named \subseteq run'[r].named
  BY DEF Ends
<1>2. /\ \A x \in Deep : ~Clutches(r, x)' /\ ~Clean(r, x)'
      /\ Past(r)' /\ ~Mints(r)' /\ \A y \in NestedNotes : ~Unmade(r, y)'
      /\ \A D \in Inner : ~Coming(r, D)' /\ ~Walks(r, D)'
  BY <1>1 DEF Clutches, Keeps, Clean, Past, Mints, Unmade, Coming, Walks
<1>3. \A x \in Deep : Steady(r, x)
  BY DeepFacts DEF Steadily
<1> QED BY <1>1, <1>2, <1>3 DEF Slack, Alters, Ends

LEMMA SlackFails ==
    ASSUME Inv, NEW r \in Runs, NEW made, NEW silent, Fails(r, made, silent), Steadily(r), Deep' = Deep, run[r].pc \in Before,
           \A x \in Deep : <<r, x>> \in made \ silent => <<r, x>> \in run[r].made,
           \A x \in Deep : <<r, x>> \in silent => run[r].pc = "write" /\ run[r].cur = x,
           silent \cap Inner # {} => run[r].pc \in {"create", "write"} /\ run[r].minted
    PROVE  Slack(r)
<1>1. /\ run'[r].pc \in {"done", "undo"} /\ run'[r].named = run[r].named /\ run'[r].held = run[r].held
      /\ run'[r].made = made /\ run'[r].silent = silent /\ run[r].silent = {}
      /\ run[r].pc \notin {"dead", "done", "undo", "settle"}
  BY DEF Fails, Alters, RunFields, Inv, Each, Form, Before
<1>2. /\ \A x \in Deep : ~Clean(r, x)'
      /\ ~Past(r) /\ \A y \in NestedNotes : ~Unmade(r, y)'
      /\ \A D \in Inner : ~Coming(r, D)' /\ ~Walks(r, D)'
  BY <1>1 DEF Clean, Past, Unmade, Coming, Walks
<1>3. \A x \in Deep : Clutches(r, x)' => Clutches(r, x)
  BY <1>1 DEF Clutches, Keeps
<1>4. Mints(r)' => Mints(r)
  BY <1>1 DEF Mints
<1>5. \A x \in Deep : Steady(r, x)
  BY DeepFacts DEF Steadily
<1> QED BY <1>1, <1>2, <1>3, <1>4, <1>5 DEF Slack, Alters, Fails

\* A run takes back a directory, or a file that is no note's.
LEMMA SlackTakes ==
    ASSUME Inv, NEW r \in Runs, NEW o, NEW objects, TakesBack(r, o, objects), Deep' = Deep, run[r].pc \in {"undo", "settle"},
           run[r].pc = "settle" => run[r].target = o, \A x \in Deep : o # <<r, x>>
    PROVE  Slack(r)
<1>1. /\ run'[r].pc \in {"done", "undo"} /\ run[r].named \subseteq run'[r].named /\ run'[r].held = run[r].held
      /\ run'[r].made = run[r].made \ {o} /\ run'[r].silent = run[r].silent
  BY DEF TakesBack, Alters, RunFields
<1>2. /\ \A x \in Deep : ~Clean(r, x)'
      /\ \A y \in NestedNotes : ~Unmade(r, y)'
      /\ \A D \in Inner : ~Coming(r, D)' /\ ~Walks(r, D)'
  BY <1>1 DEF Clean, Unmade, Coming, Walks
<1>3. \A x \in Deep : Steady(r, x)
  BY SteadyTakes, DeepFacts
<1>4. \A x \in Deep : Clutches(r, x)' => Clutches(r, x)
  BY <1>1, <1>3 DEF Clutches, Steady
<1>5. (Mints(r)' => Mints(r)) /\ (Past(r) => Past(r)')
  BY <1>1 DEF Mints, Past
<1> QED BY <1>1, <1>2, <1>3, <1>4, <1>5 DEF Slack, Alters, TakesBack

LEMMA SlackDie == ASSUME Inv, NEW r \in Runs, Die(r) PROVE Slack(r)
<1>1. /\ run'[r].pc = "dead" /\ run[r].named = run'[r].named /\ run[r].pc \notin {"dead", "done"}
      /\ Deep' = Deep /\ \A q \in Runs : q # r => run'[q] = run[q]
  BY DieSteps, SameDeep DEF Alters, RunFields, Untouched
<1>2. /\ \A x \in Deep : ~Clutches(r, x)' /\ ~Clean(r, x)'
      /\ Past(r)' /\ ~Mints(r)' /\ \A y \in NestedNotes : ~Unmade(r, y)'
      /\ \A D \in Inner : ~Coming(r, D)' /\ ~Walks(r, D)'
  BY <1>1 DEF Clutches, Keeps, Clean, Past, Mints, Unmade, Coming, Walks
<1>3. \A x \in Deep : Steady(r, x)
  BY DeepFacts, SteadyEarly DEF Steadily
<1> QED BY <1>1, <1>2, <1>3 DEF Slack

LEMMA SlackEarly ==
    ASSUME Inv, NEW r \in Runs,
           \/ Refuse(r) \/ Approve(r) \/ BeginSync(r) \/ BeginBackup(r) \/ BeginRotation(r) \/ Surveyed(r)
           \/ OpenSub(r) \/ Write(r) \/ Synced(r) \/ Archive(r) \/ Manifest(r)
           \/ (\E x \in Notes : Survey(r, x) \/ Recheck(r, x)) \/ (\E x \in TopNotes : StartTop(r, x))
           \/ (\E x \in NestedNotes : MakeSub(r, x)) /\ tree[Root]["sub"] # None
    PROVE  Slack(r)
<1>1. Inv' /\ Steadily(r) /\ Form(r) /\ Form(r)'
  <2>1. Inv' /\ Steadily(r)
    BY StepInv, SteadyEarly DEF Step
  <2> QED BY <2>1 DEF Inv, Each
<1>2. CASE Refuse(r) \/ Approve(r) \/ BeginSync(r) \/ BeginBackup(r) \/ BeginRotation(r)
  <2>1. run[r].pc \in {"begin", "approve"} /\ Deep' = Deep
    BY <1>2, BeginSteps, SameDeep DEF Untouched
  <2>2. CASE \E status : Ends(r, status, {})
    BY <1>1, <2>1, <2>2, SlackEnds
  <2>3. CASE Alters(r, {"pc", "todo", "spent", "base"}) /\ run'[r].pc \in {"survey", "approve", "install", "archive", "reopen"}
    <3>1. Alters(r, RunFields \ {"named"})
      BY <2>3 DEF Alters, RunFields
    <3>2. /\ \A x \in Deep : Clean(r, x)
          /\ ~Mints(r)'
          /\ \A y \in NestedNotes : Unmade(r, y)
          /\ \A D \in Inner : ~Walks(r, D)'
      BY <2>1, <2>3 DEF Clean, Mints, Unmade, Walks
    <3> QED BY <1>1, <2>1, <2>3, <3>1, <3>2, SlackForth DEF Before
  <2> QED BY <1>2, <2>2, <2>3, BeginSteps
<1>3. CASE Surveyed(r) \/ \E x \in Notes : Survey(r, x)
  <2>1. run[r].pc = "survey" /\ Deep' = Deep
    BY <1>3, SurveySteps, SameDeep DEF Untouched
  <2>2. CASE Ends(r, "error", {})
    BY <1>1, <2>1, <2>2, SlackEnds
  <2>3. CASE Alters(r, {"pc", "todo", "pend", "same"}) /\ run'[r].pc \in {"survey", "approve", "install"}
    <3>1. Alters(r, RunFields \ {"named"})
      BY <2>3 DEF Alters, RunFields
    <3>2. /\ \A x \in Deep : Clean(r, x)
          /\ ~Mints(r)'
          /\ \A y \in NestedNotes : Unmade(r, y)
          /\ \A D \in Inner : ~Walks(r, D)'
      BY <2>1, <2>3 DEF Clean, Mints, Unmade, Walks
    <3> QED BY <1>1, <2>1, <2>3, <3>1, <3>2, SlackForth DEF Before
  <2> QED BY <1>3, <2>2, <2>3, SurveySteps
<1>4. ASSUME run[r].pc \in Before, Deep' = Deep, Fails(r, run[r].made, {}) PROVE Slack(r)
  BY <1>1, <1>4, SlackFails
<1>5. CASE OpenSub(r)
  <2>1. run[r].pc = "open" /\ run[r].pc \in Before /\ Deep' = Deep
    BY <1>5, OpenSubSteps, SameDeep DEF Untouched, Before
  <2>2. CASE Alters(r, {"pc", "held", "base"}) /\ run'[r].pc = "create" /\ run'[r].held = tree[Root]["sub"]
    <3>1. Alters(r, RunFields \ {"named"})
      BY <2>2 DEF Alters, RunFields
    <3>2. /\ \A x \in Deep : Clean(r, x)' => Clean(r, x)
          /\ Mints(r)' => Mints(r)
          /\ \A y \in NestedNotes : Unmade(r, y)' => Unmade(r, y)
          /\ \A D \in Inner : Walks(r, D)' => D = Sub
      BY <2>1, <2>2 DEF Clean, Mints, Unmade, Walks, Sub, Alters, RunFields
    <3> QED BY <1>1, <2>1, <2>2, <3>1, <3>2, SlackForth DEF Before
  <2> QED BY <1>4, <1>5, <2>1, <2>2, OpenSubSteps
<1>6. CASE Write(r)
  <2> DEFINE made == {<<r, run[r].cur>>} \cup Minted(r)
  <2>1. Minted(r) \subseteq Inner /\ run[r].pc = "write" /\ run[r].pc \in Before /\ Deep' = Deep
    BY <1>6, WriteSteps, MakesFacts, SameDeep DEF Untouched
  <2>2. CASE Fails(r, run[r].made \cup made, made)
    <3>1. \A x \in Deep : <<r, x>> \in made => run[r].cur = x
      BY <2>1, DeepFacts
    <3>2. made \cap Inner # {} => run[r].minted
      BY MakesFacts, <2>1, Facts, NoteNames DEF Minted, Filed
    <3> HIDE DEF made
    <3>3. \A x \in Deep : <<r, x>> \in (run[r].made \cup made) \ made => <<r, x>> \in run[r].made
      OBVIOUS
    <3> QED BY <1>1, <2>1, <2>2, <3>1, <3>2, <3>3, SlackFails
  <2>3. CASE /\ Alters(r, {"pc", "pend", "made", "minted"}) /\ run'[r].pc = "install"
             /\ run'[r].pend = run[r].pend \ {run[r].cur} /\ run'[r].made = run[r].made \cup made
    <3> HIDE DEF made
    <3>1. Alters(r, RunFields \ {"named"})
      BY <2>3 DEF Alters, RunFields
    <3>2. /\ \A x \in Deep : Clean(r, x)' => Clean(r, x)
          /\ ~Mints(r)'
          /\ \A y \in NestedNotes : Unmade(r, y)' => Unmade(r, y)
          /\ \A D \in Inner : ~Walks(r, D)'
      BY <2>1, <2>3 DEF Clean, Mints, Unmade, Walks
    <3> QED BY <1>1, <2>1, <2>3, <3>1, <3>2, SlackForth DEF Before
  <2> QED BY <1>6, <2>2, <2>3, WriteSteps
<1>7. CASE Synced(r) \/ \E x \in Notes : Recheck(r, x)
  <2>1. run[r].pc = "install" /\ run[r].pc \in Before /\ Deep' = Deep
    BY <1>7, InstallSteps, SameDeep DEF Before, Untouched
  <2>2. CASE Alters(r, {"todo"})
    <3>1. /\ Alters(r, RunFields \ {"named"}) /\ run'[r].pc = run[r].pc
          /\ \A x \in Deep : Clean(r, x)' => Clean(r, x)
          /\ \A y \in NestedNotes : Unmade(r, y)' => Unmade(r, y)
      BY <2>1, <2>2 DEF Alters, RunFields, Clean, Unmade
    <3>2. ~Mints(r)' /\ \A D \in Inner : ~Walks(r, D)'
      BY <2>1, <3>1 DEF Mints, Walks
    <3> QED BY <1>1, <2>1, <3>1, <3>2, SlackForth DEF Before
  <2>3. (\E objects : Ends(r, "success", objects)) => Slack(r)
    BY <1>1, <2>1, SlackEnds
  <2> QED BY <1>4, <1>7, <2>1, <2>2, <2>3, InstallSteps
<1>8. CASE Archive(r) \/ Manifest(r)
  <2>1. run[r].pc \in {"archive", "manifest"} /\ run[r].pc \in Before /\ Deep' = Deep
    BY <1>8, ExistingSteps, SameDeep DEF Before, Untouched
  <2>2. ASSUME Alters(r, {"pc"}) \/ Alters(r, {"pc", "cur"}), run'[r].pc \in {"link", "manifest"}
        PROVE  Slack(r)
    <3>1. Alters(r, RunFields \ {"named"})
      BY <2>2 DEF Alters, RunFields
    <3>2. /\ \A x \in Deep : ~Clean(r, x)'
          /\ ~Mints(r)'
          /\ \A y \in NestedNotes : ~Unmade(r, y)'
          /\ \A D \in Inner : ~Walks(r, D)'
      BY <2>2 DEF Clean, Mints, Unmade, Walks
    <3> QED BY <1>1, <2>1, <2>2, <3>1, <3>2, SlackForth DEF Before
  <2>3. Ends(r, "success", {}) => Slack(r)
    BY <1>1, <2>1, SlackEnds
  <2> QED BY <1>4, <1>8, <2>1, <2>2, <2>3, ExistingSteps
<1>9. ASSUME NEW x \in TopNotes, StartTop(r, x) PROVE Slack(r)
  <2>1. /\ Alters(r, {"pc", "cur", "held"}) /\ run[r].pc = "install" /\ run'[r].pc = "create"
        /\ run'[r].cur = x /\ Deep' = Deep
    BY <1>9, StartTopSteps, SameDeep DEF Untouched
  <2>2. Alters(r, RunFields \ {"named"})
    BY <2>1 DEF Alters, RunFields
  <2>3. x \notin NestedNotes
    BY Facts
  <2>4. run'[r].minted = FALSE
    BY <1>1, <2>1 DEF Form, Alters, RunFields
  <2>5. /\ \A y \in Deep : Clean(r, y)' => Clean(r, y)
        /\ ~Mints(r)'
        /\ \A y \in NestedNotes : Unmade(r, y)' => Unmade(r, y)
        /\ \A D \in Inner : ~Walks(r, D)'
    BY <2>1, <2>3, <2>4 DEF Clean, Mints, Unmade, Walks, Alters, RunFields
  <2> QED BY <1>1, <2>1, <2>2, <2>5, SlackForth DEF Before
<1>10. ASSUME NEW x \in NestedNotes, MakeSub(r, x) PROVE Slack(r) \/ tree[Root]["sub"] = None
  <2>1. /\ Alters(r, {"pc", "cur", "minted"}) /\ run[r].pc = "install" /\ run'[r].pc = "open"
        /\ Deep' = Deep /\ run'[r].minted = (tree[Root]["sub"] = None)
    BY <1>10, MakeSubSteps, SameDeep
  <2>2. Alters(r, RunFields \ {"named"})
    BY <2>1 DEF Alters, RunFields
  <2>3. /\ \A y \in Deep : Clean(r, y)' => Clean(r, y)
        /\ ~Mints(r)' \/ tree[Root]["sub"] = None
        /\ \A y \in NestedNotes : Unmade(r, y)' => Unmade(r, y)
        /\ \A D \in Inner : ~Walks(r, D)'
    BY <2>1 DEF Clean, Mints, Unmade, Walks, Alters, RunFields
  <2> QED BY <1>1, <2>1, <2>2, <2>3, SlackForth DEF Before
<1> QED BY <1>2, <1>3, <1>5, <1>6, <1>7, <1>8, <1>9, <1>10

LEMMA DeepIdle ==
    ASSUME NEW r \in Runs, Slack(r), UNCHANGED <<env, tree, aside, fresh>>, DeepInv
    PROVE  DeepInv'
<1>1. OnlyAt("cache") /\ "cache" \notin Deep \cup {"sub"} /\ \A D \in Inner : AtCache(D)' => AtCache(D)
  BY DeepFacts DEF OnlyAt, AtCache
<1> QED BY <1>1, DeepStays

\* A step under the name of another file, where no directory is.
LEMMA DeepElsewhere ==
    ASSUME Inv, NEW r \in Runs, Slack(r), env' = env, UNCHANGED fresh, DeepInv, NEW x \in Filed \ Deep, OnlyAt(x),
           NEW dir \in Containers, NEW o, o \notin Inner, tree' = tree \/ (x \in Entries(dir) /\ o \in Objects \cup {None} /\ tree' = With(dir, x, o)),
           \A e \in aside' : e \in aside \/ e[4] \notin Inner
    PROVE  DeepInv'
<1>1. x # "sub" /\ x # "cache" /\ "cache" \in Entries(Root) /\ Root \in Containers
  BY NoteNames, DeepFacts
<1>2. \A D \in Inner : AtCache(D)' => AtCache(D)
  BY <1>1 DEF OnlyAt, AtCache
<1>3. \A d \in Containers : x \in Entries(d) => tree'[d][x] \notin Inner
  <2>1. \A d \in Containers : x \in Entries(d) => tree[d][x] \notin Inner
    BY <1>1 DEF DeepInv, Kinds
  <2>2. CASE x \in Entries(dir) /\ o \in Objects \cup {None} /\ tree' = With(dir, x, o)
    BY <2>1, <2>2, Renames DEF Inv
  <2> QED BY <2>1, <2>2
<1>4. \A e \in aside' : e[2] = x => e[4] \notin Inner
  BY <1>1 DEF DeepInv, Kinds
<1> QED BY <1>1, <1>2, <1>3, <1>4, DeepStays

LEMMA DeepEarly ==
    ASSUME Inv, DeepInv, NEW r \in Runs,
           \/ Refuse(r) \/ Approve(r) \/ BeginSync(r) \/ BeginBackup(r) \/ BeginRotation(r) \/ Surveyed(r)
           \/ OpenSub(r) \/ Write(r) \/ Synced(r) \/ Archive(r) \/ Manifest(r) \/ Die(r)
           \/ (\E x \in Notes : Survey(r, x) \/ Recheck(r, x)) \/ (\E x \in TopNotes : StartTop(r, x))
           \/ (\E x \in NestedNotes : MakeSub(r, x)) /\ tree[Root]["sub"] # None
    PROVE  DeepInv'
<1>1. UNCHANGED <<env, tree, aside, fresh>>
  BY BeginSteps, SurveySteps, OpenSubSteps, WriteSteps, InstallSteps, ExistingSteps,
     DieSteps, StartTopSteps, MakeSubSteps DEF Untouched
<1>2. Slack(r)
  BY SlackEarly, SlackDie
<1> QED BY <1>1, <1>2, DeepIdle

LEMMA DeepLink == ASSUME Inv, DeepInv, NEW r \in Runs, Link(r) PROVE DeepInv'
<1>1. /\ UNCHANGED <<env, aside, fresh>> /\ run[r].pc = "link" /\ run[r].pc \in Before
      /\ run[r].cur = "archive" => run[r].made = {}
      /\ Deep' = Deep /\ Inv'
  BY LinkSteps, StepInv, SameDeep DEF Inv, Each, Form, Before, Step
<1>2. PICK x \in {"archive", "manifest"} : x = run[r].cur
  BY LinkSteps
<1>3. x \in Filed \ Deep /\ x \in Plain /\ x \in Entries(Root) /\ Root \in Containers
  BY NoteNames, DeepFacts, Facts, BareFiled DEF Filed
<1>4. \A y \in Deep : <<r, y>> # <<r, x>>
  BY <1>3
<1> DEFINE moved == x = "archive" /\ Alters(r, {"pc", "made"}) /\ run'[r].pc = "manifest" /\ run'[r].made = {<<r, x>>}
<1>5. \/ tree' = tree /\ Fails(r, run[r].made, {})
      \/ /\ tree[Root][x] = None /\ tree' = With(Root, x, <<r, x>>)
         /\ moved \/ Ends(r, "success", {}) \/ Fails(r, run[r].made \cup {<<r, x>>}, {})
  BY <1>2, LinkSteps
<1>6. \A y \in Deep : Steady(r, y)
  <2>1. Steadily(r) \/ \A y \in Filed \ {x} : Steady(r, y)
    BY <1>1, <1>2, <1>5, SteadyFails DEF Steadily, Steady, Keeps, Free, Holding, Fails, Ends, Alters, RunFields
  <2> QED BY <2>1, <1>3, DeepFacts DEF Steadily
<1>7. /\ run[r].silent = {} /\ run'[r].silent = {} /\ run'[r].named = run[r].named
      /\ run'[r].pc \in {"undo", "done", "manifest"} /\ (\A q \in Runs : q # r => run'[q] = run[q])
      /\ \A y \in Deep : ~Clutches(r, y)' /\ ~Clean(r, y)'
  <2>1. run[r].silent = {}
    BY <1>1 DEF Inv, Each, Form
  <2>2. /\ run'[r].silent = {} /\ run'[r].named = run[r].named /\ run'[r].pc \in {"undo", "done", "manifest"}
        /\ (\A q \in Runs : q # r => run'[q] = run[q])
    BY <1>5, <2>1 DEF Fails, Ends, Alters, RunFields
  <2> QED BY <2>1, <2>2 DEF Clutches, Clean
<1>8. Slack(r)
  <2>1. ~Past(r) /\ ~Mints(r)' /\ (\A y \in NestedNotes : ~Unmade(r, y)') /\ \A D \in Inner : ~Coming(r, D)' /\ ~Walks(r, D)'
    BY <1>1, <1>7 DEF Past, Mints, Unmade, Coming, Walks
  <2> QED BY <1>1, <1>6, <1>7, <2>1 DEF Slack
<1>9. OnlyAt(x) /\ <<r, x>> \notin Inner /\ <<r, x>> \in Objects
  <2>1. <<r, x>> \notin Inner /\ <<r, x>> \in Objects
    BY <1>3, NoteNames
  <2> QED BY <1>1, <1>3, <1>5, <2>1, OnlyThere
<1> QED BY <1>1, <1>3, <1>5, <1>8, <1>9, DeepElsewhere

LEMMA DeepRotation ==
    ASSUME Inv, DeepInv, NEW r \in Runs, Reopen(r) \/ RotateName(r) \/ VerifyRotated(r) \/ ReplaceCache(r)
    PROVE  DeepInv'
<1> DEFINE cache == tree[Root]["cache"]
<1>1. /\ UNCHANGED <<env, fresh>> /\ Deep' = Deep /\ run[r].pc \in {"reopen", "rotate", "verify", "replace"}
      /\ Steadily(r) /\ OnlyAt("cache") /\ run[r].made = {} /\ run[r].pc \notin {"dead", "done"}
  BY RotationSteps, RotationSteady, SameDeep DEF Inv, Each, Form
<1>2. /\ Shape /\ Root \in Containers /\ "cache" \in Entries(Root) /\ <<r, "cache">> \notin Inner /\ <<r, "cache">> \in Objects
      /\ "cache" \notin Deep \cup {"sub"} /\ None \notin Inner
      /\ Rotated(r) = <<r, "cache", Root, run[r].found>>
      /\ run[r].pc \in {"verify", "replace"} => run[r].found \in Objects /\ Rotated(r) \in aside
  <2>1. <<r, "cache">> \notin Inner
    BY Facts, ConstantsAssumption DEF Inner, Subs
  <2> QED BY <2>1, Facts, DeepFacts DEF Rotated, Inv, Each, Taking
<1>3. Slack(r)
  <2>1. ASSUME NEW objects, NEW status, Ends(r, status, objects) PROVE Slack(r)
    BY <1>1, <2>1, SlackEnds
  <2>2. ASSUME Alters(r, {"pc"}) \/ Alters(r, {"pc", "found"}), run'[r].pc \in {"rotate", "verify", "replace"} PROVE Slack(r)
    <3>1. /\ \A y \in Deep : Steady(r, y) /\ ~Clutches(r, y)' /\ ~Clean(r, y)'
          /\ run'[r].named = run[r].named /\ (\A q \in Runs : q # r => run'[q] = run[q])
      BY <1>1, <2>2, DeepFacts DEF Steadily, Clutches, Keeps, Clean, Alters, RunFields
    <3>2. ~Past(r) /\ ~Mints(r)' /\ (\A y \in NestedNotes : ~Unmade(r, y)') /\ \A D \in Inner : ~Coming(r, D)' /\ ~Walks(r, D)'
      BY <1>1, <2>2 DEF Past, Mints, Unmade, Coming, Walks
    <3> QED BY <1>1, <3>1, <3>2 DEF Slack
  <2> QED BY <2>1, <2>2, RotationSteps
<1>4. \A D \in Inner : AtCache(D)' => AtCache(D)
  <2>1. CASE UNCHANGED <<tree, aside>>
    BY <2>1 DEF AtCache
  <2>2. CASE cache # None /\ tree' = With(Root, "cache", None) /\ aside' = aside \cup {<<r, "cache", Root, cache>>}
    <3>1. tree'[Root]["cache"] = None
      BY <1>2, <2>2, Renames
    <3> QED BY <1>2, <2>2, <3>1 DEF AtCache
  <2>3. CASE run[r].pc \in {"verify", "replace"} /\ tree' = With(Root, "cache", run[r].found) /\ aside' = aside \ {Rotated(r)}
    <3>1. tree'[Root]["cache"] = run[r].found /\ Rotated(r)[2] = "cache" /\ Rotated(r)[4] = run[r].found
      BY <1>2, <2>3, Renames
    <3> QED BY <1>2, <2>3, <3>1 DEF AtCache
  <2>4. CASE tree' = With(Root, "cache", <<r, "cache">>) /\ aside' = aside
    <3>1. tree'[Root]["cache"] = <<r, "cache">>
      BY <1>2, <2>4, Renames
    <3> QED BY <1>2, <2>4, <3>1 DEF AtCache
  <2> QED BY <2>1, <2>2, <2>3, <2>4, RotationSteps
<1> QED BY <1>1, <1>2, <1>3, <1>4, DeepStays

\* A failed creation, and a note that is none of these.
LEMMA DeepCreateElsewhere ==
    ASSUME Inv, DeepInv, NEW r \in Runs, Create(r), run'[r].pc # "write" \/ run[r].cur \notin Deep
    PROVE  DeepInv'
<1>1. /\ UNCHANGED <<env, aside, fresh>> /\ run[r].pc = "create" /\ run[r].pc \in Before /\ Deep' = Deep
      /\ Minted(r) \subseteq Inner /\ run[r].silent = {} /\ run[r].held \in Containers
      /\ run[r].cur \in Entries(run[r].held) /\ run[r].cur \in Filed
  BY CreateSteps, MakesFacts, SameDeep DEF Inv, Each, Form, Filed
<1>2. CASE tree' = tree /\ Fails(r, run[r].made \cup Minted(r), Minted(r))
  <2>1. Steadily(r)
    BY <1>1, <1>2, SteadyFails, NoteNames
  <2>2. /\ \A x \in Deep : <<r, x>> \notin Minted(r)
        /\ Minted(r) \cap Inner # {} => run[r].minted
    BY <1>1, DeepFacts DEF Minted
  <2>3. Slack(r)
    BY <1>1, <1>2, <2>1, <2>2, SlackFails
  <2> QED BY <1>1, <1>2, <2>3, DeepIdle
<1>3. CASE /\ tree' = With(run[r].held, run[r].cur, <<r, run[r].cur>>) /\ run[r].cur \notin Deep
           /\ Alters(r, {"pc"}) /\ run'[r].pc = "write"
  <2>1. PICK x \in Filed : x = run[r].cur
    BY <1>1
  <2>2. PICK dir \in Containers : dir = run[r].held
    BY <1>1
  <2>3. <<r, x>> \notin Inner /\ <<r, x>> \in Objects /\ x \in Entries(dir) /\ tree' = With(dir, x, <<r, x>>) /\ x \notin Deep
    BY <1>1, <1>3, <2>1, <2>2, NoteNames
  <2>4. OnlyAt(x)
    BY <1>1, <2>3, OnlyThere
  <2>5. /\ \A y \in Deep : /\ Steady(r, y) /\ ~Clutches(r, y)'
                           /\ Clean(r, y)' => Clean(r, y)
        /\ run'[r].named = run[r].named /\ (\A q \in Runs : q # r => run'[q] = run[q])
    BY <1>1, <1>3, <2>1, <2>3 DEF Steady, Keeps, Free, Holding, Clutches, Clean, Alters, RunFields
  <2>6. /\ ~Past(r) /\ (Mints(r)' => Mints(r)) /\ (\A y \in NestedNotes : Unmade(r, y)' => Unmade(r, y))
        /\ \A D \in Inner : ~Coming(r, D)' /\ (Walks(r, D)' => Walks(r, D))
    BY <1>1, <1>3 DEF Past, Mints, Unmade, Coming, Walks, Alters, RunFields
  <2>7. Slack(r)
    BY <1>1, <2>5, <2>6 DEF Slack
  <2> QED BY <1>1, <2>3, <2>4, <2>7, DeepElsewhere
<1> QED BY <1>2, <1>3, CreateSteps

\* A run takes back a file that is no such note, or does not get at a directory.
LEMMA DeepMoveElsewhere ==
    ASSUME Inv, DeepInv, NEW r \in Runs, NEW o \in Own \cup Dirs, MoveAside(r, o), NameOf(o) \notin Deep,
           NameOf(o) = "sub" => UNCHANGED <<tree, aside>>
    PROVE  DeepInv'
<1>1. /\ UNCHANGED <<env, fresh>> /\ run[r].pc = "undo" /\ o \in Due(r) /\ o \in run[r].made /\ Deep' = Deep
      /\ o \in OwnFiles(r) \cup Inner
  BY MoveAsideSteps, SameDeep, Targets
<1>2. CASE UNCHANGED <<tree, aside>> /\ TakesBack(r, o, {o})
  <2>1. Slack(r)
    BY <1>1, <1>2, DeepFacts, SlackTakes
  <2> QED BY <1>1, <1>2, <2>1, DeepIdle
<1>3. PICK x : x = NameOf(o)
  OBVIOUS
<1>4. PICK dir : dir = UndoDir(r, o)
  OBVIOUS
<1>5. CASE /\ dir \in Containers /\ x \in Entries(dir) /\ tree[dir][x] # None
           /\ tree' = With(dir, x, None) /\ aside' = aside \cup {<<r, x, dir, tree[dir][x]>>}
           /\ Alters(r, {"pc", "held", "target", "found"}) /\ run'[r].pc = "settle"
           /\ run'[r].held = dir /\ run'[r].target = o /\ run'[r].found = tree[dir][x]
  <2>1. x # "sub"
    <3>1. tree'[dir][x] # tree[dir][x]
      BY <1>5, Renames DEF Inv
    <3> QED BY <1>3, <3>1
  <2>2. x \in Filed \ Deep /\ o = <<r, x>> /\ o \notin Inner /\ x # "cache" /\ ~IsDir(o)
    <3>1. o \notin Inner
      BY <1>3, <2>1, Facts
    <3> QED BY <1>1, <1>3, <3>1, MadeFacts, NoteNames DEF Filed
  <2>3. \A y \in Deep : Steady(r, y)
    <3>1. \A y \in Deep : y \in Filed /\ <<r, y>> # o
      BY <2>2, DeepFacts
    <3> QED BY <3>1, MoveAsideSteady
  <2>4. OnlyAt(x) /\ tree[dir][x] \notin Inner
    BY <1>3, <1>5, <2>1, <2>2, MoveAsideSteady DEF DeepInv, Kinds
  <2>5. \A y \in Deep : ~Clutches(r, y)'
    <3> SUFFICES ASSUME NEW y \in Deep, <<r, y>> \in run[r].made \cap run[r].silent PROVE FALSE
      BY <1>5 DEF Clutches, Keeps, Alters, RunFields
    <3>1. o \in run[r].silent
      BY <1>1 DEF Due
    <3>2. Taking(r) /\ <<r, y>> \notin Inner
      BY DeepFacts DEF Inv, Each
    <3>3. o = <<r, run[r].cur>> /\ <<r, y>> = <<r, run[r].cur>>
      BY <1>1, <2>2, <3>1, <3>2 DEF Taking
    <3> QED BY <2>2, <3>3
  <2>6. /\ \A y \in Deep : ~Clean(r, y)'
        /\ run'[r].named = run[r].named /\ (\A q \in Runs : q # r => run'[q] = run[q])
        /\ (Past(r) => Past(r)') /\ (Mints(r)' => Mints(r)) /\ (\A y \in NestedNotes : ~Unmade(r, y)')
        /\ \A D \in Inner : ~Walks(r, D)'
    BY <1>1, <1>5 DEF Clean, Past, Mints, Unmade, Walks, Alters, RunFields
  <2>7. \A D \in Inner : ~Coming(r, D)'
    <3>1. NameOf(run'[r].target) = x
      BY <1>3, <1>5
    <3> QED BY <2>1, <3>1 DEF Coming, NameOf, IsDir
  <2>8. Slack(r)
    BY <1>1, <2>3, <2>5, <2>6, <2>7 DEF Slack
  <2>9. \A e \in aside' : e \in aside \/ e[4] \notin Inner
    BY <1>5, <2>4
  <2>10. None \notin Inner
    BY DeepFacts
  <2> QED BY <1>1, <1>5, <2>2, <2>4, <2>8, <2>9, <2>10, DeepElsewhere
<1> QED BY <1>2, <1>3, <1>4, <1>5, MoveAsideSteps

LEMMA DeepSettleElsewhere ==
    ASSUME Inv, DeepInv, NEW r \in Runs, Settle(r), NameOf(run[r].target) \notin Deep,
           NameOf(run[r].target) = "sub" => UNCHANGED <<tree, aside>>
    PROVE  DeepInv'
<1>1. /\ UNCHANGED <<env, fresh>> /\ run[r].pc = "settle" /\ run[r].target \in run[r].made /\ Deep' = Deep
      /\ \E objects : TakesBack(r, run[r].target, objects)
      /\ aside' \subseteq aside
  BY SettleSteps, SameDeep
<1>2. PICK o \in OwnFiles(r) \cup Inner : o = run[r].target
  BY <1>1, Targets
<1>3. Slack(r)
  <2>1. \A x \in Deep : o # <<r, x>>
    BY <1>2, DeepFacts
  <2> QED BY <1>1, <1>2, <2>1, SlackTakes
<1>4. CASE UNCHANGED <<tree, aside>>
  BY <1>1, <1>3, <1>4, DeepIdle
<1>5. CASE NameOf(o) # "sub"
  <2>1. PICK x : x = NameOf(o)
    OBVIOUS
  <2>2. PICK dir \in Containers, found \in Objects : dir = run[r].held /\ found = run[r].found
    BY SettleSteps
  <2>3. x \in Filed \ Deep /\ o = <<r, x>> /\ x # "sub" /\ x # "cache"
    <3>1. o \notin Inner
      BY <1>5, Facts
    <3> QED BY <1>2, <2>1, <3>1, MadeFacts, NoteNames DEF Filed
  <2>4. OnlyAt(x) /\ x \in Entries(dir) /\ Taken(r) \in aside /\ (tree' = tree \/ tree' = With(dir, x, found))
    BY <1>2, <2>1, <2>2, SettleSteady, SettleSteps
  <2>5. found \notin Inner
    <3>1. Taken(r)[2] = x /\ Taken(r)[4] = found
      BY <1>2, <2>1, <2>2 DEF Taken
    <3> QED BY <2>3, <2>4, <3>1 DEF DeepInv, Kinds
  <2> QED BY <1>1, <1>3, <2>2, <2>3, <2>4, <2>5, DeepElsewhere
<1> QED BY <1>2, <1>4, <1>5

-----------------------------------------------------------------------------
(* A step that changes which directory is the subdirectory.                *)

LEMMA SubFacts ==
    ASSUME Inv, DeepInv
    PROVE  /\ Sub \in Inner \cup {None} /\ Root \in Containers /\ "sub" \in Entries(Root) /\ None \notin Inner
           /\ Sub = tree[Root]["sub"] /\ Shape
           /\ \A D \in Inner, x \in Deep, q \in Runs : Holds(D, x, q) => tree[D][x] # None
  BY DeepFacts DEF DeepInv, Kinds, Sub, Inv, Holds

LEMMA SubNames ==
    ASSUME OnlyAt("sub"), env' = env
    PROVE  SameNotes /\ \A D \in Inner : AtCache(D)' <=> AtCache(D)
<1>1. SameNotes
  BY DeepFacts DEF OnlyAt, SameNotes
<1> QED BY <1>1, DeepFacts DEF OnlyAt, AtCache

\* A run makes it.
LEMMA DeepMakeSub ==
    ASSUME Inv, DeepInv, NEW r \in Runs, NEW x \in NestedNotes, MakeSub(r, x), tree[Root]["sub"] = None
    PROVE  DeepInv'
<1> DEFINE N == <<r, "sub", x>>
<1>1. /\ UNCHANGED <<env, aside, fresh>> /\ run[r].pc = "install" /\ x \in run[r].pend
      /\ Alters(r, {"pc", "cur", "minted"}) /\ run'[r].pc = "open" /\ run'[r].cur = x
      /\ tree' = With(Root, "sub", N) /\ Deep' = Deep
  BY MakeSubSteps, SameDeep
<1>2. /\ N \in Inner /\ N \notin Dirs /\ N \in Objects /\ Sub = None
  BY Facts, ConstantsAssumption DEF Subs, Own, Inner, Sub
<1>3. OnlyAt("sub") /\ Sub' = N
  BY <1>1, <1>2, SubFacts, OnlyThere, Renames DEF Sub
<1>4. Unmade(r, x) /\ ~Used(N) /\ run[r].pc \in Before
  BY <1>1, <1>2 DEF Unmade, Used, Before
<1>5. /\ N # Sub /\ ~Hidden(N) /\ (\A y \in Deep : tree[N][y] = None) /\ ~AtCache(N)
      /\ \A q \in Runs : ~Walks(q, N)
  BY <1>2, <1>4 DEF DeepInv, Entered
<1>6. Slack(r)
  <2>1. /\ \A q \in Runs : q # r => run'[q] = run[q]
        /\ run'[r].made = run[r].made /\ run'[r].named = run[r].named /\ run'[r].pend = run[r].pend
        /\ run[r].silent = {} /\ run'[r].silent = {}
    BY <1>1, <1>4 DEF Alters, RunFields, Inv, Each, Form
  <2>2. \A y \in Deep : Steady(r, y)
    BY SteadyEarly, DeepFacts DEF Steadily
  <2>3. \A y \in Deep : ~Clutches(r, y)' /\ (Clean(r, y)' => Clean(r, y))
    BY <1>1, <2>1 DEF Clutches, Clean
  <2>4. /\ ~Past(r) /\ (\A y \in NestedNotes : Unmade(r, y)' => Unmade(r, y))
        /\ \A D \in Inner : ~Coming(r, D)' /\ ~Walks(r, D)'
    BY <1>1, <2>1 DEF Past, Unmade, Coming, Walks
  <2>5. ASSUME Mints(r)' PROVE SomePast
    <3>1. PICK y \in Deep : <<r, y>> \in run[r].made
      BY <1>1, <2>1, <2>5 DEF Mints
    <3>2. Keeps(r, y)
      BY <1>1, <3>1 DEF Keeps
    <3>3. PICK D \in Inner : Hidden(D)
      BY <1>2, <3>2, SubFacts DEF DeepInv, Kept
    <3> QED BY <3>3 DEF DeepInv, Hiding
  <2> QED BY <1>1, <2>1, <2>2, <2>3, <2>4, <2>5 DEF Slack
<1>7. Calmly /\ (\A q \in Runs, y \in Deep : Quiet(q, y)) /\ SameNotes /\ (\A D \in Inner : AtCache(D)' <=> AtCache(D))
      /\ \A D \in Inner : Hidden(D)' <=> Hidden(D)
  BY <1>1, <1>3, <1>6, Slacks, SubNames DEF Hidden
<1>8. Kinds'
  <2>1. Sub' \in Inner \cup {None} /\ \A e \in aside' : e[2] = "sub" => e[4] \in Inner
    BY <1>1, <1>2, <1>3 DEF DeepInv, Kinds
  <2> QED BY <1>3, <2>1, KindsStay DEF DeepInv
<1>9. ASSUME NEW D \in Inner PROVE Entered(D)'
  <2>1. CASE D # N
    BY <1>1, <1>3, <1>7, <2>1, EnteredStays DEF DeepInv
  <2>2. CASE D = N
    <3>1. Used(N)'
      <4>1. ASSUME NEW q \in Runs, NEW y \in NestedNotes, N = <<q, "sub", y>> PROVE ~Unmade(q, y)'
        <5>1. q = r /\ y = x
          BY <4>1
        <5> QED BY <1>1, <5>1 DEF Unmade
      <4> QED BY <1>2, <4>1 DEF Used
    <3> QED BY <1>5, <1>7, <2>2, <3>1 DEF Entered
  <2> QED BY <2>1, <2>2
<1>10. ASSUME NEW q \in Runs, NEW y \in Deep, NEW D \in Inner, Holds(D, y, q)
       PROVE  /\ D = Sub \/ Hidden(D) => D = Sub' \/ Hidden(D)'
              /\ Lost(D) => D # Sub'
  <2>1. D # N /\ D # None
    BY <1>5, <1>10, SubFacts
  <2> QED BY <1>2, <1>3, <1>7, <2>1
<1> HIDE DEF N
<1> QED BY <1>7, <1>8, <1>9, <1>10, NotesStay

\* A run takes it aside.
LEMMA DeepMoveSub ==
    ASSUME Inv, DeepInv, NEW r \in Runs, NEW o \in Own \cup Dirs, MoveAside(r, o), NameOf(o) = "sub", ~UNCHANGED <<tree, aside>>
    PROVE  DeepInv'
<1>1. /\ UNCHANGED <<env, fresh>> /\ run[r].pc = "undo" /\ o \in Due(r) /\ o \in run[r].made /\ Deep' = Deep
      /\ UndoDir(r, o) = Root
  <2>1. "sub" \in Plain
    BY Facts
  <2>2. UndoDir(r, o) = Root
    BY <2>1 DEF UndoDir
  <2>3. /\ UNCHANGED <<env, fresh>> /\ run[r].pc = "undo" /\ o \in Due(r) /\ o \in run[r].made
    BY MoveAsideSteps
  <2> QED BY <2>2, <2>3, SameDeep
<1>2. /\ Sub # None /\ tree' = With(Root, "sub", None) /\ aside' = aside \cup {<<r, "sub", Root, Sub>>}
      /\ Alters(r, {"pc", "held", "target", "found"}) /\ run'[r].pc = "settle"
      /\ run'[r].held = Root /\ run'[r].target = o /\ run'[r].found = Sub
  <2> DEFINE dir == UndoDir(r, o)
             x == NameOf(o)
  <2>1. /\ tree[dir][x] # None
        /\ tree' = With(dir, x, None) /\ aside' = aside \cup {<<r, x, dir, tree[dir][x]>>}
        /\ Alters(r, {"pc", "held", "target", "found"}) /\ run'[r].pc = "settle"
        /\ run'[r].held = dir /\ run'[r].target = o /\ run'[r].found = tree[dir][x]
    BY MoveAsideSteps
  <2>2. dir = Root /\ x = "sub" /\ tree[dir][x] = Sub
    BY <1>1 DEF Sub
  <2> HIDE DEF dir, x
  <2> QED BY <2>1, <2>2
<1>3. PICK D0 \in Inner : D0 = Sub
  BY <1>2, SubFacts
<1>4. OnlyAt("sub") /\ Sub' = None
  <2>1. OnlyAt("sub")
    BY MoveAsideSteady
  <2> QED BY <1>2, <2>1, SubFacts, Renames DEF Sub
<1>5. o \in Inner /\ IsDir(o)
  <2>1. o \in OwnFiles(r) \cup Inner
    BY <1>1, Targets
  <2>2. o \in OwnFiles(r) => \E x \in Filed : o = <<r, x>>
    BY DEF OwnFiles, Filed
  <2> QED BY <2>1, <2>2, NoteNames, Facts
\* No file of the same errand is left.
<1>6. ASSUME NEW x \in Deep, <<r, x>> \in run[r].made
      PROVE  <<r, x>> \notin run[r].silent /\ o \in run[r].silent
  <2>1. ~IsDir(<<r, x>>)
    BY NoteNames, DeepFacts
  <2> QED BY <1>1, <1>5, <1>6, <2>1 DEF Due
<1>7. Slack(r)
  <2>1. /\ \A q \in Runs : q # r => run'[q] = run[q]
        /\ run'[r].made = run[r].made /\ run'[r].named = run[r].named /\ run'[r].silent = run[r].silent
    BY <1>2 DEF Alters, RunFields
  <2>2. \A y \in Deep : Steady(r, y) /\ ~Clutches(r, y)' /\ ~Clean(r, y)'
    <3>1. \A y \in Deep : <<r, y>> # o /\ y \in Filed
      BY <1>5, DeepFacts
    <3> QED BY <1>2, <1>6, <2>1, <3>1, MoveAsideSteady DEF Clutches, Keeps, Clean
  <2>3. /\ (Past(r) => Past(r)') /\ (Mints(r)' => Mints(r)) /\ (\A y \in NestedNotes : ~Unmade(r, y)')
        /\ \A D \in Inner : ~Walks(r, D)'
    BY <1>1, <1>2, <2>1 DEF Past, Mints, Unmade, Walks
  <2>4. \A D \in Inner : Coming(r, D)' => D = Sub
    BY <1>2 DEF Coming
  <2> QED BY <1>1, <2>1, <2>2, <2>3, <2>4 DEF Slack
<1>8. Calmly /\ (\A q \in Runs, y \in Deep : Quiet(q, y)) /\ SameNotes /\ \A D \in Inner : AtCache(D)' <=> AtCache(D)
  BY <1>1, <1>4, <1>7, Slacks, SubNames
<1>9. \A D \in Inner : /\ D = Sub \/ Hidden(D) => Hidden(D)'
                       /\ Hidden(D)' => Hidden(D) \/ D = Sub
  <2>1. \A q \in Runs, D \in Inner : <<q, "sub", Root, D>> \in aside' =>
            <<q, "sub", Root, D>> \in aside \/ D = Sub
    BY <1>2
  <2> QED BY <1>2, <2>1 DEF Hidden
<1>10. Kinds'
  <2>1. \A e \in aside' : e[2] = "sub" => e[4] \in Inner
    BY <1>2, <1>3 DEF DeepInv, Kinds
  <2> QED BY <1>4, <2>1, KindsStay DEF DeepInv
<1>11. \A D \in Inner : Entered(D)'
  <2>1. \A D \in Inner : D # None
    BY SubFacts
  <2> QED BY <1>1, <1>4, <1>8, <1>9, <2>1, EnteredStays DEF DeepInv
<1>12. SomePast'
  <2>1. SomePast => SomePast'
    BY <1>8 DEF SomePast, Calmly, Calm
  <2>2. CASE \E x \in Deep : <<r, x>> \in run[r].made
    <3>1. Mints(r)
      BY <1>1, <1>5, <1>6, <2>2 DEF Mints
    <3> QED BY <2>1, <3>1 DEF DeepInv, Hiding
  <2>3. CASE \A x \in Deep : <<r, x>> \notin run[r].made
    <3>1. Past(r)'
      BY <1>1, <1>2, <2>3 DEF Past, Alters, RunFields
    <3> QED BY <3>1 DEF SomePast
  <2> QED BY <2>2, <2>3
<1>13. \A D \in Inner : D # Sub'
  BY <1>4, SubFacts
<1> QED BY <1>8, <1>9, <1>10, <1>11, <1>12, <1>13, NotesStay

\* A run removes what it took aside, or puts it back.
LEMMA DeepSettleSub ==
    ASSUME Inv, DeepInv, "undo" \notin env.faults, NEW r \in Runs, Settle(r), NameOf(run[r].target) = "sub", ~UNCHANGED <<tree, aside>>
    PROVE  DeepInv'
<1>1. PICK o, D0 : o = run[r].target /\ D0 = run[r].found
  OBVIOUS
<1>2. /\ UNCHANGED <<env, fresh>> /\ run[r].pc = "settle" /\ o \in run[r].made /\ Deep' = Deep
      /\ run[r].held \in Containers /\ "sub" \in Entries(run[r].held) /\ D0 \in Objects /\ Taken(r) \in aside
      /\ \E objects : TakesBack(r, o, objects)
  BY <1>1, SettleSteps, SameDeep
<1>3. run[r].held = Root
  BY <1>2, DeepFacts, Facts
<1> DEFINE e0 == <<r, "sub", Root, D0>>
<1>4. Taken(r) = e0 /\ e0 \in aside /\ e0[2] = "sub" /\ e0[4] = D0
  BY <1>1, <1>2, <1>3 DEF Taken
<1>5. D0 \in Inner /\ Hidden(D0) /\ Coming(r, D0)
  BY <1>1, <1>2, <1>4 DEF DeepInv, Kinds, Hidden, Coming
<1>6. /\ aside' = aside \ {e0}
      /\ \/ tree' = tree /\ (IsDir(D0) => Empty(D0))
         \/ Sub = None /\ tree' = With(Root, "sub", D0)
  <2> DEFINE x == NameOf(o)
             dir == run[r].held
  <2>1. /\ aside' = aside \ {Taken(r)}
        /\ \/ tree' = tree /\ Removable(o, D0)
           \/ tree[dir][x] = None /\ tree' = With(dir, x, D0)
    BY <1>1, SettleSteps
  <2>2. dir = Root /\ x = "sub"
    BY <1>1, <1>3
  <2> HIDE DEF dir, x
  <2> QED BY <1>4, <2>1, <2>2 DEF Sub, Removable
<1>7. OnlyAt("sub")
  BY SettleSteady
<1>8. Slack(r)
  <2>1. \A x \in Deep : o # <<r, x>>
    BY <1>1, DeepFacts
  <2> QED BY <1>1, <1>2, <2>1, SlackTakes
<1>9. Calmly /\ (\A q \in Runs, y \in Deep : Quiet(q, y)) /\ SameNotes /\ \A D \in Inner : AtCache(D)' <=> AtCache(D)
  BY <1>2, <1>7, <1>8, Slacks, SubNames
<1>10. \A D \in Inner : /\ Hidden(D) /\ D # D0 => Hidden(D)'
                        /\ Hidden(D)' => Hidden(D)
  <2>1. \A q \in Runs, D \in Inner : D # D0 => <<q, "sub", Root, D>> # e0
    OBVIOUS
  <2> HIDE DEF e0
  <2> QED BY <1>6, <2>1 DEF Hidden
<1>11. CASE tree' = tree /\ (IsDir(D0) => Empty(D0))
  <2>1. Sub' = Sub
    BY <1>11 DEF Sub
  <2>2. \A q \in Runs, y \in Deep : ~Holds(D0, y, q)
    <3>1. D0 \in Containers /\ IsDir(D0) /\ Entries(D0) = NestedNotes
      BY <1>5, Facts
    <3>2. \A y \in Deep : tree[D0][y] = None
      BY <1>11, <3>1, DeepFacts DEF Empty
    <3> QED BY <1>5, <3>2, SubFacts
  <2>3. Kinds'
    <3>1. Sub' \in Inner \cup {None} /\ \A e \in aside' : e[2] = "sub" => e[4] \in Inner
      BY <1>6, <2>1 DEF DeepInv, Kinds
    <3> QED BY <1>7, <3>1, KindsStay DEF DeepInv
  <2>4. \A D \in Inner : Entered(D)'
    BY <1>2, <1>9, <1>10, <2>1, EnteredStays DEF DeepInv
  <2>5. ASSUME NEW q \in Runs, NEW y \in Deep, NEW D \in Inner, Holds(D, y, q)
        PROVE  /\ D = Sub \/ Hidden(D) => D = Sub' \/ Hidden(D)'
               /\ Lost(D) => D # Sub'
    BY <1>10, <2>1, <2>2, <2>5 DEF Lost
  <2> QED BY <1>9, <1>10, <2>3, <2>4, <2>5, NotesStay
<1>12. CASE Sub = None /\ tree' = With(Root, "sub", D0)
  <2>1. Sub' = D0
    BY <1>2, <1>12, SubFacts, Renames DEF Sub
  <2>2. Kinds'
    <3>1. Sub' \in Inner \cup {None} /\ \A e \in aside' : e[2] = "sub" => e[4] \in Inner
      BY <1>5, <1>6, <2>1 DEF DeepInv, Kinds
    <3> QED BY <1>7, <3>1, KindsStay DEF DeepInv
  <2>3. \A D \in Inner : Entered(D)'
    BY <1>2, <1>5, <1>9, <1>10, <2>1, EnteredStays DEF DeepInv
  <2>4. ASSUME NEW q \in Runs, NEW y \in Deep, NEW D \in Inner, Holds(D, y, q)
        PROVE  /\ D = Sub \/ Hidden(D) => D = Sub' \/ Hidden(D)'
               /\ Lost(D) => D # Sub'
    <3>1. D # None
      BY SubFacts
    <3> QED BY <1>5, <1>10, <1>12, <2>1, <3>1 DEF Lost
  <2> QED BY <1>9, <1>10, <2>2, <2>3, <2>4, NotesStay
<1> QED BY <1>6, <1>11, <1>12

\* An outsider takes or removes a name that is no note's.
LEMMA DeepOutside ==
    ASSUME Inv, DeepInv, NEW x \in Names, OutsideRemove(x) \/ \E o \in Dirs \cup Files : OutsidePut(x, o)
    PROVE  DeepInv'
<1>1. /\ UNCHANGED <<env, aside, run>> /\ fresh' \subseteq fresh /\ x \notin Deep /\ Deep' = Deep
      /\ x = "sub" => Sub = None \/ Empty(Sub)
  BY OutsideSteps, SameDeep DEF Deep, Sub
<1>2. PICK o \in Objects \cup {None} :
         /\ Home(x) \in Containers /\ x \in Entries(Home(x)) /\ tree' = With(Home(x), x, o)
         /\ o = None \/ (o \in fresh /\ o \in Dirs \cup Files /\ fresh' = fresh \ {o} /\ Fits(x, o))
  BY OutsideSteps
<1>3. PICK dir \in Containers : dir = Home(x) /\ x \in Entries(dir) /\ tree' = With(dir, x, o)
  BY <1>2
<1>4. /\ o \in Inner => o \in Dirs /\ o \in fresh /\ o \notin fresh' /\ ~Used(o)
      /\ None \notin Inner
  <2>1. \A q \in Runs, y \in NestedNotes : <<q, "sub", y>> \in Own
    BY DEF Own, Subs
  <2>2. Inner \cap Files = {} /\ None \notin Inner
    BY ConstantsAssumption, Facts DEF Inner, Own
  <2> QED BY <1>2, <2>1, <2>2, ConstantsAssumption DEF Used
<1>5. ASSUME o \in Inner
      PROVE  /\ o # Sub /\ ~Hidden(o) /\ (\A y \in Deep : tree[o][y] = None) /\ ~AtCache(o)
             /\ (\A q \in Runs : ~Walks(q, o)) /\ \A e \in aside : e[2] \in Deep => e[3] # o
  BY <1>4, <1>5 DEF DeepInv, Entered
<1>6. OnlyAt(x)
  BY <1>1, <1>2, OnlyThere
<1>7. Calmly /\ (\A q \in Runs, y \in Deep : Quiet(q, y)) /\ \A D \in Inner : Hidden(D)' <=> Hidden(D)
  BY <1>1, Idles DEF Calmly, Hidden
<1>8. CASE x = "sub"
  <2>1. dir = Root /\ Sub' = o
    <3>1. dir = Root
      BY <1>3, <1>8, Facts DEF Home
    <3> QED BY <1>3, <1>8, <3>1, SubFacts, Renames DEF Sub
  <2>2. SameNotes /\ \A D \in Inner : AtCache(D)' <=> AtCache(D)
    BY <1>1, <1>6, <1>8, SubNames
  <2>3. o \in Inner \cup {None}
    BY <1>2, <1>8 DEF Fits, Inner
  <2>4. Kinds'
    <3>1. Sub' \in Inner \cup {None} /\ \A e \in aside' : e[2] = "sub" => e[4] \in Inner
      BY <1>1, <2>1, <2>3 DEF DeepInv, Kinds
    <3> QED BY <1>6, <1>8, <3>1, KindsStay DEF DeepInv
  <2>5. ASSUME NEW D \in Inner PROVE Entered(D)'
    <3>1. CASE D # o
      BY <1>1, <1>7, <2>1, <2>2, <3>1, EnteredStays DEF DeepInv
    <3>2. CASE D = o
      <4>1. Used(D)'
        <5>1. \A q \in Runs, y \in NestedNotes : D # <<q, "sub", y>>
          BY <1>4, <3>2, ConstantsAssumption DEF Own, Subs
        <5> QED BY <1>4, <3>2, <5>1 DEF Used
      <4> QED BY <1>5, <2>2, <3>2, <4>1 DEF Entered
    <3> QED BY <3>1, <3>2
  <2>6. ASSUME NEW q \in Runs, NEW y \in Deep, NEW D \in Inner, Holds(D, y, q)
        PROVE  /\ D = Sub \/ Hidden(D) => D = Sub' \/ Hidden(D)'
               /\ Lost(D) => D # Sub'
    <3>1. tree[D][y] # None /\ D \in Containers /\ y \in Entries(D)
      BY <2>6, SubFacts, DeepFacts
    <3>2. D # o
      BY <1>5, <3>1
    <3>3. D # Sub
      BY <1>1, <1>4, <1>8, <3>1 DEF Empty
    <3> QED BY <1>7, <2>1, <3>2, <3>3
  <2> QED BY <1>7, <2>2, <2>4, <2>5, <2>6, NotesStay
<1>9. CASE x # "sub"
  <2>1. SameNotes /\ Sub' = Sub
    BY <1>1, <1>6, <1>9, OtherNames
  <2>2. x # "cache" => o \notin Inner
    BY <1>2, <1>4, <1>9, ConstantsAssumption DEF Fits
  <2>3. Kinds'
    <3>1. ASSUME x # "cache" PROVE /\ \A d \in Containers : x \in Entries(d) => tree'[d][x] \notin Inner
                                   /\ \A e \in aside' : e[2] = x => e[4] \notin Inner
      <4>1. \A d \in Containers : x \in Entries(d) => tree[d][x] \notin Inner
        BY <1>9, <3>1 DEF DeepInv, Kinds
      <4>2. \A d \in Containers : x \in Entries(d) => tree'[d][x] = tree[d][x] \/ tree'[d][x] = o
        BY <1>3, Renames DEF Inv
      <4>3. \A e \in aside' : e[2] = x => e[4] \notin Inner
        BY <1>1, <1>9, <3>1 DEF DeepInv, Kinds
      <4> QED BY <2>2, <3>1, <4>1, <4>2, <4>3
    <3> QED BY <1>6, <1>9, <3>1, KindsStay DEF DeepInv
  <2>4. \A D \in Inner : AtCache(D)' => AtCache(D) \/ D = o
    <3>1. tree'[Root]["cache"] = tree[Root]["cache"] \/ tree'[Root]["cache"] = o
      BY <1>3, DeepFacts, Renames DEF Inv
    <3> QED BY <1>1, <3>1 DEF AtCache
  <2>5. ASSUME NEW D \in Inner PROVE Entered(D)'
    <3>1. CASE D # o
      BY <1>1, <1>7, <2>1, <2>4, <3>1, EnteredStays DEF DeepInv
    <3>2. CASE D = o
      <4>1. D \in Dirs \ fresh' /\ D # Sub' /\ ~Hidden(D)' /\ \A q \in Runs : ~Walks(q, D)'
        <5>1. \A q \in Runs : Walks(q, D)' <=> Walks(q, D)
          BY <1>1 DEF Walks
        <5> QED BY <1>4, <1>5, <1>7, <2>1, <3>2, <5>1
      <4>2. (\A y \in Deep : tree'[D][y] = None) /\ \A e \in aside' : e[2] \in Deep => e[3] # D
        BY <1>1, <1>5, <2>1, <3>2 DEF SameNotes
      <4> QED BY <1>1, <4>1, <4>2 DEF Entered
    <3> QED BY <3>1, <3>2
  <2> QED BY <1>7, <2>1, <2>3, <2>5, NotesStay DEF Lost
<1> QED BY <1>8, <1>9

-----------------------------------------------------------------------------
(* A step that moves a note.                                               *)

\* What is known of a note, everywhere.
Known(q, x) == Alone(q, x) /\ Kept(q, x) /\ \A D \in Inner : Let(q, x, D)

SameHome == /\ Sub' = Sub /\ (\A D \in Inner : Hidden(D)' <=> Hidden(D))
            /\ \A D \in Inner : AtCache(D)' <=> AtCache(D)

LEMMA NoteNamesStay ==
    ASSUME NEW x \in Deep, OnlyAt(x)
    PROVE  SameHome /\ \A q \in Runs, y \in Deep \ {x} : SameNote(q, y)
<1>1. /\ x # "sub" /\ x # "cache" /\ Root \in Containers /\ "sub" \in Entries(Root) /\ "cache" \in Entries(Root)
  BY DeepFacts
<1>2. \A q \in Runs, D \in Inner : <<q, "sub", Root, D>> \in aside' <=> <<q, "sub", Root, D>> \in aside
  <2>1. \A q \in Runs, D \in Inner : <<q, "sub", Root, D>>[2] # x
    BY <1>1
  <2> QED BY <2>1 DEF OnlyAt
<1>3. SameHome
  BY <1>1, <1>2 DEF OnlyAt, SameHome, Sub, Hidden, AtCache
<1>4. \A q \in Runs, y \in Deep \ {x} : SameNote(q, y)
  BY DeepFacts DEF OnlyAt, SameNote
<1> QED BY <1>3, <1>4

LEMMA KnownStays ==
    ASSUME NEW q \in Runs, NEW x \in Deep, Quiet(q, x), Calmly, SameNote(q, x), SameHome, Known(q, x)
    PROVE  Known(q, x)'
<1>1. Alone(q, x)'
  BY AloneStays DEF Known, Calmly
<1>2. Kept(q, x)'
  BY KeptStays DEF Known, Quiet, SameHome
<1>3. \A D \in Inner : Let(q, x, D)'
  <2>1. \A D \in Inner : Lost(D) => D # Sub'
    BY DEF Lost, SameHome
  <2> QED BY <2>1, LetStays DEF Known, Quiet
<1> QED BY <1>1, <1>2, <1>3 DEF Known

LEMMA NoteMoves ==
    ASSUME Inv, DeepInv, Calmly, UNCHANGED <<env, fresh>>, NEW x \in Deep, OnlyAt(x),
           \A q \in Runs, y \in Deep \ {x} : Quiet(q, y),
           \A q \in Runs : Known(q, x)',
           \A D \in Inner : tree'[D][x] = None \/ \E q \in Runs : Holds(D, x, q)',
           \A e \in aside' : e[2] = x => \E q \in Runs : e[4] = <<q, x>>,
           \A D \in Inner : tree'[D][x] # None \/ (\E e \in aside' : e[2] = x /\ e[3] = D) => Used(D)
    PROVE  DeepInv'
<1>1. SameHome /\ (\A q \in Runs, y \in Deep \ {x} : SameNote(q, y)) /\ Deep' = Deep
  BY NoteNamesStay, SameDeep
<1>2. \A q \in Runs, y \in Deep : Known(q, y)'
  <2>1. \A q \in Runs, y \in Deep : Known(q, y)
    BY DEF DeepInv, Known
  <2> QED BY <1>1, <2>1, KnownStays
<1>3. OnlyNotes'
  <2>1. \A D \in Inner, y \in Deep \ {x} : tree'[D][y] = tree[D][y]
    BY DeepFacts DEF OnlyAt
  <2>2. \A D \in Inner, y \in Deep \ {x} : tree'[D][y] = None \/ \E q \in Runs : Holds(D, y, q)'
    BY <2>1 DEF DeepInv, OnlyNotes, Holds
  <2>3. \A e \in aside' : e[2] \in Deep => \E q \in Runs : e[4] = <<q, e[2]>>
    BY DEF OnlyAt, DeepInv, OnlyNotes
  <2> QED BY <1>1, <2>2, <2>3 DEF OnlyNotes
<1>4. Kinds'
  <2>1. \A q \in Runs : <<q, x>> \notin Inner
    BY DeepFacts
  <2>2. \A d \in Containers : x \in Entries(d) => d \in Inner
    <3>1. x \notin Plain
      BY DeepFacts
    <3> QED BY <3>1, Facts
  <2>3. \A D \in Inner : tree'[D][x] \notin Inner
    <3>1. None \notin Inner
      BY DeepFacts
    <3> QED BY <2>1, <3>1 DEF Holds
  <2>4. \A e \in aside' : e[2] = x => e[4] \notin Inner
    BY <2>1
  <2> QED BY <2>2, <2>3, <2>4, DeepFacts, KindsStay DEF DeepInv
<1>5. Hiding'
  <2>1. (\E D \in Inner : Hidden(D)') => \E D \in Inner : Hidden(D)
    BY <1>1 DEF SameHome
  <2> QED BY <2>1, HidingStays DEF DeepInv
<1>6. ASSUME NEW D \in Inner PROVE Entered(D)'
  <2>1. Entered(D) /\ (Used(D) => Used(D)')
    BY UsedStays DEF DeepInv
  <2>2. \A q \in Runs : Walks(q, D)' => Walks(q, D) \/ D = Sub
    BY DEF Calmly, Calm
  <2>3. (\E y \in Deep : tree'[D][y] # None) => Used(D)
    <3>1. \A y \in Deep \ {x} : tree'[D][y] = tree[D][y]
      BY DeepFacts DEF OnlyAt
    <3> QED BY <2>1, <3>1 DEF Entered
  <2>4. (\E e \in aside' : e[2] \in Deep /\ e[3] = D) => Used(D)
    BY <2>1 DEF Entered, OnlyAt
  <2>5. AtCache(D)' => D \in Dirs \ fresh' /\ D # Sub' /\ ~Hidden(D)' /\ \A q \in Runs : ~Walks(q, D)'
    BY <1>1, <2>1, <2>2 DEF Entered, SameHome
  <2>6. D = Sub' \/ Hidden(D)' \/ (\E q \in Runs : Walks(q, D)') => Used(D)
    BY <1>1, <2>1, <2>2 DEF Entered, SameHome
  <2> QED BY <1>1, <2>1, <2>3, <2>4, <2>5, <2>6 DEF Entered
<1> QED BY <1>1, <1>2, <1>3, <1>4, <1>5, <1>6 DEF DeepInv, Known

\* A run makes a note in the directory it walked to.
LEMMA DeepCreate ==
    ASSUME Inv, DeepInv, NEW r \in Runs, Create(r), run'[r].pc = "write", run[r].cur \in Deep
    PROVE  DeepInv'
<1>0. PICK dir : dir = run[r].held
  OBVIOUS
<1>1. PICK x \in Deep : x = run[r].cur
  OBVIOUS
<1>2. /\ UNCHANGED <<env, aside, fresh>> /\ run[r].pc = "create" /\ run[r].pc \in Before
      /\ run[r].silent = {} /\ dir \in Containers /\ x \in Entries(dir) /\ x \in run[r].pend
      /\ Creatable(dir, x) /\ tree' = With(dir, x, <<r, x>>) /\ Alters(r, {"pc"})
  <2>1. UNCHANGED <<env, aside, fresh>> /\ run[r].pc = "create" /\ run[r].pc \in Before
    BY CreateSteps, MakesFacts
  <2>2. run[r].silent = {} /\ x \in run[r].pend
    BY <1>0, <1>1, <2>1 DEF Inv, Each, Form
  <2>3. dir \in Containers /\ x \in Entries(dir)
    BY <1>0, <1>1, <2>1, MakesFacts
  <2>4. Creatable(dir, x) /\ tree' = With(dir, x, <<r, x>>) /\ Alters(r, {"pc"})
    BY <1>0, <1>1, CreateSteps DEF Fails, Before
  <2> QED BY <2>1, <2>2, <2>3, <2>4
<1>3. /\ x \in NestedNotes /\ x \in Filed /\ x # "sub" /\ x # "cache" /\ x \notin Plain
      /\ <<r, x>> \in Objects /\ <<r, x>> \notin Inner /\ <<r, x>> # None
  BY DeepFacts, NoteNames
<1>4. dir \in Inner /\ dir # Root /\ dir \in Linked /\ tree[dir][x] = None
  BY <1>2, <1>3, Facts DEF Creatable
\* The directory is in the tree, or taken aside.
<1>5. dir = Sub \/ Hidden(dir)
  <2>1. ~AtCache(dir)
    <3>1. Walks(r, dir)
      BY <1>0, <1>1, <1>2, <1>3 DEF Walks
    <3> QED BY <1>4, <3>1 DEF DeepInv, Entered
  <2>2. ASSUME NEW d \in Containers, NEW y \in Entries(d), tree[d][y] = dir PROVE dir = Sub
    <3>1. y \in {"sub", "cache"}
      BY <1>4, <2>2 DEF DeepInv, Kinds
    <3>2. d = Root
      BY <2>2, <3>1, DeepFacts, Facts
    <3> QED BY <2>1, <2>2, <3>1, <3>2 DEF Sub, AtCache
  <2>3. ASSUME NEW e \in aside, e[4] = dir PROVE Hidden(dir)
    <3>1. e[2] \in {"sub", "cache"} /\ e \in Runs \X Names \X Containers \X Objects /\ e[2] \in Entries(e[3])
      BY <1>4, <2>3 DEF DeepInv, Kinds, Inv, Shape
    <3>2. e[2] = "sub"
      BY <2>1, <2>3, <3>1 DEF AtCache
    <3>3. e[3] = Root
      BY <3>1, <3>2, DeepFacts, Facts
    <3>4. e = <<e[1], "sub", Root, dir>> /\ e[1] \in Runs
      BY <2>3, <3>1, <3>2, <3>3
    <3> QED BY <3>4 DEF Hidden
  <2> QED BY <1>4, <2>2, <2>3 DEF Linked
<1>6. Used(dir)
  BY <1>4, <1>5 DEF DeepInv, Entered
<1>7. OnlyAt(x)
  BY <1>2, <1>3, OnlyThere
<1>8. /\ \A D \in Inner : tree'[D][x] = IF D = dir THEN <<r, x>> ELSE tree[D][x]
  BY <1>2, <1>3, Renames, DeepFacts DEF Inv
<1>9. /\ \A y \in Deep \ {x} : Quiet(r, y)
      /\ Calm(r) /\ ~Free(r) /\ Keeps(r, x)' /\ ~Clean(r, x)' /\ Clean(r, x) /\ run'[r].held = dir
  <2>1. /\ run'[r].pc = "write" /\ run'[r].made = run[r].made /\ run'[r].silent = run[r].silent /\ run'[r].cur = x
        /\ run'[r].held = run[r].held /\ run'[r].pend = run[r].pend /\ run'[r].minted = run[r].minted
        /\ run'[r].named = run[r].named
    BY <1>0, <1>1, <1>2 DEF Alters, RunFields
  <2>2. \A y \in Deep \ {x} : Quiet(r, y)
    BY <1>0, <1>1, <1>2, <2>1 DEF Quiet, Clutches, Keeps, Clean, Holding
  <2>3. Keeps(r, x)' /\ ~Clean(r, x)' /\ Clean(r, x) /\ run'[r].held = dir /\ ~Free(r)
    BY <1>0, <1>1, <1>2, <2>1 DEF Keeps, Clean, Free
  <2>4. Mints(r)' => Mints(r)
    BY <1>2, <2>1, SameDeep DEF Mints
  <2>5. /\ ~Past(r)
        /\ \A y \in NestedNotes : Unmade(r, y)' => Unmade(r, y)
        /\ \A D \in Inner : ~Coming(r, D)' /\ (Walks(r, D)' => Walks(r, D))
    BY <1>0, <1>1, <1>2, <2>1 DEF Past, Unmade, Coming, Walks
  <2> QED BY <2>1, <2>2, <2>3, <2>4, <2>5 DEF Calm
<1>10. \A q \in Runs : q # r => Calm(q) /\ \A y \in Deep : Quiet(q, y)
  BY <1>2, Idles DEF Alters
<1>11. ASSUME NEW q \in Runs PROVE Known(q, x)'
  <2>1. Known(q, x)
    BY DEF DeepInv, Known
  <2>2. CASE q # r
    <3>1. SameNote(q, x)
      <4>1. <<q, x>> # <<r, x>> /\ <<q, x>> # None
        BY <2>2, DeepFacts
      <4> QED BY <1>2, <1>4, <1>8, <4>1 DEF SameNote
    <3> QED BY <1>7, <1>9, <1>10, <2>1, <2>2, <3>1, KnownStays, NoteNamesStay DEF Calmly
  <2>3. CASE q = r
    <3>1. (\A D \in Inner : ~Holds(D, x, r)) /\ \A e \in aside : ~(e[2] = x /\ e[4] = <<r, x>>)
      BY <1>9, <2>1, <2>3 DEF Known, Alone
    <3>2. \A D \in Inner : Holds(D, x, r)' <=> D = dir
      BY <1>8, <3>1 DEF Holds
    <3>3. Alone(r, x)'
      BY <1>2, <1>4, <1>9, <3>1, <3>2 DEF Alone
    <3>4. Kept(r, x)'
      BY <1>4, <1>5, <1>7, <3>2, NoteNamesStay DEF Kept, SameHome
    <3>5. \A D \in Inner : Let(r, x, D)'
      BY <1>9 DEF Let
    <3> QED BY <2>3, <3>3, <3>4, <3>5 DEF Known
  <2> QED BY <2>2, <2>3
<1>12. \A D \in Inner : /\ tree'[D][x] = None \/ \E q \in Runs : Holds(D, x, q)'
                        /\ tree'[D][x] # None \/ (\E e \in aside' : e[2] = x /\ e[3] = D) => Used(D)
  <2>1. \A D \in Inner : tree[D][x] = None \/ \E q \in Runs : Holds(D, x, q)
    BY DEF DeepInv, OnlyNotes
  <2>2. \A D \in Inner : tree[D][x] # None \/ (\E e \in aside : e[2] = x /\ e[3] = D) => Used(D)
    BY DEF DeepInv, Entered
  <2> QED BY <1>2, <1>6, <1>8, <2>1, <2>2 DEF Holds
<1>13. \A e \in aside' : e[2] = x => \E q \in Runs : e[4] = <<q, x>>
  BY <1>2 DEF DeepInv, OnlyNotes
<1> QED BY <1>2, <1>7, <1>9, <1>10, <1>11, <1>12, <1>13, NoteMoves DEF Calmly

\* A run that is about to take a note back.
LEMMA Retrieves ==
    ASSUME Inv, DeepInv, Two, NEW r \in Runs, NEW x \in Deep, run[r].pc = "undo", <<r, x>> \in Due(r)
    PROVE  /\ <<r, x>> \in run[r].made /\ Keeps(r, x) /\ ~Past(r) /\ ~Free(r)
           /\ \E D \in Inner : Holds(D, x, r) /\ (D = Sub \/ Hidden(D))
           /\ \A e \in aside : ~(e[2] = x /\ e[4] = <<r, x>>)
           /\ UndoDir(r, <<r, x>>) = IF <<r, x>> \in run[r].silent THEN run[r].held ELSE Sub
           /\ <<r, x>> \in run[r].silent => run[r].held \in Inner /\ Holds(run[r].held, x, r)
           /\ \A y \in Deep \ {x} : ~(<<r, y>> \in run[r].made /\ <<r, y>> \in run[r].silent)
           /\ (\A D \in Inner : Holds(D, x, r) => D # Sub) => \A q \in Runs : q # r => Past(q)
<1>1. Known(r, x) /\ Sub \in Inner \cup {None} /\ Taking(r) /\ Hiding
  BY SubFacts DEF DeepInv, Known, Inv, Each
<1>2. <<r, x>> \in run[r].made
  BY DEF Due
<1>3. Keeps(r, x) /\ ~Past(r) /\ ~Free(r)
  BY <1>2 DEF Keeps, Past, Free
<1>4. PICK D0 \in Inner : Holds(D0, x, r) /\ (D0 = Sub \/ Hidden(D0))
  BY <1>1, <1>3 DEF Known, Kept
<1>5. \A e \in aside : ~(e[2] = x /\ e[4] = <<r, x>>)
  BY <1>1, <1>4 DEF Known, Alone
<1>6. UndoDir(r, <<r, x>>) = IF <<r, x>> \in run[r].silent THEN run[r].held ELSE Sub
  <2>1. NameOf(<<r, x>>) = x /\ x \notin Plain /\ Inner \subseteq Containers /\ None \notin Containers
    BY DeepFacts, Facts
  <2>2. Home(x) = Sub
    BY <1>1, <2>1 DEF Home, Sub
  <2> QED BY <2>1, <2>2 DEF UndoDir
<1>7. <<r, x>> \in run[r].silent => run[r].held \in Inner /\ Holds(run[r].held, x, r)
  BY <1>1, <1>3 DEF Known, Alone, Clutches
<1>8. ASSUME NEW y \in Deep \ {x}, <<r, y>> \in run[r].made, <<r, y>> \in run[r].silent PROVE FALSE
  <2>1. <<r, x>> \in run[r].silent
    BY <1>8 DEF Due
  <2>2. <<r, x>> \notin Inner /\ <<r, y>> \notin Inner
    BY DeepFacts
  <2>3. <<r, x>> = <<r, run[r].cur>> /\ <<r, y>> = <<r, run[r].cur>>
    BY <1>1, <1>8, <2>1, <2>2 DEF Taking
  <2> QED BY <2>3
<1>9. ASSUME \A D \in Inner : Holds(D, x, r) => D # Sub, NEW q \in Runs, q # r PROVE Past(q)
  <2>1. PICK p \in Runs : Past(p)
    BY <1>1, <1>4, <1>9 DEF Hiding, SomePast
  <2> QED BY <1>3, <1>9, <2>1 DEF Two
<1> QED BY <1>2, <1>3, <1>4, <1>5, <1>6, <1>7, <1>8, <1>9

\* It finds none where it looks: the directory was taken aside, and the run tells.
LEMMA DeepMissNote ==
    ASSUME Inv, DeepInv, Two, NEW r \in Runs, NEW x \in Deep, run[r].pc = "undo", <<r, x>> \in Due(r),
           UndoDir(r, <<r, x>>) = None \/ tree[UndoDir(r, <<r, x>>)][x] = None,
           UNCHANGED <<env, tree, aside, fresh>>, TakesBack(r, <<r, x>>, {<<r, x>>})
    PROVE  DeepInv'
<1> DEFINE dir == UndoDir(r, <<r, x>>)
<1>1. /\ Keeps(r, x) /\ ~Past(r) /\ ~Free(r)
      /\ \A e \in aside : ~(e[2] = x /\ e[4] = <<r, x>>)
  BY Retrieves
<1>2. None \notin Inner /\ <<r, x>> # None /\ x \in Filed /\ (\A D \in Inner : Holds(D, x, r) => tree[D][x] # None)
  BY DeepFacts, SubFacts
<1>3. <<r, x>> \notin run[r].silent /\ dir = Sub
  BY <1>2, Retrieves
<1>4. \A D \in Inner : Holds(D, x, r) => D # Sub
  BY <1>2, <1>3
<1>5. \A q \in Runs : q # r => Past(q)
  BY <1>4, Retrieves
<1>6. <<r, x>> \in run'[r].named
  BY <1>3 DEF TakesBack, Reported
<1>7. /\ run'[r].pc \in {"done", "undo"} /\ run[r].named \subseteq run'[r].named /\ run'[r].held = run[r].held
      /\ run'[r].made = run[r].made \ {<<r, x>>} /\ run'[r].silent = run[r].silent
      /\ \A q \in Runs : q # r => run'[q] = run[q]
  BY DEF TakesBack, Alters, RunFields
<1>8. Calmly
  <2>1. Calm(r)
    BY <1>1, <1>7 DEF Calm, Mints, Unmade, Coming, Walks, Deep
  <2> QED BY <1>7, <2>1, Idles DEF Calmly
<1>9. \A q \in Runs, y \in Deep : q # r \/ y # x => Quiet(q, y)
  <2>1. ASSUME NEW y \in Deep \ {x} PROVE Quiet(r, y)
    <3>1. Steady(r, y) /\ ~Holding(r, y)
      BY <2>1, SteadyTakes, DeepFacts DEF Holding
    <3> QED BY <1>7, <3>1 DEF Quiet, Steady, Clutches, Clean
  <2> QED BY <1>7, <2>1, Idles
<1>10. OnlyAt(x) /\ SameHome /\ \A q \in Runs : SameNote(q, x)
  <2>1. OnlyAt(x)
    BY DEF OnlyAt
  <2> QED BY <2>1, NoteNamesStay DEF SameNote
<1>11. ASSUME NEW q \in Runs PROVE Known(q, x)'
  <2>1. Known(q, x)
    BY DEF DeepInv, Known
  <2>2. CASE q # r
    BY <1>8, <1>9, <1>10, <2>1, <2>2, KnownStays
  <2>3. CASE q = r
    <3>1. ~Keeps(r, x)' /\ ~Clean(r, x)' /\ \A D \in Inner : Holds(D, x, r)' <=> Holds(D, x, r)
      BY <1>7 DEF Keeps, Clean, Holds
    <3>2. Alone(r, x)'
      <4>1. ~Clutches(r, x)'
        BY <3>1 DEF Clutches
      <4>2. \A e \in aside' : ~(e[2] = x /\ e[4] = <<r, x>>)
        BY <1>1
      <4>3. \A D, E \in Inner : Holds(D, x, r)' /\ Holds(E, x, r)' => D = E
        BY <2>1, <2>3, <3>1 DEF Known, Alone
      <4> QED BY <3>1, <4>1, <4>2, <4>3 DEF Alone
    <3>3. \A D \in Inner : Let(r, x, D)'
      BY <1>5, <1>6, <1>8 DEF Let, Calmly, Calm
    <3> QED BY <2>3, <3>1, <3>2, <3>3 DEF Known, Kept
  <2> QED BY <2>2, <2>3
<1>12. /\ \A D \in Inner : tree'[D][x] = None \/ \E q \in Runs : Holds(D, x, q)'
       /\ \A e \in aside' : e[2] = x => \E q \in Runs : e[4] = <<q, x>>
       /\ \A D \in Inner : tree'[D][x] # None \/ (\E e \in aside' : e[2] = x /\ e[3] = D) => Used(D)
  BY DEF DeepInv, OnlyNotes, Entered, Holds
<1> HIDE DEF dir
<1> QED BY <1>8, <1>9, <1>10, <1>11, <1>12, NoteMoves

\* It takes aside what it finds there: its own note, or that of a run that may leave it.
LEMMA DeepFindNote ==
    ASSUME Inv, DeepInv, Two, NEW r \in Runs, NEW x \in Deep, run[r].pc = "undo", <<r, x>> \in Due(r),
           NEW dir \in Inner, dir = UndoDir(r, <<r, x>>), NEW m, m = tree[dir][x], m # None,
           UNCHANGED <<env, fresh>>, tree' = With(dir, x, None), aside' = aside \cup {<<r, x, dir, m>>},
           Alters(r, {"pc", "held", "target", "found"}), run'[r].pc = "settle", run'[r].held = dir,
           run'[r].target = <<r, x>>, run'[r].found = m
    PROVE  DeepInv'
<1> DEFINE e0 == <<r, x, dir, m>>
<1>1. /\ Keeps(r, x) /\ ~Past(r) /\ ~Free(r)
      /\ \A e \in aside : ~(e[2] = x /\ e[4] = <<r, x>>)
      /\ dir = IF <<r, x>> \in run[r].silent THEN run[r].held ELSE Sub
      /\ <<r, x>> \in run[r].silent => Holds(run[r].held, x, r)
      /\ \A y \in Deep \ {x} : ~(<<r, y>> \in run[r].made /\ <<r, y>> \in run[r].silent)
  BY Retrieves
<1>2. /\ None \notin Inner /\ <<r, x>> # None /\ x \in Filed /\ NameOf(<<r, x>>) = x /\ x # "sub"
      /\ dir \in Containers /\ x \in Entries(dir) /\ Shape
      /\ \A q \in Runs : <<q, x>> # None
  BY DeepFacts DEF Inv
<1>3. PICK p \in Runs : m = <<p, x>>
  BY DEF DeepInv, OnlyNotes, Holds
<1>4. Holds(dir, x, p) /\ Known(p, x)
  BY <1>3 DEF Holds, DeepInv, Known
<1>5. \A e \in aside : ~(e[2] = x /\ e[4] = <<p, x>>)
  BY <1>4 DEF Known, Alone
\* A run whose note is in its way has lost hold of it.
<1>6. ASSUME p # r
      PROVE  /\ Free(p) /\ dir = Sub
             /\ \A D \in Inner : Holds(D, x, r) => D # Sub
             /\ \A q \in Runs : q # r => q = p
  <2>1. <<p, x>> # <<r, x>>
    BY <1>6
  <2>2. dir = Sub
    BY <1>1, <1>3, <2>1 DEF Holds
  <2>3. \A D \in Inner : Holds(D, x, r) => D # Sub
    BY <1>3, <2>1, <2>2 DEF Holds
  <2>4. Past(p)
    BY <1>6, <2>3, Retrieves
  <2>5. ~Keeps(p, x)
    BY <2>4 DEF Past, Keeps
  <2>6. Free(p)
    <3>1. ~Lost(dir)
      BY <2>2 DEF Lost
    <3>2. ~Free(p) => Past(r)
      BY <1>4, <1>6, <2>5, <3>1 DEF Known, Let
    <3> QED BY <1>1, <3>2
  <2> QED BY <1>6, <2>2, <2>3, <2>6 DEF Two
<1>7. OnlyAt(x) /\ \A D \in Inner : tree'[D][x] = IF D = dir THEN None ELSE tree[D][x]
  <2>1. OnlyAt(x)
    BY <1>2, OnlyThere
  <2> QED BY <1>2, <2>1, Renames, DeepFacts
<1>8. SameHome
  BY <1>7, NoteNamesStay
<1>9. /\ run'[r].named = run[r].named /\ run'[r].made = run[r].made /\ run'[r].silent = run[r].silent
      /\ \A q \in Runs : q # r => run'[q] = run[q]
  BY DEF Alters, RunFields
<1>10. Calmly
  <2>1. \A D \in Inner : ~Coming(r, D)'
    BY <1>2 DEF Coming, NameOf, IsDir
  <2>2. Calm(r)
    BY <1>1, <1>9, <2>1, SameDeep DEF Calm, Mints, Unmade, Walks
  <2> QED BY <1>9, <2>2, Idles DEF Calmly
<1>11. /\ ~Keeps(r, x)' /\ ~Clean(r, x)' /\ ~Clutches(r, x)' /\ Holding(r, x)'
  BY DEF Keeps, Clean, Clutches, Holding
<1>12. \A q \in Runs, y \in Deep : q # r \/ y # x => Quiet(q, y)
  <2>1. ASSUME NEW y \in Deep \ {x} PROVE Quiet(r, y)
    <3>1. ~(<<r, y>> \in run'[r].made /\ <<r, y>> \in run'[r].silent) /\ <<r, y>> # <<r, x>>
      BY <1>1, <1>9
    <3> QED BY <1>9, <3>1 DEF Quiet, Clutches, Keeps, Clean, Holding
  <2> QED BY <1>9, <2>1, Idles
<1>13. \A q \in Runs : q # r /\ q # p => SameNote(q, x)
  <2>1. ASSUME NEW q \in Runs, q # p PROVE m # <<q, x>> /\ <<q, x>> # None
    BY <1>2, <1>3, <2>1
  <2> QED BY <1>7, <2>1 DEF SameNote
<1>14. ASSUME NEW q \in Runs, q = p \/ q = r PROVE Known(q, x)'
  <2>1. Known(q, x)
    BY DEF DeepInv, Known
  <2>2. CASE q = p
    <3>1. \A D \in Inner : ~Holds(D, x, p)'
      BY <1>2, <1>4, <1>7 DEF Known, Alone, Holds
    <3>2. \A e \in aside' : e[2] = x /\ e[4] = <<p, x>> => e = e0
      BY <1>5
    <3>3. ~Keeps(p, x)' /\ ~Clutches(p, x)' /\ (Free(p)' \/ (e0[1] = p /\ Holding(p, x)' /\ run'[p].found = <<p, x>>)) /\ ~Clean(p, x)'
      <4>1. CASE p = r
        BY <1>3, <1>11, <4>1
      <4>2. CASE p # r
        <5>1. Free(p)' /\ ~Keeps(p, x)' /\ ~Clutches(p, x)' /\ ~Clean(p, x)'
          BY <1>6, <1>9, <4>2 DEF Free, Keeps, Clutches, Clean
        <5> QED BY <5>1
      <4> QED BY <4>1, <4>2
    <3> HIDE DEF e0
    <3>4. Alone(p, x)'
      BY <3>1, <3>2, <3>3 DEF Alone
    <3> QED BY <2>2, <3>1, <3>3, <3>4 DEF Known, Kept, Let
  <2>3. CASE q = r /\ p # r
    <3>1. <<p, x>> # <<r, x>>
      BY <2>3
    <3>2. \A D \in Inner : Holds(D, x, r)' <=> Holds(D, x, r)
      BY <1>2, <1>3, <1>7, <3>1 DEF Holds
    <3>3. \A e \in aside' : ~(e[2] = x /\ e[4] = <<r, x>>)
      BY <1>1, <1>3, <3>1
    <3>4. Alone(r, x)'
      <4>1. \A D, E \in Inner : Holds(D, x, r)' /\ Holds(E, x, r)' => D = E
        BY <2>1, <2>3, <3>2 DEF Known, Alone
      <4> QED BY <1>11, <3>3, <4>1 DEF Alone
    <3>5. \A D \in Inner : Holds(D, x, r)' => Lost(D)'
      <4>1. \A D \in Inner : Holds(D, x, r)' => D # Sub'
        BY <1>6, <1>8, <2>3, <3>2 DEF SameHome
      <4>2. \A D \in Inner, w \in Runs : ~Coming(w, D)'
        <5>1. \A D \in Inner : ~Coming(r, D)'
          BY <1>2 DEF Coming, NameOf, IsDir
        <5>2. \A D \in Inner : ~Coming(p, D)'
          BY <1>6, <1>9, <2>3 DEF Coming, Free
        <5> QED BY <1>6, <2>3, <5>1, <5>2
      <4> QED BY <4>1, <4>2 DEF Lost
    <3> QED BY <1>11, <2>3, <3>4, <3>5 DEF Known, Kept, Let
  <2> QED BY <1>14, <2>2, <2>3
<1>15. ASSUME NEW q \in Runs PROVE Known(q, x)'
  <2>1. Known(q, x)
    BY DEF DeepInv, Known
  <2>2. CASE q # r /\ q # p
    BY <1>8, <1>10, <1>12, <1>13, <2>1, <2>2, KnownStays
  <2> QED BY <1>14, <2>2
<1>16. \A D \in Inner : /\ tree'[D][x] = None \/ \E q \in Runs : Holds(D, x, q)'
                        /\ tree'[D][x] # None \/ (\E e \in aside' : e[2] = x /\ e[3] = D) => Used(D)
  <2>1. \A D \in Inner : tree[D][x] = None \/ \E q \in Runs : Holds(D, x, q)
    BY DEF DeepInv, OnlyNotes
  <2>2. \A D \in Inner : tree[D][x] # None \/ (\E e \in aside : e[2] = x /\ e[3] = D) => Used(D)
    BY DEF DeepInv, Entered
  <2>3. \A e \in aside' : e \in aside \/ e[3] = dir
    OBVIOUS
  <2> QED BY <1>2, <1>7, <2>1, <2>2, <2>3 DEF Holds
<1>17. \A e \in aside' : e[2] = x => \E q \in Runs : e[4] = <<q, x>>
  BY <1>3 DEF DeepInv, OnlyNotes
<1> HIDE DEF e0
<1> QED BY <1>7, <1>10, <1>12, <1>15, <1>16, <1>17, NoteMoves

\* It is done with what it took aside: its own note, or that of a run that may leave it, which
\* goes back unless the name is taken.
LEMMA DeepSettleNote ==
    ASSUME Inv, DeepInv, "undo" \notin env.faults, NEW r \in Runs, Settle(r), NEW x \in Deep, run[r].target = <<r, x>>
    PROVE  DeepInv'
<1>1. PICK dir, m : dir = run[r].held /\ m = run[r].found
  OBVIOUS
<1> DEFINE e0 == <<r, x, dir, m>>
<1>2. /\ x \in NestedNotes /\ x \in Filed /\ x # "sub" /\ NameOf(<<r, x>>) = x /\ Shape /\ ~IsDir(<<r, x>>)
      /\ None \notin Inner /\ \A q \in Runs : <<q, x>> # None
  BY DeepFacts, NoteNames DEF Inv
<1>3. /\ UNCHANGED <<env, fresh>> /\ run[r].pc = "settle" /\ <<r, x>> \in run[r].made
      /\ dir \in Containers /\ x \in Entries(dir) /\ m \in Objects /\ Taken(r) \in aside
  BY <1>1, <1>2, SettleSteps
<1>4. Taken(r) = e0 /\ e0 \in aside /\ e0[2] = x /\ e0[3] = dir /\ e0[4] = m
  BY <1>1, <1>2, <1>3 DEF Taken
<1>5. dir \in Inner
  <2>1. x \notin Plain
    BY DeepFacts
  <2> QED BY <1>3, <2>1, Facts
<1>6. Used(dir)
  BY <1>4, <1>5 DEF DeepInv, Entered
<1>7. PICK p \in Runs : m = <<p, x>>
  BY <1>4 DEF DeepInv, OnlyNotes
<1>8. /\ \A D \in Inner : ~Holds(D, x, p)
      /\ \A f \in aside : f[2] = x /\ f[4] = <<p, x>> => f = e0
      /\ Free(p) \/ p = r
  <2>1. Alone(p, x) /\ e0[1] = r
    BY DEF DeepInv
  <2>2. e0[2] = x /\ e0[4] = <<p, x>>
    BY <1>4, <1>7
  <2> HIDE DEF e0
  <2> QED BY <1>4, <2>1, <2>2 DEF Alone
<1>9. \/ p = r /\ tree' = tree /\ aside' = aside \ {e0} /\ TakesBack(r, <<r, x>>, {})
      \/ p # r /\ tree[dir][x] = None /\ tree' = With(dir, x, m) /\ aside' = aside \ {e0} /\ TakesBack(r, <<r, x>>, {})
      \/ p # r /\ UNCHANGED <<tree, aside>> /\ TakesBack(r, <<r, x>>, {m, <<r, x>>})
  <2>1. Removable(<<r, x>>, m) <=> m = <<r, x>>
    BY <1>2 DEF Removable
  <2>2. m = <<r, x>> <=> p = r
    BY <1>7
  <2> DEFINE o == run[r].target
             n == NameOf(o)
             d == run[r].held
             found == run[r].found
  <2>3. \/ Removable(o, found) /\ tree' = tree /\ aside' = aside \ {Taken(r)} /\ TakesBack(r, o, {})
        \/ /\ ~Removable(o, found)
           /\ \/ tree[d][n] = None /\ tree' = With(d, n, found) /\ aside' = aside \ {Taken(r)} /\ TakesBack(r, o, {})
              \/ UNCHANGED <<tree, aside>> /\ TakesBack(r, o, {found, o})
    BY SettleSteps
  <2>4. o = <<r, x>> /\ n = x /\ d = dir /\ found = m
    BY <1>1, <1>2
  <2> HIDE DEF o, n, d, found, e0
  <2> QED BY <1>4, <2>1, <2>2, <2>3, <2>4
<1>10. PICK objects : TakesBack(r, <<r, x>>, objects)
  BY <1>9
<1>11. OnlyAt(x) /\ SameHome
  <2>1. OnlyAt(x)
    BY <1>2, SettleSteady
  <2> QED BY <2>1, NoteNamesStay
<1>12. /\ run'[r].pc \in {"done", "undo"} /\ run[r].named \subseteq run'[r].named /\ run'[r].held = run[r].held
       /\ run'[r].made = run[r].made \ {<<r, x>>} /\ run'[r].silent = run[r].silent
       /\ \A q \in Runs : q # r => run'[q] = run[q]
  BY <1>10 DEF TakesBack, Alters, RunFields
<1>13. Calmly
  <2>1. ~Past(r) /\ ~Free(r)
    BY <1>3 DEF Past, Free
  <2>2. Mints(r)' => Mints(r)
    BY <1>3, <1>12, SameDeep DEF Mints
  <2>3. Calm(r)
    BY <1>12, <2>1, <2>2 DEF Calm, Unmade, Coming, Walks
  <2> QED BY <1>3, <1>12, <2>3, Idles DEF Calmly
<1>14. /\ ~Keeps(r, x) /\ ~Keeps(r, x)' /\ ~Clutches(r, x)' /\ ~Clean(r, x)'
       /\ \A D \in Inner : tree'[D][x] # tree[D][x] => D = dir /\ tree'[D][x] = m /\ tree[D][x] = None /\ p # r /\ e0 \notin aside'
       /\ aside' \subseteq aside /\ (p = r => e0 \notin aside')
       /\ \A e \in aside : e \in aside' \/ e = e0
  <2>1. ~Keeps(r, x) /\ ~Keeps(r, x)' /\ ~Clutches(r, x)' /\ ~Clean(r, x)'
    BY <1>3, <1>12 DEF Keeps, Clutches, Clean
  <2>2. tree' = With(dir, x, m) => \A D \in Inner : tree'[D][x] = IF D = dir THEN m ELSE tree[D][x]
    BY <1>2, <1>3, Renames, DeepFacts
  <2> HIDE DEF e0
  <2> QED BY <1>9, <2>1, <2>2
<1>15. \A q \in Runs, y \in Deep : q # r \/ y # x => Quiet(q, y)
  <2>1. ASSUME NEW y \in Deep \ {x} PROVE Quiet(r, y)
    <3>1. Steady(r, y) /\ ~Holding(r, y)
      BY <1>3, <1>10, <2>1, SteadyTakes, DeepFacts DEF Holding
    <3> QED BY <1>3, <1>12, <3>1 DEF Quiet, Steady, Clutches, Clean
  <2> QED BY <1>3, <1>12, <2>1, Idles
<1>16. ASSUME NEW q \in Runs, q # p PROVE SameNote(q, x)
  <2>1. <<q, x>> # <<p, x>> /\ <<q, x>> # None /\ e0[4] # <<q, x>>
    BY <1>2, <1>4, <1>7, <1>16
  <2> HIDE DEF e0
  <2> QED BY <1>7, <1>14, <2>1 DEF SameNote
<1>17. Known(p, x)'
  <2>1. \A D, E \in Inner : Holds(D, x, p)' /\ Holds(E, x, p)' => D = E
    BY <1>8, <1>14 DEF Holds
  <2>2. CASE p = r
    <3>1. \A D \in Inner : ~Holds(D, x, p)'
      BY <1>8, <1>14, <2>2 DEF Holds
    <3>2. \A e \in aside' : ~(e[2] = x /\ e[4] = <<p, x>>)
      <4> HIDE DEF e0
      <4> QED BY <1>8, <1>14, <2>2
    <3> QED BY <1>14, <2>2, <3>1, <3>2 DEF Known, Alone, Kept, Let
  <2>3. CASE p # r
    <3>1. Free(p) /\ Free(p)' /\ ~Keeps(p, x)' /\ ~Clutches(p, x)' /\ ~Clean(p, x)'
      BY <1>8, <1>12, <2>3 DEF Free, Keeps, Clutches, Clean
    <3>2. ASSUME NEW e \in aside', e[2] = x, e[4] = <<p, x>>
          PROVE  /\ \A D \in Inner : ~Holds(D, x, p)'
                 /\ \A f \in aside' : f[2] = x /\ f[4] = <<p, x>> => f = e
      <4> HIDE DEF e0
      <4>1. e = e0 /\ e0 \in aside'
        BY <1>8, <1>14, <3>2
      <4> QED BY <1>8, <1>14, <4>1 DEF Holds
    <3>3. Alone(p, x)'
      BY <2>1, <3>1, <3>2 DEF Alone
    <3> QED BY <3>1, <3>3 DEF Known, Kept, Let
  <2> QED BY <2>2, <2>3
<1>18. ASSUME p # r PROVE Known(r, x)'
  <2>1. Known(r, x) /\ ~Free(r) /\ run[r].found # <<r, x>> /\ SameNote(r, x)
    <3>1. run[r].found # <<r, x>>
      BY <1>1, <1>7, <1>18
    <3> QED BY <1>3, <1>16, <1>18, <3>1 DEF DeepInv, Known, Free
  <2>2. \A e \in aside : ~(e[2] = x /\ e[4] = <<r, x>>)
    BY <2>1 DEF Known, Alone
  <2>3. Alone(r, x)'
    <3>1. \A e \in aside' : ~(e[2] = x /\ e[4] = <<r, x>>)
      BY <1>14, <2>2
    <3>2. \A D, E \in Inner : Holds(D, x, r)' /\ Holds(E, x, r)' => D = E
      BY <2>1 DEF Known, Alone, SameNote, Holds
    <3> QED BY <1>14, <3>1, <3>2 DEF Alone
  <2>4. \A D \in Inner : Let(r, x, D)'
    <3>1. \A D \in Inner : Lost(D) => D # Sub'
      BY <1>11 DEF Lost, SameHome
    <3> QED BY <1>13, <1>14, <2>1, <3>1, LetStays DEF Known
  <2> QED BY <1>14, <2>3, <2>4 DEF Known, Kept
<1>19. ASSUME NEW q \in Runs PROVE Known(q, x)'
  <2>1. CASE q # r /\ q # p
    <3>1. Known(q, x)
      BY DEF DeepInv, Known
    <3> QED BY <1>11, <1>13, <1>15, <1>16, <2>1, <3>1, KnownStays
  <2> QED BY <1>17, <1>18, <2>1
<1>20. \A D \in Inner : /\ tree'[D][x] = None \/ \E q \in Runs : Holds(D, x, q)'
                        /\ tree'[D][x] # None \/ (\E e \in aside' : e[2] = x /\ e[3] = D) => Used(D)
  <2>1. \A D \in Inner : tree[D][x] = None \/ \E q \in Runs : Holds(D, x, q)
    BY DEF DeepInv, OnlyNotes
  <2>2. \A D \in Inner : tree[D][x] # None \/ (\E e \in aside : e[2] = x /\ e[3] = D) => Used(D)
    BY DEF DeepInv, Entered
  <2> HIDE DEF e0
  <2> QED BY <1>6, <1>7, <1>14, <2>1, <2>2 DEF Holds
<1>21. \A e \in aside' : e[2] = x => \E q \in Runs : e[4] = <<q, x>>
  <2> HIDE DEF e0
  <2> QED BY <1>14 DEF DeepInv, OnlyNotes
<1> HIDE DEF e0
<1> QED BY <1>3, <1>11, <1>13, <1>15, <1>19, <1>20, <1>21, NoteMoves

-----------------------------------------------------------------------------
(* Every step.                                                             *)

\* A run takes back a note.
LEMMA DeepMoveNote ==
    ASSUME Inv, DeepInv, Two, "undo" \notin env.faults, NEW r \in Runs, NEW o \in Own \cup Dirs, MoveAside(r, o), NameOf(o) \in Deep
    PROVE  DeepInv'
<1>1. /\ UNCHANGED <<env, fresh>> /\ run[r].pc = "undo" /\ o \in Due(r) /\ o \in OwnFiles(r) \cup Inner
  BY MoveAsideSteps, Targets
<1>2. PICK x \in Deep : o = <<r, x>>
  <2>1. \A d \in Inner : NameOf(d) = "sub"
    BY Facts
  <2>2. o \notin Inner
    BY <2>1, DeepFacts
  <2> QED BY <1>1, <2>2, MadeFacts
<1>3. NameOf(o) = x
  BY <1>2, DeepFacts
<1> DEFINE dir == UndoDir(r, o)
           n == NameOf(o)
           m == tree[dir][n]
<1>4. \/ /\ dir \in Containers /\ n \in Entries(dir) /\ m # None
         /\ tree' = With(dir, n, None) /\ aside' = aside \cup {<<r, n, dir, m>>}
         /\ Alters(r, {"pc", "held", "target", "found"}) /\ run'[r].pc = "settle"
         /\ run'[r].held = dir /\ run'[r].target = o /\ run'[r].found = m
      \/ (dir = None \/ m = None) /\ UNCHANGED <<tree, aside>> /\ TakesBack(r, o, {o})
  BY MoveAsideSteps
<1>5. n = x /\ dir = UndoDir(r, <<r, x>>)
  BY <1>2, <1>3
<1>6. m = tree[dir][x]
  BY <1>5
<1> HIDE DEF n, m, dir
<1>7. CASE (dir = None \/ m = None) /\ UNCHANGED <<tree, aside>> /\ TakesBack(r, o, {o})
  BY <1>1, <1>2, <1>5, <1>6, <1>7, DeepMissNote
<1>8. CASE /\ dir \in Containers /\ n \in Entries(dir) /\ m # None
           /\ tree' = With(dir, n, None) /\ aside' = aside \cup {<<r, n, dir, m>>}
           /\ Alters(r, {"pc", "held", "target", "found"}) /\ run'[r].pc = "settle"
           /\ run'[r].held = dir /\ run'[r].target = o /\ run'[r].found = m
  <2>1. dir \in Inner
    <3>1. x \notin Plain
      BY DeepFacts
    <3> QED BY <1>5, <1>8, <3>1, Facts
  <2> QED BY <1>1, <1>2, <1>5, <1>6, <1>8, <2>1, DeepFindNote
<1> QED BY <1>4, <1>7, <1>8

LEMMA DeepStep ==
    ASSUME Inv, DeepInv, Two, "undo" \notin env.faults, NEW r \in Runs, Step(r) \/ Die(r)
    PROVE  DeepInv'
<1>1. ASSUME NEW x \in NestedNotes, MakeSub(r, x) PROVE DeepInv'
  <2>1. CASE tree[Root]["sub"] = None
    BY <1>1, <2>1, DeepMakeSub
  <2>2. CASE tree[Root]["sub"] # None
    BY <1>1, <2>2, DeepEarly
  <2> QED BY <2>1, <2>2
<1>2. CASE Create(r)
  <2>1. CASE run'[r].pc = "write" /\ run[r].cur \in Deep
    BY <1>2, <2>1, DeepCreate
  <2>2. CASE run'[r].pc # "write" \/ run[r].cur \notin Deep
    BY <1>2, <2>2, DeepCreateElsewhere
  <2> QED BY <2>1, <2>2
<1>3. ASSUME NEW o \in Own \cup Dirs, MoveAside(r, o) PROVE DeepInv'
  <2>1. CASE NameOf(o) \in Deep
    BY <1>3, <2>1, DeepMoveNote
  <2>2. CASE NameOf(o) = "sub" /\ ~UNCHANGED <<tree, aside>>
    BY <1>3, <2>2, DeepMoveSub
  <2>3. CASE NameOf(o) \notin Deep /\ (NameOf(o) = "sub" => UNCHANGED <<tree, aside>>)
    BY <1>3, <2>3, DeepMoveElsewhere
  <2>4. "sub" \notin Deep
    BY DeepFacts
  <2> QED BY <2>1, <2>2, <2>3, <2>4
<1>4. CASE Settle(r)
  <2>1. CASE NameOf(run[r].target) \in Deep
    <3>1. run[r].target \in OwnFiles(r) \cup Inner
      BY <1>4, SettleSteps, Targets
    <3>2. \A d \in Inner : NameOf(d) = "sub"
      BY Facts
    <3>3. run[r].target \notin Inner
      BY <2>1, <3>2, DeepFacts
    <3>4. PICK x \in Deep : run[r].target = <<r, x>>
      BY <2>1, <3>1, <3>3, MadeFacts
    <3> QED BY <1>4, <3>4, DeepSettleNote
  <2>2. CASE NameOf(run[r].target) = "sub" /\ ~UNCHANGED <<tree, aside>>
    BY <1>4, <2>2, DeepSettleSub
  <2>3. CASE NameOf(run[r].target) \notin Deep /\ (NameOf(run[r].target) = "sub" => UNCHANGED <<tree, aside>>)
    BY <1>4, <2>3, DeepSettleElsewhere
  <2>4. "sub" \notin Deep
    BY DeepFacts
  <2> QED BY <2>1, <2>2, <2>3, <2>4
<1>5. CASE Link(r)
  BY <1>5, DeepLink
<1>6. CASE Reopen(r) \/ RotateName(r) \/ VerifyRotated(r) \/ ReplaceCache(r)
  BY <1>6, DeepRotation
<1>7. CASE \/ Refuse(r) \/ Approve(r) \/ BeginSync(r) \/ BeginBackup(r) \/ BeginRotation(r) \/ Surveyed(r)
           \/ OpenSub(r) \/ Write(r) \/ Synced(r) \/ Archive(r) \/ Manifest(r) \/ Die(r)
           \/ (\E x \in Notes : Survey(r, x) \/ Recheck(r, x)) \/ (\E x \in TopNotes : StartTop(r, x))
  BY <1>7, DeepEarly
<1> QED BY <1>1, <1>2, <1>3, <1>4, <1>5, <1>6, <1>7 DEF Step

LEMMA InitDeep == Init => DeepInv
<1> SUFFICES ASSUME Init PROVE DeepInv
  OBVIOUS
<1>1. /\ \A r \in Runs : run[r] = Idle
      /\ \A d \in Containers : \A x \in Entries(d) : tree[d][x] = IF d = Root /\ x = "cache" THEN env.cache ELSE None
      /\ env.cache \in Dirs /\ aside = {} /\ fresh = (Dirs \cup Files) \ {env.cache}
  BY ConstantsAssumption DEF Init
<1>2. /\ Sub = None /\ tree[Root]["cache"] = env.cache /\ None \notin Inner
      /\ \A D \in Inner, x \in Deep : tree[D][x] = None
      /\ \A d \in Containers : \A y \in Entries(d) \ {"sub", "cache"} : tree[d][y] = None
  BY <1>1, DeepFacts DEF Sub
<1>3. \A r \in Runs, x \in Deep, D \in Inner : ~Holds(D, x, r)
  BY <1>2, DeepFacts DEF Holds
<1>4. \A r \in Runs : /\ \A x \in Deep : ~Keeps(r, x) /\ ~Clutches(r, x)
                      /\ \A D \in Inner : ~Walks(r, D) /\ ~Hidden(D)
                      /\ ~Mints(r)
  BY <1>1 DEF Keeps, Clutches, Walks, Hidden, Mints, Idle
<1>5. \A r \in Runs, x \in Deep : Alone(r, x) /\ Kept(r, x) /\ \A D \in Inner : Let(r, x, D)
  BY <1>1, <1>3, <1>4 DEF Alone, Kept, Let
<1>6. OnlyNotes /\ Kinds
  BY <1>1, <1>2 DEF OnlyNotes, Kinds
<1>7. Hiding
  BY <1>1, <1>4 DEF Hiding, Hidden
<1>8. \A D \in Inner : Entered(D)
  <2>1. \A D \in Inner : ~Hidden(D)
    BY <1>1 DEF Hidden
  <2>2. \A D \in Inner : AtCache(D) => D = env.cache
    BY <1>1, <1>2 DEF AtCache
  <2>3. \A D \in Inner, r \in Runs : ~Walks(r, D)
    BY <1>4
  <2> QED BY <1>1, <1>2, <2>1, <2>2, <2>3 DEF Entered
<1> QED BY <1>5, <1>6, <1>7, <1>8 DEF DeepInv

\* For two runs, where removing does not fail.
Nested == Two /\ "undo" \notin env.faults => DeepInv

LEMMA NextDeep == Inv /\ Nested /\ [Next]_vars => Nested'
<1> SUFFICES ASSUME Inv, Nested, [Next]_vars, Two, "undo" \notin env'.faults PROVE DeepInv'
  BY DEF Nested, Two
<1>1. env' = env
  <2>1. ASSUME NEW r \in Runs, Step(r) \/ Die(r) PROVE env' = env
    BY <2>1 DEF Step, Die, Refuse, Approve, BeginSync, Surveyed, OpenSub, Create, Write, Synced, Survey, Recheck,
       MakeSub, StartTop, BeginBackup, Archive, Manifest, Existing, Link, MoveAside, Settle,
       BeginRotation, Reopen, RotateName, VerifyRotated, ReplaceCache
  <2> QED BY <2>1 DEF Next, OutsideRemove, OutsidePut, vars
<1>2. DeepInv /\ "undo" \notin env.faults
  BY <1>1 DEF Nested
<1>3. CASE UNCHANGED vars
  <2>1. \A q \in Runs : run'[q] = run[q]
    BY <1>3 DEF vars
  <2>2. Calmly /\ \A q \in Runs, y \in Deep : Quiet(q, y)
    BY <1>1, <2>1, Idles DEF Calmly
  <2>3. SameNotes /\ Sub' = Sub /\ (\A D \in Inner : Hidden(D)' <=> Hidden(D)) /\ fresh' = fresh /\ Kinds'
        /\ \A D \in Inner : AtCache(D)' <=> AtCache(D)
    BY <1>2, <1>3 DEF vars, SameNotes, Sub, Hidden, AtCache, DeepInv, Kinds
  <2>4. \A D \in Inner : Entered(D)'
    BY <1>2, <2>2, <2>3, EnteredStays DEF DeepInv
  <2> QED BY <1>2, <2>2, <2>3, <2>4, NotesStay DEF Lost
<1> QED BY <1>2, <1>3, DeepStep, DeepOutside DEF Next

LEMMA DeepAlways == Spec => [](Inv /\ FailInv /\ Nested)
<1>1. Init => Nested
  BY InitDeep DEF Nested
<1> QED BY <1>1, NextDeep, FailAlways, PTL DEF Spec

\* No third run.
LEMMA AtMostTwo == ASSUME Cardinality(Runs) <= 2 PROVE Two
<1> SUFFICES ASSUME NEW p \in Runs, NEW q \in Runs, NEW r \in Runs, p # q, q # r, p # r PROVE FALSE
  BY DEF Two
<1>1. IsFiniteSet(Runs) /\ Cardinality(Runs) \in Nat
  BY ConstantsAssumption, FS_CardinalityType
<1> DEFINE A == Runs \ {p}
           B == A \ {q}
<1>2. IsFiniteSet(A) /\ Cardinality(A) = Cardinality(Runs) - 1
  BY <1>1, FS_RemoveElement
<1>3. IsFiniteSet(B) /\ Cardinality(B) = Cardinality(A) - 1 /\ q \in A
  BY <1>2, FS_RemoveElement
<1>4. Cardinality(B) \in Nat /\ Cardinality(B) # 0
  BY <1>3, FS_CardinalityType, FS_EmptySet
<1> QED BY <1>1, <1>2, <1>3, <1>4

LEMMA NothingNested ==
    ASSUME Inv, DeepInv, NEW r \in Runs, run[r].pc = "done", run[r].status = "error"
    PROVE  LeftBehind(r, NestedNotes) = {}
<1> SUFFICES ASSUME NEW x \in NestedNotes \ env.touched, At(x) = <<r, x>>, <<r, x>> \notin run[r].named PROVE FALSE
  BY DEF LeftBehind
<1>1. x \in Deep /\ x \notin Plain /\ <<r, x>> # None
  BY DeepFacts DEF Deep
<1>2. Sub \in Inner /\ Home(x) = Sub
  <2>1. Home(x) # None
    BY <1>1 DEF At
  <2> QED BY <1>1, <2>1, SubFacts DEF Home
<1>3. Holds(Sub, x, r)
  BY <1>1, <1>2 DEF At, Holds
<1>4. Let(r, x, Sub) /\ ~Lost(Sub)
  BY <1>1, <1>2 DEF DeepInv, Lost
<1>5. ~Keeps(r, x) /\ ~Free(r)
  BY DEF Keeps, Free
<1> QED BY <1>3, <1>4, <1>5 DEF Let

\* A run that ends in an error leaves nothing it made behind unreported, unless removing fails,
\* under names that no outsider touches: in the directory the action works in, and, of two runs,
\* in the subdirectory they share, even where each takes it aside under the other (_rollback,
\* remove_fd_if_same and the install_new_file that undoes itself).
THEOREM FailureLeavesNothingAlways == Spec => []FailureLeavesNothing
<1>1. Inv /\ FailInv /\ Nested => FailureLeavesNothing
  <2> SUFFICES ASSUME Inv, FailInv, Nested, NEW r \in Runs, run[r].pc = "done", run[r].status = "error",
                      "undo" \notin env.faults
               PROVE  /\ LeftBehind(r, Plain) = {}
                      /\ Cardinality(Runs) <= 2 => LeftBehind(r, NestedNotes) = {}
    BY DEF FailureLeavesNothing
  <2>1. LeftBehind(r, Plain) = {}
    BY NothingPlain
  <2>2. ASSUME Cardinality(Runs) <= 2 PROVE LeftBehind(r, NestedNotes) = {}
    <3>1. DeepInv
      BY <2>2, AtMostTwo DEF Nested
    <3> QED BY <3>1, NothingNested
  <2> QED BY <2>1, <2>2
<1> QED BY <1>1, DeepAlways, PTL
=============================================================================
