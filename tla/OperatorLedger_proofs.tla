----------------------- MODULE OperatorLedger_proofs -----------------------
(***************************************************************************)
(* Theorems about OperatorLedger, for any number of sessions, projects,    *)
(* backups and hand edits: the order of the Now list, drafts and           *)
(* revisions, what a commit keeps, and the undo backup of a restore.       *)
(***************************************************************************)
EXTENDS OperatorLedger, FiniteSetTheorems, SequenceTheorems, TLAPS

Payloads == UNION {[D -> [location : Locations, fields : Fields]] : D \in SUBSET Projects}

\* NowDense of a document, and of what a backup would restore.
Dense(doc) ==
    /\ {doc[p].op.order : p \in Now(doc)} = 1 .. Cardinality(Now(doc))
    /\ Cardinality(Now(doc)) <= NowLimit

Chosen(backup) == {p \in DOMAIN backup : backup[p].fields.attention = "now"}

DenseBackup(backup) ==
    /\ {backup[p].fields.order : p \in Chosen(backup)} = 1 .. Cardinality(Chosen(backup))
    /\ Cardinality(Chosen(backup)) <= NowLimit

\* What any commit keeps, and the revisions that tell of what it does not.
Follows(old, new) ==
    \A p \in Known(old) :
        /\ p \in Known(new)
        /\ new[p].location = old[p].location
        /\ new[p].authored >= old[p].authored
        /\ new[p].revision >= old[p].revision
        /\ new[p].op # old[p].op => new[p].revision > old[p].revision

\* The same without the edits that no operator owns.
Kept(old, new) ==
    \A p \in Known(old) :
        /\ p \in Known(new)
        /\ new[p].location = old[p].location
        /\ new[p].revision >= old[p].revision
        /\ new[p].op # old[p].op => new[p].revision > old[p].revision

\* What hand edits make of a ledger.
Grown(old, new) ==
    /\ Known(new) = Known(old)
    /\ \A p \in Known(old) :
          /\ new[p].op = old[p].op /\ new[p].revision = old[p].revision
          /\ new[p].location = old[p].location /\ new[p].authored >= old[p].authored

\* Where a commit leaves the document under the ledger's name and the one it took from there.
Placed ==
    /\ ledger = None => aside # None
    /\ stage = "exchanged" => ledger # None
    /\ stage # "none" => aside # None /\ holder # None /\ pc[holder] \in Committing
    /\ stage = "none" /\ ledger # None => aside = None

\* What a call is about to commit, and all that may have happened since it read the ledger.
Prepared(s) ==
    pc[s] \in Committing =>
        /\ snapshot[s] \in Ledgers /\ candidate[s] \in Ledgers
        /\ Dense(candidate[s]) /\ Follows(snapshot[s], candidate[s])
        /\ Grown(snapshot[s], Standing)
        /\ stage = "exchanged" => Grown(candidate[s], ledger)

\* A save that was given a draft compared its revision.
Compared(s) ==
    pc[s] = "updating" /\ draft[s] # None =>
        /\ draft[s].project \in Known(snapshot[s])
        /\ draft[s].revision = snapshot[s][draft[s].project].revision

\* The undo backup of a restore that is about to be committed.
Undoable(s) ==
    pc[s] = "restoring" =>
        /\ Valid(snapshot[s]) /\ Known(candidate[s]) = Known(snapshot[s])
        /\ Len(backups) > 0 /\ backups[Len(backups)] = Payload(snapshot[s])

\* A draft is of a record that has the same fields until its revision grows, unless it was
\* made of a candidate.
CurrentIn(d, doc) ==
    d # None /\ d.settled =>
        LET p == d.project IN
        /\ p \in Known(doc) /\ d.revision <= doc[p].revision
        /\ d.revision = doc[p].revision => d.op = doc[p].op

\* Every backup is one that a restore may bring back.
Backed ==
    /\ backups \in Seq(Payloads) /\ Len(backups) <= MaxBackups
    /\ \A i \in DOMAIN backups : DenseBackup(backups[i])

LedgerInv ==
    /\ TypeOK /\ Backed /\ Placed
    /\ ledger # None => Dense(ledger)
    /\ aside # None => Dense(aside)
    /\ \A s \in Sessions : /\ pc[s] # "idle" => holder = s
                           /\ Prepared(s) /\ Compared(s) /\ Undoable(s)
                           /\ CurrentIn(draft[s], Standing)

-----------------------------------------------------------------------------
(* Null is no row.                                                         *)

LEMMA NoRow == None \notin Rows
<1>1. Rows \subseteq [op : Fields, revision : Nat, location : Locations, authored : Nat]
  BY ConstantsAssumption DEF Rows
<1> QED BY <1>1, NullAssumption

-----------------------------------------------------------------------------
(* Counting.                                                               *)

\* A set that a function maps one to one has as many elements as its image.
LEMMA Images ==
    ASSUME NEW S, IsFiniteSet(S), NEW T, NEW f, DOMAIN f = S, \A x \in S : f[x] \in T,
           \A y \in T : \E x \in S : f[x] = y, \A x, y \in S : f[x] = f[y] => x = y,
           f = [x \in S |-> f[x]]
    PROVE  IsFiniteSet(T) /\ Cardinality(T) = Cardinality(S)
<1>1. f \in [S -> T]
  OBVIOUS
<1>2. f \in Bijection(S, T)
  BY <1>1 DEF Bijection, Injection, Surjection, IsInjective
<1> QED BY <1>2, FS_Bijection DEF ExistsBijection

\* An interval without one number.
LEMMA Holed ==
    ASSUME NEW k \in Nat, NEW m \in Nat \ {0}
    PROVE  /\ IsFiniteSet((1 .. k) \ {m})
           /\ Cardinality((1 .. k) \ {m}) = IF m <= k THEN k - 1 ELSE k
<1>1. IsFiniteSet(1 .. k) /\ Cardinality(1 .. k) = k
  BY FS_Interval
<1>2. m \in 1 .. k <=> m <= k
  OBVIOUS
<1> QED BY <1>1, <1>2, FS_RemoveElement

-----------------------------------------------------------------------------
(* Renumbering.  Without one project, the positions of the others are the  *)
(* numbers up to n but its own; their ranks close the gap.                 *)

Others(doc, p) == Now(doc) \ {p}

Rank(doc, p, q) == Cardinality({r \in Others(doc, p) : doc[r].op.order <= doc[q].op.order})

\* Every number from 1 to k once.
Counts(S, k, f) ==
    /\ \A q \in S : f[q] \in 1 .. k
    /\ \A q, r \in S : f[q] = f[r] => q = r
    /\ \A j \in 1 .. k : \E q \in S : f[q] = j

LEMMA Finite == ASSUME NEW doc PROVE IsFiniteSet(Now(doc)) /\ Cardinality(Now(doc)) \in Nat
<1>1. Now(doc) \subseteq Projects
  BY DEF Now, Known
<1> QED BY <1>1, FS_Subset, FS_CardinalityType, ConstantsAssumption

LEMMA Ranks ==
    ASSUME NEW doc \in Ledgers, Dense(doc), Valid(doc), NEW p
    PROVE  /\ IsFiniteSet(Others(doc, p)) /\ Cardinality(Others(doc, p)) \in Nat
           /\ Counts(Others(doc, p), Cardinality(Others(doc, p)), [q \in Others(doc, p) |-> Rank(doc, p, q)])
<1> DEFINE n == Cardinality(Now(doc))
           S == Others(doc, p)
           at == [q \in Now(doc) |-> doc[q].op.order]
           m == IF p \in Now(doc) THEN at[p] ELSE n + 1
           rank == [q \in S |-> Rank(doc, p, q)]
<1>1. n \in Nat /\ IsFiniteSet(Now(doc)) /\ IsFiniteSet(S) /\ S = Now(doc) \ {p}
  BY Finite, FS_RemoveElement DEF Others
<1>2. Counts(Now(doc), n, at)
  <2>1. {at[q] : q \in Now(doc)} = 1 .. n
    BY DEF Dense
  <2>2. \A q, r \in Now(doc) : q # r => at[q] # at[r]
    BY DEF Valid, Now
  <2> HIDE DEF at, n
  <2> QED BY <2>1, <2>2 DEF Counts
<1>3. m \in 1 .. n + 1 /\ (p \notin Now(doc) => m = n + 1) /\ (p \in Now(doc) => m = at[p])
  BY <1>1, <1>2 DEF Counts
<1>4. Cardinality(S) = IF m <= n THEN n - 1 ELSE n
  <2>1. p \in Now(doc) <=> m <= n
    BY <1>1, <1>2, <1>3 DEF Counts
  <2> QED BY <1>1, <2>1, FS_RemoveElement
<1>5. ASSUME NEW q \in S PROVE rank[q] = IF at[q] < m THEN at[q] ELSE at[q] - 1
  <2> DEFINE k == at[q]
             T == {r \in S : at[r] <= k}
             g == [r \in T |-> at[r]]
  <2>1. k \in 1 .. n
    BY <1>1, <1>2 DEF Counts
  <2>2. rank[q] = Cardinality(T)
    <3>1. {r \in Others(doc, p) : doc[r].op.order <= doc[q].op.order} = T
      BY <1>1
    <3> QED BY <3>1 DEF Rank
  <2>3. /\ \A r \in T : g[r] \in (1 .. k) \ {m}
        /\ \A j \in (1 .. k) \ {m} : \E r \in T : g[r] = j
        /\ \A r, u \in T : g[r] = g[u] => r = u
    <3> HIDE DEF at, m, n
    <3>1. ASSUME NEW r \in T PROVE g[r] \in (1 .. k) \ {m}
      BY <1>1, <1>2, <1>3, <2>1 DEF Counts
    <3>2. ASSUME NEW j \in (1 .. k) \ {m} PROVE \E r \in T : g[r] = j
      <4>1. PICK r \in Now(doc) : at[r] = j
        BY <1>1, <1>2, <2>1, <3>2 DEF Counts
      <4>2. r \in T
        BY <1>1, <1>3, <2>1, <4>1
      <4> QED BY <4>1, <4>2
    <3> QED BY <1>1, <1>2, <3>1, <3>2 DEF Counts
  <2>4. IsFiniteSet(T)
    BY <1>1, FS_Subset
  <2> HIDE DEF g, T, k, m, rank
  <2>5. Cardinality((1 .. k) \ {m}) = Cardinality(T)
    <3>1. g = [r \in T |-> g[r]] /\ DOMAIN g = T
      BY DEF g
    <3> QED BY <2>3, <2>4, <3>1, Images
  <2>6. Cardinality((1 .. k) \ {m}) = IF m <= k THEN k - 1 ELSE k
    <3>1. k \in Nat /\ m \in Nat \ {0}
      BY <1>1, <1>3, <2>1
    <3> QED BY <3>1, Holed
  <2>7. k # m
    BY <1>1, <1>2, <1>3, <2>1 DEF Counts, k
  <2> QED BY <1>1, <1>3, <2>1, <2>2, <2>5, <2>6, <2>7 DEF k
<1> HIDE DEF rank, m, at, n
<1>6. \A q \in S : at[q] \in 1 .. n /\ at[q] # m
  BY <1>1, <1>2, <1>3 DEF Counts
<1>7. Cardinality(S) \in Nat
  BY <1>1, FS_CardinalityType
<1>8. ASSUME NEW q \in S PROVE rank[q] \in 1 .. Cardinality(S)
  BY <1>1, <1>3, <1>4, <1>5, <1>6
<1>9. ASSUME NEW q \in S, NEW r \in S, rank[q] = rank[r] PROVE q = r
  <2>1. at[q] = at[r]
    BY <1>1, <1>3, <1>5, <1>6, <1>9
  <2> QED BY <1>1, <1>2, <2>1 DEF Counts
<1>10. ASSUME NEW j \in 1 .. Cardinality(S) PROVE \E q \in S : rank[q] = j
  <2> DEFINE i == IF j < m THEN j ELSE j + 1
  <2>1. i \in 1 .. n /\ i # m
    BY <1>1, <1>3, <1>4
  <2>2. PICK q \in Now(doc) : at[q] = i
    BY <1>2, <2>1 DEF Counts
  <2>3. q \in S
    BY <1>1, <1>3, <2>1, <2>2
  <2> QED BY <1>1, <1>3, <1>5, <2>2, <2>3
<1> QED BY <1>1, <1>7, <1>8, <1>9, <1>10 DEF Counts, rank

-----------------------------------------------------------------------------
(* Rewriting the operator fields of a ledger.                              *)

LEMMA Bumped ==
    ASSUME NEW row \in Rows, NEW op \in Fields, row.revision < MaxRevision
    PROVE  LET new == Bump(row, op, TRUE) IN
           /\ new \in Rows /\ new.op = op
           /\ new.location = row.location /\ new.authored = row.authored
           /\ new.revision >= row.revision
           /\ op # row.op => new.revision > row.revision
<1> DEFINE revision == IF op # row.op THEN row.revision + 1 ELSE row.revision
           new == [row EXCEPT !.op = op, !.revision = revision]
<1>1. Bump(row, op, TRUE) = new
  BY DEF Bump
<1>2. row.revision \in 0 .. MaxRevision /\ MaxRevision \in Nat /\ row.authored \in Nat
  BY ConstantsAssumption DEF Rows
<1>3. revision \in 0 .. MaxRevision /\ revision >= row.revision /\ (op # row.op => revision > row.revision)
  BY <1>2
<1> HIDE DEF revision
<1>4. /\ new \in Rows /\ new.op = op /\ new.revision = revision
      /\ new.location = row.location /\ new.authored = row.authored
  BY <1>3 DEF Rows
<1> QED BY <1>1, <1>3, <1>4

\* Every record with the fields that a table gives it.
Rewritten(doc, ops) ==
    [q \in Projects |-> IF q \in Known(doc) THEN Bump(doc[q], ops[q], TRUE) ELSE None]

LEMMA Rewrites ==
    ASSUME NEW doc \in Ledgers, NEW ops, \A q \in Known(doc) : ops[q] \in Fields /\ doc[q].revision < MaxRevision
    PROVE  LET new == Rewritten(doc, ops) IN
           /\ new \in Ledgers /\ Known(new) = Known(doc) /\ Follows(doc, new)
           /\ \A q \in Known(doc) : new[q].op = ops[q] /\ new[q].location = doc[q].location
<1> DEFINE new == Rewritten(doc, ops)
<1>1. ASSUME NEW q \in Known(doc)
      PROVE  /\ new[q] \in Rows /\ new[q].op = ops[q] /\ new[q].location = doc[q].location
             /\ new[q].authored = doc[q].authored /\ new[q].revision >= doc[q].revision
             /\ new[q].op # doc[q].op => new[q].revision > doc[q].revision
  <2>1. doc[q] \in Rows /\ ops[q] \in Fields /\ doc[q].revision < MaxRevision
    BY DEF Ledgers, Known
  <2>2. new[q] = Bump(doc[q], ops[q], TRUE)
    BY DEF Known, Rewritten
  <2>3. LET bumped == Bump(doc[q], ops[q], TRUE) IN
        /\ bumped \in Rows /\ bumped.op = ops[q] /\ bumped.location = doc[q].location
        /\ bumped.authored = doc[q].authored /\ bumped.revision >= doc[q].revision
        /\ ops[q] # doc[q].op => bumped.revision > doc[q].revision
    BY <2>1, Bumped
  <2> HIDE DEF new
  <2> QED BY <2>2, <2>3
<1>2. \A q \in Projects \ Known(doc) : new[q] = None
  BY DEF Rewritten
<1>3. new \in Ledgers /\ Known(new) = Known(doc)
  <2>1. DOMAIN new = Projects /\ new = [q \in Projects |-> new[q]]
    BY DEF Rewritten
  <2> HIDE DEF new
  <2>2. \A q \in Projects : new[q] \in Rows \cup {None} /\ (new[q] # None <=> q \in Known(doc))
    BY <1>1, <1>2, NoRow
  <2> QED BY <2>1, <2>2 DEF Ledgers, Known
<1>4. Follows(doc, new)
  <2>1. \A q \in Known(doc) : doc[q].authored \in Nat
    BY ConstantsAssumption DEF Ledgers, Known, Rows
  <2> HIDE DEF new
  <2> QED BY <1>1, <1>3, <2>1 DEF Follows
<1> QED BY <1>1, <1>3, <1>4

\* The fields update_project gives a record.
Ops(doc, p, attention, order, text) ==
    LET position == Position(doc, p, Others(doc, p), order)
        rank(q) == Rank(doc, p, q)
        moved(q) == IF attention = "now" /\ rank(q) >= position THEN rank(q) + 1 ELSE rank(q)
    IN [q \in Known(doc) |->
           IF q = p THEN [attention |-> attention, text |-> text, order |-> IF attention = "now" THEN position ELSE 0]
           ELSE IF q \in Now(doc) THEN [doc[q].op EXCEPT !.order = moved(q)]
           ELSE doc[q].op]

LEMMA EditedRewrites ==
    ASSUME NEW doc \in Ledgers, NEW p, NEW attention, NEW order, NEW text
    PROVE  Edited(doc, p, attention, order, text) = Rewritten(doc, Ops(doc, p, attention, order, text))
<1> DEFINE new == Edited(doc, p, attention, order, text)
           ops == Ops(doc, p, attention, order, text)
           old == Rewritten(doc, ops)
<1>1. ASSUME NEW q \in Projects PROVE new[q] = old[q]
  <2>1. CASE q \notin Known(doc)
    BY <2>1 DEF Edited, Rewritten
  <2>2. CASE q \in Known(doc) /\ q = p
    BY <2>2 DEF Edited, Rewritten, Ops, Bump, Others, Rank
  <2>3. CASE q \in Known(doc) /\ q # p /\ q \in Now(doc)
    BY <2>3 DEF Edited, Rewritten, Ops, Bump, Others, Rank
  <2>4. CASE q \in Known(doc) /\ q # p /\ q \notin Now(doc)
    BY <2>4 DEF Edited, Rewritten, Ops, Bump, Others, Rank
  <2> QED BY <2>1, <2>2, <2>3, <2>4
<1>2. new = [q \in Projects |-> new[q]] /\ old = [q \in Projects |-> old[q]]
  BY DEF Edited, Rewritten
<1> QED BY <1>1, <1>2

\* update_project keeps the order without gaps: the others close ranks and make room.
LEMMA Edits ==
    ASSUME NEW doc \in Ledgers, Dense(doc), Valid(doc), NEW p \in Known(doc),
           NEW attention \in Attention, NEW order \in 0 .. NowLimit, NEW text \in Texts \cup {None},
           Selectable(doc, p, attention, order), \A q \in Known(doc) : doc[q].revision < MaxRevision
    PROVE  LET new == Edited(doc, p, attention, order, text) IN
           new \in Ledgers /\ Dense(new) /\ Follows(doc, new)
<1> DEFINE S == Others(doc, p)
           k == Cardinality(S)
           position == Position(doc, p, S, order)
           rank == [q \in S |-> Rank(doc, p, q)]
           ops == Ops(doc, p, attention, order, text)
           new == Rewritten(doc, ops)
<1>1. /\ k \in Nat /\ IsFiniteSet(S) /\ Counts(S, k, rank)
      /\ S = Now(doc) \ {p} /\ Now(doc) \subseteq Known(doc)
  BY Ranks DEF Others, Now
<1>2. NowLimit \in Nat /\ k <= NowLimit /\ (attention = "now" => k < NowLimit /\ position \in 1 .. k + 1)
  <2>1. k <= Cardinality(Now(doc)) /\ Cardinality(Now(doc)) \in Nat
    BY <1>1, Finite, FS_Subset
  <2> QED BY <1>1, <2>1, ConstantsAssumption DEF Dense, Selectable, Others
<1>3. /\ ops[p] = [attention |-> attention, text |-> text, order |-> IF attention = "now" THEN position ELSE 0]
      /\ \A q \in S : ops[q] = [doc[q].op EXCEPT !.order = IF attention = "now" /\ rank[q] >= position
                                                          THEN rank[q] + 1 ELSE rank[q]]
      /\ \A q \in Known(doc) : q # p /\ q \notin S => ops[q] = doc[q].op
  BY <1>1 DEF Ops
<1>4. \A q \in Known(doc) : doc[q].op \in Fields /\ (doc[q].op.attention = "now" <=> q \in Now(doc))
  BY DEF Now, Known, Ledgers, Rows
<1> HIDE DEF rank, position, k, ops, S
<1>5. ASSUME NEW q \in Known(doc)
      PROVE  /\ ops[q] \in Fields
             /\ q \in S => ops[q].attention = "now" /\ ops[q].order = IF attention = "now" /\ rank[q] >= position
                                                                   THEN rank[q] + 1 ELSE rank[q]
             /\ q = p => ops[q].attention = attention /\ (attention = "now" => ops[q].order = position)
             /\ q # p /\ q \notin S => ops[q].attention # "now"
  <2>1. CASE q = p
    <3>1. (IF attention = "now" THEN position ELSE 0) \in 0 .. NowLimit
      BY <1>1, <1>2
    <3> QED BY <1>1, <1>3, <2>1, <3>1 DEF Fields
  <2>2. CASE q \in S
    <3> DEFINE moved == IF attention = "now" /\ rank[q] >= position THEN rank[q] + 1 ELSE rank[q]
    <3>1. moved \in 0 .. NowLimit
      BY <1>1, <1>2, <2>2 DEF Counts
    <3>2. ops[q] = [doc[q].op EXCEPT !.order = moved] /\ doc[q].op \in Fields /\ doc[q].op.attention = "now" /\ q # p
      BY <1>1, <1>3, <1>4, <2>2
    <3> HIDE DEF moved
    <3>3. ops[q] \in Fields /\ ops[q].attention = "now" /\ ops[q].order = moved
      BY <3>1, <3>2 DEF Fields
    <3> QED BY <2>2, <3>2, <3>3 DEF moved
  <2>3. CASE q # p /\ q \notin S
    BY <1>1, <1>3, <1>4, <2>3
  <2> QED BY <2>1, <2>2, <2>3
<1>6. new \in Ledgers /\ Known(new) = Known(doc) /\ Follows(doc, new) /\ \A q \in Known(doc) : new[q].op = ops[q]
  BY <1>5, Rewrites
<1> HIDE DEF new
<1>7. Dense(new)
  <2>1. CASE attention = "now"
    <3>1. Now(new) = S \cup {p} /\ p \notin S
      BY <1>1, <1>5, <1>6, <2>1 DEF Now
    <3>2. Cardinality(Now(new)) = k + 1
      BY <1>1, <3>1, FS_AddElement DEF k
    <3>3. ASSUME NEW q \in Now(new) PROVE new[q].op.order \in 1 .. k + 1
      BY <1>1, <1>2, <1>5, <1>6, <2>1, <3>1 DEF Counts
    <3>4. ASSUME NEW j \in 1 .. k + 1 PROVE \E q \in Now(new) : new[q].op.order = j
      <4>1. CASE j = position
        BY <1>5, <1>6, <2>1, <3>1, <4>1
      <4>2. CASE j # position
        <5> DEFINE i == IF j < position THEN j ELSE j - 1
        <5>1. i \in 1 .. k
          BY <1>1, <1>2, <2>1, <4>2
        <5>2. PICK q \in S : rank[q] = i
          BY <1>1, <5>1 DEF Counts
        <5>3. ops[q].order = j
          BY <1>1, <1>2, <1>5, <2>1, <4>2, <5>1, <5>2
        <5> QED BY <1>1, <1>6, <3>1, <5>3
      <4> QED BY <4>1, <4>2
    <3>5. {new[q].op.order : q \in Now(new)} = 1 .. k + 1
      BY <3>3, <3>4
    <3> QED BY <1>1, <1>2, <2>1, <3>2, <3>5 DEF Dense
  <2>2. CASE attention # "now"
    <3>1. Now(new) = S
      BY <1>1, <1>5, <1>6, <2>2 DEF Now
    <3>2. \A q \in S : new[q].op.order = rank[q]
      BY <1>1, <1>5, <1>6, <2>2
    <3>3. {new[q].op.order : q \in Now(new)} = 1 .. k
      BY <1>1, <3>1, <3>2 DEF Counts
    <3> QED BY <1>2, <3>1, <3>3 DEF Dense, k
  <2> QED BY <2>1, <2>2
<1> QED BY <1>6, <1>7, EditedRewrites DEF new, ops

-----------------------------------------------------------------------------
(* The other commits, and backups.                                         *)

LEMMA Connects ==
    ASSUME NEW doc \in Ledgers, Dense(doc), NEW p \in Projects \ Known(doc), NEW location \in Locations
    PROVE  LET new == [doc EXCEPT ![p] = Connected(location)] IN
           new \in Ledgers /\ Dense(new) /\ Follows(doc, new)
<1> DEFINE row == Connected(location)
           new == [doc EXCEPT ![p] = row]
<1>1. row \in Rows /\ row.op.attention # "now" /\ row # None
  <2>1. Fresh \in Fields /\ Fresh.attention # "now"
    BY ConstantsAssumption, NullAssumption DEF Fresh, Fields, Attention
  <2>2. row \in Rows /\ row.op = Fresh
    BY <2>1, ConstantsAssumption DEF Connected, Rows
  <2> QED BY <2>1, <2>2, NoRow
<1> HIDE DEF row
<1>2. new \in Ledgers /\ new[p] = row /\ \A q \in Projects : q # p => new[q] = doc[q]
  BY <1>1 DEF Ledgers
<1> HIDE DEF new
<1>3. Known(new) = Known(doc) \cup {p} /\ Now(new) = Now(doc)
  BY <1>1, <1>2 DEF Known, Now
<1>4. {new[q].op.order : q \in Now(new)} = {doc[q].op.order : q \in Now(doc)}
  BY <1>2, <1>3 DEF Now, Known
<1>5. Follows(doc, new)
  <2>1. \A q \in Known(doc) : doc[q].authored \in Nat /\ doc[q].revision \in Nat /\ new[q] = doc[q]
    BY <1>2, ConstantsAssumption DEF Ledgers, Known, Rows
  <2> QED BY <1>3, <2>1 DEF Follows
<1> QED BY <1>2, <1>3, <1>4, <1>5 DEF Dense, new, row

LEMMA Authors ==
    ASSUME NEW doc \in Ledgers, Dense(doc), NEW p \in Known(doc), CanAuthor(doc)
    PROVE  LET new == Authored(doc, p) IN
           new \in Ledgers /\ Dense(new) /\ Follows(doc, new) /\ Grown(doc, new)
<1> DEFINE row == [doc[p] EXCEPT !.authored = @ + 1]
           new == [doc EXCEPT ![p] = row]
<1>1. doc[p] \in Rows /\ p \in Projects /\ doc[p].authored < MaxAuthored
  BY DEF Known, Ledgers, CanAuthor
<1>2. /\ row \in Rows /\ row.op = doc[p].op /\ row.revision = doc[p].revision
      /\ row.location = doc[p].location /\ row.authored = doc[p].authored + 1
  <2>1. doc[p].authored + 1 \in 0 .. MaxAuthored
    BY <1>1, ConstantsAssumption DEF Rows
  <2> QED BY <1>1, <2>1 DEF Rows
<1>3. row # None
  BY <1>2, NoRow
<1> HIDE DEF row
<1>4. new \in Ledgers /\ new[p] = row /\ \A q \in Projects : q # p => new[q] = doc[q]
  BY <1>1, <1>2 DEF Ledgers
<1>5. new = Authored(doc, p)
  BY DEF row, Authored
<1> HIDE DEF new
<1>6. /\ Known(new) = Known(doc) /\ \A q \in Known(doc) : new[q].op = doc[q].op
      /\ Now(new) = Now(doc)
  BY <1>2, <1>3, <1>4 DEF Known, Now
<1>7. {new[q].op.order : q \in Now(new)} = {doc[q].op.order : q \in Now(doc)}
  BY <1>6 DEF Now
<1>8. Grown(doc, new) /\ Follows(doc, new)
  <2>1. \A q \in Known(doc) : doc[q].authored \in Nat /\ doc[q].revision \in Nat /\ q \in Projects
    BY ConstantsAssumption DEF Ledgers, Known, Rows
  <2>2. ASSUME NEW q \in Known(doc)
        PROVE  /\ new[q].op = doc[q].op /\ new[q].revision = doc[q].revision
               /\ new[q].location = doc[q].location /\ new[q].authored >= doc[q].authored
    BY <1>2, <1>4, <2>1
  <2> QED BY <1>6, <2>1, <2>2 DEF Grown, Follows
<1>9. Dense(new)
  BY <1>6, <1>7 DEF Dense
<1> QED BY <1>4, <1>5, <1>8, <1>9

LEMMA Restores ==
    ASSUME NEW doc \in Ledgers, NEW backup \in Payloads, DenseBackup(backup), Restorable(doc, backup),
           \A q \in Known(doc) : doc[q].revision < MaxRevision
    PROVE  LET new == Restored(doc, backup) IN
           new \in Ledgers /\ Dense(new) /\ Follows(doc, new) /\ Known(new) = Known(doc)
<1> DEFINE ops == [q \in Known(doc) |-> backup[q].fields]
           new == Rewritten(doc, ops)
<1>1. DOMAIN backup = Known(doc) /\ \A q \in Known(doc) : backup[q].fields \in Fields
  BY DEF Payloads, Restorable
<1>2. Restored(doc, backup) = new
  BY <1>1 DEF Restored, Rewritten, Known
<1>3. /\ new \in Ledgers /\ Known(new) = Known(doc) /\ Follows(doc, new)
      /\ \A q \in Known(doc) : new[q].op = backup[q].fields
  BY <1>1, Rewrites
<1> HIDE DEF new
<1>4. Now(new) = Chosen(backup)
  BY <1>1, <1>3 DEF Now, Chosen
<1>5. {new[q].op.order : q \in Now(new)} = {backup[q].fields.order : q \in Chosen(backup)}
  BY <1>1, <1>3, <1>4 DEF Chosen
<1> QED BY <1>2, <1>3, <1>4, <1>5 DEF Dense, DenseBackup

LEMMA Saves ==
    ASSUME NEW doc \in Ledgers, Dense(doc)
    PROVE  Payload(doc) \in Payloads /\ DenseBackup(Payload(doc))
<1> DEFINE backup == Payload(doc)
<1>1. /\ DOMAIN backup = Known(doc) /\ Known(doc) \subseteq Projects
      /\ \A q \in Known(doc) : backup[q].fields = doc[q].op /\ backup[q] \in [location : Locations, fields : Fields]
  BY DEF Payload, Known, Ledgers, Rows
<1>2. backup \in Payloads
  <2>1. backup = [q \in Known(doc) |-> backup[q]]
    BY DEF Payload
  <2> HIDE DEF backup
  <2>2. backup \in [Known(doc) -> [location : Locations, fields : Fields]]
    BY <1>1, <2>1
  <2> QED BY <1>1, <2>2 DEF Payloads
<1> HIDE DEF backup
<1>3. Chosen(backup) = Now(doc)
  BY <1>1 DEF Chosen, Now
<1>4. {backup[q].fields.order : q \in Chosen(backup)} = {doc[q].op.order : q \in Now(doc)}
  BY <1>1, <1>3 DEF Now
<1> QED BY <1>2, <1>3, <1>4 DEF Dense, DenseBackup, backup

\* What was saved of a ledger gives its fields back to any successor with the same projects.
LEMMA Undoes ==
    ASSUME NEW doc \in Ledgers, Valid(doc), NEW new \in Ledgers, Known(new) = Known(doc), Follows(doc, new)
    PROVE  LET undo == Restored(new, Payload(doc)) IN
           Restorable(new, Payload(doc)) /\ Valid(undo) /\ \A p \in Known(doc) : undo[p].op = doc[p].op
<1> DEFINE backup == Payload(doc)
           undo == Restored(new, backup)
<1>1. /\ DOMAIN backup = Known(doc)
      /\ \A q \in Known(doc) : backup[q].fields = doc[q].op /\ backup[q].location = doc[q].location
  BY DEF Payload
<1>2. Restorable(new, backup)
  BY <1>1 DEF Restorable, Follows
<1> HIDE DEF backup
<1>3. ASSUME NEW q \in Known(doc) PROVE undo[q].op = doc[q].op /\ undo[q].location = doc[q].location /\ undo[q] # None
  <2>1. undo[q] = Bump(new[q], doc[q].op, TRUE) /\ new[q] \in Rows /\ new[q].location = doc[q].location
    BY <1>1 DEF Restored, Known, Follows, Ledgers
  <2>2. undo[q] \in [op : Fields, revision : Nat, location : Locations, authored : Nat]
    <3>1. doc[q].op \in Fields /\ new[q] \in [op : Fields, revision : Nat, location : Locations, authored : Nat]
      BY <2>1, ConstantsAssumption DEF Ledgers, Known, Rows
    <3>2. new[q].revision + 1 \in Nat
      BY <3>1
    <3> QED BY <2>1, <3>1, <3>2 DEF Bump
  <2>3. undo[q].op = doc[q].op /\ undo[q].location = doc[q].location
    BY <2>1 DEF Bump, Rows
  <2> QED BY <2>2, <2>3, NullAssumption
<1>4. \A q \in Projects \ Known(doc) : undo[q] = None
  BY <1>1 DEF Restored, Known
<1> HIDE DEF undo
<1>5. Known(undo) = Known(doc) /\ Now(undo) = Now(doc)
  BY <1>3, <1>4 DEF Known, Now
<1>6. Valid(undo)
  BY <1>3, <1>5 DEF Valid, Now
<1> QED BY <1>2, <1>3, <1>6 DEF undo, backup

-----------------------------------------------------------------------------
(* What hand edits, commits and torn commits make of a ledger.             *)

LEMMA Numbers ==
    ASSUME NEW doc \in Ledgers, NEW p \in Known(doc)
    PROVE  doc[p] \in Rows /\ doc[p].authored \in Nat /\ doc[p].revision \in Nat
<1> QED BY ConstantsAssumption DEF Ledgers, Known, Rows

LEMMA Stays == ASSUME NEW doc \in Ledgers PROVE Grown(doc, doc) /\ Follows(doc, doc)
<1>1. \A p \in Known(doc) : doc[p].authored \in Nat /\ doc[p].revision \in Nat
  BY Numbers
<1> QED BY <1>1 DEF Grown, Follows

LEMMA GrownFollows ==
    ASSUME NEW old \in Ledgers, NEW new, Grown(old, new) PROVE Follows(old, new)
<1>1. \A p \in Known(old) : old[p].revision \in Nat
  BY Numbers
<1> QED BY <1>1 DEF Grown, Follows

LEMMA FollowsKept == ASSUME NEW old, NEW new, Follows(old, new) PROVE Kept(old, new)
<1> QED BY DEF Follows, Kept

LEMMA GrownTwice ==
    ASSUME NEW old \in Ledgers, NEW mid \in Ledgers, NEW new \in Ledgers, Grown(old, mid), Grown(mid, new)
    PROVE  Grown(old, new)
<1>1. ASSUME NEW p \in Known(old)
      PROVE  /\ new[p].op = old[p].op /\ new[p].revision = old[p].revision
             /\ new[p].location = old[p].location /\ new[p].authored >= old[p].authored
  <2>1. p \in Known(mid) /\ p \in Known(new)
    BY DEF Grown
  <2>2. old[p].authored \in Nat /\ mid[p].authored \in Nat /\ new[p].authored \in Nat
    BY <2>1, Numbers
  <2>3. mid[p].authored >= old[p].authored /\ new[p].authored >= mid[p].authored
    BY <2>1 DEF Grown
  <2>4. new[p].authored >= old[p].authored
    BY <2>2, <2>3
  <2> QED BY <2>1, <2>4 DEF Grown
<1> QED BY <1>1 DEF Grown

\* A candidate that stays in place of a document its call has not read is short of hand edits only.
LEMMA TornKept ==
    ASSUME NEW read \in Ledgers, NEW doc \in Ledgers, NEW old \in Ledgers, NEW new \in Ledgers,
           Follows(read, doc), Grown(read, old), Grown(doc, new)
    PROVE  Kept(old, new)
<1>1. ASSUME NEW p \in Known(old)
      PROVE  /\ p \in Known(new)
             /\ new[p].location = old[p].location
             /\ new[p].revision >= old[p].revision
             /\ new[p].op # old[p].op => new[p].revision > old[p].revision
  <2>1. p \in Known(read) /\ p \in Known(doc) /\ p \in Known(new)
    BY DEF Follows, Grown
  <2>2. /\ old[p].op = read[p].op /\ old[p].revision = read[p].revision /\ old[p].location = read[p].location
        /\ new[p].op = doc[p].op /\ new[p].revision = doc[p].revision /\ new[p].location = doc[p].location
    BY <2>1 DEF Grown
  <2> QED BY <2>1, <2>2 DEF Follows
<1> QED BY <1>1 DEF Kept

Drafts == [project : Projects, op : Fields, revision : 0 .. MaxRevision, settled : BOOLEAN]

\* A draft stays current over any step that a commit could be.
LEMMA StaysCurrent ==
    ASSUME NEW d \in Drafts \cup {None}, NEW old \in Ledgers, NEW new \in Ledgers,
           CurrentIn(d, old), Kept(old, new)
    PROVE  CurrentIn(d, new)
<1> SUFFICES ASSUME d # None, d.settled PROVE CurrentIn(d, new)
  BY DEF CurrentIn
<1> DEFINE p == d.project
<1>1. /\ p \in Known(old) /\ d.revision <= old[p].revision
      /\ d.revision = old[p].revision => d.op = old[p].op
  BY DEF CurrentIn
<1>2. d.revision \in Nat /\ old[p].revision \in Nat
  BY <1>1, Numbers, ConstantsAssumption DEF Drafts
<1>3. /\ p \in Known(new) /\ new[p].revision >= old[p].revision
      /\ new[p].op # old[p].op => new[p].revision > old[p].revision
  BY <1>1 DEF Kept
<1>4. new[p].revision \in Nat
  BY <1>3, Numbers
<1> QED BY <1>1, <1>2, <1>3, <1>4 DEF CurrentIn

-----------------------------------------------------------------------------
(* The names.                                                              *)

LEMMA Stands ==
    ASSUME LedgerInv
    PROVE  Standing \in Ledgers /\ Dense(Standing)
<1>1. CASE ledger = None \/ stage = "exchanged"
  <2>1. aside # None
    BY <1>1 DEF LedgerInv, Placed
  <2> QED BY <1>1, <2>1 DEF LedgerInv, TypeOK, Standing
<1>2. CASE ledger # None /\ stage # "exchanged"
  BY <1>2 DEF LedgerInv, TypeOK, Standing
<1> QED BY <1>1, <1>2

\* Only the holder is in a call, and it commits when a document is displaced.
LEMMA Alone ==
    ASSUME LedgerInv, NEW s \in Sessions, pc[s] # "idle"
    PROVE  /\ holder = s /\ \A t \in Sessions : t # s => pc[t] = "idle"
           /\ stage # "none" => pc[s] \in Committing
<1> QED BY DEF LedgerInv, Placed

LEMMA BackupsTyped ==
    ASSUME NEW b \in Seq(Payloads)
    PROVE  \A i \in DOMAIN b :
             /\ DOMAIN b[i] \subseteq Projects
             /\ \A p \in DOMAIN b[i] : b[i][p] \in [location : Locations, fields : Fields]
<1>1. \A i \in DOMAIN b : b[i] \in Payloads
  OBVIOUS
<1> QED BY <1>1 DEF Payloads

LEMMA Appends ==
    ASSUME Backed, NEW doc \in Ledgers, Dense(doc), Len(backups) < MaxBackups, backups' = Append(backups, Payload(doc))
    PROVE  Backed' /\ Len(backups') > 0 /\ backups'[Len(backups')] = Payload(doc)
<1> DEFINE backup == Payload(doc)
<1>1. backup \in Payloads /\ DenseBackup(backup)
  BY Saves
<1> HIDE DEF backup
<1>2. backups \in Seq(Payloads) /\ backups' = Append(backups, backup) /\ Len(backups) \in Nat /\ MaxBackups \in Nat
  BY ConstantsAssumption DEF Backed, backup
<1>3. /\ backups' \in Seq(Payloads) /\ Len(backups') = Len(backups) + 1 /\ backups'[Len(backups')] = backup
      /\ DOMAIN backups' = 1 .. Len(backups) + 1 /\ \A i \in 1 .. Len(backups) : backups'[i] = backups[i]
  BY <1>1, <1>2
<1>4. \A i \in DOMAIN backups' : DenseBackup(backups'[i])
  <2>1. \A i \in 1 .. Len(backups) : DenseBackup(backups[i])
    BY <1>2 DEF Backed
  <2> QED BY <1>1, <1>2, <1>3, <2>1
<1> QED BY <1>2, <1>3, <1>4 DEF Backed, backup

LEMMA InitInv == Init => LedgerInv
<1> SUFFICES ASSUME Init PROVE LedgerInv
  OBVIOUS
<1>1. \A p \in Projects : ledger[p] \in Rows \cup {None} /\ (ledger[p] # None => ledger[p].op = Fresh)
  <2>1. PICK home \in Injection(Enrolled, Locations) :
           ledger = [p \in Projects |-> IF p \in Enrolled THEN Connected(home[p]) ELSE None]
    BY DEF Init
  <2>2. ASSUME NEW p \in Enrolled PROVE Connected(home[p]) \in Rows /\ Connected(home[p]).op = Fresh
    <3>1. home[p] \in Locations
      BY <2>1, <2>2 DEF Injection
    <3>2. Fresh \in Fields
      BY ConstantsAssumption DEF Fresh, Fields, Attention
    <3> QED BY <3>1, <3>2, ConstantsAssumption DEF Connected, Rows
  <2> QED BY <2>1, <2>2
<1>2. ledger \in Ledgers /\ ledger # None
  <2>1. ledger = [p \in Projects |-> ledger[p]]
    BY DEF Init
  <2> QED BY <1>1, <2>1, NullAssumption DEF Ledgers
<1>3. Now(ledger) = {}
  BY <1>1, NullAssumption DEF Now, Known, Fresh
<1>4. Dense(ledger)
  BY <1>3, FS_EmptySet, ConstantsAssumption DEF Dense
<1>5. /\ backups = <<>> /\ \A s \in Sessions : pc[s] = "idle" /\ draft[s] = None
      /\ aside = None /\ stage = "none"
  BY DEF Init
<1>6. TypeOK
  BY <1>2, <1>5, ConstantsAssumption DEF TypeOK, Init
<1>7. Placed
  BY <1>2, <1>5 DEF Placed
<1> QED BY <1>4, <1>5, <1>6, <1>7, ConstantsAssumption
        DEF LedgerInv, Backed, Prepared, Compared, Undoable, CurrentIn, Committing

-----------------------------------------------------------------------------
(* The kinds of steps.                                                     *)

LEMMA Unmoved == ASSUME UNCHANGED Names PROVE Standing' = Standing
<1> QED BY DEF Names, Standing

\* A call prepares a commit.
LEMMA PrepareStep ==
    ASSUME LedgerInv, NEW s \in Sessions, Ready(s), NEW doc \in Ledgers, NEW label \in Committing,
           Prepare(s, doc, label), Dense(doc), Follows(ledger, doc), Backed',
           label = "updating" /\ draft[s] # None =>
               draft[s].project \in Known(ledger) /\ draft[s].revision = ledger[draft[s].project].revision,
           label = "restoring" =>
               /\ Valid(ledger) /\ Known(doc) = Known(ledger)
               /\ Len(backups') > 0 /\ backups'[Len(backups')] = Payload(ledger)
    PROVE  LedgerInv' /\ Standing' = Standing
<1>1. /\ ledger' = ledger /\ aside' = aside /\ stage' = stage /\ holder' = holder /\ draft' = draft
      /\ snapshot' = [snapshot EXCEPT ![s] = ledger] /\ candidate' = [candidate EXCEPT ![s] = doc]
      /\ pc' = [pc EXCEPT ![s] = label] /\ UNCHANGED Names
  BY DEF Prepare, Goto, Names
<1>2. /\ pc'[s] = label /\ snapshot'[s] = ledger /\ candidate'[s] = doc
      /\ \A t \in Sessions : t # s => pc'[t] = pc[t] /\ snapshot'[t] = snapshot[t] /\ candidate'[t] = candidate[t]
  BY <1>1 DEF LedgerInv, TypeOK
<1>3. pc[s] = "locked" /\ ledger # None /\ ledger \in Ledgers
  BY DEF Ready, LedgerInv, TypeOK
<1>4. /\ holder = s /\ stage = "none" /\ Standing = ledger /\ Standing' = Standing
      /\ \A t \in Sessions : t # s => pc[t] = "idle"
  BY <1>1, <1>3, Alone, Unmoved DEF Committing, Standing
<1>5. TypeOK'
  <2>1. /\ \A i \in DOMAIN backups' :
             /\ DOMAIN backups'[i] \subseteq Projects
             /\ \A p \in DOMAIN backups'[i] : backups'[i][p] \in [location : Locations, fields : Fields]
        /\ Len(backups') <= MaxBackups
    BY BackupsTyped DEF Backed
  <2>2. /\ pc' \in [Sessions -> Committing \cup {"idle", "locked"}]
        /\ snapshot' \in [Sessions -> Ledgers \cup {None}] /\ candidate' \in [Sessions -> Ledgers \cup {None}]
    BY <1>1, <1>3 DEF LedgerInv, TypeOK
  <2> QED BY <1>1, <2>1, <2>2 DEF LedgerInv, TypeOK
<1>6. Placed' /\ (ledger' # None => Dense(ledger)') /\ (aside' # None => Dense(aside)')
  <2>1. Placed'
    BY <1>1, <1>3, <1>4 DEF LedgerInv, Placed
  <2>2. ledger # None => Dense(ledger)
    BY DEF LedgerInv
  <2>3. aside # None => Dense(aside)
    BY DEF LedgerInv
  <2>4. ledger' # None => Dense(ledger)'
    BY <1>1, <2>2 DEF Dense, Now, Known
  <2>5. aside' # None => Dense(aside)'
    BY <1>1, <2>3 DEF Dense, Now, Known
  <2> QED BY <2>1, <2>4, <2>5
<1> HIDE DEF Standing
<1>7. ASSUME NEW t \in Sessions PROVE CurrentIn(draft[t], Standing)'
  BY <1>1, <1>4 DEF LedgerInv, CurrentIn, Known
<1>8. ASSUME NEW t \in Sessions
      PROVE  (pc'[t] # "idle" => holder' = t) /\ Prepared(t)' /\ Compared(t)' /\ Undoable(t)'
  <2>1. CASE t = s
    <3>1. Prepared(s)'
      <4>1. Dense(doc)' /\ Follows(ledger, doc)'
        BY <1>1 DEF Dense, Now, Known, Follows
      <4>2. Grown(ledger, Standing')
        BY <1>3, <1>4, Stays
      <4>3. Dense(candidate'[s]) /\ Follows(snapshot'[s], candidate'[s]) /\ Grown(snapshot'[s], Standing')
        BY <1>2, <4>2
      <4> QED BY <1>1, <1>2, <1>3, <1>4, <4>3 DEF Prepared, Dense, Now, Known, Follows, Grown
    <3>2. Compared(s)'
      BY <1>1, <1>2 DEF Compared, Known
    <3>3. Undoable(s)'
      BY <1>2 DEF Undoable, Valid, Known, Now, Payload
    <3> QED BY <1>1, <1>4, <2>1, <3>1, <3>2, <3>3
  <2>2. CASE t # s
    BY <1>2, <1>4, <2>2 DEF Prepared, Compared, Undoable, Committing
  <2> QED BY <2>1, <2>2
<1> QED BY <1>4, <1>5, <1>6, <1>7, <1>8 DEF LedgerInv

\* A call ends, and may have committed.
LEMMA DoneStep ==
    ASSUME LedgerInv, NEW s \in Sessions, pc[s] # "idle", Done(s), Backed',
           {ledger', aside'} \subseteq Ledgers \cup {None}, ledger' = None <=> aside' # None,
           ledger' # None => Dense(ledger'), aside' # None => Dense(aside'), Kept(Standing, Standing')
    PROVE  LedgerInv'
<1>1. /\ holder' = None /\ pc' = [pc EXCEPT ![s] = "idle"] /\ draft' = [draft EXCEPT ![s] = None]
      /\ snapshot' = [snapshot EXCEPT ![s] = None] /\ candidate' = [candidate EXCEPT ![s] = None]
      /\ stage' = "none"
  BY DEF Done, Goto
<1>2. \A t \in Sessions : pc'[t] = "idle" /\ draft'[t] \in {None, draft[t]}
  BY <1>1, Alone DEF LedgerInv, TypeOK
<1>3. TypeOK'
  <2>1. /\ \A i \in DOMAIN backups' :
             /\ DOMAIN backups'[i] \subseteq Projects
             /\ \A p \in DOMAIN backups'[i] : backups'[i][p] \in [location : Locations, fields : Fields]
        /\ Len(backups') <= MaxBackups
    BY BackupsTyped DEF Backed
  <2>2. draft' \in [Sessions -> Drafts \cup {None}]
    BY <1>1 DEF LedgerInv, TypeOK, Drafts
  <2>3. /\ pc' \in [Sessions -> Committing \cup {"idle", "locked"}]
        /\ snapshot' \in [Sessions -> Ledgers \cup {None}] /\ candidate' \in [Sessions -> Ledgers \cup {None}]
    BY <1>1 DEF LedgerInv, TypeOK
  <2> QED BY <1>1, <2>1, <2>2, <2>3 DEF LedgerInv, TypeOK, Drafts
<1>4. Standing' \in Ledgers
  BY <1>1 DEF Standing
<1>5. ASSUME NEW t \in Sessions PROVE CurrentIn(draft[t], Standing)'
  <2>1. CurrentIn(draft[t], Standing) /\ draft[t] \in Drafts \cup {None}
    BY DEF LedgerInv, TypeOK, Drafts
  <2>2. CurrentIn(draft[t], Standing')
    BY <1>4, <2>1, Stands, StaysCurrent
  <2>3. CurrentIn(None, Standing')
    BY DEF CurrentIn
  <2> HIDE DEF Standing
  <2> QED BY <1>2, <2>2, <2>3 DEF CurrentIn, Known
<1>6. /\ ledger' # None => Dense(ledger)'
      /\ aside' # None => Dense(aside)'
  BY DEF Dense, Now, Known
<1>7. Placed'
  BY <1>1 DEF Placed
<1> QED BY <1>2, <1>3, <1>5, <1>6, <1>7 DEF LedgerInv, Prepared, Compared, Undoable, Committing

\* A step that moves the documents or edits one, and ends no call.
LEMMA MovingStep ==
    ASSUME LedgerInv, UNCHANGED <<backups, holder, pc, draft, snapshot, candidate>>, Placed',
           {ledger', aside'} \subseteq Ledgers \cup {None}, stage' \in {"none", "exchanged", "vacated"},
           ledger' # None => Dense(ledger'), aside' # None => Dense(aside'), Grown(Standing, Standing'),
           \A t \in Sessions : pc[t] \in Committing /\ stage' = "exchanged" => Grown(candidate[t], ledger')
    PROVE  LedgerInv' /\ Follows(Standing, Standing')
<1>1. Standing' \in Ledgers /\ Standing \in Ledgers
  <2>1. Standing \in Ledgers
    BY Stands
  <2>2. Standing' \in Ledgers
    <3>1. CASE ledger' = None \/ stage' = "exchanged"
      BY <3>1 DEF Placed, Standing
    <3>2. CASE ledger' # None /\ stage' # "exchanged"
      BY <3>2 DEF Standing
    <3> QED BY <3>1, <3>2
  <2> QED BY <2>1, <2>2
<1>2. Follows(Standing, Standing') /\ Kept(Standing, Standing')
  BY <1>1, GrownFollows, FollowsKept
<1>3. TypeOK'
  BY DEF LedgerInv, TypeOK
<1>4. /\ ledger' # None => Dense(ledger)'
      /\ aside' # None => Dense(aside)'
      /\ Backed'
  BY DEF LedgerInv, Dense, Now, Known, Backed
<1>5. ASSUME NEW t \in Sessions PROVE CurrentIn(draft[t], Standing)'
  <2>1. CurrentIn(draft[t], Standing) /\ draft[t] \in Drafts \cup {None}
    BY DEF LedgerInv, TypeOK, Drafts
  <2>2. CurrentIn(draft[t], Standing')
    BY <1>1, <1>2, <2>1, StaysCurrent
  <2> HIDE DEF Standing
  <2> QED BY <2>2 DEF CurrentIn, Known
<1>6. ASSUME NEW t \in Sessions PROVE Prepared(t)'
  <2>1. CASE pc[t] \in Committing
    <3>1. /\ snapshot[t] \in Ledgers /\ candidate[t] \in Ledgers /\ Dense(candidate[t])
          /\ Follows(snapshot[t], candidate[t]) /\ Grown(snapshot[t], Standing)
      BY <2>1 DEF LedgerInv, Prepared
    <3>2. Grown(snapshot[t], Standing')
      BY <1>1, <3>1, GrownTwice
    <3>3. stage' = "exchanged" => Grown(candidate[t], ledger')
      BY <2>1
    <3> HIDE DEF Standing
    <3>4. Grown(snapshot[t], Standing)' /\ (stage' = "exchanged" => Grown(candidate[t], ledger)')
      BY <3>2, <3>3 DEF Grown, Known
    <3>5. Dense(candidate[t])' /\ Follows(snapshot[t], candidate[t])'
      BY <3>1 DEF Dense, Now, Known, Follows
    <3> QED BY <3>1, <3>4, <3>5 DEF Prepared
  <2>2. CASE pc[t] \notin Committing
    BY <2>2 DEF Prepared
  <2> QED BY <2>1, <2>2
<1>7. ASSUME NEW t \in Sessions PROVE Compared(t)' /\ Undoable(t)' /\ (pc'[t] # "idle" => holder' = t)
  <2>1. Compared(t)'
    BY DEF LedgerInv, Compared, Known
  <2>2. Undoable(t)'
    <3>1. CASE pc[t] = "restoring"
      BY <3>1 DEF LedgerInv, Undoable, Known, Valid, Now, Payload
    <3> QED BY <3>1 DEF Undoable
  <2> QED BY <2>1, <2>2 DEF LedgerInv
<1> QED BY <1>2, <1>3, <1>4, <1>5, <1>6, <1>7 DEF LedgerInv

-----------------------------------------------------------------------------
(* The steps.                                                              *)

\* What a step may do to the document that stands.
Moved == Follows(Standing, Standing') \/ (Torn /\ Kept(Standing, Standing'))

\* What a call holds, while its variables stay.
LEMMA Holding ==
    ASSUME NEW t \in Sessions, UNCHANGED <<ledger, stage, pc, snapshot, candidate, backups>>,
           Standing' = Standing, Prepared(t), Undoable(t)
    PROVE  Prepared(t)' /\ Undoable(t)'
<1> HIDE DEF Standing
<1>1. Prepared(t)'
  <2>1. CASE pc[t] \in Committing
    <3>1. Dense(candidate[t])' /\ Follows(snapshot[t], candidate[t])'
      BY <2>1 DEF Prepared, Dense, Now, Known, Follows
    <3>2. Grown(snapshot[t], Standing)' /\ (stage' = "exchanged" => Grown(candidate[t], ledger)')
      BY <2>1 DEF Prepared, Known, Grown
    <3> QED BY <2>1, <3>1, <3>2 DEF Prepared
  <2> QED BY <2>1 DEF Prepared
<1>2. Undoable(t)'
  <2>1. CASE pc[t] = "restoring"
    BY <2>1 DEF Undoable, Known, Valid, Now, Payload
  <2> QED BY <2>1 DEF Undoable
<1> QED BY <1>1, <1>2

LEMMA LoadInv == ASSUME LedgerInv, NEW s \in Sessions, Load(s) PROVE LedgerInv' /\ Moved
<1> DEFINE flag == stage # "exchanged"
<1>0. flag \in BOOLEAN
  OBVIOUS
<1>1. PICK p \in Known(ledger) :
         draft' = [draft EXCEPT ![s] = [project |-> p, op |-> ledger[p].op, revision |-> ledger[p].revision,
                                        settled |-> flag]]
  BY DEF Load
<1>2. /\ pc[s] = "idle" /\ ledger # None /\ UNCHANGED Names
      /\ UNCHANGED <<ledger, aside, stage, backups, holder, pc, snapshot, candidate>>
  BY DEF Load, Names
<1>3. ledger \in Ledgers /\ ledger[p] \in Rows /\ p \in Projects /\ ledger[p].revision \in Nat
  BY <1>2, Numbers DEF LedgerInv, TypeOK, Known
<1>4. draft' \in [Sessions -> Drafts \cup {None}]
  <2> HIDE DEF flag
  <2> QED BY <1>0, <1>1, <1>3 DEF LedgerInv, TypeOK, Rows, Drafts
<1>5. TypeOK'
  BY <1>2, <1>4 DEF LedgerInv, TypeOK, Drafts
<1>6. /\ \A t \in Sessions : t # s => draft'[t] = draft[t]
      /\ draft'[s] = [project |-> p, op |-> ledger[p].op, revision |-> ledger[p].revision,
                      settled |-> flag]
  BY <1>1 DEF LedgerInv, TypeOK
<1>7. Standing' = Standing /\ Follows(Standing, Standing')
  BY <1>2, Unmoved, Stands, Stays
<1>8. flag \in BOOLEAN /\ (flag => Standing = ledger)
  BY <1>2 DEF Standing
<1> HIDE DEF Standing, flag
<1>9. ASSUME NEW t \in Sessions
      PROVE  (pc'[t] # "idle" => holder' = t) /\ Prepared(t)' /\ Compared(t)' /\ Undoable(t)'
  <2>1. Prepared(t)' /\ Undoable(t)'
    BY <1>2, <1>7, Holding DEF LedgerInv
  <2>2. Compared(t)'
    BY <1>2, <1>6 DEF LedgerInv, Compared, Known
  <2> QED BY <1>2, <2>1, <2>2 DEF LedgerInv
<1>10. ASSUME NEW t \in Sessions PROVE CurrentIn(draft[t], Standing)'
  <2>1. CASE t = s
    <3>1. CurrentIn(draft'[s], Standing)
      <4>1. draft'[s].settled = flag
        BY <1>6
      <4>2. draft'[s].settled => Standing = ledger
        BY <1>8, <4>1
      <4>3. draft'[s].revision <= ledger[p].revision
        BY <1>3, <1>6
      <4>4. draft'[s].project = p /\ draft'[s].op = ledger[p].op /\ draft'[s].revision = ledger[p].revision
        BY <1>6
      <4> QED BY <4>2, <4>3, <4>4 DEF CurrentIn
    <3> QED BY <1>7, <2>1, <3>1 DEF CurrentIn, Known
  <2>2. CASE t # s
    BY <1>6, <1>7, <2>2 DEF LedgerInv, CurrentIn, Known
  <2> QED BY <2>1, <2>2
<1>11. Placed' /\ Backed' /\ (ledger' # None => Dense(ledger)') /\ (aside' # None => Dense(aside)')
  BY <1>2 DEF LedgerInv, Placed, Backed, Dense, Now, Known
<1> QED BY <1>5, <1>7, <1>9, <1>10, <1>11 DEF LedgerInv, Moved

LEMMA LockInv == ASSUME LedgerInv, NEW s \in Sessions, Lock(s) PROVE LedgerInv' /\ Moved
<1>1. /\ holder = None /\ holder' = s /\ pc' = [pc EXCEPT ![s] = "locked"] /\ UNCHANGED Names
      /\ UNCHANGED <<ledger, aside, stage, backups, draft, snapshot, candidate>>
  BY DEF Lock, Goto, Names
<1>2. \A t \in Sessions : pc'[t] = IF t = s THEN "locked" ELSE "idle"
  BY <1>1, ConstantsAssumption DEF LedgerInv, TypeOK
<1>3. TypeOK'
  BY <1>1 DEF LedgerInv, TypeOK
<1>4. Standing' = Standing /\ Follows(Standing, Standing')
  BY <1>1, Unmoved, Stands, Stays
<1>5. Placed' /\ Backed' /\ (ledger' # None => Dense(ledger)') /\ (aside' # None => Dense(aside)')
  BY <1>1 DEF LedgerInv, Placed, Backed, Dense, Now, Known
<1> HIDE DEF Standing
<1>6. ASSUME NEW t \in Sessions PROVE CurrentIn(draft[t], Standing)'
  BY <1>1, <1>4 DEF LedgerInv, CurrentIn, Known
<1> QED BY <1>1, <1>2, <1>3, <1>4, <1>5, <1>6 DEF LedgerInv, Moved, Prepared, Compared, Undoable, Committing

LEMMA SaveInv ==
    ASSUME LedgerInv, NEW s \in Sessions, Update(s) \/ Connect(s) \/ Restore(s) \/ Fingerprint(s)
    PROVE  LedgerInv' /\ Moved
<1>0. Ready(s) /\ pc[s] = "locked" /\ ledger \in Ledgers /\ Dense(ledger) /\ Backed
  BY DEF LedgerInv, TypeOK, Ready, Update, Connect, Restore, Fingerprint
<1>1. backups' = backups => Backed'
  BY <1>0 DEF Backed
<1>2. Standing' = Standing => Moved
  BY Stands, Stays DEF Moved
<1>3. CASE Update(s)
  <2>1. /\ Valid(ledger) /\ \A q \in Known(ledger) : ledger[q].revision < MaxRevision
        /\ UNCHANGED backups
        /\ \E p \in Known(ledger), attention \in Attention, order \in 0 .. NowLimit, text \in Texts \cup {None} :
              /\ Expected(s, p) /\ Selectable(ledger, p, attention, order)
              /\ Prepare(s, Edited(ledger, p, attention, order, text), "updating")
    BY <1>3 DEF Update
  <2>2. PICK p \in Known(ledger), attention \in Attention, order \in 0 .. NowLimit, text \in Texts \cup {None} :
           /\ Expected(s, p) /\ Selectable(ledger, p, attention, order)
           /\ Prepare(s, Edited(ledger, p, attention, order, text), "updating")
    BY <2>1
  <2> DEFINE doc == Edited(ledger, p, attention, order, text)
  <2>3. doc \in Ledgers /\ Dense(doc) /\ Follows(ledger, doc)
    BY <1>0, <2>1, <2>2, Edits
  <2>4. draft[s] # None => draft[s].project \in Known(ledger) /\ draft[s].revision = ledger[draft[s].project].revision
    BY <2>2 DEF Expected
  <2>5. Prepare(s, doc, "updating")
    BY <2>2
  <2> HIDE DEF doc
  <2> QED BY <1>0, <1>1, <1>2, <2>1, <2>3, <2>4, <2>5, PrepareStep DEF Committing
<1>4. CASE Connect(s)
  <2>1. PICK p \in Projects \ Known(ledger), location \in Locations :
           /\ UNCHANGED backups
           /\ Prepare(s, [ledger EXCEPT ![p] = Connected(location)], "connecting")
    BY <1>4 DEF Connect
  <2> DEFINE doc == [ledger EXCEPT ![p] = Connected(location)]
  <2>2. doc \in Ledgers /\ Dense(doc) /\ Follows(ledger, doc)
    BY <1>0, Connects
  <2>3. Prepare(s, doc, "connecting")
    BY <2>1
  <2> HIDE DEF doc
  <2> QED BY <1>0, <1>1, <1>2, <2>1, <2>2, <2>3, PrepareStep DEF Committing
<1>5. CASE Restore(s)
  <2>1. PICK i \in DOMAIN backups :
           /\ Valid(ledger) /\ Len(backups) < MaxBackups
           /\ Restorable(ledger, backups[i]) /\ \A p \in Known(ledger) : ledger[p].revision < MaxRevision
           /\ backups' = Append(backups, Payload(ledger))
           /\ Prepare(s, Restored(ledger, backups[i]), "restoring")
    BY <1>5 DEF Restore
  <2> DEFINE doc == Restored(ledger, backups[i])
  <2>2. backups[i] \in Payloads /\ DenseBackup(backups[i])
    BY <1>0 DEF Backed
  <2>3. doc \in Ledgers /\ Dense(doc) /\ Follows(ledger, doc) /\ Known(doc) = Known(ledger)
    BY <1>0, <2>1, <2>2, Restores
  <2>4. Backed' /\ Len(backups') > 0 /\ backups'[Len(backups')] = Payload(ledger)
    BY <1>0, <2>1, Appends
  <2>5. Prepare(s, doc, "restoring")
    BY <2>1
  <2> HIDE DEF doc
  <2> QED BY <1>0, <1>2, <2>1, <2>3, <2>4, <2>5, PrepareStep DEF Committing
<1>6. CASE Fingerprint(s)
  <2>1. PICK p \in Known(ledger) :
           UNCHANGED backups /\ CanAuthor(ledger) /\ Prepare(s, Authored(ledger, p), "recording")
    BY <1>6 DEF Fingerprint
  <2> DEFINE doc == Authored(ledger, p)
  <2>2. doc \in Ledgers /\ Dense(doc) /\ Follows(ledger, doc)
    BY <1>0, <2>1, Authors
  <2>3. Prepare(s, doc, "recording")
    BY <2>1
  <2> HIDE DEF doc
  <2> QED BY <1>0, <1>1, <1>2, <2>1, <2>2, <2>3, PrepareStep DEF Committing
<1> QED BY <1>3, <1>4, <1>5, <1>6

\* A backup, or a call that ends, of itself or in its commit.
LEMMA EndInv ==
    ASSUME LedgerInv, NEW s \in Sessions,
           Backup(s) \/ Leave(s) \/ Undo(s) \/ UndoFails(s) \/ Install(s) \/ PutBack(s)
             \/ (Exchange(s) /\ Done(s) /\ ledger = snapshot[s] /\ aside' = None)
    PROVE  LedgerInv' /\ Moved
<1>1. pc[s] # "idle" /\ Done(s) /\ stage' = "none" /\ Prepared(s) /\ Backed /\ Standing \in Ledgers /\ Dense(Standing)
  BY Stands DEF LedgerInv, Backup, Ready, Leave, Undo, UndoFails, Install, PutBack, Exchange, Begun, Committing, Done
<1>2. /\ {ledger, aside} \subseteq Ledgers \cup {None}
      /\ ledger # None => Dense(ledger)
      /\ aside # None => Dense(aside)
      /\ Placed
  BY DEF LedgerInv, TypeOK
<1>3. ledger' # None => Standing' = ledger'
  BY <1>1 DEF Standing
<1>4. ledger' = None => Standing' = aside'
  BY DEF Standing
\* The names as they are, or the document that stands.
<1>5. CASE Backup(s)
  <2>1. UNCHANGED <<ledger, aside>> /\ ledger # None /\ pc[s] = "locked"
        /\ Len(backups) < MaxBackups /\ backups' = Append(backups, Payload(ledger))
    BY <1>5 DEF Backup, Ready
  <2>2. stage = "none" /\ Standing = ledger /\ aside = None
    BY <1>2, <2>1, Alone DEF Committing, Standing, Placed
  <2>3. Backed'
    BY <1>1, <1>2, <2>1, Appends
  <2>4. Standing' = Standing
    BY <1>3, <2>1, <2>2
  <2>5. Follows(Standing, Standing') /\ Kept(Standing, Standing')
    BY <1>1, <2>4, Stays, FollowsKept
  <2> HIDE DEF Standing
  <2> QED BY <1>1, <1>2, <2>1, <2>2, <2>3, <2>5, DoneStep DEF Moved
<1>6. CASE (Install(s) \/ Exchange(s)) /\ ~(Leave(s) \/ Undo(s) \/ UndoFails(s) \/ PutBack(s) \/ Backup(s))
  <2>1. /\ pc[s] \in Committing /\ Standing = snapshot[s] /\ ledger' = candidate[s] /\ aside' = None
        /\ UNCHANGED backups
    BY <1>6 DEF Install, Exchange, Begun, Standing
  <2>2. candidate[s] \in Ledgers /\ Dense(candidate[s]) /\ Follows(snapshot[s], candidate[s]) /\ candidate[s] # None
    BY <1>1, <2>1, NullAssumption DEF Prepared
  <2>3. Follows(Standing, Standing') /\ Kept(Standing, Standing')
    BY <1>3, <2>1, <2>2, FollowsKept
  <2>4. Backed'
    BY <1>1, <2>1 DEF Backed
  <2> HIDE DEF Standing
  <2> QED BY <1>1, <2>1, <2>2, <2>3, <2>4, DoneStep DEF Moved
<1>7. CASE Leave(s) \/ Undo(s) \/ UndoFails(s) \/ PutBack(s)
  <2>1. Backed'
    BY <1>1, <1>7 DEF Leave, Undo, UndoFails, PutBack, Backed
  <2>2. /\ {ledger', aside'} \subseteq {ledger, aside, None} /\ (ledger' = None <=> aside' # None)
        /\ \/ Standing' = Standing
           \/ stage = "exchanged" /\ ledger' = ledger /\ Standing' = ledger /\ pc[s] \in Committing /\ ledger # None
    <3>1. CASE Leave(s)
      <4>1. ledger' = ledger /\ aside' = IF ledger = None THEN aside ELSE None
        BY <3>1 DEF Leave
      <4>2. CASE stage = "exchanged"
        BY <1>2, <1>3, <4>1, <4>2, Alone, <1>1 DEF Placed
      <4>3. CASE stage # "exchanged"
        BY <1>2, <1>3, <1>4, <4>1, <4>3 DEF Placed, Standing
      <4> QED BY <4>2, <4>3
    <3>2. CASE Undo(s)
      BY <1>2, <1>3, <3>2 DEF Undo, Placed, Standing
    <3>3. CASE UndoFails(s)
      BY <1>2, <1>3, <1>4, <3>3 DEF UndoFails, Placed, Standing
    <3>4. CASE PutBack(s)
      BY <1>2, <1>3, <3>4 DEF PutBack, Placed, Standing
    <3> QED BY <1>7, <3>1, <3>2, <3>3, <3>4
  <2>3. Kept(Standing, Standing') /\ Moved
    <3>1. CASE Standing' = Standing
      BY <1>1, <3>1, Stays, FollowsKept DEF Moved
    <3>2. CASE stage = "exchanged" /\ ledger' = ledger /\ Standing' = ledger /\ pc[s] \in Committing /\ ledger # None
      <4>1. /\ snapshot[s] \in Ledgers /\ candidate[s] \in Ledgers /\ ledger \in Ledgers
            /\ Follows(snapshot[s], candidate[s]) /\ Grown(snapshot[s], Standing) /\ Grown(candidate[s], ledger)
        BY <1>1, <1>2, <3>2 DEF Prepared
      <4>2. Kept(Standing, ledger)
        BY <1>1, <4>1, TornKept
      <4> HIDE DEF Standing
      <4> QED BY <1>1, <3>2, <4>2 DEF Moved, Torn
    <3> QED BY <2>2, <3>1, <3>2
  <2>4. /\ {ledger', aside'} \subseteq Ledgers \cup {None}
        /\ ledger' # None => Dense(ledger')
        /\ aside' # None => Dense(aside')
    BY <1>2, <2>2
  <2> HIDE DEF Standing
  <2> QED BY <1>1, <2>1, <2>2, <2>3, <2>4, DoneStep
<1> QED BY <1>5, <1>6, <1>7

\* A commit between two of its system calls, and an edit by hand.
LEMMA MoveInv ==
    ASSUME LedgerInv, (\E s \in Sessions : (Exchange(s) /\ stage' = "exchanged") \/ MoveAside(s)) \/ HandEdit
    PROVE  LedgerInv' /\ Moved
<1>1. /\ {ledger, aside} \subseteq Ledgers \cup {None}
      /\ ledger # None => Dense(ledger)
      /\ aside # None => Dense(aside)
      /\ Placed /\ Standing \in Ledgers /\ Grown(Standing, Standing)
  BY Stands, Stays DEF LedgerInv, TypeOK
<1>2. CASE \E s \in Sessions : (Exchange(s) /\ stage' = "exchanged") \/ MoveAside(s)
  <2>1. PICK s \in Sessions : (Exchange(s) /\ stage' = "exchanged") \/ MoveAside(s)
    BY <1>2
  <2>2. /\ pc[s] \in Committing /\ stage = "none" /\ ledger # None /\ aside' = ledger
        /\ ledger' = (IF stage' = "exchanged" THEN candidate[s] ELSE None) /\ stage' \in {"exchanged", "vacated"}
        /\ UNCHANGED <<backups, holder, pc, draft, snapshot, candidate>>
    BY <2>1 DEF Exchange, MoveAside, Begun, Done
  <2>3. /\ candidate[s] \in Ledgers /\ Dense(candidate[s]) /\ candidate[s] # None /\ holder = s /\ s # None
        /\ \A t \in Sessions : t # s => pc[t] = "idle"
    BY <2>2, Alone, NullAssumption, ConstantsAssumption DEF LedgerInv, Prepared, Committing
  <2>4. Standing' = Standing
    BY <2>2, <2>3 DEF Standing
  <2>5. Placed'
    BY <2>2, <2>3 DEF Placed
  <2>6. ASSUME NEW t \in Sessions, pc[t] \in Committing, stage' = "exchanged" PROVE Grown(candidate[t], ledger')
    BY <2>2, <2>3, <2>6, Stays DEF Committing
  <2> HIDE DEF Standing
  <2> QED BY <1>1, <2>2, <2>3, <2>4, <2>5, <2>6, MovingStep DEF Moved
<1>3. CASE HandEdit
  <2> DEFINE shown == IF ledger = None THEN aside ELSE ledger
  <2>1. PICK p \in Known(shown) : CanAuthor(shown) /\ ledger' = Authored(shown, p)
    BY <1>3 DEF HandEdit
  <2>2. /\ aside' = (IF stage = "none" THEN None ELSE aside)
        /\ UNCHANGED <<stage, backups, holder, pc, draft, snapshot, candidate>>
    BY <1>3 DEF HandEdit
  <2>3. shown \in Ledgers /\ Dense(shown) /\ shown # None
    BY <1>1 DEF Placed
  <2>4. stage # "exchanged" => Standing = shown
    BY DEF Standing
  <2> HIDE DEF shown
  <2>5. ledger' \in Ledgers /\ Dense(ledger') /\ Grown(shown, ledger') /\ ledger' # None
    BY <2>1, <2>3, Authors, NullAssumption
  <2>6. Grown(Standing, Standing')
    <3>1. CASE stage = "exchanged"
      <4>1. Standing' = Standing
        BY <2>2, <3>1 DEF Standing
      <4> QED BY <1>1, <4>1
    <3>2. CASE stage # "exchanged"
      <4>1. Standing' = ledger'
        BY <2>2, <2>5, <3>2 DEF Standing
      <4> QED BY <2>4, <2>5, <3>2, <4>1
    <3> QED BY <3>1, <3>2
  <2>7. Placed'
    BY <1>1, <2>2, <2>5 DEF Placed
  <2>8. ASSUME NEW t \in Sessions, pc[t] \in Committing, stage' = "exchanged" PROVE Grown(candidate[t], ledger')
    <3>1. stage = "exchanged" /\ shown = ledger /\ candidate[t] \in Ledgers /\ Grown(candidate[t], ledger)
      BY <1>1, <2>2, <2>8 DEF LedgerInv, Prepared, Placed, shown
    <3> QED BY <2>3, <2>5, <3>1, GrownTwice
  <2>9. stage' \in {"none", "exchanged", "vacated"}
    BY <2>2 DEF LedgerInv, TypeOK
  <2> HIDE DEF Standing
  <2> QED BY <1>1, <2>2, <2>5, <2>6, <2>7, <2>8, <2>9, MovingStep DEF Moved
<1> QED BY <1>2, <1>3

LEMMA StepInv == ASSUME LedgerInv, Next PROVE LedgerInv' /\ Moved
<1>1. ASSUME NEW s \in Sessions, Commit(s) PROVE LedgerInv' /\ Moved
  <2>1. CASE Exchange(s)
    <3>1. (Done(s) /\ ledger = snapshot[s] /\ aside' = None) \/ stage' = "exchanged"
      BY <2>1 DEF Exchange
    <3> QED BY <2>1, <3>1, EndInv, MoveInv
  <2>2. CASE MoveAside(s)
    BY <2>2, MoveInv
  <2> QED BY <1>1, <2>1, <2>2, EndInv DEF Commit
<1>2. ASSUME NEW s \in Sessions, Backup(s) \/ Leave(s) PROVE LedgerInv' /\ Moved
  BY <1>2, EndInv
<1>3. ASSUME HandEdit PROVE LedgerInv' /\ Moved
  BY <1>3, MoveInv
<1> QED BY <1>1, <1>2, <1>3, LoadInv, LockInv, SaveInv DEF Next

-----------------------------------------------------------------------------
(* The theorems.                                                           *)

LEMMA InvAlways == Spec => []LedgerInv
<1>1. LedgerInv /\ [Next]_vars => LedgerInv'
  <2> SUFFICES ASSUME LedgerInv, [Next]_vars PROVE LedgerInv'
    OBVIOUS
  <2>1. CASE UNCHANGED vars
    <3>1. /\ ledger' = ledger /\ aside' = aside /\ stage' = stage /\ backups' = backups /\ holder' = holder
          /\ pc' = pc /\ draft' = draft /\ snapshot' = snapshot /\ candidate' = candidate
      BY <2>1 DEF vars
    <3>2. Standing' = Standing
      BY <3>1 DEF Standing
    <3> HIDE DEF Standing
    <3>3. \A s \in Sessions : Prepared(s)' /\ Undoable(s)'
      BY <3>1, <3>2, Holding DEF LedgerInv
    <3>4. \A s \in Sessions : Compared(s)' /\ CurrentIn(draft[s], Standing)'
      BY <3>1, <3>2 DEF LedgerInv, Compared, CurrentIn, Known
    <3>5. TypeOK'
      BY <3>1 DEF LedgerInv, TypeOK
    <3>6. Placed' /\ Backed' /\ (ledger' # None => Dense(ledger)') /\ (aside' # None => Dense(aside)')
      BY <3>1 DEF LedgerInv, Placed, Backed, Dense, Now, Known
    <3> QED BY <3>1, <3>3, <3>4, <3>5, <3>6 DEF LedgerInv
  <2> QED BY <2>1, StepInv
<1> QED BY <1>1, InitInv, PTL DEF Spec

\* The Now list stays an order without gaps under the ceiling, in the ledger and in what a commit
\* has taken aside, whatever the sessions save, connect and restore and wherever a call dies
\* (update_project's renumbering; restore_document).
THEOREM NowDenseAlways == Spec => []NowDense
<1>1. LedgerInv => NowDense
  BY DEF LedgerInv, Dense, NowDense
<1> QED BY <1>1, InvAlways, PTL

\* A save that is accepted is based on the fields its record still has, unless its session read a
\* candidate that was to be undone (expected_revision, update_project).
THEOREM SettledDraftCurrentAlways == Spec => []SettledDraftCurrent
<1>1. ASSUME LedgerInv PROVE SettledDraftCurrent
  <2> SUFFICES ASSUME NEW s \in Sessions, Accepted(s), draft[s].settled
               PROVE  snapshot[s][draft[s].project].op = draft[s].op
    BY DEF SettledDraftCurrent
  <2>1. /\ Compared(s) /\ CurrentIn(draft[s], Standing) /\ pc[s] = "updating" /\ draft[s] # None
        /\ snapshot[s] = Standing
    BY <1>1 DEF LedgerInv, Accepted, Timely
  <2> HIDE DEF Standing
  <2>2. draft[s].revision = Standing[draft[s].project].revision
    BY <2>1 DEF Compared
  <2> QED BY <2>1, <2>2 DEF CurrentIn
<1> QED BY <1>1, InvAlways, PTL

\* No field of a record changes without a new revision, and none goes back, where a call dies or
\* cannot undo its commit too (the loop over the records in update_project and restore_document).
THEOREM RevisionTracksChangeAlways == Spec => RevisionTracksChange
<1>1. LedgerInv /\ [Next]_vars =>
         [\A p \in Known(Standing) :
             /\ Standing'[p].revision >= Standing[p].revision
             /\ Standing'[p].op # Standing[p].op => Standing'[p].revision > Standing[p].revision]_vars
  <2> HIDE DEF Standing
  <2> QED BY StepInv DEF Moved, Follows, Kept
<1> QED BY <1>1, InvAlways, PTL DEF Spec, RevisionTracksChange

\* No call drops a project or moves it, and none takes back a hand edit but one that dies or cannot
\* undo between its exchange and the end of its verification (commit_replacement's compare-and-swap,
\* and what each call rewrites).
THEOREM NothingLostAlways == Spec => NothingLost
<1>1. LedgerInv /\ [Next]_vars =>
         [\A p \in Known(Standing) :
             /\ p \in Known(Standing')
             /\ Standing'[p].location = Standing[p].location
             /\ Standing'[p].authored >= Standing[p].authored \/ Torn]_vars
  <2> HIDE DEF Standing
  <2> QED BY StepInv DEF Moved, Follows, Kept
<1> QED BY <1>1, InvAlways, PTL DEF Spec, NothingLost

\* Once a restore goes in, the backup it took before applies to the new ledger and gives every
\* record its fields back (manage_state, restore_document).
THEOREM RestoreUndoableAlways == Spec => []RestoreUndoable
<1>1. ASSUME LedgerInv PROVE RestoreUndoable
  <2> SUFFICES ASSUME NEW s \in Sessions, pc[s] = "restoring"
               PROVE  LET undo == Restored(candidate[s], backups[Len(backups)]) IN
                      /\ Restorable(candidate[s], backups[Len(backups)]) /\ Valid(undo)
                      /\ \A p \in Known(snapshot[s]) : undo[p].op = snapshot[s][p].op
    BY DEF RestoreUndoable
  <2>1. /\ snapshot[s] \in Ledgers /\ candidate[s] \in Ledgers /\ Follows(snapshot[s], candidate[s])
        /\ Valid(snapshot[s]) /\ Known(candidate[s]) = Known(snapshot[s])
        /\ backups[Len(backups)] = Payload(snapshot[s])
    <3>1. Prepared(s) /\ Undoable(s)
      BY <1>1 DEF LedgerInv
    <3> QED BY <3>1 DEF Prepared, Undoable, Committing
  <2> QED BY <2>1, Undoes
<1> QED BY <1>1, InvAlways, PTL
=============================================================================
