------------------------ MODULE ApprovalStore_proofs ------------------------
(***************************************************************************)
(* Theorems about ApprovalStore, for any number of approvals, consumers    *)
(* and auditors.  The flock keeps the calls apart while one of them has    *)
(* the store aside; of the issuer, who takes no lock, they rest on the     *)
(* compare-and-swap alone.                                                 *)
(***************************************************************************)
EXTENDS ApprovalStore, TLAPS

Holding == {"locked", "read", "validated", "commit", "displaced", "vacated", "recheck", "unlock"}

\* A consumer that holds its lock is alone, an auditor is with auditors only.
Exclusion ==
    /\ \A c \in Consumers : pc[c] \in Holding => writers = {c} /\ readers = {}
    /\ \A c \in Auditors : pc[c] \in Holding => c \in readers /\ writers = {}

Displaced == {c \in Consumers : pc[c] = "displaced"}

\* A consumer past its commit that was not told that nothing was consumed.
Past(c) == pc[c] \in {"recheck", "unlock", "done"} /\ result[c] # "refused"

\* Every consumption in a document is that of such a consumer, or of one of extra, which
\* asked for this approval and this payload.
Attributed(doc, extra) ==
    \A a \in Approvals :
        doc[a] # None /\ doc[a].by # None =>
            /\ Past(doc[a].by) \/ doc[a].by \in extra
            /\ asks[doc[a].by] = <<a, doc[a].payload>>

\* Where the store is while a commit is under way.
Placed ==
    /\ store = None => aside # None
    /\ \A c \in Callers : pc[c] \in {"displaced", "vacated"} => aside # None
    /\ \A c \in Callers : pc[c] = "displaced" => store # None
    /\ careful /\ aside # None => store = None \/ Displaced # {}

Documents ==
    /\ store # None => Attributed(store, Echoes \cup Displaced)
    /\ aside # None => Attributed(aside, Echoes)
    /\ draft # None => Attributed(draft, peeked)

Stamped(doc, a, c, t) == [doc EXCEPT ![a] = [@ EXCEPT !.by = c, !.consumedAt = t]]

Reading == {"read", "validated", "commit", "displaced", "vacated"}

\* What a call holds at each point.
Engaged(c) ==
    /\ pc[c] = "idle" => asks[c] = None
    /\ pc[c] # "idle" => asks[c] \in Requests
    /\ pc[c] \in {"validated", "commit", "displaced", "vacated", "recheck"} => c \in Consumers
    /\ pc[c] \in Reading =>
          snapshot[c] \in Stores /\ Attributed(snapshot[c], Echoes) /\ Record(c) # None
    /\ pc[c] \in {"validated", "commit", "displaced", "vacated"} =>
          Record(c).by = None /\ Record(c).payload = asks[c][2]
    /\ pc[c] \in {"commit", "displaced", "vacated"} =>
          \E t \in 0..MaxTime : candidate[c] = Stamped(snapshot[c], asks[c][1], c, t)

\* A result is there only once the call is over, or nearly.
Decided(c) == result[c] # "none" => pc[c] \in {"unlock", "done"}

Upheld(c) ==
    result[c] = "confirmed" =>
        \E d \in Consumers : (Past(d) \/ d \in Echoes) /\ asks[d] = asks[c]

Holds(doc, c) == doc[asks[c][1]] # None /\ doc[asks[c][1]].by = c

\* Its consumption is in every document there is, and in whatever a call has read.
OnRecord(c) ==
    careful /\ (pc[c] = "recheck" \/ result[c] = "granted") =>
        /\ store # None => Holds(store, c)
        /\ aside # None => Holds(aside, c)
        /\ \A d \in Callers : pc[d] \in Reading => Holds(snapshot[d], c)

\* What is issued in old is so in new, and the same is spent in both.
Alike(old, new) ==
    \A a \in Approvals :
        /\ old[a] # None => new[a] # None /\ new[a].payload = old[a].payload
                                         /\ new[a].by = old[a].by
        /\ old[a] = None /\ new[a] # None => new[a].by = None

\* What a careful issuer has done since a call read the store, or displaced it.
Current(c) ==
    careful =>
        /\ pc[c] \in Reading => Alike(snapshot[c], Standing)
        /\ pc[c] = "displaced" => Alike(candidate[c], store)

CallInv(c) == Engaged(c) /\ Decided(c) /\ Current(c)

IInv ==
    /\ TypeOK /\ Exclusion /\ Placed /\ Documents
    /\ \A c \in Callers : CallInv(c)
    /\ \A c \in Consumers : OnRecord(c)
    /\ \A c \in Auditors : Upheld(c)

LEMMA InitIInv == Init => IInv
<1> SUFFICES ASSUME Init PROVE IInv
  OBVIOUS
<1>1. None \notin Approvals \cup Payloads \cup Consumers \cup Auditors /\ MaxTime \in Nat
  BY ConstantsAssumption
<1>2. store \in Stores /\ \A a \in Approvals : store[a] = None
  BY DEF Init, Stores
<1>3. store # None /\ TypeOK
  BY <1>1, <1>2, ConstantsAssumption DEF Init, TypeOK, Callers
<1>4. Exclusion /\ Placed /\ Documents
  BY <1>2, <1>3, ConstantsAssumption DEF Init, Exclusion, Holding, Placed, Documents, Attributed, Callers
<1>5. /\ \A c \in Callers : CallInv(c)
      /\ \A c \in Consumers : OnRecord(c)
      /\ \A c \in Auditors : Upheld(c)
  BY DEF Init, CallInv, Engaged, Decided, Current, OnRecord, Upheld, Reading, Callers
<1> QED
  BY <1>3, <1>4, <1>5 DEF IInv

-----------------------------------------------------------------------------
(* Documents. *)

LEMMA StampedType ==
    ASSUME NEW doc \in Stores, NEW a \in Approvals, doc[a] # None,
           NEW c \in Consumers, NEW t \in 0..MaxTime
    PROVE  /\ Stamped(doc, a, c, t) \in Stores
           /\ Stamped(doc, a, c, t)[a].by = c
           /\ Stamped(doc, a, c, t)[a].payload = doc[a].payload
           /\ Stamped(doc, a, c, t)[a] # None
           /\ \A b \in Approvals \ {a} : Stamped(doc, a, c, t)[b] = doc[b]
<1> DEFINE r == [doc[a] EXCEPT !.by = c, !.consumedAt = t]
<1>1. doc[a] \in Records
  BY DEF Stores
<1>2. r \in Records /\ r.by = c /\ r.payload = doc[a].payload
  BY <1>1 DEF Records
<1>3. r # None
  BY <1>2, ConstantsAssumption
<1> HIDE DEF r
<1>4. Stamped(doc, a, c, t) = [doc EXCEPT ![a] = r]
  BY DEF Stamped, r
<1> QED
  BY <1>2, <1>3, <1>4 DEF Stores

\* The document a consumer commits is the one it read with the approval it
\* asked for stamped.
LEMMA CandidateFacts ==
    ASSUME IInv, NEW c \in Callers, pc[c] \in {"commit", "displaced", "vacated"}
    PROVE  /\ c \in Consumers
           /\ asks[c] \in Requests
           /\ asks[c] = <<asks[c][1], asks[c][2]>>
           /\ asks[c][1] \in Approvals
           /\ snapshot[c] \in Stores
           /\ Attributed(snapshot[c], Echoes)
           /\ snapshot[c][asks[c][1]] # None
           /\ snapshot[c][asks[c][1]].by = None
           /\ snapshot[c][asks[c][1]].payload = asks[c][2]
           /\ candidate[c] \in Stores
           /\ candidate[c][asks[c][1]] # None
           /\ candidate[c][asks[c][1]].by = c
           /\ candidate[c][asks[c][1]].payload = asks[c][2]
           /\ \A b \in Approvals \ {asks[c][1]} : candidate[c][b] = snapshot[c][b]
<1>1. Engaged(c)
  BY DEF IInv, CallInv
<1>2. /\ c \in Consumers /\ asks[c] \in Requests /\ snapshot[c] \in Stores /\ Record(c) # None
      /\ Record(c).by = None /\ Record(c).payload = asks[c][2]
      /\ Attributed(snapshot[c], Echoes)
  BY <1>1 DEF Engaged, Reading
<1>3. asks[c] = <<asks[c][1], asks[c][2]>> /\ asks[c][1] \in Approvals
  BY <1>2 DEF Requests
<1>4. PICK t \in 0..MaxTime : candidate[c] = Stamped(snapshot[c], asks[c][1], c, t)
  BY <1>1 DEF Engaged
<1> QED
  BY <1>2, <1>3, <1>4, StampedType DEF Record

\* A document with nothing spent but one more approval.
LEMMA FreshType ==
    ASSUME TypeOK, IssuerWrite
    PROVE  \E a \in Approvals, p \in Payloads :
              /\ draft \in Stores /\ draft[a] = None
              /\ store' \in Stores /\ store' # None
              /\ store'[a] # None /\ store'[a].payload = p /\ store'[a].by = None
              /\ \A b \in Approvals \ {a} : store'[b] = draft[b]
<1>1. PICK a \in Approvals, p \in Payloads :
        /\ draft[a] = None
        /\ store' = [draft EXCEPT ![a] = [payload |-> p, issued |-> now,
                                          by |-> None, consumedAt |-> 0]]
  BY DEF IssuerWrite
<1> DEFINE fresh == [payload |-> p, issued |-> now, by |-> None, consumedAt |-> 0]
<1>2. now \in 0..MaxTime /\ 0 \in 0..MaxTime
  BY ConstantsAssumption DEF TypeOK
<1>3. fresh \in Records /\ fresh # None /\ fresh.payload = p /\ fresh.by = None
  BY <1>2, ConstantsAssumption DEF Records
<1> HIDE DEF fresh
<1>4. draft \in Stores
  BY DEF IssuerWrite, TypeOK
<1>5. store' = [draft EXCEPT ![a] = fresh]
  BY <1>1 DEF fresh
<1>6. store' \in Stores /\ store'[a] = fresh /\ \A b \in Approvals \ {a} : store'[b] = draft[b]
  BY <1>3, <1>4, <1>5 DEF Stores
<1>7. store' # None
  BY <1>3, <1>6, ConstantsAssumption
<1> QED
  BY <1>1, <1>3, <1>4, <1>6, <1>7

-----------------------------------------------------------------------------
(* Steps of a call. *)

Untouched(d) ==
    /\ pc'[d] = pc[d] /\ asks'[d] = asks[d] /\ result'[d] = result[d]
    /\ snapshot'[d] = snapshot[d] /\ candidate'[d] = candidate[d]

LEMMA StepFrame ==
    ASSUME TypeOK, NEW c \in Callers, Step(c)
    PROVE  /\ UNCHANGED Outsider
           /\ \A d \in Callers \ {c} : Untouched(d)
           /\ Call(c) \/ asks' = asks
<1> USE DEF TypeOK, Goto, Answer, Outsider, Untouched
<1>1. CASE Call(c)
  BY <1>1 DEF Call
<1>2. CASE LockExclusive(c) \/ LockShared(c)
  BY <1>2 DEF LockExclusive, LockShared
<1>3. CASE ReadStore(c)
  BY <1>3 DEF ReadStore
<1>4. CASE Validate(c) \/ Stamp(c)
  BY <1>4 DEF Validate, Stamp
<1>5. CASE Commit(c)
  BY <1>5 DEF Commit, Exchange, Undo, UndoFails, MoveAside, Install, PutBack, CommitFails
<1>6. CASE Recheck(c) \/ Audit(c)
  BY <1>6 DEF Recheck, Audit
<1>7. CASE Unlock(c) \/ Die(c)
  BY <1>7 DEF Unlock, Die, Leave
<1> QED
  BY <1>1, <1>2, <1>3, <1>4, <1>5, <1>6, <1>7 DEF Step

\* While a consumer holds its lock no other call does.
LEMMA Alone ==
    ASSUME IInv, NEW c \in Consumers, pc[c] \in Holding
    PROVE  \A d \in Callers \ {c} : pc[d] \notin Holding
BY DEF IInv, Exclusion, Callers

\* What a step of a call does to the names of the store.
Swap(c) ==
    /\ pc[c] \in {"commit", "vacated"} /\ pc'[c] = "recheck" /\ result' = result
    /\ Standing = snapshot[c] /\ store' = candidate[c] /\ aside' = None
    /\ UNCHANGED <<asks, snapshot, candidate>>

Take(c) ==
    /\ pc[c] = "commit" /\ store # None /\ aside' = store /\ result' = result
    /\ \/ pc'[c] = "displaced" /\ store' = candidate[c]
       \/ pc'[c] = "vacated" /\ store' = None
    /\ UNCHANGED <<asks, snapshot, candidate>>

Return(c) ==
    /\ pc[c] \in {"displaced", "vacated"} /\ pc'[c] = "unlock"
    /\ Standing = aside
    /\ \/ store' = aside /\ aside' = None
       \/ store' = None /\ aside' = aside
    /\ \E r \in {"refused", "unverified"} : result' = [result EXCEPT ![c] = r]

Tearing(c) ==
    /\ pc[c] = "displaced" /\ pc'[c] \in {"unlock", "done"}
    /\ store' = store /\ aside' = None
    /\ \E r \in {"died", "unverified"} : result' = [result EXCEPT ![c] = r]

Quiet(c) ==
    /\ UNCHANGED Names
    /\ pc[c] # "displaced" /\ pc'[c] \notin {"displaced", "vacated"}
    /\ pc'[c] = "recheck" => pc[c] = "recheck"

\* A call that holds the lock and has not displaced the store finds it standing.
LEMMA StandingStore ==
    ASSUME IInv, NEW c \in Callers, pc[c] \in Holding \ {"displaced"}, store # None
    PROVE  Standing = store /\ Displaced = {}
<1>1. Displaced = {}
  BY Alone DEF IInv, Exclusion, Displaced, Holding, Callers
<1> QED
  BY <1>1 DEF Standing, Displaced

LEMMA StandingAside ==
    ASSUME store = None \/ Displaced # {}
    PROVE  Standing = aside
BY DEF Standing, Displaced

LEMMA StepKinds ==
    ASSUME IInv, NEW c \in Callers, Step(c)
    PROVE  \/ Swap(c) \/ Take(c) \/ Return(c) \/ Tearing(c) \/ Quiet(c)
<1> USE DEF Goto, Answer, Names
<1>1. pc = [d \in Callers |-> pc[d]] /\ result = [d \in Callers |-> result[d]]
  BY DEF IInv, TypeOK
<1>2. CASE Call(c) \/ LockExclusive(c) \/ LockShared(c) \/ Validate(c) \/ Recheck(c) \/ Audit(c)
  BY <1>1, <1>2 DEF Call, LockExclusive, LockShared, Validate, Recheck, Audit, Quiet
<1>3. CASE ReadStore(c) \/ Stamp(c)
  BY <1>1, <1>3 DEF ReadStore, Stamp, Quiet
<1>4. CASE Unlock(c)
  BY <1>1, <1>4 DEF Unlock, Leave, Quiet
<1>5. CASE Die(c)
  BY <1>1, <1>5 DEF Die, Leave, Quiet, Tearing
<1>6. CASE Commit(c)
  <2>1. pc[c] = "commit" => Standing = store \/ store = None
    BY StandingStore DEF Holding
  <2>2. pc[c] = "displaced" => Standing = aside
    <3>1. pc[c] = "displaced" => c \in Displaced
      BY DEF IInv, CallInv, Engaged, Displaced
    <3> QED
      BY <3>1, StandingAside
  <2>3. CASE Exchange(c)
    BY <1>1, <2>1, <2>3 DEF Exchange, Swap, Take
  <2>4. CASE Undo(c)
    BY <1>1, <2>2, <2>4 DEF Undo, Return
  <2>5. CASE UndoFails(c)
    BY <1>1, <2>2, <2>5 DEF UndoFails, Return, Tearing
  <2>6. CASE MoveAside(c)
    BY <1>1, <2>6 DEF MoveAside, Take
  <2>7. CASE Install(c)
    BY <1>1, <2>7, StandingAside DEF Install, Swap
  <2>8. CASE PutBack(c)
    BY <1>1, <2>8, StandingAside DEF PutBack, Return, Quiet
  <2>9. CASE CommitFails(c)
    BY <1>1, <2>9 DEF CommitFails, Quiet
  <2> QED
    BY <1>6, <2>3, <2>4, <2>5, <2>6, <2>7, <2>8, <2>9 DEF Commit
<1> QED
  BY <1>2, <1>3, <1>4, <1>5, <1>6 DEF Step

-----------------------------------------------------------------------------
(* Types and the lock. *)

LEMMA NamesType ==
    ASSUME IInv, NEW c \in Callers, Step(c)
    PROVE  {store', aside'} \subseteq Stores \cup {None}
<1>1. {store, aside} \subseteq Stores \cup {None}
  BY DEF IInv, TypeOK
<1>2. pc[c] \in {"commit", "vacated"} => candidate[c] \in Stores
  BY CandidateFacts
<1> QED
  BY <1>1, <1>2, StepKinds DEF Swap, Take, Return, Tearing, Quiet, Names

LEMMA StepType ==
    ASSUME IInv, NEW c \in Callers, Step(c)
    PROVE  TypeOK'
<1> USE DEF IInv, TypeOK, Goto, Answer, Outsider
<1>0. {store', aside'} \subseteq Stores \cup {None}
  BY NamesType
<1>1. CASE Call(c)
  BY <1>0, <1>1 DEF Call
<1>2. CASE LockExclusive(c) \/ LockShared(c)
  BY <1>0, <1>2 DEF LockExclusive, LockShared
<1>3. CASE ReadStore(c)
  BY <1>0, <1>3 DEF ReadStore
<1>4. CASE Validate(c)
  BY <1>0, <1>4 DEF Validate
<1>5. CASE Stamp(c)
  <2>1. CASE candidate' = candidate
    BY <1>0, <1>5, <2>1 DEF Stamp
  <2>2. CASE candidate' # candidate
    <3>1. /\ pc[c] = "validated"
          /\ candidate' = [candidate EXCEPT ![c] = Stamped(snapshot[c], asks[c][1], c, now)]
      BY <1>5, <2>2 DEF Stamp, Stamped
    <3>2. Engaged(c)
      BY DEF CallInv
    <3>3. /\ c \in Consumers /\ snapshot[c] \in Stores
          /\ asks[c][1] \in Approvals /\ snapshot[c][asks[c][1]] # None
      BY <3>1, <3>2 DEF Engaged, Reading, Record, Requests
    <3>4. Stamped(snapshot[c], asks[c][1], c, now) \in Stores
      BY <3>3, StampedType
    <3>5. candidate' \in [Callers -> Stores \cup {None}]
      BY <3>1, <3>4
    <3> QED
      BY <1>0, <1>5, <3>5 DEF Stamp
  <2> QED
    BY <2>1, <2>2
<1>6. CASE Commit(c)
  BY <1>0, <1>6 DEF Commit, Exchange, Undo, UndoFails, MoveAside, Install, PutBack, CommitFails
<1>7. CASE Recheck(c) \/ Audit(c)
  BY <1>0, <1>7 DEF Recheck, Audit
<1>8. CASE Unlock(c) \/ Die(c)
  BY <1>0, <1>8 DEF Unlock, Die, Leave
<1> QED
  BY <1>1, <1>2, <1>3, <1>4, <1>5, <1>6, <1>7, <1>8 DEF Step

LEMMA ExclusionStays ==
    ASSUME IInv, NEW c \in Callers, Step(c)
    PROVE  Exclusion'
<1> USE DEF IInv, TypeOK, Exclusion, Holding, Goto, Answer, Callers
<1>1. CASE Call(c)
  BY <1>1 DEF Call
<1>2. CASE LockExclusive(c)
  <2>1. writers = {} /\ readers = {} /\ c \in Consumers
    BY <1>2 DEF LockExclusive
  <2>2. \A d \in Callers : pc[d] \notin Holding
    <3>1. \A d \in Consumers : d \in {d}
      OBVIOUS
    <3> QED
      BY <2>1, <3>1
  <2> QED
    BY <1>2, <2>1, <2>2, ConstantsAssumption DEF LockExclusive
<1>3. CASE LockShared(c)
  <2>1. writers = {} /\ c \in Auditors
    BY <1>3 DEF LockShared
  <2>2. \A d \in Consumers : pc[d] \notin Holding
    <3>1. \A d \in Consumers : d \in {d}
      OBVIOUS
    <3> QED
      BY <2>1, <3>1
  <2> QED
    BY <1>3, <2>1, <2>2, ConstantsAssumption DEF LockShared
<1>4. CASE ReadStore(c) \/ Validate(c) \/ Stamp(c)
  BY <1>4 DEF ReadStore, Validate, Stamp
<1>5. CASE Commit(c)
  BY <1>5 DEF Commit, Exchange, Undo, UndoFails, MoveAside, Install, PutBack, CommitFails
<1>6. CASE Recheck(c) \/ Audit(c)
  BY <1>6 DEF Recheck, Audit
<1>7. CASE Unlock(c) \/ Die(c)
  BY <1>7, ConstantsAssumption DEF Unlock, Die, Leave
<1> QED
  BY <1>1, <1>2, <1>3, <1>4, <1>5, <1>6, <1>7 DEF Step

LEMMA PlacedStays ==
    ASSUME IInv, NEW c \in Callers, Step(c)
    PROVE  Placed'
<1>1. \A d \in Callers \ {c} : pc'[d] = pc[d]
  BY StepFrame DEF IInv, Untouched
<1>2. careful' = careful
  BY StepFrame DEF IInv, Outsider
<1>3. Swap(c) \/ Take(c) => candidate[c] # None /\ pc[c] \in Holding /\ c \in Consumers
  BY CandidateFacts, ConstantsAssumption DEF Swap, Take, Holding
<1>4. pc[c] \in {"commit", "displaced", "vacated"} =>
          \A d \in Callers \ {c} : pc[d] \notin {"displaced", "vacated"}
  BY CandidateFacts, Alone DEF Holding
<1>5. store = None => aside # None
  BY DEF IInv, Placed
<1>6. pc[c] \in {"displaced", "vacated"} => aside # None
  BY DEF IInv, Placed
<1>7. pc[c] = "displaced" => store # None
  BY DEF IInv, Placed
<1>8. CASE Swap(c)
  BY <1>1, <1>3, <1>4, <1>8 DEF Placed, Swap
<1>9. CASE Take(c)
  <2>1. pc'[c] = "displaced" => c \in Displaced'
    BY <1>3, <1>9 DEF Displaced
  <2> QED
    BY <1>1, <1>3, <1>4, <1>9, <2>1 DEF Placed, Take
<1>10. CASE Return(c)
  BY <1>1, <1>4, <1>6, <1>10 DEF Placed, Return
<1>11. CASE Tearing(c)
  BY <1>1, <1>4, <1>7, <1>11 DEF Placed, Tearing
<1>12. CASE Quiet(c)
  <2>1. Displaced' = Displaced
    BY <1>1, <1>12 DEF Displaced, Quiet, Callers
  <2> QED
    BY <1>1, <1>2, <1>12, <2>1 DEF IInv, Placed, Quiet, Names
<1> QED
  BY <1>8, <1>9, <1>10, <1>11, <1>12, StepKinds

-----------------------------------------------------------------------------
(* Whose consumptions the documents hold. *)

PastNext(c) == pc'[c] \in {"recheck", "unlock", "done"} /\ result'[c] # "refused"

AttributedNext(doc, extra) ==
    \A a \in Approvals :
        doc[a] # None /\ doc[a].by # None =>
            /\ PastNext(doc[a].by) \/ doc[a].by \in extra
            /\ asks'[doc[a].by] = <<a, doc[a].payload>>

\* Once past its commit, a consumer is never told that nothing was consumed.
LEMMA PastStays ==
    ASSUME IInv, NEW c \in Callers, Step(c), NEW d \in Callers, Past(d)
    PROVE  PastNext(d)
<1>1. CASE d # c
  BY <1>1, StepFrame DEF IInv, Untouched, Past, PastNext
<1>2. CASE d = c
  <2>1. pc[c] \in {"recheck", "unlock", "done"} /\ result[c] # "refused"
    BY <1>2 DEF Past
  <2>2. Recheck(c) \/ Unlock(c) \/ Die(c)
    BY <2>1 DEF Step, Call, LockExclusive, LockShared, ReadStore, Validate, Stamp, Commit,
                Exchange, Undo, UndoFails, MoveAside, Install, PutBack, CommitFails, Audit
  <2> QED
    BY <1>2, <2>1, <2>2 DEF Recheck, Unlock, Die, Leave, Answer, Goto, PastNext,
                            IInv, TypeOK
<1> QED
  BY <1>1, <1>2

\* What a call asks for, once it asks, it asks for to the end.
LEMMA AsksStay ==
    ASSUME IInv, NEW c \in Callers, Step(c), NEW d \in Callers, asks[d] # None
    PROVE  asks'[d] = asks[d]
<1>1. pc[d] # "idle"
  BY DEF IInv, CallInv, Engaged
<1> QED
  BY <1>1, StepFrame DEF IInv, Untouched, Call

LEMMA AttributedStays ==
    ASSUME IInv, NEW c \in Callers, Step(c), NEW doc \in Stores, NEW extra, NEW extra2,
           Attributed(doc, extra), \A d \in extra : d \in extra2 \/ PastNext(d)
    PROVE  AttributedNext(doc, extra2)
<1> SUFFICES ASSUME NEW a \in Approvals, doc[a] # None, doc[a].by # None
             PROVE  /\ PastNext(doc[a].by) \/ doc[a].by \in extra2
                    /\ asks'[doc[a].by] = <<a, doc[a].payload>>
  BY DEF AttributedNext
<1>1. doc[a] \in Records
  BY DEF Stores
<1>2. doc[a].by \in Callers /\ <<a, doc[a].payload>> \in Approvals \X Payloads
  BY <1>1 DEF Records, Callers
<1>3. /\ Past(doc[a].by) \/ doc[a].by \in extra
      /\ asks[doc[a].by] = <<a, doc[a].payload>>
  BY DEF Attributed
<1>4. asks'[doc[a].by] = <<a, doc[a].payload>>
  BY <1>2, <1>3, AsksStay, ConstantsAssumption
<1> QED
  BY <1>2, <1>3, <1>4, PastStays

LEMMA CandidateAttributed ==
    ASSUME IInv, NEW c \in Callers, Step(c), pc[c] \in {"commit", "vacated"},
           NEW extra, Echoes \subseteq extra, c \in extra \/ PastNext(c)
    PROVE  AttributedNext(candidate[c], extra)
<1>1. AttributedNext(snapshot[c], extra)
  BY CandidateFacts, AttributedStays
<1>2. asks[c] = <<asks[c][1], asks[c][2]>> /\ asks[c] # None
  BY CandidateFacts, ConstantsAssumption DEF Requests
<1>3. asks'[c] = asks[c]
  BY <1>2, AsksStay
<1>4. /\ candidate[c][asks[c][1]].by = c /\ candidate[c][asks[c][1]].payload = asks[c][2]
      /\ \A b \in Approvals \ {asks[c][1]} : candidate[c][b] = snapshot[c][b]
  BY CandidateFacts
<1> SUFFICES ASSUME NEW a \in Approvals, candidate[c][a] # None, candidate[c][a].by # None
             PROVE  /\ PastNext(candidate[c][a].by) \/ candidate[c][a].by \in extra
                    /\ asks'[candidate[c][a].by] = <<a, candidate[c][a].payload>>
  BY DEF AttributedNext
<1>5. CASE a = asks[c][1]
  BY <1>2, <1>3, <1>4, <1>5
<1>6. CASE a # asks[c][1]
  BY <1>1, <1>4, <1>6 DEF AttributedNext
<1> QED
  BY <1>5, <1>6

LEMMA EchoesStay ==
    ASSUME IInv, NEW c \in Callers, Step(c)
    PROVE  Echoes' = Echoes /\ peeked' = peeked /\ draft' = draft /\ careful' = careful
BY StepFrame DEF IInv, Outsider, Echoes

\* Who is displaced after a step.
LEMMA DisplacedNext ==
    ASSUME IInv, NEW c \in Callers, Step(c)
    PROVE  /\ Swap(c) \/ Return(c) \/ Tearing(c) => Displaced' = {}
           /\ Take(c) => Displaced' = IF pc'[c] = "displaced" THEN {c} ELSE {}
           /\ Tearing(c) => Displaced \subseteq {c}
           /\ Quiet(c) => Displaced' = Displaced
<1>1. \A d \in Callers \ {c} : pc'[d] = pc[d]
  BY StepFrame DEF IInv, Untouched
<1>2. pc[c] \in {"commit", "displaced", "vacated"} =>
          c \in Consumers /\ \A d \in Callers \ {c} : pc[d] # "displaced"
  BY CandidateFacts, Alone DEF Holding
<1>3. Swap(c) \/ Return(c) \/ Tearing(c) => Displaced' = {}
  BY <1>1, <1>2 DEF Swap, Return, Tearing, Displaced, Callers
<1>4. Take(c) => Displaced' = IF pc'[c] = "displaced" THEN {c} ELSE {}
  BY <1>1, <1>2 DEF Take, Displaced, Callers
<1>5. Tearing(c) => Displaced \subseteq {c}
  BY <1>2 DEF Tearing, Displaced, Callers
<1>6. Quiet(c) => Displaced' = Displaced
  BY <1>1 DEF Quiet, Displaced, Callers
<1> QED
  BY <1>3, <1>4, <1>5, <1>6

LEMMA StepDocuments ==
    ASSUME IInv, NEW c \in Callers, Step(c)
    PROVE  /\ store' # None => AttributedNext(store', Echoes \cup Displaced')
           /\ aside' # None => AttributedNext(aside', Echoes)
           /\ draft # None => AttributedNext(draft, peeked)
<1>1. {store, aside, draft} \subseteq Stores \cup {None}
  BY DEF IInv, TypeOK
<1>2. /\ store # None => Attributed(store, Echoes \cup Displaced)
      /\ aside # None => Attributed(aside, Echoes)
      /\ draft # None => Attributed(draft, peeked)
  BY DEF IInv, Documents
<1>3. draft # None => AttributedNext(draft, peeked)
  BY <1>1, <1>2, AttributedStays
<1>4. aside # None =>
          AttributedNext(aside, Echoes) /\ AttributedNext(aside, Echoes \cup Displaced')
  <2> SUFFICES ASSUME aside # None
               PROVE  /\ AttributedNext(aside, Echoes)
                      /\ AttributedNext(aside, Echoes \cup Displaced')
    OBVIOUS
  <2>1. aside \in Stores /\ Attributed(aside, Echoes)
    BY <1>1, <1>2
  <2>2. AttributedNext(aside, Echoes)
    BY <2>1, AttributedStays
  <2> QED
    BY <2>2 DEF AttributedNext
<1>5. CASE Swap(c)
  <2>1. PastNext(c)
    BY <1>5 DEF Swap, PastNext, IInv, CallInv, Decided
  <2>2. AttributedNext(candidate[c], Echoes \cup Displaced')
    BY <1>5, <2>1, CandidateAttributed DEF Swap
  <2> QED
    BY <1>3, <1>5, <2>2 DEF Swap
<1>6. CASE Take(c)
  <2>1. Displaced = {}
    BY <1>6, StandingStore DEF Take, Holding
  <2>2. Attributed(store, Echoes) /\ store \in Stores
    BY <1>1, <1>2, <1>6, <2>1 DEF Take
  <2>3. AttributedNext(store, Echoes)
    BY <2>2, AttributedStays
  <2>4. pc'[c] = "displaced" => AttributedNext(candidate[c], Echoes \cup Displaced')
    <3> SUFFICES ASSUME pc'[c] = "displaced"
                 PROVE  AttributedNext(candidate[c], Echoes \cup Displaced')
      OBVIOUS
    <3>1. c \in Displaced'
      BY <1>6, DisplacedNext
    <3> QED
      BY <1>6, <3>1, CandidateAttributed DEF Take
  <2> QED
    BY <1>3, <1>6, <2>3, <2>4 DEF Take
<1>7. CASE Return(c)
  BY <1>3, <1>4, <1>7 DEF Return
<1>8. CASE Tearing(c)
  <2>1. PastNext(c)
    BY <1>8 DEF Tearing, PastNext, IInv, TypeOK
  <2>2. \A d \in Echoes \cup Displaced : d \in Echoes \cup Displaced' \/ PastNext(d)
    BY <1>8, <2>1, DisplacedNext
  <2>3. store # None => AttributedNext(store, Echoes \cup Displaced')
    BY <1>1, <1>2, <2>2, AttributedStays
  <2> QED
    BY <1>3, <1>8, <2>3 DEF Tearing
<1>9. CASE Quiet(c)
  <2>1. \A d \in Echoes \cup Displaced : d \in Echoes \cup Displaced' \/ PastNext(d)
    BY <1>9, DisplacedNext
  <2>2. store # None => AttributedNext(store, Echoes \cup Displaced')
    BY <1>1, <1>2, <2>1, AttributedStays
  <2> QED
    BY <1>3, <1>4, <1>9, <2>2 DEF Quiet, Names
<1> QED
  BY <1>5, <1>6, <1>7, <1>8, <1>9, StepKinds

LEMMA DocumentsStay ==
    ASSUME IInv, NEW c \in Callers, Step(c)
    PROVE  Documents'
BY StepDocuments, EchoesStay DEF Documents, Attributed, AttributedNext, Past, PastNext

-----------------------------------------------------------------------------
(* What the calls know. *)

LEMMA ReadingNext ==
    ASSUME IInv, NEW c \in Callers, Step(c), pc'[c] \in Reading
    PROVE  \/ pc[c] \in Reading /\ snapshot'[c] = snapshot[c]
           \/ ReadStore(c) /\ pc[c] = "locked" /\ store # None /\ store[asks[c][1]] # None
              /\ snapshot'[c] = store /\ pc'[c] = "read" /\ Quiet(c)
BY DEF IInv, TypeOK, Reading, Goto, Answer, Leave, Quiet, Names, Step, Call, LockExclusive,
       LockShared, ReadStore, Validate, Stamp, Commit, Exchange, Undo, UndoFails, MoveAside,
       Install, PutBack, CommitFails, Recheck, Audit, Unlock, Die

LEMMA DecidedStays ==
    ASSUME IInv, NEW c \in Callers, Step(c)
    PROVE  \A d \in Callers : Decided(d)'
<1>1. ASSUME NEW d \in Callers, d # c PROVE Decided(d)'
  BY <1>1, StepFrame DEF IInv, CallInv, Decided, Untouched
<1>2. Decided(c)'
  BY DEF IInv, CallInv, TypeOK, Decided, Goto, Answer, Leave, Step, Call, LockExclusive,
         LockShared, ReadStore, Validate, Stamp, Commit, Exchange, Undo, UndoFails, MoveAside,
         Install, PutBack, CommitFails, Recheck, Audit, Unlock, Die
<1> QED
  BY <1>1, <1>2

\* A call holds on to what it has read.
LEMMA SnapshotStays ==
    ASSUME IInv, NEW c \in Callers, Step(c), NEW d \in Callers, pc'[d] \in Reading
    PROVE  snapshot'[d] \in Stores /\ AttributedNext(snapshot'[d], Echoes)
<1>1. \A e \in Callers : pc[e] \in Reading =>
          snapshot[e] \in Stores /\ AttributedNext(snapshot[e], Echoes)
  <2> SUFFICES ASSUME NEW e \in Callers, pc[e] \in Reading
               PROVE  snapshot[e] \in Stores /\ AttributedNext(snapshot[e], Echoes)
    OBVIOUS
  <2>1. snapshot[e] \in Stores /\ Attributed(snapshot[e], Echoes)
    BY DEF IInv, CallInv, Engaged
  <2> QED
    BY <2>1, AttributedStays
<1>2. CASE d # c
  BY <1>1, <1>2, StepFrame DEF IInv, Untouched
<1>3. CASE d = c /\ ReadStore(c) /\ pc[c] = "locked" /\ store # None /\ snapshot'[c] = store
  <2>1. Displaced = {} /\ store \in Stores
    BY <1>3, StandingStore DEF Holding, IInv, TypeOK
  <2>2. Attributed(store, Echoes)
    BY <1>3, <2>1 DEF IInv, Documents
  <2>3. AttributedNext(store, Echoes)
    BY <2>1, <2>2, AttributedStays
  <2> QED
    BY <1>3, <2>1, <2>3
<1> QED
  BY <1>1, <1>2, <1>3, ReadingNext

LEMMA EngagedStays ==
    ASSUME IInv, NEW c \in Callers, Step(c), NEW d \in Callers
    PROVE  Engaged(d)'
<1>0. Engaged(d) /\ Engaged(c)
  BY DEF IInv, CallInv
<1>1. pc'[d] \in Reading => snapshot'[d] \in Stores /\ Attributed(snapshot[d], Echoes)'
  <2>1. pc'[d] \in Reading => snapshot'[d] \in Stores /\ AttributedNext(snapshot'[d], Echoes)
    BY SnapshotStays
  <2> QED
    BY <2>1, EchoesStay DEF Attributed, AttributedNext, Past, PastNext
<1>2. CASE d # c
  BY <1>0, <1>1, <1>2, StepFrame DEF IInv, Untouched, Engaged, Record, Reading
<1>3. CASE d = c
  <2> USE DEF IInv, TypeOK, Goto, Answer
  <2>1. CASE Call(c)
    BY <1>3, <2>1 DEF Call, Engaged, Reading
  <2>2. CASE LockExclusive(c) \/ LockShared(c)
    BY <1>0, <1>3, <2>2 DEF LockExclusive, LockShared, Engaged, Reading
  <2>3. CASE ReadStore(c)
    BY <1>0, <1>1, <1>3, <2>3 DEF ReadStore, Engaged, Reading, Record
  <2>4. CASE Validate(c)
    BY <1>0, <1>1, <1>3, <2>4 DEF Validate, Valid, Engaged, Reading, Record
  <2>5. CASE Stamp(c)
    <3>1. CASE candidate' = candidate /\ pc'[c] = "unlock"
      BY <1>0, <1>3, <2>5, <3>1 DEF Stamp, Engaged, Reading
    <3>2. CASE /\ pc'[c] = "commit"
               /\ candidate' = [candidate EXCEPT ![c] = Stamped(snapshot[c], asks[c][1], c, now)]
      BY <1>0, <1>1, <1>3, <2>5, <3>2 DEF Stamp, Engaged, Reading, Record, Stamped
    <3> QED
      BY <2>5, <3>1, <3>2 DEF Stamp, Stamped
  <2>6. CASE Commit(c)
    BY <1>0, <1>1, <1>3, <2>6
       DEF Commit, Exchange, Undo, UndoFails, MoveAside, Install, PutBack, CommitFails,
           Engaged, Reading, Record
  <2>7. CASE Recheck(c) \/ Audit(c) \/ Unlock(c) \/ Die(c)
    BY <1>0, <1>3, <2>7 DEF Recheck, Audit, Unlock, Die, Leave, Engaged, Reading
  <2> QED
    BY <2>1, <2>2, <2>3, <2>4, <2>5, <2>6, <2>7 DEF Step
<1> QED
  BY <1>2, <1>3

\* The document that stands, across a step of a call.
LEMMA StandingNext ==
    ASSUME IInv, NEW c \in Callers, Step(c)
    PROVE  /\ Swap(c) => Standing' = candidate[c]
           /\ Tearing(c) => Standing = aside /\ Standing' = store
           /\ Take(c) \/ Return(c) \/ Quiet(c) => Standing' = Standing
<1>1. Standing' = IF store' = None \/ Displaced' # {} THEN aside' ELSE store'
  BY DEF Standing, Displaced
<1>2. Standing = IF store = None \/ Displaced # {} THEN aside ELSE store
  BY DEF Standing, Displaced
<1>3. Swap(c) => Standing' = candidate[c]
  BY <1>1, DisplacedNext, CandidateFacts, ConstantsAssumption DEF Swap
<1>4. Tearing(c) => Standing = aside /\ Standing' = store
  <2>1. pc[c] = "displaced" => c \in Displaced /\ store # None
    BY CandidateFacts DEF Displaced, IInv, Placed
  <2> QED
    BY <1>1, <1>2, <2>1, DisplacedNext DEF Tearing
<1>5. Take(c) => Standing' = Standing
  BY <1>1, DisplacedNext, StandingStore DEF Take, Holding
<1>6. Return(c) => Standing' = Standing
  BY <1>1, DisplacedNext DEF Return, IInv, Placed
<1>7. Quiet(c) => Standing' = Standing
  BY <1>1, <1>2, DisplacedNext DEF Quiet, Names
<1> QED
  BY <1>3, <1>4, <1>5, <1>6, <1>7

LEMMA CurrentStays ==
    ASSUME IInv, NEW c \in Callers, Step(c), NEW d \in Callers
    PROVE  Current(d)'
<1> SUFFICES ASSUME careful
             PROVE  /\ pc'[d] \in Reading => Alike(snapshot'[d], Standing')
                    /\ pc'[d] = "displaced" => Alike(candidate'[d], store')
  BY EchoesStay DEF Current, Alike
<1>1. \A e \in Callers : pc[e] \in Reading => Alike(snapshot[e], Standing)
  BY DEF IInv, CallInv, Current
<1>2. \A e \in Callers : pc[e] = "displaced" => Alike(candidate[e], store)
  BY DEF IInv, CallInv, Current
<1>3. CASE d # c
  <2>1. Untouched(d)
    BY <1>3, StepFrame DEF IInv
  <2>2. Swap(c) \/ Take(c) \/ Return(c) \/ Tearing(c) => pc[d] \notin Holding
    BY <1>3, CandidateFacts, Alone DEF Swap, Take, Return, Tearing, Holding
  <2>3. CASE pc[d] \notin Holding
    BY <2>1, <2>3 DEF Untouched, Holding, Reading
  <2>4. CASE Quiet(c)
    BY <1>1, <1>2, <2>1, <2>4, StandingNext DEF Untouched, Quiet, Names
  <2> QED
    BY <2>2, <2>3, <2>4, StepKinds
<1>4. CASE d = c
  <2>1. ASSUME pc'[c] \in Reading PROVE Alike(snapshot'[c], Standing')
    <3>1. Take(c) \/ Quiet(c)
      BY <2>1, StepKinds DEF Swap, Return, Tearing, Reading
    <3>2. Standing' = Standing
      BY <3>1, StandingNext
    <3>3. CASE pc[c] \in Reading /\ snapshot'[c] = snapshot[c]
      BY <1>1, <3>2, <3>3
    <3>4. CASE pc[c] = "locked" /\ store # None /\ snapshot'[c] = store
      <4>1. Standing = store
        BY <3>4, StandingStore DEF Holding
      <4> QED
        BY <3>2, <3>4, <4>1 DEF Alike
    <3> QED
      BY <2>1, <3>3, <3>4, ReadingNext
  <2>2. ASSUME pc'[c] = "displaced" PROVE Alike(candidate'[c], store')
    <3>1. Take(c) /\ store' = candidate'[c]
      BY <2>2, StepKinds DEF Swap, Take, Return, Tearing, Quiet
    <3> QED
      BY <3>1 DEF Alike
  <2> QED
    BY <1>4, <2>1, <2>2
<1> QED
  BY <1>3, <1>4

LEMMA OnRecordStays ==
    ASSUME IInv, NEW c \in Callers, Step(c), NEW d \in Consumers
    PROVE  OnRecord(d)'
<1> SUFFICES ASSUME careful, pc'[d] = "recheck" \/ result'[d] = "granted"
             PROVE  /\ store' # None => Holds(store, d)'
                    /\ aside' # None => Holds(aside, d)'
                    /\ \A e \in Callers : pc'[e] \in Reading => Holds(snapshot[e], d)'
  BY EchoesStay DEF OnRecord
<1>1. d \in Callers /\ d # None
  BY ConstantsAssumption DEF Callers
<1>2. CASE pc[d] = "recheck" \/ result[d] = "granted"
  <2>1. /\ store # None => Holds(store, d)
        /\ aside # None => Holds(aside, d)
        /\ \A e \in Callers : pc[e] \in Reading => Holds(snapshot[e], d)
    BY <1>2 DEF IInv, OnRecord
  <2>2. asks[d] \in Requests /\ pc[d] \in {"recheck", "unlock", "done"}
    BY <1>1, <1>2 DEF IInv, CallInv, Engaged, Decided
  <2>3. asks'[d] = asks[d]
    BY <1>1, <2>2, AsksStay, ConstantsAssumption DEF Requests
  <2>4. Swap(c) \/ Take(c) => Holds(candidate[c], d)
    <3> SUFFICES ASSUME Swap(c) \/ Take(c) PROVE Holds(candidate[c], d)
      OBVIOUS
    <3>1. pc[c] \in {"commit", "vacated"} /\ Holds(snapshot[c], d)
      BY <2>1 DEF Swap, Take, Reading
    <3>2. asks[d][1] \in Approvals \ {asks[c][1]}
      BY <1>1, <2>2, <3>1, CandidateFacts DEF Requests, Holds
    <3> QED
      BY <3>1, <3>2, CandidateFacts DEF Holds
  <2>5. /\ store' # None => Holds(store', d)
        /\ aside' # None => Holds(aside', d)
    BY <2>1, <2>4, StepKinds DEF Swap, Take, Return, Tearing, Quiet, Names
  <2>6. ASSUME NEW e \in Callers, pc'[e] \in Reading PROVE Holds(snapshot'[e], d)
    <3>1. CASE e # c
      BY <2>1, <2>6, <3>1, StepFrame DEF IInv, Untouched
    <3>2. CASE e = c
      BY <2>1, <2>6, <3>2, ReadingNext
    <3> QED
      BY <3>1, <3>2
  <2> QED
    BY <2>3, <2>5, <2>6 DEF Holds
<1>3. CASE pc[d] # "recheck" /\ result[d] # "granted"
  <2>1. d = c
    BY <1>1, <1>3, StepFrame DEF IInv, Untouched
  <2>2. Swap(c)
    <3>1. result'[c] # "granted"
      BY <1>3, <2>1 DEF IInv, TypeOK, Goto, Answer, Leave, Step, Call, LockExclusive,
         LockShared, ReadStore, Validate, Stamp, Commit, Exchange, Undo, UndoFails, MoveAside,
         Install, PutBack, CommitFails, Recheck, Audit, Unlock, Die
    <3> QED
      BY <1>3, <2>1, <3>1, StepKinds DEF Take, Return, Tearing, Quiet
  <2>3. Holds(candidate[c], c) /\ pc[c] \in Holding /\ c \in Consumers
    BY <2>2, CandidateFacts DEF Swap, Holds, Holding
  <2>4. ASSUME NEW e \in Callers, pc'[e] \in Reading PROVE FALSE
    <3>1. CASE e # c
      BY <2>3, <2>4, <3>1, Alone, StepFrame DEF IInv, Untouched, Reading, Holding
    <3>2. CASE e = c
      BY <2>2, <2>4, <3>2 DEF Swap, Reading
    <3> QED
      BY <3>1, <3>2
  <2> QED
    BY <2>1, <2>2, <2>3, <2>4 DEF Swap, Holds
<1> QED
  BY <1>2, <1>3

LEMMA UpheldStays ==
    ASSUME IInv, NEW c \in Callers, Step(c), NEW e \in Auditors
    PROVE  Upheld(e)'
<1> SUFFICES ASSUME result'[e] = "confirmed"
             PROVE  \E d \in Consumers : (PastNext(d) \/ d \in Echoes) /\ asks'[d] = asks'[e]
  BY EchoesStay DEF Upheld, Past, PastNext
<1>1. e \in Callers
  BY DEF Callers
<1>2. ASSUME NEW d \in Consumers, Past(d) \/ d \in Echoes, asks[d] = asks[e], asks[e] # None
      PROVE  (PastNext(d) \/ d \in Echoes) /\ asks'[d] = asks'[e]
  BY <1>1, <1>2, PastStays, AsksStay DEF Callers
<1>3. CASE result[e] = "confirmed"
  <2>1. PICK d \in Consumers : (Past(d) \/ d \in Echoes) /\ asks[d] = asks[e]
    BY <1>3 DEF IInv, Upheld
  <2>2. asks[e] # None
    BY <1>1, <1>3, ConstantsAssumption DEF IInv, CallInv, Decided, Engaged, Requests
  <2> QED
    BY <1>2, <2>1, <2>2
<1>4. CASE result[e] # "confirmed"
  <2>1. e = c
    BY <1>1, <1>4, StepFrame DEF IInv, Untouched
  <2>2. Audit(c)
    BY <1>4, <2>1 DEF Goto, Answer, Step, Call, LockExclusive, LockShared, ReadStore, Validate,
       Stamp, Commit, Exchange, Undo, UndoFails, MoveAside, Install, PutBack, CommitFails,
       Recheck, Unlock, Die, IInv, TypeOK
  <2>3. pc[c] = "read" /\ Confirmed(Record(c), asks[c][2])
    BY <2>1, <2>2 DEF Audit, Answer, IInv, TypeOK
  <2>4. /\ asks[c] \in Requests /\ snapshot[c] \in Stores
        /\ Attributed(snapshot[c], Echoes) /\ Record(c) # None
    BY <2>3 DEF IInv, CallInv, Engaged, Reading
  <2> DEFINE d == Record(c).by
  <2>5. asks[c] = <<asks[c][1], asks[c][2]>> /\ asks[c][1] \in Approvals
    BY <2>4 DEF Requests
  <2>6. d # None /\ Record(c).payload = asks[c][2]
    BY <2>3 DEF Confirmed
  <2>7. Record(c) \in Records
    BY <2>4, <2>5 DEF Record, Stores
  <2>8. d \in Consumers
    BY <2>6, <2>7 DEF Records
  <2>9. (Past(d) \/ d \in Echoes) /\ asks[d] = asks[c]
    BY <2>4, <2>5, <2>6 DEF Attributed, Record
  <2>10. asks[c] # None
    BY <2>4, ConstantsAssumption DEF Requests
  <2> QED
    BY <1>2, <2>1, <2>8, <2>9, <2>10
<1> QED
  BY <1>3, <1>4

LEMMA StepKeepsIInv ==
    ASSUME IInv, NEW c \in Callers, Step(c)
    PROVE  IInv'
<1>1. TypeOK' /\ Exclusion' /\ Placed' /\ Documents'
  BY StepType, ExclusionStays, PlacedStays, DocumentsStay
<1>2. \A d \in Callers : CallInv(d)'
  BY EngagedStays, DecidedStays, CurrentStays DEF CallInv
<1>3. (\A d \in Consumers : OnRecord(d)') /\ (\A e \in Auditors : Upheld(e)')
  BY OnRecordStays, UpheldStays
<1> QED
  BY <1>1, <1>2, <1>3 DEF IInv

-----------------------------------------------------------------------------
(* The steps of the issuer and of the clock leave every call where it is. *)

CallsStay == UNCHANGED <<pc, asks, snapshot, candidate, writers, readers, result, careful, aside>>

LEMMA EnvironmentFrame ==
    ASSUME IssuerRead \/ IssuerWrite \/ Tick \/ UNCHANGED vars
    PROVE  /\ CallsStay /\ Displaced' = Displaced
           /\ peeked \subseteq peeked' /\ Echoes \subseteq Echoes'
BY DEF IssuerRead, IssuerWrite, Tick, vars, Names, CallsStay, Displaced, Echoes

LEMMA EnvironmentType ==
    ASSUME IInv, IssuerRead \/ IssuerWrite \/ Tick \/ UNCHANGED vars
    PROVE  TypeOK'
<1> USE DEF IInv, TypeOK, Names
<1>1. CASE IssuerRead
  BY <1>1 DEF IssuerRead
<1>2. CASE IssuerWrite
  BY <1>2, FreshType DEF IssuerWrite
<1>3. CASE Tick
  BY <1>3, ConstantsAssumption DEF Tick
<1>4. CASE UNCHANGED vars
  BY <1>4 DEF vars
<1> QED
  BY <1>1, <1>2, <1>3, <1>4

\* What a document holds only grows with the issuer's reading.
LEMMA AttributedKept ==
    ASSUME CallsStay, NEW doc, NEW extra, NEW extra2, extra \subseteq extra2, Attributed(doc, extra)
    PROVE  AttributedNext(doc, extra2)
BY DEF CallsStay, Attributed, AttributedNext, Past, PastNext

LEMMA EnvironmentDocuments ==
    ASSUME IInv, IssuerRead \/ IssuerWrite \/ Tick \/ UNCHANGED vars
    PROVE  Documents'
<1>1. CallsStay /\ Displaced' = Displaced /\ peeked \subseteq peeked' /\ Echoes \subseteq Echoes'
  BY EnvironmentFrame
<1>2. /\ store # None => Attributed(store, Echoes \cup Displaced)
      /\ aside # None => Attributed(aside, Echoes)
      /\ draft # None => Attributed(draft, peeked)
  BY DEF IInv, Documents
<1>3. /\ store # None => AttributedNext(store, Echoes' \cup Displaced')
      /\ aside # None => AttributedNext(aside, Echoes')
      /\ draft # None => AttributedNext(draft, peeked')
  <2>1. Echoes \cup Displaced \subseteq Echoes' \cup Displaced'
    BY <1>1
  <2> QED
    BY <1>1, <1>2, <2>1, AttributedKept
<1>4. aside' = aside
  BY <1>1 DEF CallsStay
<1>5. /\ store' # None => AttributedNext(store', Echoes' \cup Displaced')
      /\ draft' # None => AttributedNext(draft', peeked')
  <2>1. CASE IssuerRead
    <3>1. store # None /\ store' = store /\ draft' = store
      BY <2>1 DEF IssuerRead, Names
    <3>2. Echoes \cup Displaced \subseteq peeked'
      BY <2>1 DEF IssuerRead, Displaced, Echoes
    <3>3. AttributedNext(store, peeked')
      BY <1>1, <1>2, <3>1, <3>2, AttributedKept
    <3> QED
      BY <1>3, <3>1, <3>3
  <2>2. CASE IssuerWrite
    <3>1. PICK a \in Approvals, p \in Payloads :
            /\ store'[a].by = None
            /\ \A b \in Approvals \ {a} : store'[b] = draft[b]
      BY <2>2, FreshType DEF IInv
    <3>2. draft # None /\ draft' = None
      BY <2>2 DEF IssuerWrite
    <3>3. AttributedNext(draft, Echoes' \cup Displaced')
      <4>1. CASE careful
        BY <1>3, <2>2, <3>2, <4>1 DEF IssuerWrite
      <4>2. CASE ~ careful
        <5>1. Echoes' = peeked'
          BY <2>2, <4>2 DEF IssuerWrite, Echoes
        <5> QED
          BY <1>3, <3>2, <5>1 DEF AttributedNext
      <4> QED
        BY <4>1, <4>2
    <3> QED
      BY <3>1, <3>2, <3>3 DEF AttributedNext
  <2>3. CASE Tick \/ UNCHANGED vars
    BY <1>3, <2>3 DEF Tick, vars, Names
  <2> QED
    BY <2>1, <2>2, <2>3
<1> QED
  BY <1>3, <1>4, <1>5 DEF Documents, Attributed, AttributedNext, Past, PastNext

\* A careful issuer only adds to the document under the store's name.
LEMMA IssuerAdds ==
    ASSUME IInv, IssuerRead \/ IssuerWrite \/ Tick \/ UNCHANGED vars, careful
    PROVE  /\ (store = None) <=> (store' = None)
           /\ Alike(store, store') /\ Alike(Standing, Standing')
           /\ \A d \in Callers : asks[d][1] \in Approvals /\ store # None /\ Holds(store, d)
                                    => Holds(store', d)
<1>1. (store = None) <=> (store' = None)
  BY FreshType DEF IInv, IssuerRead, IssuerWrite, Tick, vars, Names
<1>2. Alike(store, store')
  <2>1. CASE IssuerWrite
    BY <2>1, FreshType DEF IssuerWrite, Alike, IInv
  <2> QED
    BY <2>1 DEF IssuerRead, Tick, vars, Names, Alike
<1>3. Alike(Standing, Standing')
  BY <1>1, <1>2, EnvironmentFrame DEF Standing, Displaced, CallsStay, Alike
<1> QED
  BY <1>1, <1>2, <1>3 DEF Alike, Holds

LEMMA AlikeTransitive ==
    ASSUME NEW x, NEW y, NEW z, Alike(x, y), Alike(y, z)
    PROVE  Alike(x, z)
BY DEF Alike

LEMMA EnvironmentKeepsIInv ==
    ASSUME IInv, IssuerRead \/ IssuerWrite \/ Tick \/ UNCHANGED vars
    PROVE  IInv'
<1>1. CallsStay /\ Displaced' = Displaced /\ Echoes \subseteq Echoes'
  BY EnvironmentFrame
<1>2. TypeOK' /\ Exclusion' /\ Documents'
  BY <1>1, EnvironmentType, EnvironmentDocuments DEF IInv, Exclusion, CallsStay
<1>3. Placed'
  <2>1. store' = None => store = None
    BY FreshType DEF IInv, IssuerRead, IssuerWrite, Tick, vars, Names
  <2>2. careful => (store = None <=> store' = None)
    BY IssuerAdds
  <2> QED
    BY <1>1, <2>1, <2>2 DEF IInv, Placed, CallsStay
<1>4. ASSUME NEW d \in Callers PROVE CallInv(d)'
  <2>1. Engaged(d) /\ Decided(d) /\ Current(d)
    BY DEF IInv, CallInv
  <2>2. Attributed(snapshot[d], Echoes) => Attributed(snapshot[d], Echoes)'
    BY <1>1 DEF CallsStay, Attributed, Past
  <2>3. Engaged(d)'
    BY <1>1, <2>1, <2>2 DEF CallsStay, Engaged, Record
  <2>4. Decided(d)'
    BY <1>1, <2>1 DEF CallsStay, Decided
  <2>5. Current(d)'
    <3> SUFFICES ASSUME careful
                 PROVE  /\ pc[d] \in Reading => Alike(snapshot[d], Standing')
                        /\ pc[d] = "displaced" => Alike(candidate[d], store')
      BY <1>1 DEF Current, CallsStay, Alike
    <3>1. Alike(store, store') /\ Alike(Standing, Standing')
      BY IssuerAdds
    <3> QED
      BY <2>1, <3>1, AlikeTransitive DEF Current
  <2> QED
    BY <2>3, <2>4, <2>5 DEF CallInv
<1>5. ASSUME NEW d \in Consumers PROVE OnRecord(d)'
  <2> SUFFICES ASSUME careful, pc[d] = "recheck" \/ result[d] = "granted"
               PROVE  /\ store' # None => Holds(store', d)
                      /\ aside # None => Holds(aside, d)
                      /\ \A e \in Callers : pc[e] \in Reading => Holds(snapshot[e], d)
    BY <1>1 DEF OnRecord, CallsStay, Holds
  <2>1. /\ store # None => Holds(store, d)
        /\ aside # None => Holds(aside, d)
        /\ \A e \in Callers : pc[e] \in Reading => Holds(snapshot[e], d)
    BY DEF IInv, OnRecord
  <2>2. asks[d] \in Requests /\ d \in Callers
    BY DEF IInv, CallInv, Engaged, Decided, Callers
  <2> QED
    BY <2>1, <2>2, IssuerAdds DEF Requests
<1>6. \A e \in Auditors : Upheld(e)'
  BY <1>1 DEF IInv, Upheld, CallsStay, Past
<1> QED
  BY <1>2, <1>3, <1>4, <1>5, <1>6 DEF IInv

LEMMA Inductive == Spec => []IInv
<1>1. IInv /\ [Next]_vars => IInv'
  BY StepKeepsIInv, EnvironmentKeepsIInv DEF Next
<1> QED
  BY <1>1, InitIInv, PTL DEF Spec

-----------------------------------------------------------------------------
(* Theorems. *)

\* Every call and the store keep their types: verify_operator_approval never
\* commits a document that is not a store.
THEOREM TypeCorrect == Spec => []TypeOK
<1>1. IInv => TypeOK
  BY DEF IInv
<1> QED
  BY <1>1, Inductive, PTL

\* A call of verify_operator_approval that answers with a plain refusal has
\* no consumption in the store, unless the issuer has read its candidate
\* before it was undone and writes it back without looking again.
THEOREM RefusalsSpendNothing == Spec => []RefusedUnspent
<1>1. IInv => RefusedUnspent
  <2> SUFFICES ASSUME IInv, NEW c \in Consumers, c \notin Echoes, NEW a \in Approvals,
                      result[c] = "refused", store # None, store[a] # None, store[a].by = c
               PROVE  FALSE
    BY DEF RefusedUnspent
  <2>1. c # None /\ c \in Callers
    BY ConstantsAssumption DEF Callers
  <2>2. Past(c) \/ c \in Displaced
    BY <2>1 DEF IInv, Documents, Attributed
  <2>3. c \notin Displaced
    BY <2>1 DEF IInv, CallInv, Decided, Displaced
  <2> QED
    BY <2>2, <2>3 DEF Past
<1> QED
  BY <1>1, Inductive, PTL

\* While there is a store, a granted approval is on record in it as spent by
\* the call it was granted to, for as long as the issuer only replaces the
\* store it read, whoever fails or dies in a commit.
THEOREM GrantsStayOnRecord == Spec => []GrantOnRecord
<1>1. IInv => GrantOnRecord
  BY DEF IInv, OnRecord, Holds, GrantOnRecord
<1> QED
  BY <1>1, Inductive, PTL

\* With such an issuer no approval is granted to two calls.
THEOREM CarefulGrantsOnce == Spec => [](careful => GrantedOnce)
<1>1. IInv => (careful => GrantedOnce)
  BY DEF IInv, Placed, OnRecord, Holds, GrantedOnce
<1> QED
  BY <1>1, Inductive, PTL

\* verify_consumed_operator_approval confirms only a consumption of that
\* approval and payload by a call that was not refused, or whose candidate
\* the issuer wrote back.
THEOREM AuditsAreSound == Spec => []AuditSound
<1>1. IInv => AuditSound
  BY DEF IInv, Upheld, Past, AuditSound
<1> QED
  BY <1>1, Inductive, PTL

\* What has been issued and spent in old is so in new.
Later(old, new) ==
    \A a \in Approvals : old[a] # None =>
        /\ new[a] # None
        /\ new[a].payload = old[a].payload
        /\ old[a].by # None => new[a].by = old[a].by

LEMMA AlikeIsLater ==
    ASSUME NEW x, NEW y, Alike(x, y)
    PROVE  Later(x, y)
BY DEF Alike, Later

\* A commit that is torn leaves the candidate of a call over the document it
\* displaced: what was spent in that one is spent, and that alone and the
\* approval the call asked for.
LEMMA TearingSpends ==
    ASSUME IInv, careful, NEW c \in Callers, Step(c), Tearing(c)
    PROVE  /\ c \in Consumers /\ asks[c][1] \in Approvals
           /\ Standing[asks[c][1]] # None /\ Standing[asks[c][1]].by = None
           /\ Standing[asks[c][1]].payload = asks[c][2]
           /\ Standing'[asks[c][1]] # None /\ Standing'[asks[c][1]].by = c
           /\ Standing'[asks[c][1]].payload = asks[c][2]
           /\ \A b \in Approvals \ {asks[c][1]} :
                 /\ Standing[b] # None /\ Standing[b].by # None =>
                       /\ Standing'[b] # None /\ Standing'[b].by = Standing[b].by
                       /\ Standing'[b].payload = Standing[b].payload
                 /\ Standing'[b] # None /\ Standing'[b].by # None =>
                       Standing[b] # None /\ Standing[b].by = Standing'[b].by
<1>1. pc[c] = "displaced" /\ Standing' = store
  BY StandingNext DEF Tearing
<1>2. Alike(snapshot[c], Standing) /\ Alike(candidate[c], store)
  BY <1>1 DEF IInv, CallInv, Current, Reading
<1>3. /\ c \in Consumers /\ asks[c][1] \in Approvals
      /\ snapshot[c][asks[c][1]] # None /\ snapshot[c][asks[c][1]].by = None
      /\ snapshot[c][asks[c][1]].payload = asks[c][2]
      /\ candidate[c][asks[c][1]] # None /\ candidate[c][asks[c][1]].by = c
      /\ candidate[c][asks[c][1]].payload = asks[c][2]
      /\ \A b \in Approvals \ {asks[c][1]} : candidate[c][b] = snapshot[c][b]
  BY <1>1, CandidateFacts
<1> HIDE DEF Standing
<1> QED
  BY <1>1, <1>2, <1>3 DEF Alike

LEMMA TearingIsTorn ==
    ASSUME IInv, NEW c \in Callers, Tearing(c)
    PROVE  c \in Consumers /\ Torn(c)
BY CandidateFacts DEF Tearing, Torn, IInv, TypeOK

\* The document that stands only grows, but for what a torn commit takes.
LEMMA StandingGrows ==
    ASSUME IInv, Next, careful
    PROVE  \A a \in Approvals : Standing[a] # None =>
              \/ /\ Standing'[a] # None
                 /\ Standing'[a].payload = Standing[a].payload
                 /\ Standing[a].by # None => Standing'[a].by = Standing[a].by
              \/ Standing[a].by = None /\ \E c \in Consumers : Torn(c)
<1>1. CASE IssuerRead \/ IssuerWrite \/ Tick
  BY <1>1, IssuerAdds, AlikeIsLater DEF Later
<1>2. ASSUME NEW c \in Callers, Step(c), Swap(c)
      PROVE  Later(Standing, Standing')
  <2>1. /\ Standing = snapshot[c] /\ Standing' = candidate[c]
        /\ pc[c] \in {"commit", "displaced", "vacated"}
    BY <1>2, StandingNext DEF Swap
  <2> HIDE DEF Standing
  <2>2. Later(snapshot[c], candidate[c])
    BY <2>1, CandidateFacts DEF Later
  <2> QED
    BY <2>1, <2>2
<1>3. ASSUME NEW c \in Callers, Step(c), Take(c) \/ Return(c) \/ Quiet(c)
      PROVE  Later(Standing, Standing')
  BY <1>3, StandingNext DEF Later
<1>4. ASSUME NEW c \in Callers, Step(c), Tearing(c), NEW a \in Approvals, Standing[a] # None
      PROVE  \/ /\ Standing'[a] # None
                /\ Standing'[a].payload = Standing[a].payload
                /\ Standing[a].by # None => Standing'[a].by = Standing[a].by
             \/ Standing[a].by = None /\ \E d \in Consumers : Torn(d)
  <2>1. c \in Consumers /\ Torn(c)
    BY <1>4, TearingIsTorn
  <2> HIDE DEF Standing, Torn
  <2> QED
    BY <1>4, <2>1, TearingSpends
<1> HIDE DEF Standing, Torn
<1> QED
  BY <1>1, <1>2, <1>3, <1>4, StepKinds DEF Next, Later

\* With such an issuer, no step changes what an approval of the document that
\* stands approves or makes a spent one fresh again, and one that is not spent
\* is dropped only when a commit is torn.
THEOREM NothingIsUnissued == Spec => NothingUnissued
<1>1. IInv /\ [Next]_vars => [careful => \A a \in Approvals : Standing[a] # None =>
        \/ /\ Standing'[a] # None
           /\ Standing'[a].payload = Standing[a].payload
           /\ Standing[a].by # None => Standing'[a].by = Standing[a].by
        \/ Standing[a].by = None /\ \E c \in Consumers : Torn(c)]_vars
  BY StandingGrows
<1> QED
  BY <1>1, Inductive, PTL DEF Spec, NothingUnissued

-----------------------------------------------------------------------------
(* The refinement of SingleUse. *)

\* With a careful issuer the callers see the document that stands.
LEMMA CarefulSees ==
    ASSUME careful, careful' = careful
    PROVE  /\ Seen(Terms) = Terms /\ Seen(Spender) = Spender /\ Seen(asks) = asks
           /\ Seen(Terms)' = Terms' /\ Seen(Spender)' = Spender' /\ Seen(asks)' = asks'
BY DEF Seen

LEMMA SameSeen ==
    ASSUME Standing' = Standing
    PROVE  Terms' = Terms /\ Spender' = Spender
BY DEF Terms, Spender

LEMMA StandingType ==
    ASSUME IInv
    PROVE  Standing \in Stores
BY DEF IInv, TypeOK, Placed, Standing, Callers

\* An answer that is true of the document that stands.
LEMMA TellImplements ==
    ASSUME IInv, careful, careful' = careful, NEW c \in Callers,
           Standing' = Standing, asks' = asks, pc[c] # "idle", result[c] = "none",
           NEW r \in {"granted", "refused", "unverified", "confirmed", "died"},
           result' = [result EXCEPT ![c] = r],
           r = "granted" => Spender[asks[c][1]] = c,
           r = "refused" => Spender[asks[c][1]] # c,
           r = "confirmed" => /\ c \in Auditors
                              /\ Terms[asks[c][1]] = asks[c][2]
                              /\ Spender[asks[c][1]] # None
    PROVE  Single!Tell(c)
<1>1. asks[c] # None
  BY ConstantsAssumption DEF IInv, CallInv, Engaged, Requests
<1>2. Terms' = Terms /\ Spender' = Spender
  BY SameSeen
<1> HIDE DEF Terms, Spender
<1>3. /\ Seen(Terms) = Terms /\ Seen(Spender) = Spender /\ Seen(asks) = asks
      /\ Seen(Terms)' = Terms' /\ Seen(Spender)' = Spender' /\ Seen(asks)' = asks'
  BY CarefulSees
<1> QED
  BY <1>1, <1>2, <1>3 DEF Single!Tell

\* A commit that puts its candidate in place of what it read spends the approval.
LEMMA SwapImplements ==
    ASSUME IInv, careful, careful' = careful, NEW c \in Callers, Step(c), Swap(c)
    PROVE  Single!Spend(c) /\ c \in Consumers
<1> DEFINE a == asks[c][1]
<1>1. /\ pc[c] \in {"commit", "displaced", "vacated"} /\ asks' = asks /\ result' = result
      /\ Standing = snapshot[c] /\ Standing' = candidate[c]
  BY StandingNext DEF Swap
<1> HIDE DEF Standing
<1>2. result[c] = "none"
  BY <1>1 DEF IInv, CallInv, Decided
<1>3. /\ asks[c] \in Requests /\ asks[c] # None /\ c \in Consumers /\ a \in Approvals
      /\ Standing[a] # None /\ Standing[a].by = None /\ Standing[a].payload = asks[c][2]
  BY <1>1, CandidateFacts, ConstantsAssumption DEF Requests
<1>4. /\ Standing'[a] # None /\ Standing'[a].by = c /\ Standing'[a].payload = asks[c][2]
      /\ \A b \in Approvals \ {a} : Standing'[b] = Standing[b]
  BY <1>1, CandidateFacts
<1>5. Terms' = Terms /\ Terms[a] = asks[c][2]
  BY <1>3, <1>4 DEF Terms
<1>6. Spender' = [Spender EXCEPT ![a] = c] /\ Spender[a] = None
  BY <1>3, <1>4 DEF Spender
<1>7. /\ Seen(Terms) = Terms /\ Seen(Spender) = Spender /\ Seen(asks) = asks
      /\ Seen(Terms)' = Terms' /\ Seen(Spender)' = Spender' /\ Seen(asks)' = asks'
  BY CarefulSees
<1> HIDE DEF Terms, Spender
<1> QED
  BY <1>1, <1>2, <1>3, <1>5, <1>6, <1>7 DEF Single!Spend

\* A torn commit may spend it too, and says that it cannot tell, or nothing.
LEMMA TearingImplements ==
    ASSUME IInv, careful, careful' = careful, NEW c \in Callers, Step(c), Tearing(c)
    PROVE  Single!Tear(c) /\ c \in Consumers
<1> DEFINE a == asks[c][1]
<1>1. pc[c] = "displaced" /\ \E r \in {"unverified", "died"} : result' = [result EXCEPT ![c] = r]
  BY DEF Tearing
<1>2. result[c] = "none" /\ asks[c] # None /\ asks' = asks
  BY <1>1, StepFrame, CandidateFacts, ConstantsAssumption
     DEF IInv, CallInv, Decided, Requests, Call
<1>3. /\ c \in Consumers /\ a \in Approvals
      /\ Standing[a] # None /\ Standing[a].by = None
      /\ Standing[a].payload = asks[c][2]
      /\ Standing'[a] # None /\ Standing'[a].by = c
      /\ Standing'[a].payload = asks[c][2]
      /\ \A b \in Approvals \ {a} :
            /\ Standing[b] # None /\ Standing[b].by # None =>
                  /\ Standing'[b] # None /\ Standing'[b].by = Standing[b].by
                  /\ Standing'[b].payload = Standing[b].payload
            /\ Standing'[b] # None /\ Standing'[b].by # None =>
                  Standing[b] # None /\ Standing[b].by = Standing'[b].by
  BY TearingSpends
<1>4. Terms' \in [Approvals -> Payloads \cup {None}]
  <2>1. IInv'
    BY StepKeepsIInv
  <2>2. Standing' \in Stores
    BY <2>1 DEF IInv, TypeOK, Placed, Standing, Callers
  <2> HIDE DEF Standing
  <2>3. \A b \in Approvals : Standing'[b] \in Records \cup {None}
    BY <2>2 DEF Stores
  <2> QED
    BY <2>3 DEF Terms, Records
<1> HIDE DEF Standing
<1>5. Spender[a] = None /\ Terms[a] = asks[c][2] /\ Terms'[a] = Terms[a]
  BY <1>3 DEF Spender, Terms
<1>6. \A b \in Approvals \ {a} : Spender'[b] = Spender[b]
  BY <1>3 DEF Spender
<1>7. Spender'[a] = c
  BY <1>3 DEF Spender
<1>8. Spender' = [Spender EXCEPT ![a] = c]
  BY <1>6, <1>7 DEF Spender
<1>9. \A b \in Approvals : Spender[b] # None => Terms'[b] = Terms[b]
  BY <1>3, <1>5 DEF Spender, Terms
<1>10. /\ Seen(Terms) = Terms /\ Seen(Spender) = Spender /\ Seen(asks) = asks
       /\ Seen(Terms)' = Terms' /\ Seen(Spender)' = Spender' /\ Seen(asks)' = asks'
  BY CarefulSees
<1> HIDE DEF Terms, Spender
<1> QED
  BY <1>1, <1>2, <1>3, <1>4, <1>5, <1>8, <1>9, <1>10 DEF Single!Tear

\* Until a consumer is past its commit nothing in that document is its own.
LEMMA NotYetSpent ==
    ASSUME IInv, careful, NEW c \in Callers, pc[c] \notin {"idle", "recheck", "unlock", "done"}
    PROVE  Spender[asks[c][1]] # c
<1>1. asks[c][1] \in Approvals /\ c # None
  BY ConstantsAssumption DEF IInv, CallInv, Engaged, Requests, Callers
<1>2. Attributed(Standing, {})
  BY DEF IInv, Placed, Documents, Standing, Displaced, Echoes, Callers, Attributed
<1> HIDE DEF Standing
<1>3. ASSUME Standing[asks[c][1]] # None, Standing[asks[c][1]].by = c PROVE FALSE
  BY <1>1, <1>2, <1>3 DEF Attributed, Past
<1> QED
  BY <1>1, <1>3 DEF Spender

\* What an audit confirms on the document it read is so in the one that stands.
LEMMA ConfirmedStill ==
    ASSUME IInv, careful, NEW c \in Callers, pc[c] = "read",
           Confirmed(Record(c), asks[c][2])
    PROVE  Terms[asks[c][1]] = asks[c][2] /\ Spender[asks[c][1]] # None
<1>1. Engaged(c) /\ Alike(snapshot[c], Standing)
  BY DEF IInv, CallInv, Current, Reading
<1>2. asks[c][1] \in Approvals /\ Record(c) # None
  BY <1>1 DEF Engaged, Requests, Reading
<1>3. Record(c).by # None /\ Record(c).payload = asks[c][2]
  BY DEF Confirmed
<1> HIDE DEF Standing
<1> QED
  BY <1>1, <1>2, <1>3 DEF Alike, Record, Terms, Spender

LEMMA GrantedHolds ==
    ASSUME IInv, careful, NEW c \in Callers, pc[c] = "recheck"
    PROVE  Spender[asks[c][1]] = c
<1>1. c \in Consumers /\ asks[c][1] \in Approvals
  BY DEF IInv, CallInv, Engaged, Requests
<1>2. /\ store # None => Holds(store, c)
      /\ aside # None => Holds(aside, c)
  BY <1>1 DEF IInv, OnRecord
<1>3. Standing \in {store, aside} /\ Standing # None
  BY StandingType, ConstantsAssumption DEF Standing
<1> HIDE DEF Standing
<1> QED
  BY <1>1, <1>2, <1>3 DEF Spender, Holds

\* Each step of a call is a step of SingleUse or none.
LEMMA StepImplements ==
    ASSUME IInv, careful, NEW c \in Callers, Step(c)
    PROVE  [Single!Next]_(Single!vars)
<1>1. careful' = careful
  BY EchoesStay
<1>2. c \in Consumers \cup Auditors
  BY DEF Callers
<1>3. CASE Swap(c)
  BY <1>1, <1>3, SwapImplements DEF Single!Next
<1>4. CASE Tearing(c)
  BY <1>1, <1>4, TearingImplements DEF Single!Next
<1>5. CASE Standing' = Standing /\ asks' = asks /\ result' = result
  BY <1>1, <1>5, SameSeen DEF Single!vars, Seen
<1>6. CASE Call(c) /\ Standing' = Standing
  <2>1. asks[c] = None /\ result' = result
    BY <1>6 DEF Call, IInv, CallInv, Engaged
  <2>2. \E request \in Approvals \X Payloads : asks' = [asks EXCEPT ![c] = request]
    BY <1>6 DEF Call, Requests
  <2>3. Terms' = Terms /\ Spender' = Spender
    BY <1>6, SameSeen
  <2>4. Single!Ask(c)
    BY <1>1, <2>1, <2>2, <2>3, CarefulSees DEF Single!Ask
  <2> QED
    BY <1>2, <2>4 DEF Single!Next, Single!Callers
<1>7. CASE Standing' = Standing /\ ~ Call(c) /\ result' # result
  <2> SUFFICES Single!Tell(c)
    BY <1>2 DEF Single!Next, Single!Callers
  <2>1. asks' = asks
    BY <1>7, StepFrame DEF IInv
  <2>2. pc[c] \notin {"idle", "unlock", "done"}
    BY <1>7 DEF Step, LockExclusive, LockShared, ReadStore, Validate, Stamp, Commit, Exchange,
                Undo, UndoFails, MoveAside, Install, PutBack, CommitFails, Recheck, Audit,
                Unlock, Die
  <2>3. result[c] = "none"
    BY <2>2 DEF IInv, CallInv, Decided
  <2>4. CASE \E r \in {"unverified", "died"} : result' = [result EXCEPT ![c] = r]
    BY <1>1, <1>7, <2>1, <2>2, <2>3, <2>4, TellImplements
  <2>5. CASE result' = [result EXCEPT ![c] = "refused"] /\ pc[c] # "recheck"
    BY <1>1, <1>7, <2>1, <2>2, <2>3, <2>5, NotYetSpent, TellImplements
  <2>6. CASE Recheck(c) /\ result' = [result EXCEPT ![c] = "granted"]
    <3>1. Spender[asks[c][1]] = c
      BY <2>6, GrantedHolds DEF Recheck
    <3> QED
      BY <1>1, <1>7, <2>1, <2>2, <2>3, <2>6, <3>1, TellImplements
  <2>7. CASE Audit(c) /\ result' = [result EXCEPT ![c] = "confirmed"]
    <3>1. pc[c] = "read" /\ c \in Auditors
      BY <2>7 DEF Audit
    <3>2. Confirmed(Record(c), asks[c][2])
      BY <2>7 DEF Audit, Answer, IInv, TypeOK
    <3> QED
      BY <1>1, <1>7, <2>1, <2>2, <2>3, <2>7, <3>1, <3>2, ConfirmedStill, TellImplements
  <2> QED
    BY <1>7, <2>4, <2>5, <2>6, <2>7
       DEF Answer, Step, LockExclusive, LockShared, ReadStore, Validate, Stamp, Commit,
           Exchange, Undo, UndoFails, MoveAside, Install, PutBack, CommitFails, Recheck,
           Audit, Unlock, Die
<1>8. ~ Call(c) => asks' = asks
  BY StepFrame DEF IInv
<1>9. Take(c) \/ Return(c) \/ Quiet(c) => Standing' = Standing
  BY StandingNext
<1> QED
  BY <1>3, <1>4, <1>5, <1>6, <1>7, <1>8, <1>9, StepKinds

\* So is each step around the calls.
LEMMA EnvironmentImplements ==
    ASSUME IInv, careful, IssuerRead \/ IssuerWrite \/ Tick \/ UNCHANGED vars
    PROVE  [Single!Next]_(Single!vars)
<1>1. careful' = careful /\ asks' = asks /\ result' = result /\ Displaced' = Displaced
      /\ aside' = aside
  BY EnvironmentFrame DEF CallsStay
<1>2. CASE IssuerWrite /\ Displaced = {}
  <2>1. PICK a \in Approvals, p \in Payloads :
          /\ draft[a] = None
          /\ store' # None /\ store'[a] # None /\ store'[a].payload = p /\ store'[a].by = None
          /\ \A b \in Approvals \ {a} : store'[b] = draft[b]
    BY <1>2, FreshType DEF IInv
  <2>2. draft = store /\ store # None
    BY <1>2 DEF IssuerWrite
  <2>3. Standing = store /\ Standing' = store'
    BY <1>1, <1>2, <2>1, <2>2 DEF Standing, Displaced
  <2> HIDE DEF Standing
  <2>4. Terms' = [Terms EXCEPT ![a] = p] /\ Terms[a] = None
    BY <2>1, <2>2, <2>3 DEF Terms
  <2>5. Spender' = Spender
    BY <2>1, <2>2, <2>3 DEF Spender
  <2>6. Single!Issue(a)
    BY <1>1, <2>4, <2>5, CarefulSees DEF Single!Issue
  <2> QED
    BY <2>6 DEF Single!Next
<1>3. CASE Standing' = Standing
  BY <1>1, <1>3, SameSeen DEF Single!vars, Seen
<1>4. IssuerWrite /\ Displaced # {} => Standing' = Standing
  BY <1>1, StandingAside DEF Standing, Displaced
<1>5. IssuerRead \/ Tick \/ UNCHANGED vars => Standing' = Standing
  BY <1>1 DEF IssuerRead, Tick, vars, Names, Standing, Displaced
<1> QED
  BY <1>2, <1>3, <1>4, <1>5

\* verify_operator_approval implements SingleUse: with an issuer that only
\* replaces the store it read, every behaviour of the calls is one in which
\* each spends its approval in one step or not at all, and each answer is true
\* of that moment, though others see candidates that are then undone, and a
\* call may fail or die between any two of its system calls.
THEOREM ConsumptionIsAtomic == Spec => SingleUseSpec
<1>1. Init => Single!Init
  <2> SUFFICES ASSUME Init PROVE Single!Init
    OBVIOUS
  <2>0. Standing = [a \in Approvals |-> None]
    <3>1. store = [a \in Approvals |-> None] /\ store \in Stores
      BY DEF Init, Stores
    <3> QED
      BY <3>1, ConstantsAssumption DEF Init, Standing, Callers
  <2> HIDE DEF Standing
  <2>1. /\ Seen(Terms) = [a \in Approvals |-> None]
        /\ Seen(Spender) = [a \in Approvals |-> None]
    BY <2>0 DEF Seen, Terms, Spender
  <2>2. Seen(asks) = [c \in Callers |-> None]
    BY DEF Init, Seen
  <2>3. (IF careful THEN result ELSE [c \in Callers |-> "none"]) = [c \in Callers |-> "none"]
    BY DEF Init
  <2> QED
    BY <2>1, <2>2, <2>3 DEF Single!Init, Single!Callers, Callers
<1>2. IInv /\ [Next]_vars => [Single!Next]_(Single!vars)
  <2> SUFFICES ASSUME IInv, [Next]_vars PROVE [Single!Next]_(Single!vars)
    OBVIOUS
  <2>1. CASE careful
    BY <2>1, StepImplements, EnvironmentImplements DEF Next
  <2>2. CASE ~ careful
    <3>1. ~ careful'
      BY <2>2, EchoesStay, EnvironmentFrame DEF Next, CallsStay
    <3>2. DOMAIN asks = DOMAIN asks'
      <4>1. DOMAIN asks = Callers
        BY DEF IInv, TypeOK
      <4>2. IInv'
        BY StepKeepsIInv, EnvironmentKeepsIInv DEF Next
      <4>3. DOMAIN asks' = Callers
        BY <4>2 DEF IInv, TypeOK
      <4> QED
        BY <4>1, <4>3
    <3> QED
      BY <2>2, <3>1, <3>2 DEF Single!vars, Seen, Terms, Spender
  <2> QED
    BY <2>1, <2>2
<1> QED
  BY <1>1, <1>2, Inductive, PTL DEF Spec, SingleUseSpec, Single!Spec
============
