-------------------------- MODULE ActionChain_proofs --------------------------
(***************************************************************************)
(* Theorems about ActionChain, for any number of chains, plans, tokens and *)
(* changes of the files: what the record of a chain says of what ran, of   *)
(* how fresh its answers are and of the approvals it consumed.             *)
(***************************************************************************)
EXTENDS ActionChain, FiniteSetTheorems, SequenceTheorems, TLAPS

CallFields == {"pc", "plan", "records", "cache", "cur", "phase"}
StepFields == {"action", "text", "token", "saw", "top", "body", "cached", "since"}
Running == {"ready", "act", "record"}

\* A sequence of whatever it holds.
IsSeq(s) == s \in Seq({s[i] : i \in DOMAIN s})

\* What a call and its record look like.
Shape(c) ==
    /\ DOMAIN chain[c] = CallFields /\ chain[c].pc \in Running \cup {"idle", "complete", "failed"}
    /\ IsSeq(chain[c].records)
    /\ IsSeq(trail[c])
    /\ Len(chain[c].plan) \in Nat /\ DOMAIN chain[c].plan = 1 .. Len(chain[c].plan)
    /\ chain[c].pc = "idle" => chain[c].records = <<>> /\ chain[c].cache = {} /\ trail[c] = <<>>
    /\ chain[c].pc \in {"act", "record"} =>
        /\ DOMAIN chain[c].cur = StepFields /\ chain[c].cur.cached \in BOOLEAN
        /\ chain[c].cur.action = Now(c).action /\ chain[c].cur.action \in Actions
        /\ chain[c].pc = "act" => ~chain[c].cur.cached

\* A call runs only after its whole plan was checked, and its record is a prefix of the plan.
Follows(c) ==
    /\ chain[c].pc \in Running \cup {"complete"} \/ trail[c] # <<>> \/ Records(c) # <<>> => Preflight(chain[c].plan)
    /\ chain[c].pc \in Running => Len(Records(c)) < Len(chain[c].plan)
    /\ \A i \in DOMAIN Records(c) : Records(c)[i].action = chain[c].plan[i].action
    /\ \A i \in DOMAIN Records(c) : Records(c)[i].cached \in BOOLEAN

\* What was invoked is what the record shows, and the step that is under way.
Exact(c) ==
    /\ Answered(c) \subseteq Invoked(c) /\ Invoked(c) \subseteq Answered(c) \cup {Turn(c)}
    /\ chain[c].pc \in {"idle", "ready", "act"} => Turn(c) \notin Invoked(c)
    /\ chain[c].pc = "record" => (Turn(c) \in Invoked(c) <=> ~chain[c].cur.cached)
    /\ IsFiniteSet(Invoked(c)) /\ Len(trail[c]) = Cardinality(Invoked(c))

\* Answers that are kept do not depend on the files.
Fresh(c) ==
    /\ \A e \in chain[c].cache : e.action = "audit" /\ e.saw = None
    /\ chain[c].pc \in {"act", "record"} => chain[c].cur.since \in 0 .. world
    /\ chain[c].pc = "record" =>
        /\ chain[c].cur.saw # None => chain[c].cur.saw >= chain[c].cur.since
        /\ chain[c].cur.action = "audit" => chain[c].cur.saw = None
    /\ \A i \in DOMAIN Records(c) : Records(c)[i].saw # None => Records(c)[i].saw >= Records(c)[i].since

\* Step i of c says, or is about to say, that it consumed token t.
Says(cur) == ActionSpecs[cur.action].authority = "parameter_dependent" /\ ResultConsumes(cur.token, cur.top)
Claims(c, i, t) ==
    \/ i \in DOMAIN Records(c) /\ Records(c)[i].consumed /\ Records(c)[i].token = t
    \/ chain[c].pc = "record" /\ i = Turn(c) /\ Says(chain[c].cur) /\ chain[c].cur.token = t

Granted(c, i) == \E j \in DOMAIN trail[c] : trail[c][j].step = i /\ trail[c][j].verified

\* Such a step was granted the token, which was spent then and is claimed by no other.
Once ==
    /\ \A c \in Chains : \A i, t : Claims(c, i, t) => t \in spent /\ Granted(c, i)
    /\ \A c, d \in Chains : \A i, k, t : Claims(c, i, t) /\ Claims(d, k, t) => c = d /\ i = k

Inv ==
    /\ DOMAIN chain = Chains /\ DOMAIN trail = Chains /\ world \in Nat
    /\ \A c \in Chains : Shape(c) /\ Follows(c) /\ Exact(c) /\ Fresh(c)
    /\ Once

-----------------------------------------------------------------------------
(* Sequences that grow, and what the step of one call leaves.              *)

Grown(s, x, t) ==
    /\ IsSeq(t) /\ Len(t) = Len(s) + 1 /\ t[Len(t)] = x
    /\ DOMAIN t = DOMAIN s \cup {Len(t)} /\ Len(t) \notin DOMAIN s
    /\ \A i \in DOMAIN s : t[i] = s[i]

LEMMA Appended == ASSUME NEW s, IsSeq(s), NEW x PROVE Grown(s, x, Append(s, x))
<1> DEFINE S == {s[i] : i \in DOMAIN s} \cup {x}
           t == Append(s, x)
<1> USE DEF IsSeq
<1>1. s \in Seq(S) /\ x \in S
  <2>1. Len(s) \in Nat /\ DOMAIN s = 1 .. Len(s) /\ s \in [1 .. Len(s) -> {s[i] : i \in DOMAIN s}]
    OBVIOUS
  <2>2. s \in [1 .. Len(s) -> S]
    BY <2>1
  <2> QED BY <2>1, <2>2
<1> HIDE DEF S, t
<1>2. /\ t \in Seq(S) /\ Len(t) = Len(s) + 1 /\ t[Len(s) + 1] = x /\ \A i \in 1 .. Len(s) : t[i] = s[i]
  BY <1>1, AppendProperties DEF t
<1>3. DOMAIN s = 1 .. Len(s) /\ DOMAIN t = 1 .. Len(t) /\ Len(s) \in Nat
  BY <1>1, <1>2
<1>4. IsSeq(t)
  <2> DEFINE R == {t[i] : i \in DOMAIN t}
  <2>1. \A i \in 1 .. Len(t) : t[i] \in R
    BY <1>3
  <2>2. t \in [1 .. Len(t) -> S] /\ Len(t) \in Nat
    BY <1>2, LenProperties
  <2> HIDE DEF R
  <2>3. t \in [1 .. Len(t) -> R]
    BY <2>1, <2>2
  <2>4. t \in Seq(R)
    <3>1. \A n \in Nat : \A f : f \in [1 .. n -> R] => f \in Seq(R)
      <4>1. Seq(R) = UNION {[1 .. n -> R] : n \in Nat}
        BY SeqDef
      <4> QED BY <4>1, Zenon
    <3> QED BY <2>2, <2>3, <3>1
  <2> QED BY <2>4 DEF R
<1> QED BY <1>2, <1>3, <1>4 DEF Grown, t

LEMMA InitInv == Init => Inv
<1> SUFFICES ASSUME Init PROVE Inv
  OBVIOUS
<1>1. /\ DOMAIN chain = Chains /\ DOMAIN trail = Chains /\ world = 0
      /\ \A c \in Chains : chain[c] = Idle /\ trail[c] = <<>>
  BY DEF Init
<1>2. /\ DOMAIN Idle = CallFields /\ Idle.pc = "idle" /\ Idle.records = <<>> /\ Idle.plan = <<>> /\ Idle.cache = {}
  BY DEF Idle, CallFields
<1>3. IsSeq(<<>>) /\ Len(<<>>) = 0 /\ DOMAIN <<>> = 1 .. 0 /\ 1 .. 0 = {}
  BY DEF IsSeq
<1> HIDE DEF Idle
<1>4. ASSUME NEW c \in Chains PROVE Shape(c) /\ Follows(c)
  <2>1. chain[c] = Idle /\ trail[c] = <<>>
    BY <1>1
  <2>2. Shape(c)
    <3>1. /\ chain[c].records = <<>> /\ chain[c].plan = <<>> /\ chain[c].cache = {} /\ chain[c].pc = "idle"
          /\ DOMAIN chain[c] = CallFields /\ trail[c] = <<>>
      BY <1>2, <2>1
    <3> QED BY <1>3, <3>1 DEF Shape, Running
  <2>3. Follows(c)
    BY <1>2, <1>3, <2>1 DEF Follows, Running, Records
  <2> QED BY <2>2, <2>3
<1>5. ASSUME NEW c \in Chains PROVE Exact(c) /\ Fresh(c)
  <2>1. Records(c) = <<>> /\ Answered(c) = {} /\ Invoked(c) = {}
    BY <1>1, <1>2, <1>3 DEF Records, Answered, Invoked
  <2> QED BY <1>1, <1>2, <1>3, <2>1, FS_EmptySet DEF Exact, Fresh
<1>6. \A c \in Chains : \A i, t : ~Claims(c, i, t)
  BY <1>1, <1>2, <1>3 DEF Claims, Records
<1> QED BY <1>1, <1>4, <1>5, <1>6 DEF Inv, Once

\* A call is the same when its record, its trail and its state are.
LEMMA OtherKeeps == ASSUME Inv, NEW d \in Chains, chain'[d] = chain[d], trail'[d] = trail[d], world' \in Nat, world' >= world
                    PROVE  Shape(d)' /\ Follows(d)' /\ Exact(d)' /\ Fresh(d)'
<1>1. Shape(d) /\ Follows(d) /\ Exact(d) /\ Fresh(d) /\ world \in Nat
  BY DEF Inv
<1>2. Shape(d)' /\ Follows(d)'
  BY <1>1 DEF Shape, Follows, Records, Now, Turn
<1>3. Exact(d)'
  BY <1>1 DEF Exact, Answered, Invoked, Records, Turn
<1>4. Fresh(d)'
  BY <1>1 DEF Fresh, Records
<1> QED BY <1>2, <1>3, <1>4

LEMMA OneSteps == ASSUME Inv, NEW c \in Chains, NEW rec, chain' = [chain EXCEPT ![c] = rec],
                         DOMAIN trail' = Chains, \A d \in Chains : d # c => trail'[d] = trail[d],
                         world' = world, spent \subseteq spent',
                         Shape(c)', Follows(c)', Exact(c)', Fresh(c)',
                         \A i, t : Claims(c, i, t)' => t \in spent' /\ Granted(c, i)',
                         \A i, t : Claims(c, i, t)' => Claims(c, i, t) \/ t \notin spent,
                         \A i, k, t : Claims(c, i, t)' /\ Claims(c, k, t)' => i = k
                  PROVE  Inv'
<1>1. DOMAIN chain' = Chains /\ chain'[c] = rec /\ \A d \in Chains : d # c => chain'[d] = chain[d]
  BY DEF Inv
<1>2. ASSUME NEW d \in Chains PROVE Shape(d)' /\ Follows(d)' /\ Exact(d)' /\ Fresh(d)'
  BY <1>1, OtherKeeps DEF Inv
<1>3. \A d \in Chains : d # c => \A i, t : (Claims(d, i, t)' <=> Claims(d, i, t)) /\ (Granted(d, i)' <=> Granted(d, i))
  BY <1>1 DEF Claims, Granted, Records, Turn
<1>4. Once'
  <2>1. ASSUME NEW d \in Chains, NEW i, NEW t, Claims(d, i, t)' PROVE t \in spent' /\ Granted(d, i)'
    BY <1>3, <2>1 DEF Inv, Once
  <2>2. ASSUME NEW d \in Chains, NEW e \in Chains, NEW i, NEW k, NEW t, Claims(d, i, t)', Claims(e, k, t)'
        PROVE  d = e /\ i = k
    <3>1. CASE d = c /\ e = c
      BY <2>2, <3>1
    <3>2. CASE d # c /\ e # c
      BY <1>3, <2>2, <3>2 DEF Inv, Once
    <3>3. CASE d = c /\ e # c
      BY <1>3, <2>2, <3>3 DEF Inv, Once
    <3>4. CASE d # c /\ e = c
      BY <1>3, <2>2, <3>4 DEF Inv, Once
    <3> QED BY <3>1, <3>2, <3>3, <3>4
  <2> QED BY <2>1, <2>2 DEF Once
<1> QED BY <1>1, <1>2, <1>4 DEF Inv

-----------------------------------------------------------------------------
(* The steps.                                                              *)

LEMMA SubmitInv == ASSUME Inv, NEW c \in Chains, Submit(c) PROVE Inv'
<1>1. /\ Shape(c) /\ chain[c].pc = "idle" /\ UNCHANGED <<world, spent, trail>> /\ DOMAIN chain = Chains
      /\ chain[c].records = <<>> /\ trail[c] = <<>> /\ chain[c].cache = {}
  BY DEF Submit, Inv, Shape
<1>2. PICK plan \in Plans :
        chain' = [chain EXCEPT ![c] = [chain[c] EXCEPT !.plan = plan, !.pc = IF Preflight(plan) THEN "ready" ELSE "failed",
                                                       !.phase = IF Preflight(plan) THEN "execution" ELSE "preflight"]]
  BY DEF Submit, Set
<1> DEFINE rec == [chain[c] EXCEPT !.plan = plan, !.pc = IF Preflight(plan) THEN "ready" ELSE "failed",
                                   !.phase = IF Preflight(plan) THEN "execution" ELSE "preflight"]
<1>3. /\ DOMAIN rec = CallFields /\ rec.plan = plan /\ rec.pc = (IF Preflight(plan) THEN "ready" ELSE "failed")
      /\ rec.records = <<>> /\ rec.cache = {}
  BY <1>1 DEF Shape, CallFields
<1>4. chain' = [chain EXCEPT ![c] = rec]
  BY <1>2
<1> HIDE DEF rec
<1>5. chain'[c] = rec /\ trail'[c] = <<>>
  BY <1>1, <1>4
<1>6. Len(plan) \in Nat /\ DOMAIN plan = 1 .. Len(plan)
  BY ChainAssumption
<1>7. IsSeq(<<>>) /\ Len(<<>>) = 0 /\ DOMAIN <<>> = 1 .. 0 /\ 1 .. 0 = {}
  BY DEF IsSeq
<1>8. Shape(c)'
  BY <1>3, <1>5, <1>6, <1>7 DEF Shape, Running
<1>9. Follows(c)'
  <2>1. Preflight(plan) => Len(plan) > 0
    <3>1. plan # <<>> => Len(plan) # 0
      <4>1. ASSUME Len(plan) = 0 PROVE plan = <<>>
        BY <1>6, <1>7, <4>1
      <4> QED BY <4>1
    <3> QED BY <1>6, <3>1 DEF Preflight
  <2> QED BY <1>3, <1>5, <1>7, <2>1 DEF Follows, Records, Running
<1>10. Records(c)' = <<>> /\ Answered(c)' = {} /\ Invoked(c)' = {}
  BY <1>3, <1>5, <1>7 DEF Records, Answered, Invoked
<1>11. Exact(c)' /\ Fresh(c)'
  BY <1>3, <1>5, <1>7, <1>10, FS_EmptySet DEF Exact, Fresh
<1>12. \A i, t : ~Claims(c, i, t)'
  BY <1>3, <1>5, <1>7, <1>10 DEF Claims
<1> QED BY <1>1, <1>4, <1>8, <1>9, <1>11, <1>12, OneSteps DEF Inv

\* Of the reviewed actions only the audit is reused, and neither reading takes a token.
LEMMA Policies == \A a \in Actions : /\ Cacheable(a) <=> a = "audit"
                                     /\ a \in {"audit", "confine"} => ActionSpecs[a].authority = "none"
  BY DEF Actions, Cacheable, ActionSpecs, Policy

\* A step that moves on, with its record and plan as they were.
LEMMA Stays == ASSUME Inv, NEW c \in Chains, chain[c].pc \in Running, NEW rec, DOMAIN rec = CallFields,
                      chain' = [chain EXCEPT ![c] = rec],
                      rec.records = chain[c].records, rec.plan = chain[c].plan, rec.cache = chain[c].cache,
                      rec.pc \in {"act", "record", "failed"}
               PROVE  /\ chain'[c] = rec /\ Follows(c)' /\ Records(c)' = Records(c) /\ Answered(c)' = Answered(c)
                      /\ Turn(c)' = Turn(c) /\ Now(c)' = Now(c)
<1>1. chain'[c] = rec /\ Shape(c) /\ Follows(c)
  BY DEF Inv
<1>2. Records(c)' = Records(c) /\ Answered(c)' = Answered(c) /\ Turn(c)' = Turn(c) /\ Now(c)' = Now(c)
  BY <1>1 DEF Records, Answered, Turn, Now
<1>3. Follows(c)'
  BY <1>1, <1>2 DEF Follows, Running
<1> QED BY <1>1, <1>2, <1>3

\* A chain that fails keeps its record.
LEMMA FailInv == ASSUME Inv, NEW c \in Chains, chain[c].pc \in Running, Set(c, Failed(chain[c])), UNCHANGED <<world, spent, trail>>
                 PROVE  Inv'
<1> DEFINE rec == Failed(chain[c])
<1>1. /\ Shape(c) /\ Follows(c) /\ Exact(c) /\ Fresh(c) /\ DOMAIN chain = Chains /\ DOMAIN trail = Chains /\ Once
      /\ world \in Nat
  BY DEF Inv
<1>2. /\ DOMAIN rec = CallFields /\ rec.pc = "failed" /\ rec.records = chain[c].records
      /\ rec.plan = chain[c].plan /\ rec.cache = chain[c].cache
  BY <1>1 DEF Shape, CallFields, Failed
<1>3. chain' = [chain EXCEPT ![c] = rec] /\ trail'[c] = trail[c]
  BY DEF Set
<1> HIDE DEF rec
<1>4. /\ chain'[c] = rec /\ Follows(c)' /\ Records(c)' = Records(c) /\ Answered(c)' = Answered(c)
      /\ Turn(c)' = Turn(c)
  BY <1>2, <1>3, Stays
<1>5. Shape(c)'
  BY <1>1, <1>2, <1>3, <1>4 DEF Shape, Running
<1>6. Invoked(c)' = Invoked(c) /\ \A i : Granted(c, i)' <=> Granted(c, i)
  BY <1>3 DEF Invoked, Granted
<1>7. Exact(c)'
  BY <1>1, <1>2, <1>3, <1>4, <1>6 DEF Exact
<1>8. Fresh(c)'
  BY <1>1, <1>2, <1>4 DEF Fresh
<1>9. \A i, t : Claims(c, i, t)' => Claims(c, i, t)
  BY <1>2, <1>4 DEF Claims
<1>10. \A i, t : Claims(c, i, t)' => t \in spent' /\ Granted(c, i)'
  BY <1>1, <1>6, <1>9 DEF Once
<1>11. \A i, k, t : Claims(c, i, t)' /\ Claims(c, k, t)' => i = k
  BY <1>1, <1>9 DEF Once
<1> QED BY <1>1, <1>3, <1>5, <1>4, <1>7, <1>8, <1>9, <1>10, <1>11, OneSteps

LEMMA BeginInv == ASSUME Inv, NEW c \in Chains, Begin(c) PROVE Inv'
<1> DEFINE s == Now(c)
           text == Resolved(c)
           hits == {e \in chain[c].cache : e.action = s.action /\ e.text = text /\ e.token = s.token}
           fresh == [action |-> s.action, text |-> text, token |-> s.token, saw |-> None,
                     top |-> {}, body |-> FALSE, cached |-> FALSE, since |-> world]
           hit == CHOOSE e \in hits : TRUE
           kept == [fresh EXCEPT !.saw = hit.saw, !.top = hit.top, !.body = hit.body, !.cached = TRUE]
<1>1. /\ Shape(c) /\ Follows(c) /\ Exact(c) /\ Fresh(c) /\ DOMAIN chain = Chains /\ DOMAIN trail = Chains /\ Once
      /\ world \in Nat
  BY DEF Inv
<1>2. chain[c].pc = "ready" /\ UNCHANGED <<world, spent, trail>> /\ chain[c].pc \in Running
  BY DEF Begin, Running
<1>3. \/ Set(c, Failed(chain[c]))
      \/ /\ StepFits(chain[c].plan, Turn(c))
         /\ \/ Cacheable(s.action) /\ hits # {} /\ Set(c, [chain[c] EXCEPT !.pc = "record", !.cur = kept])
            \/ Set(c, [chain[c] EXCEPT !.pc = "act", !.cur = fresh])
  BY Zenon DEF Begin
<1>4. CASE Set(c, Failed(chain[c]))
  BY <1>2, <1>4, FailInv
<1>5. ASSUME StepFits(chain[c].plan, Turn(c)), NEW pc \in {"act", "record"}, NEW cur, DOMAIN cur = StepFields,
             cur.action = s.action, cur.since = world, cur.cached = (pc = "record"),
             pc = "record" => cur.saw = None /\ cur.action = "audit",
             Set(c, [chain[c] EXCEPT !.pc = pc, !.cur = cur])
      PROVE  Inv'
  <2> DEFINE rec == [chain[c] EXCEPT !.pc = pc, !.cur = cur]
  <2>1. /\ DOMAIN rec = CallFields /\ rec.pc = pc /\ rec.cur = cur /\ rec.records = chain[c].records
        /\ rec.plan = chain[c].plan /\ rec.cache = chain[c].cache
    BY <1>1 DEF Shape, CallFields
  <2>2. chain' = [chain EXCEPT ![c] = rec] /\ trail'[c] = trail[c]
    BY <1>2, <1>5 DEF Set
  <2> HIDE DEF rec
  <2>3. /\ chain'[c] = rec /\ Follows(c)' /\ Records(c)' = Records(c) /\ Answered(c)' = Answered(c)
        /\ Turn(c)' = Turn(c) /\ Now(c)' = Now(c)
    BY <1>2, <2>1, <2>2, Stays
  <2>4. cur.action \in Actions
    BY <1>5 DEF StepFits, Now
  <2>5. Shape(c)'
    <3>1. cur.cached \in BOOLEAN
      BY <1>5
    <3>2. /\ DOMAIN chain'[c] = CallFields /\ chain'[c].pc \in {"act", "record"}
          /\ chain'[c].records = chain[c].records /\ chain'[c].plan = chain[c].plan /\ trail'[c] = trail[c]
          /\ chain'[c].cur = cur
      BY <1>5, <2>1, <2>2, <2>3
    <3>3. DOMAIN cur = StepFields /\ cur.action = Now(c)'.action
      BY <1>5, <2>3
    <3>4. chain'[c].pc = "act" => ~cur.cached
      BY <1>5, <2>1, <2>3
    <3> QED BY <1>1, <2>4, <3>1, <3>2, <3>3, <3>4 DEF Shape, Running
  <2>6. Invoked(c)' = Invoked(c) /\ \A i : Granted(c, i)' <=> Granted(c, i)
    BY <2>2 DEF Invoked, Granted
  <2>7. Exact(c)'
    BY <1>1, <1>2, <1>5, <2>1, <2>2, <2>3, <2>6 DEF Exact
  <2>8. Fresh(c)'
    BY <1>1, <1>2, <1>5, <2>1, <2>3 DEF Fresh
  <2>9. \A i, t : Claims(c, i, t)' => Claims(c, i, t)
    <3>1. pc = "record" => ~Says(cur)
      BY <1>5, <2>4, Policies DEF Says
    <3> QED BY <2>1, <2>3, <3>1 DEF Claims
  <2>10. \A i, t : Claims(c, i, t)' => t \in spent' /\ Granted(c, i)'
    BY <1>1, <1>2, <2>6, <2>9 DEF Once
  <2>11. \A i, k, t : Claims(c, i, t)' /\ Claims(c, k, t)' => i = k
    BY <1>1, <2>9 DEF Once
  <2> QED BY <1>1, <1>2, <2>2, <2>3, <2>5, <2>7, <2>8, <2>9, <2>10, <2>11, OneSteps
<1>6. CASE /\ StepFits(chain[c].plan, Turn(c)) /\ Set(c, [chain[c] EXCEPT !.pc = "act", !.cur = fresh])
  <2>1. DOMAIN fresh = StepFields /\ fresh.action = s.action /\ fresh.since = world /\ fresh.cached = FALSE
    BY DEF StepFields
  <2> HIDE DEF fresh
  <2> QED BY <1>5, <1>6, <2>1
<1>7. CASE /\ StepFits(chain[c].plan, Turn(c)) /\ Cacheable(s.action) /\ hits # {}
           /\ Set(c, [chain[c] EXCEPT !.pc = "record", !.cur = kept])
  <2>1. hit \in chain[c].cache
    BY <1>7
  <2>2. /\ DOMAIN kept = StepFields /\ kept.action = s.action /\ kept.since = world /\ kept.cached = TRUE
        /\ kept.saw = hit.saw
    BY DEF StepFields
  <2>3. s.action \in Actions
    BY <1>7 DEF StepFits, Now
  <2> HIDE DEF kept, hit
  <2>4. kept.saw = None /\ kept.action = "audit"
    BY <1>1, <1>7, <2>1, <2>2, <2>3, Policies DEF Fresh
  <2> QED BY <1>5, <1>7, <2>2, <2>4
<1> QED BY <1>3, <1>4, <1>6, <1>7

\* The run of a step's function leaves one entry of that step.
LEMMA Ran == ASSUME Inv, NEW c \in Chains, chain[c].pc = "act", NEW n, n = Turn(c), NEW x, x.step = n,
                    trail' = [trail EXCEPT ![c] = Append(trail[c], x)]
             PROVE  /\ DOMAIN trail' = Chains /\ \A d \in Chains : d # c => trail'[d] = trail[d]
                    /\ IsSeq(trail'[c]) /\ trail'[c] # <<>>
                    /\ Invoked(c)' = Invoked(c) \cup {n} /\ n \notin Invoked(c)
                    /\ IsFiniteSet(Invoked(c)') /\ Len(trail'[c]) = Cardinality(Invoked(c)')
                    /\ \A i : Granted(c, i) => Granted(c, i)'
                    /\ x.verified => Granted(c, n)'
<1>1. Shape(c) /\ Exact(c) /\ DOMAIN trail = Chains /\ trail'[c] = Append(trail[c], x)
  BY DEF Inv
<1> DEFINE s == trail[c]
           t == trail'[c]
<1>2. IsSeq(s) /\ t = Append(s, x)
  BY <1>1 DEF Shape
<1>3. Invoked(c) = {s[i].step : i \in DOMAIN s} /\ Invoked(c)' = {t[i].step : i \in DOMAIN t}
  BY DEF Invoked
<1>4. /\ \A i : Granted(c, i) <=> \E j \in DOMAIN s : s[j].step = i /\ s[j].verified
      /\ \A i : Granted(c, i)' <=> \E j \in DOMAIN t : t[j].step = i /\ t[j].verified
  BY DEF Granted
<1>5. n \notin Invoked(c) /\ IsFiniteSet(Invoked(c)) /\ Len(s) = Cardinality(Invoked(c))
  BY <1>1 DEF Exact
<1> HIDE DEF s, t
<1>6. Grown(s, x, t)
  BY <1>2, Appended
<1>7. t # <<>> /\ Len(t) = Cardinality(Invoked(c)) + 1
  BY <1>5, <1>6 DEF Grown
<1>8. Invoked(c)' = Invoked(c) \cup {n}
  <2>1. \A i \in DOMAIN t : t[i].step \in Invoked(c) \cup {n}
    BY <1>3, <1>6 DEF Grown
  <2>2. \A i \in DOMAIN s : s[i].step \in Invoked(c)'
    BY <1>3, <1>6 DEF Grown
  <2>3. n \in Invoked(c)'
    BY <1>3, <1>6 DEF Grown
  <2> QED BY <1>3, <2>1, <2>2, <2>3
<1>9. IsFiniteSet(Invoked(c)') /\ Cardinality(Invoked(c)') = Cardinality(Invoked(c)) + 1
  BY <1>5, <1>8, FS_AddElement
<1>10. (\A i : Granted(c, i) => Granted(c, i)') /\ (x.verified => Granted(c, n)')
  BY <1>4, <1>6 DEF Grown
<1>11. DOMAIN trail' = Chains /\ \A d \in Chains : d # c => trail'[d] = trail[d]
  BY <1>1
<1> QED BY <1>5, <1>6, <1>7, <1>8, <1>9, <1>10, <1>11 DEF Grown, t

\* Only the intake of a granted approval says at its top level that it was consumed.
LEMMA Tells == \A token, top :
                  /\ top \in {{}, {"blocked"}, {"incomplete"}, {"error"}, {"inspection_required"},
                              {"error"} \cup {}, {"error"} \cup {"inspection_required"}} => ~ResultConsumes(token, top)
                  /\ ResultConsumes(token, top) => token # None
  BY DEF ResultConsumes, Refusing, Confirming

\* What the run of a function leaves: an entry of its trail, then an answer that may depend on
\* the files only for the reading of them, and that tells only of an approval that was granted
\* now; or nothing but the entry.
Entered(c, token, verified) == Did(c, token, verified) /\ spent \subseteq spent'
Told(c, verified, saw, top) ==
    /\ saw = None \/ (saw = world /\ chain[c].cur.action # "audit")
    /\ ResultConsumes(chain[c].cur.token, top) =>
          /\ verified /\ chain[c].cur.token \notin spent /\ chain[c].cur.token \in spent'
Answer(c, verified) == \E saw, top, body : Returns(c, saw, top, body) /\ Told(c, verified, saw, top)

LEMMA Quiet == ASSUME NEW c \in Chains, NEW verified, NEW top, NEW body, Returns(c, None, top, body),
                      top \in {{}, {"blocked"}, {"incomplete"}, {"error"}, {"inspection_required"},
                              {"error"} \cup {}, {"error"} \cup {"inspection_required"}}
               PROVE  Answer(c, verified)
<1>1. ~ResultConsumes(chain[c].cur.token, top)
  BY Tells
<1>2. Told(c, verified, None, top)
  BY <1>1 DEF Told
<1> QED BY <1>2 DEF Answer

LEMMA Verified == ASSUME NEW c \in Chains, NEW v \in Verdicts(c), Verify(c, v)
                  PROVE  \E token, verified : /\ Entered(c, token, verified)
                                              /\ v = "granted" =>
                                                   /\ verified /\ chain[c].cur.token \notin spent
                                                   /\ chain[c].cur.token \in spent'
<1> DEFINE mine == chain[c].cur.token
<1>1. v = "granted" => mine \notin spent
  BY DEF Verdicts
<1>2. CASE v = "granted"
  <2>1. spent' = spent \cup {mine} /\ Did(c, mine, v = "granted")
    BY <1>2, Zenon DEF Verify
  <2>2. (v = "granted") = TRUE
    BY <1>2
  <2>3. Did(c, mine, TRUE)
    BY <2>1, <2>2
  <2> QED BY <1>1, <2>1, <2>3 DEF Entered
<1>3. CASE v # "granted"
  <2>1. \/ spent' = spent \cup {mine} /\ Did(c, mine, v = "granted")
        \/ UNCHANGED spent /\ Did(c, None, FALSE)
    BY DEF Verify
  <2> QED BY <1>3, <2>1 DEF Entered
<1> QED BY <1>2, <1>3

LEMMA ActForm == ASSUME Inv, NEW c \in Chains, Act(c)
                 PROVE  \E token, verified : Entered(c, token, verified) /\ (Raises(c) \/ Answer(c, verified))
<1>1. CASE Audit(c)
  <2>1. Entered(c, None, FALSE) /\ Returns(c, None, {}, TRUE)
    BY <1>1 DEF Audit, Entered
  <2>2. Answer(c, FALSE)
    BY <2>1, Quiet
  <2> QED BY <2>1, <2>2
<1>2. CASE Confine(c)
  <2>1. Did(c, None, FALSE) /\ UNCHANGED spent /\ chain[c].cur.action = "confine"
    BY <1>2 DEF Confine
  <2>2. CASE Raises(c)
    BY <2>1, <2>2 DEF Entered
  <2>3. CASE Returns(c, world, {}, TRUE)
    <3>1. ~ResultConsumes(chain[c].cur.token, {})
      BY Tells
    <3>2. Answer(c, FALSE)
      <4>1. Told(c, FALSE, world, {})
        BY <2>1, <3>1 DEF Told
      <4> QED BY <2>3, <4>1 DEF Answer
    <3> QED BY <2>1, <3>2 DEF Entered
  <2> QED BY <1>2, <2>2, <2>3 DEF Confine
<1>3. CASE Intake(c)
  <2>1. CASE ~Ready(chain[c].cur.text)
    <3>1. Entered(c, None, FALSE) /\ Returns(c, None, {"incomplete"}, FALSE)
      BY <1>3, <2>1 DEF Intake, NoVerdict, Entered
    <3>2. Answer(c, FALSE)
      BY <3>1, Quiet
    <3> QED BY <3>1, <3>2
  <2>2. CASE Ready(chain[c].cur.text)
    <3>1. PICK v \in Verdicts(c) :
            /\ Verify(c, v)
            /\ \/ v = "uncertain" /\ Returns(c, None, {"inspection_required"}, FALSE)
               \/ v # "uncertain" /\ Returns(c, None, IF v = "granted" THEN {"approval_verified"} ELSE {}, TRUE)
               \/ Raises(c)
      BY <1>3, <2>2 DEF Intake
    <3>2. PICK token, verified :
            /\ Entered(c, token, verified)
            /\ v = "granted" => verified /\ chain[c].cur.token \notin spent /\ chain[c].cur.token \in spent'
      BY <3>1, Verified
    <3>3. CASE Raises(c)
      BY <3>2, <3>3
    <3>4. CASE v = "granted" /\ Returns(c, None, {"approval_verified"}, TRUE)
      <4>1. Answer(c, verified)
        <5>1. verified /\ chain[c].cur.token \notin spent /\ chain[c].cur.token \in spent'
          BY <3>2, <3>4
        <5>2. Told(c, verified, None, {"approval_verified"})
          BY <5>1 DEF Told
        <5> QED BY <3>4, <5>2 DEF Answer
      <4> QED BY <3>2, <4>1
    <3>5. CASE \/ Returns(c, None, {"inspection_required"}, FALSE)
               \/ Returns(c, None, {}, TRUE)
      <4>1. Answer(c, verified)
        BY <3>5, Quiet
      <4> QED BY <3>2, <4>1
    <3> QED BY <3>1, <3>3, <3>4, <3>5
  <2> QED BY <2>1, <2>2
<1>4. CASE HumanGate(c)
  <2>1. CASE ~Ready(chain[c].cur.text)
    <3>1. Entered(c, None, FALSE) /\ (Raises(c) \/ Returns(c, None, {"blocked"}, FALSE))
      BY <1>4, <2>1 DEF HumanGate, NoVerdict, Entered
    <3>2. Returns(c, None, {"blocked"}, FALSE) => Answer(c, FALSE)
      BY Quiet
    <3> QED BY <3>1, <3>2
  <2>2. CASE Ready(chain[c].cur.text)
    <3>1. PICK v \in Verdicts(c) :
            /\ Verify(c, v)
            /\ CASE v = "uncertain" -> Returns(c, None, {"inspection_required"}, FALSE)
                 [] v = "refused" /\ chain[c].cur.token # None -> Returns(c, None, {"blocked"}, FALSE)
                 [] OTHER -> Returns(c, None, {}, TRUE)
      BY <1>4, <2>2 DEF HumanGate
    <3>2. PICK token, verified : Entered(c, token, verified)
      BY <3>1, Verified
    <3>3. \/ Returns(c, None, {"inspection_required"}, FALSE) \/ Returns(c, None, {"blocked"}, FALSE)
          \/ Returns(c, None, {}, TRUE)
      BY <3>1
    <3>4. Answer(c, verified)
      BY <3>3, Quiet
    <3> QED BY <3>2, <3>4
  <2> QED BY <2>1, <2>2
<1>5. CASE Checkpoint(c)
  <2>1. CASE ~Ready(chain[c].cur.text)
    <3>1. /\ Entered(c, None, FALSE)
          /\ Returns(c, None, {"blocked"}, FALSE) \/ Returns(c, None, {"error"}, FALSE)
      BY <1>5, <2>1 DEF Checkpoint, NoVerdict, Entered
    <3>2. Answer(c, FALSE)
      BY <3>1, Quiet
    <3> QED BY <3>1, <3>2
  <2>2. CASE Ready(chain[c].cur.text) /\ NoVerdict(c) /\ Returns(c, None, {}, TRUE)
    <3>1. Entered(c, None, FALSE)
      BY <2>2 DEF NoVerdict, Entered
    <3>2. Answer(c, FALSE)
      BY <2>2, Quiet
    <3> QED BY <3>1, <3>2
  <2>3. CASE \E v \in Verdicts(c) : Verify(c, v) /\
                IF v = "granted"
                THEN Returns(c, None, {}, TRUE) \/ Returns(c, None, {"error"}, FALSE) \/ Raises(c)
                ELSE Returns(c, None, {"error"} \cup (IF v = "uncertain" THEN {"inspection_required"} ELSE {}), FALSE)
    <3>1. PICK v \in Verdicts(c) :
            /\ Verify(c, v)
            /\ \/ Raises(c) \/ Returns(c, None, {}, TRUE) \/ Returns(c, None, {"error"}, FALSE)
               \/ Returns(c, None, {"error"} \cup {"inspection_required"}, FALSE)
               \/ Returns(c, None, {"error"} \cup {}, FALSE)
      BY <2>3
    <3>2. PICK token, verified : Entered(c, token, verified)
      BY <3>1, Verified
    <3>3. Raises(c) \/ Answer(c, verified)
      BY <3>1, Quiet
    <3> QED BY <3>2, <3>3
  <2> QED BY <1>5, <2>1, <2>2, <2>3 DEF Checkpoint
<1> QED BY <1>1, <1>2, <1>3, <1>4, <1>5 DEF Act

LEMMA ActInv == ASSUME Inv, NEW c \in Chains, Act(c) PROVE Inv'
<1>1. /\ Shape(c) /\ Follows(c) /\ Exact(c) /\ Fresh(c) /\ DOMAIN chain = Chains /\ Once /\ world \in Nat
  BY DEF Inv
<1>2. chain[c].pc = "act" /\ world' = world /\ chain[c].pc \in Running
  BY DEF Act, Running
<1>3. PICK token, verified : Entered(c, token, verified) /\ (Raises(c) \/ Answer(c, verified))
  BY ActForm
<1>4. PICK n : n = Turn(c)
  OBVIOUS
<1> DEFINE x == [step |-> n, token |-> token, verified |-> verified]
<1>5. trail' = [trail EXCEPT ![c] = Append(trail[c], x)] /\ spent \subseteq spent'
  BY <1>3, <1>4 DEF Entered, Did
<1>6. x.step = n /\ x.verified = verified
  OBVIOUS
<1> HIDE DEF x
<1>7. /\ DOMAIN trail' = Chains /\ \A d \in Chains : d # c => trail'[d] = trail[d]
      /\ IsSeq(trail'[c]) /\ trail'[c] # <<>>
      /\ Invoked(c)' = Invoked(c) \cup {n} /\ n \notin Invoked(c)
      /\ IsFiniteSet(Invoked(c)') /\ Len(trail'[c]) = Cardinality(Invoked(c)')
      /\ \A i : Granted(c, i) => Granted(c, i)'
      /\ x.verified => Granted(c, n)'
  BY <1>2, <1>4, <1>5, <1>6, Ran
<1>8. ASSUME NEW rec, DOMAIN rec = CallFields, chain' = [chain EXCEPT ![c] = rec],
             rec.records = chain[c].records, rec.plan = chain[c].plan, rec.cache = chain[c].cache,
             rec.pc \in {"record", "failed"},
             rec.pc = "record" =>
               /\ DOMAIN rec.cur = StepFields /\ rec.cur.cached = chain[c].cur.cached
               /\ rec.cur.action = chain[c].cur.action /\ rec.cur.since = chain[c].cur.since
               /\ rec.cur.token = chain[c].cur.token /\ Told(c, verified, rec.cur.saw, rec.cur.top)
               /\ chain[c].cur.cached = FALSE
      PROVE  Inv'
  <2>1. /\ chain'[c] = rec /\ Follows(c)' /\ Records(c)' = Records(c) /\ Answered(c)' = Answered(c)
        /\ Turn(c)' = n /\ Now(c)' = Now(c)
    BY <1>2, <1>4, <1>8, Stays
  <2>2. Shape(c)'
    BY <1>1, <1>2, <1>7, <1>8, <2>1 DEF Shape, Running
  <2>3. Exact(c)'
    BY <1>1, <1>2, <1>4, <1>7, <1>8, <2>1 DEF Exact
  <2>4. Fresh(c)'
    <3>1. rec.pc = "record" => /\ rec.cur.saw = None \/ (rec.cur.saw = world /\ rec.cur.action # "audit")
                               /\ rec.cur.since \in 0 .. world
      BY <1>1, <1>2, <1>8 DEF Fresh, Told
    <3> QED BY <1>1, <1>2, <1>8, <2>1, <3>1 DEF Fresh
  <2> DEFINE mine(i, t) == /\ rec.pc = "record" /\ i = n /\ chain[c].cur.token = t
                           /\ ResultConsumes(chain[c].cur.token, rec.cur.top)
  <2>5. \A i, t : Claims(c, i, t)' => Claims(c, i, t) \/ mine(i, t)
    BY <1>8, <2>1 DEF Claims, Says
  <2>6. \A i, t : mine(i, t) => t \notin spent /\ t \in spent' /\ Granted(c, i)'
    BY <1>6, <1>7, <1>8 DEF Told
  <2>7. \A i, t : Claims(c, i, t) => t \in spent /\ Granted(c, i)
    BY <1>1 DEF Once
  <2>8. \A i, t : Claims(c, i, t)' => t \in spent' /\ Granted(c, i)'
    BY <1>5, <1>7, <2>5, <2>6, <2>7
  <2>9. \A i, t : Claims(c, i, t)' => Claims(c, i, t) \/ t \notin spent
    BY <2>5, <2>6
  <2>10. \A i, k, t : Claims(c, i, t)' /\ Claims(c, k, t)' => i = k
    <3>1. ASSUME NEW i, NEW k, NEW t, Claims(c, i, t)', Claims(c, k, t)' PROVE i = k
      <4>1. Claims(c, i, t) /\ Claims(c, k, t) => i = k
        BY <1>1 DEF Once
      <4>2. mine(i, t) /\ mine(k, t) => i = k
        OBVIOUS
      <4> QED BY <2>5, <2>6, <2>7, <3>1, <4>1, <4>2
    <3> QED BY <3>1
  <2> QED BY <1>2, <1>5, <1>7, <1>8, <2>1, <2>2, <2>3, <2>4, <2>8, <2>9, <2>10, OneSteps
<1>9. CASE Raises(c)
  <2> DEFINE rec == Failed(chain[c])
  <2>1. /\ DOMAIN rec = CallFields /\ rec.pc = "failed" /\ rec.records = chain[c].records
        /\ rec.plan = chain[c].plan /\ rec.cache = chain[c].cache
    BY <1>1 DEF Shape, CallFields, Failed
  <2>2. chain' = [chain EXCEPT ![c] = rec]
    BY <1>9 DEF Raises, Set
  <2> HIDE DEF rec
  <2> QED BY <1>8, <2>1, <2>2
<1>10. CASE Answer(c, verified)
  <2>1. PICK saw, top, body : Returns(c, saw, top, body) /\ Told(c, verified, saw, top)
    BY <1>10 DEF Answer
  <2> DEFINE cur == [chain[c].cur EXCEPT !.saw = saw, !.top = top, !.body = body]
             rec == [chain[c] EXCEPT !.pc = "record", !.cur = cur]
  <2>2. chain' = [chain EXCEPT ![c] = rec]
    BY <2>1 DEF Returns, Set
  <2>3. /\ DOMAIN cur = StepFields /\ cur.cached = chain[c].cur.cached /\ cur.action = chain[c].cur.action
        /\ cur.since = chain[c].cur.since /\ cur.token = chain[c].cur.token /\ cur.saw = saw /\ cur.top = top
    BY <1>1, <1>2 DEF Shape, StepFields
  <2> HIDE DEF cur
  <2>4. /\ DOMAIN rec = CallFields /\ rec.pc = "record" /\ rec.records = chain[c].records
        /\ rec.plan = chain[c].plan /\ rec.cache = chain[c].cache /\ rec.cur = cur
    BY <1>1 DEF Shape, CallFields
  <2> HIDE DEF rec
  <2>5. chain[c].cur.cached = FALSE
    BY <1>1, <1>2 DEF Shape
  <2> QED BY <1>8, <2>1, <2>2, <2>3, <2>4, <2>5
<1> QED BY <1>3, <1>9, <1>10

\* The record of a step says it consumed its approval when its answer does.
LEMMA Entries == ASSUME NEW cur, NEW p, p = EffectivePolicy(cur.action, cur.token, cur.top)
                 PROVE  /\ Entry(cur, p).consumed <=> Says(cur)
                        /\ Entry(cur, p).action = cur.action /\ Entry(cur, p).token = cur.token
                        /\ Entry(cur, p).saw = cur.saw /\ Entry(cur, p).since = cur.since
                        /\ Entry(cur, p).cached = cur.cached
<1>1. p.consumed <=> Says(cur)
  BY DEF EffectivePolicy, Says
<1> QED BY <1>1 DEF Entry

LEMMA RecordInv == ASSUME Inv, NEW c \in Chains, Record(c) PROVE Inv'
<1> DEFINE cur == chain[c].cur
           p == EffectivePolicy(cur.action, cur.token, cur.top)
           made == [cur EXCEPT !.cached = FALSE, !.since = None]
           kept == IF Cacheable(cur.action) /\ ~cur.cached THEN chain[c].cache \cup {made} ELSE chain[c].cache
           end == IF Turn(c) = Len(chain[c].plan) THEN "complete" ELSE "ready"
           e == Entry(cur, p)
           rec == [chain[c] EXCEPT !.cache = kept, !.records = Append(chain[c].records, e), !.cur = None, !.pc = end]
<1>1. /\ Shape(c) /\ Follows(c) /\ Exact(c) /\ Fresh(c) /\ DOMAIN chain = Chains /\ DOMAIN trail = Chains /\ Once
      /\ world \in Nat
  BY DEF Inv
<1>2. chain[c].pc = "record" /\ UNCHANGED <<world, spent, trail>> /\ chain[c].pc \in Running
  BY DEF Record, Running
<1>3. Set(c, Failed(chain[c])) \/ Set(c, rec)
  BY <1>1 DEF Record, Shape, CallFields
<1>4. CASE Set(c, Failed(chain[c]))
  BY <1>2, <1>4, FailInv
<1>5. CASE Set(c, rec)
  <2>1. /\ DOMAIN cur = StepFields /\ cur.cached \in BOOLEAN /\ cur.action = Now(c).action /\ cur.action \in Actions
    BY <1>1, <1>2 DEF Shape
  <2>2. /\ e.consumed <=> Says(cur)
        /\ e.action = cur.action /\ e.token = cur.token /\ e.saw = cur.saw /\ e.since = cur.since
        /\ e.cached = cur.cached
    BY Entries
  <2>3. \A k \in kept : k.action = "audit" /\ k.saw = None
    <3>1. made.action = cur.action /\ made.saw = cur.saw
      BY <2>1 DEF StepFields
    <3>2. Cacheable(cur.action) => cur.action = "audit" /\ cur.saw = None
      BY <1>1, <1>2, <2>1, Policies DEF Fresh
    <3> HIDE DEF made
    <3> QED BY <1>1, <3>1, <3>2 DEF Fresh
  <2>4. end \in {"complete", "ready"} /\ (end = "ready" => Turn(c) # Len(chain[c].plan))
    OBVIOUS
  <2> HIDE DEF e, kept, end
  <2>5. /\ DOMAIN rec = CallFields /\ rec.pc = end /\ rec.plan = chain[c].plan /\ rec.cache = kept
        /\ rec.records = Append(chain[c].records, e)
    BY <1>1 DEF Shape, CallFields
  <2>6. chain' = [chain EXCEPT ![c] = rec] /\ trail'[c] = trail[c]
    BY <1>2, <1>5 DEF Set
  <2> HIDE DEF rec
  <2>7. chain'[c] = rec /\ Records(c)' = rec.records
    BY <1>1, <2>6 DEF Records
  <2>8. Grown(Records(c), e, Records(c)')
    <3>1. IsSeq(Records(c)) /\ Records(c)' = Append(Records(c), e)
      BY <1>1, <2>5, <2>7 DEF Shape, Records
    <3>2. Grown(Records(c), e, Append(Records(c), e))
      BY <3>1, Appended
    <3> QED BY <3>1, <3>2
  <2>9. PICK n : n = Turn(c)
    OBVIOUS
  <2>10. /\ n = Len(Records(c)) + 1 /\ n \in Nat /\ DOMAIN Records(c) = 1 .. Len(Records(c))
         /\ Len(Records(c)') = n /\ Turn(c)' = n + 1
    BY <1>1, <2>8, <2>9, <2>7 DEF Shape, IsSeq, Grown, Turn, Records
  <2>11. /\ n \notin DOMAIN Records(c) /\ DOMAIN Records(c)' = DOMAIN Records(c) \cup {n}
         /\ Records(c)'[n] = e /\ \A i \in DOMAIN Records(c) : Records(c)'[i] = Records(c)[i]
    BY <2>8, <2>10 DEF Grown
  <2>12. IsSeq(Records(c)')
    BY <2>8 DEF Grown
  <2>13. Shape(c)'
    BY <1>1, <2>4, <2>5, <2>6, <2>7, <2>12 DEF Shape, Running, Records
  <2>14. Follows(c)'
    <3>1. Len(Records(c)) < Len(chain[c].plan) /\ Preflight(chain[c].plan)
      BY <1>1, <1>2 DEF Follows
    <3>2. end = "ready" => n < Len(chain[c].plan)
      BY <1>1, <2>4, <2>9, <2>10, <3>1 DEF Shape
    <3>3. e.action = chain[c].plan[n].action
      BY <2>1, <2>2, <2>9 DEF Now
    <3>4. rec.plan = chain[c].plan /\ rec.pc = end
      BY <2>5
    <3>5. \A i \in DOMAIN Records(c) : Records(c)[i].action = chain[c].plan[i].action /\ Records(c)[i].cached \in BOOLEAN
      BY <1>1 DEF Follows
    <3>6. \A i \in DOMAIN Records(c)' : Records(c)'[i].action = rec.plan[i].action /\ Records(c)'[i].cached \in BOOLEAN
      BY <2>1, <2>2, <2>11, <3>3, <3>4, <3>5
    <3> QED BY <2>4, <2>7, <2>10, <3>1, <3>2, <3>4, <3>6 DEF Follows, Running
  <2>15. Invoked(c)' = Invoked(c) /\ \A i : Granted(c, i)' <=> Granted(c, i)
    BY <2>6 DEF Invoked, Granted
  <2>16. Answered(c)' = Answered(c) \cup (IF cur.cached THEN {} ELSE {n})
    BY <2>1, <2>2, <2>11 DEF Answered
  <2>17. Exact(c)'
    <3>1. n + 1 \notin Invoked(c)
      <4>1. Invoked(c) \subseteq Answered(c) \cup {n} /\ Answered(c) \subseteq DOMAIN Records(c)
        BY <1>1, <2>9 DEF Exact, Answered
      <4> QED BY <2>10, <4>1
    <3>2. n \in Invoked(c) <=> ~cur.cached
      BY <1>1, <1>2, <2>9 DEF Exact
    <3>3. Answered(c) \subseteq Invoked(c) /\ Invoked(c) \subseteq Answered(c) \cup {n}
      BY <1>1, <2>9 DEF Exact
    <3>4. Answered(c)' \subseteq Invoked(c)' /\ Invoked(c)' \subseteq Answered(c)'
      BY <2>15, <2>16, <3>2, <3>3
    <3>5. IsFiniteSet(Invoked(c)') /\ Len(trail'[c]) = Cardinality(Invoked(c)')
      BY <1>1, <2>6, <2>15 DEF Exact
    <3>6. chain'[c].pc \in {"complete", "ready"}
      BY <2>4, <2>5, <2>7
    <3> QED BY <2>10, <2>15, <3>1, <3>4, <3>5, <3>6 DEF Exact
  <2>18. Fresh(c)'
    <3>1. e.saw # None => e.saw >= e.since
      BY <1>1, <1>2, <2>2 DEF Fresh
    <3>2. \A i \in DOMAIN Records(c)' : Records(c)'[i].saw # None => Records(c)'[i].saw >= Records(c)'[i].since
      BY <1>1, <2>11, <3>1 DEF Fresh
    <3> QED BY <2>3, <2>4, <2>5, <2>7, <3>2 DEF Fresh
  <2>19. \A i, t : Claims(c, i, t)' => Claims(c, i, t)
    <3>1. \A i, t : Claims(c, i, t)' => i \in DOMAIN Records(c)' /\ Records(c)'[i].consumed /\ Records(c)'[i].token = t
      BY <2>4, <2>5, <2>7 DEF Claims
    <3>2. \A t : e.consumed /\ e.token = t => Claims(c, n, t)
      BY <1>2, <2>2, <2>9 DEF Claims
    <3>3. \A i \in DOMAIN Records(c) : \A t : Records(c)[i].consumed /\ Records(c)[i].token = t => Claims(c, i, t)
      BY DEF Claims
    <3> QED BY <2>11, <3>1, <3>2, <3>3
  <2>20. \A i, t : Claims(c, i, t)' => t \in spent' /\ Granted(c, i)'
    BY <1>1, <1>2, <2>15, <2>19 DEF Once
  <2>21. \A i, k, t : Claims(c, i, t)' /\ Claims(c, k, t)' => i = k
    BY <1>1, <2>19 DEF Once
  <2> QED BY <1>1, <1>2, <2>6, <2>13, <2>14, <2>17, <2>18, <2>19, <2>20, <2>21, OneSteps
<1> QED BY <1>3, <1>4, <1>5

LEMMA StepInv == Inv /\ [Next]_vars => Inv'
<1> SUFFICES ASSUME Inv, [Next]_vars PROVE Inv'
  OBVIOUS
<1>1. ASSUME world' \in Nat, world' >= world, UNCHANGED <<spent, chain, trail>> PROVE Inv'
  <2>1. \A c \in Chains : Shape(c)' /\ Follows(c)' /\ Exact(c)' /\ Fresh(c)'
    BY <1>1, OtherKeeps
  <2>2. Once'
    BY <1>1 DEF Inv, Once, Claims, Granted, Records, Turn
  <2> QED BY <1>1, <2>1, <2>2 DEF Inv
<1>2. CASE Change
  <2>1. world' \in Nat /\ world' >= world
    BY <1>2 DEF Change, Inv
  <2> QED BY <1>1, <1>2, <2>1 DEF Change
<1>3. CASE UNCHANGED vars
  <2>1. world' \in Nat /\ world' >= world
    BY <1>3 DEF vars, Inv
  <2> QED BY <1>1, <1>3, <2>1 DEF vars
<1>4. CASE \E c \in Chains : Submit(c) \/ Begin(c) \/ Act(c) \/ Record(c)
  BY <1>4, SubmitInv, BeginInv, ActInv, RecordInv
<1> QED BY <1>2, <1>3, <1>4 DEF Next

-----------------------------------------------------------------------------
(* Theorems.                                                               *)

LEMMA InvAlways == Spec => []Inv
  BY InitInv, StepInv, PTL DEF Spec

\* What a caller is told ran is what ran: an ended chain's record is a prefix of its plan, each
\* step of it invoked once or answered from the cache of the same chain, at most the failing
\* step ran besides, and a plan with a bad step anywhere ran nothing (run_chain).
THEOREM ReportIsExactAlways == Spec => []ReportIsExact
<1>1. Inv => ReportIsExact
  <2> SUFFICES ASSUME Inv, NEW c \in Chains, Ended(c)
               PROVE  /\ \A i \in DOMAIN Records(c) : Records(c)[i].action = chain[c].plan[i].action
                      /\ Answered(c) \subseteq Invoked(c)
                      /\ Invoked(c) \subseteq Answered(c) \cup {Turn(c)}
                      /\ Len(trail[c]) = Cardinality(Invoked(c))
                      /\ (\E i \in DOMAIN chain[c].plan : ~StepFits(chain[c].plan, i)) => Invoked(c) = {}
    BY DEF ReportIsExact
  <2>1. Shape(c) /\ Follows(c) /\ Exact(c)
    BY DEF Inv
  <2>2. trail[c] = <<>> => Invoked(c) = {}
    BY DEF Invoked
  <2>3. trail[c] # <<>> => \A i \in DOMAIN chain[c].plan : StepFits(chain[c].plan, i)
    BY <2>1 DEF Follows, Preflight
  <2> QED BY <2>1, <2>2, <2>3 DEF Follows, Exact
<1> QED BY <1>1, InvAlways, PTL

\* A step is never answered with what the files held before it began (action_is_cacheable: only
\* argument-pure readings are kept).
THEOREM AnswersAreFreshAlways == Spec => []AnswersAreFresh
<1>1. Inv => AnswersAreFresh
  BY DEF Inv, Fresh, AnswersAreFresh
<1> QED BY <1>1, InvAlways, PTL

\* A record that says an approval was consumed is right: that step's own run was granted it, and
\* no other step of any chain says so of the same token (result_consumes_authority).
THEOREM ClaimedIsConsumedAlways == Spec => []ClaimedIsConsumed
<1>1. Inv => ClaimedIsConsumed
  <2> SUFFICES ASSUME Inv, NEW c \in Chains, NEW i \in DOMAIN Records(c), Records(c)[i].consumed
               PROVE  /\ \E j \in DOMAIN trail[c] : trail[c][j].step = i /\ trail[c][j].verified
                      /\ \A d \in Chains : \A k \in DOMAIN Records(d) :
                            Records(d)[k].consumed /\ Records(d)[k].token = Records(c)[i].token => d = c /\ k = i
    BY DEF ClaimedIsConsumed
  <2> DEFINE t == Records(c)[i].token
  <2>1. Once /\ Claims(c, i, t)
    BY DEF Inv, Claims
  <2>2. Granted(c, i)
    BY <2>1 DEF Once
  <2>3. ASSUME NEW d \in Chains, NEW k \in DOMAIN Records(d), Records(d)[k].consumed, Records(d)[k].token = t
        PROVE  d = c /\ k = i
    <3>1. Claims(d, k, t)
      BY <2>3 DEF Claims
    <3> QED BY <2>1, <3>1 DEF Once
  <2> QED BY <2>2, <2>3 DEF Granted
<1> QED BY <1>1, InvAlways, PTL
=============================================================================
