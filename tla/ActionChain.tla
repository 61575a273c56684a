----------------------------- MODULE ActionChain -----------------------------
(***************************************************************************)
(* Chains of reviewed engine actions (chains.py, engine_actions.py).       *)
(*                                                                         *)
(* Each member of Chains is one call of run_chain: a request that a server *)
(* thread answers, or a command of its own.  Chains share the operator's   *)
(* approvals and the files and checkouts that some actions read; each has  *)
(* a cache of its own.  A step is cut where others can come between: the   *)
(* resolution of its references, the run of its function, its record.      *)
(*                                                                         *)
(* Five actions stand for the reviewed ones: a pure reading of its         *)
(* arguments (audit_html_snippet), a reading of the file system            *)
(* (verify_path_confinement) and the three that take an approval token.    *)
(* Inside those an approval is verified in one step; ApprovalStore models  *)
(* what that takes.                                                        *)
(***************************************************************************)
EXTENDS Naturals, Sequences, FiniteSets

CONSTANTS
    Chains,    \* calls of run_chain
    Plans,     \* step lists that callers may submit
    Tokens,    \* approval tokens
    Bound,     \* Tokens -> the action each approves
    MaxWorld,  \* bound on changes of the files that actions read
    None

Actions == {"audit", "confine", "intake", "gate", "checkpoint"}

\* A step: the action, whether its argument names fit, the token argument, the text it
\* works on (a literal, or a part of an earlier step's output).
Texts == {"ready", "draft"}
Parts == {"whole", "body"}

ASSUME ChainAssumption ==
    /\ Bound \in [Tokens -> Actions] /\ MaxWorld \in Nat /\ None \notin Tokens
    /\ \A plan \in Plans : Len(plan) \in Nat /\ DOMAIN plan = 1 .. Len(plan)
    /\ \A plan \in Plans : \A i \in DOMAIN plan :
          /\ plan[i].fits \in BOOLEAN /\ plan[i].token \in Tokens \cup {None}
          /\ plan[i].from \in Nat /\ plan[i].part \in Parts /\ plan[i].text \in Texts

VARIABLES
    world,  \* how often the files that actions read have changed
    spent,  \* tokens that the authority has consumed
    chain,  \* Chains -> the call
    trail   \* Chains -> what its functions did, in order

vars == <<world, spent, chain, trail>>

Idle == [pc |-> "idle", plan |-> <<>>, records |-> <<>>, cache |-> {}, cur |-> None, phase |-> None]

Init ==
    /\ world = 0 /\ spent = {}
    /\ chain = [c \in Chains |-> Idle]
    /\ trail = [c \in Chains |-> <<>>]

-----------------------------------------------------------------------------
(* Policy.                                                                 *)

Policy(effect, approval, replayable, authority, cacheable) ==
    [effect |-> effect, approval |-> approval, replayable |-> replayable,
     authority |-> authority, cacheable |-> cacheable]

ActionSpecs == [a \in Actions |->
    CASE a = "audit"      -> Policy("read_only", FALSE, TRUE, "none", TRUE)
      [] a = "confine"     -> Policy("read_only", FALSE, TRUE, "none", FALSE)
      [] a = "checkpoint" -> Policy("filesystem_mutation", TRUE, FALSE, "parameter_dependent", FALSE)
      [] OTHER            -> Policy("in_memory_mutation", TRUE, FALSE, "parameter_dependent", FALSE)]

\* What of an answer's top level the policy looks at.
Refusing == {"inspection_required", "error", "blocked", "incomplete"}
Confirming == {"approval_verified", "decision_source", "human_confirmation_claimed", "verified_write"}

\* Mutant: a token among the arguments is a consumption.
SuppliedIsConsumed(token, top) == token # None

\* An answer consumed authority only when it says so at its top level.
ResultConsumes(token, top) ==
    token # None /\ top \cap Refusing = {} /\ top \cap Confirming # {}

EffectivePolicy(a, token, top) ==
    LET spec == ActionSpecs[a]
        dependent == spec.authority = "parameter_dependent"
        consumed == dependent /\ ResultConsumes(token, top)
    IN  [effect |-> IF consumed THEN "single_use_authority_consumed" ELSE spec.effect,
         approval |-> IF dependent THEN token # None ELSE spec.approval,
         replayable |-> IF dependent THEN ~consumed ELSE spec.replayable,
         consumed |-> consumed]

\* Mutant: whatever only reads may be reused.
ReadOnlyCacheable(a) == ActionSpecs[a].effect = "read_only"

\* Only argument-pure readings are reused; of those none takes a token.
Cacheable(a) == ActionSpecs[a].effect = "read_only" /\ ActionSpecs[a].cacheable

-----------------------------------------------------------------------------
(* Preflight.                                                              *)

StepFits(plan, i) ==
    /\ plan[i].action \in Actions
    /\ plan[i].fits
    /\ plan[i].from < i                    \* 0 is no reference

\* Mutant: each step is only looked at when its turn comes.
PreflightFirst(plan) == plan # <<>> /\ StepFits(plan, 1)

\* The whole chain is checked before step zero runs.
Preflight(plan) == plan # <<>> /\ \A i \in DOMAIN plan : StepFits(plan, i)

Set(c, rec) == chain' = [chain EXCEPT ![c] = rec]

Submit(c) ==
    /\ chain[c].pc = "idle"
    /\ \E plan \in Plans :
        Set(c, [chain[c] EXCEPT !.plan = plan, !.pc = IF Preflight(plan) THEN "ready" ELSE "failed",
                                !.phase = IF Preflight(plan) THEN "execution" ELSE "preflight"])
    /\ UNCHANGED <<world, spent, trail>>

-----------------------------------------------------------------------------
(* One step.                                                               *)

Turn(c) == Len(chain[c].records) + 1
Now(c) == chain[c].plan[Turn(c)]

\* An output is the text it was made from, then what made it and what that saw.
Output(record) == Append(record.text, [by |-> record.action, saw |-> record.saw])
Literal(text) == <<[by |-> text, saw |-> None]>>

\* The text of a step: its literal, or the part of an earlier output; a refusal has no body.
Resolves(c) == LET s == Now(c) IN
    s.from # 0 => s.from < Turn(c) /\ (s.part = "body" => chain[c].records[s.from].body)
Resolved(c) == IF Now(c).from = 0 THEN Literal(Now(c).text) ELSE Output(chain[c].records[Now(c).from])

Ready(text) == text[1].by = "ready"

\* The completed prefix is kept with the error.
Failed(rec) == [rec EXCEPT !.pc = "failed", !.cur = None]

Begin(c) ==
    /\ chain[c].pc = "ready"
    /\ IF ~Resolves(c) \/ ~StepFits(chain[c].plan, Turn(c))
       THEN Set(c, Failed(chain[c]))
       ELSE LET s == Now(c)
                text == Resolved(c)
                hits == {e \in chain[c].cache : e.action = s.action /\ e.text = text /\ e.token = s.token}
                fresh == [action |-> s.action, text |-> text, token |-> s.token, saw |-> None,
                          top |-> {}, body |-> FALSE, cached |-> FALSE, since |-> world]
            IN  IF Cacheable(s.action) /\ hits # {}
                THEN LET hit == CHOOSE e \in hits : TRUE
                     IN  Set(c, [chain[c] EXCEPT !.pc = "record",
                            !.cur = [fresh EXCEPT !.saw = hit.saw, !.top = hit.top, !.body = hit.body, !.cached = TRUE]])
                ELSE Set(c, [chain[c] EXCEPT !.pc = "act", !.cur = fresh])
    /\ UNCHANGED <<world, spent, trail>>

\* The function returns an answer, or raises after all it did.
Returns(c, saw, top, body) ==
    Set(c, [chain[c] EXCEPT !.pc = "record", !.cur = [@ EXCEPT !.saw = saw, !.top = top, !.body = body]])
Raises(c) == Set(c, Failed(chain[c]))

Did(c, token, verified) ==
    trail' = [trail EXCEPT ![c] = Append(@, [step |-> Turn(c), token |-> token, verified |-> verified])]

\* audit_html_snippet: its answer is a function of the text.
Audit(c) ==
    /\ chain[c].cur.action = "audit"
    /\ Returns(c, None, {}, TRUE)
    /\ Did(c, None, FALSE) /\ UNCHANGED spent

\* verify_path_confinement resolves names in the file system.
Confine(c) ==
    /\ chain[c].cur.action = "confine"
    /\ Returns(c, world, {}, TRUE) \/ Raises(c)
    /\ Did(c, None, FALSE) /\ UNCHANGED spent

\* verify_operator_approval: granted; uncertain whether it was; or refused, which a store that
\* cannot be read is as well.
Verdicts(c) ==
    LET t == chain[c].cur.token
    IN  {"refused"} \cup (IF t # None /\ t \notin spent /\ Bound[t] = chain[c].cur.action
                          THEN {"granted", "uncertain"} ELSE {})

Verify(c, verdict) ==
    \/ verdict \in {"granted", "uncertain"}
       /\ spent' = spent \cup {chain[c].cur.token} /\ Did(c, chain[c].cur.token, verdict = "granted")
    \/ verdict \in {"refused", "uncertain"} /\ UNCHANGED spent /\ Did(c, None, FALSE)

NoVerdict(c) == UNCHANGED spent /\ Did(c, None, FALSE)

\* execute_brand_maker_intake: a refused approval leaves a simulation.
Intake(c) ==
    /\ chain[c].cur.action = "intake"
    /\ IF ~Ready(chain[c].cur.text)
       THEN NoVerdict(c) /\ Returns(c, None, {"incomplete"}, FALSE)
       ELSE \E v \in Verdicts(c) : Verify(c, v) /\
            IF v = "uncertain" THEN Returns(c, None, {"inspection_required"}, FALSE)
            ELSE \/ Returns(c, None, IF v = "granted" THEN {"approval_verified"} ELSE {}, TRUE)
                 \/ Raises(c)                         \* the package is not a BrandPackage

\* simulate_vcc_human_approval: a refused token blocks; a granted one is told one level down.
HumanGate(c) ==
    /\ chain[c].cur.action = "gate"
    /\ IF ~Ready(chain[c].cur.text)
       THEN NoVerdict(c) /\ (Returns(c, None, {"blocked"}, FALSE) \/ Raises(c))
       ELSE \E v \in Verdicts(c) : Verify(c, v) /\
            CASE v = "uncertain" -> Returns(c, None, {"inspection_required"}, FALSE)
              [] v = "refused" /\ chain[c].cur.token # None -> Returns(c, None, {"blocked"}, FALSE)
              [] OTHER -> Returns(c, None, {}, TRUE)

\* execute_jarvis_action_checkpoint: reads and dry runs ask for no approval; a write may still
\* fail after its approval was spent.
Checkpoint(c) ==
    /\ chain[c].cur.action = "checkpoint"
    /\ IF ~Ready(chain[c].cur.text)
       THEN NoVerdict(c) /\ \E top \in {{"blocked"}, {"error"}} : Returns(c, None, top, FALSE)
       ELSE \/ NoVerdict(c) /\ Returns(c, None, {}, TRUE)
            \/ \E v \in Verdicts(c) : Verify(c, v) /\
                IF v = "granted"
                THEN Returns(c, None, {}, TRUE) \/ Returns(c, None, {"error"}, FALSE) \/ Raises(c)
                ELSE Returns(c, None, {"error"} \cup (IF v = "uncertain" THEN {"inspection_required"} ELSE {}), FALSE)

Act(c) ==
    /\ chain[c].pc = "act"
    /\ Audit(c) \/ Confine(c) \/ Intake(c) \/ HumanGate(c) \/ Checkpoint(c)
    /\ UNCHANGED world

\* A step as it is recorded: what was called and answered, and the policy of the invocation.
Entry(cur, p) ==
    [action |-> cur.action, text |-> cur.text, token |-> cur.token, saw |-> cur.saw, top |-> cur.top,
     body |-> cur.body, cached |-> cur.cached, since |-> cur.since, effect |-> p.effect,
     approval |-> p.approval, replayable |-> p.replayable, consumed |-> p.consumed]

\* The answer is adapted, held to its contract and detached, then kept and recorded under the
\* policy of this invocation.
Record(c) ==
    /\ chain[c].pc = "record"
    /\ \/ ~chain[c].cur.cached /\ Set(c, Failed(chain[c]))
       \/ LET cur == chain[c].cur
              p == EffectivePolicy(cur.action, cur.token, cur.top)
              made == [cur EXCEPT !.cached = FALSE, !.since = None]
          IN  Set(c, [chain[c] EXCEPT
                !.cache = IF Cacheable(cur.action) /\ ~cur.cached THEN @ \cup {made} ELSE @,
                !.records = Append(@, Entry(cur, p)),
                !.cur = None,
                !.pc = IF Turn(c) = Len(chain[c].plan) THEN "complete" ELSE "ready"])
    /\ UNCHANGED <<world, spent, trail>>

\* Somebody changes what the reading actions read.
Change ==
    /\ world < MaxWorld /\ world' = world + 1
    /\ UNCHANGED <<spent, chain, trail>>

Next == Change \/ \E c \in Chains : Submit(c) \/ Begin(c) \/ Act(c) \/ Record(c)

Spec == Init /\ [][Next]_vars

-----------------------------------------------------------------------------
(* Properties.                                                             *)

Tops == SUBSET (Refusing \cup Confirming)

\* The values the variables take.
TypeOK ==
    /\ world \in 0 .. MaxWorld /\ spent \subseteq Tokens
    /\ \A c \in Chains :
        /\ chain[c].pc \in {"idle", "ready", "act", "record", "complete", "failed"}
        /\ chain[c].phase \in {None, "preflight", "execution"}
        /\ chain[c].plan \in Plans \cup {<<>>}
        /\ \A i \in DOMAIN chain[c].records : LET r == chain[c].records[i] IN
            r.action \in Actions /\ r.token \in Tokens \cup {None} /\ r.top \in Tops
            /\ r.replayable \in BOOLEAN /\ r.consumed \in BOOLEAN

Ended(c) == chain[c].pc \in {"complete", "failed"}
Records(c) == chain[c].records
Invoked(c) == {trail[c][i].step : i \in DOMAIN trail[c]}
Answered(c) == {i \in DOMAIN Records(c) : ~Records(c)[i].cached}

\* What a caller is told ran is what ran.  The completed steps of an ended chain are a prefix
\* of the plan, each invoked once or answered from this chain's cache; at most the failing
\* step ran besides; and a plan with a bad step anywhere ran nothing at all.
ReportIsExact ==
    \A c \in Chains : Ended(c) =>
        /\ \A i \in DOMAIN Records(c) : Records(c)[i].action = chain[c].plan[i].action
        /\ Answered(c) \subseteq Invoked(c)
        /\ Invoked(c) \subseteq Answered(c) \cup {Turn(c)}
        /\ Len(trail[c]) = Cardinality(Invoked(c))
        /\ (\E i \in DOMAIN chain[c].plan : ~StepFits(chain[c].plan, i)) => Invoked(c) = {}

\* A step is never answered with what the files held before it began, though an identical
\* step of the same chain was answered then.
AnswersAreFresh ==
    \A c \in Chains : \A i \in DOMAIN Records(c) :
        LET r == Records(c)[i] IN r.saw # None => r.saw >= r.since

\* A record that says an approval was consumed is right: this step's own run was granted it,
\* and no other step of any chain says so of the same token.
ClaimedIsConsumed ==
    \A c \in Chains : \A i \in DOMAIN Records(c) : Records(c)[i].consumed =>
        /\ \E j \in DOMAIN trail[c] : trail[c][j].step = i /\ trail[c][j].verified
        /\ \A d \in Chains : \A k \in DOMAIN Records(d) :
              Records(d)[k].consumed /\ Records(d)[k].token = Records(c)[i].token => d = c /\ k = i

\* A step that was granted its one-time approval is visible as non-replayable in its record.
GrantedIsNotReplayable ==
    \A c \in Chains : \A i \in DOMAIN Records(c) :
        (\E j \in DOMAIN trail[c] : trail[c][j].step = i /\ trail[c][j].verified) => ~Records(c)[i].replayable
=============================================================================
