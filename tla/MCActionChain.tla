--------------------------- MODULE MCActionChain ---------------------------
(***************************************************************************)
(* Small chains: repeated readings, references, and steps that share a     *)
(* token within one chain and across two.                                  *)
(***************************************************************************)
EXTENDS ActionChain, TLC

CONSTANTS t1, t2, t3

Step(action, text, token) ==
    [action |-> action, fits |-> TRUE, text |-> text, token |-> token, from |-> 0, part |-> "whole"]
Of(step, from, part) == [step EXCEPT !.from = from, !.part = part]

Audit1 == Step("audit", "draft", None)
Confine1 == Step("confine", "draft", None)
Intake1 == Step("intake", "ready", t1)
Gate2 == Step("gate", "ready", t2)

MCBound == t1 :> "intake" @@ t2 :> "gate" @@ t3 :> "checkpoint"

\* Nothing tells two calls apart.
Callers == Permutations(Chains)

MCPlans == {
    <<Confine1, Confine1, Confine1>>, <<Audit1, Audit1, Of(Confine1, 2, "body")>>,
    <<Intake1, Intake1, Of(Gate2, 1, "body")>>, <<Intake1, Gate2>>,
    <<Step("intake", "draft", t1), Of(Audit1, 1, "body")>>,
    <<Step("gate", "draft", t2), Step("gate", "ready", t1), Of(Confine1, 2, "whole")>>,
    <<Step("checkpoint", "ready", t3), Step("checkpoint", "draft", t3), Step("gate", "ready", None)>>,
    <<Confine1, Of(Audit1, 2, "whole")>>, <<Intake1, [Confine1 EXCEPT !.fits = FALSE]>>,
    <<Gate2, Step("erase", "ready", None)>>, <<>>}
=============================================================================
