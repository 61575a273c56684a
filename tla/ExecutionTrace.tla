--------------------------- MODULE ExecutionTrace ---------------------------
(***************************************************************************)
(* The governed route of an adapter action (recovery_program.py) and the   *)
(* redacted trace of one execution along it (execution_trace.py).          *)
(*                                                                         *)
(* A program is [obls, journeys]: an obligation is [journey, action,       *)
(* contract, route], a journey [concepts, authorities], a route [mappings, *)
(* candidates, selected, decisions, keys].  A trace has the fields of    *)
(* its route and [obligation, journey, outcome, class, prints, started,    *)
(* finished, fallback]; "keys" are those that its mappings and decisions   *)
(* have besides.  A contract, which is a file that people edit, is         *)
(* [governed, relationships, decisions, outcomes, fields, forbidden]: the  *)
(* vocabulary of traces is what its lists say, and that of programs is     *)
(* fixed.  Versions, ids and digests, which the control plane itself makes *)
(* well formed, are left out.                                              *)
(***************************************************************************)
EXTENDS Naturals, FiniteSets

CONSTANT None

\* What programs are written in.
Relationships == {"representedBy", "authoritativeFor", "derivedFrom", "fallbackTo"}
Decisions     == {"allowed", "denied"}

Unresolved    == {"denied", "unmapped", "ambiguous"}
Preselection  == {"blocked_environment", "blocked_owner"}

-----------------------------------------------------------------------------
(* The route that an action owns.                                          *)

Matches(program, action) == {o \in DOMAIN program.obls : program.obls[o].action = action}

\* Exactly one obligation has it, and its journey exists.
Routed(program, action) ==
    /\ program # None
    /\ Cardinality(Matches(program, action)) = 1
    /\ \A o \in Matches(program, action) : program.obls[o].journey \in DOMAIN program.journeys

RouteOwner(program, action) == CHOOSE o \in Matches(program, action) : TRUE

\* Mappings lead from the concepts of a journey to its authorities.
Within(mappings, journey, relationships) ==
    /\ mappings # {}
    /\ \A m \in mappings : /\ m.concept \in journey.concepts /\ m.authority \in journey.authorities
                           /\ m.relationship \in relationships

\* validate_recovery_program finds no error in the route of an obligation.
RouteSound(program, o) ==
    LET route   == program.obls[o].route
        journey == program.journeys[program.obls[o].journey]
    IN  /\ Within(route.mappings, journey, Relationships)
        /\ route.selected # None /\ route.selected \in route.candidates
        /\ route.candidates \subseteq journey.authorities
        /\ route.decisions # {} /\ route.decisions \subseteq Decisions

-----------------------------------------------------------------------------
(* What a trace has to be.                                                 *)

\* The contract that says so: None if it cannot be read.  Any lists that are not empty will do.
ContractSound(contract) ==
    /\ contract # None /\ contract.governed
    /\ {} \notin {contract.relationships, contract.decisions, contract.outcomes,
                 contract.fields, contract.forbidden}

Fields(trace) == DOMAIN trace \ {"keys"}

\* Mutant: every concept of the journey has to be mapped.
ResolvesEvery(trace, journey, contract) ==
    /\ Within(trace.mappings, journey, contract.relationships)
    /\ \A c \in journey.concepts : \E m \in trace.mappings : m.concept = c

\* Its mappings lead from the concepts of the journey to its authorities.
Resolves(trace, journey, contract) ==
    /\ journey.concepts # {} /\ journey.authorities # {}
    /\ Within(trace.mappings, journey, contract.relationships)

\* One of the candidates is selected, unless the outcome is one that selects none.
Selects(trace, journey) ==
    /\ trace.candidates # {} /\ trace.candidates \subseteq journey.authorities
    /\ IF trace.outcome \in Unresolved THEN trace.selected = None
       ELSE IF trace.selected = None THEN trace.outcome \in Preselection
       ELSE trace.selected \in trace.candidates

\* It is the governed route; what was decided on the way may differ.
FollowsRoute(trace, route) ==
    /\ trace.mappings = route.mappings /\ trace.candidates = route.candidates
    /\ trace.selected \in {None, route.selected}

\* A denial is the outcome.
Decides(trace, contract) ==
    /\ trace.decisions # {} /\ trace.decisions \subseteq contract.decisions
    /\ "denied" \in trace.decisions => trace.outcome = "denied"

\* A failure has a class, time does not run backwards, a fallback is mapped.
Closes(trace, contract) ==
    /\ trace.outcome \in contract.outcomes
    /\ (trace.outcome = "passed") = (trace.class = None)
    /\ trace.started <= trace.finished
    /\ trace.fallback => \E m \in trace.mappings : m.relationship = "fallbackTo"

Private(trace, contract) == contract.forbidden \cap (Fields(trace) \cup trace.keys) = {}

\* validate_execution_trace finds no error.
TraceValid(trace, program, contract) ==
    /\ ContractSound(contract) /\ contract.fields \subseteq Fields(trace)
    /\ trace.obligation \in DOMAIN program.obls /\ trace.journey \in DOMAIN program.journeys
    /\ LET obligation == program.obls[trace.obligation]
           journey    == program.journeys[trace.journey]
       IN  /\ trace.journey = obligation.journey
           /\ Resolves(trace, journey, contract) /\ Selects(trace, journey)
           /\ FollowsRoute(trace, obligation.route)
    /\ Decides(trace, contract) /\ Closes(trace, contract) /\ Private(trace, contract)
    /\ DOMAIN trace.prints # {} /\ \A d \in DOMAIN trace.prints : trace.prints[d]
=============================================================================
