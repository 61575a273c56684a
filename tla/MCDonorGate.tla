---------------------------- MODULE MCDonorGate ----------------------------
(***************************************************************************)
(* Both gates, over donors that are clean, dirty or damaged, seven         *)
(* recovery programs and eight trace contracts.                            *)
(***************************************************************************)
EXTENDS DonorGate

MCRoute == [mappings |-> {[concept |-> "captured", authority |-> "dotfiles", relationship |-> "authoritativeFor"],
                          [concept |-> "projected", authority |-> "PKos", relationship |-> "representedBy"]},
            candidates |-> {"dotfiles", "PKos"}, selected |-> "PKos", decisions |-> {"allowed"}, keys |-> {}]
Obl(action) == [journey |-> "j", action |-> action, contract |-> "source", route |-> MCRoute]
Sound == [journeys |-> [j \in {"j"} |-> [concepts |-> {"captured", "projected", "retained"}, authorities |-> Donors]],
          obls |-> [o \in Waves |-> Obl(Action(o))]]
Each(f(_)) == [Sound EXCEPT !.obls = [o \in Waves |-> f(Sound.obls[o])]]

MCPrograms == {None,
    Each(LAMBDA o : [o EXCEPT !.action = "source_record_observer"]),
    Each(LAMBDA o : [o EXCEPT !.journey = "k"]),
    Each(LAMBDA o : [o EXCEPT !.contract = "parity"]),
    Each(LAMBDA o : [o EXCEPT !.route.decisions = {"allowed", "denied"}]),
    Each(LAMBDA o : [o EXCEPT !.route.keys = {"token"}]),
    [Sound EXCEPT !.journeys["j"].concepts = {"captured"}]}

Standard == [governed |-> TRUE, relationships |-> Relationships, decisions |-> Decisions,
             outcomes |-> {"passed", "failed"} \cup Unresolved \cup Preselection,
             fields |-> {"obligation", "outcome", "prints"}, forbidden |-> {"token"}]
\* Each but the first two is sound.
MCContracts == {None, [Standard EXCEPT !.governed = FALSE],
    [Standard EXCEPT !.relationships = @ \ {"authoritativeFor"}],
    [Standard EXCEPT !.decisions = {"denied"}],
    [Standard EXCEPT !.outcomes = @ \ {"passed"}],
    [Standard EXCEPT !.fields = @ \cup {"owner"}],
    [Standard EXCEPT !.forbidden = {"prints"}], [Standard EXCEPT !.forbidden = {"password"}]}

Clean == [files |-> [n \in Names |-> "committed"], repo |-> [d \in Donors |-> TRUE],
          program |-> Sound, contract |-> Standard, clock |-> 1]
MCDisks == {Clean, [Clean EXCEPT !.files[Readme("observer")] = None, !.files[Agents] = "edited"]}
\* The modules are alike: one of them is rewritten, any of them is removed.
MCEdited == [n \in Names |-> CASE n = <<"PKos", "storage">> -> {"edited", "broken"}
                               [] n \in {Script, <<"PKos", "normalize">>} -> {}
                               [] OTHER -> {"edited", "fenced"}]
=============================================================================
