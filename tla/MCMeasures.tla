----------------------------- MODULE MCMeasures -----------------------------
(***************************************************************************)
(* One forced API engine and one browser capture, a question of the score, *)
(* a branded one, and two configurations an import can bring.              *)
(***************************************************************************)
EXTENDS PastDays, TLC

Core == [branded |-> FALSE, tag |-> "core"]
About == [branded |-> TRUE, tag |-> "core"]
TheEngines == {"openai_api", "copilot_web"}
TheFamily == [e \in TheEngines |-> IF e = "openai_api" THEN "chatgpt" ELSE "copilot"]
TheWeights == [f \in {"chatgpt", "copilot"} |-> IF f = "chatgpt" THEN 40 ELSE 4]
TheFirst == ("crm" :> Core) @@ ("about" :> About)
TheConfigs == {("crm" :> Core) @@ ("pick" :> [branded |-> FALSE, tag |-> "agent"])}

\* Named everywhere, behind a rival, with and without a persona; or nowhere,
\* though known from memory, the capture lost, without a baseline persona.
Strong == [segments |-> {"generic", "founder"}, named |-> TheEngines, lost |-> {}, rank |-> 2,
           known |-> FALSE, searches |-> TRUE, crowded |-> TRUE]
Weak == [segments |-> {"founder"}, named |-> {}, lost |-> {"copilot_web"}, rank |-> 1,
         known |-> TRUE, searches |-> FALSE, crowded |-> FALSE]
TheProfiles == {Strong, Weak}

\* A vendor's captures: of the engine, half a day or two days old, from
\* another model than the engine serves at first; of the browser, naming one.
Vendor(sf, m, t, age, rank) ==
    [q |-> "crm", sf |-> sf, model |-> m, text |-> t, age |-> age, brand |-> rank,
     rival |-> 0, owned |-> rank = 1, sources |-> rank = 1]
ThePayloads == {{Vendor("openai_api", "m2", "late", 1, 1)},
                {Vendor("openai_api", "m2", "old", 2, 0), Vendor("copilot_web", "m2", "page", 2, 1)}}

\* A change of rate of all the answers is beyond any doubt, a smaller one
\* passes alone but not among several tests.
TheP(before, after) ==
    IF before.num * after.den = after.num * before.den THEN 1000
    ELSE IF {before.num, after.num} \cap {0} # {} THEN 10 ELSE 30
TheAnnounced == {<<1, "copilot_web">>}
=============================================================================
