---------------------------- MODULE MCPlaybook ----------------------------
(***************************************************************************)
(* Small tenants for Playbook: each world is a variation of a quiet one in *)
(* the signals of one or two sources.                                      *)
(***************************************************************************)
EXTENDS Playbook

\* The passes differ in nothing but their names.
PassSymmetry == Permutations(Passes)

Question(t) == [text |-> t, active |-> TRUE, branded |-> FALSE, agent |-> FALSE]
Answer(id, run, q, surface, names, pages) ==
    [id |-> id, run |-> run, q |-> q, surface |-> surface, names |-> names,
     pages |-> pages, ok |-> TRUE, recent |-> TRUE]
Class(q, surface, bucket, aio) ==
    [q |-> q, surface |-> surface, bucket |-> bucket, aio |-> aio, aioCitesUs |-> FALSE]
Bot(b, hits, blocked) == [bot |-> b, hits |-> hits, blocked |-> blocked]

Quiet ==
    [questions |-> {Question("q1"), [Question("q2") EXCEPT !.branded = TRUE]},
     answers |-> {Answer(1, 1, "q1", "openai_api", {"brand"}, {"/home"})},
     classes |-> {}, briefed |-> {"q1"}, findings |-> {},
     logs |-> [state |-> "fresh", hits |-> 300, atRisk |-> {}, broken |-> {}, unread |-> {},
               bots |-> {Bot(b, 60, 0) : b \in KeyBots}],
     targets |-> {}, shards |-> {}, sites |-> [hasDomains |-> TRUE, rivals |-> 4, owned |-> 0],
     research |-> [n |-> 2, all |-> 10], meta |-> {}, docs |-> [brand |-> 0, all |-> 19],
     named |-> [answers |-> 29], pages |-> {}, switches |-> {}]

\* q1 is lost on most engines; the page /home drops out, and two engines'
\* classifications disagree.
Lost(bucket) ==
    [Quiet EXCEPT
        !.answers = @ \cup {Answer(2, 2, "q1", "openai_api", {"rival"}, {}),
                            Answer(3, 2, "q1", "perplexity_api", {}, {})},
        !.classes = {Class("q1", "google_aio", "", TRUE), Class("q1", "openai_api", bucket, FALSE),
                     Class("q1", "perplexity_api", "unlikely", FALSE)}]

\* The next run still does not cite it, the one after does.
NotCited ==
    [Lost("likely") EXCEPT
        !.answers = @ \cup {Answer(4, 3, "q1", "openai_api", {"brand"}, {"/price"})}]
WonBack ==
    [Lost("possible") EXCEPT
        !.answers = @ \cup {Answer(4, 3, "q1", "openai_api", {"brand"}, {"/home"})}]

\* A bot is refused, another never came, a cited page errors.
BotTrouble ==
    [Quiet EXCEPT !.logs = [@ EXCEPT !.atRisk = {"/home"}, !.broken = {"/old"}, !.unread = {"/faq"},
                                     !.bots = {Bot(b, 60, IF b = "Bingbot" THEN 20 ELSE 0) :
                                                  b \in KeyBots \ {"Googlebot"}}]]
StaleLogs == [Quiet EXCEPT !.logs.state = "stale"]
NoLogs == [Quiet EXCEPT !.logs.state = "none"]

\* Rivals hold the third-party pages, the sub-searches and the facts.
Rivals ==
    [Quiet EXCEPT
        !.targets = {[kind |-> "video", rival |-> 2, brand |-> 1],
                     [kind |-> "review", rival |-> 3, brand |-> 2],
                     [kind |-> "publisher", rival |-> 4, brand |-> 0]},
        !.shards = {[parent |-> "q1", run |-> 2, present |-> "no", reach |-> 2, won |-> TRUE],
                    [parent |-> "q3", run |-> 2, present |-> "unknown", reach |-> 5, won |-> TRUE],
                    [parent |-> "q4", run |-> 1, present |-> "no", reach |-> 3, won |-> FALSE]},
        !.findings = {[fact |-> "f1", answer |-> 1]},
        !.sites = [@ EXCEPT !.rivals = 5, !.owned = 2],
        !.research = [n |-> 3, all |-> 10]]
Grown ==
    [Quiet EXCEPT
        !.docs = [brand |-> 1, all |-> 20], !.named = [answers |-> 30],
        !.meta = {[surface |-> "meta_api", others |-> 9, verdict |-> "down"],
                  [surface |-> "meta_muse", others |-> 9, verdict |-> "no real change"]},
        !.pages = {[path |-> "/home", conflict |-> TRUE, flags |-> {"noindex", "not in Brave"}],
                   [path |-> "/price", conflict |-> FALSE, flags |-> {"not in Brave", "stale"}]},
        !.switches = {[surface |-> "openai_api", model |-> "m2", recent |-> TRUE]}]

TheWorlds ==
    [quiet |-> Quiet, lost |-> Lost("likely"), relabelled |-> Lost("unlikely"),
     still_lost |-> NotCited, won_back |-> WonBack, bots |-> BotTrouble, stale |-> StaleLogs,
     no_logs |-> NoLogs, rivals |-> Rivals, grown |-> Grown]
TheFaults == {{}, {"plan", "agents", "query", "site_search"}}
TheHandRefs == {<<"refresh", "/home">>, <<"query", "q1", "web_search">>}
=============================================================================
