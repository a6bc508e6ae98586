----------------------------- MODULE MCServices -----------------------------
(* The services beside the runs.  They share no state, so each behaviour    *)
(* moves one of them, and of the site's data either what the tenant uploads *)
(* or what the crawl reads, of the engines either every writer of their     *)
(* switches or the checks beside imports; the rest keeps its initial state. *)
EXTENDS SiteData, Drafts, EngineChecks, Waitlist, ShardHistory

VARIABLE moving

\* The site's data
MCPages == {"/a", "/b"}
MCPageOf == [raw \in {"/a", "/A", "/b"} |-> IF raw = "/b" THEN "/b" ELSE "/a"]
MCUrlPage == [url \in {"/b", "/b?x"} |-> "/b"]
MCPurposeOf == ("GPTBot" :> "training") @@ ("OAI-SearchBot" :> "search")
Hit(day, bot, path, status) == [day |-> day, bot |-> bot, path |-> path, status |-> status]

\* Two logs that share days and cells, with a refusal, an error, a human, and
\* a path written two ways.
MCLogs ==
    ("log1" :> <<<<Hit(0, "OAI-SearchBot", "/a", 200), Hit(0, "GPTBot", "/b", 404)>>,
                 <<Hit(1, "OAI-SearchBot", "/A", 403), Hit(1, "OAI-SearchBot", "/a", 200)>>>>)
 @@ ("log2" :> <<<<Hit(1, "OAI-SearchBot", "/b", 200), Hit(1, "Chrome", "/b", 200)>>,
                 <<Hit(0, "GPTBot", "/b", 404), Hit(0, "OAI-SearchBot", "/a", 403)>>>>)

States(price) == [http |-> 200, price |-> price, noindex |-> FALSE, dated |-> TRUE,
                  brave |-> "absent"]
MCServes == {States(5), States(0), [States(7) EXCEPT !.http = 503]}
MCFirstServed == States(7)
Fact(expected, active) == [expected |-> expected, active |-> active]
MCFactSheets == {<<Fact(5, TRUE), Fact(7, FALSE)>>, <<Fact(7, TRUE)>>}
Cell(day, page, metric, value) ==
    [day |-> day, page |-> page, metric |-> metric, value |-> value]
MCExports ==
    "gsc" :> {<<Cell(0, "/a", "impressions", 2), Cell(0, "/a", "impressions", 1)>>,
              <<Cell(0, "/a", "impressions", 5), Cell(1, "/b", "clicks", 1)>>}

\* Drafts: two requests for one gap's content and one configuration
MCRequests ==
    [r \in {"content1", "content2", "config"} |->
        [kind |-> IF r = "config" THEN "config_draft" ELSE "content_draft", gap |-> "gap"]]
MCPerHour == ("content_draft" :> 1) @@ ("config_draft" :> 1)

MCEngines == <<"engine1", "engine2">>
MCQuestionOf == [k \in {"k"} |-> "q"]
MCEmailOf == [r \in {"signup1", "signup2", "signup3"} |-> IF r = "signup3" THEN "b" ELSE "a"]
-----------------------------------------------------------------------------
ServicesInit ==
    /\ SiteInit /\ DraftsInit /\ EnginesInit /\ WaitlistInit /\ HistoryInit
    /\ moving \in {"traffic", "crawl", "drafts", "switches", "engines", "waitlist", "shards"}

ServicesNext ==
    \/ /\ moving = "traffic" /\ TrafficNext
       /\ UNCHANGED <<draftsVars, enginesVars, waitlistVars, historyVars, moving>>
    \/ /\ moving = "crawl" /\ CrawlNext
       /\ UNCHANGED <<draftsVars, enginesVars, waitlistVars, historyVars, moving>>
    \/ /\ moving = "drafts" /\ DraftsNext
       /\ UNCHANGED <<siteVars, enginesVars, waitlistVars, historyVars, moving>>
    \/ /\ moving = "switches" /\ SwitchesNext
       /\ UNCHANGED <<siteVars, draftsVars, waitlistVars, historyVars, moving>>
    \/ /\ moving = "engines" /\ (ChecksNext \/ \E S \in SUBSET Codes : ImportEngines(S))
       /\ UNCHANGED <<siteVars, draftsVars, waitlistVars, historyVars, moving>>
    \/ /\ moving = "waitlist" /\ WaitlistNext
       /\ UNCHANGED <<siteVars, draftsVars, enginesVars, historyVars, moving>>
    \/ /\ moving = "shards" /\ HistoryNext
       /\ UNCHANGED <<siteVars, draftsVars, enginesVars, waitlistVars, moving>>

ServicesSpec ==
    /\ ServicesInit
    /\ [][ServicesNext]_<<siteVars, draftsVars, enginesVars, waitlistVars, historyVars, moving>>
=============================================================================
