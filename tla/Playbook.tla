------------------------------ MODULE Playbook ------------------------------
(***************************************************************************)
(* The recommendations playbook (api/recommendations_service.py): a pass   *)
(* runs thirteen play sources over the tenant's data, each in a savepoint, *)
(* then merges their plays into the `recommendations` table, which people  *)
(* edit at the same time (routes/tenant.py).  A play is identified by its  *)
(* gap_ref, here a tuple; titles, steps and texts are left out.            *)
(*                                                                         *)
(* What the sources read is a "world": a record of the measured data.      *)
(* Worlds names the worlds of an instance; Drift moves between them the    *)
(* way later runs, uploads and edits do.                                   *)
(***************************************************************************)
EXTENDS Integers, FiniteSets, Sequences, FiniteSetsExt, SequencesExt

CONSTANTS Worlds,      \* world name -> measured data
          FirstWorld,  \* the world the playbook starts in
          Passes,      \* processing passes of the tenant that may overlap
          Faults,      \* sets of sources (or "plan") that may fail in a pass
          HandRefs,    \* plays a person touches
          ManualRefs,  \* actions a person adds to the plan
          HandTo,      \* the statuses a person sets in the instance
          MaxDrift, MaxTouch, MaxPasses


VARIABLES world,   \* name of the current world
          recs,    \* gap_ref -> [branch, status, prio]
          pass,    \* what each pass has judged and read
          closed,  \* history: plays a person closed and has not touched since
          drift, touch, ran

playbookVars == <<world, recs, pass, closed, drift, touch, ran>>

OpenStatuses == {"open", "in_progress"}
HAND_STATUSES == {"done", "dismissed"}
Statuses == OpenStatuses \cup HAND_STATUSES \cup {"resolved"}

ASSUME PlaybookAssumption == FirstWorld \in DOMAIN Worlds /\ HandTo \subseteq Statuses

Play(ref, branch, prio) == [ref |-> ref, branch |-> branch, prio |-> prio]
When(cond, plays) == IF cond THEN plays ELSE {}
LowestOf(S, rank(_)) == CHOOSE x \in S : \A y \in S : rank(x) =< rank(y)

\* Surfaces in the order of their codes as text.
SurfaceRank(s) ==
    CASE s = "google_aio" -> 1 [] s = "meta_api" -> 2 [] s = "openai_api" -> 3
      [] s = "perplexity_api" -> 4 [] OTHER -> 5

-----------------------------------------------------------------------------
(* The reads the sources share *)

\* Questions kept out of the visibility layer.
OffScoreTexts(w) == {q.text : q \in {x \in w.questions : x.branded \/ x.agent \/ ~x.active}}

\* Newest answered search result per (question, surface) outside `hidden`.
LatestResults(w, hidden) ==
    {a \in w.answers : /\ a.ok /\ a.q \notin hidden
                       /\ \A b \in w.answers : b.ok /\ b.q = a.q /\ b.surface = a.surface
                                                  => b.id =< a.id}

\* Every answer of the newest run that measured each (question, surface).
LatestRunAnswers(w) ==
    {a \in w.answers : a.ok /\ \A b \in w.answers :
                          b.ok /\ b.q = a.q /\ b.surface = a.surface => b.run =< a.run}

\* One classification per question: one with a bucket first, then the lowest
\* surface code.
ClassOf(w, q) ==
    LowestOf({c \in w.classes : c.q = q},
             LAMBDA c : SurfaceRank(c.surface) + IF c.bucket = "" THEN 10 ELSE 0)

\* Mutant: an answered-from-memory question also gets the live-search play.
Mutant_AnswerBranch(bucket) ==
    CASE bucket \in {"very_likely", "likely"} -> {"web_search"}
      [] bucket = "unlikely" -> {"training", "web_search"}
      [] OTHER -> {}

AnswerBranch(bucket) ==
    CASE bucket \in {"very_likely", "likely"} -> {"web_search"}
      [] bucket = "unlikely" -> {"training"}
      [] OTHER -> {}

\* The gaps of the per-question matrix, as (question, branch) pairs.
QueryGaps(w) ==
    UNION {LET measured == {a \in LatestRunAnswers(w) : a.q = q.text
                                                       /\ a.surface # "google_aio"}
               on == {a.surface : a \in measured}
               named == {a.surface : a \in {x \in measured : "brand" \in x.names}}
               gap == on # {} /\ Cardinality(named) * 3 < Cardinality(on)
               classified == \E c \in w.classes : c.q = q.text
               c == ClassOf(w, q.text)
           IN {<<q.text, b>> : b \in When(classified, When(gap, AnswerBranch(c.bucket))
                                              \cup When(c.aio /\ ~c.aioCitesUs, {"aio"}))}
           : q \in {x \in w.questions : x.active /\ ~x.branded}}

\* Churn of the named brands over a question's answers on one surface, in
\* twelfths: changes between neighbours over the number of neighbours.
Churn12(as) ==
    LET s == SetToSortSeq(as, LAMBDA a, b : a.id < b.id)
    IN (12 * Cardinality({i \in 1..Len(s) - 1 : s[i].names # s[i + 1].names}))
           \div (Len(s) - 1)

Quarters(bucket) ==
    CASE bucket = "very_likely" -> 4 [] bucket = "likely" -> 3 [] bucket = "unlikely" -> 1
      [] OTHER -> 2

\* Volatility times retrieval dependence, as the label the briefs show.
Contestability(w, q) ==
    LET onSurface(s) == {a \in w.answers : a.ok /\ a.recent /\ a.q = q /\ a.surface = s}
        shown == {s \in {a.surface : a \in w.answers} : Cardinality(onSurface(s)) >= 2}
        churn == MapThenSumSet(LAMBDA s : Churn12(onSurface(s)), shown)
        bucketed == {c \in w.classes : c.q = q}
        k == Cardinality(shown)
        n == IF bucketed = {} THEN 1 ELSE Cardinality(bucketed)
        dep == IF bucketed = {} THEN 2 ELSE MapThenSumSet(LAMBDA c : Quarters(c.bucket), bucketed)
        twice == 200 * churn * dep      \* twice the score times 48 k n
    IN CASE k = 0 -> "needs history"
         [] k > 0 /\ twice >= 99 * 48 * k * n -> "winnable now"
         [] k > 0 /\ twice < 99 * 48 * k * n /\ twice >= 39 * 48 * k * n -> "contested"
         [] OTHER -> "locked in"

\* The brand's own cited pages of the last two measured runs: what the newest
\* one cites, and what it lost on questions both measured.
Protect(w) ==
    LET as == {a \in w.answers : a.ok /\ a.q \notin OffScoreTexts(w)}
        measured == {a.run : a \in as}
        asked(r) == {a.q : a \in {x \in as : x.run = r}}
        pages(r) == UNION {{<<u, a.q>> : u \in a.pages} : a \in {x \in as : x.run = r}}
        last == Max(measured)
        prev == Max(measured \ {last})
        shared == asked(prev) \cap asked(last)
        gone == {p \in pages(prev) \ pages(last) : p[2] \in shared}
    IN [cited |-> IF measured = {} THEN {} ELSE {p[1] : p \in pages(last)},
        lost  |-> IF Cardinality(measured) < 2 THEN {} ELSE {p[1] : p \in gone}]

-----------------------------------------------------------------------------
(* The thirteen sources.  `plan` is FALSE when the action plan failed. *)

QueryPlays(w, plan) ==
    LET contest(q) == IF plan /\ q \in w.briefed THEN Contestability(w, q) ELSE "needs history"
        prio(q, b) ==
            CASE b = "training" -> 30
              [] b = "aio" -> 80
              [] OTHER -> 60 + CASE contest(q) = "winnable now" -> 20
                                 [] contest(q) = "contested" -> 8
                                 [] contest(q) = "locked in" -> -15
                                 [] OTHER -> 0
    IN {Play(<<"query", g[1], g[2]>>, g[2], prio(g[1], g[2])) : g \in QueryGaps(w)}

\* One play per wrong fact, however many answers state it.
AccuracyPlays(w) ==
    LET wrong == {f \in w.findings : \E a \in LatestResults(w, {}) : a.id = f.answer}
        engines(fact) == {a.surface : a \in {x \in w.answers : [fact |-> fact, answer |-> x.id]
                                                                  \in wrong}}
    IN {Play(<<"accuracy", f.fact>>, "accuracy",
             IF Cardinality(engines(f.fact)) > 1 THEN 98 ELSE 94) : f \in wrong}

KeyBots == {"OAI-SearchBot", "Bingbot", "PerplexityBot", "Claude-SearchBot", "Googlebot"}
MIN_LOG_HITS == 200

AgentPlays(w) ==
    LET l == w.logs
        seen == {b.bot : b \in l.bots}
    IN IF l.state # "fresh"
       THEN {Play(<<"connect_logs">>, "connect_logs", IF l.state = "stale" THEN 60 ELSE 72)}
       ELSE When(l.hits >= MIN_LOG_HITS,
                 {Play(<<"crawler", b, "absent">>, "crawler_access", 95) : b \in KeyBots \ seen}
                 \cup {Play(<<"crawler", b.bot, "errors">>, "crawler_access", 88) :
                         b \in {x \in l.bots : /\ x.bot \in KeyBots
                                               /\ x.blocked >= 20
                                               /\ 5 * x.blocked > x.hits}})
            \cup {Play(<<"at_risk", p>>, "broken_page", 86) : p \in l.atRisk}
            \cup When(l.broken # {}, {Play(<<"broken_pages">>, "broken_page", 70)})
            \cup When(l.unread # {}, {Play(<<"read_not_cited">>, "read_not_cited", 62)})

\* At most six lost pages, by the number of questions that lost them; the
\* instances stay below that.
RefreshPlays(w, plan) ==
    When(plan, {Play(<<"refresh", u>>, "refresh", 80) : u \in Protect(w).lost})

SubqueryPlays(w) ==
    LET last == Max({s.run : s \in w.shards})
        missed == {s \in w.shards : s.run = last /\ s.present = "no"}
        of(q) == {s \in missed : s.parent = q}
        reach(q) == Max({s.reach : s \in of(q)})
        prio(q) == IF \E s \in of(q) : s.won THEN Min({85, 60 + 6 * reach(q)})
                                             ELSE Min({75, 55 + 5 * reach(q)})
        plays == {Play(<<"subquery", q>>, "subquery", prio(q)) : q \in {s.parent : s \in missed}}
        above(p) == {x \in plays : x.prio > p.prio}
    IN {p \in plays : Cardinality(above(p)) < 6}

SourceKind(kind) ==
    CASE kind \in {"video", "social"} -> "community" [] kind = "encyclopedia" -> "reference"
      [] OTHER -> kind

SourcePlays(w, plan) ==
    LET rivalOnly == {t \in w.targets : t.rival >= 2 /\ t.brand * 2 =< t.rival}
        kinds == {SourceKind(t.kind) : t \in rivalOnly}
        rows == {<<"review", "reviews", 66>>, <<"publisher", "earned", 70>>,
                 <<"community", "community", 52>>, <<"reference", "reference", 48>>}
    IN When(plan, {Play(<<"sources", r[1]>>, r[2], r[3]) : r \in {x \in rows : x[1] \in kinds}})

SITE_SEARCH_MIN == 5
SiteSearchPlay(w) ==
    When(/\ w.sites.hasDomains /\ w.sites.rivals >= SITE_SEARCH_MIN
         /\ w.sites.rivals >= 2 * w.sites.owned,
         {Play(<<"site_search", "rivals">>, "owned", 68)})

RESEARCH_MIN == 3
ResearchPlay(w) ==
    When(w.research.n >= RESEARCH_MIN /\ 100 * w.research.n >= 8 * w.research.all,
         {Play(<<"sources", "research">>, "evidence", 64)})

\* A Meta engine whose mention rate is significantly below the others' answers.
MetaPlay(w) ==
    LET below == {e.surface : e \in {x \in w.meta : x.others > 0 /\ x.verdict = "down"}}
    IN When("meta_api" \in below, {Play(<<"meta", "gap">>, "meta", 58)})
       \cup When("meta_muse" \in below, {Play(<<"meta", "muse_gap">>, "meta", 56)})

OwnedDocsPlay(w) ==
    When(w.docs.all >= 20 /\ 10 * w.docs.brand < w.docs.all,
         {Play(<<"owned", "chatgpt_docs">>, "owned", 72)})

StrategyPlay(w) == When(w.named.answers >= 30, {Play(<<"strategy">>, "strategy", 100)})

OwnPagePlays(w) ==
    {Play(<<"own_page", "facts", p.path>>, "own_page", 93) : p \in {x \in w.pages : x.conflict}}
    \cup {Play(<<"own_page", "noindex", p.path>>, "own_page", 95) :
            p \in {x \in w.pages : "noindex" \in x.flags}}
    \cup {Play(<<"own_page", "brave", p.path>>, "own_page", 85) :
            p \in {x \in w.pages : "not in Brave" \in x.flags /\ "noindex" \notin x.flags}}
    \cup When(\E p \in w.pages : p.flags \cap {"unreachable", "stale", "errors for AI bots"} # {},
              {Play(<<"own_page", "health">>, "own_page", 78)})

ModelChangePlays(w) ==
    {Play(<<"model_change", c.surface, c.model>>, "model_change", 62) :
        c \in {x \in w.switches : x.recent}}

\* Mutant: a branch missing from the table, as after adding a kind of play.
Mutant_SOURCE_BRANCHES ==
    [query |-> {"web_search", "training", "aio"}, accuracy |-> {"accuracy"},
     agents |-> {"crawler_access", "read_not_cited", "connect_logs"},
     refresh |-> {"refresh"}, subquery |-> {"subquery"},
     sources |-> {"reviews", "earned", "community", "reference"},
     owned_docs |-> {"owned"}, strategy |-> {"strategy"}, own_pages |-> {"own_page"},
     model_change |-> {"model_change"}, site_search |-> {"owned"}, research |-> {"evidence"},
     meta |-> {"meta"}]

SOURCE_BRANCHES ==
    [query |-> {"web_search", "training", "aio"}, accuracy |-> {"accuracy"},
     agents |-> {"crawler_access", "broken_page", "read_not_cited", "connect_logs"},
     refresh |-> {"refresh"}, subquery |-> {"subquery"},
     sources |-> {"reviews", "earned", "community", "reference"},
     owned_docs |-> {"owned"}, strategy |-> {"strategy"}, own_pages |-> {"own_page"},
     model_change |-> {"model_change"}, site_search |-> {"owned"}, research |-> {"evidence"},
     meta |-> {"meta"}]

PlaysOf(source, w, plan) ==
    CASE source = "query" -> QueryPlays(w, plan)
      [] source = "accuracy" -> AccuracyPlays(w)
      [] source = "agents" -> AgentPlays(w)
      [] source = "refresh" -> RefreshPlays(w, plan)
      [] source = "subquery" -> SubqueryPlays(w)
      [] source = "sources" -> SourcePlays(w, plan)
      [] source = "owned_docs" -> OwnedDocsPlay(w)
      [] source = "site_search" -> SiteSearchPlay(w)
      [] source = "research" -> ResearchPlay(w)
      [] source = "meta" -> MetaPlay(w)
      [] source = "strategy" -> StrategyPlay(w)
      [] source = "own_pages" -> OwnPagePlays(w)
      [] source = "model_change" -> ModelChangePlays(w)

\* Old logs cannot judge: the source's plays are added, its others stay.
KeepsExisting(source, w) == source = "agents" /\ w.logs.state = "stale"

\* The branches whose plays this pass may not resolve.
Frozen(w, failed) ==
    (UNION {SOURCE_BRANCHES[s] : s \in {x \in DOMAIN SOURCE_BRANCHES :
                                           x \in failed \/ KeepsExisting(x, w)}})
    \cup When("plan" \in failed, SOURCE_BRANCHES.refresh \cup SOURCE_BRANCHES.sources)

-----------------------------------------------------------------------------
(* A pass *)

NoPass == [at |-> "off"]
\* A row before its first play is written into it.
NewRow == [branch |-> "none", prio |-> 0, status |-> "open"]

PlaybookInit ==
    /\ world = FirstWorld
    /\ recs = [r \in {} |-> NewRow]
    /\ pass = [p \in Passes |-> NoPass]
    /\ closed = {}
    /\ drift = 0 /\ touch = 0 /\ ran = 0

\* Later measurements, uploads, crawls and edits change what the sources read.
Drift(w) ==
    /\ drift < MaxDrift
    /\ w # world
    /\ world' = w
    /\ drift' = drift + 1
    /\ UNCHANGED <<recs, pass, closed, touch, ran>>

\* The action plan and every source, each in a savepoint: a failing one
\* contributes nothing and freezes its branches.
Judge(p) ==
    /\ pass[p] = NoPass
    /\ ran < MaxPasses
    /\ \E failed \in Faults :
         LET w == Worlds[world]
             plan == "plan" \notin failed
         IN pass' = [pass EXCEPT ![p] =
               [at |-> "judged", world |-> world, failed |-> failed,
                frozen |-> Frozen(w, failed),
                plays |-> UNION {PlaysOf(s, w, plan) : s \in DOMAIN SOURCE_BRANCHES \ failed}]]
    /\ ran' = ran + 1
    /\ UNCHANGED <<world, recs, closed, drift, touch>>

\* The refresh plays that are open, unless the plan failed.
SeekLost(p) ==
    /\ pass[p].at = "judged"
    /\ LET open == {r \in DOMAIN recs : /\ recs[r].branch = "refresh"
                                        /\ recs[r].status \in OpenStatuses}
       IN pass' = [pass EXCEPT ![p] =
             [x \in DOMAIN @ \cup {"found"} |->
                 CASE x = "at" -> "sought"
                   [] x = "found" -> When("plan" \notin pass[p].failed, open)
                   [] OTHER -> @[x]]]
    /\ UNCHANGED <<world, recs, closed, drift, touch, ran>>

\* The table, read again: what was committed since the first read shows.
ReadRows(p) ==
    /\ pass[p].at = "sought"
    /\ pass' = [pass EXCEPT ![p] = [x \in DOMAIN @ \cup {"have"} |->
                   CASE x = "at" -> "read" [] x = "have" -> recs [] OTHER -> @[x]]]
    /\ UNCHANGED <<world, recs, closed, drift, touch, ran>>

\* Those found open whose page the newest run still does not cite.
StillLost(s) == {r \in s.found : r[2] \notin Protect(Worlds[s.world]).cited}

\* A live play's row: a resolved one reopens, a person's status is kept.
Refreshed(play, row) ==
    [branch |-> play.branch, prio |-> play.prio,
     status |-> IF row.status = "resolved" THEN "open" ELSE row.status]

\* A row without a live gap: resolved unless closed by hand, added by hand,
\* frozen, or a lost page that has not been won back.
LeftOver(r, row, s) ==
    IF \/ row.status \in HAND_STATUSES \cup {"resolved"}
       \/ row.branch \in s.frozen \cup {"manual"} \/ r \in StillLost(s)
    THEN row ELSE [row EXCEPT !.status = "resolved"]

\* The table the pass means to leave, from the rows it read.
Merged(s) ==
    LET live == {x.ref : x \in s.plays}
        playOf(r) == CHOOSE x \in s.plays : x.ref = r
        old(r) == IF r \in DOMAIN s.have THEN s.have[r] ELSE NewRow
    IN [r \in DOMAIN s.have \cup live |->
          IF r \in live THEN Refreshed(playOf(r), old(r)) ELSE LeftOver(r, s.have[r], s)]

\* The UPDATE of a loaded row writes the columns that changed since it was read.
Written(read, meant, current) ==
    [f \in DOMAIN current |-> IF meant[f] = read[f] THEN current[f] ELSE meant[f]]

\* One commit.  A row two passes insert breaks the unique (tenant, gap_ref)
\* and fails the whole pass.
Save(p) ==
    /\ pass[p].at = "read"
    /\ LET s == pass[p]
           meant == Merged(s)
           inserted == DOMAIN meant \ DOMAIN s.have
       IN IF inserted \cap DOMAIN recs # {} THEN UNCHANGED recs
          ELSE recs' = [r \in DOMAIN recs \cup DOMAIN meant |->
                  IF r \in inserted THEN meant[r]
                  ELSE IF r \in DOMAIN meant THEN Written(s.have[r], meant[r], recs[r])
                  ELSE recs[r]]
    /\ pass' = [pass EXCEPT ![p] = NoPass]
    /\ UNCHANGED <<world, closed, drift, touch, ran>>

\* PATCH /recommendations/{id}: any status, by hand.
UpdateRecommendation(r, status) ==
    /\ touch < MaxTouch
    /\ r \in DOMAIN recs
    /\ recs' = [recs EXCEPT ![r].status = status]
    /\ closed' = IF status \in HAND_STATUSES THEN closed \cup {r} ELSE closed \ {r}
    /\ touch' = touch + 1
    /\ UNCHANGED <<world, pass, drift, ran>>

\* POST /recommendations: "add to plan", an upsert under manual:<ref>.
AddRecommendation(ref) ==
    LET r == <<"manual", ref>>
    IN /\ touch < MaxTouch
       /\ recs' = [x \in DOMAIN recs \cup {r} |->
                     IF x # r THEN recs[x]
                     ELSE [branch |-> "manual", status |-> "in_progress",
                           prio |-> IF r \in DOMAIN recs THEN recs[r].prio ELSE 60]]
       /\ closed' = closed \ {r}
       /\ touch' = touch + 1
       /\ UNCHANGED <<world, pass, drift, ran>>

PlaybookNext ==
    \/ \E w \in DOMAIN Worlds : Drift(w)
    \/ \E p \in Passes : Judge(p) \/ SeekLost(p) \/ ReadRows(p) \/ Save(p)
    \/ \E r \in HandRefs, status \in HandTo : UpdateRecommendation(r, status)
    \/ \E ref \in ManualRefs : AddRecommendation(ref)

PlaybookSpec == PlaybookInit /\ [][PlaybookNext]_playbookVars
-----------------------------------------------------------------------------
(* Properties *)

\* Which source speaks for a play, by the form of its gap_ref.
SourceOf(r) ==
    CASE r[1] \in {"crawler", "at_risk", "broken_pages", "read_not_cited", "connect_logs"}
                                              -> "agents"
      [] r = <<"sources", "research">>        -> "research"
      [] r[1] = "owned"                       -> "owned_docs"
      [] r[1] = "own_page"                    -> "own_pages"
      [] r[1] = "manual"                      -> "nobody"
      [] OTHER                                -> r[1]

\* The source worked in pass s on data that can settle the play.
CouldJudge(s, r) ==
    /\ SourceOf(r) \in DOMAIN SOURCE_BRANCHES \ s.failed
    /\ SourceOf(r) \in {"refresh", "sources"} => "plan" \notin s.failed
    /\ SourceOf(r) = "agents" => Worlds[s.world].logs.state # "stale"
    /\ SourceOf(r) = "refresh" => r[2] \in Protect(Worlds[s.world]).cited

Saves(p) == pass[p].at = "read" /\ pass'[p] = NoPass

\* Resolved by a pass: the play leaves the list and no person touched it.
Resolves(r) == touch' = touch /\ recs[r].status # "resolved" /\ recs'[r].status = "resolved"

\* Only data resolves a play: the pass that saved ran that play's own source on
\* data that can settle it.  A failed source or plan, logs gone stale, a play
\* added by hand, or a lost page no answer cites again never close anything.
\* The one exception is a lost page's play that was not open when the pass
\* asked for those, and was when it read the table.
ResolvedForCause ==
    [][\A r \in DOMAIN recs : Resolves(r) =>
         \E p \in Passes : Saves(p) /\ \/ CouldJudge(pass[p], r)
                                       \/ /\ SourceOf(r) = "refresh"
                                          /\ r \notin pass[p].found
                                          /\ r \in DOMAIN pass[p].have
                                          /\ pass[p].have[r].status \in OpenStatuses]_playbookVars

\* "A lost citation stays a to-do until the page is cited again, not just until
\* it drops out of the latest two-run comparison" (the comment above SeekLost's
\* query).  Not so for a play opened between the pass's two reads.
LostUntilCited ==
    [][\A r \in DOMAIN recs : Resolves(r) /\ recs[r].branch = "refresh" =>
         \E p \in Passes : /\ Saves(p)
                           /\ r[2] \in Protect(Worlds[pass[p].world]).cited]_playbookVars

\* A pass whose rows nobody changed under it leaves the list its data calls for:
\* every live gap is listed or closed by hand, an open play without a live gap
\* is one the pass could not judge, and no question is told both to win live
\* search and to wait for the next training run, whatever its engines say.
ListFollowsData ==
    [][\A p \in Passes : Saves(p) /\ recs = pass[p].have =>
         LET live == {x.ref : x \in pass[p].plays}
             open == {r \in DOMAIN recs' : recs'[r].status \in OpenStatuses}
         IN /\ \A r \in live : r \in DOMAIN recs' /\ recs'[r].status # "resolved"
            /\ \A r \in open \ live : ~CouldJudge(pass[p], r)
                                        \/ SOURCE_BRANCHES[SourceOf(r)]
                                             \cap UNION {SOURCE_BRANCHES[s] : s \in
                                                {x \in DOMAIN SOURCE_BRANCHES :
                                                   x \in pass[p].failed}} # {}
            /\ "query" \notin pass[p].failed =>
                  \A r \in open : r[1] = "query" /\ r[3] = "training"
                                     => <<"query", r[2], "web_search">> \notin open]_playbookVars

\* "A human's status is kept" (the module's docstring): a play a person closed
\* is not reopened or resolved by a pass.
HumanStatusKept == \A r \in closed : recs[r].status \in HAND_STATUSES

=============================================================================
