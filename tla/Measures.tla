------------------------------ MODULE Measures ------------------------------
(***************************************************************************)
(* What the dashboards say of the stored answers: the mention rate, the    *)
(* KPI, topic and engine scorecards, the alert bar and the proof of        *)
(* shipped fixes, over a small database of answers and questions.          *)
(*                                                                         *)
(* The clock counts half days.  A run stores the answers of every active   *)
(* question on every engine, following one of a few profiles; an import    *)
(* stores answers a vendor captured, dated when they were captured and     *)
(* naming whatever model it says; between them people pause questions,     *)
(* import a configuration and log fixes, and a provider may start serving  *)
(* another model.  Every report is an operator over that state.  Rates are *)
(* pairs of counts, a p-value is a constant operator, and only ok answers  *)
(* are stored: every read asks for those.  The ten minutes by which an     *)
(* import may date a capture ahead are below the clock's grain.            *)
(***************************************************************************)
EXTENDS Integers, FiniteSets, FiniteSetsExt, Sequences

CONSTANTS
    Engines, Forced, AlwaysSearch, Browser,  \* surfaces, and three classes of them
    FamilyOf,          \* the engine family whose audience a surface shares
    Weights,           \* audience weight of each family
    QuestionSets,      \* question sets an import can write: text -> [branded, tag]
    FirstConfig,
    Profiles,          \* how the answers of a run turn out
    Payloads,          \* sets of captures an import can bring
    Announced,         \* announced engine changes, as <<day, surface>>
    WeightsChanged,    \* the day the audience weights changed, if any: a set of days
    WindowDays, ProofDays, MinAfterDays, TimelineDays, StabilityRuns,
    MinAnswers,        \* MIN_ANSWERS_FOR_CHANGE
    PValue(_, _),      \* of two rates, in thousandths
    Horizon, MaxRuns, MaxEdits   \* bounds of the model

Asked == "asked"   \* stands for the text of an answer a run stored

\* "overall" and "branded" name the pooled row and the brand's own topic.
ASSUME MeasuresAssumption ==
    /\ IsFiniteSet(Engines) /\ "overall" \notin Engines
    /\ Forced \cup AlwaysSearch \cup Browser \subseteq Engines
    /\ Forced \cap Browser = {}
    /\ \A c \in QuestionSets \cup {FirstConfig} :
          IsFiniteSet(DOMAIN c) /\ \A q \in DOMAIN c : c[q].tag # "branded"
    /\ \A p \in Profiles : IsFiniteSet(p.segments)
    /\ \A p \in Payloads : /\ IsFiniteSet(p)
                           /\ \A c \in p : c.sf \in Engines /\ c.age \in Nat /\ c.text # Asked
    /\ \A x \in Announced : x[1] \in Int
    /\ WindowDays \in Nat \ {0} /\ ProofDays \in Nat /\ TimelineDays \in Nat
    /\ MinAnswers \in Nat \ {0}

VARIABLES
    now,        \* half days since the start
    questions,  \* text -> [branded, tag, active, added, paused]
    answers,    \* the stored answers
    model,      \* surface -> the model its provider serves
    ledger,     \* shipped fixes, as [q, at]
    runs, edited \* how many runs and edits so far

measuresVars == <<now, questions, answers, model, ledger, runs, edited>>

-----------------------------------------------------------------------------
(* The database *)

Never == -1
Day(t) == t \div 2
DayStart(d) == 2 * d
Variants == {"search", "nosearch", "natural"}
NoModel == ""   \* what the answer of a captured page names
GenericSegments == {"generic", ""}

\* The variants a surface is asked in: a browser or search feature has only
\* the one, a forced engine also has its unforced probe.
AskedIn(e) == {"search"} \cup (IF e \in AlwaysSearch \cup Browser THEN {} ELSE {"nosearch"})
                         \cup (IF e \in Forced THEN {"natural"} ELSE {})

\* The persona that runs on every question, and alone on twins and probes.
Baseline(profile) ==
    IF "generic" \in profile.segments THEN "generic" ELSE CHOOSE s \in profile.segments : TRUE

Cells(profile) ==
    {c \in [q : DOMAIN questions, sf : Engines, variant : Variants, seg : profile.segments] :
        /\ questions[c.q].active
        /\ c.variant \in AskedIn(c.sf)
        /\ c.variant = "search" \/ c.seg = Baseline(profile)
        /\ ~(c.variant = "search" /\ c.sf \in profile.lost)}

\* A branded question names the brand by design; others as the profile says.
AnswerTo(c, profile, id) ==
    LET brand == IF \/ questions[c.q].branded
                    \/ c.variant = "search" /\ c.sf \in profile.named
                    \/ c.variant # "search" /\ profile.known
                 THEN profile.rank ELSE 0
    IN
    [id |-> id, run |-> runs + 1, q |-> c.q, sf |-> c.sf, variant |-> c.variant, seg |-> c.seg,
     at |-> now, stored |-> now, text |-> Asked, model |-> model[c.sf],
     brand |-> brand,
     rival |-> IF ~profile.crowded THEN 0 ELSE IF brand = 1 THEN 2 ELSE 1,
     owned |-> c.sf \in profile.named /\ c.variant = "search",
     sources |-> c.sf \in Browser \cap profile.named,
     calls |-> IF c.sf \in Browser \cup AlwaysSearch \/ c.variant = "nosearch" THEN 0
               ELSE IF c.variant = "natural" /\ ~profile.searches THEN 0 ELSE 1]

\* A capture of a vendor's: one persona, the search variant, no search count.
\* Its text is never one that a run stored; of captures that share surface,
\* question and text a payload holds the first.
VendorAnswer(c, id) ==
    [id |-> id, run |-> runs + 1, q |-> c.q, sf |-> c.sf, variant |-> "search", seg |-> "",
     at |-> now - c.age, stored |-> now, text |-> c.text, model |-> c.model,
     brand |-> c.brand, rival |-> c.rival, owned |-> c.owned, sources |-> c.sources, calls |-> 0]

Ok(variant) == {a \in answers : a.variant = variant}
Within(S, lo, hi) == {a \in S : lo <= a.at /\ a.at < hi}
Named(S) == {a \in S : a.brand > 0}

-----------------------------------------------------------------------------
(* Which answers a number stands for *)

BrandedTexts == {q \in DOMAIN questions : questions[q].branded}

Mutant_OffScore == {q \in DOMAIN questions : questions[q].tag = "agent" \/ ~questions[q].active}
\* Branded questions, agent prompts and paused questions stay off the score.
OffScore == {q \in DOMAIN questions : questions[q].branded \/ questions[q].tag = "agent"
                                         \/ ~questions[q].active}

Segment(S) == IF \E a \in S : a.seg = "generic" THEN "generic" ELSE "all"
OfSegment(S, segment) == IF segment = "all" THEN S ELSE {a \in S : a.seg \in GenericSegments}

\* A missing bound of a date range, as the caller leaves it out.
Lowest == 0
Highest == Horizon + 1

InScope(q, scope) ==
    CASE scope = "all" -> TRUE
      [] scope = "competitive" -> q \notin OffScore
      [] scope = "unbranded" -> q \notin BrandedTexts
      [] scope = "branded" -> q \in BrandedTexts

Mutant_Latest(variant, lo, hi, scope, segment) ==
    LET rows == {a \in OfSegment({b \in Ok(variant) : b.at >= lo}, segment) : InScope(a.q, scope)}
    IN  {a \in rows : \A b \in rows : b.q = a.q /\ b.sf = a.sf => b.id <= a.id}
\* Newest answer per (question, surface) of one variant.
Latest(variant, lo, hi, scope, segment) ==
    LET rows == {a \in OfSegment(Within(Ok(variant), lo, hi), segment) : InScope(a.q, scope)}
    IN  {a \in rows : \A b \in rows : b.q = a.q /\ b.sf = a.sf => b.id <= a.id}

-----------------------------------------------------------------------------
(* Rates and verdicts: counts are [k, n], mentioned and answers *)

Count(S) == [k |-> Cardinality(Named(S)), n |-> Cardinality(S)]

\* The two halves of a window, split at its middle.
Halves(S, lo, hi) ==
    [first  |-> Count({a \in S : 2 * a.at < lo + hi}),
     second |-> Count({a \in S : 2 * a.at >= lo + hi})]

\* A rate pooled by weight over the cells that have answers and a weight;
\* equally when every weight is 0.  cells: family -> [k, n].
Pool(cells) ==
    LET some == {f \in DOMAIN cells : cells[f].n > 0}
        heavy == {f \in some : Weights[f] > 0}
        live == IF heavy = {} THEN some ELSE heavy
        w(f) == IF heavy = {} THEN 1 ELSE Weights[f]
        others(f) == FoldSet(LAMBDA g, p : p * cells[g].n, 1, live \ {f})
    IN  [num |-> MapThenSumSet(LAMBDA f : w(f) * cells[f].k * others(f), live),
         den |-> MapThenSumSet(w, live) * FoldSet(LAMBDA g, p : p * cells[g].n, 1, live),
         n   |-> MapThenSumSet(LAMBDA f : cells[f].n, live)]

Rate(c) == [num |-> c.k, den |-> c.n, n |-> c.n]

Change(before, after) ==
    IF before.n < MinAnswers \/ after.n < MinAnswers
    THEN [verdict |-> "not enough data", p |-> Never]
    ELSE [verdict |-> IF PValue(before, after) >= 50 THEN "no real change"
                      ELSE IF after.num * before.den > before.num * after.den THEN "up"
                      ELSE "down",
          p |-> PValue(before, after)]

\* The answers of one half of a window, pooled per engine family.
FamilyCells(S) == [f \in {FamilyOf[a.sf] : a \in S} |-> Count({a \in S : FamilyOf[a.sf] = f})]
PooledChange(S, lo, hi) ==
    Change(Pool(FamilyCells({a \in S : 2 * a.at < lo + hi})),
           Pool(FamilyCells({a \in S : 2 * a.at >= lo + hi})))

-----------------------------------------------------------------------------
(* The headline: mention rates over a window *)

\* Every answer of the window to a question on the score.
OnScore(lo, hi) == {a \in Within(answers, lo, hi) : a.q \notin OffScore}

\* What users get: the probe where the measured answer is forced to search.
Unforced(pool) == {a \in pool : a.variant = (IF a.sf \in Forced THEN "natural" ELSE "search")}
SearchedCount(users, e) ==
    IF e \in Browser THEN Never
    ELSE IF e \in AlwaysSearch THEN Cardinality(users)
    ELSE Cardinality({a \in users : a.calls > 0})

\* The headline of the answers on the score in a window.
Headline(base, lo, hi) ==
    LET segment == Segment({a \in base : a.variant = "search"})
        pool == OfSegment(base, segment)
        counted == {a \in pool : a.variant = "search"}
        surfaces == {a.sf : a \in counted}
        unforced == Unforced(pool)
        missing == {e \in surfaces \cap Forced : ~\E a \in unforced : a.sf = e}
    IN  [segment |-> segment, counted |-> counted,
         overall |-> [rate |-> Pool(FamilyCells(counted)),
                      change |-> PooledChange(counted, lo, hi),
                      equal |-> Count(counted),
                      questions |-> {a.q : a \in counted},
                      missing |-> missing,
                      unforced |-> IF unforced = {} \/ missing # {} THEN {}
                                   ELSE {Pool(FamilyCells(unforced))}],
         engines |-> [e \in surfaces |->
             LET mine == {a \in counted : a.sf = e}
                 users == {a \in unforced : a.sf = e}
                 h == Halves(mine, lo, hi)
             IN  [count |-> Count(mine),
                  questions |-> {a.q : a \in mine},
                  change |-> Change(Rate(h.first), Rate(h.second)),
                  unforced |-> Count(users),
                  searched |-> SearchedCount(users, e)]]]

MentionRates(lo, hi) == Headline(OnScore(lo, hi), lo, hi)

DefaultWindow == [lo |-> now - 2 * WindowDays, hi |-> now]

-----------------------------------------------------------------------------
(* The scorecards *)

\* Prominence weight 1/rank, in halves (ranks here are 1 and 2).
Prominence(rank) == IF rank = 0 THEN 0 ELSE 2 \div rank
Share(S) == [brand |-> MapThenSumSet(LAMBDA a : Prominence(a.brand), S),
             total |-> MapThenSumSet(LAMBDA a : Prominence(a.brand) + Prominence(a.rival), S)]
NamingRivals(S) == {a \in S : a.rival > 0}

\* The last runs with an answer on the score, each with its presence rate.
Stability(rows) ==
    LET ids == {a.run : a \in rows}
        recent == {r \in ids : Cardinality({s \in ids : s > r}) < StabilityRuns}
    IN  [r \in recent |-> Count({a \in rows : a.run = r})]

\* latest: the newest answers, all: every answer of the range.
Kpis(latest, all) ==
    LET present == Named(latest)
    IN  [measured |-> Cardinality(latest), present |-> Cardinality(present),
         leads |-> Cardinality({a \in present : a.brand = 1}),
         share |-> Share(latest),
         shared |-> Cardinality(NamingRivals(present)),
         wins |-> Cardinality({a \in NamingRivals(present) : a.brand < a.rival}),
         stability |-> Stability(all)]

\* rates: the headline of the same screen, lo and hi: the range asked for.
KpiScorecard(rates, lo, hi) ==
    Kpis(Latest("search", lo, hi, "competitive", rates.segment),
         OfSegment({a \in Within(Ok("search"), lo, hi) : a.q \notin OffScore}, rates.segment))

\* A topic is a competitive tag, the agent prompts, or everything branded.
TopicOf == [q \in DOMAIN questions |->
                IF questions[q].branded THEN "branded" ELSE questions[q].tag]

\* One row per topic: pool, the answers of the window w; latest, of the range.
TopicRows(topicOf, pool, latest, w) ==
    [t \in {topicOf[a.q] : a \in pool \cup latest} |->
        LET counted == {a \in pool : topicOf[a.q] = t}
            mine == {a \in latest : topicOf[a.q] = t}
            h == Halves(counted, w.lo, w.hi)
        IN  [questions |-> {a.q : a \in counted},
             count |-> Count(counted),
             change |-> Change(Rate(h.first), Rate(h.second)),
             share |-> Share(mine),
             leads |-> Cardinality({a \in Named(mine) : a.brand = 1}),
             rivals |-> Cardinality(NamingRivals(mine)),
             cited |-> Cardinality({a \in mine : a.owned}),
             measured |-> Cardinality(mine)]]

\* w: the headline window, lo and hi: the range asked for.
TopicScorecard(w, lo, hi) ==
    LET base == Within(Ok("search"), w.lo, w.hi)
        segment == Segment(base)
        known(S) == {a \in S : a.q \in DOMAIN questions}
    IN  [segment |-> segment,
         rows |-> TopicRows(TopicOf, known(OfSegment(base, segment)),
                            known(Latest("search", lo, hi, "all", segment)), w)]

\* The newest answers to the questions on the score.
Newest(variant, lo, hi) == Latest(variant, lo, hi, "competitive", "all")

EngineRows(search, nosearch) ==
    [e \in {a.sf : a \in search \cup nosearch} |->
        LET mine == {a \in search : a.sf = e}
        IN  [measured |-> Cardinality(mine), brand |-> Cardinality(Named(mine)),
             cited |-> Cardinality({a \in mine : a.owned}),
             rival |-> Cardinality(NamingRivals(mine))]]

EngineTable(lo, hi) == EngineRows(Newest("search", lo, hi), Newest("nosearch", lo, hi))

\* One row per listed question, with its diagnosis.
MatrixRows(listed, search, nosearch) ==
    [q \in listed |->
        LET mine == {a \in search : a.q = q}
            twins == {a \in nosearch : a.q = q}
        IN  [cells |-> [e \in {a.sf : a \in mine} |->
                           LET a == CHOOSE b \in mine : b.sf = e
                           IN  IF a.brand > 0 THEN "brand"
                               ELSE IF a.rival > 0 THEN "competitor" ELSE "absent"],
             diagnosis |-> IF Named(mine) # {} THEN "visible"
                           ELSE IF twins = {} THEN "undetermined"
                           ELSE IF Named(twins) # {} THEN "content_gap" ELSE "knowledge_gap"]]

\* The questions of the current configuration the matrix has a row for.
Listed(rows) == {q \in DOMAIN questions : /\ ~questions[q].branded /\ questions[q].tag # "agent"
                                          /\ questions[q].active \/ \E a \in rows : a.q = q}

Matrix(lo, hi) ==
    LET search == Newest("search", lo, hi)
        nosearch == Newest("nosearch", lo, hi)
    IN  MatrixRows(Listed(search \cup nosearch), search, nosearch)

-----------------------------------------------------------------------------
(* Pages that list answers: sources, the brand's own questions, every question *)

\* The brand's domain among those cited, by engine and by the questions it feeds.
Sources(own) ==
    [count |-> Cardinality(own), queries |-> {a.q : a \in own},
     engines |-> [e \in {a.sf : a \in own} |-> Cardinality({a \in own : a.sf = e})]]

CitationsIntel(lo, hi) == Sources({a \in Newest("search", lo, hi) : a.owned})

\* Of each engine that answered a question: does its answer name the brand.
NamedBy(rows, q) == [e \in {a.sf : a \in {b \in rows : b.q = q}} |->
                        \E a \in Named(rows) : a.q = q /\ a.sf = e]

\* What engines say when asked about the brand: where it is not even named.
Presence(rows) ==
    [presence |-> Count(rows), queries |-> [q \in {a.q : a \in rows} |-> NamedBy(rows, q)]]

BrandReport(lo, hi) == Presence(Latest("search", lo, hi, "branded", "all"))

\* Every question there is now, with the newest answer of each engine.
QuestionRows(qs, rows) ==
    [q \in DOMAIN qs |->
        [active |-> qs[q].active, branded |-> qs[q].branded, latest |-> NamedBy(rows, q)]]

QueriesIntel(lo, hi) == QuestionRows(questions, Latest("search", lo, hi, "all", "all"))

\* Plain share of mentions: every answer of the range, whoever it names.
ShareOfVoice(lo, hi) ==
    LET pool == {a \in Within(Ok("search"), lo, hi) : a.q \notin OffScore}
    IN  [brand |-> Cardinality(Named(pool)), rival |-> Cardinality(NamingRivals(pool))]

\* Of the answers to agent prompts: who is named first, or at all.
Picks(S) ==
    [n |-> Cardinality(S), named |-> Cardinality(Named(S)),
     first |-> Cardinality({a \in S : a.brand = 1}),
     none |-> Cardinality({a \in S : 1 \notin {a.brand, a.rival}})]

AgentPicks ==
    LET prompts == {q \in DOMAIN questions : questions[q].active /\ questions[q].tag = "agent"}
        rows == {a \in Ok("search") : a.at >= now - 2 * WindowDays /\ a.q \in prompts}
    IN  [overall |-> Picks(rows),
         engines |-> [e \in {a.sf : a \in rows} |-> Picks({a \in rows : a.sf = e})],
         prompts |-> [q \in {a.q : a \in rows} |-> Picks({a \in rows : a.q = q})]]

-----------------------------------------------------------------------------
(* How engines reach their answers *)

\* The answers whose search count shows what the engine does unforced.
Signal(e, search, natural) == {a \in (IF e \in Forced THEN natural ELSE search) : a.sf = e}

Routing(search, natural) ==
    LET src(e) == Signal(e, search, natural)
    IN  [e \in {f \in Engines : src(f) # {}} |->
            [measured |-> Cardinality(src(e)),
             searched |-> Cardinality({a \in src(e) : a.calls > 0})]]

RoutingReport(lo, hi) == Routing(Newest("search", lo, hi), Newest("natural", lo, hi))

\* A captured engine reports no search count: Google's search always, a
\* browser's answer did if it shows sources.
Searched(a) == IF a.sf \in AlwaysSearch THEN TRUE
               ELSE IF a.sf \in Browser THEN a.sources ELSE a.calls > 0

Modes(search, natural, nosearch) ==
    LET sig(e) == Signal(e, search, natural)
        \* answers given without searching, once per question and surface
        recall == nosearch \cup {a \in natural : a.calls = 0 /\
                                    ~\E b \in nosearch : b.q = a.q /\ b.sf = a.sf}
        retrieval == {a \in search : a.calls > 0}
    IN  [engines |-> [e \in {f \in Engines : sig(f) # {}} |->
            LET n == Cardinality(sig(e))
                k == Cardinality({a \in sig(e) : Searched(a)})
                live == {a \in search : a.sf = e}
                mode == IF 100 * k >= 66 * n THEN "retrieve"
                        ELSE IF 100 * k <= 33 * n THEN "recall" ELSE "mixed"
            IN  [measured |-> n, searched |-> k, mode |-> mode,
                 standing |-> IF mode = "retrieve"
                              THEN [k |-> Cardinality({a \in live : a.owned}),
                                    n |-> Cardinality(live)]
                              ELSE Count(sig(e))]],
         recall |-> recall, retrieval |-> retrieval]

EngineModes(lo, hi) ==
    Modes(Newest("search", lo, hi), Newest("natural", lo, hi), Newest("nosearch", lo, hi))

-----------------------------------------------------------------------------
(* Engine changes and the alert bar *)

\* The days since a number of days on which the model a surface names changes,
\* along its answers that name one in the order of their times.  Answers of the
\* same time come in any order: which is the last of them is a choice.
ModelTimeline(days) ==
    LET rows == {a \in Ok("search") : a.at >= now - 2 * days /\ a.model # NoModel}
        beside(a) == {b \in rows : b.sf = a.sf /\ b.at = a.at}
        before(a) == {b \in rows : b.sf = a.sf /\ b.at < a.at}
        last(S) == CHOOSE b \in S : \A c \in S : c.at <= b.at
    IN  {[day |-> Day(a.at), sf |-> a.sf] :
            a \in {x \in rows : \/ \E b \in beside(x) : b.model # x.model
                                \/ before(x) # {} /\ last(before(x)).model # x.model}}

Mutant_EngineBreaks(lo, hi) ==
    LET measured == {a.sf : a \in answers}
    IN  {b \in {[day |-> x[1], sf |-> x[2]] : x \in Announced} :
            lo < b.day /\ b.day <= hi /\ b.sf \in measured}
\* What splits a series between two days (lo exclusive, hi inclusive).
EngineBreaks(lo, hi) ==
    LET in(d) == lo < d /\ d <= hi
        measured == {a.sf : a \in answers}
        announced == {[day |-> x[1], sf |-> x[2]] : x \in Announced}
        added == {Day(questions[q].added) : q \in DOMAIN questions}
        paused == {Day(questions[q].paused) :
                      q \in {r \in DOMAIN questions : questions[r].paused # Never /\ ~questions[r].active}}
        days == Max({TimelineDays, Day(now) - lo + 1})
    IN  {b \in announced : in(b.day) /\ b.sf \in measured}
          \cup {b \in ModelTimeline(days) : in(b.day)}
          \cup {[day |-> d, sf |-> "overall"] :
                   d \in {x \in WeightsChanged \cup paused \cup (added \ {Min(added)}) : in(x)}}

\* Rows of a family of tests whose p-value survives a Holm step-down at 5%.
HolmSurvivors(p) ==
    LET tested == {r \in DOMAIN p : p[r] # Never}
        m == Cardinality(tested)
        rank(r) == Cardinality({s \in tested : p[s] < p[r]})
    IN  {r \in tested : \A s \in tested : p[s] <= p[r] => p[s] * (m - rank(s)) <= 50}

\* The rows of the bar: a real move, on the pooled rate or on one engine.
VisibilityAlerts ==
    LET w == DefaultWindow
        rates == MentionRates(w.lo, w.hi)
        change == [r \in DOMAIN rates.engines \cup {"overall"} |->
                      IF r = "overall" THEN rates.overall.change ELSE rates.engines[r].change]
        breaks == EngineBreaks(Day(w.lo), Day(w.hi))
        moved == {r \in HolmSurvivors([s \in DOMAIN change |-> change[s].p]) :
                     change[r].verdict \in {"up", "down"}}
    IN  {[row |-> r,
          kind |-> IF r = "overall" /\ breaks # {} THEN "series_break"
                   ELSE IF change[r].verdict = "down" THEN "visibility_drop" ELSE "visibility_gain",
          coincides |-> \E b \in breaks : b.sf = r] : r \in moved}

-----------------------------------------------------------------------------
(* Proof of shipped fixes *)

\* Equal windows either side of the ship day, as far as days have passed.
Windows(shipped) ==
    LET length == Max({0, Min({ProofDays, Day(now) - shipped})})
    IN  [b0 |-> shipped - length, a0 |-> shipped + 1, a1 |-> shipped + 1 + length, length |-> length]

Treated == {i.q : i \in ledger}
Earliest == Min({Day(i.at) : i \in ledger}) - (ProofDays + 1)
\* The measured answers the proof reads, and the questions nobody fixed.
ProofRows == {a \in Ok("search") : Day(a.at) >= Earliest}
Controls == {a.q : a \in ProofRows} \ (Treated \cup OffScore)

Confounding(item) ==
    LET w == Windows(Day(item.at))
    IN  {b \in EngineBreaks(Earliest, Day(now)) : w.b0 <= b.day /\ b.day < w.a1 /\ b.sf # "overall"}

Mutant_Regimes(item) ==
    LET w == Windows(Day(item.at))
        breaks == Confounding(item)
        days(e) == {b.day : b \in {c \in breaks : c.sf = e}}
    IN  [e \in Engines |-> [from |-> w.b0, to |-> Min({w.a1} \cup {d \in days(e) : d > Day(item.at)})]]
\* The days of a window in which each engine was in the state the fix shipped
\* in: from its last change up to the ship day to its first change after.
Regimes(item) ==
    LET w == Windows(Day(item.at))
        breaks == Confounding(item)
        days(e) == {b.day : b \in {c \in breaks : c.sf = e}}
    IN  [e \in Engines |-> [from |-> Max({w.b0} \cup {d \in days(e) : d <= Day(item.at)}),
                            to   |-> Min({w.a1} \cup {d \in days(e) : d > Day(item.at)})]]

InDays(S, lo, hi) == {a \in S : lo <= Day(a.at) /\ Day(a.at) < hi}
InRegime(S, regime) == {a \in S : regime[a.sf].from <= Day(a.at) /\ Day(a.at) < regime[a.sf].to}

Proof(item) ==
    LET w == Windows(Day(item.at))
        regime == Regimes(item)
        controls == Controls
        confounded == Confounding(item) # {}
        mine == {a \in ProofRows : a.q = item.q}
        theirs == {a \in ProofRows : a.q \in controls}
        before == InDays(InRegime(mine, regime), w.b0, w.a0)
        after == InDays(InRegime(mine, regime), w.a0, w.a1)
        cb == Count(InDays(InRegime(theirs, regime), w.b0, w.a0))
        ca == Count(InDays(InRegime(theirs, regime), w.a0, w.a1))
        kb == Count(before)
        ka == Count(after)
        test == Change(Rate(kb), Rate(ka)).verdict
        all == Cardinality(InDays(mine, w.b0, w.a1))
        lostMost == confounded /\ 2 * (kb.n + ka.n) < all
        \* the fixed question moved more than the untouched ones
        beats == \/ 0 \in {cb.n, ca.n}
                 \/ (ka.k * kb.n - kb.k * ka.n) * (ca.n * cb.n)
                       > (ca.k * cb.n - cb.k * ca.n) * (ka.n * kb.n)
    IN  [before |-> before, after |-> after,
         status |-> IF w.length < MinAfterDays THEN "awaiting"
                    ELSE IF confounded /\ (lostMost \/ test # "up") THEN "confounded"
                    ELSE IF test = "up" /\ beats THEN "proven"
                    ELSE IF test = "down" THEN "worse" ELSE "no_change"]

\* The older report: every answer before the fix against every one after.
InterventionsReport(item) ==
    LET mine == {a \in Ok("search") : a.q = item.q}
        before == {a \in mine : a.at < item.at}
        after == {a \in mine : a.at >= item.at}
        theirs == {a \in Ok("search") : a.q \notin Treated \cup OffScore}
    IN  [before |-> Count(before), after |-> Count(after),
         controlBefore |-> Count({a \in theirs : a.at < item.at}),
         controlAfter |-> Count({a \in theirs : a.at >= item.at}),
         newlyVisible |-> {a.sf : a \in Named(after)} \ {a.sf : a \in Named(before)},
         awaiting |-> after = {}]

-----------------------------------------------------------------------------
(* Runs and edits *)

NewQuestions(config, t) == [q \in DOMAIN config |->
    [branded |-> config[q].branded, tag |-> config[q].tag, active |-> TRUE,
     added |-> t, paused |-> Never]]

MeasuresInit ==
    /\ now = 0
    /\ questions = NewQuestions(FirstConfig, 0)
    /\ answers = {}
    /\ model = [e \in Engines |-> IF e \in Browser THEN NoModel ELSE "m1"]
    /\ ledger = {}
    /\ runs = 0 /\ edited = 0

\* The members of a set in some order.
ListOf(S) == FoldSet(LAMBDA c, s : Append(s, c), <<>>, S)

\* A run stores its answers; half a day later the reports are read.
Run(profile) ==
    /\ runs < MaxRuns /\ now < Horizon
    /\ LET cells == ListOf(Cells(profile))
           base == Cardinality(answers)
       IN  answers' = answers \cup {AnswerTo(cells[i], profile, base + i) : i \in DOMAIN cells}
    /\ runs' = runs + 1
    /\ now' = now + 1
    /\ UNCHANGED <<questions, model, ledger, edited>>

\* import_captures: those not yet stored, as a run of their own; a payload
\* without one leaves no run behind.
ImportCaptures(payload) ==
    /\ runs < MaxRuns /\ now < Horizon
    /\ \A c \in payload : c.age <= now
    /\ LET fresh == {c \in payload : \A a \in answers :
                         ~(a.sf = c.sf /\ a.q = c.q /\ a.text = c.text)}
           captures == ListOf(fresh)
           base == Cardinality(answers)
       IN  /\ fresh # {}
           /\ answers' = answers \cup {VendorAnswer(captures[i], base + i) : i \in DOMAIN captures}
    /\ runs' = runs + 1
    /\ now' = now + 1
    /\ UNCHANGED <<questions, model, ledger, edited>>

Wait ==
    /\ now < Horizon
    /\ now' = now + 1
    /\ UNCHANGED <<questions, answers, model, ledger, runs, edited>>

Edit == edited < MaxEdits /\ edited' = edited + 1 /\ UNCHANGED <<now, answers, runs>>

\* set_query_active: the last active question that is not branded stays.
Pause(q) ==
    /\ questions[q].active
    /\ \/ questions[q].branded
       \/ \E r \in DOMAIN questions \ {q} : questions[r].active /\ ~questions[r].branded
    /\ questions' = [questions EXCEPT ![q].active = FALSE, ![q].paused = now]
    /\ Edit /\ UNCHANGED <<model, ledger>>

Resume(q) ==
    /\ ~questions[q].active
    /\ questions' = [questions EXCEPT ![q].active = TRUE, ![q].paused = Never]
    /\ Edit /\ UNCHANGED <<model, ledger>>

\* import_config replaces every question row.
Import(config) ==
    /\ questions' = NewQuestions(config, now)
    /\ Edit /\ UNCHANGED <<model, ledger>>

\* A fix is logged with the day it shipped, today or an earlier one.
Ship(q, at) ==
    /\ at <= now
    /\ ledger' = ledger \cup {[q |-> q, at |-> at]}
    /\ ledger' # ledger
    /\ Edit /\ UNCHANGED <<questions, model>>

SwitchModel(e) ==
    /\ e \notin Browser
    /\ model' = [model EXCEPT ![e] = IF @ = "m1" THEN "m2" ELSE "m1"]
    /\ Edit /\ UNCHANGED <<questions, ledger>>

MeasuresNext ==
    \/ \E p \in Profiles : Run(p)
    \/ \E p \in Payloads : ImportCaptures(p)
    \/ Wait
    \/ \E q \in DOMAIN questions : Pause(q) \/ Resume(q) \/ \E t \in {now, now - 2} : Ship(q, t)
    \/ \E c \in QuestionSets : Import(c)
    \/ \E e \in Engines : SwitchModel(e)

MeasuresSpec == MeasuresInit /\ [][MeasuresNext]_measuresVars

-----------------------------------------------------------------------------
(* Properties *)

TypeOK ==
    /\ now \in 0..Horizon /\ runs \in 0..MaxRuns /\ edited \in 0..MaxEdits
    /\ \A q \in DOMAIN questions :
          /\ questions[q].branded \in BOOLEAN /\ questions[q].active \in BOOLEAN
          /\ questions[q].paused \in {Never} \cup 0..now /\ questions[q].added \in 0..now
    /\ \A a \in answers : a.sf \in Engines /\ a.variant \in Variants /\ a.at <= a.stored /\ a.stored < now

AllReports(r) ==
    LET rates == MentionRates(r.lo, r.hi)
    IN  <<rates, KpiScorecard(rates, r.lo, r.hi), TopicScorecard(r, r.lo, r.hi),
          EngineTable(r.lo, r.hi), Matrix(r.lo, r.hi), RoutingReport(r.lo, r.hi),
          EngineModes(r.lo, r.hi), CitationsIntel(r.lo, r.hi), BrandReport(r.lo, r.hi),
          QueriesIntel(r.lo, r.hi), ShareOfVoice(r.lo, r.hi)>>

Total(f) == FoldSet(LAMBDA x, sum : sum + f[x], 0, DOMAIN f)

\* Pages that list single answers agree with those that count them: a question's
\* row with the matrix, the sources with the engine table, agent picks with the
\* agent prompts' topic row (no paused question, and no branded one among them,
\* which has the brand's row), share of voice with the headline.
ListsMatchCounts ==
    LET w == DefaultWindow
        rates == MentionRates(w.lo, w.hi)
        topics == TopicScorecard(w, Lowest, Highest)
        table == EngineTable(Lowest, Highest)
        matrix == Matrix(Lowest, Highest)
        listed == QueriesIntel(Lowest, Highest)
        sources == CitationsIntel(Lowest, Highest)
        picks == AgentPicks
    IN  /\ \A q \in DOMAIN matrix : questions[q].active =>
               /\ DOMAIN listed[q].latest = DOMAIN matrix[q].cells
               /\ \A e \in DOMAIN matrix[q].cells :
                      listed[q].latest[e] <=> matrix[q].cells[e] = "brand"
        /\ \A e \in DOMAIN table : e \in DOMAIN sources.engines =>
               sources.engines[e] = table[e].cited
        /\ sources.count = Total([e \in DOMAIN table |-> table[e].cited])
        /\ ("agent" \in DOMAIN topics.rows /\ topics.segment = "all"
              /\ \A q \in DOMAIN questions :
                    questions[q].active /\ ~(questions[q].branded /\ questions[q].tag = "agent")) =>
               /\ picks.overall.n = topics.rows["agent"].count.n
               /\ picks.overall.named = topics.rows["agent"].count.k
        /\ rates.segment = "all" =>
               ShareOfVoice(w.lo, w.hi).brand = rates.overall.equal.k

\* Screens that count the same answers by different reads agree: the engine
\* table with the question matrix and with the KPIs, the topic rows with the
\* headline, the two routing reports, the lists with the counts; and no answer
\* given from memory is also counted as retrieved.
ScreensAgree ==
    LET w == DefaultWindow
        rates == MentionRates(w.lo, w.hi)
        kpi == KpiScorecard(rates, Lowest, Highest)
        topics == TopicScorecard(w, Lowest, Highest)
        competitive == {t \in DOMAIN topics.rows : t \notin {"branded", "agent"}}
        table == EngineTable(Lowest, Highest)
        matrix == Matrix(Lowest, Highest)
        modes == EngineModes(Lowest, Highest)
        routing == RoutingReport(Lowest, Highest)
        known == {a.q : a \in answers} \subseteq DOMAIN questions
    IN  /\ known => \A e \in DOMAIN table :
               table[e].brand = Cardinality({q \in DOMAIN matrix : e \in DOMAIN matrix[q].cells
                                                 /\ matrix[q].cells[e] = "brand"})
        /\ rates.segment = "all" =>
               /\ kpi.measured = Total([e \in DOMAIN table |-> table[e].measured])
               /\ kpi.present = Total([e \in DOMAIN table |-> table[e].brand])
        /\ (known /\ topics.segment = rates.segment /\ \A q \in DOMAIN questions : questions[q].active) =>
               rates.overall.equal.k = Total([t \in competitive |-> topics.rows[t].count.k])
        /\ \A e \in DOMAIN routing \ (AlwaysSearch \cup Browser) :
               /\ routing[e].measured = modes.engines[e].measured
               /\ routing[e].searched = modes.engines[e].searched
        /\ modes.recall \cap modes.retrieval = {}
        /\ ListsMatchCounts

\* Of each engine, the answers that name a model name the same one.
OneModelEach(S) ==
    \A a, b \in S : a.sf = b.sf /\ NoModel \notin {a.model, b.model} => a.model = b.model

\* A move the alert bar reports without naming an engine change is not one of
\* models: after the window's first day, the answers it counts of an engine name
\* one model, those captured and imported late with another among them.
UnflaggedMovesAreOneModel ==
    LET w == DefaultWindow
        counted == {a \in MentionRates(w.lo, w.hi).counted : Day(a.at) > Day(w.lo)}
    IN  \A alert \in VisibilityAlerts :
            \/ alert.kind = "series_break" \/ alert.coincides
            \/ OneModelEach({a \in counted : alert.row \in {"overall", a.sf}})

\* The answers a fix is judged by, before and after, name one model per engine,
\* whenever and however often the provider switched and whatever was imported
\* since: only the day an engine changed can hold two.
ProofKeepsOneModel ==
    \A item \in ledger :
        LET proof == Proof(item)
            regime == Regimes(item)
        IN  OneModelEach({a \in proof.before \cup proof.after : Day(a.at) > regime[a.sf].from})

\* _latest_results_by_variant (common.py:155): "Newest result per (query_text,
\* surface) for one variant, restricted to the [lo, hi) window when given - i.e.
\* the state 'as of' the range's end."  An imported capture is newest by its
\* id, however old.
LatestIsNewest ==
    \A a \in Newest("search", Lowest, Highest) : \A b \in Ok("search") :
        b.q = a.q /\ b.sf = a.sf => b.at <= a.at

\* models.py:176: branded questions are excluded from the visibility metrics
\* "so they don't inflate them": no answer to a question that was branded when
\* it was asked counts in the headline, unless an import cleared the flag.
BrandedStaysOut ==
    LET asked == {q \in UNION {DOMAIN c : c \in QuestionSets \cup {FirstConfig}} :
                     \A c \in QuestionSets \cup {FirstConfig} : q \in DOMAIN c => c[q].branded}
    IN  \A a \in MentionRates(DefaultWindow.lo, DefaultWindow.hi).counted : a.q \notin asked

\* proof_service.py:67: "equal-length windows either side of the ship day;
\* the ship day itself is excluded".
ShipDayExcluded ==
    \A item \in ledger : \A a \in Proof(item).before \cup Proof(item).after :
        Day(a.at) # Day(item.at)
=============================================================================
