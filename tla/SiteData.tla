------------------------------ MODULE SiteData ------------------------------
(***************************************************************************)
(* What is known of the tenant's own site: AI bot hits from uploaded       *)
(* access logs (api/agent_analytics.py), crawls of the cited pages         *)
(* (worker/page_crawl.py), first-party exports (api/first_party_service.py)*)
(* and the fact sheet the crawl checks pages against, with the two screens *)
(* that join them: AI Agents and Your Pages (api/own_pages_service.py).    *)
(*                                                                         *)
(* The clock counts half days.  A page is named by its normalised path:    *)
(* answers cite and the crawl fetches URLs, access logs hold raw paths,    *)
(* and several of either are one page.  A log line is the hit it stands    *)
(* for; lines of humans and lines that do not parse count as none.  How    *)
(* many pages a crawl takes and how many rows a screen has room for are    *)
(* left out: a row here is one the screens work out.                       *)
(***************************************************************************)
EXTENDS Integers, FiniteSets, FiniteSetsExt, Sequences, SequencesExt, Bags, TLC

CONSTANTS
    Pages,       \* the brand's own pages
    PageOf,      \* raw path of an access log -> page
    UrlPage,     \* URL of the brand's site -> page
    PurposeOf,   \* AI bot -> training, search, user or agent
    Logs,        \* upload -> the batches of its log, sequences of hits
    Drained,     \* the uploads a log drain pushes; a person sends the others
    MaxPaths,    \* MAX_PATHS
    Serves,      \* what a URL may answer the crawler
    FirstServed, \* what every URL answers at first
    MaxConflicts, \* how many conflicts of a URL a crawl keeps
    FactSheets,  \* the fact sheets a configuration may hold
    Exports,     \* source -> the exports it offers, cell -> value
    WindowDays,
    Horizon, MaxEdits   \* bounds of the model

ASSUME SiteAssumption == /\ MaxPaths \in Nat \ {0} /\ WindowDays \in Nat \ {0}
                         /\ \A r \in DOMAIN PageOf : PageOf[r] \in Pages
                         /\ \A u \in DOMAIN UrlPage : UrlPage[u] \in Pages
                         /\ MaxConflicts \in Nat
                         /\ Serves \cup {FirstServed} \subseteq
                                [http : Nat, price : Nat, noindex : BOOLEAN, dated : BOOLEAN,
                                 brave : {"unasked", "absent", "indexed"}]
                         /\ FactSheets \subseteq Seq([expected : Nat, active : BOOLEAN])
                         /\ \A u \in DOMAIN Logs :
                                Logs[u] \in Seq(Seq([day : Nat, bot : STRING,
                                                    path : DOMAIN PageOf, status : Nat]))

VARIABLES
    now,      \* half days since the start
    hits,     \* bag of stored cells <<day, bot, path, status>>: rows with their hits
    upload,   \* upload -> its request
    answers,  \* answers of a question: the own URLs each cites
    serves,   \* what each URL answers now
    facts,    \* the fact sheet: [id, expected, active]
    lastFact, \* the highest fact id handed out
    crawled,  \* URL -> its page_presence row
    crawler,  \* the crawl job
    imported, \* first-party cells: <<source, cell>> -> value
    edits

siteVars == <<now, hits, upload, answers, serves, facts, lastFact, crawled, crawler,
              imported, edits>>
-----------------------------------------------------------------------------
(* Uploads of access logs *)

OTHER_PATH == "(other pages)"
Uploads == DOMAIN Logs
Urls == DOMAIN UrlPage
NewUpload == [state |-> "new", next |-> 1, paths |-> {}, adds |-> EmptyBag, asked |-> FALSE,
              before |-> {}, days |-> {}, overlap |-> {}, after |-> {}]
Open == {u \in Uploads : upload[u].state = "open"}
More(u) == upload[u].next =< Len(Logs[u])
IsAi(hit) == hit.bot \in DOMAIN PurposeOf

AiLines(batch) == {i \in DOMAIN batch : IsAi(batch[i])}

\* The paths an upload keeps: those that come while there is room.
KeptPaths(batch, paths) ==
    LET seen(i) == paths \cup {batch[k].path : k \in {l \in AiLines(batch) : l =< i}}
        room == {i \in AiLines(batch) : Cardinality(seen(i)) =< MaxPaths}
    IN paths \cup {batch[i].path : i \in room}

\* A path past the cap folds into one bucket.
CellOf(hit, kept) ==
    <<hit.day, hit.bot, IF hit.path \in kept THEN hit.path ELSE OTHER_PATH, hit.status>>

\* A batch's hits, counted by cell.
Counted(batch, kept) ==
    [c \in {CellOf(batch[i], kept) : i \in AiLines(batch)} |->
        Cardinality({i \in AiLines(batch) : CellOf(batch[i], kept) = c})]

Aggregated(batch, paths) ==
    LET kept == KeptPaths(batch, paths)
    IN [agg |-> Counted(batch, kept), paths |-> kept]

\* Mutant: every batch starts a new set of paths.
Mutant_Ingested(u) == Aggregated(Logs[u][upload[u].next], {})

\* The next batch of an upload, aggregated.
Ingested(u) == Aggregated(Logs[u][upload[u].next], upload[u].paths)

\* A flush waits for the rows another open upload has written.
Blocks(v, u) ==
    /\ {u, v} \subseteq Open /\ u # v /\ upload[u].asked /\ More(u)
    /\ BagToSet(upload[v].adds) \cap BagToSet(Ingested(u).agg) # {}

StartUpload(u) ==
    /\ upload[u].state = "new"
    /\ upload' = [upload EXCEPT ![u].state = "open",
                                ![u].after = {v \in Uploads : upload[v].state = "stored"}]
    /\ UNCHANGED <<now, hits, answers, serves, facts, lastFact, crawled, crawler, imported,
                   edits>>

\* The first flush reads which days have data already.
ReadDays(u) ==
    /\ u \in Open /\ ~upload[u].asked /\ More(u)
    /\ upload' = [upload EXCEPT ![u].asked = TRUE,
                                ![u].before = {c[1] : c \in BagToSet(hits)}]
    /\ UNCHANGED <<now, hits, answers, serves, facts, lastFact, crawled, crawler, imported,
                   edits>>

\* Mutant: the summary keeps the days of the last batch only.
Mutant_DaysSoFar(old, new) == new

DaysSoFar(old, new) == old \cup new

Flush(u) ==
    /\ u \in Open /\ upload[u].asked /\ More(u)
    /\ \A v \in Uploads : ~Blocks(v, u)
    /\ LET part == Ingested(u)
       IN upload' = [upload EXCEPT
                        ![u].next = @ + 1, ![u].paths = part.paths,
                        ![u].adds = @ (+) part.agg,
                        ![u].days = DaysSoFar(@, {c[1] : c \in BagToSet(part.agg)})]
    /\ UNCHANGED <<now, hits, answers, serves, facts, lastFact, crawled, crawler, imported,
                   edits>>

\* A drain is told how many lines were read, not which days it shares.
Told(u) == IF u \in Drained THEN {} ELSE upload[u].days \cap upload[u].before

FinishUpload(u) ==
    /\ u \in Open /\ ~More(u)
    /\ hits' = hits (+) upload[u].adds
    /\ upload' = [upload EXCEPT ![u].state = "stored", ![u].adds = EmptyBag, ![u].paths = {},
                                ![u].overlap = Told(u)]
    /\ UNCHANGED <<now, answers, serves, facts, lastFact, crawled, crawler, imported, edits>>

\* Mutant: a refused upload keeps the batches it had flushed.
Mutant_AfterRefusal(u) == hits (+) upload[u].adds

AfterRefusal(u) == hits

\* Too large, not a valid gzip, or the client hung up: the request rolls back.
RefuseUpload(u) ==
    /\ u \in Open /\ More(u)
    /\ hits' = AfterRefusal(u)
    /\ upload' = [upload EXCEPT ![u] = [NewUpload EXCEPT !.state = "refused"]]
    /\ UNCHANGED <<now, answers, serves, facts, lastFact, crawled, crawler, imported, edits>>

\* Uploads that wait for each other's rows: the database aborts one of them.
AbortUpload(u) ==
    /\ \E v \in Uploads : Blocks(u, v) /\ Blocks(v, u)
    /\ upload' = [upload EXCEPT ![u] = [NewUpload EXCEPT !.state = "refused"]]
    /\ UNCHANGED <<now, hits, answers, serves, facts, lastFact, crawled, crawler, imported,
                   edits>>
-----------------------------------------------------------------------------
(* First-party exports: a re-import replaces the cells it names *)

\* Mutant: values add up, as bot hits do.
Mutant_Upserted(old, new) ==
    [c \in DOMAIN old \cup DOMAIN new |->
        (IF c \in DOMAIN old THEN old[c] ELSE 0) + (IF c \in DOMAIN new THEN new[c] ELSE 0)]

Upserted(old, new) ==
    [c \in DOMAIN old \cup DOMAIN new |-> IF c \in DOMAIN new THEN new[c] ELSE old[c]]

\* An export's rows as cells of its source; rows of one cell (split by device)
\* are summed.
CellsOf(source, export) ==
    LET cell(row) == <<source, row.day, row.page, row.metric>>
    IN [c \in {cell(row) : row \in ToSet(export)} |->
           MapThenSumSet(LAMBDA i : export[i].value,
                         {i \in DOMAIN export : cell(export[i]) = c})]

ImportExport(source, export) ==
    /\ edits < MaxEdits /\ edits' = edits + 1
    /\ imported' = Upserted(imported, CellsOf(source, export))
    /\ UNCHANGED <<now, hits, upload, answers, serves, facts, lastFact, crawled, crawler>>

ClearFirstParty(source) ==
    /\ \E c \in DOMAIN imported : c[1] = source
    /\ imported' = [c \in {x \in DOMAIN imported : x[1] # source} |-> imported[c]]
    /\ UNCHANGED <<now, hits, upload, answers, serves, facts, lastFact, crawled, crawler, edits>>
-----------------------------------------------------------------------------
(* The fact sheet *)

NewFact(id, f) == [id |-> id, expected |-> f.expected, active |-> f.active]

CreateFact(f) ==
    /\ edits < MaxEdits /\ edits' = edits + 1
    /\ facts' = facts \cup {NewFact(lastFact + 1, [f EXCEPT !.active = TRUE])}
    /\ lastFact' = lastFact + 1
    /\ UNCHANGED <<now, hits, upload, answers, serves, crawled, crawler, imported>>

DeleteFact(f) ==
    /\ facts' = facts \ {f}
    /\ UNCHANGED <<now, hits, upload, answers, serves, lastFact, crawled, crawler, imported,
                   edits>>

\* A configuration import writes its fact sheet anew, whatever was there.
ImportFacts(sheet) ==
    /\ edits < MaxEdits /\ edits' = edits + 1
    /\ facts' = {NewFact(lastFact + i, sheet[i]) : i \in DOMAIN sheet}
    /\ lastFact' = lastFact + Len(sheet)
    /\ UNCHANGED <<now, hits, upload, answers, serves, crawled, crawler, imported>>

EditPage(url, served) ==
    /\ edits < MaxEdits /\ edits' = edits + 1 /\ served # serves[url]
    /\ serves' = [serves EXCEPT ![url] = served]
    /\ UNCHANGED <<now, hits, upload, answers, facts, lastFact, crawled, crawler, imported>>
-----------------------------------------------------------------------------
(* The page crawl *)

Idle == [phase |-> "idle", facts |-> {}, todo |-> {}, parsed |-> <<>>]
NeverRead == [price |-> 0]

\* A page row before its first good fetch: no feature, no conflict.  `read`
\* and `known` are history: what the last good fetch found, and the facts the
\* crawl knew.
BareRow == [ok |-> FALSE, http |-> 0, noindex |-> FALSE, dated |-> FALSE, brave |-> "unasked",
            conflicts |-> {}, checked |-> 0, read |-> NeverRead, known |-> {}]

\* Facts a page states otherwise; a page that states no price (0) has none.
Contradicts(served, f) == served.price # 0 /\ served.price # f.expected
Contradicted(served, sheet) == {f.id : f \in {g \in sheet : Contradicts(served, g)}}

\* The first MaxConflicts are kept, of facts that come in no fixed order.
FactConflicts(served, sheet) ==
    LET found == Contradicted(served, sheet)
    IN IF Cardinality(found) =< MaxConflicts THEN {found}
       ELSE {C \in SUBSET found : Cardinality(C) = MaxConflicts}

\* The own URLs the newest answer cites.
PowerPages == IF answers = <<>> THEN {} ELSE answers[Len(answers)].urls

StartCrawl ==
    /\ crawler = Idle /\ PowerPages # {}
    /\ crawler' = [Idle EXCEPT !.phase = "fetch", !.todo = PowerPages,
                               !.facts = {f \in facts : f.active}]
    /\ UNCHANGED <<now, hits, upload, answers, serves, facts, lastFact, crawled, imported,
                   edits>>

\* The row a fetch leaves: a failed one keeps what the last good one found.
\* Mutant: a failed fetch also clears the findings.
Mutant_FetchedRow(old, got) ==
    LET page == got.page
    IN [old EXCEPT !.ok = page.http < 400, !.http = page.http, !.checked = now \div 2,
                   !.conflicts = IF page.http < 400 THEN got.conflicts ELSE {},
                   !.read = IF page.http < 400 THEN [price |-> page.price] ELSE @,
                   !.known = IF page.http < 400 THEN got.known ELSE @]

FetchedRow(old, got) ==
    LET page == got.page
        row == [old EXCEPT !.ok = page.http < 400, !.http = page.http, !.checked = now \div 2]
    IN IF page.http >= 400 THEN row
       ELSE [row EXCEPT !.noindex = page.noindex, !.dated = page.dated, !.brave = page.brave,
                        !.conflicts = got.conflicts, !.read = [price |-> page.price],
                        !.known = got.known]

\* f with the entry of x written.
With(f, x, value) == [y \in DOMAIN f \cup {x} |-> IF y = x THEN value ELSE f[y]]

FetchPage(url) ==
    /\ crawler.phase = "fetch" /\ url \in crawler.todo
    /\ \E C \in FactConflicts(serves[url], crawler.facts) :
       LET found == [page |-> serves[url], conflicts |-> C,
                     known |-> {f.id : f \in crawler.facts}]
           rest == crawler.todo \ {url}
           parsed == With(crawler.parsed, url, found)
       IN crawler' = [crawler EXCEPT !.parsed = parsed,
                                     !.todo = IF rest = {} THEN DOMAIN parsed ELSE rest,
                                     !.phase = IF rest = {} THEN "store" ELSE "fetch"]
    /\ UNCHANGED <<now, hits, upload, answers, serves, facts, lastFact, crawled, imported,
                   edits>>

\* One URL's row is committed at a time.
StorePage(url) ==
    /\ crawler.phase = "store" /\ url \in crawler.todo
    /\ LET old == IF url \in DOMAIN crawled THEN crawled[url] ELSE BareRow
       IN crawled' = With(crawled, url, FetchedRow(old, crawler.parsed[url]))
    /\ crawler' = IF crawler.todo = {url} THEN Idle ELSE [crawler EXCEPT !.todo = @ \ {url}]
    /\ UNCHANGED <<now, hits, upload, answers, serves, facts, lastFact, imported, edits>>

\* The worker is killed, or the job times out.
KillCrawl ==
    /\ crawler # Idle /\ crawler' = Idle
    /\ UNCHANGED <<now, hits, upload, answers, serves, facts, lastFact, crawled, imported,
                   edits>>
-----------------------------------------------------------------------------
(* The two screens *)

Refused == {401, 403, 407, 429}
Since == now - 2 * WindowDays
InWindow == {c \in BagToSet(hits) : c[1] >= Since \div 2}
NormPath(raw) == IF raw = OTHER_PATH THEN raw ELSE PageOf[raw]
HitsOf(S) == FoldSet(LAMBDA c, sum : sum + hits[c], 0, S)
CitesOf(p) ==
    {c \in (DOMAIN answers) \X Urls :
        answers[c[1]].at >= Since /\ c[2] \in answers[c[1]].urls /\ UrlPage[c[2]] = p}
Cited(p) == Cardinality(CitesOf(p))

\* agent_analytics: what one page saw of the bots.
OnPage(p) == {c \in InWindow : NormPath(c[3]) = p}
Faults(S) == {c \in S : c[4] >= 400 /\ c[4] \notin Refused}
ReadBy(S, purposes) == {c \in S : PurposeOf[c[2]] \in purposes}

\* Mutant: refusals count as the page's own errors.
Mutant_PageErrors(p) == HitsOf({c \in OnPage(p) : c[4] >= 400})

PageErrors(p) == HitsOf(Faults(OnPage(p)))

\* Pages the answers cite that bots do not fetch, or fetch with errors.
Unfetched == {p \in Pages : Cited(p) > 0 /\ OnPage(p) = {}}
Erroring ==
    {p \in Pages : Cited(p) > 0 /\ PageErrors(p) > 0 /\ 20 * PageErrors(p) >= HitsOf(OnPage(p))}
BrokenPages == {p \in Pages : 2 * PageErrors(p) > HitsOf(OnPage(p))}
ReadNotCited ==
    {p \in Pages \ BrokenPages : Cited(p) = 0 /\ ReadBy(OnPage(p), {"search", "user"}) # {}}

\* agent_analytics as a whole: empty without hits in the window.
AgentAnalytics ==
    IF InWindow = {} THEN [hasData |-> FALSE, stale |-> hits # EmptyBag]
    ELSE [hasData |-> TRUE, unfetched |-> Unfetched, erroring |-> Erroring,
          broken |-> BrokenPages, readNotCited |-> ReadNotCited]

\* own_pages: conflicts whose fact still stands, and the flags of a page.
LiveConflicts(row) == {f \in facts : f.active /\ f.id \in row.conflicts}

\* Mutant: only the bots that read for answers count as failing.
Mutant_BotErrors(p) == HitsOf(ReadBy(Faults(OnPage(p)), {"search", "user"}))

BotErrors(p) == HitsOf(Faults(OnPage(p)))
BotReads(p) == HitsOf(ReadBy(OnPage(p), {"search", "user"}))

\* A page shows the crawl of one of its URLs: any of those checked last, by the day.
UrlsOf(p) == {url \in DOMAIN crawled : UrlPage[url] = p}
Freshest(p) == {url \in UrlsOf(p) : \A v \in UrlsOf(p) : crawled[v].checked =< crawled[url].checked}
OwnPages == {p \in Pages : Cited(p) > 0 \/ UrlsOf(p) # {}}

CrawlFlags(p, row) ==
    (IF LiveConflicts(row) # {} THEN {"facts conflict"} ELSE {})
    \cup (IF row.ok THEN (IF row.noindex THEN {"noindex"} ELSE {})
                         \cup (IF row.brave = "absent" THEN {"not in Brave"} ELSE {})
                         \cup (IF ~row.dated THEN {"stale"} ELSE {})
          ELSE {IF row.http \in {401, 403, 429} /\ BotReads(p) > 0 THEN "blocks our checker"
                ELSE "unreachable"})

BotFlags(p) ==
    LET reads == BotReads(p)
        errs == BotErrors(p)
    IN (IF InWindow # {} /\ Cited(p) > 0 /\ reads = 0
        THEN {"not read by AI search bots"} ELSE {})
       \cup (IF errs > 0 /\ 20 * errs >= (IF reads > 0 THEN reads ELSE 1)
             THEN {"errors for AI bots"} ELSE {})

\* What a page may be flagged with, whichever of its rows is shown.
Flags(p) ==
    IF UrlsOf(p) # {} THEN {BotFlags(p) \cup CrawlFlags(p, crawled[url]) : url \in Freshest(p)}
    ELSE {BotFlags(p) \cup (IF Cited(p) > 0 THEN {"not checked yet"} ELSE {})}

\* Pages first-party data shows in AI features and our answers never cited.
UnseenPages ==
    {p \in Pages \ OwnPages : \E c \in DOMAIN imported : c[3] = p /\ imported[c] > 0
                                  /\ c[4] \in {"impressions", "citations", "ai_impressions"}}
-----------------------------------------------------------------------------
Answered(S) ==
    /\ edits < MaxEdits /\ edits' = edits + 1
    /\ answers' = Append(answers, [at |-> now, urls |-> S])
    /\ UNCHANGED <<now, hits, upload, serves, facts, lastFact, crawled, crawler, imported>>

HalfDayPasses ==
    /\ now < Horizon /\ now' = now + 1
    /\ UNCHANGED <<hits, upload, answers, serves, facts, lastFact, crawled, crawler, imported,
                   edits>>

SiteInit ==
    /\ now = 2 * WindowDays /\ hits = EmptyBag /\ upload = [u \in Uploads |-> NewUpload]
    /\ answers = <<>> /\ serves = [url \in Urls |-> FirstServed]
    /\ facts = {} /\ lastFact = 0 /\ crawled = <<>> /\ crawler = Idle /\ imported = <<>>
    /\ edits = 0

Screened == HalfDayPasses \/ \E S \in SUBSET Urls : Answered(S)

\* What the tenant uploads and imports.
TrafficNext ==
    \/ \E u \in Uploads : \/ StartUpload(u) \/ ReadDays(u) \/ Flush(u) \/ FinishUpload(u)
                          \/ RefuseUpload(u) \/ AbortUpload(u)
    \/ \E s \in DOMAIN Exports : \/ \E x \in Exports[s] : ImportExport(s, x)
                                 \/ ClearFirstParty(s)
    \/ Screened

\* What the crawl reads, and the facts it checks pages against.
CrawlNext ==
    \/ \E sheet \in FactSheets : \/ ImportFacts(sheet)
                                 \/ \E i \in DOMAIN sheet : CreateFact(sheet[i])
    \/ \E f \in facts : DeleteFact(f)
    \/ \E url \in Urls : \/ \E served \in Serves : EditPage(url, served)
                         \/ FetchPage(url) \/ StorePage(url)
    \/ StartCrawl \/ KillCrawl
    \/ Screened

SiteNext == TrafficNext \/ CrawlNext

SiteSpec == SiteInit /\ [][SiteNext]_siteVars
-----------------------------------------------------------------------------
(* Properties *)

\* The lines of a log that are AI hits of one day, bot and status, and the
\* keys there are.
KeyOf(hit) == <<hit.day, hit.bot, hit.status>>
CellKey(c) == <<c[1], c[2], c[4]>>
Lines(u, b, key) ==
    {<<u, b, i>> : i \in {k \in AiLines(Logs[u][b]) : KeyOf(Logs[u][b][k]) = key}}
LogLines(u, key) == UNION {Lines(u, b, key) : b \in DOMAIN Logs[u]}
BatchKeys(batch) == {KeyOf(batch[i]) : i \in AiLines(batch)}
LogKeys(u) == UNION {BatchKeys(Logs[u][b]) : b \in DOMAIN Logs[u]}
StoredLogs == {u \in Uploads : upload[u].state = "stored"}

\* Whatever uploads run together, fail or are aborted, the stored hits are
\* those of the uploads that succeeded, each counted once; and one upload adds
\* at most MaxPaths pages of its own (ingest_stream, _upsert_cells).
UploadsAddUp ==
    /\ \A key \in {CellKey(c) : c \in BagToSet(hits)} \cup UNION {LogKeys(u) : u \in StoredLogs} :
           HitsOf({c \in BagToSet(hits) : CellKey(c) = key})
               = Cardinality(UNION {LogLines(u, key) : u \in StoredLogs})
    /\ Cardinality({c[3] : c \in BagToSet(hits)} \ {OTHER_PATH}) =< MaxPaths * Cardinality(StoredLogs)

\* A person who uploads a log that shares a day with one stored before it began
\* is told so: "uploads add up, so re-sending the same log double-counts it".
\* A drain is told nothing.
AiDays(u) == {key[1] : key \in LogKeys(u)}

DoubleCountTold ==
    \A u \in StoredLogs \ Drained : \A v \in upload[u].after :
        AiDays(v) \cap AiDays(u) \subseteq upload[u].overlap

\* The screens agree: a cited page AI Agents calls unfetched or failing is
\* flagged for it on Your Pages, whichever crawl it shows.
ScreensShareRisk ==
    AgentAnalytics.hasData =>
        /\ \A p \in AgentAnalytics.unfetched : \A F \in Flags(p) : "not read by AI search bots" \in F
        /\ \A p \in AgentAnalytics.erroring : \A F \in Flags(p) : "errors for AI bots" \in F

\* Whatever is crawled, imported, deleted or killed in between, and whichever of
\* a page's URLs is shown: a conflict with an active fact the crawl knew is one
\* the URL, as last read, states; and one it states is shown unless that crawl
\* found as many others as it keeps.
ConflictsFollowPage ==
    \A p \in Pages : \A url \in Freshest(p) : \A f \in facts :
        LET row == crawled[url] IN
        f.active /\ f.id \in row.known =>
            /\ f \in LiveConflicts(row) => Contradicts(row.read, f)
            /\ Contradicts(row.read, f) =>
                   f \in LiveConflicts(row) \/ Cardinality(row.conflicts) = MaxConflicts

\* Exports are snapshots: a stored value is the one some export gives the
\* cell, never a sum over imports.
ExportsReplace ==
    \A c \in DOMAIN imported :
        \E x \in Exports[c[1]] : c \in DOMAIN CellsOf(c[1], x) /\ CellsOf(c[1], x)[c] = imported[c]

\* However uploads and exports are repeated, overlap or fail, the screens count
\* what they hold once, and a person's upload that may count twice says so.
ImportsCountOnce == UploadsAddUp /\ DoubleCountTold /\ ExportsReplace

\* What a re-import promises ("always safe") and does not keep: a conflict is
\* lost only when its fact goes, not when the same fact is imported again.
ReimportKeepsConflicts ==
    \A url \in DOMAIN crawled : \A f \in facts :
        /\ f.active /\ crawled[url].conflicts # {}
        /\ crawled[url].read.price \notin {0, f.expected}
        => f \in LiveConflicts(crawled[url])
=============================================================================
