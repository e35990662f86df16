# A verification of the Inversora API

This directory holds TLA+ modules that model the stateful parts of the Inversora
API, TLC configurations that check them on small instances, and TLAPS proofs
that establish their main properties for every instance. `PROJECT.json` maps
every definition to the lines it models and lists the runs, the defective
variants, the hazards, the findings and the theorems.

Contents: [the system](#1-the-system) - [modules](#2-modules) -
[runs](#3-runs) - [fairness](#4-fairness) - [proofs](#5-proofs) -
[findings](#6-findings) - [plan](#7-plan) - [not modelled](#8-not-modelled).

Paths below are relative to the repository's own `src/` unless they start with
`docs/`, `prisma/` or `agent-service/`.

## 1. The system

The Inversora API is a NestJS server over PostgreSQL (through Prisma). It keeps a
catalog of funds and ETFs, fills it from Financial Modeling Prep (FMP), scores
the funds by the rule RN-04, ranks them, and answers questions about them with
SORA, an assistant over a language model. Command-line programs under
`scripts/` and `cli/` run beside the server on the same tables, and
a cron job starts a synchronisation and a recalculation every day. The server is
one Node process: its handlers interleave at every `await`. The database runs
each statement atomically and every explicit transaction at READ COMMITTED.

| component | state | operations | how it interacts | what is hard | what makes it correct |
|---|---|---|---|---|---|
| Fund catalog (`modules/funds/repositories/funds.repository.ts`, `services/catalog-visibility.service.ts`, `fund-sync.service.ts`, `fund-editorial.service.ts`) | rows of `funds`, audit rows | metadata upsert, automatic visibility rules, admin visibility PATCH, editorial PATCH, reconcile / benchmark / theme CLIs | written by sync, scoring, admin API and CLIs; read by everyone | decisions made from rows read several awaits ago; crash between statements | audit trail tells the visibility; only administrators block, and nobody else unblocks; curated text stays; funds settle in the state their data calls for |
| Prices and returns (`fund-price-sync.service.ts`, `fund-prices.repository.ts`, `fund-materialized-returns.service.ts`) | `fund_prices`, return columns of `funds` | incremental or full sync, chunked upsert, retention, refresh | cron, admin endpoint and CLIs may sync one fund at once | newest-first chunks, cut-short syncs, midnight, late publication | no missing day below the newest; returns are those of the stored prices |
| LLM budget and orchestration (`assistant-llm-usage-guard.service.ts`, `assistant-llm-orchestrator.service.ts`, `agent-service.provider.ts`) | usage counters per UTC day and month | reserve, call, fall back, retry | calls the Python agent or the model providers | overlapping requests, midnight, refusals, retried POSTs | limits hold; refusals do not use up the month; a paid answer is not thrown away |
| Scoring and rankings (`modules/scoring`, `funds/repositories/ranking-funds.query.ts`) | score, breakdown, peer group and rank columns | recalculate all, rank reads | started by cron and admin; reads prices and metadata; triggers visibility rules | overlapping recalculations, metadata sync resets the score, reads of two generations | lists are in the order of their ranks once an undisturbed recalculation ended; groups follow the benchmark; overlaps heal |
| RN-04 score (`scoring/entities/*.ts`) | none | metrics, factors, weights, summary, ranks, for one fund, a list or all | called by scoring, the detail and the cards | missing data, empty groups, rounding, three entry points | one fund has one score however it is asked for; more data in its favour never lower it |
| Catalog reads (`funds/get-funds.ts`, `get-fund-catalog-metrics.ts`, `get-catalog-summary.ts`, `admin/get-admin-funds.ts`, `scoring/get-rankings.ts`) | none | pages with totals, facets, summary, rankings with totals | statements of their own on a table that sync, scoring and administrators write | a page and its total are two statements | totals, pages and facets agree but for the writes between their statements |
| Fund detail, cards and charts (`bff/get-fund-by-isin.ts`, `funds/services/funds.service.ts`) | none | detail, card, chart of one fund | several reads of row and prices at once, among imports | reads of two generations; window ends taken from other reads | figures shown together come from one history, or from writes between the reads |
| Featured funds, news, live snapshot (`modules/bff/services`) | three in-memory caches | resolve a quarter, hydrate, filter; fetch and cache | catalog, FMP | late answers overwrite newer ones, entries stored for a time that starts late | an answer is no staler than its time to live and a request's duration |
| Conversations (`assistant.service.ts`, `assistant-conversation.repository.ts`) | conversations, messages | chat, history | budget, catalog, devices | check then act on the device binding; turns saved without a transaction | a session changes its device only in a late turn; turns are whole |
| Response cache (`assistant-cache.repository.ts`) | cached answers | explain and the first message of a chat | glossary, template, models | key without session, funds that change for days | a cached answer is about the funds of its message and does not stay for ever |
| SORA's text services (`intent-classifier`, `glossary`, `assistant-rag`, `assistant-confidence`, `assistant-output.guardrails`) | none | refuse, classify, look up, retrieve, check a reply | explain and chat ask them in order | keywords inside longer ones, an order of checks that hides entries | each keyword finds its own entry; no advice is shown |
| Python agent (`agent-service/app`, `assistant-tools.service.ts`) | none | one run per POST, with tools that call NestJS back | budget before it, funds behind its tools | a run is sent again; tools read at different times | context and tools tell one fund's score alike but for a recalculation between |
| Anonymous devices, analytics, feedback | devices, profiles, events | register, heartbeat, profile, delete, record | guard before chat and profile | deletion cascades against running requests, inserts after the response | nothing outlives its device but messages in sessions taken over |
| MCP client (`myinvestor-mcp.client.ts`) over the HTTP client (`shared/http`) | session id | initialize, notify, call, renew, retry | MyInvestor's server | several callers share one session; a request whose answer is lost | a call ends, and fails for its session only for a reason |
| Daily sync and batch CLIs (`fund-daily-sync.service.ts`, `cli/*.ts`) | files of symbols, exit codes | phases, batches, resume | spawn one process per batch | crash and resume, partial failure, exit codes that mean two things | every sweep is one pass; what a pipeline that exits 0 left out is known |
| Composition (`fund-composition.repository.ts`) | holdings, allocations | replace, read | metadata sync, reads | four statements at READ COMMITTED, three-statement reads | a snapshot is one import's; a list read is whole |
| FMP provider (`providers/financial-modeling-prep`) | none | compositions, quotes, profiles, news | sync, live snapshot, news | two endpoints for one answer, fractions or percentages | the answer does not depend on the endpoint or the scale |
| Controllers, admin guards, configuration, deployment | none | - | - | - | - |

`hazards` in `PROJECT.json` lists, line by line, what in this code a test would
hardly reach, with the properties that cover it; a `note` says what a property
only bounds, or records as the code does it, instead of excluding it.

## 2. Modules

| module | models | state and actions |
|---|---|---|
| `VisibilityLedger` | the promise of the catalog: a fund enters visible (or as the migrations left it), every change appends one audit entry naming the new state, and only administrators block | `Create`, `Change` |
| `FundCatalog` | every writer of `catalogVisibility`, of the columns its rules read and of `themeLabel` | `rows`, `audits`, and one job per running operation. A job's program counter is the await it stands at; `seen` is the row it read. `Upsert`, `UpdateScoring`, `BackfillBenchmark`, `ReloadFund`, `Decide`, `TxRead`, `TxCommit`, `UpdateEditorial`, `BackfillTheme`, `Fail`, and a `Start...` per operation |
| `FundPriceSync` | stored prices and return columns of one fund | `prices` (a price is its date), `returns` (the dates they were computed from), a job per running sync: `ReadLatest`, `Fetch`, `WriteChunk`, `Prune`, `ReadHistory`, `WriteReturns`, `Fail`; the calendar and the provider are `NextDay` and `Publish` |
| `AssistantLlmBudget` | the reservation of model calls and the layers that use it | `counters`, one record per request: `Receive`, `Admit`, `Refuse`, `FailCheck`, then `Agent...`, `Primary...`, `Fallback...`; `NextDay` is the clock |
| `FundScoring` | score, peer group and peer rank of every fund, and GET /rankings read from them | `rows`, a job per running recalculation or backfill (`plan` is the results it computed from its one reading, `todo` the rows still to write): `StartRecalculate`, `WriteScore`, `Upsert` (resets the score), `StartBackfill`, `BackfillBenchmark`, `SetHidden`, `Fail`. `Returned` is the SQL query, `Shown` the mapper. `late`, `settled`, `fresh` and `touched` are history that nothing reads but the properties |
| `SymbolSweep` | the promise of a batched pass: its symbols are fixed when it begins, each is handed out once, a batch at a time, and it finishes when none is left | `Begin`, `HandOut`, `Finish`, `Abort` |
| `SnapshotStore` | the promise of a fund's compositions: an import takes the place of all rows of its date, in one step and at most once, or is given up; once an import of a date has no holdings nothing is promised of that date | `Import`, `Replace`, `GiveUp` |
| `FundSyncRuns` | a run of the daily sync, the batch CLIs that start one child per batch, the scheduler, the operator's resume | `funds` and `priced` are the tables, `runs` the runs under way, `args` the pipeline's command line, `cli` how far it is (phase, list, next batch, exit), `trail` the batches of the sweep, `scheduled` the cron jobs. Children start, exit or are killed; each symbol fails alone |
| `FundComposition` | `replaceSnapshot` and the reads of one fund's composition | `rows` per date, a transaction per import (`txs`) that waits where PostgreSQL waits for a row lock or a unique key, and readers that resolve the date and read the lists one by one |
| `McpSession` | `callTool` of the MCP client over the HTTP client's retries | `sessionId` is the client's field; `issued`, `held`, `ready`, `stateful` the server; `calls` where each caller is. A client step sends or handles an answer, a server step answers or loses the answer |
| `ReadCaches` | featured funds, news and live snapshot with their caches | `fund` and `world` change; `cache` holds values with the time they have left, `reqs` the requests between look-up and store; `last` is how long ago each fact last held |
| `Rn04Score` | the score of RN-04 with peers, bands, defaults, summary and ranks | `table` and the `scores` the three entry points give: one action, a pure algorithm against its reference properties |
| `FundFigures` | the detail and the cards of one fund, read among its writes | `row`, `prices`, a `detail` and a `card` under way, one action per read and per write |
| `FundCharts` | `GET /funds/:id` and its chart with prices that are saved, revised, pruned | `closes` by date, `public`, `viewer` between its three reads |
| `CatalogQueries` | lists, admin lists, metrics, summary, rankings: filters, sorting, pages, totals | `listed` is the table, `query` the request, `result` what its statements returned so far |
| `FeaturedSelection` | quarters, curated selections, filters and cards of the featured funds; the rules that give a fund its theme | one `request` and its answer |
| `FmpNormalizers` | what the provider makes of FMP's answers, with endpoints that fail or are not paid for | one `question` and its `answer` |
| `AssistantConversations` | devices with what belongs to them, conversations, messages; a turn of chat as its statements | `devices`, `gone`, `profiles`, `records`, `convs`, a job per request; `Fail` actions between any two statements |
| `AssistantAnswers` | the layers of explain and chat over the response cache | `data` are the funds' versions, `cache` the rows with their days left, `requests`; `NextDay` is the clock |
| `AssistantTopics` | refusals, intent, glossary, documents; the check of a reply and the choice between two models | one `message`, how it is answered, and the `reply` |
| `AgentTools` | a turn on the Python agent with its context, retries, keys and tools | `rows` of the funds, `config` the keys, `turn`, and `told`, what the model was told so far; `log` are the writes meanwhile |
| `MC*` | the small instances | model values, calendars, configurations |
| `*Proofs` | the theorems about the module of that name; `FundSyncProofs` about `FundSyncRuns` and `FundComposition`, `FundCatalogProofs` also about `CatalogQueries`, `ProviderReadsProofs` about the other components of `MCProviderReads`, `AssistantChatProofs` about `AgentTools`, `AssistantAnswers` and `AssistantTopics` | |

**What a step is.** Code between two awaits is one action, together with the
statement it awaits. In `FundCatalog` the transaction of
`updateCatalogVisibility` is two actions, `TxRead` (its `findUnique`) and
`TxCommit` (update, audit row, commit): at READ COMMITTED another writer may come
between the read and the update, and the row lock the update takes lets nobody
between the update and the commit. The operation fails as a whole in `Fail`, at
any await; a failed transaction has written nothing.

**What is abstracted.** Funds have the two facts the visibility rule reads (the
benchmark; the conjunction of isin, ter and name) and the state of their label.
`idealForBeginners`, `badge`, scores and names do not matter to the properties.
Prices are dates: the provider does not revise a price, so equal dates have equal
prices, and a return is identified by the two dates it is computed from. Years
are days of a shorter year. In `FundScoring` the TER stands for the four factors of
RN-04, which apply one rule to four columns; it keeps the order of the
computation: percentile against the peers that have the datum, absolute thresholds when
no peer has it, 40 % of the maximum when the fund lacks it. The symbols' order is the order
of the fund numbers. The recalculation's reads of prices and compositions go into
its first step, as no other action writes what they read, and the job is one for
the whole catalog, which is how the cron job, the endpoint and the CLIs run it. Texts of the model are their verdict: good, poor,
failed. `external` entries of the map are code outside the repository (the clock,
the provider's publication of prices).

In `FundSyncRuns` a fund is persisted or not and has prices or not: what an import
does to its rows is in the modules of those rows. Resolving the symbols fails
with the provider's listing or with the read of the persisted funds, whichever the
request needs. `FundComposition` keeps keys
(rank, label) and the import that wrote them, not weights. `McpSession` has no
arguments or results, and a response of 400 or 404 is a session error, as the
client takes it, so a server that gives these for anything else is not
modelled. `ReadCaches` keeps
ages instead of times. `Rn04Score` has the four figures RN-04 reads and leaves
out those no factor reads (returns, holdings, sectors). Symbols that the code sorts
are numbers (`Ascending`). `CatalogQueries` sorts by
one column as the code does, without a tie-breaker, so its properties speak of
pages up to ties. In `FundFigures` a price is its date and a return a pair of
dates; `FundCharts` has closes as well. `FeaturedSelection` keeps a text as the
set of its words. `FmpNormalizers` counts in tenths; an endpoint
that throws, or a named holding the schema refuses, fails the whole composition. `AssistantConversations` has
no texts: a message is its turn, role and device. `AssistantTopics` has all
keywords of glossary, documents and refusals as they are, and of a reply only
its length as the guardrails count it (without apostrophes and accents), what it cites
and whether it advises; an empty completion is an error of the model, as the code throws; which documents have a
word in their text is a choice. `AgentTools` leaves out the glossary tool. A
history variable is named so where it is declared; nothing reads it but the properties.

**Composition.** Modules that share no variable are checked side by side in one
MC module, which extends some of them (`MCFundSync` extends `FundSyncRuns` and
`FundComposition`, `MCProviderReads` extends `McpSession`, `ReadCaches` and
`Rn04Score`), instantiates the others, and has a `part` that says which runs;
where two have a name in common, a prefix (`Sync...`, `Caches...`, `Score...`)
tells them apart. `PartsTyped` is the conjunction of their type invariants. What joins two components is in one
module: budget and layers in `AssistantLlmBudget`, prices and returns in
`FundPriceSync`, context, agent and funds in `AgentTools`, runs and pipelines in
`FundSyncRuns`.

**Variants.** Operators whose comment starts with "Defective variant" are the
code with one plausible bug; each property is shown to fail on one of them.

## 3. Runs

| run | expected | question | bounds |
|---|---|---|---|
| `fund_catalog` | pass | Do audits and visibility agree, can only a late block be undone, is the ledger implemented, do stale decisions heal? | one fund, two workers, two jobs besides recalculations, one failure |
| `fund_catalog_blocked` | violation | Is a block ever undone automatically? | two funds, two workers, no failure |
| `fund_catalog_curated` | violation | Is a curated label ever overwritten? | the same |
| `price_sync` | pass | Can overlapping, late or cut-short syncs lose a day or leave returns nobody can account for? | two syncs, days 0-3, lookback and retention of two days, year of one, chunks of one day, one failure |
| `price_sync_window` | violation | Are the rows an incremental sync drops stored? | one sync, explicit windows |
| `llm_budget` | pass | Do the limits hold, do refusals use up budget, are paid answers kept, does every request end? | two requests at a time, four in all, three days, two months, one failed update, one retry, four configurations |
| `fund_scoring` | pass | Do scored funds stay in the group of their benchmark, are lists in the order of their ranks, whom does a rank count, do overlapping recalculations heal? | three funds, two benchmarks and the category, two TERs, two workers, one write of metadata or visibility, one job cut short, two funds per group, one group |
| `batched_sync` | pass | Is every sweep one pass, does a pipeline that exits 0 account for its funds, does a metadata resume miss any, does a pipeline end? Do overlapping imports of a composition replace one another whole (`SnapshotStore`)? Is a list that is read one import's? | *pipelines*: three funds, a listing of three, batches of two, two pipelines with three sets of flags, the second perhaps resumed; *scheduled*: one scheduled run beside; *imports*: three imports of one date by two importers; *reads*: two imports, two dates, one reader |
| `resume_prices` | violation | Does a price sweep resumed where it stopped miss funds? | *pipelines* alone |
| `assistant_chat` | pass | What outlives a device, whose messages does a turn read, are turns whole, when does a session change hands? What may the cache serve, and for how long? How is a message answered, and do the agent's tools agree? | *turns*: two devices, two workers, three turns of one session; *records*: one worker, one record, one fault; *layers*, *overlap*, *days*: two funds, one or two requests, rows of one or three days, two versions; *topics*: all keywords and the documented prompts, 20 replies by each of two models; *tools*: two funds, six lists, seven configurations, two tool calls, one retry, one write |
| `provider_reads` | pass | When do MCP calls fail, how stale are the caches, do scores and figures shown agree, do calls end? | *session*: two callers, three sessions, one discarded, one retry; *featured*, *news*, *live*: two requests, times of 2 and 1, flight of 1; *scores*: every catalog of up to three of fifteen rows; *figures*: every history of up to three of 17 days; *detail*: three days, two writes; *answers*: every answer of the endpoints out of small sets; *lists*: three funds of six contents, 25 requests, one write; *selection*: three days at the turn of a quarter or year, every subset of three curated quarters, ten fund tables, nine filters; *charts*: five days, periods of one and three, two closes, three edits |
| `llm_budget_agent` | violation | Does the agent run more often than the limit? | one request, limit of one |

*Why the bounds are enough.* The catalog's hazards are pairs: a writer that read,
and another that wrote since. Two workers reach every pair, recalculations do not
count against `MaxJobs` (the daily ones must go on for ever), and two bounded jobs
let an administrator block and a sync or a second administrator act in the same
behaviour; funds are independent of each other but for the order of a loop, which
the violation runs have two of. In the price model a gap needs a newest day, a
missing day and a stored older one, and retention must pass a stored day: days 0
to 3 with a lookback of two reach all of them, chunks of one day put a failure
between any two days, and two syncs put one behind the other. For the budget, a
limit of 1 or 2 with up to two calls per request is exceeded by two
requests if it can be at all; two days of one month and one of the next
separate the two kinds of counter; the four configurations reach the primary
with and without a fallback, a disabled day limit, a disabled month limit, and
the agent. In the scoring, three funds give a group of two with the third in
another or unlisted, and a list cut off by the limit; two workers put an old
computation behind a newer one, and one write between the two, or between
computing and writing, is what makes it old.

In `batched_sync` batches of two over three to five symbols make a full and a
partial batch; a resume needs one pipeline to stop and one to start. Three imports let a
third run between the statements of two that wait for each other. In the chat's
*turns* two turns overlap while a third comes before or after, and one fault puts a
failure between any two statements. In *session* a second caller is what takes a session away, and a
discard what makes one start over; a third session is opened when both have. A
cache entry is late at most by one flight, so times of one and two with flights
of one show an entry stored late, read at its last moment and by another request. A
peer group of three has a best, a middle and a worst fund, and with one figure
missing a group of two. Histories of three prices have a first, a last and one on
either side of any window's start; days 0 to 16 are more than five years of
three days. Three funds make two pages and a rest; one write is what comes between two
statements. Lists of three ISINs with a repeated, an unknown or a malformed one are each
way a comparison treats its list; the write between two tools, and one retry, are what may
make their answers differ. What these bounds do not reach the proofs do, which have none.

*Deadlock* is checked where the system cannot stop (`price_sync`,
`price_sync_window`: a sync can always start). The other configurations have
bounds (`MaxJobs`, `MaxReceived`, `MaxWrites`) after which nothing is left to start, and an
empty table has nothing to recalculate; where a request is asked once
(`assistant_chat`, `provider_reads`) its answer ends the behaviour.

## 4. Fairness

- `FundCatalog`: weak fairness of each worker's step, because a started promise
  chain goes on (Prisma statements settle); weak fairness of starting a
  recalculation, because `fund-sync.scheduler.ts` starts one daily. Bounded jobs
  and failures need not happen. `EventuallyReconciled` reads: if syncs, operators
  and failures stop, the recalculations heal the catalog. Without the bound it
  would not be true, nor should it be.
- `FundPriceSync`: weak fairness of each sync's step and of starting a sync (the
  same cron job). Days end at `MaxDay`, so `EventuallyFresh` is about what syncs
  do when the calendar no longer runs ahead of them.
- `AssistantLlmBudget`: weak fairness of handling each request: database calls
  settle, the HTTP client and the SDK have timeouts. Requests need not arrive.
- `FundScoring`: weak fairness of each job's next row and of starting a
  recalculation. Writes and failures are bounded, so `EventuallyCoherent` says
  that once data rest, the daily recalculations bring scores, groups and ranks
  together, although each may overwrite newer results with older ones.

- `FundSyncRuns`: weak fairness of the pipeline's own steps, of starting its
  children and of the runs in child and parent, because a CLI waits for its child and a
  child's requests have timeouts. The scheduler need not fire. `PipelineEnds`.
- `McpSession`: weak fairness of each caller's steps and of the server's answer,
  which includes that it is lost: the HTTP client has a timeout. `CallsEnd`.
- `AssistantAnswers`: weak fairness of the clock and of each request's steps
  (database calls settle, models have timeouts). Requests need not come.
  `EventuallyFreshAnswers`: answers from older data leave the cache for good.

`ImplementsLedger`, `EachSweepIsOnePass` (`SymbolSweep` implemented by the
batches), `ImportsReplaceSnapshots` (`SnapshotStore` implemented by the imports'
statements) and all invariants need no fairness.

## 5. Proofs

All theorems are checked by `tlapm` (1.4.5: Z3, Zenon, LS4), and their
assumptions are the named `ASSUME`s of the modules, or the
`ConstantsAssumption` of a module that is instantiated, which TLC evaluates in
each run: bounds are naturals, the retention is no shorter than the lookback
(`env.schema.ts` refuses less than five years), sentinels are no values, requests
are finitely many.

| module | theorem | states | argument |
|---|---|---|---|
| `FundCatalogProofs` | `TypeSafe` | `[]TypeOK` | `TypeInv` = `TypeOK`, `GoodJobs` and `TodoExists`: a job that is not idle has a fund to visit, all its funds have rows, and it has read what its program counter says. Needed because `Current(w)` is an arbitrary value when a job visits nothing. |
| | `AuditTrail` | `[]AuditTrailMatchesVisibility` | follows step by step from `TypeInv`: the only action that changes a visibility appends to the trail. |
| | `LateBlock` | `[]UnblockOnlyAcrossLateBlock` | `CatalogInv` adds `AuditTrailMatchesVisibility` and, in `JobsInv`, two facts per job. `SeenOK`: a row that was seen and whose trail has not grown since has the visibility that was seen. `ChangeOK`: a job about to write a change saw an unblocked row. If the row is blocked now, the trail grew, and its newest entry is the block. Needs that the ledger's blocking entries are administrators'. |
| | `Refinement` | `Spec => Ledger!Spec` | every action is a stutter but `Upsert` of an absent fund (`Create`) and `TxCommit` (`Change`). |
| | `RulesDoReconcile` | `RulesReconcile` | `Decided`: what a rule is about to write is what the row it has read calls for (`Called`). So the step with which a rule leaves a fund makes it fit (`Fit`: blocked, or as its data call for), unless the data, or for a rule with nothing to do the visibility, are no longer those it read (`Outdated`); and a step takes a fit fund out of it only with new data, or as the write of an operator or an outdated rule (`Overwrites`). The part of `EventuallyReconciled` that is not fairness. |
| | `ListsTypeSafe`, `AnswersAddUpHolds` | `Lists!TypeOK`, `Lists!AnswersAddUp` | `ListsInv`: there are tables, one more than writes, the first the one the request found and the last the one that stands, of which each statement answered from one (`Past`), and two of them differ in no more rows than were written between. So counts differ by as much at most (`PastCounts`), a page is the part of an order between two places (`PagesAreParts`), sums over keys count each fund once (`Tally`) and a group shows its first funds (`GroupsAreCut`). |
| `FundPriceSyncProofs` | `TypeSafe` | `[]TypeOK` | `DatesInv`: every date, stored or pending, was published and is not in the future. |
| | `ReturnsTraceable` | `[]ReturnsAccountedFor` | `SnapshotInv`: the same statement (`Traceable`) of every snapshot a sync holds between reading and writing; retention and the calendar only move forward. |
| | `DaysAreKept` | `[]NoDayLost` | for callers without explicit windows. `DayInv` adds what each program counter knows (`RangeOK`, `Covered`, `Firm`): the range of a fetch reaches back to the day after a stored date or to the lookback, and pending dates are all the published ones of the range not yet written, newest first. |
| | `ReturnsDoCatchUp` | `ReturnsCatchUp` | from the types, step by step: the only steps that end a sync are a failure and `WriteReturns`, whose snapshot is what the prices say (`Current`) or `Outdated`; a sync is `Outdated` only by a step that changes `Current`, as `ReadHistory` computes it of what is stored. The part of `EventuallyFresh` that is not fairness. |
| `AssistantLlmBudgetProofs` | `TypeSafe` | `[]TypeOK` | plus `StepsAreEnabled`: a request awaits a check only if its limit is set. |
| | `BudgetHolds` | `[]WithinBudget` | `DayAccount`, `MonthAccount` (over the `Figures` of a period): for each period, calls made plus reservations under way are bounded by the counter and by the limit. The number of pending requests is a cardinality; the lemmas on it say how it changes when one request moves. `AgentAccounts` (over `PostsLeft`): the agent's runs and the POSTs that the requests awaiting it may still send are at most `Retries + 1` per call made. |
| | `MonthStaysUsable`, `DayStaysUsable` | the same accounts, read in the other direction | a counter exceeds its limit only by refusals, each of which found it full. |
| | `AnswersAreKept` | `[]NoAnswerDiscarded` | a fallback ends without an answer only after its own reservation. |
| | `EveryStepCounts` | `EachStepCounts` | `StepsLeft`, a natural number per request, goes down with each step of that request and with nobody else's goes up: the part of `EveryRequestEnds` that is not fairness. |
| `FundScoringProofs` | `TypeSafe` | `[]TypeOK` | `TypeInv` adds `JobsOK`: the rows a job has yet to write exist, and a recalculation has a result for each. Scores are integers because a percentile is taken over a non-empty group only. |
| | `GroupsAreCurrent` | `[]GroupIsCurrent` | `GroupsKnown`: a pending result names the group of its fund unless the benchmark was written since. |
| | `SettledIsCoherent`, `RankingsAreInOrder`, `RanksCountUnlisted` | `[](settled => Coherent)`, `[]RankingsInOrder`, `[]RankCountsUnlisted` | `ResultInv`: a recalculation whose data nobody touched holds, or has written, the results of the table as it is. `ResultOfData` is the key lemma: results depend on existence, benchmark and TER alone, so writing results changes none. A table where all are written is coherent; there the funds ahead of `g` are a proper subset of those ahead of `f` when the list has `g` first, and counting does the rest. |
| `ProviderReadsProofs` | `TypeSafe` | `[]TypeOK` of `McpSession` | every id a call holds was issued. |
| | `SessionErrors` | `[]SessionErrorsAreExplained` | `SecondAttempt`: a call in its second attempt holds the session that the client's field held when it got it, unless it was disturbed since; so a rejection means the server discarded it, or it is disturbed. |
| | `CallsAreShort` | `EachStepCounts` | `StepsLeft`: three requests in each of two attempts, sent and answered `Retries + 1` times at most, so no more than `12 * (Retries + 1)` steps; whatever the server answers, a caller's step takes one away. |
| | `CachesTypeSafe`, `AnswersAreFresh` | `[]CachesTyped`, `[]StaleAnswersAreBounded` | `CachesInv` dates what an entry tells from the time it has left (`EntryFits`: it was so no longer ago than the entry's age and one flight), and what a request is about to store from the request's age (`ReadFits`); what holds now is not old (`FactsFit`). |
| | `ScoresTypeSafe`, `ScoresCompare` | `[]ScoresTyped`, `[]ScoresAreComparable` | a score depends on the fund's figures and its peers' alone, so the three entry points agree; of two peers, those no better than the worse one are no better than the better one, its own place included, and every factor is monotone in that count (`SharesGrow`). |
| | `FiguresTypeSafe`, `FiguresAgreed` | `Figures!FiguresAgree` | the closest date is monotone in its target, which orders the returns of any history; `FiguresInv`: score and breakdown are written together (`RowFits`) and the card has the row's returns or its own window's (`CardReads`). |
| | `ChartsTypeSafe`, `ChartsHold` | `Charts!ChartsFit` | the latest date a request holds is saved, or pruned since, so what a chart lacks of its window is what retention took; a place in a finite set of dates is the number of those before it (`Places`, from `RanksArePlaces`). |
| | `ProviderTypeSafe`, `ProviderAnswersHold` | `Provider!TypeOK`, `Provider!AnswersFit` | the answer is a function of the question. Its type, a lemma for each kind: `NormalizeWeight` is None or positive, holdings of less than nothing are refused, a change divides by a close that is not 0 or by one computed to be not 0, the name a benchmark is derived from is never missing. Its content: a "fraction" scale is found only where no weight exceeds 1, so normalising keeps the order; the row of a symbol is taken before the first row; the newest articles are those of the first places. |
| | `SelectionTypeSafe`, `FeaturedHolds` | `Selection!FeaturedFits` | the answer is a function of the quarter that is meant, those that are curated and the cards of each (`AnswerIs`), so two requests compare by these; it is that of the least attempt with a card, and the attempts are ordered (`NewestFirstIs`). Days are months of a year by division (`QuartersHold`). |
| `AssistantConversationsProofs` | `TypeSafe` | `[]TypeOK` | |
| | `DevicesForgotten` | `[]NothingOutlivesItsDevice` | `DevicesFit`: what belongs to a device belongs to one that is registered, and a device that is gone never comes back. |
| | `HandsChange` | `SessionChangesHandsLate` | from the invariant, action by action: only an upsert binds, and its turn was checked when the session was not bound so. |
| | `HistoryOwn`, `TurnsWhole` | `[]HistoryIsOwn`, `[]TurnsAreWhole` | `Inv` adds `TurnsDiffer` (turns and ids are given once), `RowsAreOwn` (rows of a session not taken over are its device's), `QuestionsAreThere` (a turn that stores its reply stored its question in the row it still writes to, unless that row is gone), `TurnsFit`, and that the questions left open are no more than the faults. |
| `AssistantChatProofs` | `AnswersTypeSafe`, `AnswersFromCacheFit` | `Answers!TypeOK`, `Answers!CachedAnswerFits` | `RowsFit`: the key of a row tells what its answer is about, its fund or none. It holds because a request at `save` is an explain's, which names one fund at most; `Fits` carries that from the start of the request. |
| | `StaleRowsFade` | `StaleAnswersFade` | step by step from the same invariant: a request carries older data (`Carries`) from its `BuildContext`, which reads the data as they are, to its answer or save; `CacheHit` leaves the row alone, so while data stay a stale row is an older one with no more days left, or has just been saved by a request that carried it; and each `NextDay` takes a day. The part of `EventuallyFreshAnswers` that is not fairness. |
| | `ToolsTypeSafe`, `ToolsHold` | `[]TypeOK` of `AgentTools`, `[]ToolsAgree` | `ToolsInv`: each fact told was so at the moment of the log it names (`FactFits`) and is so still but for what the log has since (`StillFits`); so whatever two facts disagree on was changed between them (`PairFits`). A fund with a score has its breakdown, facts are told one a call, and a new attempt forgets those of the last. |
| | `TopicsTypeSafe`, `RepliesHold` | `[]TypeOK`, `[]RepliesFit` of `AssistantTopics` | `ReplyMade`: a reply is what `Generate` made of two replies and the reason to ask the second, which its message still decides. `RepliesHold` takes a threshold in 41..65, where a reply passes for citing its fund or for its length; the default is 60. |
| `FundSyncProofs` | `SyncTypeSafe` | `[]SyncTyped` | batches and resume points stay inside the list they are of. |
| | `ExitZeroAccounts`, `ResumeMissesNothing` | `[]ExitZeroAccountsForPrices`, `[]ResumedMetadataMissesNothing` | `PricesAccounted`: what is due has prices, is reported, or is in the batches still to come (`Rest`), and the child at work has dealt with what it is past. `MetadataAccounted`: what metadata owes is in the batches to come, and while the pipeline is stopped it has at least `Edge(next - 1)` persisted symbols before it; imports meanwhile only add symbols, so the resumed list has it no earlier. |
| | `SweepsImplemented` | `EachSweepIsOnePass` | step by step: `RunBatch` hands out a batch or stutters (a resumed pipeline skips), a launch or a resume begins, the end of a list finishes, an abort or an interruption aborts. Needs that a listing names a symbol once and lists are sorted (`SyncAssumption`). |
| | `PipelinesAdvance` | `[]Counted`, `EachStepAdvances` | `WorkLeft`: the stages of the pipeline to come, the batches of this one, how far its process is from its exit, the symbols it still has, and the steps of the first one. Each step of a pipeline or its process takes this down in lexicographic order (`Smaller`; `CliNearer`, `ProcessNearer`), all five are natural numbers (`WorkIs`), and a scheduled run leaves them alone. The part of `PipelineEnds` that is not fairness. |
| | `TypeSafe` | `[]TypeOK` of `FundComposition` | |
| | `OneImportOnly` | `[]SnapshotIsOneImport` | `TxInv` follows what a transaction has deleted (`Whole`): nothing, or all holdings, and after its last delete all of the date. Two transactions have deleted different rows, and rank 1, which every import writes, lets one of them at a time past its first insert (`Apart`). So what is committed replaces the whole of the date (`RowInv`). |
| | `StoreImplemented` | `ImportsReplaceSnapshots` | with `OneImportOnly`'s invariant and `NumbersDiffer` (imports under way have numbers of their own), step by step: `Fetch` is `Import`, `Commit` is `Replace`, `Rollback` is `GiveUp`, the statements between stutter (`FetchIsImport`, `EndIsEnd`, `RestStutters`). The import a date shows is told from its rows because each row names its import (`RowsTell`). |
| | `ListsWhole` | `[]ReadListsAreWhole` | `ReadInv`: a date that was found has rows as long as imports have holdings, so what a reader reads of it is a list of the one import there, which `RowInv` gives. |

*Assumptions that are more than a type*: dates are finitely many, figures of funds
are integers and a currency and a vehicle are always given, as their columns
require; the fields of one quote row are those of its market (`MarketRow`), as a
theorem about two endpoints needs to know that both report one market; a curated
entry names a fund of the request's table, stored or not; the confidence
threshold is where either sign of a good reply is enough (`RepliesHold`).

*Only model-checked*: what `AssistantTopics` says of texts taken apart
(`KeywordsAnswer`, `PromptsAnswer`, `DocumentsFound`); of the runs'
conjunctions over components (`PartsTyped`, `AnswersFit`, `ShownFiguresAgree`) each
other conjunct is proved, for its own component. The liveness properties, which
`tlapm` cannot do under fairness; of each the part that is not about fairness is
proved: a variant that goes down with every step (`EveryRequestEnds`:
`EveryStepCounts`; `CallsEnd`: `CallsAreShort`; `PipelineEnds`: `PipelinesAdvance`),
or what each step does towards the goal and that none undoes it without a named
cause (`EventuallyReconciled`: `RulesDoReconcile`; `EventuallyFresh`:
`ReturnsDoCatchUp`; `EventuallyFreshAnswers`: `StaleRowsFade`), or what holds once
nothing is under way (`EventuallyCoherent`: `SettledIsCoherent`). And the violations,
which are counterexamples. The theorem `DaysAreKept` assumes
callers without windows; `price_sync_window` shows that the assumption matters.

## 6. Findings

1. **A block can be undone by an automatic rule** (`fund_catalog_blocked`).
   `applyAutomaticVisibilityRules` decides from the row its caller read and writes
   unconditionally. A sync or recalculation that read the fund before an
   administrator blocked it makes it visible again, with actor `system`, against the comment
   in `catalog-visibility.utils.ts`. Re-reading in the transaction, or a
   conditional update, would repair it.
2. **A curated label can be overwritten** (`fund_catalog_curated`). The same
   pattern in `upsert`: the existing label is read before it is filled.
3. **Documentation of the states** (`fund_catalog`).
   `docs/catalog-visibility.md` says quarantine is left only manually and that the
   score is required; the code promotes a quarantined fund whose data is
   complete, without looking at the score. `EventuallyReconciled` holds because of it.
4. **An incremental sync with an explicit window drops days that are not stored**
   (`price_sync_window`): `filterNewProviderPrices` compares with the newest
   stored date, not with the stored dates, and the sync reports "up to date".
5. **A retried POST to the agent is not charged** (`llm_budget_agent`): after a
   timeout the agent may run twice on one reservation. `WithinBudget` says what holds
   of it: at most `Retries + 1` runs per reservation.
6. **The rank shown is not the position in the list** (`fund_scoring`). The
   mapper shows the persisted rank, which counts blocked and incomplete funds
   of the group, where its comment says "1-based position inside the benchmark
   group". `RankCountsUnlisted` states what the rank does count.

7. **Prices resumed at a batch skip funds** (`resume_prices`). The pipeline
   computes the funds without prices afresh, and then drops the first batches of
   that shorter list.
8. **Exit code 1 means two things** (`batched_sync`, `ExitZeroAccountsForPrices`): a
   child that could not start counts as a completed batch, so a pipeline can exit
   0 without having imported anything.
9. **Curated symbols are not in every universe** (`batched_sync`): they are merged
   only into a discovered page that is not empty.
10. **A composition read while it is replaced mixes two imports**
    (`batched_sync`, `ReadListsAreWhole`): each list is whole, the three together are not one
    import's.
11. **A bound session can change hands** (`assistant_chat`): two devices that start
    turns of an unbound session both pass the check, and the later write binds it.
    Deleting the first device then leaves its messages in the other's session.
12. **The first message of a chat is cached** (`assistant_chat`), although the
    documentation says chats are not.
13. **What SORA refuses, accepts and reads** (`assistant_chat`, `AnswersFit`):
    asking whether one can buy is refused before the glossary that has the answer; a
    reply of a few letters is accepted; the breakdown tool reads the persisted
    score, not a calculation.
14. **`scoringStatus` is never `ok`** (`provider_reads`): every score has a warning.
15. **Returns of funds younger than the horizon** are not null
    (`provider_reads`): the first price stands in.
16. **A metadata sync parts detail and cards** (`provider_reads`): it resets the score and
    not its breakdown.
17. **The scale of a batch of weights is ignored** (`provider_reads`): a percentage of
    at most 1 becomes one of 100 times as much.
18. **A visible fund without a score is 503, not 404** (`provider_reads`).
19. **A discarded session is not always renewed** (`provider_reads`): the second
    attempt may fail too.
20. **Featured funds may come from a future quarter** (`provider_reads`) when the
    current one is not curated.

Findings 3, 6, 8 to 20 are divergences between a text and the code; the run
checks what the code does, and the property says where it differs from the text.

`NoDayLost` also records a limit of the design rather than a bug: prices are
written newest first, so a sync cut short between two chunks leaves older days
that no later incremental sync asks for (`abandoned`). A full sync repairs it.

## 7. Plan

Done, in this order: `FundCatalog` with `VisibilityLedger`, `FundPriceSync`,
`AssistantLlmBudget`, `FundScoring`, each with proofs; `FundSyncRuns` with
`SymbolSweep`, `FundComposition` with `SnapshotStore`; `McpSession`, `AssistantConversations`, `AssistantAnswers`,
`ReadCaches`, `Rn04Score`, `FundFigures`, `FmpNormalizers`,
`CatalogQueries`, `FeaturedSelection`, `FundCharts`, `AssistantTopics`, `AgentTools`;
then the proofs of all these, of `AssistantTopics` as far as texts allow.

What would come next: a composition of `AssistantConversations` with
`AssistantAnswers`.

## 8. Not modelled

- *Controllers, schemas, DTOs, admin guards*: validation without state; the
  modelled handlers take the inputs it lets through. *Configuration, database
  connection, deployment scripts*: read or run once.
- *Catalog*: the `badge` and `idealForBeginners` columns, branding, labels, editorial copy,
  and the seed articles of the news. *Prices*: the returns backfill CLI; a return over a price of zero (null).
- *Sync*: dry runs, pauses between batches, `--list` and the reads for explicit dates.
- *Dead code*: `score-factor.calculators.ts` and `fund-return-sort.ts` are called only by
  their tests; `isConceptualQuery` by nothing.
- *FMP*: search results, the summary of prices and fixtures. When the paid profile
  endpoint is refused (402, 403), the search's profile has no ISIN and no TER, and the
  upsert stores them as null.
- *Featured funds*: `marketTag` is not read by the market filter; an explicit quarter
  without selection is answered, uncached, with no cards. *Charts*: an index of 100 is the first price
  of the range, which for a fund without a price today may lie after the
  window's first days.
- *SORA*: the words that make a reply advice, the text of documents, prompts,
  messages with punctuation, retrieval for more than one word. The context may hold a hidden fund that the
  tools then refuse, and one hidden fund refuses a whole comparison; both are in
  `AgentTools`. The keyword "ia" of the documents is shorter than any word
  retrieval looks at.
- *Rankings*: `FundScoring` reads the table once and has no totals;
  `CatalogQueries` has both statements and no recalculation.
