------------------------------ MODULE ReadCaches ------------------------------
(***************************************************************************)
(* The reads of the BFF that remember their answers in the memory of the   *)
(* process: featured funds of a quarter, market news, and the live         *)
(* snapshot of a fund.  Each looks its cache up, awaits the database or    *)
(* the provider, and stores what came back for a time that starts only     *)
(* then, over whatever a concurrent request has stored meanwhile.  One     *)
(* curated fund changes its visibility and score while they run.           *)
(***************************************************************************)
EXTENDS Integers, Sequences

CONSTANTS Requests,   \* concurrent reads
          Services,   \* which of the three are asked
          LongTtl,    \* 5 minutes: featured funds, and news that were fetched
          ShortTtl,   \* 1 minute: snapshots, and news that were not
          Flight      \* bound on the time a request takes (its timeouts)

CachesAssumption ==
  /\ ShortTtl \in Nat \ {0} /\ LongTtl \in Nat /\ LongTtl > ShortTtl /\ Flight \in Nat
  /\ Services \subseteq {"featured", "news", "live"}

\* Date.now() matters only through differences: times are kept as ages.
VARIABLES
  fund,      \* the curated fund: catalog visibility and score, in tenths
  world,     \* what the provider would answer, and whether prices are stored
  cache,     \* per key, the value and how long it is left to live
  reqs,      \* the requests
  last       \* how long ago each fact about fund and world last held

cacheVars == <<fund, world, cache, reqs, last>>

Scores == {294, 295}
Keys == {"news", "live", "newest", "older"}
Never == LongTtl + 2 * Flight

\* Math.round(score) is compared with 30.
Round(tenths) == (tenths + 5) \div 10
Listed == fund.visible /\ Round(fund.score) >= 30

\* The newest selection is the fund alone, the older one another, always listed.
Attempts == <<"newest", "older">>
Hydrated(quarter) ==
  IF quarter = "older" THEN {"other"} ELSE IF Listed THEN {"fund"} ELSE {}

Facts ==
  {IF Listed THEN "listed" ELSE "unlisted", IF fund.visible THEN "visible" ELSE "hidden",
   world.news, IF world.quotes THEN "quotes" ELSE "no quotes"}
  \union (IF world.prices THEN {} ELSE {"no prices"})
Tracked == UNION
  {CASE s = "featured" -> {"listed", "unlisted"}
     [] s = "news" -> {"articles", "empty", "down"}
     [] s = "live" -> {"visible", "hidden", "quotes", "no quotes", "no prices"} : s \in Services}

Noted(age) ==
  last' = [f \in Tracked |->
    IF f \in Facts' THEN 0 ELSE IF last[f] + age > Never THEN Never ELSE last[f] + age]

Idle == [service |-> "featured", pc |-> "idle", explicit |-> FALSE, at |-> 1, age |-> 0,
         value |-> {}]

CachesInit ==
  /\ fund \in [visible: BOOLEAN, score: {295}]
  /\ world \in [news: {"articles"}, quotes: {TRUE}, prices: IF "live" \in Services THEN BOOLEAN ELSE {TRUE}]
  /\ cache = [k \in Keys |-> [left |-> 0, value |-> {}]]
  /\ reqs = [r \in Requests |-> Idle]
  /\ last = [f \in Tracked |-> IF f \in Facts THEN 0 ELSE Never]

-----------------------------------------------------------------------------
(* What changes outside.                                                   *)

\* No request is older than its timeouts allow; answers given are forgotten.
Tick ==
  /\ \A r \in Requests : reqs[r].pc \in {"idle", "answered"} \/ reqs[r].age < Flight
  /\ reqs' = [r \in Requests |->
       IF reqs[r].pc \in {"idle", "answered"} THEN Idle ELSE [reqs[r] EXCEPT !.age = @ + 1]]
  /\ cache' = [k \in Keys |-> IF cache[k].left = 0 THEN cache[k] ELSE [cache[k] EXCEPT !.left = @ - 1]]
  /\ UNCHANGED <<fund, world>> /\ Noted(1)

\* An administrator, an automatic rule or a recalculation.
FundChanges ==
  /\ Services \intersect {"featured", "live"} # {}
  /\ fund' \in [visible: BOOLEAN, score: IF "featured" \in Services THEN Scores ELSE {295}]
  /\ fund' # fund
  /\ UNCHANGED <<world, cache, reqs>> /\ Noted(0)

WorldChanges ==
  /\ \/ /\ "news" \in Services
        /\ \E n \in {"articles", "empty", "down"} : world' = [world EXCEPT !.news = n]
     \/ "live" \in Services /\ world' = [world EXCEPT !.quotes = ~@]
     \/ "live" \in Services /\ world' = [world EXCEPT !.prices = ~@]
  /\ UNCHANGED <<fund, cache, reqs>> /\ Noted(0)

-----------------------------------------------------------------------------
(* The requests.                                                           *)

Key(r) ==
  CASE reqs[r].service = "news" -> "news"
    [] reqs[r].service = "live" -> "live"
    [] OTHER -> Attempts[reqs[r].at]

\* expiresAt > Date.now().
Hit(k) == cache[k].left > 0

Outside == UNCHANGED <<fund, world, last>>

Goes(r, pc, value) ==
  reqs' = [reqs EXCEPT ![r].pc = pc, ![r].value = value]

\* A default request goes on to the next selection while one is empty.
Served(r, value) ==
  IF /\ reqs[r].service = "featured" /\ ~reqs[r].explicit
     /\ value = {} /\ reqs[r].at < Len(Attempts)
    THEN reqs' = [reqs EXCEPT ![r].pc = "lookup", ![r].at = @ + 1, ![r].value = {}]
    ELSE Goes(r, "answered", value)

\* An explicit quarter, or a walk from the current one: the newest, also when
\* the current one has no selection.  A live request begins with the fund's row.
Ask(r) ==
  /\ reqs[r].pc \in {"idle", "answered"}
  /\ \E s \in Services, explicit \in BOOLEAN, at \in DOMAIN Attempts :
       /\ explicit => s = "featured"
       /\ at > 1 => explicit
       /\ reqs' = [reqs EXCEPT ![r] =
            [service |-> s, pc |-> IF s = "live" THEN "row" ELSE "lookup",
             explicit |-> explicit, at |-> at, age |-> 0, value |-> {}]]
  /\ UNCHANGED cache /\ Outside

ReadRow(r) ==
  /\ reqs[r].pc = "row"
  /\ Goes(r, IF fund.visible THEN "lookup" ELSE "answered",
             IF fund.visible THEN {} ELSE {"not found"})
  /\ UNCHANGED cache /\ Outside

LookUp(r) ==
  /\ reqs[r].pc = "lookup"
  /\ IF Hit(Key(r)) THEN Served(r, cache[Key(r)].value) ELSE Goes(r, "fetch", {})
  /\ UNCHANGED cache /\ Outside

\* The database or the provider answers; the request resumes later.
FetchFeatured(r) ==
  /\ reqs[r].pc = "fetch" /\ reqs[r].service = "featured"
  /\ Goes(r, "store", Hydrated(Key(r)))
  /\ UNCHANGED cache /\ Outside
FetchNews(r) ==
  /\ reqs[r].pc = "fetch" /\ reqs[r].service = "news"
  /\ Goes(r, "store", IF world.news = "empty" THEN {} ELSE {world.news})
  /\ UNCHANGED cache /\ Outside
FetchQuote(r) ==
  /\ reqs[r].pc = "fetch" /\ reqs[r].service = "live"
  /\ IF world.quotes THEN Goes(r, "store", {"live"}) ELSE Goes(r, "date", {})
  /\ UNCHANGED cache /\ Outside
ReadLatestDate(r) ==
  /\ reqs[r].pc = "date"
  /\ IF world.prices THEN Goes(r, "history", {}) ELSE Goes(r, "store", {"unavailable"})
  /\ UNCHANGED cache /\ Outside
ReadClose(r) ==
  /\ reqs[r].pc = "history"
  /\ Goes(r, "store", {IF world.prices THEN "eod" ELSE "unavailable"})
  /\ UNCHANGED cache /\ Outside

\* News that could not be fetched are stored as an empty list.
Ttl(r) == IF reqs[r].service = "live" \/ reqs[r].value = {"down"} THEN ShortTtl ELSE LongTtl
Remembered(r) == IF reqs[r].value = {"down"} THEN {} ELSE reqs[r].value

\* Defective variant: a fetch that failed leaves the time it had.
StoreFailuresAsNews(r) ==
  /\ reqs[r].pc = "store"
  /\ cache' = [cache EXCEPT ![Key(r)] = [left |-> LongTtl, value |-> Remembered(r)]]
  /\ Served(r, Remembered(r))
  /\ Outside

Store(r) ==
  /\ reqs[r].pc = "store"
  /\ cache' = [cache EXCEPT ![Key(r)] = [left |-> Ttl(r), value |-> Remembered(r)]]
  /\ Served(r, Remembered(r))
  /\ Outside

Step(r) ==
  \/ ReadRow(r) \/ LookUp(r) \/ FetchFeatured(r) \/ FetchNews(r) \/ FetchQuote(r)
  \/ ReadLatestDate(r) \/ ReadClose(r) \/ Store(r)

CachesNext ==
  \/ Tick \/ FundChanges \/ WorldChanges
  \/ \E r \in Requests : Ask(r) \/ Step(r)

CachesSpec == CachesInit /\ [][CachesNext]_cacheVars

-----------------------------------------------------------------------------
Shown == {"fund", "other", "articles", "down", "live", "eod", "unavailable", "not found"}
CacheEntry == [left: 0..LongTtl, value: SUBSET Shown]
ReadRequest ==
  [service: {"featured", "news", "live"}, explicit: BOOLEAN, at: DOMAIN Attempts,
   pc: {"idle", "row", "lookup", "fetch", "date", "history", "store", "answered"},
   age: 0..Flight, value: SUBSET Shown]

\* Every variable has its type.
CachesTyped ==
  /\ fund \in [visible: BOOLEAN, score: Scores]
  /\ world \in [news: {"articles", "empty", "down"}, quotes: BOOLEAN, prices: BOOLEAN]
  /\ cache \in [Keys -> CacheEntry]
  /\ reqs \in [Requests -> ReadRequest]
  /\ last \in [Tracked -> 0..Never]

Within(f, window) == last[f] < window
Answers(r, s) == reqs[r].pc = "answered" /\ reqs[r].service = s

\* An answer shows or omits the curated fund, tells the news or a price, or
\* falls back, only if that was right within the time of the cache and the
\* flight of the request that filled it (two flights for a featured list that
\* walked over an empty selection).  The visibility a snapshot depends on is
\* never cached.  An administrator's block is therefore gone from the featured
\* funds after the cache's time and a flight.
StaleAnswersAreBounded ==
  \A r \in Requests : LET v == reqs[r].value IN
    /\ Answers(r, "featured") =>
         /\ "fund" \in v => Within("listed", LongTtl + Flight)
         /\ "fund" \notin v /\ (reqs[r].explicit => reqs[r].at = 1) =>
              Within("unlisted", LongTtl + 2 * Flight)
    /\ Answers(r, "news") =>
         IF v # {} THEN Within("articles", LongTtl + Flight)
                   ELSE \/ Within("down", ShortTtl + Flight)
                        \/ Within("empty", LongTtl + Flight)
    /\ Answers(r, "live") =>
         IF v = {"not found"} THEN Within("hidden", Flight + 1)
         ELSE /\ Within("visible", Flight + 1)
              /\ Within(IF v = {"live"} THEN "quotes" ELSE "no quotes", ShortTtl + Flight)
              /\ v = {"unavailable"} => Within("no prices", ShortTtl + Flight)
=============================================================================
