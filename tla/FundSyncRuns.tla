----------------------------- MODULE FundSyncRuns -----------------------------
(***************************************************************************)
(* The synchronisation of the fund universe.  A run (runManualSync)        *)
(* resolves its symbols, takes them one by one through metadata, prices    *)
(* and composition, each symbol failing alone, and then scores.  The       *)
(* server runs one from its scheduler.  The batch CLIs cut the universe    *)
(* into batches, run each as a child process one after the other, and the  *)
(* production pipeline goes on with post-processing and a scoring run of   *)
(* its own.  Children fail, are killed, and an operator resumes an aborted *)
(* pipeline at the batch where it stopped.                                 *)
(*                                                                         *)
(* Tickers are numbers in alphabetical order.  What one fund's import does *)
(* to its rows is in FundCatalog, FundPriceSync and FundScoring; here a    *)
(* fund is persisted or not and has prices or not.                         *)
(***************************************************************************)
EXTENDS Integers, Sequences, FiniteSets, SequencesExt

CONSTANTS Seeds,         \* the tickers persisted at the start
          Configured,    \* SYNC_FUND_SYMBOLS, a sequence
          Listing,       \* the provider's etf-list, a sequence
          Curated,       \* CURATED_NON_US_SYNC_SYMBOLS, a sequence
          Foreign,       \* tickers with a non-US exchange suffix
          Discovery,     \* SYNC_ETF_LIST_DISCOVERY_ENABLED
          ListingLimit,  \* SYNC_DISCOVERY_LIMIT
          BatchSize, CatalogSize,
          Entries,       \* the CLIs that are started
          FlagSets,      \* the sets of flags they are started with
          Caps,          \* the values of --max-batches, NoCap for none
          NoCap,
          MaxPipelines,  \* bound on the pipelines started
          MaxScheduled   \* bound on the scheduled runs

Symbols == Seeds \cup ToSet(Configured) \cup ToSet(Listing) \cup ToSet(Curated)
Steps == <<"metadata", "prices", "composition">>
Sweeps == {"metadata", "prices", "catalog"}
PostProcessing == <<"themes", "benchmarks", "visibility">>
Runners == {"child", "parent", "server"}

Flags == {"skip-metadata", "skip-prices", "skip-post-processing", "include-existing",
          "full-pipeline"}

\* What the constants are taken to be; asserted where they get their values.
\* The provider is taken to list a ticker once.
SyncAssumption ==
  /\ IsFiniteSet(Seeds) /\ Seeds \subseteq Nat
  /\ Configured \in Seq(Nat) /\ Listing \in Seq(Nat) /\ Curated \in Seq(Nat)
  /\ \A i, j \in DOMAIN Listing : Listing[i] = Listing[j] => i = j
  /\ ToSet(Curated) \subseteq Foreign
  /\ BatchSize \in Nat \ {0} /\ CatalogSize \in Nat \ {0}
  /\ ListingLimit \in Nat \ {0}
  /\ Entries \subseteq {"production", "prices", "catalog"}
  /\ NoCap = 0 /\ Caps \subseteq Nat /\ FlagSets \subseteq SUBSET Flags
  /\ MaxPipelines \in Nat /\ MaxScheduled \in Nat
  /\ Discovery \in BOOLEAN

VARIABLES funds,      \* the persisted funds
          priced,     \* those with at least one price
          runs,       \* the run of each runner
          args,       \* the command line of the batch CLI
          cli,        \* how far the batch CLI is
          trail,      \* history: what the pipelines owed and what they reported
          pipelines,  \* batch CLIs so far
          scheduled   \* scheduled runs so far

syncVars == <<funds, priced, runs, args, cli, trail, pipelines, scheduled>>

NoRequest == [symbols |-> <<>>, discover |-> FALSE, offset |-> 0, limit |-> 0, steps |-> {}]
Off == [at |-> "off", request |-> NoRequest, todo |-> <<>>, pending |-> <<>>,
        failed |-> {}, empty |-> {}, scoring |-> "skipped", cut |-> "no"]
NoArgs == [entry |-> "production", flags |-> {}, cap |-> NoCap, start |-> [p \in Sweeps |-> 1]]
NoCli == [at |-> "idle", list |-> <<>>, next |-> 1, last |-> 0, exit |-> "none",
          stopped |-> "nowhere"]

Min2(a, b) == IF a <= b THEN a ELSE b

\* Numbers in ascending order, as tickers in alphabetical order.
Ascending(S) ==
  [n \in 1..Cardinality(S) |-> CHOOSE x \in S : Cardinality({y \in S : y < x}) = n - 1]

Request ==
  [symbols : Seq(Symbols), discover : BOOLEAN, offset : Nat, limit : Nat,
   steps : SUBSET (ToSet(Steps) \cup {"scoring"})]
Run ==
  [at : {"off", "booting", "resolving", "syncing", "scoring", "ended"},
   request : Request, todo : Seq(Symbols), pending : Seq(ToSet(Steps)),
   failed : SUBSET Symbols, empty : SUBSET Symbols,
   scoring : {"skipped", "success", "failed"}, cut : {"no", "thrown", "killed"}]
Args ==
  [entry : {"production", "prices", "catalog"}, flags : SUBSET Flags, cap : Nat,
   start : [Sweeps -> Nat \ {0}]]
Cli ==
  [at : {"idle", "final", "exited"} \cup Sweeps \cup ToSet(PostProcessing),
   list : Seq(Symbols), next : Nat \ {0}, last : Nat,
   exit : {"none", "0", "1", "interrupted"}, stopped : Sweeps \cup {"nowhere"}]

\* Every variable has its type, and a run that is syncing has a symbol and a
\* step of it before it (the two loops of syncSymbolsWithSteps).
SyncTyped ==
  /\ priced \subseteq funds /\ funds \subseteq Symbols
  /\ runs \in [Runners -> Run]
  /\ args \in Args /\ cli \in Cli
  /\ trail \in [handed : SUBSET Symbols, owed : SUBSET Symbols,
                due : SUBSET Symbols, reported : SUBSET Symbols]
  /\ pipelines \in 0..MaxPipelines /\ scheduled \in 0..MaxScheduled
  /\ \A r \in Runners : runs[r].at = "syncing" => runs[r].todo # <<>> /\ runs[r].pending # <<>>

SyncInit ==
  /\ funds = Seeds /\ priced = {}
  /\ runs = [r \in Runners |-> Off]
  /\ args = NoArgs /\ cli = NoCli
  /\ trail = [handed |-> {}, owed |-> {}, due |-> {}, reported |-> {}]
  /\ pipelines = 0 /\ scheduled = 0

-----------------------------------------------------------------------------
(* The symbols of a run.                                                   *)

\* Each symbol where it comes first.
DedupeSymbols(symbols) ==
  LET firsts == {i \in DOMAIN symbols : \A j \in 1..(i - 1) : symbols[j] # symbols[i]}
  IN [n \in 1..Cardinality(firsts) |-> symbols[Ascending(firsts)[n]]]

\* The page of the listing a request discovers: none past its end.
Page(request) ==
  IF request.discover
    THEN SubSeq(Listing, request.offset + 1,
                Min2(request.offset + request.limit, Len(Listing)))
    ELSE <<>>

\* Explicit symbols win over discovered ones; the curated ones come along only
\* with a page that is not empty.
ResolveSyncSymbols(request) ==
  IF request.symbols # <<>> THEN DedupeSymbols(request.symbols)
  ELSE IF Page(request) # <<>>
    THEN DedupeSymbols(Configured \o Page(request) \o Curated)
    ELSE DedupeSymbols(Configured)

\* With nothing resolved a run takes every persisted fund.
ResolveManualSyncSymbols(request) ==
  IF ResolveSyncSymbols(request) # <<>>
    THEN ResolveSyncSymbols(request)
    ELSE Ascending(funds)

If(step, request) == IF step \in request.steps THEN <<step>> ELSE <<>>
Enabled(request) ==
  If("metadata", request) \o If("prices", request) \o If("composition", request)

Begin(r, at, request) ==
  runs' = [runs EXCEPT ![r] =
    [at |-> at, request |-> request, todo |-> <<>>, pending |-> <<>>,
     failed |-> {}, empty |-> {}, scoring |-> "skipped", cut |-> "no"]]
Running(r, at) == runs[r].at = at

\* The run at another place, with the symbols and the steps left there.
Placed(run, at, todo, pending) == [run EXCEPT !.at = at, !.todo = todo, !.pending = pending]
Ended(run) == Placed(run, "ended", <<>>, <<>>)

Outside == UNCHANGED <<args, cli, trail, pipelines, scheduled>>

-----------------------------------------------------------------------------
(* One run.                                                                *)

Boot ==
  /\ Running("child", "booting")
  /\ runs' = [runs EXCEPT !["child"].at = "resolving"]
  /\ Outside /\ UNCHANGED <<funds, priced>>

\* The child's application context does not start, or its own process is
\* killed: the wrapper between the two processes turns both into exit code 1.
ChildDies ==
  /\ runs["child"].at \notin {"off", "ended"}
  /\ runs' = [runs EXCEPT !["child"] = [Ended(@) EXCEPT !.cut = "thrown"]]
  /\ Outside /\ UNCHANGED <<funds, priced>>

\* The wrapper is killed, and the child with it: no exit code.
WrapperDies ==
  /\ runs["child"].at \notin {"off", "ended"}
  /\ runs' = [runs EXCEPT !["child"] = [Ended(@) EXCEPT !.cut = "killed"]]
  /\ Outside /\ UNCHANGED <<funds, priced>>

Resolve(r) ==
  /\ Running(r, "resolving")
  /\ LET request == runs[r].request
         symbols == ResolveManualSyncSymbols(request)
     IN runs' = [runs EXCEPT ![r] =
          IF Enabled(request) = <<>>
            THEN Placed(@, "scoring", <<>>, <<>>)
          ELSE IF symbols = <<>> THEN Ended(@)
          ELSE Placed(@, "syncing", symbols, Enabled(request))]
  /\ Outside /\ UNCHANGED <<funds, priced>>

\* The listing is fetched even for explicit symbols and for scoring alone, and the
\* persisted funds are read when there are no others; either throws.
ResolvingFails(r) ==
  /\ Running(r, "resolving")
  /\ runs[r].request.discover \/ ResolveSyncSymbols(runs[r].request) = <<>>
  /\ runs' = [runs EXCEPT ![r] = [Ended(@) EXCEPT !.cut = "thrown"]]
  /\ Outside /\ UNCHANGED <<funds, priced>>

\* Mutant: the steps are not put back for the symbol after a failure.
OnwardsWithoutReset(run, ok) ==
  LET todo == IF ok /\ Len(run.pending) > 1 THEN run.todo ELSE Tail(run.todo)
  IN IF todo # <<>>
       THEN [run EXCEPT !.todo = todo, !.pending = Tail(@),
                        !.failed = IF ok THEN @ ELSE @ \cup {Head(run.todo)}]
       ELSE Ended(run)

\* The run after the head symbol's current step: its next step or, after the
\* last one or a failure, the next symbol; after the last symbol, the scoring.
Onwards(run, ok) ==
  LET more == ok /\ Len(run.pending) > 1
      todo == IF more THEN run.todo ELSE Tail(run.todo)
      next == [run EXCEPT !.failed = IF ok THEN @ ELSE @ \cup {Head(run.todo)}]
  IN IF todo # <<>>
       THEN Placed(next, "syncing", todo, IF more THEN Tail(run.pending) ELSE Enabled(run.request))
     ELSE IF "scoring" \in run.request.steps THEN Placed(next, "scoring", <<>>, <<>>)
     ELSE Ended(next)

AtStep(r, step) == Running(r, "syncing") /\ Head(runs[r].pending) = step

SyncMetadata(r) ==
  /\ AtStep(r, "metadata")
  /\ funds' = funds \cup {Head(runs[r].todo)}
  /\ runs' = [runs EXCEPT ![r] = Onwards(@, TRUE)]
  /\ Outside /\ UNCHANGED priced

SkipForeignPrices(r) ==
  /\ AtStep(r, "prices")
  /\ Head(runs[r].todo) \in Foreign
  /\ runs' = [runs EXCEPT ![r] = Onwards(@, TRUE)]
  /\ Outside /\ UNCHANGED <<funds, priced>>

\* The provider may answer without a single price: the import succeeds.
SyncPrices(r) ==
  /\ AtStep(r, "prices")
  /\ Head(runs[r].todo) \in funds \ Foreign
  /\ LET run == runs[r]
         none == [run EXCEPT !.empty = @ \cup {Head(run.todo)}]
     IN \E rows \in BOOLEAN :
          /\ priced' = IF rows THEN priced \cup {Head(run.todo)} ELSE priced
          /\ runs' = [runs EXCEPT ![r] = Onwards(IF rows THEN run ELSE none, TRUE)]
  /\ Outside /\ UNCHANGED funds

\* Imported, or skipped because the provider's plan does not include it.
SyncComposition(r) ==
  /\ AtStep(r, "composition")
  /\ Head(runs[r].todo) \in funds
  /\ runs' = [runs EXCEPT ![r] = Onwards(@, TRUE)]
  /\ Outside /\ UNCHANGED <<funds, priced>>

\* A step throws: always so for a fund that is not persisted.  The steps
\* already done for the symbol stay done and the next symbol follows.
StepFails(r) ==
  /\ Running(r, "syncing")
  /\ runs' = [runs EXCEPT ![r] = Onwards(@, FALSE)]
  /\ Outside /\ UNCHANGED <<funds, priced>>

RunAutomaticScoring(r) ==
  /\ Running(r, "scoring")
  /\ \E outcome \in {"success", "failed"} :
       runs' = [runs EXCEPT ![r] = [Ended(@) EXCEPT !.scoring =
                  IF outcome = "success" /\ funds = {} THEN "skipped" ELSE outcome]]
  /\ Outside /\ UNCHANGED <<funds, priced>>

RunScheduledSync ==
  /\ scheduled < MaxScheduled
  /\ Running("server", "off")
  /\ scheduled' = scheduled + 1
  /\ Begin("server", "resolving",
       [symbols |-> <<>>, discover |-> Discovery, offset |-> 0, limit |-> ListingLimit,
        steps |-> ToSet(Steps) \cup {"scoring"}])
  /\ UNCHANGED <<funds, priced, args, cli, trail, pipelines>>

\* The scheduler logs the result, or the error, and is done.
ScheduledSyncEnds ==
  /\ Running("server", "ended")
  /\ runs' = [runs EXCEPT !["server"] = Off]
  /\ Outside /\ UNCHANGED <<funds, priced>>

-----------------------------------------------------------------------------
(* The batch CLIs.                                                         *)

MissingPrices == {f \in funds \ Foreign : f \notin priced}

\* Mutants: the last batch that is not full is forgotten; a batch reaches into
\* the next one.
BatchCountFloor(size) == size \div BatchSize
BatchOfOverlapping(symbols, number) ==
  SubSeq(symbols, (number - 1) * BatchSize + 1, Min2(number * BatchSize + 1, Len(symbols)))

\* chunkFundSymbols: how many batches, and the symbols of one of them.
BatchCount(size) == (size + BatchSize - 1) \div BatchSize
BatchOf(symbols, number) ==
  SubSeq(symbols, (number - 1) * BatchSize + 1, Min2(number * BatchSize, Len(symbols)))

\* The batches a sweep runs: from --start-batch on, --max-batches of them;
\* none when the start is beyond the last.
LastBatch(size, start, cap) ==
  IF cap = NoCap THEN BatchCount(size) ELSE Min2(BatchCount(size), start + cap - 1)

\* Mutant: a sweep is resumed after the batch that stopped.
EnterAfter(a, sweep, symbols) ==
  LET size == IF sweep = "catalog" THEN CatalogSize ELSE Len(symbols)
  IN [at |-> sweep, list |-> symbols,
      next |-> IF a.start[sweep] = 1 THEN 1 ELSE a.start[sweep] + 1,
      last |-> LastBatch(size, a.start[sweep], a.cap), exit |-> "none", stopped |-> "nowhere"]

Enter(a, sweep, symbols) ==
  LET size == IF sweep = "catalog" THEN CatalogSize ELSE Len(symbols)
  IN [at |-> sweep, list |-> symbols, next |-> a.start[sweep],
      last |-> LastBatch(size, a.start[sweep], a.cap), exit |-> "none", stopped |-> "nowhere"]

Stage(at) == [NoCli EXCEPT !.at = at]
Exit(c, code) ==
  [at |-> "exited", list |-> <<>>, next |-> c.next, last |-> c.last, exit |-> code,
   stopped |-> IF c.at \in Sweeps /\ c.next <= c.last THEN c.at ELSE "nowhere"]

\* Where the production pipeline goes: metadata of every fund, prices of the
\* funds that have none by then, post-processing.
AfterPrices(a) ==
  IF "skip-post-processing" \in a.flags THEN Exit(NoCli, "0") ELSE Stage(Head(PostProcessing))
AfterMetadata(a) ==
  IF "skip-prices" \in a.flags THEN AfterPrices(a)
                               ELSE Enter(a, "prices", Ascending(MissingPrices))
Started(a) ==
  CASE a.entry = "production" ->
         IF "skip-metadata" \in a.flags THEN AfterMetadata(a)
                                        ELSE Enter(a, "metadata", Ascending(funds))
    [] a.entry = "prices" ->
         Enter(a, "prices", Ascending(IF "include-existing" \in a.flags
                                        THEN funds \ Foreign ELSE MissingPrices))
    [] a.entry = "catalog" -> Enter(a, "catalog", <<>>)

\* Moving the CLI on, with the history of what it now owes.
Move(a, c) ==
  /\ args' = a /\ cli' = c
  /\ trail' = IF c.at \notin Sweeps THEN trail ELSE
       [handed |-> {},
        owed |-> IF c.at = "metadata" /\ a.start["metadata"] = 1 THEN ToSet(c.list) ELSE trail.owed,
        due |-> IF c.at = "prices" /\ a.start["prices"] = 1 THEN MissingPrices ELSE trail.due,
        reported |-> IF c.at = "prices" /\ a.start["prices"] = 1 THEN {} ELSE trail.reported]

Start(a) ==
  /\ pipelines < MaxPipelines /\ pipelines' = pipelines + 1
  /\ Move(a, Started(a))
  /\ UNCHANGED <<funds, priced, runs, scheduled>>

Launch ==
  /\ cli.at \in {"idle", "exited"}
  /\ \E entry \in Entries, flags \in FlagSets, cap \in Caps :
       Start([entry |-> entry, flags |-> flags, cap |-> cap, start |-> [p \in Sweeps |-> 1]])

\* The operator resumes a sweep at the batch where it stopped.
Resume ==
  /\ cli.at = "exited" /\ cli.stopped \in Sweeps
  /\ Start([entry |-> args.entry, cap |-> args.cap,
            flags |-> args.flags \cup (IF cli.stopped = "prices" THEN {"skip-metadata"} ELSE {}),
            start |-> [p \in Sweeps |-> IF p = cli.stopped THEN cli.next ELSE 1]])

BatchRequest ==
  CASE cli.at = "catalog" ->
         [symbols |-> <<>>, discover |-> TRUE,
          offset |-> (cli.next - 1) * BatchSize, limit |-> BatchSize,
          steps |-> IF "full-pipeline" \in args.flags
                      THEN {"metadata", "prices", "scoring"} ELSE {"metadata"}]
    [] OTHER ->
         [symbols |-> BatchOf(cli.list, cli.next), discover |-> Discovery,
          offset |-> 0, limit |-> ListingLimit, steps |-> {cli.at}]

RunBatch ==
  /\ cli.at \in Sweeps /\ cli.next <= cli.last
  /\ Running("child", "off")
  /\ Begin("child", "booting", BatchRequest)
  /\ trail' = [trail EXCEPT !.handed = @ \cup
       ToSet(IF cli.at = "catalog" THEN Page(BatchRequest) ELSE BatchRequest.symbols)]
  /\ UNCHANGED <<funds, priced, args, cli, pipelines, scheduled>>

ChildCompleted == Running("child", "ended") /\ runs["child"].cut # "killed"

\* Mutant: a batch whose child failed is run again.
BatchRetried ==
  /\ ChildCompleted
  /\ cli' = [cli EXCEPT !.next = IF runs["child"].cut = "thrown" THEN @ ELSE @ + 1]
  /\ runs' = [runs EXCEPT !["child"] = Off]
  /\ UNCHANGED <<funds, priced, args, trail, pipelines, scheduled>>

\* Exit codes 0 and 1 count as a completed batch.
BatchCompleted ==
  /\ ChildCompleted
  /\ cli' = [cli EXCEPT !.next = @ + 1]
  /\ LET batch == ToSet(runs["child"].request.symbols)
         told == IF runs["child"].cut = "thrown" THEN batch
                 ELSE runs["child"].failed \cup runs["child"].empty
     IN trail' = [handed |-> trail.handed, due |-> trail.due,
          owed |-> IF cli.at = "metadata" THEN trail.owed \ batch ELSE trail.owed,
          reported |-> IF cli.at = "prices" THEN trail.reported \cup told ELSE trail.reported]
  /\ runs' = [runs EXCEPT !["child"] = Off]
  /\ UNCHANGED <<funds, priced, args, pipelines, scheduled>>

\* Anything else ends the sweep and the pipeline; the price CLI still exits 0.
BatchAborted ==
  /\ Running("child", "ended") /\ ~ChildCompleted
  /\ cli' = Exit(cli, IF args.entry = "prices" THEN "0" ELSE "1")
  /\ runs' = [runs EXCEPT !["child"] = Off]
  /\ UNCHANGED <<funds, priced, args, trail, pipelines, scheduled>>

\* The price CLI scores when its cap would have let it sweep every batch.
SweepDone ==
  /\ cli.at \in Sweeps /\ cli.next > cli.last
  /\ Move(args,
       CASE args.entry = "catalog" -> Exit(cli, "0")
         [] args.entry = "prices" ->
              IF cli.list # <<>> /\ (args.cap = NoCap \/ args.cap >= BatchCount(Len(cli.list)))
                THEN Stage("final") ELSE Exit(cli, "0")
         [] args.entry = "production" ->
              IF cli.at = "metadata" THEN AfterMetadata(args) ELSE AfterPrices(args))
  /\ UNCHANGED <<funds, priced, runs, pipelines, scheduled>>

PostProcess ==
  /\ \E i \in DOMAIN PostProcessing :
       /\ cli.at = PostProcessing[i]
       /\ \/ cli' = Stage(IF i = Len(PostProcessing) THEN "final" ELSE PostProcessing[i + 1])
          \/ cli' = Exit(cli, "1")
  /\ UNCHANGED <<funds, priced, runs, args, trail, pipelines, scheduled>>

FinalScoring ==
  /\ cli.at = "final" /\ Running("parent", "off")
  /\ Begin("parent", "resolving",
       [symbols |-> <<>>, discover |-> Discovery, offset |-> 0, limit |-> ListingLimit,
        steps |-> {"scoring"}])
  /\ UNCHANGED <<funds, priced, args, cli, trail, pipelines, scheduled>>

\* A scoring that failed leaves the exit code 0; only an exception makes it 1.
FinalScoringEnds ==
  /\ Running("parent", "ended")
  /\ cli' = Exit(cli, IF runs["parent"].cut = "no" THEN "0" ELSE "1")
  /\ runs' = [runs EXCEPT !["parent"] = Off]
  /\ UNCHANGED <<funds, priced, args, trail, pipelines, scheduled>>

\* The operator stops the CLI, its process group with it.
Interrupt ==
  /\ cli.at \notin {"idle", "exited"}
  /\ cli' = Exit(cli, "interrupted")
  /\ runs' = [runs EXCEPT !["child"] = Off, !["parent"] = Off]
  /\ UNCHANGED <<funds, priced, args, trail, pipelines, scheduled>>

-----------------------------------------------------------------------------
RunStep(r) ==
  \/ Resolve(r) \/ ResolvingFails(r)
  \/ SyncMetadata(r) \/ SkipForeignPrices(r) \/ SyncPrices(r) \/ SyncComposition(r)
  \/ StepFails(r) \/ RunAutomaticScoring(r)

CliStep ==
  \/ RunBatch \/ BatchCompleted \/ BatchAborted \/ SweepDone
  \/ PostProcess \/ FinalScoring \/ FinalScoringEnds

SyncNext ==
  \/ Launch \/ Resume \/ Interrupt \/ CliStep
  \/ Boot \/ ChildDies \/ WrapperDies
  \/ \E r \in Runners : RunStep(r)
  \/ RunScheduledSync \/ ScheduledSyncEnds

\* The processes that are running go on; nobody has to start or resume one.
Fairness ==
  /\ WF_syncVars(CliStep) /\ WF_syncVars(Boot)
  /\ \A r \in {"child", "parent"} : WF_syncVars(RunStep(r))

SyncSpec == SyncInit /\ [][SyncNext]_syncVars /\ Fairness

-----------------------------------------------------------------------------
(* Properties.                                                             *)

\* The symbols of the batches the sweep has still to start.
LeftInSweep ==
  LET source == IF cli.at = "catalog" THEN Listing ELSE cli.list
      next == IF Running("child", "off") THEN cli.next ELSE cli.next + 1
  IN IF cli.at \in Sweeps
       THEN ToSet(SubSeq(source, (next - 1) * BatchSize + 1,
                         Min2(cli.last * BatchSize, Len(source))))
       ELSE {}

Sweep == INSTANCE SymbolSweep WITH
  left <- LeftInSweep, handed <- trail.handed, sweeping <- cli.at \in Sweeps

\* The batches the CLIs cut and start are one pass over the symbols: each
\* symbol is handed to exactly one child, at most BatchSize at a time, and
\* the sweep is finished only when none is left (runBatchedFundSyncPhase).
EachSweepIsOnePass == Sweep!Spec

\* A production pipeline, whole or resumed, exits 0 with its prices swept.
PricesSwept ==
  /\ cli.at = "exited" /\ cli.exit = "0"
  /\ args.entry = "production" /\ "skip-prices" \notin args.flags
  /\ args.cap = NoCap

\* A whole production pipeline that exits 0 has accounted for every US fund
\* that had no prices when it came to them: it has prices now, its import
\* failed or found none and was reported, or its child exited 1.
ExitZeroAccountsForPrices ==
  PricesSwept /\ args.start["prices"] = 1 => trail.due \subseteq priced \cup trail.reported

\* Metadata resumed at the batch that stopped, although the list of funds is
\* read afresh and may have grown at any place, misses none of the funds the
\* first pipeline listed and did not complete.
ResumedMetadataMissesNothing ==
  ( /\ args.entry = "production" /\ "skip-metadata" \notin args.flags
    /\ args.cap = NoCap
    /\ \/ cli.at \in {"prices", "final"} \cup ToSet(PostProcessing)
       \/ cli.at = "exited" /\ cli.exit = "0" )
  => trail.owed = {}

\* "Resume prices from batch N" (run-production-sync.ts:308): the pipeline that
\* stopped in a price batch and the one resumed there account together for
\* every fund the first one listed.  The code does not keep this: the list is
\* of the funds without prices, so what was imported is gone from its front.
ResumedPricesMissNothing == PricesSwept => trail.due \subseteq priced \cup trail.reported

\* A pipeline that was started exits, whatever its children do.
PipelineEnds == cli.at \notin {"idle", "exited"} ~> cli.at = "exited"
=============================================================================
