------------------------------ MODULE MCFundSync ------------------------------
(***************************************************************************)
(* Model checking of FundSyncRuns and FundComposition.  The two share no   *)
(* variable, so a behaviour runs one of them: "part" says which, with      *)
(* which bounds, and the other's variables keep their initial values.      *)
(*   pipelines  every batch CLI, twice, the second perhaps resumed         *)
(*   scheduled  the production pipeline beside a scheduled run that adds   *)
(*              funds, with the pipeline resumed once                      *)
(*   imports    three overlapping imports of one date                      *)
(*   reads      two overlapping imports of two dates, and a reader         *)
(***************************************************************************)
EXTENDS FundSyncRuns, FundComposition

CONSTANTS i1, i2, r1, tech,
          Parts  \* the parts that are run

VARIABLE part

composing == vars
allVars == <<syncVars, composing, part>>

\* The bounds of the part "pipelines", for the constants of FundSyncRuns.
MCConfigured == <<>>
MCListing == <<1, 3, 4>>
MCCurated == <<9>>
MCFlagSets == {{}, {"skip-metadata", "include-existing", "full-pipeline"}, {"skip-prices"}}

Scheduled == INSTANCE FundSyncRuns WITH
  Listing <- <<1>>, Curated <- <<>>, Foreign <- {5, 9}, Discovery <- TRUE, ListingLimit <- 1,
  Entries <- {"production"}, FlagSets <- {{"skip-post-processing"}}, Caps <- {0},
  MaxScheduled <- 1

\* Three imports of one date and two holdings; and two imports of one holding,
\* of two dates, with a reader.
ImportStep ==
  Next /\ UNCHANGED readers /\ \A n \in DOMAIN written' : written'[n].date = 1
ReadStep ==
  Next /\ Len(written') < MaxImports
       /\ \A n \in DOMAIN written' : MaxRank \notin written'[n].keys

ASSUME SyncAssumption /\ Scheduled!SyncAssumption
ASSUME ConstantsAssumption

MCInit ==
  /\ Init
  /\ part \in Parts
  /\ IF part = "scheduled" THEN Scheduled!SyncInit ELSE SyncInit

MCNext ==
  \/ part = "pipelines" /\ SyncNext /\ UNCHANGED <<composing, part>>
  \/ part = "scheduled" /\ Scheduled!SyncNext /\ UNCHANGED <<composing, part>>
  \/ part = "imports" /\ ImportStep /\ UNCHANGED <<syncVars, part>>
  \/ part = "reads" /\ ReadStep /\ UNCHANGED <<syncVars, part>>

\* The processes of a pipeline go on; with no pipeline nothing is asked.
PartCliStep ==
  /\ \/ part = "pipelines" /\ CliStep
     \/ part = "scheduled" /\ Scheduled!CliStep
  /\ UNCHANGED <<composing, part>>
PartBoot == Boot /\ UNCHANGED <<composing, part>>
PartRunStep(r) ==
  /\ \/ part = "pipelines" /\ RunStep(r)
     \/ part = "scheduled" /\ Scheduled!RunStep(r)
  /\ UNCHANGED <<composing, part>>

MCSpec ==
  /\ MCInit /\ [][MCNext]_allVars
  /\ WF_allVars(PartCliStep) /\ WF_allVars(PartBoot)
  /\ \A r \in {"child", "parent"} : WF_allVars(PartRunStep(r))

-----------------------------------------------------------------------------
\* Every variable has its type; the other properties are the components' own.
PartsTyped ==
  /\ IF part = "scheduled" THEN Scheduled!SyncTyped ELSE SyncTyped
  /\ TypeOK
=============================================================================
