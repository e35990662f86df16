\* Pipelines and composition, each in two sizes.
\* Deadlock is not checked: every pipeline and import may have been started.
SPECIFICATION MCSpec
CONSTANTS
  i1 = i1
  i2 = i2
  r1 = r1
  tech = tech
  Seeds = {2, 3, 5}
  Configured <- MCConfigured
  Listing <- MCListing
  Curated <- MCCurated
  Foreign = {9}
  Discovery = FALSE
  ListingLimit = 2
  BatchSize = 2
  CatalogSize = 4
  Entries = {"production", "prices", "catalog"}
  FlagSets <- MCFlagSets
  Caps = {0, 1}
  NoCap = 0
  MaxPipelines = 2
  MaxScheduled = 0
  Importers = {i1, i2}
  Readers = {r1}
  Dates = {1, 2}
  MaxRank = 2
  Labels = {tech}
  MaxImports = 3
  Parts = {"pipelines", "scheduled", "imports", "reads"}
INVARIANTS
  PartsTyped
  ExitZeroAccountsForPrices
  ResumedMetadataMissesNothing
  ReadListsAreWhole
PROPERTIES
  EachSweepIsOnePass
  ImportsReplaceSnapshots
  PipelineEnds
CHECK_DEADLOCK FALSE
