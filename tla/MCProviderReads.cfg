SPECIFICATION MCSpec
CONSTANTS
  c1 = c1
  c2 = c2
  r1 = r1
  r2 = r2
  None = None
  Callers = {c1, c2}
  MaxSessions = 3
  NoSession = 0
  Retries = 1
  MaxDiscards = 1
  Requests = {r1, r2}
  Services = {"featured", "news", "live"}
  LongTtl = 2
  ShortTtl = 1
  Flight = 1
  Today = 4000
  Normal <- OneSpelling
  Catalogs <- CatalogsOfThree
  Parts = {"session", "featured", "news", "live", "scores", "figures", "detail", "answers", "lists", "selection", "charts"}
INVARIANTS
  PartsTyped
  SessionErrorsAreExplained
  StaleAnswersAreBounded
  ScoresAreComparable
  ShownFiguresAgree
PROPERTY
  CallsEnd
CHECK_DEADLOCK FALSE
