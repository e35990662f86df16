\* Every part of the assistant, each with its bounds.
\* Deadlock is not checked: every turn may have been taken.
SPECIFICATION MCSpec
CONSTANTS
  d1 = d1
  d2 = d2
  s1 = s1
  r1 = r1
  w1 = w1
  w2 = w2
  f1 = f1
  f2 = f2
  None = None
  Devices = {d1, d2}
  Sessions = {s1}
  Records = {r1}
  Workers = {w1, w2}
  Asked = {"heartbeat", "profile", "delete"}
  MaxHistory = 2
  MaxIds = 3
  MaxFaults = 1
INVARIANTS
  PartsTyped
  NothingOutlivesItsDevice
  HistoryIsOwn
  TurnsAreWhole
  AnswersFit
PROPERTIES
  SessionChangesHandsLate
  EventuallyFreshAnswers
CHECK_DEADLOCK FALSE
