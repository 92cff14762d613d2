SPECIFICATION FairSpec
CONSTANTS
  Tasks = {a, b, c}
  Cards = {k}
  Requests = {r1, r2}
  NoCard = NoCard
  NoTask = NoTask
  Keep = Keep
  Patches <- GraphPatches
  NewTasks <- NothingNew
  CardCalls = {"edit"}
  StageOnComplete <- NoHint
INVARIANTS TypeOK EdgesStayOnCard PinnedGraphIsCurrent GraphAcyclic
PROPERTIES EveryCallAnswered
