SPECIFICATION Spec
CONSTANTS
  Tasks = {a, b}
  Cards = {k, l}
  Requests = {r1, r2, r3}
  NoCard = NoCard
  NoTask = NoTask
  Keep = Keep
  Patches <- BoardPatches
  NewTasks <- CreatedTasks
  CardCalls = {"stage", "park", "resume"}
  StageOnComplete <- AfterEventHint
PROPERTIES ImplementsBoard
INVARIANTS CompletedWorkStands CountersTrue CardsReadable NoSpuriousConflict
SYMMETRY Symmetry
