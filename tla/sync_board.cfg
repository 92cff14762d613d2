SPECIFICATION SyncSpec
CONSTANTS
  Tasks = {p, m}
  p = p
  m = m
  Cards = {k}
  Requests = {r1}
  Syncs = {s1, s2}
  Refs = {"prepare", "mail"}
  NoRef = NoRef
  Absent = Absent
  NoCard = NoCard
  NoTask = NoTask
  Keep = Keep
  Definitions <- Bodies
  AddedId <- RefIds
  Origin <- MadeFrom
  LastVersion = 2
  Patches <- WorkPatches
  NewTasks <- NothingNew
  CardCalls = {}
  StageOnComplete <- NoHint
INVARIANTS SyncTypeOK EdgesStayOnCard GraphAcyclic CountersTrue PinnedGraphIsCurrent CurrentCardFollowsTemplate
PROPERTIES CompletedTasksUntouched
