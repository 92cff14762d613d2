SPECIFICATION Spec
CONSTANTS
  Issues = {i}
  NoIssue = NoIssue
  Cards = {c1, c2}
  c1 = c1
  c2 = c2
  p1 = p1
  NoCard = NoCard
  Tasks = {t}
  Templates = {p1, p2}
  NoTemplate = NoTemplate
  Requests = {r1, r2, r3}
  TemplateOf <- OneKind
  ScanOrder <- InOrder
  Calls = {"create", "edit", "reinstate", "remove", "cancel", "delete", "admin", "drop Template", "edit Template"}
CHECK_DEADLOCK FALSE
SYMMETRY Symmetry
INVARIANTS IssueTypeOK IssueOwnsItsCards
PROPERTIES CompletedWorkNeedsConfirmation NoCardSlipsIn
