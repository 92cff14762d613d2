SPECIFICATION Spec
CONSTANTS
  Docs = {d, e}
  Contents = {x}
  Absent = Absent
  Requests = {q, r}
  Writer = r
  Retries = 2
  MaxPublications = 4
  MaxVersion = 3
  Workers = {}
  None = None
  MaxFaults = 0
CHECK_DEADLOCK FALSE
INVARIANTS ViewsAreCurrent
