SPECIFICATION Spec
CONSTANTS
  Docs = {d, e}
  Contents = {x}
  Absent = Absent
  Requests = {q, r}
  Writer = r
  Retries = 1
  MaxPublications = 4
  MaxVersion = 3
  Workers = {v, w}
  None = None
  MaxFaults = 1
CHECK_DEADLOCK FALSE
CONSTRAINT Overlap
INVARIANTS BackupTypeOK LinearHistory PublishedIsReadable NoLagIsRecoverable
PROPERTIES ImplementsLog EditsNeverRegress LiveLeaseIsKept BackupCatchesUp
