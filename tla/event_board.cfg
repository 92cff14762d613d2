SPECIFICATION Spec
CONSTANTS
  Workers = {w1, w2}
  NoWorker = NoWorker
  Expired = Expired
  Keys = {"propose", "reschedule", "approve", "release", "propose again"}
  NoKey = NoKey
  Intent <- Asked
  AcceptKey <- NotPolled
  Copies = {mirror}
  Organizer = organizer
  Mailing = {}
  Calls = {"retry"}
  FaultLimit = 1
INVARIANTS EventTypeOK OneReconciler SyncedMeansShown
PROPERTIES ImplementsLifecycle
SYMMETRY Symmetry
