SPECIFICATION Spec
CONSTANTS
  Workers = {w1, w2}
  NoWorker = NoWorker
  Expired = Expired
  Keys = {"propose", "reschedule", "accept 1", "accept 2"}
  NoKey = NoKey
  Intent <- Asked
  AcceptKey <- Polled
  Copies = {mirror}
  Organizer = organizer
  Mailing = {}
  Calls = {"retry", "expiry", "answer"}
  FaultLimit = 1
INVARIANTS AcceptedThisDate
SYMMETRY Symmetry
