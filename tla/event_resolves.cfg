SPECIFICATION FairSpec
CONSTANTS
  Workers = {w1, w2}
  NoWorker = NoWorker
  Expired = Expired
  Keys = {"propose", "approve", "release"}
  NoKey = NoKey
  Intent <- Asked
  AcceptKey <- NotPolled
  Copies = {mirror}
  Organizer = organizer
  Mailing = {"propose"}
  Calls = {"retry", "force"}
  FaultLimit = 1
INVARIANTS MailedAtMostOnce
PROPERTIES OperationsResolve
