---------------------------- MODULE MCKnowledge ----------------------------
(***************************************************************************)
(* Publishing and backup on a small instance.  Several requests overlap    *)
(* while no worker has run yet; once one has, a single request is under    *)
(* way next to the workers, which generates pages or writes a document.    *)
(***************************************************************************)
EXTENDS KnowledgeBackup

CONSTANT Writer   \* the request that overlaps with the workers

Overlap ==
  \/ lease.owner = None /\ \A w \in Workers : jobs[w] = Asleep
  \/ /\ \A r \in Requests \ {Writer} : reqs[r].pc = "idle"
     /\ reqs[Writer].change.op \in {"none", "write"}
=============================================================================
