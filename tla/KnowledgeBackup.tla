-------------------------- MODULE KnowledgeBackup --------------------------
(***************************************************************************)
(* The daily backup of the knowledge base (knowledge/worker.ts) under the  *)
(* job lease of knowledge/lease.ts, next to the requests that publish.     *)
(* The lease is an object that every put replaces under IfMatch; a worker  *)
(* in "fresh" knows the ETag the object has now.  It is live until 45      *)
(* seconds pass without a renewal; a worker renews every 10 seconds, so a  *)
(* live lease of a running worker only expires when the worker is paused.  *)
(* A renewal, a crash or a lost answer can come between any two steps.     *)
(***************************************************************************)
EXTENDS Knowledge

CONSTANTS Workers,    \* invocations of the worker that may overlap
          None,       \* no owner: the lease was never taken
          MaxFaults   \* bound: crashes, pauses and lost answers

ASSUME BackupAssumption == None \notin Workers /\ MaxFaults \in Nat

VARIABLES
  lease,      \* jobs/knowledge-backup/lease.json
  fresh,      \* workers whose ETag is the lease's
  jobs,       \* the workers
  copied,     \* payloads in the backup bucket
  snapshots,  \* revisions with a recovery snapshot there
  success,    \* the revision in jobs/knowledge-backup/success.json, or 0
  faults      \* faults so far

backupVars == <<lease, fresh, jobs, copied, snapshots, success, faults>>
vars == <<knowledgeVars, backupVars>>

JobStates ==
  [pc : {"asleep", "taking", "pinning", "copying", "recording", "closing"},
   head : 0..MaxPublications, cursor : 0..MaxPublications, aborted : BOOLEAN]

Job(pc, head, cursor, aborted) ==
  [pc |-> pc, head |-> head, cursor |-> cursor, aborted |-> aborted]

Asleep == Job("asleep", 0, 0, FALSE)
Ending(w) == Job("closing", 0, 0, jobs[w].aborted)

Aborted(w) ==
  jobs' = [jobs EXCEPT ![w] = Job(jobs[w].pc, jobs[w].head, jobs[w].cursor, TRUE)]

Running(w) == jobs[w].pc \notin {"asleep", "taking"}

-----------------------------------------------------------------------------
Fault == faults < MaxFaults /\ faults' = faults + 1

(* Slip: any lease object counts as held. *)
BugLeaseForGood == lease.owner = None

(* A lease that was never taken, was given back, or is past its time. *)
LeaseIsFree == ~lease.live

(* The schedule, or a retry, invokes the worker; it ends at once if the     *)
(* lease is live, and remembers the ETag otherwise.                         *)
Start(w) ==
  /\ jobs[w].pc = "asleep"
  /\ LeaseIsFree
  /\ jobs' = [jobs EXCEPT ![w].pc = "taking"]
  /\ fresh' = fresh \cup {w}
  /\ UNCHANGED <<knowledgeVars, lease, copied, snapshots, success, faults>>

(* Slip: the lease is put without its ETag. *)
BugPutAnyway(w) == TRUE

LeaseUnchanged(w) == w \in fresh

(* A put on the lease under the worker's ETag, and its loss of the answer:  *)
(* the put is made, and nobody knows its ETag.                              *)
PutLease(w, live) ==
  /\ LeaseUnchanged(w)
  /\ lease' = [owner |-> w, live |-> live]
  /\ fresh' = {w}

PutLeaseUnheard(w) ==
  /\ Fault
  /\ LeaseUnchanged(w)
  /\ lease' = [owner |-> w, live |-> TRUE]
  /\ fresh' = {}

Take(w) ==
  /\ jobs[w].pc = "taking"
  /\ \/ /\ PutLease(w, TRUE)
        /\ jobs' = [jobs EXCEPT ![w].pc = "pinning"]
        /\ UNCHANGED faults
     \/ /\ PutLeaseUnheard(w)
        /\ jobs' = [jobs EXCEPT ![w] = Asleep]
     \/ /\ ~LeaseUnchanged(w)
        /\ jobs' = [jobs EXCEPT ![w] = Asleep]
        /\ UNCHANGED <<lease, fresh, faults>>
  /\ UNCHANGED <<knowledgeVars, copied, snapshots, success>>

(* The timer.  A renewal that fails, or whose answer is lost, aborts. *)
Renew(w) ==
  /\ Running(w)
  /\ ~jobs[w].aborted
  /\ \/ /\ PutLease(w, TRUE)
        /\ UNCHANGED <<jobs, faults>>
     \/ /\ PutLeaseUnheard(w)
        /\ Aborted(w)
     \/ /\ ~LeaseUnchanged(w)
        /\ Aborted(w)
        /\ UNCHANGED <<lease, fresh, faults>>
  /\ UNCHANGED <<knowledgeVars, copied, snapshots, success>>

(* 45 seconds without a renewal: the owner is gone, gave up, or is paused. *)
Expire ==
  /\ lease.live
  /\ IF Running(lease.owner) /\ ~jobs[lease.owner].aborted
     THEN Fault ELSE UNCHANGED faults
  /\ lease' = [lease EXCEPT !.live = FALSE]
  /\ UNCHANGED <<knowledgeVars, fresh, jobs, copied, snapshots, success>>

-----------------------------------------------------------------------------
PinHead(w) ==
  /\ jobs[w].pc = "pinning"
  /\ jobs' = [jobs EXCEPT ![w] = Job("copying", active, active, jobs[w].aborted)]
  /\ UNCHANGED <<knowledgeVars, lease, fresh, copied, snapshots, success, faults>>

(* The payloads of the next publication are in the bucket to be copied. *)
Readable(w) ==
  jobs[w].cursor # 0 => Payloads(publications[jobs[w].cursor]) \subseteq objects

(* One publication of the chain: its payloads are copied, then its parent's *)
(* follow.  An absent payload or an abort ends the job.                     *)
CopyPublication(w) ==
  LET p == publications[jobs[w].cursor]
  IN  /\ jobs[w].pc = "copying"
      /\ jobs[w].cursor # 0
      /\ ~jobs[w].aborted
      /\ Readable(w)
      /\ copied' = copied \cup Payloads(p)
      /\ jobs' = [jobs EXCEPT ![w].cursor = p.parent]
      /\ UNCHANGED <<knowledgeVars, lease, fresh, snapshots, success, faults>>

(* Slip: only the head's payloads are waited for. *)
BugHeadOnly(w) == jobs[w].cursor # jobs[w].head

ChainCopied(w) == jobs[w].cursor = 0

(* The manifest is put once every payload is there.  A retry of this put    *)
(* meets its own object (IfNoneMatch) and fails the job.                    *)
PutSnapshot(w) ==
  /\ jobs[w].pc = "copying"
  /\ ChainCopied(w)
  /\ ~jobs[w].aborted
  /\ snapshots' = snapshots \cup {jobs[w].head}
  /\ \/ jobs' = [jobs EXCEPT ![w].pc = "recording"] /\ UNCHANGED faults
     \/ jobs' = [jobs EXCEPT ![w] = Ending(w)] /\ Fault
  /\ UNCHANGED <<knowledgeVars, lease, fresh, copied, success>>

(* success.json is put without a condition, and the put may land after the  *)
(* lease is lost.                                                           *)
RecordSuccess(w) ==
  /\ jobs[w].pc = "recording"
  /\ success' = jobs[w].head
  /\ jobs' = [jobs EXCEPT ![w] = Ending(w)]
  /\ UNCHANGED <<knowledgeVars, lease, fresh, copied, snapshots, faults>>

(* An aborted job stops at its next look at the signal; a job whose payload *)
(* is missing stops where it is.                                            *)
Abandon(w) ==
  /\ jobs[w].pc \in {"pinning", "copying", "recording"}
  /\ Readable(w) => jobs[w].aborted
  /\ jobs' = [jobs EXCEPT ![w] = Ending(w)]
  /\ UNCHANGED <<knowledgeVars, lease, fresh, copied, snapshots, success, faults>>

(* The finally block: the lease is given back unless the job was aborted;   *)
(* a lease that has a successor's ETag is left alone.                       *)
Close(w) ==
  /\ jobs[w].pc = "closing"
  /\ \/ /\ ~jobs[w].aborted
        /\ PutLease(w, FALSE)
     \/ /\ jobs[w].aborted \/ ~LeaseUnchanged(w)
        /\ UNCHANGED <<lease, fresh>>
  /\ jobs' = [jobs EXCEPT ![w] = Asleep]
  /\ UNCHANGED <<knowledgeVars, copied, snapshots, success, faults>>

Crash(w) ==
  /\ jobs[w].pc # "asleep"
  /\ Fault
  /\ jobs' = [jobs EXCEPT ![w] = Asleep]
  /\ UNCHANGED <<knowledgeVars, lease, fresh, copied, snapshots, success>>

Working(w) ==
  \/ Start(w) \/ Take(w) \/ PinHead(w) \/ CopyPublication(w) \/ PutSnapshot(w)
  \/ RecordSuccess(w) \/ Abandon(w) \/ Close(w)

Init ==
  /\ KnowledgeInit
  /\ lease = [owner |-> None, live |-> FALSE]
  /\ fresh = {}
  /\ jobs = [w \in Workers |-> Asleep]
  /\ copied = {}
  /\ snapshots = {}
  /\ success = 0
  /\ faults = 0

Next ==
  \/ KnowledgeNext /\ UNCHANGED backupVars
  \/ \E w \in Workers : Working(w) \/ Renew(w) \/ Crash(w)
  \/ Expire

(* The schedule invokes the worker again and again, a started worker goes   *)
(* on, and time passes.                                                     *)
Fairness == WF_vars(Expire) /\ \A w \in Workers : WF_vars(Working(w))

Spec == Init /\ [][Next]_vars /\ Fairness

-----------------------------------------------------------------------------
(* Types of both parts. *)
BackupTypeOK ==
  /\ KnowledgeTypeOK
  /\ lease \in [owner : Workers \cup {None}, live : BOOLEAN]
  /\ fresh \subseteq Workers
  /\ jobs \in [Workers -> JobStates]
  /\ snapshots \subseteq Revisions
  /\ success \in 0..MaxPublications
  /\ faults \in 0..MaxFaults

(* When /knowledge/status shows no lag, the backup bucket holds all it      *)
(* takes to recover the active publication and everything before it: the    *)
(* snapshot and every payload, whichever workers overlapped, stopped or     *)
(* were superseded on the way.                                              *)
NoLagIsRecoverable ==
  success = active =>
    /\ active \in snapshots
    /\ \A i \in DOMAIN log : Payloads(publications[log[i]]) \subseteq copied

(* A live lease never changes hands and is only given back by its owner:    *)
(* neither a worker that read the lease before it was taken or renewed, nor *)
(* one that was superseded, overwrites it.                                  *)
LiveLeaseIsKept ==
  [][lease.live => lease'.owner = lease.owner]_vars

(* Once publications and faults stop, the record catches up with the active *)
(* publication and stays: no lost answer, crash or superseded worker leaves *)
(* the lease taken for good or an older revision recorded last.             *)
BackupCatchesUp == <>[](success = active)
=============================================================================
