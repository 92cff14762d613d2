-------------------------- MODULE GuestIntakeProofs --------------------------
(***************************************************************************)
(* Proofs about GuestIntake, for any jobs, invocations and times, and any  *)
(* number of crashes, failures and interventions.                          *)
(*                                                                         *)
(* That nobody gets two letters does not rest on the leases: an invocation *)
(* sends only after it has written "sending" over a letter that was not    *)
(* sent, and until it writes again the Task says so.  That two Cards get   *)
(* one time only by a proposal that a search did not see, or by one made   *)
(* again, does rest on the shared lease: whoever holds a time it has not   *)
(* proposed yet holds the lease, and nobody else proposes a new event.     *)
(***************************************************************************)
EXTENDS GuestIntake, TLAPS

\* The part of GuestTypeOK the other invariants rest on.
Typed ==
  /\ jobs \in [Jobs -> JobRec]
  /\ asks \in [Jobs -> JobRec \cup {NoAsk}]
  /\ alloc \in Leases
  /\ events \in [Jobs -> EventRec]
  /\ missed \in [Jobs -> SUBSET Jobs]
  /\ tasks \in [Jobs -> TaskRec]
  /\ letters \in [Jobs -> Nat]
  /\ runs \in [Workers -> RunRec]

\* Who has claimed a letter on the Task and not yet recorded how it ended.
HasLetter(r) == r.pc \in {"sending", "recording"}

LetterInv ==
  /\ \A w \in Workers, j \in Jobs : HasLetter(runs[w]) /\ runs[w].job = j
       => /\ tasks[j].letter = "sending"
          /\ runs[w].pc = "sending" \/ runs[w].outcome = "unsent" => letters[j] = 0
          /\ runs[w].pc = "recording" => runs[w].outcome # "none"
  /\ \A u, w \in Workers : u # w /\ HasLetter(runs[u]) /\ HasLetter(runs[w])
       => runs[u].job # runs[w].job
  /\ \A j \in Jobs : tasks[j].letter \in {"none", "unsent"} => letters[j] = 0
  /\ LetterAtMostOnce

\* Who reserves a time holds the shared lease, and who else has the time was
\* not seen or has it again; who shows an event to the guest knows its time.
SlotInv ==
  /\ \A w \in Workers : runs[w].pc \in {"choosing", "proposing"} => alloc = w
  /\ \A w \in Workers, k \in Jobs :
       /\ runs[w].pc = "proposing" /\ k # runs[w].job
       /\ Active(events[k]) /\ events[k].slot = runs[w].slot
       => k \in missed[runs[w].job] \/ events[k].again
  /\ \A w \in Workers : runs[w].pc = "notifying" =>
       events[runs[w].job].status # "none" /\ events[runs[w].job].slot = runs[w].slot
  /\ ClashesAreUnseenOrAgain

GInv == Typed /\ LetterInv /\ SlotInv

-----------------------------------------------------------------------------
\* What moves an invocation keeps its type.
LEMMA MovedRun ==
  ASSUME Typed, NEW w \in Workers, NEW pc \in Places, Go(w, pc)
  PROVE  runs' \in [Workers -> RunRec]
  <1>1. runs[w] \in RunRec
    BY DEF Typed
  <1>2. [runs[w] EXCEPT !.pc = pc] \in RunRec
    BY <1>1 DEF RunRec
  <1> QED
    BY <1>2 DEF Typed, Go

LEMMA NotifyingRun ==
  ASSUME Typed, NEW w \in Workers, NEW j \in Jobs
  PROVE  [runs[w] EXCEPT !.pc = "notifying", !.slot = events[j].slot] \in RunRec
  <1>1. runs[w] \in RunRec /\ events[j].slot \in Slots \cup {NoSlot}
    BY DEF Typed, EventRec
  <1> QED
    BY <1>1 DEF RunRec, Places

LEMMA AsleepIsARun ==
  ASSUME Jobs # {}
  PROVE  Asleep \in RunRec
  <1>1. (CHOOSE j \in Jobs : TRUE) \in Jobs
    OBVIOUS
  <1> QED
    BY <1>1 DEF Asleep, RunRec, Places, Leases, NoSlot

LEMMA SavedTypes ==
  ASSUME Typed, NEW w \in Workers, NEW status \in Resumable \cup {"sent", "skipped", "cancelled"},
         NEW retryable \in BOOLEAN, Save(w, status, retryable)
  PROVE  jobs' \in [Jobs -> JobRec] /\ asks' \in [Jobs -> JobRec \cup {NoAsk}]
  <1>1. runs[w] \in RunRec
    BY DEF Typed
  <1>2. runs[w].skip \in BOOLEAN /\ runs[w].lease \in Leases /\ runs[w].job \in Jobs
    BY <1>1 DEF RunRec
  <1>3. [status |-> status, skip |-> runs[w].skip, retryable |-> retryable,
         lease |-> runs[w].lease] \in JobRec
    BY <1>2 DEF JobRec
  <1> QED
    BY <1>2, <1>3 DEF Typed, Save

\* A Task written keeps its type.
LEMMA WrittenTask ==
  ASSUME Typed, NEW j \in Jobs, NEW a, NEW task \in TaskRec, WriteTask(a, j, task)
  PROVE  tasks' \in [Jobs -> TaskRec]
  BY DEF Typed, WriteTask

\* The lease of an invocation that ended is still a lease.
LEMMA LeftTypes ==
  ASSUME Typed, NEW w \in Workers, Left(w)
  PROVE  asks' \in [Jobs -> JobRec \cup {NoAsk}] /\ runs' \in [Workers -> RunRec]
  <1>1. ASSUME NEW lease \in Leases
        PROVE  Ended(w, lease) \in Leases
    BY DEF Ended, Leases
  <1>2. ASSUME NEW j \in Jobs
        PROVE  [asks[j] EXCEPT !.lease = Ended(w, @)] \in JobRec \cup {NoAsk}
    <2>1. CASE asks[j] \in JobRec
      <3>1. Ended(w, asks[j].lease) \in Leases
        BY <1>1, <2>1 DEF JobRec
      <3> QED
        BY <2>1, <3>1 DEF JobRec
    <2>2. CASE asks[j] = NoAsk
      <3>1. Ended(w, NoAsk.lease) = NoAsk.lease
        BY GuestAssumption DEF NoAsk, Ended
      <3> QED
        BY <2>2, <3>1 DEF NoAsk
    <2> QED
      BY <2>1, <2>2 DEF Typed
  <1>3. ASSUME NEW u \in Workers
        PROVE  Asleep \in RunRec /\ [runs[u] EXCEPT !.lease = Ended(w, @)] \in RunRec
    <2>1. runs[u] \in RunRec
      BY DEF Typed
    <2>2. Ended(w, runs[u].lease) \in Leases /\ runs[u].job \in Jobs
      BY <1>1, <2>1 DEF RunRec
    <2>3. [runs[u] EXCEPT !.lease = Ended(w, @)] \in RunRec
      BY <2>1, <2>2 DEF RunRec
    <2> QED
      BY <2>2, <2>3, AsleepIsARun
  <1> QED
    BY <1>2, <1>3 DEF Left

\* So is the row whose lease is given back.
LEMMA RowsLeft ==
  ASSUME Typed, NEW k \in Jobs, NEW lease \in Leases
  PROVE  [jobs[k] EXCEPT !.lease = lease] \in JobRec
  BY DEF Typed, JobRec

LEMMA TypedStep ==
  ASSUME Typed, [Next]_vars
  PROVE  Typed'
  <1> USE DEF rows, counts
  <1>r. ASSUME NEW w \in Workers
        PROVE  /\ runs[w] \in RunRec /\ runs[w].job \in Jobs /\ runs[w].lease \in Leases
               /\ runs[w].slot \in Slots \cup {NoSlot} /\ runs[w].skip \in BOOLEAN
               /\ runs[w].retryable \in BOOLEAN
               /\ runs[w].outcome \in {"none", "sent", "unsent", "unknown"}
    BY DEF Typed, RunRec
  <1>j. ASSUME NEW j \in Jobs
        PROVE  /\ jobs[j] \in JobRec /\ jobs[j].lease \in Leases /\ jobs[j].skip \in BOOLEAN
               /\ jobs[j].retryable \in BOOLEAN
               /\ events[j] \in EventRec /\ tasks[j] \in TaskRec /\ letters[j] \in Nat
    BY DEF Typed, JobRec
  <1>1. CASE UNCHANGED vars
    BY <1>1 DEF vars, Typed
  <1>2. ASSUME NEW w \in Workers, Resume(w) \/ Stream(w)
        PROVE  Typed'
    <2>1. PICK j \in Jobs : Wake(w, j)
      BY <1>2 DEF Resume, Stream
    <2>2. [Asleep EXCEPT !.pc = "woken", !.job = j] \in RunRec
      BY AsleepIsARun DEF Asleep, RunRec, Places
    <2> QED
      BY <2>1, <2>2 DEF Wake, Typed
  <1>3. ASSUME NEW w \in Workers, Claim(w)
        PROVE  Typed'
    <2>1. runs' \in [Workers -> RunRec]
      BY <1>3, MovedRun DEF Claim, Places
    <2>2. w \in Leases
      BY DEF Leases
    <2>3. jobs' \in [Jobs -> JobRec]
      BY <1>r, <1>3, <2>2, RowsLeft DEF Claim, Typed
    <2> QED
      BY <1>3, <2>1, <2>3 DEF Claim, Typed
  <1>4. ASSUME NEW w \in Workers, Look(w)
        PROVE  Typed'
    <2> DEFINE j == runs[w].job
               Moved(pc) == [runs[w] EXCEPT !.pc = pc, !.skip = jobs[j].skip,
                               !.retryable = jobs[j].retryable, !.lease = jobs[j].lease]
    <2>1. /\ runs[w] \in RunRec /\ jobs[j].skip \in BOOLEAN
          /\ jobs[j].retryable \in BOOLEAN /\ jobs[j].lease \in Leases
      BY <1>r, <1>j
    <2>2. Moved("closing") \in RunRec /\ Moved("reserving") \in RunRec
      BY <2>1 DEF RunRec, Places
    <2>3. runs' = [runs EXCEPT ![w] = Moved("closing")] \/ runs' = [runs EXCEPT ![w] = Moved("reserving")]
      BY <1>4 DEF Look
    <2>4. runs' \in [Workers -> RunRec]
      BY <2>2, <2>3 DEF Typed
    <2>5. ASSUME NEW status \in Resumable \cup {"cancelled"}, NEW retryable \in BOOLEAN
          PROVE  [jobs[j] EXCEPT !.status = status, !.retryable = retryable] \in JobRec
      <3>1. jobs[j] \in JobRec
        BY <1>r, <1>j
      <3> QED
        BY <3>1 DEF JobRec
    <2>6. jobs' \in [Jobs -> JobRec] /\ asks' \in [Jobs -> JobRec \cup {NoAsk}]
      <3>1. /\ [jobs[j] EXCEPT !.status = "cancelled", !.retryable = FALSE] \in JobRec
            /\ [jobs[j] EXCEPT !.status = "paused", !.retryable = jobs[j].retryable] \in JobRec
            /\ [jobs[j] EXCEPT !.status = "preparing", !.retryable = jobs[j].retryable] \in JobRec
        BY <2>1, <2>5 DEF Resumable
      <3> QED
        BY <1>4, <3>1 DEF Look, Typed
    <2> QED
      BY <1>4, <2>4, <2>6 DEF Look, Typed
  <1>5. ASSUME NEW w \in Workers, Reserve(w)
        PROVE  Typed'
    <2>1. [runs[w] EXCEPT !.pc = "notifying", !.slot = events[runs[w].job].slot] \in RunRec
      BY <1>r, NotifyingRun
    <2>2. jobs' \in [Jobs -> JobRec] /\ asks' \in [Jobs -> JobRec \cup {NoAsk}]
      BY <1>5, SavedTypes DEF Reserve, Typed
    <2>3. runs' \in [Workers -> RunRec]
      BY <1>5, <2>1, MovedRun DEF Reserve, Places, Typed
    <2> QED
      BY <1>5, <2>2, <2>3 DEF Reserve, Typed
  <1>5a. ASSUME NEW w \in Workers, Notify(w)
         PROVE  Typed'
    <2> DEFINE j == runs[w].job
               e == events[j]
               Told == [status |-> "proposed", slot |-> runs[w].slot, pending |-> TRUE,
                        told |-> TRUE, shown |-> e.shown,
                        again |-> e.again \/ e.status = "released"]
    <2>1. runs' \in [Workers -> RunRec]
      BY <1>5a, MovedRun DEF Notify, Places
    <2>2. e \in EventRec /\ runs[w].slot \in Slots \cup {NoSlot}
      BY <1>r, <1>j
    <2>3. e.shown \in BOOLEAN /\ (e.again \/ e.status = "released") \in BOOLEAN
      BY <2>2 DEF EventRec
    <2>4. Told \in EventRec
      BY <2>2, <2>3 DEF EventRec
    <2>5. events' = events \/ events' = [events EXCEPT ![j] = Told]
      BY <1>5a DEF Notify
    <2>6. events' \in [Jobs -> EventRec]
      BY <1>r, <2>4, <2>5 DEF Typed
    <2> QED
      BY <1>5a, <2>1, <2>6 DEF Notify, Typed
  <1>6. ASSUME NEW w \in Workers, Allot(w)
        PROVE  Typed'
    <2>1. runs' \in [Workers -> RunRec]
      BY <1>6, MovedRun DEF Allot, Places
    <2>2. alloc' \in Leases
      BY <1>6 DEF Allot, Leases, Typed
    <2> QED
      BY <1>6, <2>1, <2>2 DEF Allot, Typed
  <1>7. ASSUME NEW w \in Workers, Choose(w)
        PROVE  Typed'
    <2>1. ASSUME NEW s \in Slots
          PROVE  [runs[w] EXCEPT !.pc = "proposing", !.slot = s] \in RunRec
      BY <1>r DEF RunRec, Places
    <2>2. runs' \in [Workers -> RunRec]
      <3>1. \/ Go(w, "failing")
            \/ \E s \in Slots : runs' = [runs EXCEPT ![w].pc = "proposing", ![w].slot = s]
        BY <1>7 DEF Choose
      <3>2. CASE \E s \in Slots : runs' = [runs EXCEPT ![w].pc = "proposing", ![w].slot = s]
        BY <2>1, <3>2 DEF Typed
      <3> QED
        BY <3>1, <3>2, MovedRun DEF Places
    <2>3. jobs' \in [Jobs -> JobRec] /\ asks' \in [Jobs -> JobRec \cup {NoAsk}]
      BY <1>r, <1>7, SavedTypes DEF Choose, Typed, Resumable
    <2>4. missed' \in [Jobs -> SUBSET Jobs]
      <3>1. \A behind \in SUBSET (Jobs \ {runs[w].job}) : Unseen(runs[w].job, behind) \subseteq Jobs
        BY DEF Unseen
      <3> QED
        BY <1>r, <1>7, <3>1 DEF Choose, Typed
    <2> QED
      BY <1>7, <2>2, <2>3, <2>4 DEF Choose, Typed
  <1>8. ASSUME NEW w \in Workers, Propose(w)
        PROVE  Typed'
    <2>2. runs' \in [Workers -> RunRec]
      BY <1>8, MovedRun DEF Propose, Places
    <2>3. [NoEvent EXCEPT !.status = "proposed", !.slot = runs[w].slot,
                          !.pending = TRUE, !.told = Tells(w)] \in EventRec
      BY <1>r DEF EventRec, NoEvent, Tells
    <2>4. events' \in [Jobs -> EventRec]
      BY <1>8, <2>3 DEF Propose, Typed
    <2> QED
      BY <1>8, <2>2, <2>4 DEF Propose, Typed
  <1>9. ASSUME NEW w \in Workers, Sync(w)
        PROVE  Typed'
    <2>1. runs' \in [Workers -> RunRec]
      <3>1. [runs[w] EXCEPT !.pc = "notifying", !.slot = events[runs[w].job].slot] \in RunRec
        BY <1>r, NotifyingRun
      <3> QED
        BY <1>9, <3>1, MovedRun DEF Sync, Places, Typed
    <2>2. [events[runs[w].job] EXCEPT !.pending = FALSE, !.shown = TRUE] \in EventRec
      <3>1. events[runs[w].job] \in EventRec
        BY <1>r, <1>j
      <3> QED
        BY <3>1 DEF EventRec
    <2>3. events' \in [Jobs -> EventRec]
      BY <1>9, <2>2 DEF Sync, Typed
    <2> QED
      BY <1>9, <2>1, <2>3 DEF Sync, Typed
  <1>10. ASSUME NEW w \in Workers, Hold(w)
         PROVE  Typed'
    <2>1. runs' \in [Workers -> RunRec]
      BY <1>10, MovedRun DEF Hold, Places
    <2>2. jobs' \in [Jobs -> JobRec] /\ asks' \in [Jobs -> JobRec \cup {NoAsk}]
      BY <1>r, <1>10, SavedTypes DEF Hold, Resumable
    <2>3. alloc' \in Leases
      BY <1>10 DEF Hold, Leases, Typed
    <2> QED
      BY <1>10, <2>1, <2>2, <2>3 DEF Hold, Typed
  <1>11. ASSUME NEW w \in Workers, ClaimLetter(w)
         PROVE  Typed'
    <2>1. runs' \in [Workers -> RunRec]
      BY <1>11, MovedRun DEF ClaimLetter, Places
    <2>2. [tasks[runs[w].job] EXCEPT !.letter = "sending"] \in TaskRec
      BY <1>r, <1>j DEF TaskRec
    <2>3. tasks' \in [Jobs -> TaskRec]
      BY <1>r, <1>11, <2>2, WrittenTask DEF ClaimLetter, Typed
    <2> QED
      BY <1>11, <2>1, <2>3 DEF ClaimLetter, Typed
  <1>12. ASSUME NEW w \in Workers, Send(w)
         PROVE  Typed'
    <2>1. ASSUME NEW outcome \in {"sent", "unsent", "unknown"}
          PROVE  [runs[w] EXCEPT !.pc = "recording", !.outcome = outcome] \in RunRec
      BY <1>r DEF RunRec, Places
    <2>2. runs' \in [Workers -> RunRec]
      BY <1>12, <2>1 DEF Send, Typed
    <2>3. letters' \in [Jobs -> Nat]
      BY <1>r, <1>j, <1>12 DEF Send, Typed
    <2> QED
      BY <1>12, <2>2, <2>3 DEF Send, Typed
  <1>13. ASSUME NEW w \in Workers, RecordLetter(w)
         PROVE  Typed'
    <2>1. runs' \in [Workers -> RunRec]
      BY <1>13, MovedRun DEF RecordLetter, Places
    <2>2. runs[w].outcome = "none" \/ [tasks[runs[w].job] EXCEPT !.letter = runs[w].outcome] \in TaskRec
      BY <1>r, <1>j DEF TaskRec
    <2>2a. [tasks[runs[w].job] EXCEPT !.letter = "none"] \in TaskRec
      BY <1>r, <1>j DEF TaskRec
    <2>3. tasks' \in [Jobs -> TaskRec]
      BY <1>r, <1>13, <2>2, <2>2a, WrittenTask DEF RecordLetter, Typed
    <2> QED
      BY <1>13, <2>1, <2>3 DEF RecordLetter, Typed
  <1>14. ASSUME NEW w \in Workers, Compare(w)
         PROVE  Typed'
    <2>1. runs' \in [Workers -> RunRec]
      BY <1>14, MovedRun DEF Compare, Places
    <2> QED
      BY <1>14, <2>1 DEF Compare, Typed
  <1>15. ASSUME NEW w \in Workers, LookAtEvent(w)
         PROVE  Typed'
    <2>1. runs' \in [Workers -> RunRec]
      BY <1>15, MovedRun DEF LookAtEvent, Places
    <2> QED
      BY <1>15, <2>1 DEF LookAtEvent, Typed
  <1>16. ASSUME NEW w \in Workers, Waiting(w)
         PROVE  Typed'
    <2>1. runs' \in [Workers -> RunRec]
      BY <1>16, MovedRun DEF Waiting, Places
    <2>2. [tasks[runs[w].job] EXCEPT !.status = "waiting"] \in TaskRec
      BY <1>r, <1>j DEF TaskRec
    <2>3. tasks' \in [Jobs -> TaskRec]
      BY <1>r, <1>16, <2>2, WrittenTask DEF Waiting, Typed
    <2> QED
      BY <1>16, <2>1, <2>3 DEF Waiting, Typed
  <1>17. ASSUME NEW w \in Workers, Resolving(w)
         PROVE  Typed'
    <2>1. runs' \in [Workers -> RunRec]
      BY <1>17, MovedRun DEF Resolving, Places
    <2>2. [tasks[runs[w].job] EXCEPT !.status = "done"] \in TaskRec
      BY <1>r, <1>j DEF TaskRec
    <2>3. tasks' \in [Jobs -> TaskRec]
      BY <1>r, <1>17, <2>2, WrittenTask DEF Resolving, Resolves, Typed
    <2> QED
      BY <1>17, <2>1, <2>3 DEF Resolving, Typed
  <1>18. ASSUME NEW w \in Workers, Finish(w)
         PROVE  Typed'
    <2>1. runs' \in [Workers -> RunRec]
      BY <1>18, MovedRun DEF Finish, Places
    <2>2. jobs' \in [Jobs -> JobRec] /\ asks' \in [Jobs -> JobRec \cup {NoAsk}]
      BY <1>r, <1>18, SavedTypes DEF Finish, Resumable, Reconciled
    <2> QED
      BY <1>18, <2>1, <2>2 DEF Finish, Typed
  <1>19. ASSUME NEW w \in Workers, Fail(w)
         PROVE  Typed'
    <2>1. runs' \in [Workers -> RunRec]
      BY <1>19, MovedRun DEF Fail, Places
    <2>2. Reconciled(tasks[runs[w].job].letter) \in BOOLEAN
      BY DEF Reconciled
    <2>3. Save(w, "failed", Reconciled(tasks[runs[w].job].letter))
      BY <1>19 DEF Fail
    <2>4. jobs' \in [Jobs -> JobRec] /\ asks' \in [Jobs -> JobRec \cup {NoAsk}]
      BY <2>2, <2>3, SavedTypes DEF Resumable
    <2> QED
      BY <1>19, <2>1, <2>4 DEF Fail, Typed
  <1>20. ASSUME NEW w \in Workers, LoseLease(w)
         PROVE  Typed'
    <2>1. runs' \in [Workers -> RunRec]
      BY <1>20, MovedRun DEF LoseLease, Places
    <2> QED
      BY <1>20, <2>1 DEF LoseLease, Typed
  <1>21. ASSUME NEW w \in Workers, Close(w)
         PROVE  Typed'
    <2>1. asks' \in [Jobs -> JobRec \cup {NoAsk}] /\ runs' \in [Workers -> RunRec]
      BY <1>21, LeftTypes DEF Close
    <2>2. \A lease \in Leases : Ended(w, lease) \in Leases /\ Free \in Leases
      BY DEF Ended, Leases
    <2>3. jobs' \in [Jobs -> JobRec]
      BY <1>j, <1>21, <2>2, RowsLeft DEF Close
    <2>4. alloc' \in Leases
      BY <1>21, <2>2 DEF Close, Typed
    <2> QED
      BY <1>21, <2>1, <2>3, <2>4 DEF Close, Typed
  <1>22. ASSUME NEW w \in Workers, Crash(w)
         PROVE  Typed'
    <2>1. asks' \in [Jobs -> JobRec \cup {NoAsk}] /\ runs' \in [Workers -> RunRec]
      BY <1>22, LeftTypes DEF Crash
    <2>2. \A lease \in Leases : Ended(w, lease) \in Leases /\ Free \in Leases
      BY DEF Ended, Leases
    <2>3. jobs' \in [Jobs -> JobRec]
      BY <1>j, <1>22, <2>2, RowsLeft DEF Crash
    <2>4. alloc' \in Leases
      BY <1>22, <2>2 DEF Crash, Typed
    <2> QED
      BY <1>22, <2>1, <2>3, <2>4 DEF Crash, Typed
  <1>23. ASSUME NEW j \in Jobs, Ask(j)
         PROVE  Typed'
    <2>1. \A skip \in BOOLEAN : Requeued(jobs[j], skip) \in JobRec
      BY <1>j DEF Requeued, JobRec, Resumable
    <2>2. asks' \in [Jobs -> JobRec \cup {NoAsk}]
      BY <1>j, <1>23, <2>1 DEF Ask, Typed
    <2> QED
      BY <1>23, <2>2 DEF Ask, Typed
  <1>24. ASSUME NEW j \in Jobs, PutAsk(j)
         PROVE  Typed'
    BY <1>24 DEF PutAsk, Typed
  <1>25. ASSUME NEW j \in Jobs, SetCard(j)
         PROVE  Typed'
    BY <1>25 DEF SetCard, Typed
  <1>26. ASSUME NEW j \in Jobs, Edit(j)
         PROVE  Typed'
    BY <1>26 DEF Edit, Typed
  <1>27. ASSUME NEW j \in Jobs, ReleaseEvent(j)
         PROVE  Typed'
    <2>1. [events[j] EXCEPT !.status = "released", !.shown = FALSE] \in EventRec
      BY <1>j DEF EventRec
    <2> QED
      BY <1>27, <2>1 DEF ReleaseEvent, Typed
  <1>28. ASSUME NEW j \in Jobs, Accept(j)
         PROVE  Typed'
    <2>1. [events[j] EXCEPT !.status = "approved"] \in EventRec
      BY <1>j DEF EventRec
    <2> QED
      BY <1>28, <2>1 DEF Accept, Typed
  <1>29. ASSUME NEW j \in Jobs, AcceptReads(j)
         PROVE  Typed'
    BY <1>29 DEF AcceptReads, Typed
  <1>30. ASSUME NEW j \in Jobs, AcceptResolves(j)
         PROVE  Typed'
    <2>1. [tasks[j] EXCEPT !.status = "done"] \in TaskRec
      BY <1>j DEF TaskRec
    <2>2. tasks' \in [Jobs -> TaskRec]
      BY <1>30, <2>1, WrittenTask DEF AcceptResolves, Resolves, Typed
    <2> QED
      BY <1>30, <2>2 DEF AcceptResolves, Typed
  <1> QED
    BY <1>1, <1>2, <1>3, <1>4, <1>5, <1>5a, <1>6, <1>7, <1>8, <1>9, <1>10, <1>11, <1>12, <1>13, <1>14, <1>15, <1>16, <1>17, <1>18, <1>19, <1>20, <1>21, <1>22, <1>23, <1>24, <1>25, <1>26, <1>27, <1>28, <1>29, <1>30 DEF Next, Work

-----------------------------------------------------------------------------
\* Nobody takes up a letter, and those who have one go on as they were.
KeepLetters ==
  \A u \in Workers : HasLetter(runs'[u]) =>
    runs[u].pc = runs'[u].pc /\ runs[u].job = runs'[u].job /\ runs[u].outcome = runs'[u].outcome

LEMMA QuietLetters ==
  ASSUME Typed, Typed', LetterInv, KeepLetters, letters' = letters,
         \A j \in Jobs : tasks'[j].letter = tasks[j].letter
  PROVE  LetterInv'
  <1> USE DEF KeepLetters, HasLetter
  <1>1. ASSUME NEW w \in Workers, NEW j \in Jobs, HasLetter(runs'[w]), runs'[w].job = j
        PROVE  /\ tasks'[j].letter = "sending"
               /\ runs'[w].pc = "sending" \/ runs'[w].outcome = "unsent" => letters'[j] = 0
               /\ runs'[w].pc = "recording" => runs'[w].outcome # "none"
    BY <1>1 DEF LetterInv
  <1>2. ASSUME NEW u \in Workers, NEW w \in Workers, u # w, HasLetter(runs'[u]), HasLetter(runs'[w])
        PROVE  runs'[u].job # runs'[w].job
    BY <1>2 DEF LetterInv
  <1>3. ASSUME NEW j \in Jobs
        PROVE  /\ tasks'[j].letter \in {"none", "unsent"} => letters'[j] = 0
               /\ letters'[j] <= 1
    BY DEF LetterInv, LetterAtMostOnce
  <1> QED
    BY <1>1, <1>2, <1>3 DEF LetterInv, LetterAtMostOnce

LEMMA GoKeepsLetters ==
  ASSUME Typed, NEW w \in Workers, NEW pc \in Places \ {"sending", "recording"}, Go(w, pc)
  PROVE  KeepLetters
  BY DEF Typed, Go, KeepLetters, HasLetter, RunRec

LEMMA LeftKeepsLetters ==
  ASSUME Typed, NEW w \in Workers, Left(w)
  PROVE  KeepLetters
  <1>1. ASSUME NEW u \in Workers, HasLetter(runs'[u])
        PROVE  runs[u].pc = runs'[u].pc /\ runs[u].job = runs'[u].job /\ runs[u].outcome = runs'[u].outcome
    <2>1. u # w
      BY <1>1 DEF Left, Asleep, HasLetter
    <2>2. runs'[u] = [runs[u] EXCEPT !.lease = Ended(w, @)] /\ runs[u] \in RunRec
      BY <2>1 DEF Left, Typed
    <2> QED
      BY <2>2 DEF RunRec
  <1> QED
    BY <1>1 DEF KeepLetters

\* One letter at the most, whatever a step does.
LEMMA LetterStep ==
  ASSUME Typed, LetterInv, [Next]_vars
  PROVE  LetterInv'
  <1> USE DEF rows, counts
  <1>t. Typed'
    BY TypedStep
  <1>r. ASSUME NEW w \in Workers
        PROVE  runs[w] \in RunRec /\ runs[w].job \in Jobs
    BY DEF Typed, RunRec
  <1>j. ASSUME NEW j \in Jobs
        PROVE  tasks[j] \in TaskRec /\ letters[j] \in Nat
    BY DEF Typed
  <1>1. CASE UNCHANGED vars
    BY <1>1, <1>t, QuietLetters DEF vars, KeepLetters
  <1>2. ASSUME NEW w \in Workers, Resume(w) \/ Stream(w)
        PROVE  LetterInv'
    <2>1. PICK j \in Jobs : Wake(w, j)
      BY <1>2 DEF Resume, Stream
    <2>2. KeepLetters
      BY <2>1 DEF Wake, KeepLetters, HasLetter, Asleep, Typed
    <2> QED
      BY <2>1, <2>2, <1>t, QuietLetters DEF Wake
  <1>3. ASSUME NEW w \in Workers, Claim(w)
        PROVE  LetterInv'
    <2>1. KeepLetters
      BY <1>3, GoKeepsLetters DEF Claim, Places
    <2> QED
      BY <1>3, <2>1, <1>t, QuietLetters DEF Claim
  <1>4. ASSUME NEW w \in Workers, Reserve(w)
        PROVE  LetterInv'
    <2>1. KeepLetters
      <3>1. CASE runs' = [runs EXCEPT ![w].pc = "notifying", ![w].slot = events[runs[w].job].slot]
        <4>1. runs'[w].pc = "notifying" /\ \A u \in Workers \ {w} : runs'[u] = runs[u]
          BY <1>r, <3>1 DEF Typed, RunRec
        <4> QED
          BY <4>1 DEF KeepLetters, HasLetter
      <3> QED
        BY <1>4, <3>1, GoKeepsLetters DEF Reserve, Places
    <2> QED
      BY <1>4, <2>1, <1>t, QuietLetters DEF Reserve
  <1>4a. ASSUME NEW w \in Workers, Notify(w)
         PROVE  LetterInv'
    <2>1. KeepLetters
      BY <1>4a, GoKeepsLetters DEF Notify, Places
    <2> QED
      BY <1>4a, <2>1, <1>t, QuietLetters DEF Notify
  <1>5. ASSUME NEW w \in Workers, Allot(w)
        PROVE  LetterInv'
    <2>1. KeepLetters
      BY <1>5, GoKeepsLetters DEF Allot, Places
    <2> QED
      BY <1>5, <2>1, <1>t, QuietLetters DEF Allot
  <1>6. ASSUME NEW w \in Workers, Sync(w)
        PROVE  LetterInv'
    <2>1. KeepLetters
      <3>1. CASE runs' = [runs EXCEPT ![w].pc = "notifying", ![w].slot = events[runs[w].job].slot]
        <4>1. runs'[w].pc = "notifying" /\ \A u \in Workers \ {w} : runs'[u] = runs[u]
          BY <1>r, <3>1 DEF Typed, RunRec
        <4> QED
          BY <4>1 DEF KeepLetters, HasLetter
      <3> QED
        BY <1>6, <3>1, GoKeepsLetters DEF Sync, Places
    <2> QED
      BY <1>6, <2>1, <1>t, QuietLetters DEF Sync
  <1>7. ASSUME NEW w \in Workers, Hold(w)
        PROVE  LetterInv'
    <2>1. KeepLetters
      BY <1>7, GoKeepsLetters DEF Hold, Places
    <2> QED
      BY <1>7, <2>1, <1>t, QuietLetters DEF Hold
  <1>8. ASSUME NEW w \in Workers, Compare(w)
        PROVE  LetterInv'
    <2>1. KeepLetters
      BY <1>8, GoKeepsLetters DEF Compare, Places
    <2> QED
      BY <1>8, <2>1, <1>t, QuietLetters DEF Compare
  <1>9. ASSUME NEW w \in Workers, LookAtEvent(w)
        PROVE  LetterInv'
    <2>1. KeepLetters
      BY <1>9, GoKeepsLetters DEF LookAtEvent, Places
    <2> QED
      BY <1>9, <2>1, <1>t, QuietLetters DEF LookAtEvent
  <1>10. ASSUME NEW w \in Workers, Finish(w)
        PROVE  LetterInv'
    <2>1. KeepLetters
      BY <1>10, GoKeepsLetters DEF Finish, Places
    <2> QED
      BY <1>10, <2>1, <1>t, QuietLetters DEF Finish
  <1>11. ASSUME NEW w \in Workers, Fail(w)
        PROVE  LetterInv'
    <2>1. KeepLetters
      BY <1>11, GoKeepsLetters DEF Fail, Places
    <2> QED
      BY <1>11, <2>1, <1>t, QuietLetters DEF Fail
  <1>12. ASSUME NEW w \in Workers, LoseLease(w)
        PROVE  LetterInv'
    <2>1. KeepLetters
      BY <1>12, GoKeepsLetters DEF LoseLease, Places
    <2> QED
      BY <1>12, <2>1, <1>t, QuietLetters DEF LoseLease
  <1>13. ASSUME NEW w \in Workers, Look(w)
        PROVE  LetterInv'
    <2> DEFINE row == jobs[runs[w].job]
               Moved(pc) == [runs[w] EXCEPT !.pc = pc, !.skip = row.skip,
                               !.retryable = row.retryable, !.lease = row.lease]
    <2>0. Moved("closing").pc = "closing" /\ Moved("reserving").pc = "reserving"
      BY <1>r DEF RunRec
    <2>1a. runs' = [runs EXCEPT ![w] = Moved("closing")] \/ runs' = [runs EXCEPT ![w] = Moved("reserving")]
      BY <1>13 DEF Look
    <2> HIDE DEF Moved
    <2>1. runs'[w].pc \in {"closing", "reserving"} /\ \A u \in Workers \ {w} : runs'[u] = runs[u]
      BY <2>0, <2>1a DEF Typed
    <2>2. KeepLetters
      BY <2>1 DEF KeepLetters, HasLetter
    <2> QED
      BY <1>13, <2>2, <1>t, QuietLetters DEF Look
  <1>14. ASSUME NEW w \in Workers, Choose(w)
        PROVE  LetterInv'
    <2>1. runs'[w].pc \notin {"sending", "recording"} /\ \A u \in Workers \ {w} : runs'[u] = runs[u]
      BY <1>r, <1>14 DEF Choose, Go, Typed, RunRec
    <2>2. KeepLetters
      BY <2>1 DEF KeepLetters, HasLetter
    <2> QED
      BY <1>14, <2>2, <1>t, QuietLetters DEF Choose
  <1>15. ASSUME NEW w \in Workers, Propose(w)
        PROVE  LetterInv'
    <2>1. runs'[w].pc \notin {"sending", "recording"} /\ \A u \in Workers \ {w} : runs'[u] = runs[u]
      BY <1>r, <1>15 DEF Propose, Go, Typed, RunRec
    <2>2. KeepLetters
      BY <2>1 DEF KeepLetters, HasLetter
    <2> QED
      BY <1>15, <2>2, <1>t, QuietLetters DEF Propose
  <1>16. ASSUME NEW w \in Workers, Waiting(w)
        PROVE  LetterInv'
    <2>1. KeepLetters
      BY <1>16, GoKeepsLetters DEF Waiting, Places
    <2>2. [tasks[runs[w].job] EXCEPT !.status = "waiting"].letter = tasks[runs[w].job].letter
      BY <1>r, <1>j DEF TaskRec
    <2>3. \A j \in Jobs : tasks'[j].letter = tasks[j].letter
      BY <1>r, <1>16, <2>2 DEF Waiting, WriteTask, Typed
    <2> QED
      BY <1>16, <2>1, <2>3, <1>t, QuietLetters DEF Waiting
  <1>17. ASSUME NEW w \in Workers, Resolving(w)
        PROVE  LetterInv'
    <2>1. KeepLetters
      BY <1>17, GoKeepsLetters DEF Resolving, Places
    <2>2. [tasks[runs[w].job] EXCEPT !.status = "done"].letter = tasks[runs[w].job].letter
      BY <1>r, <1>j DEF TaskRec
    <2>3. \A j \in Jobs : tasks'[j].letter = tasks[j].letter
      BY <1>r, <1>17, <2>2 DEF Resolving, Resolves, WriteTask, Typed
    <2> QED
      BY <1>17, <2>1, <2>3, <1>t, QuietLetters DEF Resolving
  <1>18. ASSUME NEW w \in Workers, Close(w)
        PROVE  LetterInv'
    <2>1. KeepLetters
      BY <1>18, LeftKeepsLetters DEF Close
    <2> QED
      BY <1>18, <2>1, <1>t, QuietLetters DEF Close
  <1>19. ASSUME NEW w \in Workers, Crash(w)
        PROVE  LetterInv'
    <2>1. KeepLetters
      BY <1>19, LeftKeepsLetters DEF Crash
    <2> QED
      BY <1>19, <2>1, <1>t, QuietLetters DEF Crash
  <1>20. ASSUME NEW w \in Workers, ClaimLetter(w)
        PROVE  LetterInv'
    <2> DEFINE j == runs[w].job
    <2>1. CASE UNCHANGED tasks /\ Go(w, "failing")
      <3>1. KeepLetters
        BY <2>1, GoKeepsLetters DEF Places
      <3> QED
        BY <1>20, <2>1, <3>1, <1>t, QuietLetters DEF ClaimLetter
    <2>2. CASE /\ Reconciled(tasks[j].letter) /\ tasks[j].letter # "sent"
               /\ WriteTask(w, j, [tasks[j] EXCEPT !.letter = "sending"])
               /\ Go(w, "sending")
      \* The letter was never claimed or failed before it was sent, so nobody has it.
      <3>1. letters[j] = 0 /\ letters' = letters
        BY <1>20, <1>r, <2>2 DEF ClaimLetter, LetterInv, Reconciled
      <3>2. \A u \in Workers : HasLetter(runs[u]) => runs[u].job # j
        BY <1>r, <2>2 DEF LetterInv, Reconciled
      <3>3. tasks'[j].letter = "sending" /\ \A k \in Jobs \ {j} : tasks'[k] = tasks[k]
        BY <1>r, <1>j, <2>2 DEF WriteTask, Typed, TaskRec
      <3>4. /\ runs'[w].job = j /\ runs'[w].pc = "sending"
            /\ \A u \in Workers \ {w} : runs'[u] = runs[u]
        BY <1>r, <2>2 DEF Go, Typed, RunRec
      <3>5. ASSUME NEW u \in Workers, NEW k \in Jobs, HasLetter(runs'[u]), runs'[u].job = k
            PROVE  /\ tasks'[k].letter = "sending"
                   /\ runs'[u].pc = "sending" \/ runs'[u].outcome = "unsent" => letters'[k] = 0
                   /\ runs'[u].pc = "recording" => runs'[u].outcome # "none"
        <4>1. CASE u = w
          BY <3>1, <3>3, <3>4, <3>5, <4>1
        <4>2. CASE u # w
          BY <3>1, <3>2, <3>3, <3>4, <3>5, <4>2 DEF LetterInv
        <4> QED
          BY <4>1, <4>2
      <3>6. ASSUME NEW u \in Workers, NEW v \in Workers, u # v, HasLetter(runs'[u]), HasLetter(runs'[v])
            PROVE  runs'[u].job # runs'[v].job
        BY <3>2, <3>4, <3>6 DEF LetterInv
      <3>7. ASSUME NEW k \in Jobs
            PROVE  /\ tasks'[k].letter \in {"none", "unsent"} => letters'[k] = 0
                   /\ letters'[k] <= 1
        BY <3>1, <3>3 DEF LetterInv, LetterAtMostOnce
      <3> QED
        BY <3>5, <3>6, <3>7 DEF LetterInv, LetterAtMostOnce
    <2> QED
      BY <1>20, <2>1, <2>2 DEF ClaimLetter
  <1>21. ASSUME NEW w \in Workers, Send(w)
        PROVE  LetterInv'
    <2> DEFINE j == runs[w].job
    <2>1. letters[j] = 0 /\ tasks[j].letter = "sending" /\ tasks' = tasks
      BY <1>21, <1>r DEF Send, LetterInv, HasLetter
    <2>2. /\ letters'[j] \in {0, 1} /\ \A k \in Jobs \ {j} : letters'[k] = letters[k]
          /\ runs'[w].job = j /\ runs'[w].pc = "recording"
          /\ runs'[w].outcome = "unsent" => letters'[j] = 0
          /\ runs'[w].outcome # "none"
          /\ \A u \in Workers \ {w} : runs'[u] = runs[u]
      BY <1>21, <1>r, <2>1 DEF Send, Typed, RunRec
    <2>3. \A u \in Workers \ {w} : HasLetter(runs[u]) => runs[u].job # j
      BY <1>21 DEF Send, LetterInv, HasLetter
    <2>4. ASSUME NEW u \in Workers, NEW k \in Jobs, HasLetter(runs'[u]), runs'[u].job = k
          PROVE  /\ tasks'[k].letter = "sending"
                 /\ runs'[u].pc = "sending" \/ runs'[u].outcome = "unsent" => letters'[k] = 0
                 /\ runs'[u].pc = "recording" => runs'[u].outcome # "none"
      <3>1. CASE u = w
        BY <2>1, <2>2, <2>4, <3>1
      <3>2. CASE u # w
        BY <2>1, <2>2, <2>3, <2>4, <3>2 DEF LetterInv
      <3> QED
        BY <3>1, <3>2
    <2>5. ASSUME NEW u \in Workers, NEW v \in Workers, u # v, HasLetter(runs'[u]), HasLetter(runs'[v])
          PROVE  runs'[u].job # runs'[v].job
      BY <2>2, <2>3, <2>5 DEF LetterInv
    <2>6. ASSUME NEW k \in Jobs
          PROVE  /\ tasks'[k].letter \in {"none", "unsent"} => letters'[k] = 0
                 /\ letters'[k] <= 1
      BY <2>1, <2>2 DEF LetterInv, LetterAtMostOnce
    <2> QED
      BY <2>4, <2>5, <2>6 DEF LetterInv, LetterAtMostOnce
  <1>22. ASSUME NEW w \in Workers, RecordLetter(w)
        PROVE  LetterInv'
    <2> DEFINE j == runs[w].job
    <2>1. CASE UNCHANGED tasks /\ Go(w, "failing")
      <3>1. KeepLetters
        BY <2>1, GoKeepsLetters DEF Places
      <3> QED
        BY <1>22, <2>1, <3>1, <1>t, QuietLetters DEF RecordLetter
    <2>2. CASE /\ WriteTask(w, j, [tasks[j] EXCEPT !.letter = runs[w].outcome])
               /\ Go(w, "comparing") \/ Go(w, "failing")
      <3>1. /\ tasks'[j].letter = runs[w].outcome /\ letters' = letters
            /\ \A k \in Jobs \ {j} : tasks'[k] = tasks[k]
        BY <1>22, <1>r, <1>j, <2>2 DEF RecordLetter, WriteTask, Typed, TaskRec
      <3>2. runs[w].pc = "recording" /\ runs[w].outcome # "none"
        BY <1>r, <1>22, <2>2 DEF RecordLetter, LetterInv, HasLetter
      <3>3. KeepLetters /\ ~HasLetter(runs'[w])
        BY <1>r, <2>2, GoKeepsLetters, ZenonT(40) DEF Places, Go, HasLetter, Typed, RunRec
      <3>4. \A u \in Workers : HasLetter(runs'[u]) => u # w /\ HasLetter(runs[u]) /\ runs[u].job # j
        <4>1. HasLetter(runs[w])
          BY <3>2 DEF HasLetter
        <4>2. \A u \in Workers : HasLetter(runs'[u]) => u # w /\ HasLetter(runs[u])
          BY <3>3 DEF KeepLetters, HasLetter
        <4> QED
          BY <4>1, <4>2 DEF LetterInv
      <3>5. ASSUME NEW u \in Workers, NEW k \in Jobs, HasLetter(runs'[u]), runs'[u].job = k
            PROVE  /\ tasks'[k].letter = "sending"
                   /\ runs'[u].pc = "sending" \/ runs'[u].outcome = "unsent" => letters'[k] = 0
                   /\ runs'[u].pc = "recording" => runs'[u].outcome # "none"
        BY <3>1, <3>3, <3>4, <3>5 DEF LetterInv, KeepLetters
      <3>6. ASSUME NEW u \in Workers, NEW v \in Workers, u # v, HasLetter(runs'[u]), HasLetter(runs'[v])
            PROVE  runs'[u].job # runs'[v].job
        BY <3>3, <3>4, <3>6 DEF LetterInv, KeepLetters
      <3>7. ASSUME NEW k \in Jobs
            PROVE  /\ tasks'[k].letter \in {"none", "unsent"} => letters'[k] = 0
                   /\ letters'[k] <= 1
        BY <1>r, <3>1, <3>2 DEF LetterInv, LetterAtMostOnce, HasLetter
      <3> QED
        BY <3>5, <3>6, <3>7 DEF LetterInv, LetterAtMostOnce
    <2> QED
      BY <1>22, <2>1, <2>2 DEF RecordLetter
  <1>23. ASSUME NEW j \in Jobs, Ask(j)
        PROVE  LetterInv'
    BY <1>23, <1>t, QuietLetters DEF Ask, KeepLetters
  <1>24. ASSUME NEW j \in Jobs, PutAsk(j)
        PROVE  LetterInv'
    BY <1>24, <1>t, QuietLetters DEF PutAsk, KeepLetters
  <1>25. ASSUME NEW j \in Jobs, SetCard(j)
        PROVE  LetterInv'
    BY <1>25, <1>t, QuietLetters DEF SetCard, KeepLetters
  <1>26. ASSUME NEW j \in Jobs, Edit(j)
        PROVE  LetterInv'
    BY <1>26, <1>t, QuietLetters DEF Edit, KeepLetters
  <1>27. ASSUME NEW j \in Jobs, ReleaseEvent(j)
        PROVE  LetterInv'
    BY <1>27, <1>t, QuietLetters DEF ReleaseEvent, KeepLetters
  <1>28. ASSUME NEW j \in Jobs, Accept(j)
        PROVE  LetterInv'
    BY <1>28, <1>t, QuietLetters DEF Accept, KeepLetters
  <1>29. ASSUME NEW j \in Jobs, AcceptReads(j)
        PROVE  LetterInv'
    BY <1>29, <1>t, QuietLetters DEF AcceptReads, KeepLetters
  <1>30. ASSUME NEW j \in Jobs, AcceptResolves(j)
        PROVE  LetterInv'
    <2>1. [tasks[j] EXCEPT !.status = "done"].letter = tasks[j].letter
      BY <1>j DEF TaskRec
    <2>2. \A k \in Jobs : tasks'[k].letter = tasks[k].letter
      BY <1>30, <2>1 DEF AcceptResolves, Resolves, WriteTask, Typed
    <2> QED
      BY <1>30, <2>2, <1>t, QuietLetters DEF AcceptResolves, KeepLetters
  <1> QED
    BY <1>1, <1>2, <1>3, <1>4, <1>4a, <1>5, <1>6, <1>7, <1>8, <1>9, <1>10, <1>11, <1>12, <1>13, <1>14, <1>15, <1>16, <1>17, <1>18, <1>19, <1>20, <1>21, <1>22, <1>23, <1>24, <1>25, <1>26, <1>27, <1>28, <1>29, <1>30 DEF Next, Work

-----------------------------------------------------------------------------
Reserving == {"choosing", "proposing"}

\* Whoever goes on to show an event to the guest knows its time.
Knows(u) == events[runs[u].job].status # "none" /\ events[runs[u].job].slot = runs[u].slot

\* No event takes a time but one proposed again, none is forgotten, and nobody
\* takes up reserving a time.
KeepSlots ==
  /\ \A j \in Jobs : Active(events'[j]) /\ ~events'[j].again =>
       Active(events[j]) /\ ~events[j].again /\ events'[j].slot = events[j].slot
  /\ \A j \in Jobs : events[j].status # "none" =>
       events'[j].status # "none" /\ events'[j].slot = events[j].slot
  /\ \A j \in Jobs : missed[j] \subseteq missed'[j]
  /\ \A u \in Workers : runs'[u].pc \in Reserving =>
       /\ alloc = u => alloc' = u
       /\ runs[u].pc = runs'[u].pc /\ runs[u].job = runs'[u].job /\ runs[u].slot = runs'[u].slot
  /\ \A u \in Workers : runs'[u].pc = "notifying" =>
       \/ runs[u].pc = "notifying" /\ runs[u].job = runs'[u].job /\ runs[u].slot = runs'[u].slot
       \/ Knows(u)'

LEMMA QuietSlots ==
  ASSUME Typed, SlotInv, KeepSlots
  PROVE  SlotInv'
  <1>1. ASSUME NEW w \in Workers, runs'[w].pc \in Reserving
        PROVE  alloc' = w
    BY <1>1 DEF SlotInv, KeepSlots, Reserving
  <1>2. ASSUME NEW w \in Workers, NEW k \in Jobs, runs'[w].pc = "proposing", k # runs'[w].job,
               Active(events'[k]), events'[k].slot = runs'[w].slot, ~events'[k].again
        PROVE  k \in missed'[runs'[w].job]
    <2>1. /\ runs[w].pc = "proposing" /\ runs[w].job = runs'[w].job /\ runs[w].slot = runs'[w].slot
          /\ runs[w].job \in Jobs
      BY <1>2 DEF KeepSlots, Reserving, Typed, RunRec
    <2>2. Active(events[k]) /\ ~events[k].again /\ events'[k].slot = events[k].slot
      BY <1>2 DEF KeepSlots
    <2>3. k \in missed[runs[w].job]
      BY <1>2, <2>1, <2>2 DEF SlotInv
    <2> QED
      BY <2>1, <2>3 DEF KeepSlots
  <1>3. ASSUME NEW w \in Workers, runs'[w].pc = "notifying"
        PROVE  Knows(w)'
    <2>1. CASE runs[w].pc = "notifying" /\ runs[w].job = runs'[w].job /\ runs[w].slot = runs'[w].slot
      <3>1. runs[w].job \in Jobs /\ Knows(w)
        BY <2>1 DEF Typed, RunRec, SlotInv, Knows
      <3> QED
        BY <2>1, <3>1 DEF KeepSlots, Knows
    <2> QED
      BY <1>3, <2>1 DEF KeepSlots
  <1>4. ASSUME NEW j \in Jobs, NEW k \in Jobs, Clash(j, k)', ~events'[j].again, ~events'[k].again
        PROVE  k \in missed'[j] \/ j \in missed'[k]
    <2>1. Clash(j, k) /\ ~events[j].again /\ ~events[k].again
      BY <1>4 DEF KeepSlots, Clash
    <2>2. k \in missed[j] \/ j \in missed[k]
      BY <2>1 DEF SlotInv, ClashesAreUnseenOrAgain
    <2> QED
      BY <2>2 DEF KeepSlots
  <1> QED
    BY <1>1, <1>2, <1>3, <1>4 DEF SlotInv, ClashesAreUnseenOrAgain, Reserving, Knows

LEMMA GoKeepsSlots ==
  ASSUME Typed, NEW w \in Workers, NEW pc \in Places \ {"choosing", "proposing", "notifying"},
         Go(w, pc), alloc' = alloc \/ alloc = w, UNCHANGED <<events, missed>>
  PROVE  KeepSlots
  BY DEF Typed, Go, KeepSlots, RunRec, Reserving

LEMMA LeftKeepsSlots ==
  ASSUME Typed, NEW w \in Workers, Left(w), alloc' = alloc \/ alloc = w,
         UNCHANGED <<events, missed>>
  PROVE  KeepSlots
  <1>1. ASSUME NEW u \in Workers, runs'[u].pc \in Reserving \cup {"notifying"}
        PROVE  /\ alloc = u => alloc' = u
               /\ runs[u].pc = runs'[u].pc /\ runs[u].job = runs'[u].job /\ runs[u].slot = runs'[u].slot
    <2>1. u # w
      BY <1>1 DEF Left, Asleep, Reserving
    <2>2. runs'[u] = [runs[u] EXCEPT !.lease = Ended(w, @)] /\ runs[u] \in RunRec
      BY <2>1 DEF Left, Typed
    <2> QED
      BY <2>1, <2>2 DEF RunRec
  <1> QED
    BY <1>1 DEF KeepSlots

\* Others go on as they were, events keep their times, and whoever shows an event
\* knows its time.
LEMMA MovedKeepsSlots ==
  ASSUME Typed, NEW w \in Workers, UNCHANGED <<alloc, missed>>,
         \A u \in Workers \ {w} : runs'[u] = runs[u],
         runs'[w].pc \notin Reserving, runs'[w].pc = "notifying" => Knows(w)',
         \A j \in Jobs : /\ Active(events'[j]) /\ ~events'[j].again =>
                              Active(events[j]) /\ ~events[j].again
                         /\ events[j].status # "none" => events'[j].status # "none"
                         /\ events[j].status # "none" => events'[j].slot = events[j].slot
  PROVE  KeepSlots
  <1>1. \A j \in Jobs : Active(events[j]) => events[j].status # "none"
    BY DEF Active
  <1> QED
    BY <1>1 DEF KeepSlots

\* The shared lease keeps times apart, whatever a step does.
LEMMA SlotStep ==
  ASSUME Typed, SlotInv, [Next]_vars
  PROVE  SlotInv'
  <1> USE DEF rows, counts
  <1>r. ASSUME NEW w \in Workers
        PROVE  runs[w] \in RunRec /\ runs[w].job \in Jobs
    BY DEF Typed, RunRec
  <1>j. ASSUME NEW j \in Jobs
        PROVE  events[j] \in EventRec
    BY DEF Typed
  <1>1. CASE UNCHANGED vars
    BY <1>1, QuietSlots DEF vars, KeepSlots, Knows
  <1>2. ASSUME NEW w \in Workers, Resume(w) \/ Stream(w)
        PROVE  SlotInv'
    <2>1. PICK j \in Jobs : Wake(w, j)
      BY <1>2 DEF Resume, Stream
    <2>2. KeepSlots
      BY <2>1 DEF Wake, KeepSlots, Asleep, Typed, Reserving
    <2> QED
      BY <2>2, QuietSlots
  <1>3. ASSUME NEW w \in Workers, Claim(w)
        PROVE  SlotInv'
    <2>1. KeepSlots
      BY <1>3, GoKeepsSlots DEF Claim, Places
    <2> QED
      BY <2>1, QuietSlots
  <1>4. ASSUME NEW w \in Workers, ClaimLetter(w)
        PROVE  SlotInv'
    <2>1. KeepSlots
      BY <1>4, GoKeepsSlots DEF ClaimLetter, Places
    <2> QED
      BY <2>1, QuietSlots
  <1>5. ASSUME NEW w \in Workers, RecordLetter(w)
        PROVE  SlotInv'
    <2>1. KeepSlots
      BY <1>5, GoKeepsSlots DEF RecordLetter, Places
    <2> QED
      BY <2>1, QuietSlots
  <1>6. ASSUME NEW w \in Workers, Compare(w)
        PROVE  SlotInv'
    <2>1. KeepSlots
      BY <1>6, GoKeepsSlots DEF Compare, Places
    <2> QED
      BY <2>1, QuietSlots
  <1>7. ASSUME NEW w \in Workers, LookAtEvent(w)
        PROVE  SlotInv'
    <2>1. KeepSlots
      BY <1>7, GoKeepsSlots DEF LookAtEvent, Places
    <2> QED
      BY <2>1, QuietSlots
  <1>8. ASSUME NEW w \in Workers, Waiting(w)
        PROVE  SlotInv'
    <2>1. KeepSlots
      BY <1>8, GoKeepsSlots DEF Waiting, Places
    <2> QED
      BY <2>1, QuietSlots
  <1>9. ASSUME NEW w \in Workers, Resolving(w)
        PROVE  SlotInv'
    <2>1. KeepSlots
      BY <1>9, GoKeepsSlots DEF Resolving, Places
    <2> QED
      BY <2>1, QuietSlots
  <1>10. ASSUME NEW w \in Workers, Finish(w)
        PROVE  SlotInv'
    <2>1. KeepSlots
      BY <1>10, GoKeepsSlots DEF Finish, Places
    <2> QED
      BY <2>1, QuietSlots
  <1>11. ASSUME NEW w \in Workers, Fail(w)
        PROVE  SlotInv'
    <2>1. KeepSlots
      BY <1>11, GoKeepsSlots DEF Fail, Places
    <2> QED
      BY <2>1, QuietSlots
  <1>12. ASSUME NEW w \in Workers, LoseLease(w)
        PROVE  SlotInv'
    <2>1. KeepSlots
      BY <1>12, GoKeepsSlots DEF LoseLease, Places
    <2> QED
      BY <2>1, QuietSlots
  <1>13. ASSUME NEW w \in Workers, Hold(w)
        PROVE  SlotInv'
    <2>1. KeepSlots
      BY <1>13, GoKeepsSlots DEF Hold, Places
    <2> QED
      BY <2>1, QuietSlots
  <1>14. ASSUME NEW w \in Workers, Close(w)
        PROVE  SlotInv'
    <2>1. KeepSlots
      BY <1>14, LeftKeepsSlots DEF Close, Ended
    <2> QED
      BY <2>1, QuietSlots
  <1>15. ASSUME NEW w \in Workers, Crash(w)
        PROVE  SlotInv'
    <2>1. KeepSlots
      BY <1>15, LeftKeepsSlots DEF Crash, Ended
    <2> QED
      BY <2>1, QuietSlots
  <1>16. ASSUME NEW w \in Workers, Look(w)
        PROVE  SlotInv'
    <2> DEFINE row == jobs[runs[w].job]
               Moved(pc) == [runs[w] EXCEPT !.pc = pc, !.skip = row.skip,
                               !.retryable = row.retryable, !.lease = row.lease]
    <2>1. Moved("closing").pc = "closing" /\ Moved("reserving").pc = "reserving"
      BY <1>r DEF RunRec
    <2>2. runs' = [runs EXCEPT ![w] = Moved("closing")] \/ runs' = [runs EXCEPT ![w] = Moved("reserving")]
      BY <1>16 DEF Look
    <2> HIDE DEF Moved
    <2>3. runs'[w].pc \in {"closing", "reserving"} /\ \A u \in Workers \ {w} : runs'[u] = runs[u]
      BY <2>1, <2>2 DEF Typed
    <2>4. KeepSlots
      BY <1>16, <2>3, MovedKeepsSlots DEF Look, Reserving
    <2> QED
      BY <2>4, QuietSlots
  <1>17. ASSUME NEW w \in Workers, Send(w)
        PROVE  SlotInv'
    <2>1. runs'[w].pc = "recording" /\ \A u \in Workers \ {w} : runs'[u] = runs[u]
      BY <1>r, <1>17 DEF Send, Typed, RunRec
    <2>2. KeepSlots
      BY <1>17, <2>1, MovedKeepsSlots DEF Send, Reserving
    <2> QED
      BY <2>2, QuietSlots
  <1>18. ASSUME NEW w \in Workers, Reserve(w)
        PROVE  SlotInv'
    <2>1. CASE runs' = [runs EXCEPT ![w].pc = "notifying", ![w].slot = events[runs[w].job].slot]
      <3>1. /\ runs'[w].pc = "notifying" /\ runs'[w].job = runs[w].job
            /\ runs'[w].slot = events[runs[w].job].slot
            /\ \A u \in Workers \ {w} : runs'[u] = runs[u]
        BY <1>r, <2>1 DEF Typed, RunRec
      <3>2. events[runs[w].job].status # "none" /\ events' = events
        BY <1>r, <1>18, <3>1 DEF Reserve, Active, Go, Typed, RunRec
      <3>3. KeepSlots
        BY <1>18, <3>1, <3>2, MovedKeepsSlots DEF Reserve, Knows, Reserving
      <3> QED
        BY <3>3, QuietSlots
    <2>2. CASE \E pc \in Places \ {"choosing", "proposing", "notifying"} : Go(w, pc)
      <3>1. KeepSlots
        BY <1>18, <2>2, GoKeepsSlots DEF Reserve
      <3> QED
        BY <3>1, QuietSlots
    <2> QED
      BY <1>18, <2>1, <2>2 DEF Reserve, Places
  <1>18a. ASSUME NEW w \in Workers, Notify(w)
        PROVE  SlotInv'
    <2> DEFINE j == runs[w].job
               e == events[j]
               Told == [status |-> "proposed", slot |-> runs[w].slot, pending |-> TRUE,
                        told |-> TRUE, shown |-> e.shown,
                        again |-> e.again \/ e.status = "released"]
    <2>1. CASE events' = events
      <3>1. KeepSlots
        BY <1>18a, <2>1, GoKeepsSlots DEF Notify, Places
      <3> QED
        BY <3>1, QuietSlots
    <2>2. CASE events' = [events EXCEPT ![j] = Told]
      \* It keeps its time, and one that was released is proposed again.
      <3>1. j \in Jobs /\ Knows(w) /\ e.status \in {"none", "proposed", "approved", "released"}
        BY <1>r, <1>j, <1>18a DEF Notify, SlotInv, Knows, EventRec
      <3>2. /\ events'[j].status = "proposed" /\ events'[j].slot = e.slot
            /\ events'[j].again = (e.again \/ e.status = "released")
            /\ \A k \in Jobs \ {j} : events'[k] = events[k]
        BY <2>2, <3>1 DEF Typed, Knows
      <3>3. ASSUME NEW k \in Jobs
            PROVE  /\ Active(events'[k]) /\ ~events'[k].again => Active(events[k]) /\ ~events[k].again
                   /\ events[k].status # "none" =>
                        events'[k].status # "none" /\ events'[k].slot = events[k].slot
        <4>1. CASE k = j
          BY <3>1, <3>2, <4>1 DEF Active, Knows
        <4>2. CASE k # j
          BY <3>2, <4>2
        <4> QED
          BY <4>1, <4>2
      <3>4. runs'[w].pc \in {"syncing", "failing"} /\ \A u \in Workers \ {w} : runs'[u] = runs[u]
        BY <1>r, <1>18a DEF Notify, Go, Typed, RunRec
      <3>5. KeepSlots
        BY <1>18a, <3>3, <3>4, MovedKeepsSlots DEF Notify, Reserving
      <3> QED
        BY <3>5, QuietSlots
    <2> QED
      BY <1>18a, <2>1, <2>2 DEF Notify
  <1>19. ASSUME NEW w \in Workers, Sync(w)
        PROVE  SlotInv'
    <2> DEFINE j == runs[w].job
               Shown == [events[j] EXCEPT !.pending = FALSE, !.shown = TRUE]
    <2>1. events[j] \in EventRec /\ j \in Jobs
      BY <1>r, <1>j
    <2>2. /\ Shown.status = events[j].status /\ Shown.slot = events[j].slot
          /\ Shown.again = events[j].again
      BY <2>1 DEF EventRec
    <2>3. events' = events \/ events' = [events EXCEPT ![j] = Shown]
      BY <1>19 DEF Sync
    <2> HIDE DEF Shown
    <2>4. \A k \in Jobs : /\ events'[k].status = events[k].status
                          /\ events'[k].slot = events[k].slot /\ events'[k].again = events[k].again
      BY <2>1, <2>2, <2>3 DEF Typed
    <2>5. /\ \A u \in Workers \ {w} : runs'[u] = runs[u]
          /\ runs'[w].pc \notin Reserving
          /\ runs'[w].pc = "notifying" => Knows(w)'
      <3>1. CASE runs' = [runs EXCEPT ![w].pc = "notifying", ![w].slot = events[j].slot]
        <4>1. /\ runs'[w].pc = "notifying" /\ runs'[w].job = j /\ runs'[w].slot = events[j].slot
              /\ \A u \in Workers \ {w} : runs'[u] = runs[u]
          BY <1>r, <3>1 DEF Typed, RunRec
        <4>2. events[j].status # "none"
          BY <1>r, <1>19, <4>1 DEF Sync, Go, Typed, RunRec
        <4> QED
          BY <2>1, <2>4, <4>1, <4>2 DEF Knows, Reserving
      <3>2. CASE \E pc \in {"holding", "failing"} : Go(w, pc)
        BY <1>r, <3>2 DEF Go, Typed, RunRec, Reserving
      <3> QED
        BY <1>19, <3>1, <3>2 DEF Sync
    <2>6. KeepSlots
      BY <1>19, <2>4, <2>5, MovedKeepsSlots DEF Sync, Active
    <2> QED
      BY <2>6, QuietSlots
  <1>20. ASSUME NEW w \in Workers, Allot(w)
        PROVE  SlotInv'
    <2>1. CASE AllocatorIsFree(alloc)
      \* Whoever is choosing or proposing has the lease, so it is not free.
      <3>1. \A u \in Workers : runs[u].pc \notin {"choosing", "proposing"}
        BY <2>1, GuestAssumption DEF AllocatorIsFree, SlotInv
      <3>2. /\ alloc' = w /\ runs'[w].pc = "choosing"
            /\ \A u \in Workers \ {w} : runs'[u] = runs[u]
        BY <1>20, <1>r, <2>1 DEF Allot, Go, Typed, RunRec
      <3>3. events' = events
        BY <1>20 DEF Allot
      <3>4. missed' = missed
        BY <1>20 DEF Allot
      <3> QED
        BY <3>1, <3>2, <3>3, <3>4 DEF SlotInv, ClashesAreUnseenOrAgain, Clash
    <2>2. CASE ~AllocatorIsFree(alloc)
      <3>1. KeepSlots
        BY <1>20, <2>2, GoKeepsSlots DEF Allot, Places
      <3> QED
        BY <3>1, QuietSlots
    <2> QED
      BY <2>1, <2>2
  <1>21. ASSUME NEW w \in Workers, Choose(w)
        PROVE  SlotInv'
    <2> DEFINE j == runs[w].job
    <2>1. CASE Go(w, "failing") /\ UNCHANGED missed
      <3>1. KeepSlots
        BY <1>21, <2>1, GoKeepsSlots DEF Choose, Places
      <3> QED
        BY <3>1, QuietSlots
    <2>2. CASE \E behind \in SUBSET (Jobs \ {j}) : \E s \in Slots \ Taken(j, behind) :
                 /\ runs' = [runs EXCEPT ![w].pc = "proposing", ![w].slot = s]
                 /\ missed' = [missed EXCEPT ![j] = @ \cup Unseen(j, behind)]
      <3>1. PICK behind \in SUBSET (Jobs \ {j}) : \E s \in Slots \ Taken(j, behind) :
              /\ runs' = [runs EXCEPT ![w].pc = "proposing", ![w].slot = s]
              /\ missed' = [missed EXCEPT ![j] = @ \cup Unseen(j, behind)]
        BY <2>2
      <3>2. PICK s \in Slots \ Taken(j, behind) :
              /\ runs' = [runs EXCEPT ![w].pc = "proposing", ![w].slot = s]
              /\ missed' = [missed EXCEPT ![j] = @ \cup Unseen(j, behind)]
        BY <3>1
      <3>3. /\ runs'[w].pc = "proposing" /\ runs'[w].slot = s /\ runs'[w].job = j
            /\ \A u \in Workers \ {w} : runs'[u] = runs[u]
        BY <1>r, <3>2 DEF Typed, RunRec
      <3>4. alloc = w /\ alloc' = alloc /\ events' = events
        BY <1>21 DEF Choose, SlotInv
      <3>5. j \in Jobs /\ missed'[j] = missed[j] \cup Unseen(j, behind)
            /\ \A k \in Jobs : missed[k] \subseteq missed'[k]
        BY <1>r, <3>2 DEF Typed
      <3>6. \A u \in Workers : runs'[u].pc \in Reserving => u = w
        BY <3>3, <3>4 DEF SlotInv, Reserving
      \* The time is free of every proposal that was seen.
      <3>7. ASSUME NEW k \in Jobs, k # j, Active(events[k]), events[k].slot = s
            PROVE  k \in missed'[j]
        <4>1. k \in Unseen(j, behind)
          BY <3>2, <3>7 DEF Taken
        <4> QED
          BY <3>5, <4>1
      <3>8. ASSUME NEW u \in Workers, NEW k \in Jobs, runs'[u].pc = "proposing", k # runs'[u].job,
                   Active(events'[k]), events'[k].slot = runs'[u].slot
            PROVE  k \in missed'[runs'[u].job]
        BY <3>3, <3>4, <3>6, <3>7, <3>8 DEF Reserving
      <3>9. ASSUME NEW u \in Workers, runs'[u].pc = "notifying"
            PROVE  Knows(u)'
        BY <3>3, <3>4, <3>9 DEF SlotInv, Knows
      <3>10. ClashesAreUnseenOrAgain'
        <4>1. ASSUME NEW i \in Jobs, NEW k \in Jobs, Clash(i, k)'
              PROVE  k \in missed'[i] \/ i \in missed'[k] \/ events'[i].again \/ events'[k].again
          <5>1. Clash(i, k)
            BY <3>4, <4>1 DEF Clash
          <5> QED
            BY <3>4, <3>5, <5>1 DEF SlotInv, ClashesAreUnseenOrAgain
        <4> QED
          BY <4>1 DEF ClashesAreUnseenOrAgain
      <3> QED
        BY <3>4, <3>6, <3>8, <3>9, <3>10 DEF SlotInv, Reserving, Knows
    <2> QED
      BY <1>21, <2>1, <2>2 DEF Choose
  <1>22. ASSUME NEW w \in Workers, Propose(w)
        PROVE  SlotInv'
    <2> DEFINE j == runs[w].job
               New == [NoEvent EXCEPT !.status = "proposed", !.slot = runs[w].slot,
                                      !.pending = TRUE, !.told = Tells(w)]
    <2>1. CASE Go(w, "failing") /\ UNCHANGED events
      <3>1. KeepSlots
        BY <1>22, <2>1, GoKeepsSlots DEF Propose, Places
      <3> QED
        BY <3>1, QuietSlots
    <2>2. CASE events[j].status = "none" /\ events' = [events EXCEPT ![j] = New] /\ Go(w, "syncing")
      \* Nobody else holds the lease, so nobody else has a time to propose.
      <3>1. alloc = w /\ alloc' = alloc /\ missed' = missed /\ runs[w].pc = "proposing" /\ j \in Jobs
        BY <1>22, <1>r DEF Propose, SlotInv
      <3>2. /\ runs'[w].pc = "syncing" /\ \A u \in Workers \ {w} : runs'[u] = runs[u]
            /\ \A u \in Workers : runs'[u].pc \notin Reserving
        BY <1>r, <2>2, <3>1 DEF SlotInv, Typed, RunRec, Reserving, Go
      <3>3. events'[j] = New /\ \A k \in Jobs \ {j} : events'[k] = events[k]
        BY <2>2, <3>1 DEF Typed
      <3>3a. New.slot = runs[w].slot
        BY DEF NoEvent
      <3>4. ASSUME NEW k \in Jobs, k # j, Active(events[k]), events[k].slot = events'[j].slot
            PROVE  k \in missed[j] \/ events[k].again
        BY <3>1, <3>3, <3>3a, <3>4 DEF SlotInv
      <3>5. ClashesAreUnseenOrAgain'
        <4>1. ASSUME NEW i \in Jobs, NEW k \in Jobs, Clash(i, k)'
              PROVE  k \in missed'[i] \/ i \in missed'[k] \/ events'[i].again \/ events'[k].again
          <5>1. CASE i = j
            BY <3>1, <3>3, <3>4, <4>1, <5>1 DEF Clash
          <5>2. CASE k = j
            BY <3>1, <3>3, <3>4, <4>1, <5>2 DEF Clash
          <5>3. CASE i # j /\ k # j
            <6>1. Clash(i, k)
              BY <3>3, <4>1, <5>3 DEF Clash
            <6> QED
              BY <3>1, <3>3, <5>3, <6>1 DEF SlotInv, ClashesAreUnseenOrAgain
          <5> QED
            BY <5>1, <5>2, <5>3
        <4> QED
          BY <4>1 DEF ClashesAreUnseenOrAgain
      <3>6. ASSUME NEW u \in Workers, runs'[u].pc = "notifying"
            PROVE  Knows(u)'
        <4>1. runs'[u] = runs[u] /\ Knows(u) /\ runs[u].job \in Jobs
          BY <1>r, <3>2, <3>6 DEF SlotInv, Knows
        <4>2. runs[u].job # j
          BY <2>2, <4>1 DEF Knows
        <4> QED
          BY <3>3, <4>1, <4>2 DEF Knows
      <3> QED
        BY <3>2, <3>5, <3>6 DEF SlotInv, Reserving, Knows
    <2> QED
      BY <1>22, <2>1, <2>2 DEF Propose
  <1>23. ASSUME NEW j \in Jobs, Ask(j)
        PROVE  SlotInv'
    <2>1. KeepSlots
      BY <1>23 DEF Ask, KeepSlots
    <2> QED
      BY <2>1, QuietSlots
  <1>24. ASSUME NEW j \in Jobs, PutAsk(j)
        PROVE  SlotInv'
    <2>1. KeepSlots
      BY <1>24 DEF PutAsk, KeepSlots
    <2> QED
      BY <2>1, QuietSlots
  <1>25. ASSUME NEW j \in Jobs, SetCard(j)
        PROVE  SlotInv'
    <2>1. KeepSlots
      BY <1>25 DEF SetCard, KeepSlots
    <2> QED
      BY <2>1, QuietSlots
  <1>26. ASSUME NEW j \in Jobs, Edit(j)
        PROVE  SlotInv'
    <2>1. KeepSlots
      BY <1>26 DEF Edit, KeepSlots
    <2> QED
      BY <2>1, QuietSlots
  <1>27. ASSUME NEW j \in Jobs, AcceptReads(j)
        PROVE  SlotInv'
    <2>1. KeepSlots
      BY <1>27 DEF AcceptReads, KeepSlots
    <2> QED
      BY <2>1, QuietSlots
  <1>28. ASSUME NEW j \in Jobs, AcceptResolves(j)
        PROVE  SlotInv'
    <2>1. KeepSlots
      BY <1>28 DEF AcceptResolves, KeepSlots
    <2> QED
      BY <2>1, QuietSlots
  <1>29. ASSUME NEW j \in Jobs, ReleaseEvent(j)
        PROVE  SlotInv'
    <2> DEFINE Then == [events[j] EXCEPT !.status = "released", !.shown = FALSE]
    <2>1. Then.slot = events[j].slot /\ Then.again = events[j].again /\ Then.status = "released"
      BY <1>j DEF EventRec
    <2>2. events'[j] = Then /\ \A k \in Jobs \ {j} : events'[k] = events[k]
      BY <1>29 DEF ReleaseEvent, Typed
    <2>3. UNCHANGED <<runs, alloc, missed>> /\ Active(events[j])
      BY <1>29 DEF ReleaseEvent, Active
    <2> HIDE DEF Then
    <2>4. KeepSlots
      BY <2>1, <2>2, <2>3 DEF KeepSlots, Active
    <2> QED
      BY <2>4, QuietSlots
  <1>30. ASSUME NEW j \in Jobs, Accept(j)
        PROVE  SlotInv'
    <2> DEFINE Then == [events[j] EXCEPT !.status = "approved"]
    <2>1. Then.slot = events[j].slot /\ Then.again = events[j].again /\ Then.status = "approved"
      BY <1>j DEF EventRec
    <2>2. events'[j] = Then /\ \A k \in Jobs \ {j} : events'[k] = events[k]
      BY <1>30 DEF Accept, Typed
    <2>3. UNCHANGED <<runs, alloc, missed>> /\ Active(events[j])
      BY <1>30 DEF Accept, Active
    <2> HIDE DEF Then
    <2>4. KeepSlots
      BY <2>1, <2>2, <2>3 DEF KeepSlots, Active
    <2> QED
      BY <2>4, QuietSlots
  <1> QED
    BY <1>1, <1>2, <1>3, <1>4, <1>5, <1>6, <1>7, <1>8, <1>9, <1>10, <1>11, <1>12, <1>13, <1>14, <1>15, <1>16, <1>17, <1>18, <1>18a, <1>19, <1>20, <1>21, <1>22, <1>23, <1>24, <1>25, <1>26, <1>27, <1>28, <1>29, <1>30 DEF Next, Work

-----------------------------------------------------------------------------
LEMMA GuestInit ==
  ASSUME Init
  PROVE  GInv
  <1>1. Typed
    <2>1. ASSUME NEW j \in Jobs
          PROVE  [status |-> "queued", skip |-> j \in Skipping, retryable |-> TRUE,
                  lease |-> Free] \in JobRec
      <3>1. (j \in Skipping) \in BOOLEAN
        OBVIOUS
      <3> QED
        BY <3>1 DEF JobRec, Resumable, Leases
    <2>1a. Asleep \in RunRec
      BY AsleepIsARun, GuestAssumption
    <2>2. NoEvent \in EventRec
      BY DEF EventRec, NoEvent
    <2>3. [status |-> "todo", letter |-> "none"] \in TaskRec
      BY DEF TaskRec
    <2>4. Free \in Leases
      BY DEF Leases
    <2> QED
      BY <2>1, <2>1a, <2>2, <2>3, <2>4 DEF Init, Typed
  <1>2. LetterInv
    BY DEF Init, LetterInv, LetterAtMostOnce, HasLetter, Asleep
  <1>3. SlotInv
    BY DEF Init, SlotInv, ClashesAreUnseenOrAgain, Clash, Active, NoEvent, Asleep
  <1> QED
    BY <1>1, <1>2, <1>3 DEF GInv

LEMMA GuestStep ==
  ASSUME GInv, [Next]_vars
  PROVE  GInv'
  BY TypedStep, LetterStep, SlotStep DEF GInv

(* The inductive invariant of guest intake holds in every behaviour.        *)
THEOREM IntakeIsSound == Spec => []GInv
  <1> QED
    BY GuestInit, GuestStep, PTL DEF Spec

(* Nobody is sent the first letter twice (guestFirstContactDelivery.ts).    *)
THEOREM OneLetter == Spec => []LetterAtMostOnce
  <1>1. GInv => LetterAtMostOnce
    BY DEF GInv, LetterInv
  <1> QED
    BY <1>1, IntakeIsSound, PTL

(* Two Cards come to have one time only if the search for the one did not   *)
(* see the other, proposed but not in Google's calendars yet, or if one was *)
(* released and proposed again (guestIntakeAllocator.ts).                   *)
THEOREM AllocatorKeepsTimesApart == Spec => []ClashesAreUnseenOrAgain
  <1>1. GInv => ClashesAreUnseenOrAgain
    BY DEF GInv, SlotInv
  <1> QED
    BY <1>1, IntakeIsSound, PTL

-----------------------------------------------------------------------------
(* What is left of GuestTypeOK: the jobs stay listed, each once, in the     *)
(* order they were last written in, and the rest are types of their own.    *)
Ordered(s) ==
  /\ s \in Seq(Jobs) /\ Len(s) = Cardinality(Jobs)
  /\ \A j \in Jobs : \E i \in DOMAIN s : s[i] = j

Aside ==
  /\ cards \in [Jobs -> {"active", "parked", "archived"}]
  /\ current \in [Jobs -> SUBSET (Workers \cup {Guest})]
  /\ accepted \in [Jobs -> {"no", "approved", "read", "over"}]
  /\ faults \in 0..MaxFaults /\ acts \in 0..MaxActs

\* Sequence w is s with u after it.
Joins(w, s, u, S) ==
  /\ w \in Seq(S) /\ Len(w) = Len(s) + Len(u)
  /\ \A i \in 1..Len(s) : w[i] = s[i]
  /\ \A i \in 1..Len(u) : w[Len(s) + i] = u[i]

LEMMA Joined ==
  ASSUME NEW S, NEW s \in Seq(S), NEW u \in Seq(S)
  PROVE  Joins(s \o u, s, u, S)
  BY DEF Joins

\* A job that is written moves to the end of the order and no other is lost.
LEMMA LatestIsOrdered ==
  ASSUME Ordered(order), NEW j \in Jobs
  PROVE  Ordered(Latest(j))
  <1> DEFINE at == CHOOSE i \in DOMAIN order : order[i] = j
             n == Len(order)
             old == SubSeq(order, 1, at - 1)
             new == SubSeq(order, at + 1, n)
  <1>1. order \in Seq(Jobs) /\ n \in Nat /\ DOMAIN order = 1..n /\ n = Cardinality(Jobs)
    BY DEF Ordered
  <1>2. at \in 1..n /\ order[at] = j
    BY <1>1 DEF Ordered
  <1> HIDE DEF at, n
  <1>3. /\ old \in Seq(Jobs) /\ Len(old) = at - 1
        /\ \A i \in 1..(at - 1) : old[i] = order[i]
    BY <1>1, <1>2 DEF n
  <1>4. /\ new \in Seq(Jobs) /\ Len(new) = n - at
        /\ \A i \in 1..(n - at) : new[i] = order[at + i]
    BY <1>1, <1>2 DEF n
  <1> HIDE DEF old, new
  <1> DEFINE both == old \o new
  <1>5a. /\ both \in Seq(Jobs) /\ Len(both) = n - 1
         /\ \A i \in 1..(at - 1) : both[i] = order[i]
         /\ \A i \in 1..(n - at) : both[at - 1 + i] = order[at + i]
    <2>a. old \in Seq(Jobs) /\ new \in Seq(Jobs)
      BY <1>3, <1>4
    <2>b. Joins(both, old, new, Jobs)
      BY <2>a, Joined
    <2> HIDE DEF both
    <2>0. /\ both \in Seq(Jobs) /\ Len(both) = Len(old) + Len(new)
          /\ \A i \in 1..Len(old) : both[i] = old[i]
          /\ \A i \in 1..Len(new) : both[Len(old) + i] = new[i]
      BY <2>b DEF Joins
    <2>1. both \in Seq(Jobs) /\ Len(both) = n - 1
      BY <1>1, <1>2, <1>3, <1>4, <2>0
    <2>2. ASSUME NEW i \in 1..(at - 1) PROVE both[i] = order[i]
      BY <1>3, <2>0
    <2>3. ASSUME NEW i \in 1..(n - at) PROVE both[at - 1 + i] = order[at + i]
      BY <1>3, <1>4, <2>0
    <2> QED BY <2>1, <2>2, <2>3
  <1> HIDE DEF both
  <1>5. /\ both \o <<j>> \in Seq(Jobs) /\ Len(both \o <<j>>) = n
        /\ \A i \in 1..(at - 1) : (both \o <<j>>)[i] = order[i]
        /\ \A i \in 1..(n - at) : (both \o <<j>>)[at - 1 + i] = order[at + i]
        /\ (both \o <<j>>)[n] = j
    <2> DEFINE last == <<j>>
    <2>0. last \in Seq(Jobs) /\ Len(last) = 1 /\ last[1] = j
      OBVIOUS
    <2> HIDE DEF last
    <2> DEFINE all == both \o last
    <2>0a. Joins(all, both, last, Jobs)
      BY <1>5a, <2>0, Joined
    <2> HIDE DEF all
    <2>0b. /\ all \in Seq(Jobs) /\ Len(all) = n /\ all[n] = j
           /\ \A i \in 1..(n - 1) : all[i] = both[i]
      <3>1. /\ all \in Seq(Jobs) /\ Len(all) = Len(both) + Len(last)
            /\ \A i \in 1..Len(both) : all[i] = both[i]
            /\ \A i \in 1..Len(last) : all[Len(both) + i] = last[i]
        BY <2>0a DEF Joins
      <3>2. Len(both) = n - 1 /\ n \in Nat /\ Len(last) = 1
        BY <1>1, <1>5a, <2>0
      <3>3. Len(both) + 1 = n /\ 1 \in 1..Len(last)
        BY <3>2
      <3> QED BY <2>0, <3>1, <3>2, <3>3
    <2>1. both \o <<j>> \in Seq(Jobs) /\ Len(both \o <<j>>) = n
      BY <2>0b, Zenon DEF all, last
    <2>1a. (both \o <<j>>)[n] = j
      BY <2>0b, Zenon DEF all, last
    <2>2. \A i \in 1..(n - 1) : (both \o <<j>>)[i] = both[i]
      BY <2>0b, Zenon DEF all, last
    <2>3. ASSUME NEW i \in 1..(n - at)
          PROVE  (both \o <<j>>)[at - 1 + i] = order[at + i]
      <3>1. at - 1 + i \in 1..(n - 1)
        BY <1>1, <1>2
      <3> QED BY <1>5a, <2>2, <3>1
    <2>4. ASSUME NEW i \in 1..(at - 1)
          PROVE  (both \o <<j>>)[i] = order[i]
      <3>1. i \in 1..(n - 1)
        BY <1>1, <1>2
      <3> QED BY <1>5a, <2>2, <3>1
    <2> QED BY <2>1, <2>1a, <2>3, <2>4
  <1>6. Latest(j) = both \o <<j>>
    BY DEF Latest, both, old, new, at, n
  <1>7. Latest(j) \in Seq(Jobs) /\ Len(Latest(j)) = n /\ DOMAIN Latest(j) = 1..n
    BY <1>5, <1>6
  <1>8. ASSUME NEW k \in Jobs PROVE \E i \in 1..n : Latest(j)[i] = k
    <2>1. PICK i \in 1..n : order[i] = k
      BY <1>1 DEF Ordered
    <2>2. CASE i < at
      <3>1. i \in 1..(at - 1)
        BY <1>1, <1>2, <2>1, <2>2
      <3>2. Latest(j)[i] = order[i]
        BY <1>5, <1>6, <3>1
      <3> QED BY <2>1, <3>2
    <2>3. CASE i = at
      <3>1. n \in 1..n
        BY <1>1, <1>2
      <3> QED BY <1>2, <1>5, <1>6, <2>1, <2>3, <3>1
    <2>4. CASE i > at
      <3>1. i - at \in 1..(n - at) /\ i - 1 \in 1..n /\ at - 1 + (i - at) = i - 1 /\ at + (i - at) = i
        BY <1>1, <1>2, <2>1, <2>4
      <3>2. Latest(j)[i - 1] = order[i]
        BY <1>5, <1>6, <3>1
      <3> QED BY <2>1, <3>1, <3>2
    <2> QED BY <1>1, <1>2, <2>1, <2>2, <2>3, <2>4
  <1> QED BY <1>1, <1>7, <1>8 DEF Ordered

\* A row is written, and no other is, by what saves it.
LEMMA OrderStep ==
  ASSUME Typed, Ordered(order), [Next]_vars
  PROVE  Ordered(order)'
  <1>1. \A w \in Workers : runs[w].job \in Jobs
    BY DEF Typed, RunRec
  <1>2. order' = order \/ \E j \in Jobs : order' = Latest(j)
    <2> USE DEF rows
    <2>1. CASE UNCHANGED vars
      BY <2>1 DEF vars
    <2>2. ASSUME NEW w \in Workers, Resume(w) \/ Stream(w) \/ Crash(w)
          PROVE  order' = order
      BY <2>2 DEF Resume, Stream, Wake, Crash
    <2>3. ASSUME NEW w \in Workers,
                 \/ Claim(w) \/ Allot(w) \/ Propose(w) \/ Notify(w) \/ Sync(w) \/ ClaimLetter(w) \/ Send(w)
                 \/ RecordLetter(w) \/ Compare(w) \/ LookAtEvent(w) \/ Waiting(w)
                 \/ Resolving(w) \/ LoseLease(w) \/ Close(w)
          PROVE  order' = order
      BY <2>3 DEF Claim, Allot, Propose, Notify, Sync, ClaimLetter, Send, RecordLetter, Compare,
         LookAtEvent, Waiting, Resolving, LoseLease, Close
    <2>4. ASSUME NEW w \in Workers,
                 Look(w) \/ Reserve(w) \/ Choose(w) \/ Hold(w) \/ Finish(w) \/ Fail(w)
          PROVE  order' = order \/ order' = Latest(runs[w].job)
      BY <2>4 DEF Look, Reserve, Choose, Hold, Finish, Fail, Save
    <2>5. ASSUME NEW j \in Jobs, PutAsk(j)
          PROVE  order' = Latest(j)
      BY <2>5 DEF PutAsk
    <2>6. ASSUME NEW j \in Jobs,
                 \/ Ask(j) \/ SetCard(j) \/ Edit(j) \/ ReleaseEvent(j) \/ Accept(j)
                 \/ AcceptReads(j) \/ AcceptResolves(j)
          PROVE  order' = order
      BY <2>6 DEF Ask, SetCard, Edit, ReleaseEvent, Accept, AcceptReads, AcceptResolves
    <2> QED BY <1>1, <2>1, <2>2, <2>3, <2>4, <2>5, <2>6 DEF Next, Work
  <1>3. ASSUME NEW j \in Jobs PROVE Ordered(Latest(j))
    BY LatestIsOrdered
  <1> QED BY <1>2, <1>3

LEMMA AsideStep ==
  ASSUME Typed, Aside, [Next]_vars
  PROVE  Aside'
  <1> USE DEF counts
  <1>1. ASSUME NEW w \in Workers PROVE runs[w].job \in Jobs
    BY DEF Typed, RunRec
  <1>2. ASSUME NEW j \in Jobs, NEW who
        PROVE  /\ WriteTask(who, j, tasks'[j]) => current' \in [Jobs -> SUBSET (Workers \cup {Guest})]
               /\ who \in Workers \cup {Guest} /\ ReadTask(who, j)
                    => current' \in [Jobs -> SUBSET (Workers \cup {Guest})]
    BY DEF Aside, WriteTask, ReadTask
  <1>2a. Fault \/ Act \/ UNCHANGED counts => faults' \in 0..MaxFaults /\ acts' \in 0..MaxActs
    BY GuestAssumption DEF Fault, Act, Aside
  <1>3. CASE UNCHANGED vars
    BY <1>3 DEF vars, Aside
  <1>4. ASSUME NEW w \in Workers, Resume(w) \/ Stream(w)
        PROVE  Aside'
    BY <1>4 DEF Resume, Stream, Wake, Aside
  <1>5. ASSUME NEW w \in Workers,
               \/ Claim(w) \/ Look(w) \/ Reserve(w) \/ Allot(w) \/ Choose(w) \/ Propose(w)
               \/ Notify(w) \/ Finish(w) \/ LoseLease(w)
        PROVE  Aside'
    BY <1>5 DEF Claim, Look, Reserve, Allot, Choose, Propose, Notify, Finish, LoseLease, Aside
  <1>6. ASSUME NEW w \in Workers, Sync(w)
        PROVE  Aside'
    BY <1>6, <1>2a DEF Sync, Aside
  <1>7. ASSUME NEW w \in Workers, Hold(w) \/ Compare(w) \/ LookAtEvent(w)
        PROVE  Aside'
    BY <1>1, <1>7 DEF Hold, Compare, LookAtEvent, ReadTask, Aside
  <1>8. ASSUME NEW w \in Workers, ClaimLetter(w) \/ RecordLetter(w) \/ Waiting(w) \/ Resolving(w)
        PROVE  Aside'
    BY <1>1, <1>8 DEF ClaimLetter, RecordLetter, Waiting, Resolving, Resolves, WriteTask, Aside
  <1>9. ASSUME NEW w \in Workers, Send(w)
        PROVE  Aside'
    BY <1>1, <1>9, <1>2a DEF Send, ReadTask, Aside
  <1>10. ASSUME NEW w \in Workers, Fail(w)
         PROVE  Aside'
    BY <1>1, <1>10 DEF Fail, Aside
  <1>11. ASSUME NEW w \in Workers, Close(w) \/ Crash(w)
         PROVE  Aside'
    BY <1>11, <1>2a DEF Close, Crash, Aside
  <1>12. ASSUME NEW j \in Jobs, Ask(j) \/ PutAsk(j) \/ ReleaseEvent(j)
         PROVE  Aside'
    BY <1>12, <1>2a DEF Ask, PutAsk, ReleaseEvent, Aside
  <1>13. ASSUME NEW j \in Jobs, SetCard(j) \/ Edit(j)
         PROVE  Aside'
    BY <1>13, <1>2a DEF SetCard, Edit, Aside
  <1>14. ASSUME NEW j \in Jobs, Accept(j) \/ AcceptReads(j) \/ AcceptResolves(j)
         PROVE  Aside'
    BY <1>14, <1>2a DEF Accept, AcceptReads, AcceptResolves, Resolves, WriteTask, ReadTask, Aside
  <1> QED BY <1>3, <1>4, <1>5, <1>6, <1>7, <1>8, <1>9, <1>10, <1>11, <1>12, <1>13, <1>14
             DEF Next, Work

(* Whatever is written, read, retried or abandoned, every row keeps its     *)
(* shape, and the job written longest ago, which is taken up first          *)
(* (resumeGuestIntakes), is still to be found: none leaves the order.       *)
THEOREM IntakeIsTyped == Spec => []GuestTypeOK
  <1> DEFINE Inv == Typed /\ Ordered(order) /\ Aside
  <1>1. Init => Inv
    <2> SUFFICES ASSUME Init PROVE Inv
      OBVIOUS
    <2>1. Typed
      BY GuestInit DEF GInv
    <2>2. Ordered(order)
      BY GuestAssumption DEF Init, Ordered
    <2>3. Aside
      BY GuestAssumption DEF Init, Aside
    <2> QED BY <2>1, <2>2, <2>3
  <1>2. Inv /\ [Next]_vars => Inv'
    BY TypedStep, OrderStep, AsideStep
  <1>3. Inv => GuestTypeOK
    BY DEF Typed, Ordered, Aside, GuestTypeOK
  <1> QED BY <1>1, <1>2, <1>3, PTL DEF Spec
=============================================================================
