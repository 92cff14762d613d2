---------------------------- MODULE GuestIntake ----------------------------
(***************************************************************************)
(* The first invitation of a guest (events/guestIntake*.ts): a durable job *)
(* per Card, prepared by invocations of one worker that stream records and *)
(* a two-minute schedule start.  An invocation leases the job, reserves a  *)
(* time under a lease shared by all jobs, proposes the event, and has one  *)
(* letter sent, which it claims on the Task first.  Meanwhile people park, *)
(* archive and resume Cards, edit the Task, accept or release the event,   *)
(* and ask for a retry or for a letter that was skipped.                   *)
(*                                                                         *)
(* Both leases last 150 seconds and an invocation 120, so a lease runs out *)
(* only when its invocation is gone.  A lease is named for its invocation. *)
(* The version of a Task is the set of those whose last read is current.   *)
(***************************************************************************)
EXTENDS Integers, Sequences, FiniteSets

CONSTANTS Jobs,      \* intake jobs, one per Card
          Skipping,  \* jobs created with skipEmail
          Workers,   \* invocations that may overlap
          Slots,     \* times a guest can be offered, in their order
          AsCreated, \* the jobs in the order they were created
          Free,      \* no lease
          Gone,      \* a lease whose invocation has ended
          Guest,     \* whoever accepts an event
          Calls,     \* which of the calls below people make
          MaxFaults, \* bound: crashes and failures of a provider
          MaxActs    \* bound: interventions of people

ASSUME GuestAssumption ==
  /\ {Free, Gone, Guest} \cap Workers = {} /\ Free # Gone
  /\ Slots \subseteq Nat \ {0}
  /\ Jobs # {} /\ Skipping \subseteq Jobs
  /\ AsCreated \in Seq(Jobs) /\ Len(AsCreated) = Cardinality(Jobs)
  /\ \A j \in Jobs : \E i \in DOMAIN AsCreated : AsCreated[i] = j
  /\ MaxFaults \in Nat /\ MaxActs \in Nat

VARIABLES
  jobs,     \* GUESTINTAKE#<id>
  order,    \* the jobs by updatedAt, oldest first
  asks,     \* rows that a request for a retry or a letter is about to put
  alloc,    \* GUESTINTAKEALLOCATOR: the invocation that reserves a time
  cards,    \* status of each job's Card
  events,   \* the event of each Card
  missed,   \* history: the proposals that the search for a Card's time did not see
  tasks,    \* the invitation Task of each job
  current,  \* who has read the Task as it is now
  letters,  \* letters the mail provider has accepted, by job
  accepted, \* how far the acceptance of each event has come
  runs,     \* the invocations
  faults,   \* crashes and failures so far
  acts      \* what people did so far

NoSlot == 0

rows == <<jobs, order, asks>>
counts == <<faults, acts>>
vars == <<rows, alloc, cards, events, missed, tasks, current, letters, accepted, runs, counts>>

Resumable == {"queued", "preparing", "failed", "paused"}
Leases == Workers \cup {Free, Gone}
JobRec == [status : Resumable \cup {"sent", "skipped", "cancelled"},
           skip : BOOLEAN, retryable : BOOLEAN, lease : Leases]
NoAsk == [status |-> "none", skip |-> FALSE, retryable |-> FALSE, lease |-> Free]
(* told: the guest is shown the proposal.  shown: Google's calendars have the *)
(* proposal.  again: its Google identity is a second one, given to an event   *)
(* proposed again after a release.                                            *)
EventRec == [status : {"none", "proposed", "approved", "released"},
             slot : Slots \cup {NoSlot}, pending : BOOLEAN, told : BOOLEAN,
             shown : BOOLEAN, again : BOOLEAN]
NoEvent == [status |-> "none", slot |-> NoSlot, pending |-> FALSE, told |-> FALSE,
            shown |-> FALSE, again |-> FALSE]
Active(e) == e.status \in {"proposed", "approved"}
TaskRec == [status : {"todo", "waiting", "done"},
            letter : {"none", "sending", "sent", "unsent", "unknown"}]

(* An invocation: where it is, its job, what it goes by of the row it read, *)
(* the time it proposes and the outcome of its letter.                      *)
Places == {"idle", "woken", "claimed", "reserving", "allotting", "choosing",
           "proposing", "notifying", "syncing", "holding", "writing", "sending", "recording",
           "comparing", "looking", "waiting", "resolving", "finishing",
           "failing", "closing"}
RunRec == [pc : Places, job : Jobs, skip : BOOLEAN, retryable : BOOLEAN,
           lease : Leases, slot : Slots \cup {NoSlot},
           outcome : {"none", "sent", "unsent", "unknown"}]

Asleep == [pc |-> "idle", job |-> CHOOSE j \in Jobs : TRUE, skip |-> FALSE,
           retryable |-> TRUE, lease |-> Free, slot |-> NoSlot, outcome |-> "none"]

Fault == faults < MaxFaults /\ faults' = faults + 1 /\ UNCHANGED acts
Act == acts < MaxActs /\ acts' = acts + 1 /\ UNCHANGED faults

Go(w, pc) == runs' = [runs EXCEPT ![w].pc = pc]

-----------------------------------------------------------------------------
(* A save is conditioned on the lease the copy was read with, if it had one. *)
MayPut(w) == runs[w].lease # Free => jobs[runs[w].job].lease = runs[w].lease

Latest(j) ==
  LET at == CHOOSE i \in DOMAIN order : order[i] = j
  IN  SubSeq(order, 1, at - 1) \o SubSeq(order, at + 1, Len(order)) \o <<j>>

(* saveGuestIntakeJob: the whole row is put and is the newest by updatedAt; *)
(* a request that read it before will not put its own.                      *)
Save(w, status, retryable) ==
  LET j == runs[w].job
  IN  /\ MayPut(w)
      /\ jobs' = [jobs EXCEPT ![j] = [status |-> status, skip |-> runs[w].skip,
                                      retryable |-> retryable,
                                      lease |-> runs[w].lease]]
      /\ order' = Latest(j)
      /\ asks' = [asks EXCEPT ![j] = NoAsk]

(* updateTask with the version that a read. *)
AsRead(a, j) == a \in current[j]

WriteTask(a, j, task) ==
  /\ AsRead(a, j)
  /\ tasks' = [tasks EXCEPT ![j] = task]
  /\ current' = [current EXCEPT ![j] = {}]

ReadTask(a, j) == current' = [current EXCEPT ![j] = @ \cup {a}]

(* Slip: an interrupted letter counts as unsent. *)
BugSendingIsUnsent(letter) == letter # "unknown"

(* Whether the letter may be sent, or is known to have been sent.           *)
Reconciled(letter) == letter \in {"none", "unsent", "sent"}

-----------------------------------------------------------------------------
(* Slip: the lease of an invocation that died is for good. *)
BugLeaseForGood(lease) == lease = Free

LeaseIsOver(lease) == lease \in {Free, Gone}

Listed(j) ==
  /\ jobs[j].status \in Resumable
  /\ jobs[j].retryable
  /\ LeaseIsOver(jobs[j].lease)

Wake(w, j) ==
  /\ runs[w].pc = "idle"
  /\ Listed(j)
  /\ runs' = [runs EXCEPT ![w] =
                [Asleep EXCEPT !.pc = "woken", !.job = j]]
  /\ UNCHANGED <<rows, alloc, cards, events, missed, tasks, current, letters, accepted, counts>>

(* resumeGuestIntakes: every two minutes, the one updated longest ago. *)
Resume(w) ==
  \E j \in Jobs, i \in 1..Len(order) :
    /\ order[i] = j
    /\ \A h \in 1..(i - 1) : ~Listed(order[h])
    /\ Wake(w, j)

(* claimGuestIntakeJob looks at the lease and the status, and changes       *)
(* nothing else of the row.                                                 *)
Claim(w) ==
  LET j == runs[w].job
  IN  /\ runs[w].pc = "woken"
      /\ \/ /\ jobs[j].status \in Resumable
            /\ LeaseIsOver(jobs[j].lease)
            /\ jobs' = [jobs EXCEPT ![j].lease = w]
            /\ Go(w, "claimed")
         \/ /\ jobs[j].status \notin Resumable \/ ~LeaseIsOver(jobs[j].lease)
            /\ Go(w, "idle")
            /\ UNCHANGED jobs
      /\ UNCHANGED <<order, asks, alloc, cards, events, missed, tasks, current, letters,
                     accepted, counts>>

(* A letter is due for an event proposed without telling the guest. *)
Untold(w, e) == ~runs[w].skip /\ ~e.told /\ e.status = "proposed"

(* The row is read again, then the Card. *)
Look(w) ==
  LET j == runs[w].job
      row == jobs[j]
      Put(status, retryable) ==
        /\ jobs' = [jobs EXCEPT ![j] =
                      [@ EXCEPT !.status = status, !.retryable = retryable]]
        /\ order' = Latest(j)
        /\ asks' = [asks EXCEPT ![j] = NoAsk]
      Goes(pc) == runs' = [runs EXCEPT ![w] =
                    [@ EXCEPT !.pc = pc, !.skip = row.skip,
                              !.retryable = row.retryable, !.lease = row.lease]]
  IN  /\ runs[w].pc = "claimed"
      /\ \/ /\ cards[j] = "archived"
            /\ Put("cancelled", FALSE)
            /\ Goes("closing")
         \/ /\ cards[j] = "parked" /\ row.status # "paused"
            /\ Put("paused", row.retryable)
            /\ Goes("closing")
         \/ /\ cards[j] = "parked" /\ row.status = "paused"
            /\ UNCHANGED rows
            /\ Goes("closing")
         \/ /\ cards[j] = "active"
            /\ Put("preparing", row.retryable)
            /\ Goes("reserving")
      /\ UNCHANGED <<alloc, cards, events, missed, tasks, current, letters, accepted, counts>>

(* An event that is there is used, completed, and shown to the guest at     *)
(* last, at the time it was read with, if the letter was skipped and now is *)
(* not.                                                                     *)
Reserve(w) ==
  LET j == runs[w].job
      e == events[j]
  IN  /\ runs[w].pc = "reserving"
      /\ \/ /\ e.status = "none"
            /\ Go(w, "allotting")
            /\ UNCHANGED rows
         \/ /\ e.status = "released"
            /\ Save(w, "cancelled", FALSE)
            /\ Go(w, "closing")
         \/ /\ Active(e) /\ e.pending
            /\ Go(w, "syncing")
            /\ UNCHANGED rows
         \/ /\ Active(e) /\ ~e.pending /\ Untold(w, e)
            /\ runs' = [runs EXCEPT ![w].pc = "notifying", ![w].slot = e.slot]
            /\ UNCHANGED rows
         \/ /\ Active(e) /\ ~e.pending /\ ~Untold(w, e)
            /\ Go(w, "holding")
            /\ UNCHANGED rows
      /\ UNCHANGED <<alloc, cards, events, missed, tasks, current, letters, accepted, counts>>

(* rescheduleEvent reads the event again.  One released meanwhile is        *)
(* proposed again, unless it is released only between the two reads made    *)
(* here; one approved meanwhile is a proposal again.  Another invocation    *)
(* may have done it first under the same operation key: then its operation  *)
(* is completed, or, if it is not the event's last any more, in the way.    *)
Notify(w) ==
  LET j == runs[w].job
      e == events[j]
  IN  /\ runs[w].pc = "notifying"
      /\ \/ /\ ~e.told /\ ~e.pending
            /\ events' = [events EXCEPT ![j] =
                            [status |-> "proposed", slot |-> runs[w].slot, pending |-> TRUE,
                             told |-> TRUE, shown |-> e.shown,
                             again |-> e.again \/ e.status = "released"]]
            /\ Go(w, "syncing")
         \/ /\ e.told /\ e.status = "proposed"
            /\ Go(w, "syncing")
            /\ UNCHANGED events
         \/ /\ e.status = "released" \/ (e.told /\ e.status = "approved")
            /\ Go(w, "failing")
            /\ UNCHANGED events
      /\ UNCHANGED <<rows, alloc, cards, missed, tasks, current, letters, accepted, counts>>

(* Slip: the shared lease is taken from whoever has it. *)
BugTakeAllocator(lease) == TRUE

AllocatorIsFree(lease) == lease \in {Free, Gone}

(* Without an event a time is reserved, by one invocation at a time.        *)
Allot(w) ==
  /\ runs[w].pc = "allotting"
  /\ IF AllocatorIsFree(alloc)
     THEN alloc' = w /\ Go(w, "choosing")
     ELSE Go(w, "failing") /\ UNCHANGED alloc
  /\ UNCHANGED <<rows, cards, events, missed, tasks, current, letters, accepted, counts>>

(* The search lists events and Cards with scans that may not show the last  *)
(* write of a row, and Cards no further than a first page; it also asks     *)
(* Google for the owner's calendar.  behind: the Cards whose last write the *)
(* scans do not show.                                                       *)
Unseen(j, behind) == {k \in behind \ {j} : Active(events[k]) /\ ~events[k].shown}

Taken(j, behind) ==
  {events[k].slot : k \in {x \in Jobs \ ({j} \cup Unseen(j, behind)) :
                            Active(events[x]) \/ (events[x].status = "released" /\ x \in behind)}}

(* guestEventSlots: the first time that no other Card has, which is saved;  *)
(* no time left is a failure.                                               *)
Choose(w) ==
  LET j == runs[w].job
  IN  /\ runs[w].pc = "choosing"
      /\ \E behind \in SUBSET (Jobs \ {j}) :
           \/ \E s \in Slots \ Taken(j, behind) :
                /\ \A r \in Slots \ Taken(j, behind) : s <= r
                /\ Save(w, "preparing", runs[w].retryable)
                /\ runs' = [runs EXCEPT ![w].pc = "proposing", ![w].slot = s]
                /\ missed' = [missed EXCEPT ![j] = @ \cup Unseen(j, behind)]
           \/ /\ Slots \subseteq Taken(j, behind)
              /\ Go(w, "failing")
              /\ UNCHANGED <<rows, missed>>
      /\ UNCHANGED <<alloc, cards, events, tasks, current, letters, accepted, counts>>

Tells(w) == ~runs[w].skip

(* proposeEvent: the proposal is durable before the calendar is asked.  A   *)
(* released event has its first proposal under this operation key already.  *)
Propose(w) ==
  LET j == runs[w].job
  IN  /\ runs[w].pc = "proposing"
      /\ \/ /\ events[j].status = "none"
            /\ events' = [events EXCEPT ![j] =
                            [NoEvent EXCEPT !.status = "proposed", !.slot = runs[w].slot,
                                            !.pending = TRUE, !.told = Tells(w)]]
            /\ Go(w, "syncing")
         \/ /\ events[j].status # "none"
            /\ Go(w, "failing")
            /\ UNCHANGED events
      /\ UNCHANGED <<rows, alloc, cards, missed, tasks, current, letters, accepted, counts>>

(* An operation being carried out is another invocation's by its lease. *)
OperationIsLeased(w) ==
  \E u \in Workers \ {w} : runs[u].pc = "syncing" /\ runs[u].job = runs[w].job

(* The calendar answers, or it does not and the operation stays pending.    *)
(* Of an event that has moved on, an operation this invocation committed is *)
(* complete; one it found pending may be found no more.                     *)
Sync(w) ==
  LET j == runs[w].job
      e == events[j]
  IN  /\ runs[w].pc = "syncing"
      /\ \/ /\ e.status = "proposed"
            /\ events' = [events EXCEPT ![j] = [@ EXCEPT !.pending = FALSE, !.shown = TRUE]]
            /\ IF Untold(w, e)
               THEN runs' = [runs EXCEPT ![w].pc = "notifying", ![w].slot = e.slot]
               ELSE Go(w, "holding")
            /\ UNCHANGED counts
         \/ /\ e.pending
            /\ Fault \/ (OperationIsLeased(w) /\ UNCHANGED counts)
            /\ Go(w, "failing")
            /\ UNCHANGED events
         \/ /\ e.status # "proposed"
            /\ Go(w, "holding") \/ (runs[w].slot = NoSlot /\ Go(w, "failing"))
            /\ UNCHANGED <<events, counts>>
      /\ UNCHANGED <<rows, alloc, cards, missed, tasks, current, letters, accepted>>

(* The event is held: the row says so and the shared lease is given back.   *)
(* Without a letter this is the end; otherwise the Task is read, and that a *)
(* letter was sent is the end of its delivery.                              *)
Hold(w) ==
  LET j == runs[w].job
  IN  /\ runs[w].pc = "holding"
      /\ Save(w, IF runs[w].skip THEN "skipped" ELSE "preparing", runs[w].retryable)
      /\ alloc' = IF alloc = w THEN Free ELSE alloc
      /\ IF runs[w].skip
         THEN Go(w, "closing") /\ UNCHANGED current
         ELSE /\ Go(w, IF tasks[j].letter = "sent" THEN "comparing" ELSE "writing")
              /\ ReadTask(w, j)
      /\ UNCHANGED <<cards, events, missed, tasks, letters, accepted, counts>>

-----------------------------------------------------------------------------
(* deliverGuestFirstContact: the letter is claimed on the Task unless the   *)
(* Task has one whose outcome is not known to be a failure before sending.  *)
ClaimLetter(w) ==
  LET j == runs[w].job
      task == tasks[j]
  IN  /\ runs[w].pc = "writing"
      /\ \/ /\ Reconciled(task.letter) /\ task.letter # "sent"
            /\ WriteTask(w, j, [task EXCEPT !.letter = "sending"])
            /\ Go(w, "sending")
         \/ /\ ~AsRead(w, j) \/ ~Reconciled(task.letter)
            /\ Go(w, "failing")
            /\ UNCHANGED <<tasks, current>>
      /\ UNCHANGED <<rows, alloc, cards, events, missed, letters, accepted, counts>>

(* The mail provider accepts the letter, and its answer may be lost; or the *)
(* broker refuses before anything is sent.  Then the Task is read again.    *)
Send(w) ==
  LET j == runs[w].job
      Ends(outcome, sent) ==
        /\ letters' = [letters EXCEPT ![j] = @ + sent]
        /\ runs' = [runs EXCEPT ![w].pc = "recording", ![w].outcome = outcome]
        /\ ReadTask(w, j)
  IN  /\ runs[w].pc = "sending"
      /\ \/ Ends("sent", 1) /\ UNCHANGED counts
         \/ Ends("unknown", 1) /\ Fault
         \/ Ends("unsent", 0) /\ Fault
      /\ UNCHANGED <<rows, alloc, cards, events, missed, tasks, accepted>>

RecordLetter(w) ==
  LET j == runs[w].job
  IN  /\ runs[w].pc = "recording"
      /\ \/ /\ WriteTask(w, j, [tasks[j] EXCEPT !.letter = runs[w].outcome])
            /\ IF runs[w].outcome = "sent" THEN Go(w, "comparing") ELSE Go(w, "failing")
         \/ /\ ~AsRead(w, j)
            /\ Go(w, "failing")
            /\ UNCHANGED <<tasks, current>>
      /\ UNCHANGED <<rows, alloc, cards, events, missed, letters, accepted, counts>>

(* Then the Task is read, and the event after it: an acceptance that is in  *)
(* by now resolves the Task, which is read once more for that.              *)
Compare(w) ==
  LET j == runs[w].job
  IN  /\ runs[w].pc = "comparing"
      /\ ReadTask(w, j)
      /\ Go(w, "looking")
      /\ UNCHANGED <<rows, alloc, cards, events, missed, tasks, letters, accepted, counts>>

LookAtEvent(w) ==
  LET j == runs[w].job
  IN  /\ runs[w].pc = "looking"
      /\ IF events[j].status = "approved"
         THEN Go(w, "resolving") /\ ReadTask(w, j)
         ELSE Go(w, "waiting") /\ UNCHANGED current
      /\ UNCHANGED <<rows, alloc, cards, events, missed, tasks, letters, accepted, counts>>

Waiting(w) ==
  LET j == runs[w].job
  IN  /\ runs[w].pc = "waiting"
      /\ \/ /\ WriteTask(w, j, [tasks[j] EXCEPT !.status = "waiting"])
            /\ Go(w, "finishing")
         \/ /\ ~AsRead(w, j)
            /\ Go(w, "failing")
            /\ UNCHANGED <<tasks, current>>
      /\ UNCHANGED <<rows, alloc, cards, events, missed, letters, accepted, counts>>

(* resolveGuestAcceptanceTask, once the Task is read. *)
Resolves(a, j) ==
  \/ /\ tasks[j].status # "done"
     /\ WriteTask(a, j, [tasks[j] EXCEPT !.status = "done"])
  \/ /\ tasks[j].status = "done" /\ AsRead(a, j)
     /\ UNCHANGED <<tasks, current>>

Resolving(w) ==
  LET j == runs[w].job
  IN  /\ runs[w].pc = "resolving"
      /\ \/ Resolves(w, j) /\ Go(w, "finishing")
         \/ /\ ~AsRead(w, j)
            /\ Go(w, "failing")
            /\ UNCHANGED <<tasks, current>>
      /\ UNCHANGED <<rows, alloc, cards, events, missed, letters, accepted, counts>>

Finish(w) ==
  /\ runs[w].pc = "finishing"
  /\ Save(w, "sent", runs[w].retryable)
  /\ Go(w, "closing")
  /\ UNCHANGED <<alloc, cards, events, missed, tasks, current, letters, accepted, counts>>

-----------------------------------------------------------------------------
(* recordFailure: what the Task says of the letter decides whether the job  *)
(* is taken up again; a new error is a comment on the Task.                 *)
Fail(w) ==
  LET j == runs[w].job
  IN  /\ runs[w].pc = "failing"
      /\ Save(w, "failed", Reconciled(tasks[j].letter))
      /\ current' \in {current, [current EXCEPT ![j] = {}]}
      /\ Go(w, "closing")
      /\ UNCHANGED <<alloc, cards, events, missed, tasks, letters, accepted, counts>>

(* A save that meets another lease ends the attempt. *)
LoseLease(w) ==
  /\ \/ runs[w].pc \in {"choosing", "holding", "finishing", "failing"}
     \/ runs[w].pc = "reserving" /\ events[runs[w].job].status = "released"
  /\ ~MayPut(w)
  /\ Go(w, "closing")
  /\ UNCHANGED <<rows, alloc, cards, events, missed, tasks, current, letters, accepted, counts>>

(* What is left of an invocation: nobody else's lease has its value. *)
Ended(w, lease) == IF lease = w THEN Gone ELSE lease

Left(w) ==
  /\ asks' = [j \in Jobs |-> [asks[j] EXCEPT !.lease = Ended(w, @)]]
  /\ runs' = [u \in Workers |-> IF u = w THEN Asleep
                                ELSE [runs[u] EXCEPT !.lease = Ended(w, @)]]

(* The shared lease and the job's own are given back, each if it is still   *)
(* this invocation's.                                                       *)
Close(w) ==
  LET j == runs[w].job
      Back(lease) == IF runs[w].lease # Free /\ lease = runs[w].lease THEN Free
                     ELSE Ended(w, lease)
  IN  /\ runs[w].pc = "closing"
      /\ alloc' = IF alloc = w THEN Free ELSE alloc
      /\ jobs' = [k \in Jobs |-> [jobs[k] EXCEPT !.lease = IF k = j THEN Back(@) ELSE Ended(w, @)]]
      /\ Left(w)
      /\ current' = [k \in Jobs |-> current[k] \ {w}]
      /\ UNCHANGED <<order, cards, events, missed, tasks, letters, accepted, counts>>

(* The invocation stops, out of time or killed. *)
Crash(w) ==
  /\ runs[w].pc # "idle"
  /\ Fault
  /\ alloc' = Ended(w, alloc)
  /\ jobs' = [k \in Jobs |-> [jobs[k] EXCEPT !.lease = Ended(w, @)]]
  /\ Left(w)
  /\ current' = [k \in Jobs |-> current[k] \ {w}]
  /\ UNCHANGED <<order, cards, events, missed, tasks, letters, accepted>>

-----------------------------------------------------------------------------
(* Slip: the row keeps what was asked for. *)
BugVerbStored(row, skip) == [row EXCEPT !.status = "asked", !.skip = skip]

Requeued(row, skip) == [row EXCEPT !.status = "queued", !.skip = skip]

(* POST /cards/:id/guest-intake/send and /retry: the whole row as it was    *)
(* read, queued; it is put if the status and updatedAt are still those.     *)
Ask(j) ==
  LET row == jobs[j]
  IN  /\ \/ /\ "send" \in Calls
            /\ row.status = "skipped" /\ row.skip
            /\ asks' = [asks EXCEPT ![j] = Requeued(row, FALSE)]
         \/ /\ "retry" \in Calls
            /\ row.status = "failed" /\ row.retryable
            /\ Reconciled(tasks[j].letter)
            /\ asks' = [asks EXCEPT ![j] = Requeued(row, row.skip)]
      /\ Act
      /\ UNCHANGED <<jobs, order, alloc, cards, events, missed, tasks, current, letters,
                     accepted, runs>>

PutAsk(j) ==
  /\ asks[j] # NoAsk
  /\ jobs' = [jobs EXCEPT ![j] = asks[j]]
  /\ order' = Latest(j)
  /\ asks' = [asks EXCEPT ![j] = NoAsk]
  /\ UNCHANGED <<alloc, cards, events, missed, tasks, current, letters, accepted, runs, counts>>

(* People park, resume and archive Cards, ... *)
SetCard(j) ==
  LET Set(status) == cards' = [cards EXCEPT ![j] = status]
  IN  /\ \/ "park" \in Calls /\ cards[j] = "active" /\ Set("parked") /\ Act
         \/ "park" \in Calls /\ cards[j] = "parked" /\ Set("active") /\ UNCHANGED counts
         \/ "archive" \in Calls /\ cards[j] = "active" /\ Set("archived") /\ Act
      /\ UNCHANGED <<rows, alloc, events, missed, tasks, current, letters, accepted, runs>>

(* ... write on the invitation Task, ... *)
Edit(j) ==
  /\ "edit" \in Calls
  /\ current[j] # {}
  /\ Act
  /\ current' = [current EXCEPT ![j] = {}]
  /\ UNCHANGED <<rows, alloc, cards, events, missed, tasks, letters, accepted, runs>>

(* ... and release events. *)
ReleaseEvent(j) ==
  /\ "release" \in Calls
  /\ Act
  /\ Active(events[j]) /\ ~events[j].pending
  /\ events' = [events EXCEPT ![j] = [@ EXCEPT !.status = "released", !.shown = FALSE]]
  /\ UNCHANGED <<rows, alloc, cards, missed, tasks, current, letters, accepted, runs>>

(* approveEvent: a guest, or staff for the guest, accepts the time, and the *)
(* invitation Task is read and resolved after that.                         *)
Accept(j) ==
  /\ "accept" \in Calls
  /\ events[j].status = "proposed" /\ ~events[j].pending
  /\ events' = [events EXCEPT ![j].status = "approved"]
  /\ accepted' = [accepted EXCEPT ![j] = "approved"]
  /\ Act
  /\ UNCHANGED <<rows, alloc, cards, missed, tasks, current, letters, runs>>

AcceptReads(j) ==
  /\ accepted[j] = "approved"
  /\ ReadTask(Guest, j)
  /\ accepted' = [accepted EXCEPT ![j] = "read"]
  /\ UNCHANGED <<rows, alloc, cards, events, missed, tasks, letters, runs, counts>>

(* A Task written since the read is a conflict, and the acceptance is over. *)
AcceptResolves(j) ==
  /\ accepted[j] = "read"
  /\ \/ Resolves(Guest, j)
     \/ ~AsRead(Guest, j) /\ UNCHANGED <<tasks, current>>
  /\ accepted' = [accepted EXCEPT ![j] = "over"]
  /\ UNCHANGED <<rows, alloc, cards, events, missed, letters, runs, counts>>

-----------------------------------------------------------------------------
(* The jobs as the Cards' creation leaves them. *)
Init ==
  /\ jobs = [j \in Jobs |-> [status |-> "queued", skip |-> j \in Skipping,
                             retryable |-> TRUE, lease |-> Free]]
  /\ order = AsCreated
  /\ asks = [j \in Jobs |-> NoAsk]
  /\ alloc = Free
  /\ cards = [j \in Jobs |-> "active"]
  /\ events = [j \in Jobs |-> NoEvent]
  /\ missed = [j \in Jobs |-> {}]
  /\ tasks = [j \in Jobs |-> [status |-> "todo", letter |-> "none"]]
  /\ current = [j \in Jobs |-> {}]
  /\ letters = [j \in Jobs |-> 0]
  /\ accepted = [j \in Jobs |-> "no"]
  /\ runs = [w \in Workers |-> Asleep]
  /\ faults = 0 /\ acts = 0

Work(w) ==
  \/ Claim(w) \/ Look(w) \/ Reserve(w) \/ Allot(w) \/ Choose(w) \/ Propose(w)
  \/ Notify(w) \/ Sync(w) \/ Hold(w) \/ ClaimLetter(w) \/ Send(w) \/ RecordLetter(w)
  \/ Compare(w) \/ LookAtEvent(w) \/ Waiting(w) \/ Resolving(w) \/ Finish(w)
  \/ Fail(w) \/ LoseLease(w) \/ Close(w)

(* A record of the Cards' stream starts an invocation for its own job.      *)
Stream(w) ==
  "stream" \in Calls /\ \E j \in Jobs : jobs[j].status = "queued" /\ Wake(w, j)

Next ==
  \/ \E w \in Workers : Resume(w) \/ Stream(w) \/ Work(w) \/ Crash(w)
  \/ \E j \in Jobs : \/ Ask(j) \/ PutAsk(j) \/ SetCard(j) \/ Edit(j) \/ ReleaseEvent(j)
                     \/ Accept(j) \/ AcceptReads(j) \/ AcceptResolves(j)

(* The schedule goes on starting invocations, whatever else is running, and *)
(* an invocation goes on.  Nobody has to ask for anything.                  *)
Fairness ==
  /\ SF_vars(\E w \in Workers : Resume(w))
  /\ \A w \in Workers : WF_vars(Work(w))

Spec == Init /\ [][Next]_vars /\ Fairness

-----------------------------------------------------------------------------
GuestTypeOK ==
  /\ jobs \in [Jobs -> JobRec]
  /\ order \in Seq(Jobs) /\ Len(order) = Cardinality(Jobs)
  /\ asks \in [Jobs -> JobRec \cup {NoAsk}]
  /\ alloc \in Leases
  /\ cards \in [Jobs -> {"active", "parked", "archived"}]
  /\ events \in [Jobs -> EventRec]
  /\ missed \in [Jobs -> SUBSET Jobs]
  /\ tasks \in [Jobs -> TaskRec]
  /\ current \in [Jobs -> SUBSET (Workers \cup {Guest})]
  /\ letters \in [Jobs -> Nat]
  /\ accepted \in [Jobs -> {"no", "approved", "read", "over"}]
  /\ runs \in [Workers -> RunRec]
  /\ faults \in 0..MaxFaults /\ acts \in 0..MaxActs

(* Nobody is sent the first letter twice, whatever is interrupted, retried  *)
(* or done by two invocations at once (guestFirstContactDelivery.ts).       *)
LetterAtMostOnce == \A j \in Jobs : letters[j] <= 1

(* Two Cards have one time. *)
Clash(j, k) == j # k /\ Active(events[j]) /\ Active(events[k]) /\ events[j].slot = events[k].slot

(* The leased allocator (guestIntakeAllocator.ts) gives no time to two      *)
(* Cards.  They come to have one only if the search for the one did not see *)
(* the other, proposed but not yet in Google's calendars, or if one was     *)
(* released and is proposed again as the guest is told of it.               *)
ClashesAreUnseenOrAgain ==
  \A j, k \in Jobs :
    Clash(j, k) => k \in missed[j] \/ j \in missed[k] \/ events[j].again \/ events[k].again

Settled(j) ==
  \/ jobs[j].status \in {"sent", "cancelled"}
  \/ jobs[j].status = "skipped" /\ jobs[j].skip
  \/ ~jobs[j].retryable

(* Two invocations are at work on different jobs.                           *)
Alone ==
  \A u, w \in Workers :
    u # w /\ {runs[u].pc, runs[w].pc} \cap {"idle", "woken"} = {}
      => runs[u].job # runs[w].job

(* Every invitation is sent, skipped, cancelled or left to a person, though *)
(* one job is taken up at a time and attempts fail or die                   *)
(* (resumeGuestIntakes), unless a Card stays parked, whose job then holds up *)
(* the others, or a retry was put over the claim of an invocation, so that  *)
(* two go on getting into each other's way.                                 *)
EveryInvitationSettles ==
  <>[](Alone /\ \A j \in Jobs : cards[j] # "parked") => \A j \in Jobs : []<>Settled(j)

(* Violated. guestIntakeCompletion.ts:5: acceptance resolves the invitation *)
(* Task, "including accepts racing delivery bookkeeping".                   *)
AcceptedIsResolved ==
  \A j \in Jobs :
    events[j].status = "approved" /\ accepted[j] = "over" /\ jobs[j].status = "sent"
      => tasks[j].status = "done"
=============================================================================
