--------------------------- MODULE EventOperations ---------------------------
(***************************************************************************)
(* The event service: how a transition reaches the event row, the Card,    *)
(* Google Calendar and the guest.                                          *)
(*                                                                         *)
(* A request plans a transition and commits it, with a journal row for its *)
(* operation, in one DynamoDB transaction.  A worker (the same Lambda      *)
(* invocation, or a later retry) then takes the operation's lease, writes  *)
(* the calendars one HTTP request at a time, sends the transition's mail   *)
(* under a receipt, and completes the operation in a second transaction.   *)
(*                                                                         *)
(* A lease lasts as long as an invocation may run (120 seconds, counted    *)
(* from a moment inside it), so it runs out only after its holder stopped. *)
(* The lease token is the worker.  Stopped workers start over as new ones. *)
(*                                                                         *)
(* One event of one Card.  Guests, titles and times are determined by the  *)
(* generation.  acceptanceBaseline, googleSync and attendeeResponses are   *)
(* written and displayed but decide nothing, and are left out.             *)
(***************************************************************************)
EXTENDS Integers, FiniteSets

CONSTANTS Workers, NoWorker,
          Expired,             \* a lease that ran out
          Keys, NoKey,         \* operation keys the callers choose
          Intent,              \* the transition a key is used for
          AcceptKey,           \* the key of a guest's acceptance of a generation, if polled
          Copies, Organizer,   \* mirror calendars, and the one that invites
          Mailing,             \* transitions whose policy sends a mail
          Calls,               \* what happens: retry, force, expiry, answer
          FaultLimit           \* bound: crashes and failed outside calls

Transitions == {"propose", "approve", "reschedule", "release"}
Proposals == {k \in Keys : Intent[k] \in {"propose", "reschedule"}}
\* A key commits once, so there are no more generations than such keys.
Generations == 1..Cardinality(Proposals)
Calendars == Copies \cup {Organizer}

ASSUME EventOperationsAssumption ==
  /\ IsFiniteSet(Keys) /\ NoKey \notin Keys
  /\ {NoWorker, Expired} \cap Workers = {} /\ NoWorker # Expired /\ Organizer \notin Copies
  /\ Intent \in [Keys -> Transitions]
  /\ AcceptKey \in [Generations -> Keys \cup {NoKey}]
  /\ \A g \in Generations : AcceptKey[g] # NoKey => Intent[AcceptKey[g]] = "approve"
  /\ \A g, h \in Generations : AcceptKey[g] # NoKey /\ AcceptKey[g] = AcceptKey[h] => g = h
  /\ Mailing \subseteq Transitions
  /\ Calls \subseteq {"retry", "force", "expiry", "answer"}
  /\ FaultLimit \in Nat

\* Google ids by calendar: the identity generation of the copy, 0 where unknown.
Ids == [Calendars -> {0} \cup Generations]
NoIds == [c \in Calendars |-> 0]
Unset == [c \in Calendars |-> -1]

Statuses == {"none", "proposed", "approved", "released", "expired"}
EventRec == [version : Nat, gen : {0} \cup Generations, identity : {0} \cup Generations,
             status : Statuses, ids : Ids, latest : Keys \cup {NoKey}]
NoEvent == [version |-> 0, gen |-> 0, identity |-> 0, status |-> "none",
            ids |-> NoIds, latest |-> NoKey]
OpRec == [state : {"none", "pending", "unknown", "complete"}, lease : Workers \cup {NoWorker, Expired},
          partial : Ids \cup {Unset}, receipt : {"none", "dispatching", "sent", "unknown"}]
NoOp == [state |-> "none", lease |-> NoWorker, partial |-> Unset, receipt |-> "none"]
\* A calendar's copy: absent, live (with the generation and status it shows),
\* or deleted; invited once its guests are on it.
CopyRec == [state : {"absent", "live", "deleted"}, gen : {0} \cup Generations,
            status : Statuses, invited : BOOLEAN]
NoCopy == [state |-> "absent", gen |-> 0, status |-> "none", invited |-> FALSE]

VARIABLES event,     \* the event row
          op,        \* the journal row of each operation
          card,      \* the Card's projection of the event, and its calendarInvites
          google,    \* the copy of each identity on each calendar
          accepted,  \* identities whose live invitation shows the guest's acceptance
          worker,    \* where each worker is and what it read
          letters,   \* history: how often each operation's mail went out unforced
          said,      \* history: the generations the guest said yes to
          faults     \* how many faults happened

vars == <<event, op, card, google, accepted, worker, letters, said, faults>>
outside == <<google, accepted, said>>

Idle == [pc |-> "idle", key |-> NoKey, ev |-> NoEvent, gen |-> 0, force |-> FALSE,
         receipt |-> "none", ids |-> NoIds, left |-> {},
         same |-> FALSE,       \* the organizer's copy it found is as wanted
         late |-> FALSE]       \* the lease ran out after it looked

Init ==
  /\ event = NoEvent
  /\ op = [k \in Keys |-> NoOp]
  /\ card = [gen |-> 0, status |-> "none", sync |-> "none", invites |-> {}]
  /\ google = [c \in Calendars |-> [g \in Generations |-> NoCopy]]
  /\ accepted = {} /\ said = {}
  /\ worker = [w \in Workers |-> Idle]
  /\ letters = [k \in Keys |-> 0]
  /\ faults = 0

Active(e) == e.status \notin {"none", "released"}
\* The journal is read for the latest operation only.
Unresolved == event.latest # NoKey /\ op[event.latest].state # "complete"

Become(w, r) == worker' = [worker EXCEPT ![w] = r]
Goto(w, pc) == worker' = [worker EXCEPT ![w].pc = pc]
Stop(w) == Become(w, Idle)
\* An invocation that stops without giving its lease back.
Die(w) == Become(w, [Idle EXCEPT !.pc = "dead"])
Fault == faults < FaultLimit /\ faults' = faults + 1

-----------------------------------------------------------------------------
\* Requests.

\* What the lifecycle allows of a transition that speaks for generation gen, or none.
Allowed(transition, gen) ==
  /\ (transition = "propose") # Active(event)
  /\ transition = "approve" => event.status # "approved"
  /\ gen # 0 => event.gen = gen
\* Slip: an unresolved operation does not block the next one.
BugCompeting(transition, gen) == Allowed(transition, gen)
\* planEventTransition: what is refused, or needs nothing done, leads nowhere.
Plannable(transition, gen) == ~Unresolved /\ Allowed(transition, gen)

\* A key that is the latest operation's is a retry of it; any other is planned
\* from the event as read now.
Plan(w, k, gen) ==
  \/ event.latest = k /\ Become(w, [Idle EXCEPT !.pc = "open", !.key = k])
  \/ /\ event.latest # k /\ Plannable(Intent[k], gen)
     /\ Become(w, [Idle EXCEPT !.pc = "commit", !.key = k, !.ev = event])

\* Refused requests change nothing and are no step.  A repeated propose may be
\* refused or retried, as its first read came after or before the first commit.
Request(w, k) ==
  /\ worker[w].pc = "idle" /\ k \notin {AcceptKey[g] : g \in Generations}
  /\ Plan(w, k, 0)
  /\ UNCHANGED <<event, op, card, outside, letters, faults>>

Retry(w, force) ==
  /\ worker[w].pc = "idle" /\ event.latest # NoKey
  /\ (IF force THEN "force" ELSE "retry") \in Calls
  /\ Become(w, [Idle EXCEPT !.pc = "open", !.key = event.latest, !.force = force])
  /\ UNCHANGED <<event, op, card, outside, letters, faults>>

\* The poll looks at proposed events with nothing unresolved, then asks Google.
Poll(w) ==
  /\ worker[w].pc = "idle" /\ event.gen # 0 /\ AcceptKey[event.gen] # NoKey
  /\ event.status = "proposed" /\ ~Unresolved /\ event.ids[Organizer] # 0
  /\ Become(w, [Idle EXCEPT !.pc = "fetch", !.ev = event])
  /\ UNCHANGED <<event, op, card, outside, letters, faults>>

\* No answer, no acceptance yet, or a copy that shows another generation: not now.
Fetch(w) ==
  LET ev == worker[w].ev
      i == ev.ids[Organizer]
  IN  /\ worker[w].pc = "fetch"
      /\ \/ /\ google[Organizer][i].state = "live" /\ google[Organizer][i].gen = ev.gen
            /\ i \in accepted
            /\ Become(w, [Idle EXCEPT !.pc = "plan", !.key = AcceptKey[ev.gen], !.gen = ev.gen])
         \/ Stop(w)
      /\ UNCHANGED <<event, op, card, outside, letters, faults>>

\* The approval of an acceptance reads the event again.
Accept(w) ==
  /\ worker[w].pc = "plan"
  /\ Plan(w, worker[w].key, worker[w].gen) \/ Stop(w)
  /\ UNCHANGED <<event, op, card, outside, letters, faults>>

\* Slips: a proposal after a release keeps the identity; the row keeps its latest key.
BugIdentityKept(e, k) ==
  [version |-> e.version + 1, latest |-> k,
   gen |-> IF k \in Proposals THEN e.gen + 1 ELSE e.gen,
   identity |-> IF e.identity = 0 THEN 1 ELSE e.identity,
   status |-> CASE k \in Proposals -> "proposed" [] Intent[k] = "approve" -> "approved"
                [] OTHER -> "released",
   ids |-> IF k \in Proposals /\ ~Active(e) THEN NoIds ELSE e.ids]
BugLatestKept(e, k) == [BugIdentityKept(e, k) EXCEPT !.latest = e.latest]
\* The record the plan leads to.
Planned(e, k) ==
  LET gen == e.gen + 1
      fresh == ~Active(e)
  IN  [version |-> e.version + 1, latest |-> k,
       gen |-> IF k \in Proposals THEN gen ELSE e.gen,
       identity |-> IF k \in Proposals /\ fresh THEN gen ELSE e.identity,
       status |-> CASE k \in Proposals -> "proposed" [] Intent[k] = "approve" -> "approved"
                    [] OTHER -> "released",
       ids |-> IF k \in Proposals /\ fresh THEN NoIds ELSE e.ids]

CommitHolds(w) == event.version = worker[w].ev.version /\ op[worker[w].key].state = "none"

\* Event row, Card projection and journal row in one transaction.
Commit(w) ==
  LET k == worker[w].key
      next == Planned(worker[w].ev, k)
  IN  /\ worker[w].pc = "commit" /\ CommitHolds(w)
      /\ event' = next
      /\ op' = [op EXCEPT ![k] = [NoOp EXCEPT !.state = "pending"]]
      /\ card' = [card EXCEPT !.gen = next.gen, !.status = next.status, !.sync = "syncing"]
      /\ Goto(w, "open")
      /\ UNCHANGED <<outside, letters, faults>>
\* The event, the key, the Card or the episode moved on since they were read.
Conflict(w) ==
  /\ worker[w].pc = "commit"
  /\ Stop(w)
  /\ UNCHANGED <<event, op, card, outside, letters, faults>>

-----------------------------------------------------------------------------
\* A worker reconciles operation k under its lease.

\* It reads the journal row before it claims the lease.
Open(w) ==
  LET o == op[worker[w].key]
  IN  /\ worker[w].pc = "open"
      /\ IF o.state = "complete" THEN Stop(w)
         ELSE worker' = [worker EXCEPT ![w].pc = "claim", ![w].receipt = o.receipt,
                                       ![w].ids = o.partial]
      /\ UNCHANGED <<event, op, card, outside, letters, faults>>

\* Slip: the claim does not look at the lease that is there.
BugStealLease(w, k) == op[k].state = "pending"
\* Slip: only a lease that was given back is free.
BugLeaseForever(w, k) == op[k].state = "pending" /\ op[k].lease = NoWorker
\* The time a claim compares with is that of the request, before the row was read.
Claimable(w, k) ==
  /\ op[k].state = "pending"
  /\ \/ op[k].lease = NoWorker
     \/ op[k].lease = Expired /\ ~worker[w].late
Claim(w) ==
  LET k == worker[w].key
  IN  /\ worker[w].pc = "claim"
      /\ IF Claimable(w, k)
         THEN op' = [op EXCEPT ![k].lease = w] /\ Goto(w, "reload")
         ELSE op' = op /\ Stop(w)
      /\ UNCHANGED <<event, card, outside, letters, faults>>

\* It reads the event again and decides which copies it knows of.
Reload(w) ==
  LET k == worker[w].key
      ids == IF Intent[k] # "release" /\ worker[w].ids # Unset
             THEN worker[w].ids ELSE event.ids
  IN  /\ worker[w].pc = "reload"
      /\ worker' = [worker EXCEPT ![w].ev = event, ![w].ids = ids,
            ![w].left = IF Intent[k] = "release" THEN {c \in Calendars : ids[c] # 0} ELSE Calendars,
            ![w].pc = CASE Intent[k] # "release" /\ ids # NoIds /\ ids[Organizer] = 0 -> "defer"
                        [] Intent[k] # "release" /\ (ids = NoIds \/ ids[Organizer] # 0) -> "find"
                        [] Intent[k] = "release" /\ ids = NoIds -> "mail"
                        [] Intent[k] = "release" /\ ids # NoIds -> "delete"]
      /\ UNCHANGED <<event, op, card, outside, letters, faults>>

\* The next calendar of a loop: the organizer first, or the organizer last.
FirstOrganizer(w, c) == c \in worker[w].left /\ (c # Organizer => Organizer \notin worker[w].left)
LastOrganizer(w, c) == c \in worker[w].left /\ (c = Organizer => worker[w].left = {Organizer})
\* After calendar c: the rest of the loop, or what follows it.
Onward(w, c, then) ==
  worker' = [worker EXCEPT ![w].left = @ \ {c},
                           ![w].pc = IF worker[w].left = {c} THEN then ELSE @]

\* A request to Google that fails, before or after it took effect, leads to pc.
Sync(w, effect, onward, pc) ==
  \/ effect /\ onward /\ UNCHANGED faults
  \/ effect /\ Goto(w, pc) /\ Fault
  \/ Goto(w, pc) /\ Fault /\ UNCHANGED <<google, accepted>>

Shows(w) == [state |-> "live", gen |-> worker[w].ev.gen, status |-> worker[w].ev.status,
             invited |-> FALSE]
Invites(w) == [Shows(w) EXCEPT !.invited = TRUE]
\* The organizer's copy is as wanted, and asks the guest if this is a reschedule.
SameInvite(w, i) ==
  /\ google[Organizer][i] = Invites(w)
  /\ Intent[worker[w].key] = "reschedule" => i \notin accepted
\* Known by its id, found by its UID, or imported silently.  What is found of
\* the organizer's copy here is what the last request below is compared with.
FindCopy(w, c) ==
  LET i == worker[w].ev.identity
      known == worker[w].ids[c]
      found == google[c][i].state = "live"
      seen == [worker[w] EXCEPT !.ids[c] = i, !.left = @ \ {c},
                                !.same = IF c = Organizer THEN SameInvite(w, i) ELSE @]
  IN  /\ worker[w].pc = "find" /\ FirstOrganizer(w, c)
      /\ IF known # 0 /\ (known # i \/ ~found)
         THEN Goto(w, "defer") /\ UNCHANGED <<google, accepted, faults>>
         ELSE Sync(w, /\ google' = IF found THEN google ELSE [google EXCEPT ![c][i] = Shows(w)]
                      /\ UNCHANGED accepted,
                   Become(w, IF seen.left = {}
                             THEN [seen EXCEPT !.pc = "patch", !.left = Calendars] ELSE seen),
                   "defer")
      /\ UNCHANGED <<event, op, card, said, letters>>

\* Slip: a reschedule leaves the guest's earlier answer on the invitation.
BugAnswerKept(w, i) == accepted
\* Rescheduling asks everybody again.
Answers(w, i) == IF Intent[worker[w].key] = "reschedule" THEN accepted \ {i} ELSE accepted
\* Slip: a mirror that is already there is taken to be current.
BugMirrorIsCurrent(w, c, i) == IF c = Organizer THEN Invites(w) ELSE google[c][i]
Patched(w, c, i) == IF c = Organizer THEN Invites(w) ELSE Shows(w)
PatchCopy(w, c) ==
  LET i == worker[w].ids[c]
  IN  /\ worker[w].pc = "patch" /\ LastOrganizer(w, c)
      /\ IF c = Organizer /\ worker[w].same
         THEN Onward(w, c, "mail") /\ UNCHANGED <<google, accepted, faults>>
         ELSE Sync(w, /\ google' = [google EXCEPT ![c][i] = Patched(w, c, i)]
                      /\ accepted' = IF c = Organizer THEN Answers(w, i) ELSE accepted,
                   Onward(w, c, "mail"), "defer")
      /\ UNCHANGED <<event, op, card, said, letters>>

\* A release defers when Google fails; the expiry of a hold goes on regardless.
DeleteCopy(w, c) ==
  LET i == worker[w].ids[c]
      expiry == worker[w].pc = "expire"
  IN  /\ worker[w].pc \in {"delete", "expire"} /\ LastOrganizer(w, c)
      /\ Sync(w, google' = [google EXCEPT ![c][i].state = "deleted"] /\ UNCHANGED accepted,
              Onward(w, c, IF expiry THEN "put" ELSE "mail"),
              IF expiry THEN "put" ELSE "defer")
      /\ UNCHANGED <<event, op, card, said, letters>>

-----------------------------------------------------------------------------
\* Deferring takes three writes: the lease is given back by the first.

DeferJournal(w) ==
  /\ worker[w].pc = "defer"
  /\ op' = [op EXCEPT ![worker[w].key].partial = worker[w].ids,
                      ![worker[w].key].lease = NoWorker]
  /\ Goto(w, "defer event")
  /\ UNCHANGED <<event, card, outside, letters, faults>>
DeferEvent(w) ==
  /\ worker[w].pc = "defer event"
  /\ event' = [event EXCEPT !.ids = worker[w].ids]
  /\ Goto(w, "defer card")
  /\ UNCHANGED <<op, card, outside, letters, faults>>
DeferCard(w) ==
  /\ worker[w].pc = "defer card"
  /\ card' = [card EXCEPT !.sync = "deferred"]
  /\ Stop(w)
  /\ UNCHANGED <<event, op, outside, letters, faults>>

-----------------------------------------------------------------------------
\* The transition's mail, and its receipt.

\* The outcome is unknown: nobody works on this operation any more.
GiveUp(w, receipt) ==
  /\ op' = [op EXCEPT ![worker[w].key] =
              [@ EXCEPT !.receipt = receipt, !.state = "unknown", !.lease = NoWorker]]
  /\ Stop(w)

\* Slip: what another worker began to send counts as unsent.
BugResend(w) == TRUE
MaySend(w) == worker[w].receipt = "none" \/ worker[w].force
Mail(w) ==
  LET k == worker[w].key
  IN  /\ worker[w].pc = "mail"
      /\ \/ /\ Intent[k] \notin Mailing \/ worker[w].receipt = "sent"
            /\ Goto(w, "finish") /\ UNCHANGED op
         \/ /\ Intent[k] \in Mailing /\ worker[w].receipt # "sent" /\ MaySend(w)
            /\ op' = [op EXCEPT ![k].receipt = "dispatching"]
            /\ Goto(w, "send")
         \/ /\ Intent[k] \in Mailing /\ worker[w].receipt # "sent" /\ ~MaySend(w)
            /\ GiveUp(w, op[k].receipt)
      /\ UNCHANGED <<event, card, outside, letters, faults>>

\* The provider may take the mail and still report a failure.
Send(w) ==
  LET out == letters' = [letters EXCEPT ![worker[w].key] = IF worker[w].force THEN @ ELSE @ + 1]
  IN  /\ worker[w].pc = "send"
      /\ \/ out /\ Goto(w, "receipt") /\ UNCHANGED faults
         \/ (out \/ UNCHANGED letters) /\ Goto(w, "unsent") /\ Fault
      /\ UNCHANGED <<event, op, card, outside>>
Sent(w) ==
  /\ worker[w].pc = "receipt"
  /\ op' = [op EXCEPT ![worker[w].key].receipt = "sent"]
  /\ Goto(w, "finish")
  /\ UNCHANGED <<event, card, outside, letters, faults>>
Unsent(w) ==
  /\ worker[w].pc = "unsent"
  /\ GiveUp(w, "unknown")
  /\ UNCHANGED <<event, card, outside, letters, faults>>

-----------------------------------------------------------------------------
\* Completion: event, journal and Card in one transaction.

CompletionHolds(w) ==
  LET k == worker[w].key
  IN  /\ event.version = worker[w].ev.version /\ event.latest = k
      /\ op[k].lease = w /\ op[k].state = "pending"
      /\ card.gen = worker[w].ev.gen
FinalIds(w) == IF Intent[worker[w].key] = "release" THEN NoIds ELSE worker[w].ids
\* A conflict leaves the operation to the lease.
Complete(w) ==
  LET k == worker[w].key
  IN  /\ worker[w].pc = "finish"
      /\ IF CompletionHolds(w)
         THEN /\ event' = [event EXCEPT !.ids = FinalIds(w), !.version = @ + 1]
              /\ op' = [op EXCEPT ![k].state = "complete", ![k].lease = NoWorker]
              /\ card' = [card EXCEPT !.sync = "synced"]
              /\ Goto(w, "note")
         ELSE Die(w) /\ UNCHANGED <<event, op, card>>
      /\ UNCHANGED <<outside, letters, faults>>
\* What the Card lists as its calendar invites is written afterwards.
Note(w) ==
  /\ worker[w].pc = "note"
  /\ card' = [card EXCEPT !.invites =
       IF Intent[worker[w].key] = "release" THEN {}
       ELSE @ \cup {<<c, worker[w].ids[c]>> : c \in Calendars}]
  /\ Stop(w)
  /\ UNCHANGED <<event, op, outside, letters, faults>>

-----------------------------------------------------------------------------
\* Everything else: crashes, time, the guest, and the expiry of holds.

Crash(w) ==
  /\ worker[w].pc \notin {"idle", "dead"}
  /\ Die(w) /\ Fault
  /\ UNCHANGED <<event, op, card, outside, letters>>

\* 120 seconds on: the stopped worker's lease ran out, if it held one.
LeaseRunsOut(w) ==
  LET held == {k \in Keys : op[k].lease = w}
  IN  /\ worker[w].pc = "dead"
      /\ op' = [k \in Keys |-> IF k \in held THEN [op[k] EXCEPT !.lease = Expired] ELSE op[k]]
      /\ worker' = [v \in Workers |->
           IF v = w THEN Idle
           ELSE IF worker[v].pc = "claim" /\ worker[v].key \in held
           THEN [worker[v] EXCEPT !.late = TRUE] ELSE worker[v]]
      /\ UNCHANGED <<event, card, outside, letters, faults>>

GuestAccepts(i) ==
  /\ "answer" \in Calls
  /\ google[Organizer][i].state = "live" /\ google[Organizer][i].invited
  /\ i \notin accepted
  /\ accepted' = accepted \cup {i}
  /\ said' = said \cup {google[Organizer][i].gen}
  /\ UNCHANGED <<event, op, card, google, worker, letters, faults>>

\* expireCalendarHolds takes proposals past their date, deletes their copies and
\* puts the row it read back as expired, whatever the row is by then.
ExpiryReads(w) ==
  /\ "expiry" \in Calls /\ worker[w].pc = "idle" /\ event.status = "proposed"
  /\ LET known == {c \in Calendars : event.ids[c] # 0}
     IN  Become(w, [Idle EXCEPT !.pc = IF known = {} THEN "put" ELSE "expire", !.ev = event,
                                !.ids = event.ids, !.left = known])
  /\ UNCHANGED <<event, op, card, outside, letters, faults>>
ExpiryPuts(w) ==
  /\ worker[w].pc = "put"
  /\ event' = [worker[w].ev EXCEPT !.status = "expired", !.version = @ + 1]
  /\ Stop(w)
  /\ UNCHANGED <<op, card, outside, letters, faults>>

\* What a call that has begun does next.
Step(w) ==
  \/ Fetch(w) \/ Accept(w) \/ Commit(w) \/ Conflict(w)
  \/ Open(w) \/ Claim(w) \/ Reload(w)
  \/ \E c \in Calendars : FindCopy(w, c) \/ PatchCopy(w, c) \/ DeleteCopy(w, c)
  \/ DeferJournal(w) \/ DeferEvent(w) \/ DeferCard(w)
  \/ Mail(w) \/ Send(w) \/ Sent(w) \/ Unsent(w) \/ Complete(w) \/ Note(w)
  \/ ExpiryPuts(w)

Next ==
  \/ \E w \in Workers :
       \/ \E k \in Keys : Request(w, k)
       \/ \E force \in BOOLEAN : Retry(w, force)
       \/ Poll(w) \/ ExpiryReads(w) \/ Step(w) \/ Crash(w) \/ LeaseRunsOut(w)
  \/ \E i \in Generations : GuestAccepts(i)

Spec == Init /\ [][Next]_vars

\* A running invocation goes on, time passes, and somebody keeps retrying: the
\* intake worker on its schedule, or an operator.
FairSpec == /\ Spec
            /\ \A w \in Workers : /\ WF_vars(Step(w)) /\ WF_vars(LeaseRunsOut(w))
                                  /\ \A force \in BOOLEAN : SF_vars(Retry(w, force))

-----------------------------------------------------------------------------
\* Properties

\* Types; and an event that has a status has a latest operation in the journal.
EventTypeOK ==
  /\ event \in EventRec
  /\ op \in [Keys -> OpRec]
  /\ card \in [gen : {0} \cup Generations, status : Statuses,
               sync : {"none", "syncing", "deferred", "synced"},
               invites : SUBSET (Calendars \X ({0} \cup Generations))]
  /\ google \in [Calendars -> [Generations -> CopyRec]]
  /\ accepted \subseteq Generations /\ said \subseteq Generations
  /\ DOMAIN worker = Workers /\ letters \in [Keys -> Nat] /\ faults \in 0..FaultLimit
  /\ event.status # "none" => event.latest # NoKey /\ op[event.latest].state # "none"

Working == {"reload", "find", "patch", "delete", "defer", "mail", "send", "receipt", "unsent",
            "finish"}
\* Between a claim and giving the lease back, however workers crash, stall and
\* retry, at most one of them acts on the event (claimEventOperation's promise).
OneReconciler ==
  \A v, w \in Workers : worker[v].pc \in Working /\ worker[w].pc \in Working => v = w

\* A Card that says its event is synced tells the truth: every calendar has a
\* live copy of that generation and status, and the guests are invited.
SyncedMeansShown ==
  card.sync = "synced" /\ card.status \in {"proposed", "approved"} =>
    /\ \A c \in Calendars :
         LET copy == google[c][event.identity]
         IN  copy.state = "live" /\ copy.gen = card.gen /\ copy.status = card.status
    /\ google[Organizer][event.identity].invited

\* An operation's mail goes out at most once unless an operator forces it: the
\* receipt written before sending survives crashes, retries and repeated keys.
MailedAtMostOnce == \A k \in Keys : letters[k] <= 1

\* The poll approves a generation only if the guest said yes to that very date:
\* an answer to an earlier date, seen late, approves nothing.
AcceptedThisDate ==
  \A g \in Generations : AcceptKey[g] # NoKey /\ op[AcceptKey[g]].state # "none" => g \in said

\* Every operation that began comes to an end: complete, or handed to a human.
OperationsResolve ==
  \A k \in Keys : op[k].state = "pending" ~> op[k].state \in {"complete", "unknown"}

\* The event a caller sees runs through the lifecycle, one operation at a time,
\* and the calendars change only as the unresolved operation wants.
Lifecycle == INSTANCE EventLifecycle WITH
  status <- event.status, generation <- event.gen, identity <- event.identity,
  doing <- IF Unresolved THEN Intent[event.latest] ELSE "nothing",
  shown <- [c \in Calendars |->
              IF event.identity # 0 /\ google[c][event.identity].state = "live"
              THEN [gen |-> google[c][event.identity].gen,
                    status |-> google[c][event.identity].status]
              ELSE [gen |-> 0, status |-> "none"]]
ImplementsLifecycle == Lifecycle!Spec
=============================================================================
