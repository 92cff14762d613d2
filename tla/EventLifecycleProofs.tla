------------------------- MODULE EventLifecycleProofs -------------------------
(***************************************************************************)
(* Proofs about what the event service shows to the world, for any numbers *)
(* of workers, keys, calendars and faults: a Card that says its event is   *)
(* synced tells the truth, the poll approves no date the guest did not say *)
(* yes to, the detailed service implements EventLifecycle, and no mail is  *)
(* repeated that faults have not paid for.  The first three follow from    *)
(* one invariant, on top of the lease's in EventOperationsProofs, and the  *)
(* last from a ledger on top of both; all of them without the expiry of    *)
(* holds, which writes around the service.                                 *)
(***************************************************************************)
EXTENDS EventOperationsProofs

\* From here on no expiry is made, so that whoever acts is alone with the row.
NobodyExpires == \A w \in Workers : worker[w].pc \notin Expiring
HeldAlone == HeldByLease /\ NobodyExpires

LEMMA AloneOperation ==
  ASSUME Typed, HeldAlone, NEW w \in Workers, worker[w].pc \in Working
  PROVE  /\ worker[w].key \in Keys /\ op[worker[w].key].state = "pending"
         /\ op[worker[w].key].lease = w /\ op[worker[w].key] \in OpRec
         /\ \A v \in Workers \ {w} : worker[v].pc \notin Working
         /\ event.latest = worker[w].key
  BY OwnOperation DEF HeldAlone

\* Where a step leaves a worker that only its own record tells.
LEMMA Moves ==
  ASSUME Typed, NEW w \in Workers
  PROVE  /\ \A pc : Goto(w, pc) => /\ worker'[w] = [worker[w] EXCEPT !.pc = pc]
                                   /\ worker'[w].pc = pc
                                   /\ \A v \in Workers \ {w} : worker'[v] = worker[v]
         /\ Stop(w) => /\ worker'[w].pc = "idle"
                       /\ \A v \in Workers \ {w} : worker'[v] = worker[v]
         /\ Die(w) => /\ worker'[w].pc = "dead"
                      /\ \A v \in Workers \ {w} : worker'[v] = worker[v]
  <1>1. worker \in [Workers -> WorkerRec] /\ worker[w] \in WorkerRec
    BY DEF Typed, Acting
  <1> QED BY <1>1 DEF Goto, Stop, Die, Become, Idle, WorkerRec

LEMMA InitAlone == Init => HeldAlone
  BY InitHeld DEF Init, Idle, HeldAlone, NobodyExpires, Expiring

LEMMA NextAlone == "expiry" \notin Calls /\ Typed /\ HeldAlone /\ [Next]_vars => HeldAlone'
  <1> SUFFICES ASSUME "expiry" \notin Calls, Typed, HeldAlone, [Next]_vars PROVE HeldAlone'
    OBVIOUS
  <1>1. HeldByLease /\ NobodyExpires
    BY DEF HeldAlone
  <1>2. ASSUME NEW w \in Workers PROVE ~ExpiryReads(w) /\ ~ExpiryPuts(w) /\ worker[w].pc \notin Expiring
    BY <1>1 DEF ExpiryReads, ExpiryPuts, NobodyExpires, Expiring
  <1>3. HeldByLease'
    BY <1>1, <1>2, NextHeld DEF FreshPuts
  <1>4. ASSUME NEW w \in Workers, worker'[w].pc \notin Expiring,
               \A v \in Workers \ {w} : worker'[v] = worker[v]
        PROVE  NobodyExpires'
    BY <1>1, <1>4 DEF NobodyExpires
  <1>5. ASSUME NEW w \in Workers, NEW r, Become(w, r), r.pc \notin Expiring PROVE NobodyExpires'
    BY <1>4, <1>5 DEF Become, Typed, Acting
  <1>6. ASSUME NEW w \in Workers, NEW pc, Goto(w, pc), pc \notin Expiring PROVE NobodyExpires'
    BY <1>4, <1>6, Moves
  <1>7. ASSUME NEW w \in Workers, Stop(w) \/ Die(w) PROVE NobodyExpires'
    BY <1>4, <1>7, Moves DEF Expiring
  <1>8. ASSUME NEW w \in Workers, NEW k, NEW gen, Plan(w, k, gen) PROVE NobodyExpires'
    <2>1. [Idle EXCEPT !.pc = "open", !.key = k].pc = "open"
      BY DEF Idle
    <2>2. [Idle EXCEPT !.pc = "commit", !.key = k, !.ev = event].pc = "commit"
      BY DEF Idle
    <2> QED BY <1>5, <1>8, <2>1, <2>2 DEF Plan, Expiring
  <1>9. ASSUME NEW w \in Workers, \E k \in Keys : Request(w, k) PROVE NobodyExpires'
    BY <1>8, <1>9 DEF Request
  <1>10. ASSUME NEW w \in Workers, NEW force \in BOOLEAN, Retry(w, force) PROVE NobodyExpires'
    <2>1. [Idle EXCEPT !.pc = "open", !.key = event.latest, !.force = force].pc = "open"
      BY DEF Idle
    <2> QED BY <1>5, <1>10, <2>1 DEF Retry, Expiring
  <1>11. ASSUME NEW w \in Workers, Poll(w) PROVE NobodyExpires'
    <2>1. [Idle EXCEPT !.pc = "fetch", !.ev = event].pc = "fetch"
      BY DEF Idle
    <2> QED BY <1>5, <1>11, <2>1 DEF Poll, Expiring
  <1>12. ASSUME NEW w \in Workers, Fetch(w) PROVE NobodyExpires'
    <2>1. [Idle EXCEPT !.pc = "plan", !.key = AcceptKey[worker[w].ev.gen],
                       !.gen = worker[w].ev.gen].pc = "plan"
      BY DEF Idle
    <2> QED BY <1>5, <1>7, <1>12, <2>1 DEF Fetch, Expiring
  <1>13. ASSUME NEW w \in Workers, Accept(w) \/ Conflict(w) \/ Commit(w) PROVE NobodyExpires'
    BY <1>6, <1>7, <1>8, <1>13 DEF Accept, Conflict, Commit, Expiring
  <1>14. ASSUME NEW w \in Workers, Open(w) \/ Reload(w) PROVE NobodyExpires'
    <2>1. worker \in [Workers -> WorkerRec] /\ worker[w] \in WorkerRec
      BY DEF Typed, Acting
    <2>2. CASE Stop(w)
      BY <1>7, <2>2
    <2>3. CASE Open(w) /\ ~Stop(w)
      BY <1>4, <2>1, <2>3 DEF Open, Expiring, WorkerRec
    <2>4. CASE Reload(w)
      <3> DEFINE ids == IF Intent[worker[w].key] # "release" /\ worker[w].ids # Unset
                        THEN worker[w].ids ELSE event.ids
                 pc == CASE Intent[worker[w].key] # "release" /\ ids # NoIds /\ ids[Organizer] = 0 -> "defer"
                        [] Intent[worker[w].key] # "release" /\ (ids = NoIds \/ ids[Organizer] # 0) -> "find"
                        [] Intent[worker[w].key] = "release" /\ ids = NoIds -> "mail"
                        [] Intent[worker[w].key] = "release" /\ ids # NoIds -> "delete"
      <3>1. worker'[w].pc = pc /\ \A v \in Workers \ {w} : worker'[v] = worker[v]
        BY <2>1, <2>4 DEF Reload, WorkerRec
      <3> HIDE DEF ids
      <3>2. pc \notin Expiring
        BY DEF Expiring
      <3> QED BY <1>4, <3>1, <3>2
    <2> QED BY <1>14, <2>2, <2>3, <2>4
  <1>15. ASSUME NEW w \in Workers, NEW c \in Calendars,
                FindCopy(w, c) \/ PatchCopy(w, c) \/ DeleteCopy(w, c)
         PROVE  NobodyExpires'
    <2>1. worker \in [Workers -> WorkerRec] /\ worker[w] \in WorkerRec
      BY DEF Typed, Acting
    <2>2. ASSUME NEW pc \in {"defer", "mail"}, Goto(w, pc) \/ Onward(w, c, pc) PROVE NobodyExpires'
      <3>1. /\ worker'[w].pc \in {pc, worker[w].pc}
            /\ \A v \in Workers \ {w} : worker'[v] = worker[v]
        BY <2>1, <2>2 DEF Goto, Onward, WorkerRec
      <3> QED BY <1>2, <1>4, <3>1 DEF Expiring
    <2>3. CASE PatchCopy(w, c) \/ DeleteCopy(w, c)
      <3>1. worker[w].pc # "expire"
        BY <1>2 DEF Expiring
      <3> QED BY <2>2, <2>3, <3>1 DEF PatchCopy, DeleteCopy, Sync
    <2>4. CASE FindCopy(w, c)
      <3> DEFINE i == worker[w].ev.identity
                 seen == [worker[w] EXCEPT !.ids[c] = i, !.left = @ \ {c},
                                           !.same = IF c = Organizer THEN SameInvite(w, i) ELSE @]
                 r == IF seen.left = {} THEN [seen EXCEPT !.pc = "patch", !.left = Calendars] ELSE seen
      <3>1. Goto(w, "defer") \/ Become(w, r)
        BY <2>4 DEF FindCopy, Sync
      <3>2. seen.pc = "find"
        BY <2>1, <2>4 DEF FindCopy, WorkerRec
      <3>3. r.pc \in {"find", "patch"}
        <4>1. CASE seen.left = {}
          BY <2>1, <4>1 DEF WorkerRec
        <4>2. CASE seen.left # {}
          <5> HIDE DEF seen
          <5> QED BY <3>2, <4>2
        <4> QED BY <4>1, <4>2
      <3> HIDE DEF r
      <3> QED BY <1>5, <2>2, <3>1, <3>3 DEF Expiring
    <2> QED BY <1>15, <2>3, <2>4
  <1>16. ASSUME NEW w \in Workers,
                \/ Claim(w) \/ DeferJournal(w) \/ DeferEvent(w) \/ DeferCard(w) \/ Mail(w)
                \/ Send(w) \/ Sent(w) \/ Unsent(w) \/ Complete(w) \/ Note(w) \/ Crash(w)
         PROVE  NobodyExpires'
    <2>1. \/ Stop(w) \/ Die(w)
          \/ \E pc \in {"reload", "defer event", "defer card", "finish", "send", "receipt", "unsent",
                        "note"} : Goto(w, pc)
      BY <1>16 DEF Claim, DeferJournal, DeferEvent, DeferCard, Mail, GiveUp, Send, Sent, Unsent,
                   Complete, Note, Crash
    <2> QED BY <1>6, <1>7, <2>1 DEF Expiring
  <1>17. ASSUME NEW w \in Workers, LeaseRunsOut(w) PROVE NobodyExpires'
    <2>1. \A v \in Workers : worker'[v].pc \in {"idle", worker[v].pc}
      BY <1>17 DEF LeaseRunsOut, Idle, Typed, Acting, WorkerRec
    <2> QED BY <1>1, <2>1 DEF NobodyExpires, Expiring
  <1>18. ASSUME UNCHANGED worker PROVE NobodyExpires'
    BY <1>1, <1>18 DEF NobodyExpires
  <1>19. NobodyExpires'
    <2>1. ASSUME NEW w \in Workers, Step(w) PROVE NobodyExpires'
      BY <1>2, <1>12, <1>13, <1>14, <1>15, <1>16, <2>1 DEF Step
    <2> QED BY <1>2, <1>9, <1>10, <1>11, <1>16, <1>17, <1>18, <2>1 DEF Next, GuestAccepts, vars
  <1> QED BY <1>3, <1>19 DEF HeldAlone

\* Rows e and f say the same of the event; the ids they know may differ, as
\* a deferral writes them without a version.
SameRow(e, f) == /\ e.version = f.version /\ e.gen = f.gen /\ e.identity = f.identity
                 /\ e.status = f.status /\ e.latest = f.latest

Below(ids, gen) == \A c \in Calendars : ids[c] <= gen

\* What calendar c should hold of event e, and that every calendar does.
Wanted(c, e) == [state |-> "live", gen |-> e.gen, status |-> e.status, invited |-> c = Organizer]
AllShow(e, g) == \A c \in Calendars : g[c][e.identity] = Wanted(c, e)

\* The organizer's copy that is there shows the event's generation.
Dated(e, g) == g[Organizer][e.identity].state = "live" => g[Organizer][e.identity].gen = e.gen

\* How far a worker's record r has come with event e and the calendars g.
Closing == {"mail", "send", "receipt", "unsent", "finish"}
Found(r, e, g, c) == r.ids[c] = e.identity /\ g[c][e.identity].state = "live"
Current(r, e, g) == r.same => g[Organizer][e.identity] = Wanted(Organizer, e)
Progress(r, e, g) ==
  /\ r.pc = "delete" => Intent[r.key] = "release"
  /\ r.pc \in {"find", "patch"} => Intent[r.key] # "release"
  /\ r.pc = "find" => /\ \A c \in Calendars \ r.left : Found(r, e, g, c)
                      /\ Organizer \notin r.left => Current(r, e, g)
  /\ r.pc = "patch" => /\ \A c \in Calendars : Found(r, e, g, c)
                       /\ Current(r, e, g)
                       /\ \A c \in Calendars \ r.left : g[c][e.identity] = Wanted(c, e)
  /\ r.pc \in Closing /\ Intent[r.key] # "release" => AllShow(e, g)

\* A plan that may still be committed was made of this very row, and one that
\* accepts a generation has the guest's yes.
Sound(r, e, yes) ==
  /\ r.ev.version = e.version => SameRow(r.ev, e)
  /\ Intent[r.key] = "propose" <=> ~Active(r.ev)
  /\ Intent[r.key] = "approve" => r.ev.status # "approved"
  /\ \A h \in Generations : AcceptKey[h] = r.key => h \in yes

Trust(r, e, g, yes) ==
  /\ Below(r.ids, e.gen) /\ Below(r.ev.ids, e.gen)
  /\ r.pc = "plan" => r.gen \in yes /\ r.key = AcceptKey[r.gen]
  /\ r.pc = "commit" => Sound(r, e, yes)
  /\ r.pc \in Working \ {"reload"} => SameRow(r.ev, e)
  /\ Progress(r, e, g)
Trusted == \A w \in Workers : Trust(worker[w], event, google, said)

\* The event row: its status is its latest operation's, its identity one of
\* its generations, and the Card says what it says.
StatusOf(k) == CASE k \in Proposals -> "proposed" [] Intent[k] = "approve" -> "approved"
                 [] OTHER -> "released"
Row ==
  /\ event.latest # NoKey => event.status = StatusOf(event.latest) /\ event.identity # 0
  /\ event.identity <= event.gen
  /\ Below(event.ids, event.gen)
  /\ \A k \in Keys : Below(op[k].partial, event.gen)
  /\ card.gen = event.gen /\ card.status = event.status
  /\ card.sync = "synced" => ~Unresolved

\* The calendars: nothing of a generation to come, nothing deleted of an event
\* that goes on, and all of it current when no operation is under way.
Ongoing(e) == e.status \in {"proposed", "approved"}
Calm ==
  /\ \A c \in Calendars, i \in Generations :
       /\ i > event.gen => google[c][i].state = "absent"
       /\ google[c][i].state = "deleted" => ~(i = event.identity /\ Ongoing(event))
  /\ Ongoing(event) /\ ~Unresolved => AllShow(event, google)
  /\ Ongoing(event) /\ Intent[event.latest] # "reschedule" => Dated(event, google)

\* The guest's answers: one on a copy that is there is to a date it said yes to.
Answered ==
  \A i \in accepted : /\ google[Organizer][i].state # "absent"
                      /\ google[Organizer][i].state = "live" => google[Organizer][i].gen \in said
Approved ==
  \A g \in Generations : AcceptKey[g] # NoKey /\ op[AcceptKey[g]].state # "none" => g \in said

World == Row /\ Calm /\ Answered /\ Approved
Truthful == Trusted /\ World

-----------------------------------------------------------------------------
\* What is trusted stays so while the row and the calendars do.

LEMMA RowNumbers ==
  ASSUME NEW e \in EventRec
  PROVE  /\ e.gen \in Nat /\ e.identity \in Nat /\ e.version \in Nat
         /\ \A c \in Calendars : e.ids[c] \in Int
  BY DEF EventRec, Generations, Ids

LEMMA WorkerNumbers ==
  ASSUME NEW r \in WorkerRec
  PROVE  /\ r.ev \in EventRec
         /\ \A c \in Calendars : r.ids[c] \in Int
  BY DEF WorkerRec, Generations, Ids, Unset

LEMMA SameRowTrust ==
  ASSUME NEW r, NEW e, NEW f, NEW g, NEW yes, NEW more, SameRow(e, f), yes \subseteq more,
         Trust(r, e, g, yes)
  PROVE  Trust(r, f, g, more)
  <1>1. r.pc = "commit" => Sound(r, f, more)
    BY DEF Trust, Sound, SameRow
  <1>2. Progress(r, f, g)
    <2>1. \A c \in Calendars : Wanted(c, f) = Wanted(c, e) /\ (Found(r, f, g, c) <=> Found(r, e, g, c))
      BY DEF SameRow, Wanted, Found
    <2>2. Current(r, f, g) <=> Current(r, e, g)
      BY DEF SameRow, Wanted, Current
    <2>3. AllShow(f, g) <=> AllShow(e, g)
      BY <2>1 DEF SameRow, AllShow
    <2> QED BY <2>1, <2>2, <2>3 DEF Trust, Progress, SameRow
  <1> QED BY <1>1, <1>2 DEF Trust, SameRow, Below

\* Who does not act depends on nothing that those who act change.
LEMMA IdleTrust ==
  ASSUME NEW r \in WorkerRec, NEW e \in EventRec, NEW f \in EventRec, NEW g, NEW h,
         NEW yes, NEW more, yes \subseteq more,
         e.gen <= f.gen, r.pc \notin Working,
         r.pc = "commit" /\ r.ev.version = f.version => SameRow(e, f), Trust(r, e, g, yes)
  PROVE  Trust(r, f, h, more)
  <1>1. r.pc = "commit" => Sound(r, f, more)
    BY DEF Trust, Sound, SameRow
  <1>2. Progress(r, f, h)
    BY DEF Progress, Working, Closing
  <1>3. Below(r.ids, f.gen) /\ Below(r.ev.ids, f.gen)
    BY RowNumbers, WorkerNumbers DEF Trust, Below
  <1> QED BY <1>1, <1>2, <1>3 DEF Trust

\* One worker moves, and the row stays but for its ids.
LEMMA MoveTrusted ==
  ASSUME Trusted, SameRow(event, event'), UNCHANGED google, said \subseteq said', NEW w \in Workers,
         \A v \in Workers \ {w} : worker'[v] = worker[v],
         Trust(worker'[w], event', google', said')
  PROVE  Trusted'
  <1>1. ASSUME NEW v \in Workers \ {w} PROVE Trust(worker'[v], event', google', said')
    BY SameRowTrust DEF Trusted
  <1> QED BY <1>1 DEF Trusted

\* One worker moves while no other acts.
LEMMA ActTrusted ==
  ASSUME Typed, Typed', Trusted, event.gen <= event'.gen, said \subseteq said', NEW w \in Workers,
         \A v \in Workers \ {w} : /\ worker'[v] = worker[v] /\ worker[v].pc \notin Working
                                  /\ worker[v].pc = "commit" /\ worker[v].ev.version = event'.version
                                     => SameRow(event, event'),
         Trust(worker'[w], event', google', said')
  PROVE  Trusted'
  <1>1. event \in EventRec /\ event' \in EventRec /\ \A v \in Workers : worker[v] \in WorkerRec
    BY DEF Typed, Tables, Acting, KnownAt
  <1>2. ASSUME NEW v \in Workers \ {w} PROVE Trust(worker'[v], event', google', said')
    BY <1>1, IdleTrust DEF Trusted
  <1> QED BY <1>2 DEF Trusted

LEMMA IdleTrusted ==
  ASSUME NEW e \in EventRec, NEW g, NEW yes, NEW r,
         r \in {Idle, [Idle EXCEPT !.pc = "dead"]}
  PROVE  Trust(r, e, g, yes)
  <1>1. r.ids = NoIds /\ r.ev = NoEvent /\ r.pc \in {"idle", "dead"}
    BY DEF Idle
  <1>2. Below(NoIds, e.gen) /\ NoEvent.ids = NoIds
    BY RowNumbers DEF Below, NoIds, NoEvent
  <1> QED BY <1>1, <1>2 DEF Trust, Progress, Working, Closing

LEMMA StopTrusted ==
  ASSUME Typed, Trusted, UNCHANGED <<event, google, said>>, NEW w \in Workers, Stop(w) \/ Die(w)
  PROVE  Trusted'
  <1>1. event \in EventRec /\ SameRow(event, event')
    BY DEF Typed, Tables, KnownAt, SameRow
  <1>2. /\ worker'[w] \in {Idle, [Idle EXCEPT !.pc = "dead"]}
        /\ \A v \in Workers \ {w} : worker'[v] = worker[v]
    BY DEF Stop, Die, Become, Typed, Acting
  <1>3. Trust(worker'[w], event', google', said')
    BY <1>1, <1>2, IdleTrusted
  <1> QED BY <1>1, <1>2, <1>3, MoveTrusted

\* A worker goes on to a place where no more is asked of it.
LEMMA GoTrust ==
  ASSUME NEW r \in WorkerRec, NEW e, NEW g, NEW yes, Trust(r, e, g, yes), NEW pc,
         \/ pc \notin Working \cup {"plan", "commit"}
         \/ pc = "reload"
         \/ pc = "defer" /\ r.pc \in Working \ {"reload"}
         \/ pc \in Closing /\ r.pc \in Closing
  PROVE  Trust([r EXCEPT !.pc = pc], e, g, yes)
  <1> DEFINE q == [r EXCEPT !.pc = pc]
  <1>1. q.pc = pc /\ q.ids = r.ids /\ q.ev = r.ev /\ q.key = r.key
    BY DEF WorkerRec
  <1> HIDE DEF q
  <1>2. q.pc \notin {"plan", "commit", "find", "patch", "delete"}
    BY <1>1 DEF Working, Closing
  <1>3. Progress(q, e, g)
    BY <1>1, <1>2 DEF Trust, Progress, Working, Closing
  <1>4. q.pc \in Working \ {"reload"} => SameRow(q.ev, e)
    BY <1>1 DEF Trust, Closing, Working
  <1>5. Trust(q, e, g, yes)
    BY <1>1, <1>2, <1>3, <1>4 DEF Trust
  <1> QED BY <1>5 DEF q

LEMMA GotoTrusted ==
  ASSUME Typed, Trusted, SameRow(event, event'), UNCHANGED <<google, said>>, NEW w \in Workers,
         NEW pc, Goto(w, pc),
         \/ pc \notin Working \cup {"plan", "commit"}
         \/ pc = "reload"
         \/ pc = "defer" /\ worker[w].pc \in Working \ {"reload"}
         \/ pc \in Closing /\ worker[w].pc \in Closing
  PROVE  Trusted'
  <1>1. /\ worker'[w] = [worker[w] EXCEPT !.pc = pc] /\ worker[w] \in WorkerRec
        /\ \A v \in Workers \ {w} : worker'[v] = worker[v]
    BY DEF Goto, Typed, Acting
  <1>2. Trust(worker'[w], event, google, said)
    BY <1>1, GoTrust DEF Trusted
  <1>3. Trust(worker'[w], event', google', said')
    BY <1>2, SameRowTrust
  <1> QED BY <1>1, <1>3, MoveTrusted

\* What the world shows does not depend on who leases what, and a Card may
\* stop claiming to be synced.
LEMMA JournalWorld ==
  ASSUME Typed, World, UNCHANGED <<event, google, accepted, said>>,
         card'.gen = card.gen, card'.status = card.status,
         card'.sync = "synced" => card.sync = "synced",
         \A k \in Keys : /\ op'[k].state = "complete" <=> op[k].state = "complete"
                         /\ op'[k].state = "none" <=> op[k].state = "none"
                         /\ Below(op'[k].partial, event.gen)
  PROVE  World'
  <1>1. Unresolved' <=> Unresolved
    BY DEF Typed, Tables, KnownAt, EventRec, Unresolved
  <1>2. Row'
    BY <1>1 DEF World, Row
  <1>3. Calm'
    BY <1>1 DEF World, Calm
  <1>4. Answered' /\ Approved'
    BY EventOperationsAssumption DEF World, Answered, Approved
  <1> QED BY <1>2, <1>3, <1>4 DEF World

LEMMA SameWorld ==
  ASSUME Typed, World, UNCHANGED <<event, op, google, accepted, said>>,
         card'.gen = card.gen, card'.status = card.status,
         card'.sync = "synced" => card.sync = "synced"
  PROVE  World'
  <1>1. \A k \in Keys : Below(op'[k].partial, event.gen)
    BY DEF World, Row
  <1> QED BY <1>1, JournalWorld

-----------------------------------------------------------------------------
\* Steps that only move a worker.

\* A worker that starts over at one of the first places.
LEMMA StartTrusted ==
  ASSUME Typed, Trusted, UNCHANGED <<event, google, said>>, NEW w \in Workers, NEW r, Become(w, r),
         r.ids = NoIds, Below(r.ev.ids, event.gen),
         \/ r.pc \in {"open", "fetch"}
         \/ r.pc = "plan" /\ r.gen \in said /\ r.key = AcceptKey[r.gen]
         \/ r.pc = "commit" /\ Sound(r, event, said)
  PROVE  Trusted'
  <1>1. worker'[w] = r /\ \A v \in Workers \ {w} : worker'[v] = worker[v]
    BY DEF Become, Typed, Acting
  <1>2. event \in EventRec /\ SameRow(event, event')
    BY DEF Typed, Tables, KnownAt, SameRow
  <1>3. Below(r.ids, event.gen)
    BY <1>2, RowNumbers DEF Below, NoIds
  <1>4. Trust(r, event, google, said)
    BY <1>3 DEF Trust, Progress, Working, Closing
  <1> QED BY <1>1, <1>2, <1>4, MoveTrusted

LEMMA PlansTrusted ==
  ASSUME Typed, Truthful, UNCHANGED <<event, google, said>>, NEW w \in Workers, NEW k \in Keys,
         NEW gen, Plan(w, k, gen), \A g \in Generations : AcceptKey[g] = k => g \in said
  PROVE  Trusted'
  <1>1. event \in EventRec /\ Below(event.ids, event.gen) /\ Below(NoIds, event.gen)
    BY RowNumbers DEF Typed, Tables, KnownAt, Truthful, World, Row, Below, NoIds
  <1>2. CASE Become(w, [Idle EXCEPT !.pc = "open", !.key = k])
    <2> DEFINE r == [Idle EXCEPT !.pc = "open", !.key = k]
    <2>1. r.pc = "open" /\ r.ids = NoIds /\ r.ev.ids = NoIds
      BY DEF Idle, NoEvent
    <2> HIDE DEF r
    <2>2. Become(w, r)
      BY <1>2 DEF r
    <2> QED BY <1>1, <2>1, <2>2, StartTrusted DEF Truthful
  <1>3. CASE /\ Plannable(Intent[k], gen)
             /\ Become(w, [Idle EXCEPT !.pc = "commit", !.key = k, !.ev = event])
    <2> DEFINE r == [Idle EXCEPT !.pc = "commit", !.key = k, !.ev = event]
    <2>1. r.pc = "commit" /\ r.ids = NoIds /\ r.ev = event /\ r.key = k
      BY DEF Idle
    <2> HIDE DEF r
    <2>2. Sound(r, event, said)
      BY <1>3, <2>1 DEF Sound, SameRow, Plannable, Allowed, Active
    <2>3. Become(w, r)
      BY <1>3 DEF r
    <2> QED BY <1>1, <2>1, <2>2, <2>3, StartTrusted DEF Truthful
  <1> QED BY <1>2, <1>3 DEF Plan

\* Requests, retries and the poll.
LEMMA RequestsTruthful ==
  ASSUME Typed, Truthful, NEW w \in Workers,
         \/ \E k \in Keys : Request(w, k)
         \/ \E force \in BOOLEAN : Retry(w, force)
         \/ Poll(w) \/ Fetch(w) \/ Accept(w) \/ Conflict(w)
  PROVE  Truthful'
  <1>1. UNCHANGED <<event, op, card, google, accepted, said>>
    BY DEF Request, Retry, Poll, Fetch, Accept, Conflict, outside
  <1>2. World'
    BY <1>1, SameWorld DEF Truthful
  <1>3. /\ event \in EventRec /\ Below(event.ids, event.gen) /\ Below(NoIds, event.gen)
        /\ worker[w] \in WorkerRec /\ Fine(worker[w], Committed, Begun)
        /\ Trust(worker[w], event, google, said)
    BY RowNumbers DEF Typed, Tables, Acting, KnownAt, Truthful, World, Row, Below, NoIds, Trusted
  <1>4. ASSUME NEW k \in Keys, Request(w, k) PROVE Trusted'
    BY <1>1, <1>4, PlansTrusted DEF Request
  <1>5. ASSUME NEW force \in BOOLEAN, Retry(w, force) PROVE Trusted'
    <2> DEFINE r == [Idle EXCEPT !.pc = "open", !.key = event.latest, !.force = force]
    <2>1. r.pc = "open" /\ r.ids = NoIds /\ r.ev.ids = NoIds
      BY DEF Idle, NoEvent
    <2> HIDE DEF r
    <2>2. Become(w, r)
      BY <1>5 DEF Retry, r
    <2> QED BY <1>1, <1>3, <2>1, <2>2, StartTrusted DEF Truthful
  <1>6. ASSUME Poll(w) PROVE Trusted'
    <2> DEFINE r == [Idle EXCEPT !.pc = "fetch", !.ev = event]
    <2>1. r.pc = "fetch" /\ r.ids = NoIds /\ r.ev = event
      BY DEF Idle
    <2> HIDE DEF r
    <2>2. Become(w, r)
      BY <1>6 DEF Poll, r
    <2> QED BY <1>1, <1>3, <2>1, <2>2, StartTrusted DEF Truthful
  <1>7. ASSUME Fetch(w) PROVE Trusted'
    <2> DEFINE ev == worker[w].ev
               i == ev.ids[Organizer]
               r == [Idle EXCEPT !.pc = "plan", !.key = AcceptKey[ev.gen], !.gen = ev.gen]
    <2>1. CASE /\ google[Organizer][i].state = "live" /\ google[Organizer][i].gen = ev.gen
               /\ i \in accepted /\ Become(w, r)
      <3>1. ev.gen \in said
        BY <2>1 DEF Truthful, World, Answered
      <3>2. r.pc = "plan" /\ r.ids = NoIds /\ r.ev.ids = NoIds
            /\ r.gen = ev.gen /\ r.key = AcceptKey[ev.gen]
        BY DEF Idle, NoEvent
      <3>3. Become(w, r)
        BY <2>1
      <3> HIDE DEF r, ev
      <3> QED BY <1>1, <1>3, <3>1, <3>2, <3>3, StartTrusted DEF Truthful
    <2>2. CASE Stop(w)
      BY <1>1, <2>2, StopTrusted DEF Truthful
    <2> QED BY <1>7, <2>1, <2>2 DEF Fetch
  <1>8. ASSUME Accept(w) PROVE Trusted'
    <2>1. CASE Plan(w, worker[w].key, worker[w].gen)
      <3>1. worker[w].key \in Keys /\ worker[w].key = AcceptKey[worker[w].gen]
            /\ worker[w].gen \in said
        BY <1>3, <1>8 DEF Accept, Fine, Trust
      <3>2. \A g \in Generations : AcceptKey[g] = worker[w].key => g \in said
        BY <3>1, EventOperationsAssumption DEF Typed, Tables
      <3> QED BY <1>1, <2>1, <3>1, <3>2, PlansTrusted
    <2>2. CASE Stop(w)
      BY <1>1, <2>2, StopTrusted DEF Truthful
    <2> QED BY <1>8, <2>1, <2>2 DEF Accept
  <1>9. ASSUME Conflict(w) PROVE Trusted'
    BY <1>1, <1>9, StopTrusted DEF Conflict, Truthful
  <1> QED BY <1>2, <1>4, <1>5, <1>6, <1>7, <1>8, <1>9 DEF Truthful

-----------------------------------------------------------------------------
\* Leases, the journal and the mail.

\* A worker's row of the journal is rewritten while its operation goes on.
LEMMA RowWorld ==
  ASSUME Typed, World, UNCHANGED <<event, card, google, accepted, said>>, NEW k \in Keys, NEW o,
         op' = [op EXCEPT ![k] = o], op[k].state = "pending", o.state \in {"pending", "unknown"},
         Below(o.partial, event.gen)
  PROVE  World'
  <1>1. \A j \in Keys : /\ op'[j].state = "complete" <=> op[j].state = "complete"
                        /\ op'[j].state = "none" <=> op[j].state = "none"
                        /\ Below(op'[j].partial, event.gen)
    BY DEF Typed, Tables, World, Row
  <1> QED BY <1>1, JournalWorld

LEMMA LeaseTruthful ==
  ASSUME Typed, Truthful, NEW w \in Workers, Open(w) \/ Claim(w) \/ Reload(w)
  PROVE  Truthful'
  <1> DEFINE k == worker[w].key
  <1>1. /\ UNCHANGED <<event, card, google, accepted, said>> /\ SameRow(event, event')
        /\ event \in EventRec /\ op \in [Keys -> OpRec]
    BY DEF Open, Claim, Reload, outside, SameRow, Typed, Tables, KnownAt
  <1>2. k \in Keys /\ worker[w] \in WorkerRec /\ Trust(worker[w], event, google, said)
        /\ Below(event.ids, event.gen) /\ Below(op[k].partial, event.gen)
    BY DEF Open, Claim, Reload, Typed, Acting, Fine, Handling, Working, Truthful, Trusted, World, Row
  <1>3. CASE Open(w)
    <2>1. World'
      BY <1>1, <1>3, SameWorld DEF Open, Truthful
    <2>2. CASE Stop(w)
      BY <1>1, <2>1, <2>2, StopTrusted DEF Truthful
    <2>3. CASE worker' = [worker EXCEPT ![w].pc = "claim", ![w].receipt = op[k].receipt,
                                        ![w].ids = op[k].partial]
      <3>1. /\ worker'[w].pc = "claim" /\ worker'[w].ids = op[k].partial
            /\ worker'[w].ev = worker[w].ev
            /\ \A v \in Workers \ {w} : worker'[v] = worker[v]
        BY <1>2, <2>3 DEF Typed, Acting, WorkerRec
      <3>2. Trust(worker'[w], event', google', said')
        BY <1>1, <1>2, <3>1 DEF Trust, Progress, Working, Closing
      <3> QED BY <1>1, <2>1, <3>1, <3>2, MoveTrusted DEF Truthful
    <2> QED BY <1>3, <2>2, <2>3 DEF Open
  <1>4. CASE Claim(w)
    <2>1. CASE Claimable(w, k) /\ op' = [op EXCEPT ![k].lease = w] /\ Goto(w, "reload")
      <3> DEFINE o == [op[k] EXCEPT !.lease = w]
      <3>1. op' = [op EXCEPT ![k] = o] /\ o.state = "pending" /\ op[k].state = "pending"
            /\ o.partial = op[k].partial
        BY <1>1, <1>2, <2>1 DEF Claimable, OpRec
      <3> HIDE DEF o
      <3>2. World'
        BY <1>1, <1>2, <3>1, RowWorld DEF Truthful
      <3>3. Trusted'
        BY <1>1, <2>1, GotoTrusted DEF Truthful
      <3> QED BY <3>2, <3>3 DEF Truthful
    <2>2. CASE op' = op /\ Stop(w)
      BY <1>1, <2>2, StopTrusted, SameWorld DEF Truthful
    <2> QED BY <1>4, <2>1, <2>2 DEF Claim
  <1>5. CASE Reload(w)
    <2> DEFINE ids == IF Intent[k] # "release" /\ worker[w].ids # Unset
                      THEN worker[w].ids ELSE event.ids
               left == IF Intent[k] = "release" THEN {c \in Calendars : ids[c] # 0} ELSE Calendars
               pc == CASE Intent[k] # "release" /\ ids # NoIds /\ ids[Organizer] = 0 -> "defer"
                       [] Intent[k] # "release" /\ (ids = NoIds \/ ids[Organizer] # 0) -> "find"
                       [] Intent[k] = "release" /\ ids = NoIds -> "mail"
                       [] Intent[k] = "release" /\ ids # NoIds -> "delete"
    <2>1. worker' = [worker EXCEPT ![w].ev = event, ![w].ids = ids, ![w].left = left, ![w].pc = pc]
      BY <1>5 DEF Reload
    <2>2. Below(ids, event.gen)
      BY <1>2 DEF Trust
    <2>3. pc \in {"defer", "find", "mail", "delete"}
      <3> HIDE DEF ids
      <3> QED OBVIOUS
    <2>4. /\ pc = "find" => Intent[k] # "release" /\ left = Calendars
          /\ pc \in {"mail", "delete"} => Intent[k] = "release"
      <3> HIDE DEF ids
      <3> QED OBVIOUS
    <2> HIDE DEF ids, left, pc
    <2>5. /\ worker'[w].ev = event /\ worker'[w].ids = ids /\ worker'[w].left = left
          /\ worker'[w].pc = pc /\ worker'[w].key = k
          /\ \A v \in Workers \ {w} : worker'[v] = worker[v]
      BY <1>2, <2>1 DEF Typed, Acting, WorkerRec
    <2> HIDE DEF k
    <2>6. Progress(worker'[w], event, google)
      BY <2>3, <2>4, <2>5 DEF Progress, Closing, Calendars
    <2>7. Trust(worker'[w], event', google', said')
      BY <1>1, <1>2, <2>2, <2>3, <2>5, <2>6 DEF Trust, SameRow
    <2>8. World'
      BY <1>1, <1>5, SameWorld DEF Reload, Truthful
    <2> QED BY <1>1, <2>5, <2>7, <2>8, MoveTrusted DEF Truthful
  <1> QED BY <1>3, <1>4, <1>5

LEMMA MailTruthful ==
  ASSUME Typed, HeldAlone, Truthful, NEW w \in Workers, Mail(w) \/ Send(w) \/ Sent(w) \/ Unsent(w)
  PROVE  Truthful'
  <1> DEFINE k == worker[w].key
  <1>1. /\ UNCHANGED <<event, card, google, accepted, said>> /\ SameRow(event, event')
        /\ worker[w].pc \in Closing /\ worker[w].pc \in Working
    BY DEF Mail, Send, Sent, Unsent, outside, SameRow, Closing, Working
  <1>2. /\ k \in Keys /\ op[k] \in OpRec /\ op[k].state = "pending"
        /\ Below(op[k].partial, event.gen)
    BY <1>1, AloneOperation DEF Typed, Tables, Truthful, World, Row
  <1>3. ASSUME NEW receipt, GiveUp(w, receipt) PROVE Truthful'
    <2> DEFINE o == [op[k] EXCEPT !.receipt = receipt, !.state = "unknown", !.lease = NoWorker]
    <2>1. op' = [op EXCEPT ![k] = o] /\ o.state = "unknown" /\ o.partial = op[k].partial /\ Stop(w)
      BY <1>2, <1>3 DEF GiveUp, OpRec
    <2> HIDE DEF o
    <2>2. World'
      BY <1>1, <1>2, <2>1, RowWorld DEF Truthful
    <2> QED BY <1>1, <2>1, <2>2, StopTrusted DEF Truthful
  <1>4. ASSUME NEW receipt, op' = [op EXCEPT ![k].receipt = receipt],
               Goto(w, "send") \/ Goto(w, "finish")
        PROVE  Truthful'
    <2> DEFINE o == [op[k] EXCEPT !.receipt = receipt]
    <2>1. op' = [op EXCEPT ![k] = o] /\ o.state = "pending" /\ o.partial = op[k].partial
      BY <1>2, <1>4 DEF OpRec, Typed, Tables
    <2> HIDE DEF o
    <2>2. World'
      BY <1>1, <1>2, <2>1, RowWorld DEF Truthful
    <2>3. Trusted'
      BY <1>1, <1>4, GotoTrusted DEF Truthful, Closing
    <2> QED BY <2>2, <2>3 DEF Truthful
  <1>5. ASSUME UNCHANGED op, Goto(w, "finish") \/ Goto(w, "receipt") \/ Goto(w, "unsent")
        PROVE  Truthful'
    <2>1. Trusted'
      BY <1>1, <1>5, GotoTrusted DEF Truthful, Closing
    <2> QED BY <1>1, <1>5, <2>1, SameWorld DEF Truthful
  <1> QED BY <1>3, <1>4, <1>5 DEF Mail, Send, Sent, Unsent

\* The three writes of a deferral; the Card's note; a crash.
LEMMA DeferTruthful ==
  ASSUME Typed, HeldAlone, Truthful, NEW w \in Workers,
         DeferJournal(w) \/ DeferEvent(w) \/ DeferCard(w) \/ Note(w) \/ Crash(w)
  PROVE  Truthful'
  <1> DEFINE k == worker[w].key
  <1>1. /\ UNCHANGED <<google, accepted, said>> /\ event \in EventRec
        /\ Below(worker[w].ids, event.gen) /\ card \in CardRow
    BY DEF DeferJournal, DeferEvent, DeferCard, Note, Crash, outside, Typed, Tables, KnownAt,
           Truthful, Trusted, Trust
  <1>2. CASE DeferJournal(w)
    <2> DEFINE o == [op[k] EXCEPT !.partial = worker[w].ids, !.lease = NoWorker]
    <2>1. /\ k \in Keys /\ op[k] \in OpRec /\ op[k].state = "pending"
      BY <1>2, AloneOperation DEF DeferJournal, Working, Typed, Tables
    <2>2. op' = [op EXCEPT ![k] = o] /\ o.state = "pending" /\ o.partial = worker[w].ids
      BY <1>2, <2>1 DEF DeferJournal, OpRec
    <2> HIDE DEF o
    <2>3. World'
      BY <1>1, <1>2, <2>1, <2>2, RowWorld DEF Truthful, DeferJournal, outside
    <2>4. Trusted'
      BY <1>1, <1>2, GotoTrusted DEF Truthful, DeferJournal, SameRow, Working
    <2> QED BY <2>3, <2>4 DEF Truthful
  <1>3. CASE DeferEvent(w)
    <2>1. event' = [event EXCEPT !.ids = worker[w].ids] /\ UNCHANGED <<op, card>>
      BY <1>3 DEF DeferEvent
    <2>2. SameRow(event, event') /\ event'.ids = worker[w].ids
      BY <1>1, <2>1 DEF SameRow, EventRec
    <2>3. Unresolved' <=> Unresolved
      BY <2>1, <2>2 DEF Unresolved, SameRow
    <2>4. Row'
      BY <1>1, <2>1, <2>2, <2>3 DEF Truthful, World, Row, SameRow
    <2>5. Calm'
      BY <1>1, <2>2, <2>3 DEF Truthful, World, Calm, SameRow, AllShow, Wanted, Dated, Ongoing
    <2>6. Answered' /\ Approved'
      BY <1>1, <2>1 DEF Truthful, World, Answered, Approved
    <2>7. Trusted'
      BY <1>1, <1>3, <2>2, GotoTrusted DEF Truthful, DeferEvent, Working
    <2> QED BY <2>4, <2>5, <2>6, <2>7 DEF Truthful, World
  <1>4. CASE DeferCard(w) \/ Note(w)
    <2>1. /\ UNCHANGED <<event, op>> /\ Stop(w) /\ card'.gen = card.gen /\ card'.status = card.status
          /\ card'.sync = "synced" => card.sync = "synced"
      BY <1>1, <1>4 DEF DeferCard, Note, CardRow
    <2> QED BY <1>1, <2>1, SameWorld, StopTrusted DEF Truthful
  <1>5. CASE Crash(w)
    BY <1>1, <1>5, SameWorld, StopTrusted DEF Truthful, Crash
  <1> QED BY <1>2, <1>3, <1>4, <1>5

LEMMA LeaseEndTruthful ==
  ASSUME Typed, Truthful, NEW w \in Workers, LeaseRunsOut(w) PROVE Truthful'
  <1>1. UNCHANGED <<event, card, google, accepted, said>> /\ event \in EventRec
    BY DEF LeaseRunsOut, outside, Typed, Tables, KnownAt
  <1>2. \A k \in Keys : op'[k].state = op[k].state /\ op'[k].partial = op[k].partial
    <2>1. \A k \in Keys : op[k] \in OpRec
      BY DEF Typed, Tables
    <2> QED BY <2>1 DEF LeaseRunsOut, OpRec
  <1>3. World'
    <2>1. \A k \in Keys : Below(op'[k].partial, event.gen)
      BY <1>2 DEF Truthful, World, Row
    <2> QED BY <1>1, <1>2, <2>1, JournalWorld DEF Truthful
  <1>4. ASSUME NEW v \in Workers PROVE Trust(worker'[v], event, google, said)
    <2>1. CASE v = w
      <3>1. worker'[v] = Idle
        BY <2>1 DEF LeaseRunsOut
      <3> QED BY <1>1, <3>1, IdleTrusted
    <2>2. CASE worker'[v] = [worker[v] EXCEPT !.late = TRUE]
      <3>1. /\ worker'[v].pc = worker[v].pc /\ worker'[v].key = worker[v].key
            /\ worker'[v].ev = worker[v].ev /\ worker'[v].ids = worker[v].ids
            /\ worker'[v].gen = worker[v].gen /\ worker'[v].left = worker[v].left
            /\ worker'[v].same = worker[v].same
        BY <2>2 DEF Typed, Acting, WorkerRec
      <3>2. Trust(worker[v], event, google, said)
        BY DEF Truthful, Trusted
      <3> QED BY <3>1, <3>2 DEF Trust, Progress, Sound, Found, Current
    <2>3. CASE worker'[v] = worker[v]
      BY <2>3 DEF Truthful, Trusted
    <2> QED BY <2>1, <2>2, <2>3 DEF LeaseRunsOut
  <1> QED BY <1>1, <1>3, <1>4 DEF Truthful, Trusted

-----------------------------------------------------------------------------
\* The calendars.

\* Whoever acts, acts on the one operation that is unresolved, and knows the row.
LEMMA ActingRow ==
  ASSUME Typed, HeldAlone, Truthful, NEW w \in Workers, worker[w].pc \in Working \ {"reload"}
  PROVE  /\ SameRow(worker[w].ev, event) /\ event.latest = worker[w].key /\ Unresolved
         /\ event.identity \in Generations /\ event.identity <= event.gen /\ event.gen \in Generations
         /\ Ongoing(event) <=> Intent[worker[w].key] # "release"
         /\ worker[w] \in WorkerRec /\ worker[w].key \in Keys /\ event \in EventRec
         /\ worker[w].ev.gen = event.gen /\ worker[w].ev.status = event.status
         /\ worker[w].ev.identity = event.identity
         /\ \A v \in Workers \ {w} : worker[v].pc \notin Working
  <1>1. /\ worker[w].key \in Keys /\ op[worker[w].key].state = "pending"
        /\ event.latest = worker[w].key
        /\ \A v \in Workers \ {w} : worker[v].pc \notin Working
    BY AloneOperation
  <1>2. worker[w] \in WorkerRec /\ event \in EventRec /\ Trust(worker[w], event, google, said)
    BY DEF Typed, Tables, Acting, KnownAt, Truthful, Trusted
  <1>3. SameRow(worker[w].ev, event)
    BY <1>2 DEF Trust
  <1>4. /\ event.status = StatusOf(worker[w].key) /\ event.identity # 0
        /\ event.identity <= event.gen /\ worker[w].key # NoKey
    BY <1>1, EventOperationsAssumption DEF Truthful, World, Row
  <1>5. event.identity \in Generations /\ event.gen \in Generations
    BY <1>2, <1>4 DEF EventRec, Generations
  <1>6. Intent[worker[w].key] \in Transitions
    BY <1>1, EventOperationsAssumption
  <1>7. Ongoing(event) <=> Intent[worker[w].key] # "release"
    BY <1>1, <1>4, <1>6 DEF Ongoing, StatusOf, Proposals, Transitions
  <1> QED BY <1>1, <1>2, <1>3, <1>4, <1>5, <1>7 DEF Unresolved, SameRow

\* A copy of the event is written while its operation is unresolved.
LEMMA ShowWorld ==
  ASSUME Typed, World, UNCHANGED <<event, op, card, said>>, Unresolved,
         NEW c \in Calendars, NEW copy, event.identity \in Generations,
         google' = [google EXCEPT ![c][event.identity] = copy],
         copy.state = "live", copy.gen = event.gen, accepted' \subseteq accepted,
         c = Organizer /\ event.identity \in accepted' => event.gen \in said
  PROVE  World'
  <1> DEFINE i == event.identity
  <1>1. /\ google'[c][i] = copy
        /\ \A d \in Calendars, j \in Generations : d # c \/ j # i => google'[d][j] = google[d][j]
    BY DEF Typed, Tables, Copied
  <1>2. Unresolved' /\ Organizer \in Calendars /\ accepted \subseteq Generations
    BY DEF Unresolved, Calendars, Typed, Tables
  <1>3. Row'
    BY <1>2 DEF World, Row
  <1>4. Calm'
    <2>1. i <= event.gen /\ i \in Nat /\ event.gen \in Nat
      BY RowNumbers DEF World, Row, Typed, Tables, KnownAt
    <2>2. \A d \in Calendars, j \in Generations :
            /\ j > event.gen => google'[d][j].state = "absent"
            /\ google'[d][j].state = "deleted" => ~(j = i /\ Ongoing(event))
      <3> TAKE d \in Calendars, j \in Generations
      <3>1. CASE d = c /\ j = i
        BY <1>1, <2>1, <3>1
      <3>2. CASE d # c \/ j # i
        BY <1>1, <3>2 DEF World, Calm
      <3> QED BY <3>1, <3>2
    <2>3. Ongoing(event) /\ Intent[event.latest] # "reschedule" => Dated(event, google')
      BY <1>1, <1>2 DEF World, Calm, Dated
    <2> QED BY <1>2, <2>2, <2>3 DEF Calm
  <1>5. Answered'
    BY <1>1, <1>2 DEF World, Answered
  <1>6. Approved'
    BY DEF World, Approved
  <1> QED BY <1>3, <1>4, <1>5, <1>6 DEF World

\* An unresolved operation's worker gives up for now.
LEMMA DefersTrusted ==
  ASSUME Typed, Typed', HeldAlone, Truthful, NEW w \in Workers, UNCHANGED <<event, said>>,
         worker[w].pc \in Working \ {"reload"}, Goto(w, "defer")
  PROVE  Trusted'
  <1>1. /\ worker'[w] = [worker[w] EXCEPT !.pc = "defer"] /\ worker[w] \in WorkerRec
        /\ \A v \in Workers \ {w} : worker'[v] = worker[v] /\ worker[v].pc \notin Working
        /\ SameRow(event, event') /\ event \in EventRec
    BY ActingRow DEF Goto, Typed, Acting, SameRow
  <1>2. Trust(worker'[w], event, google, said)
    <2>1. Trust(worker[w], event, google, said)
      BY DEF Truthful, Trusted
    <2>2. Trust([worker[w] EXCEPT !.pc = "defer"], event, google, said)
      BY <1>1, <2>1, GoTrust
    <2> QED BY <1>1, <2>2
  <1>3. worker'[w].pc = "defer"
    BY <1>1 DEF WorkerRec
  <1>4. Trust(worker'[w], event', google', said')
    BY <1>2, <1>3 DEF Trust, Progress, Closing
  <1> QED BY <1>1, <1>4, ActTrusted, RowNumbers DEF Truthful

LEMMA FindTruthful ==
  ASSUME Typed, Typed', HeldAlone, Truthful, NEW w \in Workers, NEW c \in Calendars, FindCopy(w, c)
  PROVE  Truthful'
  <1> DEFINE i == event.identity
             SeenAt(j) == [worker[w] EXCEPT !.ids[c] = j, !.left = @ \ {c},
                             !.same = IF c = Organizer THEN SameInvite(w, j) ELSE @]
             FoundAt(j) == IF SeenAt(j).left = {}
                           THEN [SeenAt(j) EXCEPT !.pc = "patch", !.left = Calendars] ELSE SeenAt(j)
             LooksAt(j) ==
               \/ google' = google /\ Goto(w, "defer")
               \/ /\ google' = IF google[c][j].state = "live" THEN google
                               ELSE [google EXCEPT ![c][j] = Shows(w)]
                  /\ Goto(w, "defer") \/ Become(w, FoundAt(j))
             seen == SeenAt(i)
             r == FoundAt(i)
             found == google[c][i].state = "live"
  <1>1. /\ SameRow(worker[w].ev, event) /\ Unresolved /\ i \in Generations /\ i <= event.gen
        /\ worker[w].ev.identity = i /\ worker[w].ev.gen = event.gen /\ worker[w].ev.status = event.status
        /\ worker[w] \in WorkerRec /\ event \in EventRec
        /\ \A v \in Workers \ {w} : worker[v].pc \notin Working
        /\ Ongoing(event) <=> Intent[worker[w].key] # "release"
    BY ActingRow DEF FindCopy, Working
  <1>2. UNCHANGED <<event, op, card, said, accepted>> /\ worker[w].pc = "find" /\ SameRow(event, event')
    BY DEF FindCopy, Sync, SameRow
  <1>3. /\ Trust(worker[w], event, google, said) /\ worker[w].ids \in Ids
        /\ worker[w].left \in SUBSET Calendars /\ Intent[worker[w].key] # "release"
    BY <1>1, <1>2 DEF Typed, Acting, Fine, Knowing, Working, WorkerRec, Truthful, Trusted, Trust, Progress
  <1>4. CASE google' = google /\ Goto(w, "defer")
    <2>1. Trusted'
      BY <1>2, <1>4, DefersTrusted DEF Working
    <2> QED BY <1>2, <1>4, <2>1, SameWorld DEF Truthful
  <1>5. CASE /\ google' = IF found THEN google ELSE [google EXCEPT ![c][i] = Shows(w)]
             /\ Goto(w, "defer") \/ Become(w, r)
    <2>1. World'
      <3>1. CASE found
        BY <1>2, <1>5, <3>1, SameWorld DEF Truthful
      <3>2. CASE ~found
        <4>1. Shows(w).state = "live" /\ Shows(w).gen = event.gen
          BY <1>1 DEF Shows
        <4>2. c = Organizer => i \notin accepted
          <5>1. google[c][i].state \in {"absent", "live", "deleted"}
            BY <1>1 DEF Typed, Tables, Copied, CopyRec
          <5>2. google[c][i].state # "deleted"
            BY <1>1, <1>3 DEF Truthful, World, Calm
          <5> QED BY <3>2, <5>1, <5>2 DEF Truthful, World, Answered
        <4> QED BY <1>1, <1>2, <1>5, <3>2, <4>1, <4>2, ShowWorld DEF Truthful
      <3> QED BY <3>1, <3>2
    <2>2. /\ google'[c][i].state = "live"
          /\ \A d \in Calendars \ {c} : google'[d][i] = google[d][i]
          /\ found => google'[c][i] = google[c][i]
      <3>1. Shows(w).state = "live"
        BY DEF Shows
      <3> QED BY <1>1, <1>5, <3>1 DEF Typed, Tables, Copied
    <2>3. CASE Goto(w, "defer")
      BY <1>2, <2>1, <2>3, DefersTrusted DEF Truthful, Working
    <2>4. CASE Become(w, r)
      <3>1. /\ seen.pc = "find" /\ seen.key = worker[w].key /\ seen.ev = worker[w].ev
            /\ seen.left = worker[w].left \ {c} /\ seen.ids = [worker[w].ids EXCEPT ![c] = i]
            /\ seen.same = IF c = Organizer THEN SameInvite(w, i) ELSE worker[w].same
        BY <1>1, <1>2 DEF WorkerRec
      <3> DEFINE turned == [seen EXCEPT !.pc = "patch", !.left = Calendars]
      <3>0. /\ r = IF seen.left = {} THEN turned ELSE seen
            /\ turned.key = seen.key /\ turned.ev = seen.ev /\ turned.ids = seen.ids
            /\ turned.same = seen.same /\ turned.pc = "patch" /\ turned.left = Calendars
        BY <1>1 DEF WorkerRec
      <3> HIDE DEF seen, r, turned
      <3>2. \A d \in Calendars \ seen.left : Found(seen, event, google', d)
        <4> TAKE d \in Calendars \ seen.left
        <4>1. CASE d = c
          BY <1>3, <2>2, <3>1, <4>1 DEF Found, Ids
        <4>2. CASE d # c
          <5>1. d \in Calendars \ worker[w].left
            BY <3>1, <4>2
          <5>2. Found(worker[w], event, google, d)
            BY <1>2, <1>3, <5>1 DEF Trust, Progress
          <5> QED BY <1>3, <2>2, <3>1, <4>2, <5>2 DEF Found, Ids
        <4> QED BY <4>1, <4>2
      <3>3. Organizer \notin seen.left => Current(seen, event, google')
        <4>1. CASE c = Organizer
          <5>1. SameInvite(w, i) => google[Organizer][i] = Wanted(Organizer, event)
            BY <1>1 DEF SameInvite, Invites, Shows, Wanted
          <5>2. SameInvite(w, i) => found
            BY <4>1, <5>1 DEF Wanted
          <5> QED BY <2>2, <3>1, <4>1, <5>1, <5>2 DEF Current
        <4>2. CASE c # Organizer
          <5>1. Organizer \notin seen.left => Organizer \notin worker[w].left
            BY <3>1, <4>2
          <5>2. google'[Organizer][i] = google[Organizer][i]
            BY <2>2, <4>2 DEF Calendars
          <5> QED BY <1>2, <1>3, <3>1, <4>2, <5>1, <5>2 DEF Trust, Progress, Current
        <4> QED BY <4>1, <4>2
      <3>4. Below(seen.ids, event.gen)
        BY <1>1, <1>3, <3>1 DEF Trust, Below, Ids
      <3>5. /\ r.key = seen.key /\ r.ev = seen.ev /\ r.ids = seen.ids /\ r.same = seen.same
            /\ r.pc \in {"find", "patch"}
            /\ r.pc = "find" => r.left = seen.left
            /\ r.pc = "patch" => r.left = Calendars /\ seen.left = {}
        BY <3>0, <3>1
      <3>6. worker'[w] = r /\ \A v \in Workers \ {w} : worker'[v] = worker[v]
        BY <2>4 DEF Become, Typed, Acting
      <3> HIDE DEF i, found
      <3>7. Progress(r, event, google')
        <4>1. CASE r.pc = "find"
          BY <1>3, <3>1, <3>2, <3>3, <3>5, <4>1 DEF Progress, Closing, Found, Current
        <4>2. CASE r.pc = "patch"
          <5>1. \A d \in Calendars : Found(r, event, google', d)
            BY <3>2, <3>5, <4>2 DEF Found
          <5>2. Current(r, event, google')
            BY <3>3, <3>5, <4>2 DEF Current
          <5> QED BY <1>3, <3>1, <3>5, <4>2, <5>1, <5>2 DEF Progress, Closing
        <4> QED BY <3>5, <4>1, <4>2
      <3>8. Trust(r, event, google', said)
        BY <1>1, <1>3, <3>1, <3>4, <3>5, <3>7 DEF Trust
      <3>9. Trust(worker'[w], event', google', said')
        BY <1>2, <3>6, <3>8
      <3>10. Trusted'
        BY <1>1, <1>2, <3>6, <3>9, ActTrusted, RowNumbers DEF Truthful
      <3> QED BY <2>1, <3>10 DEF Truthful
    <2> QED BY <1>5, <2>3, <2>4
  <1>6. LooksAt(worker[w].ev.identity)
    BY DEF FindCopy, Sync
  <1>7. LooksAt(i)
    <2> HIDE DEF LooksAt
    <2> QED BY <1>1, <1>6
  <1> QED BY <1>4, <1>5, <1>7

LEMMA PatchTruthful ==
  ASSUME Typed, Typed', HeldAlone, Truthful, NEW w \in Workers, NEW c \in Calendars, PatchCopy(w, c)
  PROVE  Truthful'
  <1> DEFINE i == event.identity
             k == worker[w].key
  <1>1. /\ Unresolved /\ i \in Generations /\ i <= event.gen /\ event.latest = k
        /\ worker[w].ev.gen = event.gen /\ worker[w].ev.status = event.status
        /\ worker[w] \in WorkerRec /\ event \in EventRec /\ SameRow(worker[w].ev, event)
        /\ \A v \in Workers \ {w} : worker[v].pc \notin Working
        /\ Ongoing(event) <=> Intent[k] # "release"
    BY ActingRow DEF PatchCopy, Working
  <1>2. UNCHANGED <<event, op, card, said>> /\ worker[w].pc = "patch" /\ SameRow(event, event')
    BY DEF PatchCopy, Sync, SameRow
  <1>3. /\ Trust(worker[w], event, google, said) /\ Intent[k] # "release"
        /\ \A d \in Calendars : Found(worker[w], event, google, d)
        /\ Current(worker[w], event, google)
        /\ \A d \in Calendars \ worker[w].left : google[d][i] = Wanted(d, event)
        /\ Below(worker[w].ids, event.gen) /\ Below(worker[w].ev.ids, event.gen)
    BY <1>2 DEF Truthful, Trusted, Trust, Progress
  <1>4. worker[w].ids[c] = i /\ Patched(w, c, i) = Wanted(c, event)
    BY <1>1, <1>3 DEF Found, Patched, Invites, Shows, Wanted
  <1>5. /\ \/ /\ c = Organizer /\ worker[w].same /\ google' = google /\ accepted' = accepted
              /\ Onward(w, c, "mail")
           \/ /\ google' = google /\ accepted' = accepted /\ Goto(w, "defer")
           \/ /\ google' = [google EXCEPT ![c][i] = Wanted(c, event)]
              /\ accepted' = IF c = Organizer THEN Answers(w, i) ELSE accepted
              /\ Goto(w, "defer") \/ Onward(w, c, "mail")
    <2>1. \/ /\ c = Organizer /\ worker[w].same /\ google' = google /\ accepted' = accepted
             /\ Onward(w, c, "mail")
          \/ /\ google' = google /\ accepted' = accepted /\ Goto(w, "defer")
          \/ /\ google' = [google EXCEPT ![c][worker[w].ids[c]] = Patched(w, c, worker[w].ids[c])]
             /\ accepted' = IF c = Organizer THEN Answers(w, worker[w].ids[c]) ELSE accepted
             /\ Goto(w, "defer") \/ Onward(w, c, "mail")
      BY DEF PatchCopy, Sync
    <2> QED BY <1>4, <2>1
  <1> HIDE DEF i, k
  <1>6. World'
    <2>1. CASE google' = google /\ accepted' = accepted
      BY <1>2, <2>1, SameWorld DEF Truthful
    <2>2. CASE /\ google' = [google EXCEPT ![c][i] = Wanted(c, event)]
               /\ accepted' = IF c = Organizer THEN Answers(w, i) ELSE accepted
      <3>1. Wanted(c, event).state = "live" /\ Wanted(c, event).gen = event.gen
        BY DEF Wanted
      <3>2. c = Organizer /\ i \in accepted' => event.gen \in said
        <4> SUFFICES ASSUME c = Organizer, i \in accepted' PROVE event.gen \in said
          OBVIOUS
        <4>1. i \in accepted /\ Intent[k] # "reschedule"
          BY <2>2 DEF Answers, k
        <4>2. google[Organizer][i].state = "live"
          BY <1>3 DEF Found, i, Calendars
        <4>3. google[Organizer][i].gen = event.gen
          BY <1>1, <1>3, <4>1, <4>2 DEF Truthful, World, Calm, Dated, i
        <4> QED BY <4>1, <4>2, <4>3 DEF Truthful, World, Answered
      <3>3. accepted' \subseteq accepted
        BY <2>2 DEF Answers
      <3> QED BY <1>1, <1>2, <2>2, <3>1, <3>2, <3>3, ShowWorld DEF Truthful, i
    <2> QED BY <1>5, <2>1, <2>2
  <1>7. CASE Goto(w, "defer")
    BY <1>2, <1>6, <1>7, DefersTrusted DEF Truthful, Working
  <1>8. CASE Onward(w, c, "mail")
    <2>1. /\ worker'[w].ids = worker[w].ids /\ worker'[w].ev = worker[w].ev
          /\ worker'[w].key = worker[w].key /\ worker'[w].same = worker[w].same
          /\ worker'[w].left = worker[w].left \ {c}
          /\ worker'[w].pc = IF worker[w].left = {c} THEN "mail" ELSE "patch"
          /\ \A v \in Workers \ {w} : worker'[v] = worker[v]
      BY <1>1, <1>2, <1>8 DEF Onward, Typed, Acting, WorkerRec
    <2>2. /\ google'[c][i] = Wanted(c, event)
          /\ \A d \in Calendars \ {c} : google'[d][i] = google[d][i]
      <3>1. CASE c = Organizer /\ worker[w].same /\ google' = google
        BY <1>3, <3>1 DEF Current, i
      <3>2. CASE google' = [google EXCEPT ![c][i] = Wanted(c, event)]
        BY <1>1, <3>2 DEF Typed, Tables, Copied, i
      <3>3. Goto(w, "defer") => worker'[w].pc = "defer"
        BY <1>1 DEF Goto, Typed, Acting, WorkerRec
      <3> QED BY <1>5, <2>1, <3>1, <3>2, <3>3
    <2>3. \A d \in Calendars \ worker'[w].left : google'[d][i] = Wanted(d, event)
      BY <1>3, <2>1, <2>2
    <2>4. \A d \in Calendars : Found(worker'[w], event, google', d)
      BY <1>3, <2>1, <2>2 DEF Found, Wanted, i
    <2>5. Current(worker'[w], event, google')
      BY <1>3, <2>1, <2>2 DEF Current, Calendars, i
    <2>6. worker'[w].pc = "mail" => AllShow(event, google')
      <3>1. worker'[w].pc = "mail" => worker'[w].left = {}
        BY <2>1
      <3> QED BY <2>3, <3>1 DEF AllShow, i
    <2>7. Progress(worker'[w], event, google')
      BY <1>3, <2>1, <2>3, <2>4, <2>5, <2>6 DEF Progress, Closing, i, k
    <2>8. Trust(worker'[w], event', google', said')
      BY <1>1, <1>2, <1>3, <2>1, <2>7 DEF Trust
    <2>9. Trusted'
      BY <1>1, <1>2, <2>1, <2>8, ActTrusted, RowNumbers DEF Truthful
    <2> QED BY <1>6, <2>9 DEF Truthful
  <1> QED BY <1>5, <1>7, <1>8

LEMMA DeleteTruthful ==
  ASSUME Typed, Typed', HeldAlone, Truthful, NEW w \in Workers, NEW c \in Calendars, DeleteCopy(w, c)
  PROVE  Truthful'
  <1> DEFINE i == worker[w].ids[c]
             k == worker[w].key
  <1>1. worker[w].pc = "delete"
    BY DEF DeleteCopy, HeldAlone, NobodyExpires, Expiring
  <1>2. /\ Unresolved /\ worker[w] \in WorkerRec /\ event \in EventRec
        /\ SameRow(worker[w].ev, event) /\ event.gen \in Generations
        /\ \A v \in Workers \ {w} : worker[v].pc \notin Working
        /\ Ongoing(event) <=> Intent[k] # "release"
    BY <1>1, ActingRow DEF Working
  <1>3. /\ Trust(worker[w], event, google, said) /\ Intent[k] = "release" /\ ~Ongoing(event)
        /\ i <= event.gen /\ worker[w].ids \in Ids
    BY <1>1, <1>2 DEF Truthful, Trusted, Trust, Progress, Below, Typed, Acting, Fine, Knowing, Working
  <1>4. /\ UNCHANGED <<event, op, card, said, accepted>>
        /\ google' = google \/ google' = [google EXCEPT ![c][i].state = "deleted"]
        /\ Goto(w, "defer") \/ Onward(w, c, "mail")
    BY <1>1 DEF DeleteCopy, Sync
  <1>5. World'
    <2>1. CASE google' = google
      BY <1>4, <2>1, SameWorld DEF Truthful
    <2>2. CASE google' = [google EXCEPT ![c][i].state = "deleted"]
      <3>1. \A d \in Calendars, j \in Generations :
              /\ d # c \/ j # i => google'[d][j] = google[d][j]
              /\ d = c /\ j = i => google'[d][j].state = "deleted"
        <4> TAKE d \in Calendars, j \in Generations
        <4>1. google[d][j] \in CopyRec
          BY DEF Typed, Tables, Copied
        <4> HIDE DEF i
        <4> QED BY <2>2, <4>1 DEF Typed, Tables, Copied, CopyRec
      <3> HIDE DEF i
      <3>2. Row'
        BY <1>4 DEF Truthful, World, Row, Unresolved
      <3>3. Calm'
        <4>1. \A d \in Calendars, j \in Generations : j > event.gen => google'[d][j].state = "absent"
          <5> TAKE d \in Calendars, j \in Generations
          <5>1. event.gen \in Nat /\ j \in Nat /\ i \in Int
            BY <1>2, <1>3, RowNumbers DEF Generations, Ids, i
          <5> QED BY <1>3, <3>1, <5>1 DEF Truthful, World, Calm
        <4> QED BY <1>3, <1>4, <4>1 DEF Calm, Ongoing
      <3>4. Answered'
        <4>1. Organizer \in Calendars /\ accepted \subseteq Generations
          BY DEF Calendars, Typed, Tables
        <4> QED BY <1>4, <3>1, <4>1 DEF Truthful, World, Answered
      <3>5. Approved'
        BY <1>4 DEF Truthful, World, Approved
      <3> QED BY <3>2, <3>3, <3>4, <3>5 DEF World
    <2> QED BY <1>4, <2>1, <2>2
  <1>6. CASE Goto(w, "defer")
    BY <1>1, <1>4, <1>5, <1>6, DefersTrusted DEF Truthful, Working
  <1>7. CASE Onward(w, c, "mail")
    <2>1. /\ worker'[w].ids = worker[w].ids /\ worker'[w].ev = worker[w].ev
          /\ worker'[w].key = k /\ worker'[w].pc \in {"delete", "mail"}
          /\ \A v \in Workers \ {w} : worker'[v] = worker[v]
      BY <1>1, <1>2, <1>7 DEF Onward, Typed, Acting, WorkerRec
    <2> HIDE DEF i, k
    <2>2. Trust(worker'[w], event', google', said')
      BY <1>2, <1>3, <1>4, <2>1 DEF Trust, Progress, Closing
    <2>3. Trusted'
      BY <1>2, <1>4, <2>1, <2>2, ActTrusted, RowNumbers DEF Truthful, SameRow
    <2> QED BY <1>5, <2>3 DEF Truthful
  <1> QED BY <1>4, <1>6, <1>7

LEMMA GuestTruthful ==
  ASSUME Typed, Truthful, NEW i \in Generations, GuestAccepts(i) PROVE Truthful'
  <1>1. /\ UNCHANGED <<event, op, card, google, worker>> /\ said \subseteq said'
        /\ google[Organizer][i].state = "live" /\ google[Organizer][i].gen \in said'
        /\ accepted' = accepted \cup {i}
    BY DEF GuestAccepts
  <1>2. SameRow(event, event')
    BY <1>1 DEF SameRow
  <1>3. Trusted'
    BY <1>1, <1>2, SameRowTrust DEF Truthful, Trusted
  <1>4. Row' /\ Calm'
    BY <1>1 DEF Truthful, World, Row, Calm, Unresolved
  <1>5. Answered' /\ Approved'
    BY <1>1 DEF Truthful, World, Answered, Approved
  <1> QED BY <1>3, <1>4, <1>5 DEF Truthful, World

-----------------------------------------------------------------------------
\* The two transactions.

LEMMA ActiveIsOngoing == ASSUME Typed, Truthful PROVE Active(event) <=> Ongoing(event)
  <1>1. event.status # "none" <=> event.latest # NoKey
    BY DEF Typed, Tables, KnownAt
  <1>2. event.status # "none" => event.status \in {"proposed", "approved", "released"}
    BY <1>1 DEF Truthful, World, Row, StatusOf
  <1> QED BY <1>2 DEF Active, Ongoing

\* What a commit makes of the row.
LEMMA CommitRow ==
  ASSUME Typed, HeldAlone, Truthful, NEW w \in Workers, NEW k, k = worker[w].key, Commit(w)
  PROVE  /\ k \in Keys /\ ~Unresolved /\ event \in EventRec
         /\ \A v \in Workers : worker[v].pc \notin Working
         /\ Intent[k] = "propose" <=> ~Ongoing(event)
         /\ Intent[k] = "approve" => event.status = "proposed"
         /\ event'.version = event.version + 1 /\ event'.latest = k
         /\ event'.gen = IF k \in Proposals THEN event.gen + 1 ELSE event.gen
         /\ event'.identity = IF Intent[k] = "propose" THEN event.gen + 1 ELSE event.identity
         /\ event'.status = StatusOf(k)
         /\ Below(event'.ids, event.gen)
         /\ op'[k] = [NoOp EXCEPT !.state = "pending"]
         /\ \A j \in Keys \ {k} : op'[j] = op[j]
         /\ Unresolved'
         /\ Sound(worker[w], event, said)
  <1> DEFINE e == worker[w].ev
  <1>1. /\ k \in Keys /\ worker[w] \in WorkerRec /\ e \in EventRec /\ event \in EventRec
        /\ op \in [Keys -> OpRec] /\ event.latest \in Keys \cup {NoKey}
    BY DEF Commit, Typed, Acting, Tables, Fine, KnownAt, EventRec
  <1>2. ~Unresolved /\ event.version = e.version
    BY DEF Commit, CommitHolds, HeldAlone, HeldByLease
  <1>3. \A j \in Keys : op[j].state # "pending"
    BY <1>2, EventOperationsAssumption DEF HeldAlone, HeldByLease, Unresolved
  <1>4. \A v \in Workers : worker[v].pc \notin Working
    BY <1>3 DEF HeldAlone, HeldByLease, Typed, Acting, Fine, Handling
  <1>5. Sound(worker[w], event, said) /\ Below(e.ids, event.gen) /\ Below(NoIds, event.gen)
    BY <1>1, RowNumbers DEF Commit, Truthful, Trusted, Trust, Below, NoIds
  <1>6. SameRow(e, event)
    BY <1>2, <1>5 DEF Sound
  <1>7. Active(e) <=> Ongoing(event)
    BY <1>6, ActiveIsOngoing DEF SameRow, Active
  <1>8. Intent[k] = "propose" <=> ~Ongoing(event)
    BY <1>5, <1>7 DEF Sound
  <1>9. Intent[k] = "approve" => event.status = "proposed"
    BY <1>5, <1>6, <1>8 DEF Sound, Ongoing, SameRow
  <1>10. event' = Planned(e, k)
    BY DEF Commit
  <1>11. Intent[k] \in Transitions /\ NoKey # k
    BY <1>1, EventOperationsAssumption
  <1> HIDE DEF e
  <1>12. event'.identity = IF Intent[k] = "propose" THEN event.gen + 1 ELSE event.identity
    <2>1. k \in Proposals /\ ~Active(e) <=> Intent[k] = "propose"
      BY <1>1, <1>7, <1>8 DEF Proposals
    <2> QED BY <1>6, <1>10, <2>1 DEF Planned, SameRow
  <1>13. /\ event'.version = event.version + 1 /\ event'.latest = k
         /\ event'.gen = IF k \in Proposals THEN event.gen + 1 ELSE event.gen
         /\ event'.ids \in {NoIds, e.ids}
    BY <1>6, <1>10 DEF Planned, SameRow
  <1>14. event'.status = StatusOf(k)
    BY <1>10 DEF Planned, StatusOf
  <1>15. op'[k] = [NoOp EXCEPT !.state = "pending"] /\ \A j \in Keys \ {k} : op'[j] = op[j]
    BY <1>1 DEF Commit
  <1>16. Unresolved'
    BY <1>11, <1>13, <1>15 DEF Unresolved, NoOp
  <1>17. Below(event'.ids, event.gen)
    BY <1>5, <1>13
  <1> QED BY <1>1, <1>2, <1>4, <1>5, <1>8, <1>9, <1>12, <1>13, <1>14, <1>15, <1>16, <1>17

LEMMA CommitTruthful ==
  ASSUME Typed, Typed', HeldAlone, Truthful, NEW w \in Workers, Commit(w) PROVE Truthful'
  <1> DEFINE k == worker[w].key
  <1>1. /\ k \in Keys /\ ~Unresolved /\ event \in EventRec
        /\ \A v \in Workers : worker[v].pc \notin Working
        /\ Intent[k] = "propose" <=> ~Ongoing(event)
        /\ event'.version = event.version + 1 /\ event'.latest = k
        /\ event'.gen = IF k \in Proposals THEN event.gen + 1 ELSE event.gen
        /\ event'.identity = IF Intent[k] = "propose" THEN event.gen + 1 ELSE event.identity
        /\ event'.status = StatusOf(k)
        /\ Below(event'.ids, event.gen)
        /\ op'[k] = [NoOp EXCEPT !.state = "pending"]
        /\ \A j \in Keys \ {k} : op'[j] = op[j]
        /\ Unresolved'
        /\ Sound(worker[w], event, said)
    BY CommitRow
  <1>2. /\ UNCHANGED <<google, accepted, said>> /\ event' \in EventRec
        /\ event.gen \in Nat /\ event'.gen \in Nat /\ event.gen <= event'.gen
        /\ event.version \in Nat
        /\ card' = [card EXCEPT !.gen = event'.gen, !.status = event'.status, !.sync = "syncing"]
        /\ card \in CardRow /\ worker[w] \in WorkerRec
        /\ Goto(w, "open")
    <2>1. event' \in EventRec /\ event.gen \in Nat /\ event'.gen \in Nat /\ event.version \in Nat
      BY <1>1, RowNumbers DEF Typed, Tables, KnownAt
    <2> QED BY <1>1, <2>1 DEF Commit, outside, Typed, Tables, Acting
  <1>3. Intent[k] \in Transitions /\ k # NoKey
    BY <1>1, EventOperationsAssumption
  <1>4. /\ Intent[k] = "propose" => k \in Proposals
        /\ Ongoing(event') <=> Intent[k] # "release"
    BY <1>1, <1>3 DEF Proposals, Ongoing, StatusOf, Transitions
  <1>5. Ongoing(event) => AllShow(event, google) /\ event.identity # 0
    <2>1. event.latest # NoKey <=> event.status # "none"
      BY DEF Typed, Tables, KnownAt
    <2> QED BY <1>1, <2>1 DEF Truthful, World, Calm, Row, Ongoing
  <1> HIDE DEF k
  <1>6. Row'
    <2>1. event'.identity # 0 /\ event'.identity <= event'.gen
      BY <1>1, <1>2, <1>4, <1>5, RowNumbers DEF Truthful, World, Row
    <2>2. Below(event'.ids, event'.gen)
      BY <1>1, <1>2, RowNumbers DEF Below
    <2>3. ASSUME NEW j \in Keys PROVE Below(op'[j].partial, event'.gen)
      <3>1. CASE j = k
        <4>1. op'[j].partial = Unset
          BY <1>1, <3>1 DEF NoOp
        <4> QED BY <1>2, <4>1 DEF Below, Unset
      <3>2. CASE j # k
        <4>1. Below(op[j].partial, event.gen) /\ op'[j] = op[j] /\ op[j].partial \in Ids \cup {Unset}
          BY <1>1, <3>2 DEF Truthful, World, Row, Typed, Tables, OpRec
        <4>2. \A c \in Calendars : op[j].partial[c] \in Int
          BY <4>1 DEF Ids, Unset, Generations
        <4> QED BY <1>2, <4>1, <4>2 DEF Below
      <3> QED BY <3>1, <3>2
    <2>4. card'.gen = event'.gen /\ card'.status = event'.status /\ card'.sync = "syncing"
      BY <1>2 DEF CardRow
    <2> QED BY <1>1, <2>1, <2>2, <2>3, <2>4 DEF Row
  <1>7. Calm'
    <2>1. ASSUME NEW c \in Calendars, NEW i \in Generations
          PROVE  /\ i > event'.gen => google[c][i].state = "absent"
                 /\ google[c][i].state = "deleted" => ~(i = event'.identity /\ Ongoing(event'))
      <3>1. i > event.gen => google[c][i].state = "absent"
        BY DEF Truthful, World, Calm
      <3>2. i \in Nat
        BY DEF Generations
      <3>3. google[c][i].state = "deleted" => ~(i = event.identity /\ Ongoing(event))
        BY DEF Truthful, World, Calm
      <3>4. CASE Intent[k] = "propose"
        BY <1>1, <1>2, <3>1, <3>2, <3>4
      <3>5. CASE Intent[k] # "propose"
        BY <1>1, <1>2, <3>1, <3>2, <3>3, <3>5
      <3> QED BY <3>4, <3>5
    <2>2. ASSUME Ongoing(event'), Intent[k] # "reschedule" PROVE Dated(event', google)
      <3>1. CASE Intent[k] = "propose"
        <4>1. event'.identity \in Generations /\ event'.identity > event.gen
          BY <1>1, <1>2, <3>1 DEF EventRec
        <4>2. google[Organizer][event'.identity].state = "absent"
          BY <4>1 DEF Truthful, World, Calm, Calendars
        <4> QED BY <4>2 DEF Dated
      <3>2. CASE Intent[k] # "propose"
        <4>1. Ongoing(event) /\ event'.gen = event.gen /\ event'.identity = event.identity
          BY <1>1, <2>2, <3>2 DEF Proposals
        <4>2. google[Organizer][event.identity] = Wanted(Organizer, event)
          BY <1>5, <4>1 DEF AllShow, Calendars
        <4> QED BY <4>1, <4>2 DEF Dated, Wanted
      <3> QED BY <3>1, <3>2
    <2> QED BY <1>1, <1>2, <2>1, <2>2 DEF Calm
  <1>8. Answered'
    BY <1>2 DEF Truthful, World, Answered
  <1>9. Approved'
    <2> SUFFICES ASSUME NEW g \in Generations, AcceptKey[g] # NoKey, op'[AcceptKey[g]].state # "none"
                 PROVE  g \in said
      BY <1>2 DEF Approved
    <2>1. AcceptKey[g] \in Keys
      BY EventOperationsAssumption
    <2>2. CASE AcceptKey[g] = k
      BY <1>1, <2>2 DEF Sound, k
    <2>3. CASE AcceptKey[g] # k
      BY <1>1, <2>1, <2>3 DEF Truthful, World, Approved
    <2> QED BY <2>2, <2>3
  <1>10. Trusted'
    <2> DEFINE r == [worker[w] EXCEPT !.pc = "open"]
    <2>1. /\ worker'[w] = r /\ r.pc = "open" /\ r \in WorkerRec
          /\ \A v \in Workers \ {w} : worker'[v] = worker[v]
      BY <1>2 DEF Goto, Typed, Acting, WorkerRec, Places, Handling
    <2>2. Trust(r, event, google, said)
      <3>1. Trust(worker[w], event, google, said)
        BY DEF Truthful, Trusted
      <3>2. "open" \notin Working \cup {"plan", "commit"}
        BY DEF Working
      <3> QED BY <1>2, <3>1, <3>2, GoTrust
    <2> HIDE DEF r
    <2>3. Trust(r, event', google', said')
      <3>1. r.pc \notin Working /\ r.pc # "commit"
        BY <2>1 DEF Working
      <3> QED BY <1>1, <1>2, <2>1, <2>2, <3>1, IdleTrust
    <2>4. ASSUME NEW v \in Workers \ {w}, worker[v].pc = "commit"
          PROVE  worker[v].ev.version # event'.version
      <3>1. worker[v].ev.version <= event.version /\ worker[v].ev.version \in Nat
        BY <2>4 DEF HeldAlone, HeldByLease, Typed, Acting, WorkerRec, EventRec
      <3> QED BY <1>1, <1>2, <3>1
    <2> QED BY <1>1, <1>2, <2>1, <2>3, <2>4, ActTrusted DEF Truthful
  <1> QED BY <1>6, <1>7, <1>8, <1>9, <1>10 DEF Truthful, World

LEMMA CompleteTruthful ==
  ASSUME Typed, Typed', HeldAlone, Truthful, NEW w \in Workers, Complete(w) PROVE Truthful'
  <1> DEFINE k == worker[w].key
  <1>1. CASE ~CompletionHolds(w)
    <2>1. UNCHANGED <<event, op, card, google, accepted, said>> /\ Die(w)
      BY <1>1 DEF Complete, outside
    <2> QED BY <2>1, SameWorld, StopTrusted DEF Truthful
  <1>2. CASE CompletionHolds(w)
    <2>1. /\ UNCHANGED <<google, accepted, said>> /\ worker[w].pc = "finish" /\ Goto(w, "note")
          /\ event' = [event EXCEPT !.ids = FinalIds(w), !.version = @ + 1]
          /\ op' = [op EXCEPT ![k].state = "complete", ![k].lease = NoWorker]
          /\ card' = [card EXCEPT !.sync = "synced"]
      BY <1>2 DEF Complete, outside
    <2>2. /\ event.latest = k /\ k \in Keys /\ worker[w] \in WorkerRec /\ event \in EventRec
          /\ \A v \in Workers \ {w} : worker[v].pc \notin Working
          /\ Ongoing(event) <=> Intent[k] # "release"
          /\ Trust(worker[w], event, google, said) /\ op \in [Keys -> OpRec] /\ card \in CardRow
      BY <2>1, ActingRow DEF Working, Truthful, Trusted, Typed, Tables
    <2>3. /\ event'.gen = event.gen /\ event'.identity = event.identity /\ event'.status = event.status
          /\ event'.latest = k /\ event'.version = event.version + 1 /\ event'.ids = FinalIds(w)
          /\ event.version \in Nat
      BY <2>1, <2>2 DEF EventRec
    <2>4. /\ op'[k].state = "complete" /\ op'[k].partial = op[k].partial /\ op[k].state = "pending"
          /\ \A j \in Keys \ {k} : op'[j] = op[j]
      BY <1>2, <2>1, <2>2 DEF OpRec, CompletionHolds
    <2> HIDE DEF k
    <2>5. ~Unresolved'
      BY <2>3, <2>4 DEF Unresolved
    <2>6. Ongoing(event) => AllShow(event, google)
      BY <2>1, <2>2 DEF Trust, Progress, Closing, k
    <2>7. Row'
      <3>1. Below(FinalIds(w), event.gen)
        <4>1. Below(NoIds, event.gen)
          BY <2>2, RowNumbers DEF Below, NoIds
        <4> QED BY <2>2, <4>1 DEF FinalIds, Trust
      <3>2. \A j \in Keys : Below(op'[j].partial, event'.gen)
        BY <2>3, <2>4 DEF Truthful, World, Row
      <3>3. card'.gen = card.gen /\ card'.status = card.status
        BY <2>1, <2>2 DEF CardRow
      <3> QED BY <2>2, <2>3, <2>5, <3>1, <3>2, <3>3 DEF Truthful, World, Row
    <2>8. Calm'
      <3>1. AllShow(event, google) => AllShow(event', google) /\ Dated(event', google)
        <4>1. \A c \in Calendars : Wanted(c, event') = Wanted(c, event)
          BY <2>3 DEF Wanted
        <4>2. Organizer \in Calendars /\ Wanted(Organizer, event).gen = event.gen
          BY DEF Calendars, Wanted
        <4> QED BY <2>3, <4>1, <4>2 DEF AllShow, Dated
      <3>2. Ongoing(event') <=> Ongoing(event)
        BY <2>3 DEF Ongoing
      <3> QED BY <2>1, <2>3, <2>6, <3>1, <3>2 DEF Truthful, World, Calm
    <2>9. Answered' /\ Approved'
      <3>1. \A g \in Generations : AcceptKey[g] # NoKey => AcceptKey[g] \in Keys
        BY EventOperationsAssumption
      <3> QED BY <2>1, <2>2, <2>4, <3>1 DEF Truthful, World, Answered, Approved
    <2>10. Trusted'
      <3>1. /\ worker'[w].pc = "note" /\ worker'[w].ids = worker[w].ids /\ worker'[w].ev = worker[w].ev
            /\ \A v \in Workers \ {w} : worker'[v] = worker[v]
        BY <2>1, <2>2 DEF Goto, Typed, Acting, WorkerRec
      <3>2. Trust(worker'[w], event', google', said')
        BY <2>2, <2>3, <3>1 DEF Trust, Progress, Closing, Working
      <3>3. ASSUME NEW v \in Workers \ {w}, worker[v].pc = "commit"
            PROVE  worker[v].ev.version # event'.version
        <4>1. worker[v].ev.version <= event.version /\ worker[v].ev.version \in Nat
          BY <3>3 DEF HeldAlone, HeldByLease, Typed, Acting, WorkerRec, EventRec
        <4> QED BY <2>3, <4>1
      <3>4. event.gen <= event'.gen
        BY <2>2, <2>3, RowNumbers
      <3> QED BY <2>1, <2>2, <3>1, <3>2, <3>3, <3>4, ActTrusted DEF Truthful
    <2> QED BY <2>7, <2>8, <2>9, <2>10 DEF Truthful, World
  <1> QED BY <1>1, <1>2

-----------------------------------------------------------------------------
\* The invariant, and what it says of the Card and of the guest's answers.

LEMMA InitTruthful == Init => Truthful
  <1> SUFFICES ASSUME Init PROVE Truthful
    OBVIOUS
  <1>1. NoEvent \in EventRec
    BY DEF NoEvent, EventRec, Statuses, NoIds, Ids
  <1>2. Trusted
    BY <1>1, IdleTrusted DEF Init, Trusted
  <1>3. Row
    BY DEF Init, Row, NoEvent, NoOp, Below, NoIds, Unset
  <1>4. Calm
    BY DEF Init, Calm, NoEvent, NoCopy, Ongoing
  <1>5. Answered /\ Approved
    BY EventOperationsAssumption DEF Init, Answered, Approved, NoOp
  <1> QED BY <1>2, <1>3, <1>4, <1>5 DEF Truthful, World

LEMMA NextTruthful ==
  "expiry" \notin Calls /\ Typed /\ HeldAlone /\ Truthful /\ [Next]_vars => Truthful'
  <1> SUFFICES ASSUME "expiry" \notin Calls, Typed, HeldAlone, Truthful, [Next]_vars PROVE Truthful'
    OBVIOUS
  <1>1. Typed'
    BY NextTyped
  <1>2. CASE UNCHANGED vars
    <2>1. Trusted' /\ World'
      BY <1>2, SameWorld DEF vars, outside, Truthful, Trusted
    <2> QED BY <2>1 DEF Truthful
  <1>3. ASSUME NEW w \in Workers, ExpiryReads(w) \/ ExpiryPuts(w) PROVE FALSE
    BY <1>3 DEF ExpiryReads, ExpiryPuts, HeldAlone, NobodyExpires, Expiring
  <1>4. ASSUME NEW w \in Workers, Step(w) PROVE Truthful'
    BY <1>1, <1>3, <1>4, RequestsTruthful, LeaseTruthful, MailTruthful, DeferTruthful, FindTruthful,
       PatchTruthful, DeleteTruthful, CommitTruthful, CompleteTruthful DEF Step
  <1> QED BY <1>2, <1>3, <1>4, RequestsTruthful, DeferTruthful, LeaseEndTruthful, GuestTruthful DEF Next

LEMMA TruthfulShows == Typed /\ Truthful => SyncedMeansShown /\ AcceptedThisDate
  <1> SUFFICES ASSUME Typed, Truthful PROVE SyncedMeansShown /\ AcceptedThisDate
    OBVIOUS
  <1>1. ASSUME card.sync = "synced", card.status \in {"proposed", "approved"}
        PROVE  AllShow(event, google) /\ card.gen = event.gen /\ card.status = event.status
    BY <1>1 DEF Truthful, World, Row, Calm, Ongoing
  <1>2. SyncedMeansShown
    <2>1. \A c \in Calendars : /\ Wanted(c, event).state = "live" /\ Wanted(c, event).gen = event.gen
                               /\ Wanted(c, event).status = event.status
      BY DEF Wanted
    <2>2. Wanted(Organizer, event).invited = TRUE /\ Organizer \in Calendars
      BY DEF Wanted, Calendars
    <2> QED BY <1>1, <2>1, <2>2 DEF SyncedMeansShown, AllShow
  <1>3. AcceptedThisDate
    BY DEF Truthful, World, Approved, AcceptedThisDate
  <1> QED BY <1>2, <1>3

LEMMA ServiceInvariant == ASSUME "expiry" \notin Calls PROVE Spec => [](Typed /\ HeldAlone /\ Truthful)
  <1>1. Init => Typed /\ HeldAlone /\ Truthful
    BY InitTyped, InitAlone, InitTruthful
  <1>2. Typed /\ HeldAlone /\ Truthful /\ [Next]_vars => (Typed /\ HeldAlone /\ Truthful)'
    BY NextTyped, NextAlone, NextTruthful
  <1> QED BY <1>1, <1>2, PTL DEF Spec

\* A Card never says "synced" of an event that some calendar does not show as it
\* is: however workers crash and stall, a completion finds every copy written.
THEOREM SyncedTellsTheTruth == ASSUME "expiry" \notin Calls PROVE Spec => []SyncedMeansShown
  BY ServiceInvariant, TruthfulShows, PTL

\* The poll approves a generation only if the guest said yes to that very date,
\* however late the answer is seen and whatever was rescheduled meanwhile.
THEOREM AcceptancesAreOfThisDate == ASSUME "expiry" \notin Calls PROVE Spec => []AcceptedThisDate
  BY ServiceInvariant, TruthfulShows, PTL

-----------------------------------------------------------------------------
\* The service implements EventLifecycle.

\* What the calendars show of event e, and what it is doing: the refinement mapping.
ShownOf(e, g) ==
  [c \in Calendars |->
     IF e.identity # 0 /\ g[c][e.identity].state = "live"
     THEN [gen |-> g[c][e.identity].gen, status |-> g[c][e.identity].status]
     ELSE [gen |-> 0, status |-> "none"]]
Doing == IF Unresolved THEN Intent[event.latest] ELSE "nothing"

\* What moves neither the row, nor a copy, nor an operation's end is a stutter.
LEMMA QuietIsStutter ==
  ASSUME Typed, SameRow(event, event'), UNCHANGED google,
         \A k \in Keys : op'[k].state = "complete" <=> op[k].state = "complete"
  PROVE  UNCHANGED Lifecycle!vars
  <1>1. Unresolved' <=> Unresolved
    BY DEF Typed, Tables, KnownAt, EventRec, Unresolved, SameRow
  <1> QED BY <1>1 DEF Lifecycle!vars, SameRow

LEMMA QuietSteps ==
  ASSUME Typed, HeldAlone, NEW w \in Workers,
         \/ \E k \in Keys : Request(w, k)
         \/ \E force \in BOOLEAN : Retry(w, force)
         \/ Poll(w) \/ Fetch(w) \/ Accept(w) \/ Conflict(w) \/ Open(w) \/ Claim(w) \/ Reload(w)
         \/ Mail(w) \/ Send(w) \/ Sent(w) \/ Unsent(w) \/ DeferJournal(w) \/ DeferEvent(w)
         \/ DeferCard(w) \/ Note(w) \/ Crash(w) \/ LeaseRunsOut(w)
  PROVE  UNCHANGED Lifecycle!vars
  <1> DEFINE k == worker[w].key
  <1>1. UNCHANGED google /\ event \in EventRec /\ op \in [Keys -> OpRec]
    BY DEF Request, Retry, Poll, Fetch, Accept, Conflict, Open, Claim, Reload, Mail, Send, Sent,
           Unsent, DeferJournal, DeferEvent, DeferCard, Note, Crash, LeaseRunsOut, outside,
           Typed, Tables, KnownAt
  <1>2. CASE UNCHANGED <<event, op>>
    BY <1>1, <1>2, QuietIsStutter DEF SameRow
  <1>3. CASE DeferEvent(w)
    <2>1. SameRow(event, event') /\ UNCHANGED op
      BY <1>1, <1>3 DEF DeferEvent, SameRow, EventRec
    <2> QED BY <1>1, <2>1, QuietIsStutter
  <1>4. CASE LeaseRunsOut(w)
    <2>1. \A j \in Keys : op'[j].state = op[j].state
      BY <1>1, <1>4 DEF LeaseRunsOut, OpRec
    <2> QED BY <1>1, <1>4, <2>1, QuietIsStutter DEF LeaseRunsOut, SameRow
  <1>5. CASE Claim(w) \/ Mail(w) \/ Sent(w) \/ Unsent(w) \/ DeferJournal(w)
    <2>1. k \in Keys
      BY <1>5 DEF Claim, Mail, Sent, Unsent, DeferJournal, Typed, Acting, Fine, Handling, Working
    <2>2. CASE Claim(w)
      <3>1. op' = op \/ op' = [op EXCEPT ![k].lease = w]
        BY <2>2 DEF Claim
      <3>2. \A j \in Keys : op'[j].state = op[j].state
        BY <1>1, <2>1, <3>1 DEF OpRec
      <3> QED BY <1>1, <2>2, <3>2, QuietIsStutter DEF Claim, SameRow
    <2>3. CASE Mail(w) \/ Sent(w) \/ Unsent(w) \/ DeferJournal(w)
      <3>1. op[k].state = "pending"
        BY <2>3, AloneOperation DEF Mail, Sent, Unsent, DeferJournal, Working
      <3>2. /\ op'[k].state \in {"pending", "unknown"}
            /\ \A j \in Keys \ {k} : op'[j] = op[j]
        <4>1. PICK o : op' = [op EXCEPT ![k] = o] /\ o.state \in {"pending", "unknown"}
          <5>1. ASSUME NEW receipt, GiveUp(w, receipt)
                PROVE  \E o : op' = [op EXCEPT ![k] = o] /\ o.state \in {"pending", "unknown"}
            <6> DEFINE o == [op[k] EXCEPT !.receipt = receipt, !.state = "unknown", !.lease = NoWorker]
            <6>1. op' = [op EXCEPT ![k] = o] /\ o.state = "unknown"
              BY <1>1, <2>1, <5>1 DEF GiveUp, OpRec
            <6> QED BY <6>1
          <5>2. ASSUME NEW receipt, op' = [op EXCEPT ![k].receipt = receipt]
                PROVE  \E o : op' = [op EXCEPT ![k] = o] /\ o.state \in {"pending", "unknown"}
            <6> DEFINE o == [op[k] EXCEPT !.receipt = receipt]
            <6>1. op' = [op EXCEPT ![k] = o] /\ o.state = "pending"
              BY <1>1, <2>1, <3>1, <5>2 DEF OpRec
            <6> QED BY <6>1
          <5>3. CASE DeferJournal(w)
            <6> DEFINE o == [op[k] EXCEPT !.partial = worker[w].ids, !.lease = NoWorker]
            <6>1. op' = [op EXCEPT ![k] = o] /\ o.state = "pending"
              BY <1>1, <2>1, <3>1, <5>3 DEF DeferJournal, OpRec
            <6> QED BY <6>1
          <5>4. CASE op' = op
            <6>1. op' = [op EXCEPT ![k] = op[k]]
              BY <1>1, <2>1, <5>4
            <6> QED BY <3>1, <6>1
          <5> QED BY <2>3, <5>1, <5>2, <5>3, <5>4 DEF Mail, Sent, Unsent
        <4> QED BY <1>1, <2>1, <4>1
      <3> QED BY <1>1, <2>3, <3>1, <3>2, QuietIsStutter
          DEF Mail, Sent, Unsent, DeferJournal, SameRow
    <2> QED BY <1>5, <2>2, <2>3
  <1> QED BY <1>2, <1>3, <1>4, <1>5
      DEF Request, Retry, Poll, Fetch, Accept, Conflict, Open, Reload, Send, DeferCard, Note, Crash

\* Under way, a calendar comes to show what is wanted of it, or stays.
LEMMA CopyIsShow ==
  ASSUME Unresolved, UNCHANGED <<event, op>>, NEW c \in Calendars, event.latest \in Keys,
         event.identity # 0,
         \A d \in Calendars \ {c} : google'[d][event.identity] = google[d][event.identity],
         \/ google'[c][event.identity] = google[c][event.identity]
         \/ /\ Ongoing(event) /\ google'[c][event.identity].state = "live"
            /\ google'[c][event.identity].gen = event.gen
            /\ google'[c][event.identity].status = event.status
         \/ ~Ongoing(event) /\ google'[c][event.identity].state # "live"
  PROVE  [Lifecycle!Next]_Lifecycle!vars
  <1> DEFINE i == event.identity
             goal == IF Ongoing(event) THEN [gen |-> event.gen, status |-> event.status]
                     ELSE [gen |-> 0, status |-> "none"]
  <1>1. Doing \in Transitions /\ Unresolved'
    BY EventOperationsAssumption DEF Doing, Unresolved
  <1>2. CASE google'[c][i] = google[c][i]
    <2>1. ShownOf(event, google') = ShownOf(event, google)
      BY <1>2 DEF ShownOf
    <2>2. UNCHANGED Lifecycle!vars
      BY <1>1, <2>1 DEF Lifecycle!vars, ShownOf
    <2> QED BY <2>2
  <1>3. CASE \/ /\ Ongoing(event) /\ google'[c][i].state = "live"
                /\ google'[c][i].gen = event.gen /\ google'[c][i].status = event.status
             \/ ~Ongoing(event) /\ google'[c][i].state # "live"
    <2>1. ShownOf(event, google') = [ShownOf(event, google) EXCEPT ![c] = goal]
      BY <1>3 DEF ShownOf
    <2>2. Lifecycle!Goal = goal
      BY DEF Lifecycle!Goal, Lifecycle!Active, Lifecycle!Nothing, Ongoing
    <2> HIDE DEF goal
    <2>3. Lifecycle!Show(c)
      BY <1>1, <2>1, <2>2 DEF Lifecycle!Show, Doing, ShownOf, Transitions
    <2> QED BY <2>3 DEF Lifecycle!Next
  <1> QED BY <1>2, <1>3

LEMMA CopySteps ==
  ASSUME Typed, HeldAlone, Truthful, NEW w \in Workers, NEW c \in Calendars,
         FindCopy(w, c) \/ PatchCopy(w, c) \/ DeleteCopy(w, c)
  PROVE  [Lifecycle!Next]_Lifecycle!vars
  <1> DEFINE i == event.identity
  <1>1. worker[w].pc \in Working \ {"reload"}
    BY DEF FindCopy, PatchCopy, DeleteCopy, HeldAlone, NobodyExpires, Expiring, Working
  <1>2. /\ Unresolved /\ event.latest \in Keys /\ i \in Generations /\ i # 0
        /\ worker[w].ev.identity = i /\ worker[w].ev.gen = event.gen /\ worker[w].ev.status = event.status
        /\ Ongoing(event) <=> Intent[worker[w].key] # "release"
        /\ Trust(worker[w], event, google, said)
    BY <1>1, ActingRow DEF Truthful, Trusted, Generations
  <1>3. UNCHANGED <<event, op>>
    BY DEF FindCopy, PatchCopy, DeleteCopy
  <1>4. \A j, copy : google' = [google EXCEPT ![c][j] = copy] =>
          /\ \A d \in Calendars \ {c} : google'[d] = google[d]
          /\ j = i => google'[c][i] = copy
          /\ j # i => google'[c][i] = google[c][i]
    BY <1>2 DEF Typed, Tables, Copied
  <1> HIDE DEF i
  <1>5. CASE google' = google
    BY <1>2, <1>3, <1>5, CopyIsShow DEF i
  <1>6. CASE FindCopy(w, c) /\ google' # google
    <2>1. google' = [google EXCEPT ![c][i] = Shows(w)] /\ worker[w].pc = "find"
      BY <1>2, <1>6 DEF FindCopy, Sync
    <2>2. Shows(w).state = "live" /\ Shows(w).gen = event.gen /\ Shows(w).status = event.status
      BY <1>2 DEF Shows
    <2>3. Ongoing(event)
      BY <1>2, <2>1 DEF Trust, Progress
    <2> QED BY <1>2, <1>3, <1>4, <2>1, <2>2, <2>3, CopyIsShow DEF i
  <1>7. CASE PatchCopy(w, c) /\ google' # google
    <2>1. /\ google' = [google EXCEPT ![c][worker[w].ids[c]] = Patched(w, c, worker[w].ids[c])]
          /\ worker[w].pc = "patch"
      BY <1>7 DEF PatchCopy, Sync
    <2>2. Ongoing(event) /\ worker[w].ids[c] = i
      BY <1>2, <2>1 DEF Trust, Progress, Found, i
    <2>3. /\ Patched(w, c, i).state = "live" /\ Patched(w, c, i).gen = event.gen
          /\ Patched(w, c, i).status = event.status
      BY <1>2 DEF Patched, Invites, Shows
    <2> QED BY <1>2, <1>3, <1>4, <2>1, <2>2, <2>3, CopyIsShow DEF i
  <1>8. CASE DeleteCopy(w, c) /\ google' # google
    <2> DEFINE j == worker[w].ids[c]
               gone == [google[c][j] EXCEPT !.state = "deleted"]
    <2>1. google' = [google EXCEPT ![c][j] = gone] /\ worker[w].pc = "delete"
      BY <1>8 DEF DeleteCopy, Sync, HeldAlone, NobodyExpires, Expiring
    <2>2. ~Ongoing(event)
      BY <1>2, <2>1 DEF Trust, Progress
    <2>3. j = i => gone.state # "live"
      <3>1. google[c][i] \in CopyRec
        BY <1>2 DEF Typed, Tables, Copied
      <3> QED BY <3>1 DEF CopyRec
    <2> HIDE DEF j, gone
    <2> QED BY <1>2, <1>3, <1>4, <2>1, <2>2, <2>3, CopyIsShow DEF i
  <1> QED BY <1>5, <1>6, <1>7, <1>8

LEMMA CommitStep ==
  ASSUME Typed, HeldAlone, Truthful, NEW w \in Workers, Commit(w)
  PROVE  Lifecycle!Next
  <1> DEFINE k == worker[w].key
  <1>1. /\ k \in Keys /\ ~Unresolved /\ event \in EventRec
        /\ Intent[k] = "propose" <=> ~Ongoing(event)
        /\ Intent[k] = "approve" => event.status = "proposed"
        /\ event'.latest = k
        /\ event'.gen = IF k \in Proposals THEN event.gen + 1 ELSE event.gen
        /\ event'.identity = IF Intent[k] = "propose" THEN event.gen + 1 ELSE event.identity
        /\ event'.status = StatusOf(k)
        /\ Unresolved'
    BY CommitRow
  <1>2. Intent[k] \in Transitions /\ UNCHANGED google
    BY <1>1, EventOperationsAssumption DEF Commit, outside
  <1> HIDE DEF k
  <1>3. Doing = "nothing" /\ Doing' = Intent[k]
    BY <1>1 DEF Doing
  <1>4. CASE Intent[k] = "propose"
    <2>1. /\ k \in Proposals /\ StatusOf(k) = "proposed"
          /\ event'.gen = event.gen + 1 /\ event'.identity = event'.gen
      BY <1>1, <1>4 DEF Proposals, StatusOf
    <2>2. ShownOf(event', google') = [c \in Calendars |-> [gen |-> 0, status |-> "none"]]
      <3>1. \A c \in Calendars : event'.identity # 0 => google'[c][event'.identity].state # "live"
        <4>1. event'.gen \in {0} \cup Generations /\ event.gen \in Nat /\ Typed
          <5>1. KnownAt(event', Committed')
            BY PlannedIsKnown
          <5> QED BY <1>1, <5>1, RowNumbers DEF KnownAt, EventRec
        <4>2. event'.identity # 0 => event'.identity \in Generations /\ event'.identity > event.gen
          BY <2>1, <4>1
        <4> QED BY <1>2, <4>2 DEF Truthful, World, Calm
      <3> QED BY <3>1 DEF ShownOf
    <2>3. Lifecycle!Propose
      BY <1>1, <1>3, <1>4, <2>1, <2>2 DEF Lifecycle!Propose, Lifecycle!Start, Lifecycle!Active,
         Lifecycle!Blank, Lifecycle!Nothing, ShownOf, Doing, Ongoing
    <2> QED BY <2>3 DEF Lifecycle!Next
  <1>5. CASE Intent[k] # "propose"
    <2>1. event'.identity = event.identity /\ Ongoing(event)
      BY <1>1, <1>5
    <2>2. ShownOf(event', google') = ShownOf(event, google)
      BY <1>2, <2>1 DEF ShownOf
    <2>3. CASE Intent[k] = "reschedule"
      <3>1. k \in Proposals /\ StatusOf(k) = "proposed"
        BY <1>1, <2>3 DEF Proposals, StatusOf
      <3>2. Lifecycle!Reschedule
        BY <1>1, <1>3, <2>1, <2>2, <2>3, <3>1 DEF Lifecycle!Reschedule, Lifecycle!Start,
           Lifecycle!Active, ShownOf, Doing, Ongoing
      <3> QED BY <3>2 DEF Lifecycle!Next
    <2>4. CASE Intent[k] = "approve"
      <3>1. k \notin Proposals /\ StatusOf(k) = "approved"
        BY <2>4 DEF Proposals, StatusOf
      <3>2. Lifecycle!Approve
        BY <1>1, <1>3, <2>1, <2>2, <2>4, <3>1 DEF Lifecycle!Approve, Lifecycle!Start,
           ShownOf, Doing
      <3> QED BY <3>2 DEF Lifecycle!Next
    <2>5. CASE Intent[k] = "release"
      <3>1. k \notin Proposals /\ StatusOf(k) = "released"
        BY <2>5 DEF Proposals, StatusOf
      <3>2. Lifecycle!Release
        BY <1>1, <1>3, <2>1, <2>2, <2>5, <3>1 DEF Lifecycle!Release, Lifecycle!Start,
           Lifecycle!Active, ShownOf, Doing, Ongoing
      <3> QED BY <3>2 DEF Lifecycle!Next
    <2> QED BY <1>2, <1>5, <2>3, <2>4, <2>5 DEF Transitions
  <1> QED BY <1>4, <1>5

LEMMA CompleteStep ==
  ASSUME Typed, HeldAlone, Truthful, NEW w \in Workers, Complete(w)
  PROVE  [Lifecycle!Next]_Lifecycle!vars
  <1> DEFINE k == worker[w].key
  <1>1. CASE ~CompletionHolds(w)
    <2>1. UNCHANGED <<event, op, google>>
      BY <1>1 DEF Complete, outside
    <2> QED BY <2>1, QuietIsStutter DEF SameRow
  <1>2. CASE CompletionHolds(w)
    <2>1. /\ UNCHANGED google /\ worker[w].pc = "finish"
          /\ event' = [event EXCEPT !.ids = FinalIds(w), !.version = @ + 1]
          /\ op' = [op EXCEPT ![k].state = "complete", ![k].lease = NoWorker]
      BY <1>2 DEF Complete, outside
    <2>2. /\ event.latest = k /\ k \in Keys /\ event \in EventRec /\ op \in [Keys -> OpRec]
          /\ Ongoing(event) <=> Intent[k] # "release"
          /\ event.identity # 0
          /\ Trust(worker[w], event, google, said) /\ Unresolved
      BY <2>1, ActingRow DEF Working, Truthful, Trusted, Typed, Tables, Generations
    <2>3. /\ event'.gen = event.gen /\ event'.identity = event.identity /\ event'.status = event.status
          /\ event'.latest = k /\ op'[k].state = "complete"
      BY <2>1, <2>2 DEF EventRec, OpRec
    <2>4. Ongoing(event) => AllShow(event, google)
      BY <2>1, <2>2 DEF Trust, Progress, Closing
    <2>5. Doing # "nothing" /\ Doing' = "nothing"
      BY <2>2, <2>3, EventOperationsAssumption DEF Doing, Unresolved, Transitions
    <2>6. ShownOf(event', google') = ShownOf(event, google)
      BY <2>1, <2>3 DEF ShownOf
    <2>7. Ongoing(event) => \A c \in Calendars :
            ShownOf(event, google)[c] = [gen |-> event.gen, status |-> event.status]
      <3> SUFFICES ASSUME Ongoing(event), NEW c \in Calendars
                   PROVE  ShownOf(event, google)[c] = [gen |-> event.gen, status |-> event.status]
        OBVIOUS
      <3>1. /\ Wanted(c, event).state = "live" /\ Wanted(c, event).gen = event.gen
            /\ Wanted(c, event).status = event.status
        BY DEF Wanted
      <3>2. google[c][event.identity] = Wanted(c, event)
        BY <2>4 DEF AllShow
      <3> QED BY <2>2, <3>1, <3>2 DEF ShownOf
    <2> HIDE DEF k
    <2>8. Lifecycle!Finish
      BY <2>3, <2>5, <2>6, <2>7 DEF Lifecycle!Finish, Lifecycle!Active, Lifecycle!Goal, ShownOf,
         Doing, Ongoing
    <2> QED BY <2>8 DEF Lifecycle!Next
  <1> QED BY <1>1, <1>2

\* The event service, with its workers, leases, crashes and half-written
\* calendars, is one event with one lifecycle and one operation at a time:
\* a commit begins a transition, a write to Google shows it on one calendar,
\* a completion ends it, and every other step is invisible.
THEOREM ServiceImplementsLifecycle ==
  ASSUME "expiry" \notin Calls PROVE Spec => ImplementsLifecycle
  <1>1. Init => Lifecycle!Init
    <2> SUFFICES ASSUME Init PROVE Lifecycle!Init
      OBVIOUS
    <2>1. ~Unresolved /\ event = NoEvent
      BY DEF Init, Unresolved, NoEvent
    <2>2. event.status = "none" /\ event.gen = 0 /\ event.identity = 0
      BY <2>1 DEF NoEvent
    <2> QED BY <2>1, <2>2 DEF Lifecycle!Init, Lifecycle!Blank, Lifecycle!Nothing
  <1>2. Typed /\ HeldAlone /\ Truthful /\ [Next]_vars => [Lifecycle!Next]_Lifecycle!vars
    <2> SUFFICES ASSUME Typed, HeldAlone, Truthful, [Next]_vars PROVE [Lifecycle!Next]_Lifecycle!vars
      OBVIOUS
    <2>1. ASSUME UNCHANGED <<event, op, google>> PROVE UNCHANGED Lifecycle!vars
      BY <2>1, QuietIsStutter DEF SameRow
    <2>2. ASSUME NEW w \in Workers, ExpiryReads(w) \/ ExpiryPuts(w) PROVE UNCHANGED Lifecycle!vars
      BY <2>1, <2>2 DEF ExpiryReads, ExpiryPuts, HeldAlone, NobodyExpires, Expiring, outside
    <2>3. ASSUME NEW w \in Workers, Step(w) PROVE [Lifecycle!Next]_Lifecycle!vars
      BY <2>2, <2>3, QuietSteps, CopySteps, CommitStep, CompleteStep DEF Step
    <2>4. ASSUME NEW i \in Generations, GuestAccepts(i) PROVE UNCHANGED Lifecycle!vars
      BY <2>1, <2>4 DEF GuestAccepts
    <2>5. ASSUME UNCHANGED vars PROVE UNCHANGED Lifecycle!vars
      BY <2>1, <2>5 DEF vars, outside
    <2> QED BY <2>2, <2>3, <2>4, <2>5, QuietSteps DEF Next
  <1> QED BY <1>1, <1>2, ServiceInvariant, PTL DEF Spec, ImplementsLifecycle, Lifecycle!Spec

-----------------------------------------------------------------------------
\* The letters: a second one takes a worker that read the receipt early and
\* finds the lease free late.  Only a deferral gives the lease of a pending
\* operation back, and before the first fault nothing is ever deferred.

\* Where a worker may be, and what it holds, while nothing was deferred.
Steady(r, e, g) ==
  /\ r.pc \notin {"defer", "defer event", "defer card"}
  /\ r.pc \in {"claim", "reload"} => r.ids = Unset
  /\ r.pc = "find" => \A c \in Calendars : r.ids[c] # 0 => Found(r, e, g, c)
  /\ r.pc \in Closing /\ Intent[r.key] # "release" => \A c \in Calendars : r.ids[c] = e.identity
  /\ r.pc = "commit" /\ r.ev.version = e.version => r.ev.ids = e.ids
Smooth ==
  /\ \A k \in Keys : op[k].partial = Unset
  /\ event.ids = NoIds \/ \A c \in Calendars : event.ids[c] = event.identity
  /\ Ongoing(event) => \A c \in Calendars : event.ids[c] # 0 =>
                         google[c][event.identity].state = "live"
  /\ \A w \in Workers : Steady(worker[w], event, google)

\* The receipt is written before the letter.
Receipts ==
  /\ \A k \in Keys : /\ op[k].state = "none" => op[k].receipt = "none"
                     /\ op[k].receipt = "none" => letters[k] = 0
  /\ \A w \in Workers : worker[w].pc \in {"send", "receipt", "unsent"} =>
                          op[worker[w].key].receipt # "none"

\* Somebody is past the mail of operation k.
PastMail == {"receipt", "unsent", "finish"}
InHand(k) == \E w \in Workers : worker[w].pc \in PastMail /\ worker[w].key = k

\* Nobody who read k's receipt before it was written can come to send again.
Barred(r, k, o) ==
  r.key = k =>
    /\ r.pc = "claim" /\ o.lease = Expired /\ r.receipt = "none" => r.late
    /\ r.pc \in Working /\ r.receipt = "none" => r.force
    /\ r.pc = "send" => r.force
Shut(k) ==
  /\ op[k].receipt # "none" /\ op[k].lease # NoWorker
  /\ \A w \in Workers : Barred(worker[w], k, op[k])

\* What faults have paid for: a pending operation that nobody is past the mail
\* of sent nothing, or fewer letters than there were faults, or one letter
\* whose sender's crash was the only fault.
Ledger(k) ==
  op[k].state = "pending" /\ ~InHand(k) =>
    \/ letters[k] = 0
    \/ letters[k] < faults
    \/ letters[k] = 1 /\ faults = 1 /\ Smooth /\ Shut(k)
Paid == \A k \in Keys : letters[k] <= 1 \/ letters[k] <= faults
Frugal == Receipts /\ (faults = 0 => Smooth) /\ (\A k \in Keys : Ledger(k)) /\ Paid

-----------------------------------------------------------------------------
\* Nothing is deferred before a fault.

LEMMA SmoothMoves ==
  ASSUME Smooth, UNCHANGED <<event, google>>, \A k \in Keys : op'[k].partial = op[k].partial,
         NEW w \in Workers, \A v \in Workers \ {w} : worker'[v] = worker[v],
         Steady(worker'[w], event, google)
  PROVE  Smooth'
  BY DEF Smooth

\* Who does not act is steady whatever those who act write.
LEMMA IdleSteady ==
  ASSUME NEW r, NEW e, NEW f, NEW g, NEW h, r.pc \notin Working, Steady(r, e, g),
         r.pc = "commit" /\ r.ev.version = f.version => r.ev.version = e.version /\ f.ids = e.ids
  PROVE  Steady(r, f, h)
  BY DEF Steady, Working, Closing

LEMMA SmoothRequests ==
  ASSUME Typed, Smooth, NEW w \in Workers,
         \/ \E k \in Keys : Request(w, k)
         \/ \E force \in BOOLEAN : Retry(w, force)
         \/ Poll(w) \/ Fetch(w) \/ Accept(w) \/ Conflict(w) \/ Open(w) \/ Note(w) \/ Crash(w)
  PROVE  Smooth'
  <1>1. /\ UNCHANGED <<event, op, google>> /\ worker \in [Workers -> WorkerRec]
        /\ worker[w] \in WorkerRec
    BY DEF Request, Retry, Poll, Fetch, Accept, Conflict, Open, Note, Crash, outside, Typed, Acting
  <1>2. ASSUME NEW r, Become(w, r), r.pc \in {"idle", "dead", "open", "fetch", "plan"} PROVE Smooth'
    <2>1. worker'[w] = r /\ \A v \in Workers \ {w} : worker'[v] = worker[v]
      BY <1>1, <1>2 DEF Become
    <2>2. Steady(r, event, google)
      BY <1>2 DEF Steady, Closing
    <2> QED BY <1>1, <2>1, <2>2, SmoothMoves
  <1>3. ASSUME Stop(w) \/ Die(w) PROVE Smooth'
    <2>1. Idle.pc = "idle" /\ [Idle EXCEPT !.pc = "dead"].pc = "dead"
      BY DEF Idle
    <2> QED BY <1>2, <1>3, <2>1 DEF Stop, Die
  <1>4. ASSUME NEW k \in Keys, NEW gen, Plan(w, k, gen) PROVE Smooth'
    <2>1. CASE Become(w, [Idle EXCEPT !.pc = "open", !.key = k])
      <3>1. [Idle EXCEPT !.pc = "open", !.key = k].pc = "open"
        BY DEF Idle
      <3> QED BY <1>2, <2>1, <3>1
    <2>2. CASE Become(w, [Idle EXCEPT !.pc = "commit", !.key = k, !.ev = event])
      <3> DEFINE r == [Idle EXCEPT !.pc = "commit", !.key = k, !.ev = event]
      <3>1. r.pc = "commit" /\ r.ev = event
        BY DEF Idle
      <3>2. worker'[w] = r /\ \A v \in Workers \ {w} : worker'[v] = worker[v]
        BY <1>1, <2>2 DEF Become
      <3> HIDE DEF r
      <3>3. Steady(r, event, google)
        BY <3>1 DEF Steady, Closing
      <3> QED BY <1>1, <3>2, <3>3, SmoothMoves
    <2> QED BY <1>4, <2>1, <2>2 DEF Plan
  <1>5. ASSUME NEW force \in BOOLEAN, Retry(w, force) PROVE Smooth'
    <2>1. [Idle EXCEPT !.pc = "open", !.key = event.latest, !.force = force].pc = "open"
      BY DEF Idle
    <2> QED BY <1>2, <1>5, <2>1 DEF Retry
  <1>6. ASSUME Poll(w) PROVE Smooth'
    <2>1. [Idle EXCEPT !.pc = "fetch", !.ev = event].pc = "fetch"
      BY DEF Idle
    <2> QED BY <1>2, <1>6, <2>1 DEF Poll
  <1>7. ASSUME Fetch(w) PROVE Smooth'
    <2>1. \A k, gen : [Idle EXCEPT !.pc = "plan", !.key = k, !.gen = gen].pc = "plan"
      BY DEF Idle
    <2> QED BY <1>2, <1>3, <1>7, <2>1 DEF Fetch
  <1>8. ASSUME Accept(w) PROVE Smooth'
    <2>1. worker[w].key \in Keys
      BY <1>8 DEF Accept, Typed, Acting, Fine
    <2> QED BY <1>3, <1>4, <1>8, <2>1 DEF Accept
  <1>9. ASSUME Open(w) PROVE Smooth'
    <2> DEFINE o == op[worker[w].key]
               r == [worker[w] EXCEPT !.pc = "claim", !.receipt = o.receipt, !.ids = o.partial]
    <2>1. worker[w].key \in Keys /\ o.partial = Unset
      BY <1>9 DEF Open, Typed, Acting, Fine, Handling, Smooth
    <2>2. r.pc = "claim" /\ r.ids = Unset
      BY <1>1, <2>1 DEF WorkerRec
    <2>3. CASE worker' = [worker EXCEPT ![w].pc = "claim", ![w].receipt = o.receipt,
                                        ![w].ids = o.partial]
      <3>1. worker'[w] = r /\ \A v \in Workers \ {w} : worker'[v] = worker[v]
        BY <1>1, <2>3
      <3> HIDE DEF r
      <3>2. Steady(r, event, google)
        BY <2>2 DEF Steady, Closing
      <3> QED BY <1>1, <3>1, <3>2, SmoothMoves
    <2> QED BY <1>3, <1>9, <2>3 DEF Open
  <1> QED BY <1>3, <1>4, <1>5, <1>6, <1>7, <1>8, <1>9 DEF Request, Conflict, Note, Crash

LEMMA SmoothLease ==
  ASSUME Typed, HeldAlone, Truthful, Smooth, NEW w \in Workers, Claim(w) \/ Reload(w)
  PROVE  Smooth'
  <1> DEFINE k == worker[w].key
  <1>1. /\ UNCHANGED <<event, google>> /\ op \in [Keys -> OpRec] /\ k \in Keys
        /\ worker \in [Workers -> WorkerRec] /\ worker[w] \in WorkerRec
        /\ Steady(worker[w], event, google) /\ worker[w].ids = Unset
    BY DEF Claim, Reload, outside, Typed, Tables, Acting, Fine, Handling, Working, Smooth, Steady
  <1>2. CASE Claim(w)
    <2>1. CASE op' = [op EXCEPT ![k].lease = w] /\ Goto(w, "reload")
      <3>1. \A j \in Keys : op'[j].partial = op[j].partial
        BY <1>1, <2>1 DEF OpRec
      <3>2. /\ worker'[w].pc = "reload" /\ worker'[w].ids = Unset
            /\ \A v \in Workers \ {w} : worker'[v] = worker[v]
        BY <1>1, <2>1 DEF Goto, WorkerRec
      <3>3. Steady(worker'[w], event, google)
        BY <3>2 DEF Steady, Closing
      <3> QED BY <1>1, <3>1, <3>2, <3>3, SmoothMoves
    <2>2. CASE op' = op /\ Stop(w)
      <3>1. worker'[w].pc = "idle" /\ \A v \in Workers \ {w} : worker'[v] = worker[v]
        BY <1>1, <2>2 DEF Stop, Become, Idle
      <3>2. Steady(worker'[w], event, google)
        BY <3>1 DEF Steady, Closing
      <3> QED BY <1>1, <2>2, <3>1, <3>2, SmoothMoves
    <2> QED BY <1>2, <2>1, <2>2 DEF Claim
  <1>3. CASE Reload(w)
    <2> DEFINE ids == event.ids
               left == IF Intent[k] = "release" THEN {c \in Calendars : ids[c] # 0} ELSE Calendars
               pc == CASE Intent[k] # "release" /\ ids # NoIds /\ ids[Organizer] = 0 -> "defer"
                       [] Intent[k] # "release" /\ (ids = NoIds \/ ids[Organizer] # 0) -> "find"
                       [] Intent[k] = "release" /\ ids = NoIds -> "mail"
                       [] Intent[k] = "release" /\ ids # NoIds -> "delete"
    <2>1. worker' = [worker EXCEPT ![w].ev = event, ![w].ids = ids, ![w].left = left, ![w].pc = pc]
      BY <1>1, <1>3 DEF Reload
    <2>2. /\ event.latest = k /\ k # NoKey /\ Intent[k] \in Transitions
      <3>1. event.latest = k
        BY <1>3, AloneOperation DEF Reload, Working
      <3> QED BY <1>1, <3>1, EventOperationsAssumption
    <2>3. /\ event.status = StatusOf(k) /\ event.identity # 0
      BY <2>2 DEF Truthful, World, Row
    <2>4. Intent[k] # "release" => Ongoing(event)
      BY <1>1, <2>2, <2>3 DEF Ongoing, StatusOf, Proposals, Transitions
    <2>5. ids # NoIds => ids[Organizer] # 0
      BY <2>3 DEF Smooth, Calendars
    <2>6. Intent[k] # "release" => pc = "find"
      <3> HIDE DEF ids
      <3> QED BY <2>5
    <2>7. Intent[k] = "release" => pc \in {"mail", "delete"}
      <3> HIDE DEF ids
      <3> QED OBVIOUS
    <2>8. Intent[k] # "release" => \A c \in Calendars : ids[c] # 0 =>
            ids[c] = event.identity /\ google[c][event.identity].state = "live"
      BY <2>4 DEF Smooth, NoIds
    <2> HIDE DEF ids, left, pc
    <2>9. /\ worker'[w].ids = ids /\ worker'[w].pc = pc /\ worker'[w].key = k
          /\ \A v \in Workers \ {w} : worker'[v] = worker[v]
      BY <1>1, <2>1 DEF WorkerRec
    <2>10. Steady(worker'[w], event, google)
      BY <2>6, <2>7, <2>8, <2>9 DEF Steady, Found, Closing
    <2> QED BY <1>1, <1>3, <2>9, <2>10, SmoothMoves DEF Reload
  <1> QED BY <1>2, <1>3

LEMMA SmoothMail ==
  ASSUME Typed, HeldAlone, Smooth, NEW w \in Workers,
         Mail(w) \/ Send(w) \/ Sent(w) \/ Unsent(w)
  PROVE  Smooth'
  <1> DEFINE k == worker[w].key
  <1>1. /\ UNCHANGED <<event, google>> /\ op \in [Keys -> OpRec]
        /\ worker \in [Workers -> WorkerRec] /\ worker[w] \in WorkerRec
        /\ worker[w].pc \in Closing /\ worker[w].pc \in Working
        /\ Steady(worker[w], event, google)
    BY DEF Mail, Send, Sent, Unsent, outside, Typed, Tables, Acting, Closing, Working, Smooth
  <1>2. k \in Keys
    BY <1>1, AloneOperation
  <1>3. ASSUME NEW pc \in Closing, Goto(w, pc), \A j \in Keys : op'[j].partial = op[j].partial
        PROVE  Smooth'
    <2>1. /\ worker'[w].pc = pc /\ worker'[w].ids = worker[w].ids /\ worker'[w].key = k
          /\ \A v \in Workers \ {w} : worker'[v] = worker[v]
      BY <1>1, <1>3 DEF Goto, WorkerRec
    <2>2. Steady(worker'[w], event, google)
      BY <1>1, <1>3, <2>1 DEF Steady, Closing
    <2> QED BY <1>1, <1>3, <2>1, <2>2, SmoothMoves
  <1>4. ASSUME NEW receipt, op' = [op EXCEPT ![k].receipt = receipt]
        PROVE  \A j \in Keys : op'[j].partial = op[j].partial
    BY <1>1, <1>4 DEF OpRec
  <1>5. ASSUME NEW receipt, GiveUp(w, receipt) PROVE Smooth'
    <2>1. \A j \in Keys : op'[j].partial = op[j].partial
      BY <1>1, <1>2, <1>5 DEF GiveUp, OpRec
    <2>2. worker'[w].pc = "idle" /\ \A v \in Workers \ {w} : worker'[v] = worker[v]
      BY <1>1, <1>5 DEF GiveUp, Stop, Become, Idle
    <2>3. Steady(worker'[w], event, google)
      BY <2>2 DEF Steady, Closing
    <2> QED BY <1>1, <2>1, <2>2, <2>3, SmoothMoves
  <1>6. \A pc \in {"send", "receipt", "unsent", "finish"} : pc \in Closing
    BY DEF Closing
  <1> QED BY <1>3, <1>4, <1>5, <1>6 DEF Mail, Send, Sent, Unsent

\* The calendars, while Google answers.
LEMMA SmoothCopies ==
  ASSUME Typed, HeldAlone, Truthful, Smooth, NEW w \in Workers, NEW c \in Calendars,
         UNCHANGED faults, FindCopy(w, c) \/ PatchCopy(w, c) \/ DeleteCopy(w, c)
  PROVE  Smooth'
  <1> DEFINE i == event.identity
             r == worker[w]
             q == worker'[w]
  <1>1. /\ UNCHANGED <<event, op>> /\ worker \in [Workers -> WorkerRec] /\ r \in WorkerRec
        /\ r.pc \in {"find", "patch", "delete"}
        /\ google \in [Calendars -> [Generations -> CopyRec]] /\ faults # faults + 1
    <2>1. faults # faults + 1
      BY EventOperationsAssumption DEF Typed, Tables
    <2>2. r.pc \notin {"expire", "put"}
      BY DEF HeldAlone, NobodyExpires, Expiring
    <2>3. UNCHANGED <<event, op>> /\ r.pc \in {"find", "patch", "delete"}
      BY <2>2 DEF FindCopy, PatchCopy, DeleteCopy
    <2> QED BY <2>1, <2>3 DEF Typed, Tables, Copied, Acting
  <1>2. /\ r.ev.identity = i /\ i \in Generations /\ r.ev.gen = event.gen
        /\ Ongoing(event) <=> Intent[r.key] # "release"
        /\ \A v \in Workers \ {w} : worker[v].pc \notin Working
    BY <1>1, ActingRow DEF Working
  <1>3. Progress(r, event, google) /\ Steady(r, event, google)
    BY DEF Truthful, Trusted, Trust, Smooth
  <1>4. ASSUME \A v \in Workers \ {w} : worker'[v] = worker[v],
               Steady(q, event, google'),
               Ongoing(event) => \A d \in Calendars : google[d][i].state = "live" =>
                                                         google'[d][i].state = "live"
        PROVE  Smooth'
    <2>1. ASSUME NEW v \in Workers PROVE Steady(worker'[v], event', google')
      <3>1. CASE v = w
        BY <1>1, <1>4, <3>1
      <3>2. CASE v # w
        <4>1. Steady(worker[v], event, google) /\ worker[v].pc \notin Working
          BY <1>2, <3>2 DEF Smooth
        <4>2. Steady(worker[v], event, google')
          BY <4>1, IdleSteady
        <4> QED BY <1>1, <1>4, <3>2, <4>2
      <3> QED BY <3>1, <3>2
    <2> QED BY <1>1, <1>4, <2>1 DEF Smooth
  <1>5. CASE FindCopy(w, c)
    <2> DEFINE seen == [r EXCEPT !.ids[c] = i, !.left = @ \ {c},
                                 !.same = IF c = Organizer THEN SameInvite(w, i) ELSE @]
    <2>1. r.pc = "find" /\ r.ids[c] # 0 => Found(r, event, google, c)
      BY <1>3, <1>5 DEF FindCopy, Steady
    <2>2. ~(r.ids[c] # 0 /\ (r.ids[c] # i \/ google[c][i].state # "live"))
      BY <1>5, <2>1 DEF FindCopy, Found
    <2>3. /\ google' = IF google[c][i].state = "live" THEN google
                       ELSE [google EXCEPT ![c][i] = Shows(w)]
          /\ Become(w, IF seen.left = {} THEN [seen EXCEPT !.pc = "patch", !.left = Calendars]
                       ELSE seen)
      <3> HIDE DEF seen
      <3>1. Sync(w, /\ google' = IF google[c][i].state = "live" THEN google
                                 ELSE [google EXCEPT ![c][i] = Shows(w)]
                    /\ UNCHANGED accepted,
                 Become(w, IF seen.left = {} THEN [seen EXCEPT !.pc = "patch", !.left = Calendars]
                           ELSE seen),
                 "defer")
        BY <1>2, <1>5, <2>2 DEF FindCopy, seen
      <3> QED BY <1>1, <3>1 DEF Sync, Fault
    <2>4. Intent[r.key] # "release" /\ r.pc = "find" /\ r.ids \in Ids
      BY <1>3, <1>5 DEF FindCopy, Progress, Typed, Acting, Fine, Knowing, Working
    <2>5. /\ google'[c][i].state = "live"
          /\ \A d \in Calendars : google[d][i].state = "live" => google'[d][i].state = "live"
      BY <1>1, <1>2, <2>3 DEF Shows, CopyRec
    <2>6. /\ seen.ids = [r.ids EXCEPT ![c] = i] /\ seen.pc = "find" /\ seen.key = r.key
          /\ seen \in [pc : {"find"}, key : Keys \cup {NoKey}, ev : EventRec,
                       gen : {0} \cup Generations, force : BOOLEAN,
                       receipt : {"none", "dispatching", "sent", "unknown"},
                       ids : Ids, left : SUBSET Calendars, same : BOOLEAN, late : BOOLEAN]
      BY <1>1, <1>2, <2>4 DEF WorkerRec, Ids, SameInvite, Invites, Shows
    <2>7. q = IF seen.left = {} THEN [seen EXCEPT !.pc = "patch", !.left = Calendars] ELSE seen
      BY <1>1, <2>3 DEF Become
    <2> HIDE DEF seen
    <2>8. q.pc \in {"find", "patch"} /\ q.ids = [r.ids EXCEPT ![c] = i]
      BY <2>6, <2>7
    <2>9. ASSUME q.pc = "find", NEW d \in Calendars, q.ids[d] # 0 PROVE Found(q, event, google', d)
      <3>1. CASE d = c
        BY <2>4, <2>5, <2>8, <3>1 DEF Found, Ids
      <3>2. CASE d # c
        <4>1. q.ids[d] = r.ids[d]
          BY <2>4, <2>8, <3>2 DEF Ids
        <4>2. Found(r, event, google, d)
          BY <1>3, <2>4, <2>9, <4>1 DEF Steady
        <4> QED BY <2>5, <4>1, <4>2 DEF Found
      <3> QED BY <3>1, <3>2
    <2>10. Steady(q, event, google')
      BY <2>8, <2>9 DEF Steady, Closing
    <2>11. \A v \in Workers \ {w} : worker'[v] = worker[v]
      BY <1>1, <2>3 DEF Become
    <2> QED BY <1>4, <2>5, <2>10, <2>11
  <1>6. ASSUME Onward(w, c, "mail")
        PROVE  /\ q.ids = r.ids /\ q.key = r.key /\ q.pc \in {"mail", r.pc}
               /\ \A v \in Workers \ {w} : worker'[v] = worker[v]
    BY <1>1, <1>6 DEF Onward, WorkerRec
  <1>7. CASE PatchCopy(w, c)
    <2>1. r.pc = "patch" /\ \A d \in Calendars : Found(r, event, google, d)
      BY <1>3, <1>7 DEF PatchCopy, Progress
    <2>2. /\ Onward(w, c, "mail")
          /\ google' = google \/ google' = [google EXCEPT ![c][i] = Patched(w, c, i)]
      <3>1. r.ids[c] = i
        BY <2>1 DEF Found
      <3> QED BY <1>1, <1>7, <3>1 DEF PatchCopy, Sync, Fault
    <2>3. \A d \in Calendars : google[d][i].state = "live" => google'[d][i].state = "live"
      BY <1>1, <1>2, <2>2 DEF Patched, Invites, Shows, CopyRec
    <2>4. Steady(q, event, google')
      BY <1>6, <2>1, <2>2 DEF Steady, Closing, Found
    <2> QED BY <1>4, <1>6, <2>2, <2>3, <2>4
  <1>8. CASE DeleteCopy(w, c)
    <2>1. r.pc = "delete" /\ Intent[r.key] = "release"
      BY <1>1, <1>3, <1>8 DEF DeleteCopy, Progress
    <2>2. Onward(w, c, "mail")
      BY <1>1, <1>8, <2>1 DEF DeleteCopy, Sync, Fault
    <2>3. Steady(q, event, google')
      BY <1>6, <2>1, <2>2 DEF Steady, Closing
    <2> QED BY <1>2, <1>4, <1>6, <2>1, <2>2, <2>3
  <1> QED BY <1>5, <1>7, <1>8

LEMMA SmoothCommit ==
  ASSUME Typed, HeldAlone, Truthful, Smooth, NEW w \in Workers, Commit(w)
  PROVE  Smooth'
  <1> DEFINE k == worker[w].key
             e == worker[w].ev
  <1>1. /\ k \in Keys /\ \A v \in Workers : worker[v].pc \notin Working
        /\ Intent[k] = "propose" <=> ~Ongoing(event)
        /\ event'.version = event.version + 1
        /\ event'.identity = IF Intent[k] = "propose" THEN event.gen + 1 ELSE event.identity
        /\ op'[k] = [NoOp EXCEPT !.state = "pending"]
        /\ \A j \in Keys \ {k} : op'[j] = op[j]
        /\ Sound(worker[w], event, said)
    BY CommitRow
  <1>2. /\ worker \in [Workers -> WorkerRec] /\ worker[w] \in WorkerRec /\ event.version \in Nat
        /\ worker[w].pc = "commit" /\ Goto(w, "open") /\ UNCHANGED google
        /\ event.version = e.version /\ event' = Planned(e, k)
    BY RowNumbers DEF Commit, CommitHolds, outside, Typed, Tables, Acting, KnownAt
  <1>3. e.ids = event.ids
    BY <1>2 DEF Smooth, Steady
  <1>4. k \in Proposals /\ ~Active(e) <=> Intent[k] = "propose"
    BY <1>1 DEF Sound, Proposals
  <1>5. event'.ids = IF Intent[k] = "propose" THEN NoIds ELSE event.ids
    <2> HIDE DEF e, k
    <2>1. event'.ids = IF k \in Proposals /\ ~Active(e) THEN NoIds ELSE e.ids
      BY <1>2 DEF Planned
    <2> QED BY <1>3, <1>4, <2>1
  <1>6. /\ event'.ids = NoIds \/ \A c \in Calendars : event'.ids[c] = event'.identity
        /\ Ongoing(event') => \A c \in Calendars : event'.ids[c] # 0 =>
                                google[c][event'.identity].state = "live"
    BY <1>1, <1>5 DEF Smooth, NoIds
  <1>7. \A j \in Keys : op'[j].partial = Unset
    BY <1>1 DEF Smooth, NoOp
  <1>8. ASSUME NEW v \in Workers PROVE Steady(worker'[v], event', google')
    <2>1. CASE v = w
      <3>1. worker'[v].pc = "open"
        BY <1>2, <2>1 DEF Goto, WorkerRec
      <3> QED BY <3>1 DEF Steady, Closing
    <2>2. CASE v # w
      <3>1. worker'[v] = worker[v]
        BY <1>2, <2>2 DEF Goto
      <3>2. worker[v].pc = "commit" => worker[v].ev.version # event'.version
        <4>1. worker[v].ev.version \in Nat
          BY <1>2 DEF WorkerRec, EventRec
        <4>2. worker[v].pc = "commit" => worker[v].ev.version <= event.version
          BY DEF HeldAlone, HeldByLease
        <4> QED BY <1>1, <1>2, <4>1, <4>2
      <3> QED BY <1>1, <3>1, <3>2, IdleSteady DEF Smooth
    <2> QED BY <2>1, <2>2
  <1> QED BY <1>2, <1>6, <1>7, <1>8 DEF Smooth

\* Whoever is ready to complete the operation finds everything as it must be.
LEMMA FinishHolds ==
  ASSUME Typed, HeldAlone, Truthful, NEW w \in Workers, worker[w].pc = "finish"
  PROVE  CompletionHolds(w)
  <1>1. SameRow(worker[w].ev, event) /\ event.latest = worker[w].key /\ worker[w].ev.gen = event.gen
    BY ActingRow DEF Working
  <1>2. op[worker[w].key].lease = w /\ op[worker[w].key].state = "pending"
    BY AloneOperation DEF Working
  <1>3. card.gen = event.gen
    BY DEF Truthful, World, Row
  <1> QED BY <1>1, <1>2, <1>3 DEF CompletionHolds, SameRow

LEMMA SmoothComplete ==
  ASSUME Typed, HeldAlone, Truthful, Smooth, NEW w \in Workers, Complete(w)
  PROVE  Smooth'
  <1> DEFINE k == worker[w].key
  <1>1. /\ worker[w].pc = "finish" /\ CompletionHolds(w)
        /\ event' = [event EXCEPT !.ids = FinalIds(w), !.version = @ + 1]
        /\ op' = [op EXCEPT ![k].state = "complete", ![k].lease = NoWorker]
        /\ Goto(w, "note") /\ UNCHANGED google
    BY FinishHolds DEF Complete, outside
  <1>2. /\ worker \in [Workers -> WorkerRec] /\ event \in EventRec /\ event.version \in Nat
        /\ op \in [Keys -> OpRec] /\ k \in Keys
        /\ Ongoing(event) <=> Intent[k] # "release"
        /\ \A v \in Workers \ {w} : worker[v].pc \notin Working
    BY <1>1, ActingRow, RowNumbers DEF Working, Typed, Tables, Acting
  <1>3. /\ event'.identity = event.identity /\ event'.status = event.status
        /\ event'.ids = FinalIds(w) /\ event'.version = event.version + 1
    BY <1>1, <1>2 DEF EventRec
  <1>4. \A j \in Keys : op'[j].partial = Unset
    BY <1>1, <1>2 DEF Smooth, OpRec
  <1>5. Intent[k] # "release" => /\ \A c \in Calendars : worker[w].ids[c] = event.identity
                                 /\ \A c \in Calendars : google[c][event.identity].state = "live"
    <2>1. Steady(worker[w], event, google) /\ Progress(worker[w], event, google)
      BY DEF Smooth, Truthful, Trusted, Trust
    <2>2. AllShow(event, google) => \A c \in Calendars : google[c][event.identity].state = "live"
      <3>1. \A c \in Calendars : Wanted(c, event).state = "live"
        BY DEF Wanted
      <3> QED BY <3>1 DEF AllShow
    <2> QED BY <1>1, <2>1, <2>2 DEF Steady, Progress, Closing
  <1>6. /\ event'.ids = NoIds \/ \A c \in Calendars : event'.ids[c] = event'.identity
        /\ Ongoing(event') => \A c \in Calendars : event'.ids[c] # 0 =>
                                google[c][event'.identity].state = "live"
    BY <1>2, <1>3, <1>5 DEF FinalIds, Ongoing, NoIds
  <1>7. ASSUME NEW v \in Workers PROVE Steady(worker'[v], event', google')
    <2>1. CASE v = w
      <3>1. worker'[v].pc = "note"
        BY <1>1, <1>2, <2>1 DEF Goto, WorkerRec
      <3> QED BY <3>1 DEF Steady, Closing
    <2>2. CASE v # w
      <3>1. worker'[v] = worker[v]
        BY <1>1, <1>2, <2>2 DEF Goto
      <3>2. worker[v].pc = "commit" => worker[v].ev.version # event'.version
        <4>1. worker[v].ev.version \in Nat
          BY <1>2 DEF WorkerRec, EventRec
        <4>2. worker[v].pc = "commit" => worker[v].ev.version <= event.version
          BY DEF HeldAlone, HeldByLease
        <4> QED BY <1>2, <1>3, <4>1, <4>2
      <3> QED BY <1>2, <2>2, <3>1, <3>2, IdleSteady DEF Smooth
    <2> QED BY <2>1, <2>2
  <1> QED BY <1>1, <1>4, <1>6, <1>7 DEF Smooth

LEMMA SmoothLeaseEnd ==
  ASSUME Typed, Smooth, NEW w \in Workers, LeaseRunsOut(w)
  PROVE  Smooth'
  <1>1. UNCHANGED <<event, google>> /\ worker \in [Workers -> WorkerRec]
    BY DEF LeaseRunsOut, outside, Typed, Acting
  <1>2. \A k \in Keys : op'[k].partial = op[k].partial
    <2>1. \A k \in Keys : op[k] \in OpRec
      BY DEF Typed, Tables
    <2> QED BY <2>1 DEF LeaseRunsOut, OpRec
  <1>3. ASSUME NEW v \in Workers PROVE Steady(worker'[v], event, google)
    <2>1. CASE v = w
      <3>1. worker'[v].pc = "idle"
        BY <2>1 DEF LeaseRunsOut, Idle
      <3> QED BY <3>1 DEF Steady, Closing
    <2>2. CASE worker'[v] = [worker[v] EXCEPT !.late = TRUE]
      <3>1. /\ worker'[v].pc = worker[v].pc /\ worker'[v].key = worker[v].key
            /\ worker'[v].ev = worker[v].ev /\ worker'[v].ids = worker[v].ids
        BY <1>1, <2>2 DEF WorkerRec
      <3>2. Steady(worker[v], event, google)
        BY DEF Smooth
      <3> QED BY <3>1, <3>2 DEF Steady, Found
    <2>3. CASE worker'[v] = worker[v]
      BY <2>3 DEF Smooth
    <2> QED BY <2>1, <2>2, <2>3 DEF LeaseRunsOut
  <1> QED BY <1>1, <1>2, <1>3 DEF Smooth

\* Without a fault, and with a crash, nothing comes to be deferred.
LEMMA NextSmooth ==
  ASSUME "expiry" \notin Calls, Typed, HeldAlone, Truthful, Smooth, [Next]_vars,
         UNCHANGED faults \/ \E w \in Workers : Crash(w)
  PROVE  Smooth'
  <1>1. ASSUME UNCHANGED <<event, op, google, worker>> PROVE Smooth'
    BY <1>1 DEF Smooth
  <1>2. ASSUME NEW w \in Workers, ExpiryReads(w) \/ ExpiryPuts(w) PROVE FALSE
    BY <1>2 DEF ExpiryReads, ExpiryPuts, HeldAlone, NobodyExpires, Expiring
  <1>3. ASSUME NEW w \in Workers, DeferJournal(w) \/ DeferEvent(w) \/ DeferCard(w) PROVE FALSE
    BY <1>3 DEF DeferJournal, DeferEvent, DeferCard, Smooth, Steady
  <1>4. CASE \E w \in Workers : Crash(w)
    BY <1>4, SmoothRequests
  <1>5. ASSUME NEW w \in Workers, Step(w), UNCHANGED faults PROVE Smooth'
    BY <1>2, <1>3, <1>5, SmoothRequests, SmoothLease, SmoothMail, SmoothCopies, SmoothCommit,
       SmoothComplete DEF Step
  <1>6. ASSUME NEW i \in Generations, GuestAccepts(i) PROVE Smooth'
    BY <1>1, <1>6 DEF GuestAccepts
  <1> QED BY <1>1, <1>2, <1>4, <1>5, <1>6, SmoothRequests, SmoothLeaseEnd DEF Next, vars

-----------------------------------------------------------------------------
\* Receipts.

LEMMA ReceiptsStay ==
  ASSUME Typed, Receipts, UNCHANGED letters,
         \A j \in Keys : /\ op'[j].state = "none" => op[j].state = "none"
                         /\ op'[j].receipt = "none" <=> op[j].receipt = "none",
         \A v \in Workers : worker'[v].pc \in {"send", "receipt", "unsent"} =>
           worker[v].pc \in {"send", "receipt", "unsent"} /\ worker'[v].key = worker[v].key
  PROVE  Receipts'
  <1>1. \A v \in Workers : worker[v].pc \in {"send", "receipt", "unsent"} => worker[v].key \in Keys
    BY DEF Typed, Acting, Fine, Handling, Working
  <1> QED BY <1>1 DEF Receipts

LEMMA ReceiptsMove ==
  ASSUME Typed, Receipts, UNCHANGED <<op, letters>>, NEW w \in Workers,
         \A v \in Workers \ {w} : worker'[v] = worker[v],
         worker'[w].pc \notin {"send", "receipt", "unsent"}
  PROVE  Receipts'
  BY ReceiptsStay


\* Steps of a worker that is not past the mail and writes no journal: where it
\* is afterwards, and that it still holds what it read of its operation.
Elsewhere == {"idle", "dead", "open", "fetch", "plan", "commit", "defer event", "defer card"}
LEMMA QuietMoves ==
  ASSUME Typed, HeldAlone, NEW w \in Workers,
         \/ \E k \in Keys : Request(w, k)
         \/ \E force \in BOOLEAN : Retry(w, force)
         \/ Poll(w) \/ Fetch(w) \/ Accept(w) \/ Conflict(w) \/ Open(w) \/ Reload(w)
         \/ \E c \in Calendars : FindCopy(w, c) \/ PatchCopy(w, c) \/ DeleteCopy(w, c)
         \/ DeferEvent(w) \/ DeferCard(w) \/ Note(w)
  PROVE  /\ UNCHANGED <<op, letters>> /\ worker[w].pc \notin PastMail \cup {"mail", "send"}
         /\ \A v \in Workers \ {w} : worker'[v] = worker[v]
         /\ \/ worker'[w].pc \in Elsewhere
            \/ /\ worker'[w].pc = "claim" /\ worker[w].key \in Keys
               /\ worker'[w].key = worker[w].key
               /\ worker'[w].receipt = op[worker[w].key].receipt
            \/ /\ worker[w].pc \in Working
               /\ worker'[w].pc \in {"find", "patch", "delete", "defer", "mail"}
               /\ worker'[w].key = worker[w].key /\ worker'[w].receipt = worker[w].receipt
               /\ worker'[w].force = worker[w].force
  <1> DEFINE q == worker'[w]
             Kept == /\ worker[w].pc \in Working /\ q.pc \in {"find", "patch", "delete", "defer", "mail"}
                     /\ q.key = worker[w].key /\ q.receipt = worker[w].receipt
                     /\ q.force = worker[w].force
             Alone == \A v \in Workers \ {w} : worker'[v] = worker[v]
  <1>1. /\ UNCHANGED <<op, letters>> /\ worker[w].pc \notin PastMail \cup {"mail", "send"}
        /\ worker \in [Workers -> WorkerRec] /\ worker[w] \in WorkerRec
        /\ worker[w].pc \notin {"expire", "put"}
    BY DEF Request, Retry, Poll, Fetch, Accept, Conflict, Open, Reload, FindCopy, PatchCopy,
           DeleteCopy, DeferEvent, DeferCard, Note, PastMail, Typed, Acting, HeldAlone, NobodyExpires, Expiring
  <1>2. ASSUME NEW r, Become(w, r), r.pc \in Elsewhere PROVE Alone /\ q.pc \in Elsewhere
    BY <1>1, <1>2 DEF Become
  <1>3. ASSUME Stop(w) PROVE Alone /\ q.pc \in Elsewhere
    BY <1>3, Moves DEF Elsewhere
  <1>4. ASSUME NEW k, NEW gen, Plan(w, k, gen) PROVE Alone /\ q.pc \in Elsewhere
    <2>1. /\ [Idle EXCEPT !.pc = "open", !.key = k].pc \in Elsewhere
          /\ [Idle EXCEPT !.pc = "commit", !.key = k, !.ev = event].pc \in Elsewhere
      BY DEF Idle, Elsewhere
    <2> QED BY <1>2, <1>4, <2>1 DEF Plan
  <1>5. ASSUME \/ \E force \in BOOLEAN : Retry(w, force)
               \/ Poll(w) \/ Fetch(w)
        PROVE  Alone /\ q.pc \in Elsewhere
    <2>1. /\ \A force \in BOOLEAN :
               [Idle EXCEPT !.pc = "open", !.key = event.latest, !.force = force].pc \in Elsewhere
          /\ [Idle EXCEPT !.pc = "fetch", !.ev = event].pc \in Elsewhere
          /\ \A k, gen : [Idle EXCEPT !.pc = "plan", !.key = k, !.gen = gen].pc \in Elsewhere
      BY DEF Idle, Elsewhere
    <2>2. ASSUME NEW force \in BOOLEAN, Retry(w, force) PROVE Alone /\ q.pc \in Elsewhere
      BY <1>2, <2>1, <2>2 DEF Retry
    <2>3. ASSUME Poll(w) PROVE Alone /\ q.pc \in Elsewhere
      BY <1>2, <2>1, <2>3 DEF Poll
    <2>4. ASSUME Fetch(w) PROVE Alone /\ q.pc \in Elsewhere
      BY <1>2, <1>3, <2>1, <2>4 DEF Fetch
    <2> QED BY <1>5, <2>2, <2>3, <2>4
  <1>6. ASSUME DeferEvent(w) PROVE Alone /\ q.pc \in Elsewhere
    BY <1>6, Moves DEF DeferEvent, Elsewhere
  <1>7. ASSUME Open(w), ~Stop(w)
        PROVE  /\ Alone /\ q.pc = "claim" /\ worker[w].key \in Keys
               /\ q.key = worker[w].key /\ q.receipt = op[worker[w].key].receipt
    <2>1. worker[w].key \in Keys
      BY <1>7 DEF Open, Typed, Acting, Fine, Handling
    <2> QED BY <1>1, <1>7, <2>1 DEF Open, WorkerRec
  <1>8. ASSUME Reload(w) PROVE Alone /\ Kept
    <2> DEFINE k == worker[w].key
               ids == IF Intent[k] # "release" /\ worker[w].ids # Unset
                      THEN worker[w].ids ELSE event.ids
               left == IF Intent[k] = "release" THEN {c \in Calendars : ids[c] # 0} ELSE Calendars
               pc == CASE Intent[k] # "release" /\ ids # NoIds /\ ids[Organizer] = 0 -> "defer"
                       [] Intent[k] # "release" /\ (ids = NoIds \/ ids[Organizer] # 0) -> "find"
                       [] Intent[k] = "release" /\ ids = NoIds -> "mail"
                       [] Intent[k] = "release" /\ ids # NoIds -> "delete"
    <2>1. worker' = [worker EXCEPT ![w].ev = event, ![w].ids = ids, ![w].left = left, ![w].pc = pc]
      BY <1>8 DEF Reload
    <2>2. pc \in {"defer", "find", "mail", "delete"}
      <3> HIDE DEF ids
      <3> QED OBVIOUS
    <2> HIDE DEF ids, left, pc
    <2>3. worker[w].pc \in Working
      BY <1>8 DEF Reload, Working
    <2> QED BY <1>1, <2>1, <2>2, <2>3 DEF WorkerRec
  <1>9. ASSUME worker[w].pc \in {"find", "patch", "delete"}, NEW pc \in {"defer"}, Goto(w, pc)
        PROVE  Alone /\ Kept
    BY <1>1, <1>9 DEF Goto, Working, WorkerRec
  <1>10. ASSUME worker[w].pc \in {"find", "patch", "delete"}, NEW c, Onward(w, c, "mail")
         PROVE  Alone /\ Kept
    BY <1>1, <1>10 DEF Onward, Working, WorkerRec
  <1>11. ASSUME NEW c \in Calendars, FindCopy(w, c) PROVE Alone /\ Kept
    <2> DEFINE i == worker[w].ev.identity
               seen == [worker[w] EXCEPT !.ids[c] = i, !.left = @ \ {c},
                                         !.same = IF c = Organizer THEN SameInvite(w, i) ELSE @]
    <2>1. worker[w].pc = "find"
      BY <1>11 DEF FindCopy
    <2>2. CASE Become(w, IF seen.left = {} THEN [seen EXCEPT !.pc = "patch", !.left = Calendars]
                         ELSE seen)
      <3>1. /\ seen.pc = "find" /\ seen.key = worker[w].key /\ seen.receipt = worker[w].receipt
            /\ seen.force = worker[w].force
            /\ \A s : /\ [seen EXCEPT !.pc = "patch", !.left = s].pc = "patch"
                      /\ [seen EXCEPT !.pc = "patch", !.left = s].key = worker[w].key
                      /\ [seen EXCEPT !.pc = "patch", !.left = s].receipt = worker[w].receipt
                      /\ [seen EXCEPT !.pc = "patch", !.left = s].force = worker[w].force
        BY <1>1, <2>1 DEF WorkerRec
      <3> HIDE DEF seen
      <3> QED BY <1>1, <2>1, <2>2, <3>1 DEF Become, Working
    <2>3. CASE Goto(w, "defer")
      BY <1>9, <2>1, <2>3
    <2> QED BY <1>11, <2>2, <2>3 DEF FindCopy, Sync
  <1>12. ASSUME NEW c \in Calendars, PatchCopy(w, c) \/ DeleteCopy(w, c) PROVE Alone /\ Kept
    BY <1>1, <1>9, <1>10, <1>12 DEF PatchCopy, DeleteCopy, Sync
  <1> QED BY <1>1, <1>3, <1>4, <1>5, <1>6, <1>7, <1>8, <1>11, <1>12
          DEF Request, Accept, Conflict, DeferCard, Note

\* A worker at its mail, and what becomes of it and of the journal.
LEMMA MailMoves ==
  ASSUME Typed, HeldAlone, NEW w \in Workers, NEW k, k = worker[w].key,
         Mail(w) \/ Send(w) \/ Sent(w) \/ Unsent(w) \/ Complete(w)
  PROVE  /\ k \in Keys /\ op \in [Keys -> OpRec] /\ worker[w].pc \in Working
         /\ \A v \in Workers \ {w} : worker'[v] = worker[v]
         /\ \A pc : Goto(w, pc) => worker'[w].pc = pc /\ worker'[w].key = k
         /\ \A j \in Keys : j # k => op[j].state # "pending" /\ op'[j] = op[j]
         /\ op'[k].state # "none"
  <1>1. worker[w].pc \in Working /\ worker[w] \in WorkerRec /\ op \in [Keys -> OpRec]
    BY DEF Mail, Send, Sent, Unsent, Complete, Working, Typed, Tables, Acting
  <1>2. k \in Keys /\ event.latest = k /\ op[k].state = "pending"
    BY <1>1, AloneOperation
  <1>3. \A j \in Keys : j # k => op[j].state # "pending"
    BY <1>2 DEF HeldAlone, HeldByLease
  <1>4. \A v \in Workers \ {w} : worker'[v] = worker[v]
    BY Moves DEF Mail, Send, Sent, Unsent, Complete, GiveUp
  <1>5. \A pc : Goto(w, pc) => worker'[w].pc = pc /\ worker'[w].key = k
    BY <1>1 DEF Goto, Typed, Acting, WorkerRec
  <1>6. ASSUME NEW j \in Keys, j # k PROVE op'[j] = op[j]
    BY <1>1, <1>2, <1>6 DEF Mail, Send, Sent, Unsent, Complete, GiveUp
  <1>7. op'[k].state # "none"
    <2>1. op[k] \in OpRec
      BY <1>1, <1>2
    <2>2. ASSUME NEW receipt, GiveUp(w, receipt) PROVE op'[k].state = "unknown"
      BY <1>1, <1>2, <2>1, <2>2 DEF GiveUp, OpRec
    <2>3. ASSUME NEW receipt, op' = [op EXCEPT ![k].receipt = receipt] PROVE op'[k].state = "pending"
      BY <1>1, <1>2, <2>1, <2>3 DEF OpRec
    <2>4. CASE Complete(w)
      <3>1. op' = op \/ op' = [op EXCEPT ![k].state = "complete", ![k].lease = NoWorker]
        BY <2>4 DEF Complete
      <3> QED BY <1>1, <1>2, <2>1, <3>1 DEF OpRec
    <2> QED BY <1>2, <2>2, <2>3, <2>4 DEF Mail, Send, Sent, Unsent
  <1> QED BY <1>1, <1>2, <1>3, <1>4, <1>5, <1>6, <1>7

LEMMA MailReceipts ==
  ASSUME Typed, HeldAlone, Receipts, NEW w \in Workers,
         Mail(w) \/ Send(w) \/ Sent(w) \/ Unsent(w) \/ Complete(w)
  PROVE  Receipts'
  <1> DEFINE k == worker[w].key
  <1>1. /\ k \in Keys /\ op \in [Keys -> OpRec]
        /\ \A v \in Workers \ {w} : worker'[v] = worker[v]
        /\ \A pc : Goto(w, pc) => worker'[w].pc = pc /\ worker'[w].key = k
        /\ \A j \in Keys : j # k => op'[j] = op[j]
        /\ op'[k].state # "none"
    BY MailMoves
  <1>2. letters \in [Keys -> Nat] /\ \A j \in Keys : op[j] \in OpRec
    BY <1>1 DEF Typed, Tables
  <1>3. \A v \in Workers : worker[v].pc \in {"send", "receipt", "unsent"} => worker[v].key \in Keys
    BY DEF Typed, Acting, Fine, Handling, Working
  <1>4. /\ worker[w].pc \in {"send", "receipt", "unsent"} => op[k].receipt # "none"
        /\ \A v \in Workers \ {w} : worker[v].pc \in {"send", "receipt", "unsent"} =>
             op[worker[v].key].receipt # "none"
        /\ \A j \in Keys : /\ op[j].state = "none" => op[j].receipt = "none"
                           /\ op[j].receipt = "none" => letters[j] = 0
    BY DEF Receipts
  <1>5. ASSUME NEW receipt, op'[k].receipt = receipt, receipt # "none" \/ receipt = op[k].receipt,
               UNCHANGED letters,
               worker'[w].pc \in {"send", "receipt", "unsent"} =>
                 worker'[w].key = k /\ receipt # "none"
        PROVE  Receipts'
    <2>1. \A j \in Keys : op[j].receipt # "none" => op'[j].receipt # "none"
      BY <1>1, <1>5
    <2> QED BY <1>1, <1>3, <1>4, <1>5, <2>1 DEF Receipts
  <1>6. ASSUME NEW receipt, GiveUp(w, receipt) PROVE op'[k].receipt = receipt /\ worker'[w].pc = "idle"
    BY <1>1, <1>2, <1>6, Moves DEF GiveUp, OpRec
  <1>7. ASSUME NEW receipt, op' = [op EXCEPT ![k].receipt = receipt] PROVE op'[k].receipt = receipt
    BY <1>1, <1>2, <1>7 DEF OpRec
  <1>8. CASE Mail(w)
    <2>1. CASE Goto(w, "finish") /\ UNCHANGED op
      BY <1>1, <1>5, <1>8, <2>1 DEF Mail
    <2>2. CASE op' = [op EXCEPT ![k].receipt = "dispatching"] /\ Goto(w, "send")
      BY <1>1, <1>5, <1>7, <1>8, <2>2 DEF Mail
    <2>3. CASE GiveUp(w, op[k].receipt)
      BY <1>5, <1>6, <1>8, <2>3 DEF Mail
    <2> QED BY <1>8, <2>1, <2>2, <2>3 DEF Mail
  <1>9. CASE Send(w)
    <2>1. UNCHANGED op /\ op[k].receipt # "none"
      BY <1>4, <1>9 DEF Send
    <2>2. \A j \in Keys : j # k => letters'[j] = letters[j]
      BY <1>1, <1>2, <1>9 DEF Send
    <2>3. worker'[w].key = k
      BY <1>1, <1>9 DEF Send
    <2> QED BY <1>1, <1>3, <1>4, <2>1, <2>2, <2>3 DEF Receipts
  <1>10. CASE Sent(w)
    BY <1>1, <1>5, <1>7, <1>10 DEF Sent
  <1>11. CASE Unsent(w)
    BY <1>1, <1>5, <1>6, <1>11 DEF Unsent
  <1>12. CASE Complete(w)
    <2>1. op'[k].receipt = op[k].receipt
      BY <1>1, <1>2, <1>12 DEF Complete, OpRec
    <2>2. worker'[w].pc \in {"note", "dead"}
      BY <1>1, <1>12, Moves DEF Complete
    <2> QED BY <1>5, <1>12, <2>1, <2>2 DEF Complete
  <1> QED BY <1>8, <1>9, <1>10, <1>11, <1>12

LEMMA ClaimMoves ==
  ASSUME Typed, NEW w \in Workers, Claim(w) \/ DeferJournal(w)
  PROVE  /\ \A j \in Keys : op'[j].state = op[j].state /\ op'[j].receipt = op[j].receipt
         /\ UNCHANGED <<letters, faults>> /\ worker[w].pc \in {"claim", "defer"}
         /\ \A v \in Workers \ {w} : worker'[v] = worker[v]
         /\ worker'[w].pc \in {"reload", "idle", "defer event"}
  <1>1. op \in [Keys -> OpRec] /\ worker[w].key \in Keys
    BY DEF Claim, DeferJournal, Typed, Tables, Acting, Fine, Handling, Working
  <1>2. \A j \in Keys : op'[j].state = op[j].state /\ op'[j].receipt = op[j].receipt
    <2>1. CASE Claim(w)
      BY <1>1, <2>1 DEF Claim, OpRec
    <2>2. CASE DeferJournal(w)
      <3>1. op' = [op EXCEPT ![worker[w].key].partial = worker[w].ids,
                             ![worker[w].key].lease = NoWorker]
        BY <2>2 DEF DeferJournal
      <3> QED BY <1>1, <3>1 DEF OpRec
    <2> QED BY <2>1, <2>2
  <1> QED BY <1>2, Moves DEF Claim, DeferJournal

LEMMA CommitReceipts ==
  ASSUME Typed, HeldAlone, Truthful, Receipts, NEW w \in Workers, Commit(w)
  PROVE  Receipts' /\ letters'[worker[w].key] = 0
  <1> DEFINE k == worker[w].key
  <1>1. /\ k \in Keys /\ op'[k] = [NoOp EXCEPT !.state = "pending"]
        /\ \A j \in Keys \ {k} : op'[j] = op[j]
        /\ \A v \in Workers : worker[v].pc \notin Working
    BY CommitRow
  <1>2. UNCHANGED letters /\ op[k].state = "none" /\ Goto(w, "open")
    BY DEF Commit, CommitHolds
  <1>3. letters[k] = 0 /\ op'[k].state = "pending"
    BY <1>1, <1>2 DEF Receipts, NoOp
  <1> HIDE DEF k
  <1>4. \A v \in Workers : worker'[v].pc \notin {"send", "receipt", "unsent"}
    <2>1. worker'[w].pc = "open" /\ \A v \in Workers \ {w} : worker'[v] = worker[v]
      BY <1>2, Moves
    <2>2. \A v \in Workers : worker[v].pc \notin {"send", "receipt", "unsent"}
      BY <1>1 DEF Working
    <2> QED BY <2>1, <2>2
  <1>5. ASSUME NEW j \in Keys
        PROVE  /\ op'[j].state = "none" => op'[j].receipt = "none"
               /\ op'[j].receipt = "none" => letters'[j] = 0
    <2>1. letters'[j] = letters[j]
      BY <1>2
    <2>2. CASE j = k
      BY <1>3, <2>1, <2>2
    <2>3. CASE j # k
      <3>1. op'[j] = op[j]
        BY <1>1, <2>3
      <3> QED BY <2>1, <3>1 DEF Receipts
    <2> QED BY <2>2, <2>3
  <1>6. Receipts'
    BY <1>4, <1>5 DEF Receipts
  <1> QED BY <1>2, <1>3, <1>6 DEF k

LEMMA NextReceipts ==
  ASSUME "expiry" \notin Calls, Typed, HeldAlone, Truthful, Receipts, [Next]_vars
  PROVE  Receipts'
  <1>1. ASSUME UNCHANGED <<op, worker, letters>> PROVE Receipts'
    BY <1>1 DEF Receipts
  <1>2. ASSUME NEW w \in Workers, ExpiryReads(w) \/ ExpiryPuts(w) PROVE FALSE
    BY <1>2 DEF ExpiryReads, ExpiryPuts, HeldAlone, NobodyExpires, Expiring
  <1>3. ASSUME NEW w \in Workers,
               \/ \E k \in Keys : Request(w, k)
               \/ \E force \in BOOLEAN : Retry(w, force)
               \/ Poll(w) \/ Fetch(w) \/ Accept(w) \/ Conflict(w) \/ Open(w) \/ Reload(w)
               \/ \E c \in Calendars : FindCopy(w, c) \/ PatchCopy(w, c) \/ DeleteCopy(w, c)
               \/ DeferEvent(w) \/ DeferCard(w) \/ Note(w)
        PROVE  Receipts'
    <2>1. /\ UNCHANGED <<op, letters>> /\ \A v \in Workers \ {w} : worker'[v] = worker[v]
          /\ worker'[w].pc \notin {"send", "receipt", "unsent"}
      BY <1>3, QuietMoves DEF Elsewhere
    <2> QED BY <2>1, ReceiptsMove
  <1>4. ASSUME NEW w \in Workers, Claim(w) \/ DeferJournal(w) PROVE Receipts'
    BY <1>4, ClaimMoves, ReceiptsStay
  <1>5. ASSUME NEW w \in Workers, Crash(w) PROVE Receipts'
    BY <1>5, Moves, ReceiptsMove DEF Crash
  <1>6. ASSUME NEW w \in Workers, LeaseRunsOut(w) PROVE Receipts'
    <2>1. \A j \in Keys : op'[j].state = op[j].state /\ op'[j].receipt = op[j].receipt
      <3>1. \A j \in Keys : op[j] \in OpRec
        BY DEF Typed, Tables
      <3> QED BY <1>6, <3>1 DEF LeaseRunsOut, OpRec
    <2>2. \A v \in Workers : v # w => worker'[v].pc = worker[v].pc /\ worker'[v].key = worker[v].key
      <3>1. \A v \in Workers : worker[v] \in WorkerRec
        BY DEF Typed, Acting
      <3> QED BY <1>6, <3>1 DEF LeaseRunsOut, WorkerRec
    <2>3. worker'[w].pc = "idle" /\ UNCHANGED letters
      BY <1>6 DEF LeaseRunsOut, Idle
    <2> QED BY <2>1, <2>2, <2>3, ReceiptsStay
  <1>7. ASSUME NEW w \in Workers, Step(w) PROVE Receipts'
    BY <1>2, <1>3, <1>4, <1>7, MailReceipts, CommitReceipts DEF Step
  <1>8. ASSUME NEW i \in Generations, GuestAccepts(i) PROVE Receipts'
    BY <1>1, <1>8 DEF GuestAccepts
  <1> QED BY <1>1, <1>2, <1>3, <1>5, <1>6, <1>7, <1>8 DEF Next, vars

-----------------------------------------------------------------------------
\* The ledger.

LEMMA LedgerStays ==
  ASSUME NEW k \in Keys, Ledger(k), letters'[k] = letters[k], UNCHANGED faults,
         op'[k].state = "pending" /\ ~InHand(k)' =>
           /\ op[k].state = "pending" /\ ~InHand(k)
           /\ Smooth /\ Shut(k) => Smooth' /\ Shut(k)'
  PROVE  Ledger(k)'
  BY DEF Ledger

\* Another fault pays for another letter.
LEMMA LedgerPays ==
  ASSUME Typed, NEW k \in Keys, Ledger(k), letters'[k] = letters[k], faults' = faults + 1,
         op'[k].state = "pending" /\ ~InHand(k)' => op[k].state = "pending" /\ ~InHand(k)
  PROVE  Ledger(k)'
  <1>1. letters[k] \in Nat /\ faults \in Nat
    BY EventOperationsAssumption DEF Typed, Tables
  <1> QED BY <1>1 DEF Ledger

LEMMA StillInHand ==
  ASSUME NEW k \in Keys, NEW w \in Workers, \A v \in Workers \ {w} : worker'[v] = worker[v],
         worker[w].pc \notin PastMail \/ worker[w].key # k, ~InHand(k)'
  PROVE  ~InHand(k)
  BY DEF InHand

LEMMA ShutMoves ==
  ASSUME NEW k \in Keys, Shut(k), op'[k].receipt # "none", op'[k].lease # NoWorker,
         op'[k].lease = Expired => op[k].lease = Expired,
         NEW w \in Workers, \A v \in Workers \ {w} : worker'[v] = worker[v],
         Barred(worker'[w], k, op'[k])
  PROVE  Shut(k)'
  <1>1. ASSUME NEW v \in Workers PROVE Barred(worker'[v], k, op'[k])
    BY DEF Shut, Barred
  <1> QED BY <1>1 DEF Shut

LEMMA QuietLedger ==
  ASSUME Typed, HeldAlone, Smooth => Smooth', NEW k \in Keys, Ledger(k), UNCHANGED faults,
         NEW w \in Workers,
         \/ \E j \in Keys : Request(w, j)
         \/ \E force \in BOOLEAN : Retry(w, force)
         \/ Poll(w) \/ Fetch(w) \/ Accept(w) \/ Conflict(w) \/ Open(w) \/ Reload(w)
         \/ \E c \in Calendars : FindCopy(w, c) \/ PatchCopy(w, c) \/ DeleteCopy(w, c)
         \/ DeferEvent(w) \/ DeferCard(w) \/ Note(w)
  PROVE  Ledger(k)'
  <1>1. /\ UNCHANGED <<op, letters>> /\ worker[w].pc \notin PastMail
        /\ \A v \in Workers \ {w} : worker'[v] = worker[v]
        /\ \/ worker'[w].pc \in Elsewhere
           \/ /\ worker'[w].pc = "claim" /\ worker'[w].key = worker[w].key
              /\ worker'[w].receipt = op[worker[w].key].receipt
           \/ /\ worker[w].pc \in Working
              /\ worker'[w].pc \in {"find", "patch", "delete", "defer", "mail"}
              /\ worker'[w].key = worker[w].key /\ worker'[w].receipt = worker[w].receipt
              /\ worker'[w].force = worker[w].force
    BY QuietMoves
  <1>2. Shut(k) => Barred(worker'[w], k, op'[k])
    <2>1. CASE worker'[w].pc \in Elsewhere
      BY <2>1 DEF Barred, Elsewhere, Working
    <2>2. CASE /\ worker'[w].pc = "claim" /\ worker'[w].key = worker[w].key
               /\ worker'[w].receipt = op[worker[w].key].receipt
      BY <2>2 DEF Barred, Shut, Working
    <2>3. CASE /\ worker[w].pc \in Working
               /\ worker'[w].pc \in {"find", "patch", "delete", "defer", "mail"}
               /\ worker'[w].key = worker[w].key /\ worker'[w].receipt = worker[w].receipt
               /\ worker'[w].force = worker[w].force
      BY <2>3 DEF Barred, Shut
    <2> QED BY <1>1, <2>1, <2>2, <2>3
  <1>3. Shut(k) => Shut(k)'
    BY <1>1, <1>2, ShutMoves DEF Shut
  <1>4. ~InHand(k)' => ~InHand(k)
    BY <1>1, StillInHand
  <1> QED BY <1>1, <1>3, <1>4, LedgerStays

LEMMA ClaimLedger ==
  ASSUME Typed, Smooth => Smooth', NEW k \in Keys, Ledger(k), NEW w \in Workers,
         Claim(w) \/ DeferJournal(w)
  PROVE  Ledger(k)'
  <1>1. /\ op'[k].state = op[k].state /\ op'[k].receipt = op[k].receipt
        /\ UNCHANGED <<letters, faults>> /\ worker[w].pc \in {"claim", "defer"}
        /\ \A v \in Workers \ {w} : worker'[v] = worker[v]
        /\ worker'[w].pc \in {"reload", "idle", "defer event"}
    BY ClaimMoves
  <1>2. ~InHand(k)' => ~InHand(k)
    BY <1>1, StillInHand DEF PastMail
  <1>3. ASSUME Smooth, Shut(k) PROVE Shut(k)'
    <2>1. Claim(w)
      BY <1>3 DEF DeferJournal, Smooth, Steady
    <2>2. CASE Claimable(w, worker[w].key) /\ op' = [op EXCEPT ![worker[w].key].lease = w]
               /\ Goto(w, "reload")
      <3>1. /\ worker'[w].pc = "reload" /\ worker'[w].key = worker[w].key
            /\ worker'[w].receipt = worker[w].receipt /\ op \in [Keys -> OpRec]
        BY <2>2 DEF Goto, Typed, Tables, Acting, WorkerRec
      <3>2. CASE worker[w].key = k
        <4>1. op'[k].lease = w /\ w \notin {NoWorker, Expired}
          BY <2>2, <3>1, <3>2, EventOperationsAssumption DEF OpRec
        <4>2. worker[w].receipt # "none"
          BY <1>1, <1>3, <2>1, <2>2, <3>2 DEF Claim, Claimable, Shut, Barred
        <4>3. Barred(worker'[w], k, op'[k])
          BY <3>1, <4>1, <4>2 DEF Barred
        <4> QED BY <1>1, <1>3, <4>1, <4>3, ShutMoves DEF Shut
      <3>3. CASE worker[w].key # k
        <4>1. op'[k] = op[k]
          BY <2>2, <3>1, <3>3
        <4>2. Barred(worker'[w], k, op'[k])
          BY <3>1, <3>3 DEF Barred
        <4> QED BY <1>1, <1>3, <4>1, <4>2, ShutMoves DEF Shut
      <3> QED BY <3>2, <3>3
    <2>3. CASE op' = op /\ Stop(w)
      <3>1. worker'[w].pc = "idle"
        BY <2>3, Moves
      <3>2. Barred(worker'[w], k, op'[k])
        BY <3>1 DEF Barred, Working
      <3> QED BY <1>1, <1>3, <2>3, <3>2, ShutMoves DEF Shut
    <2> QED BY <2>1, <2>2, <2>3 DEF Claim
  <1> QED BY <1>1, <1>2, <1>3, LedgerStays

\* The mail: the operation stays in hand until it is settled.
LEMMA MailLedger ==
  ASSUME Typed, HeldAlone, Truthful, Smooth => Smooth', NEW k \in Keys, Ledger(k), NEW w \in Workers,
         Mail(w) \/ Send(w) \/ Sent(w) \/ Unsent(w) \/ Complete(w)
  PROVE  Ledger(k)'
  <1> DEFINE j == worker[w].key
  <1>1. /\ j \in Keys /\ op \in [Keys -> OpRec]
        /\ \A v \in Workers \ {w} : worker'[v] = worker[v]
        /\ \A pc : Goto(w, pc) => worker'[w].pc = pc /\ worker'[w].key = j
        /\ \A i \in Keys : i # j => op[i].state # "pending" /\ op'[i] = op[i]
    BY MailMoves
  <1>2. CASE k # j
    BY <1>1, <1>2 DEF Ledger
  <1>3. ASSUME k = j, worker'[w].pc \in PastMail, worker'[w].key = j PROVE Ledger(k)'
    BY <1>3 DEF Ledger, InHand
  <1>4. ASSUME k = j, op'[j].state # "pending" PROVE Ledger(k)'
    BY <1>4 DEF Ledger
  <1>5. ASSUME NEW receipt, GiveUp(w, receipt) PROVE op'[j].state = "unknown"
    BY <1>1, <1>5 DEF GiveUp, OpRec
  <1>6. CASE k = j /\ Mail(w)
    <2>1. CASE Goto(w, "finish")
      BY <1>1, <1>3, <1>6, <2>1 DEF PastMail
    <2>2. CASE GiveUp(w, op[j].receipt)
      BY <1>4, <1>5, <1>6, <2>2
    <2>3. CASE MaySend(w) /\ op' = [op EXCEPT ![j].receipt = "dispatching"] /\ Goto(w, "send")
      <3>1. /\ worker'[w].pc = "send" /\ worker'[w].force = worker[w].force /\ worker'[w].key = j
            /\ worker'[w].receipt = worker[w].receipt
        BY <2>3 DEF Goto, Typed, Acting, WorkerRec
      <3>2. /\ op'[k].receipt = "dispatching" /\ op'[k].lease = op[k].lease
            /\ op'[k].state = op[k].state
        BY <1>1, <1>6, <2>3 DEF OpRec
      <3>3. worker[w].pc = "mail" /\ UNCHANGED <<letters, faults>>
        BY <1>6 DEF Mail
      <3>4. ASSUME Shut(k) PROVE Shut(k)'
        <4>1. worker[w].force
          BY <1>6, <2>3, <3>3, <3>4 DEF Shut, Barred, MaySend, Working
        <4>2. Barred(worker'[w], k, op'[k])
          BY <3>1, <4>1 DEF Barred
        <4> QED BY <1>1, <3>2, <3>4, <4>2, ShutMoves DEF Shut
      <3>5. ~InHand(k)' => ~InHand(k)
        BY <1>1, <3>3, StillInHand DEF PastMail
      <3> QED BY <3>2, <3>3, <3>4, <3>5, LedgerStays
    <2> QED BY <1>6, <2>1, <2>2, <2>3 DEF Mail
  <1>7. CASE k = j /\ Send(w)
    BY <1>1, <1>3, <1>7 DEF Send, PastMail
  <1>8. CASE k = j /\ Sent(w)
    BY <1>1, <1>3, <1>8 DEF Sent, PastMail
  <1>9. CASE k = j /\ Unsent(w)
    BY <1>4, <1>5, <1>9 DEF Unsent
  <1>10. CASE k = j /\ Complete(w)
    <2>1. op' = [op EXCEPT ![j].state = "complete", ![j].lease = NoWorker]
      BY <1>10, FinishHolds DEF Complete
    <2>2. op'[j].state = "complete"
      BY <1>1, <2>1 DEF OpRec
    <2> QED BY <1>4, <1>10, <2>2
  <1> QED BY <1>2, <1>6, <1>7, <1>8, <1>9, <1>10

LEMMA CommitLedger ==
  ASSUME Typed, HeldAlone, Truthful, Receipts, NEW k \in Keys, NEW w \in Workers, Commit(w)
  PROVE  Ledger(k)'
  <1>1. /\ ~Unresolved /\ \A j \in Keys \ {worker[w].key} : op'[j] = op[j]
    BY CommitRow
  <1>2. op[k].state # "pending"
    BY <1>1, EventOperationsAssumption DEF HeldAlone, HeldByLease, Unresolved
  <1> QED BY <1>1, <1>2, CommitReceipts DEF Ledger

\* A crash past the mail leaves one letter, and the lease with the dead.
LEMMA CrashLedger ==
  ASSUME Typed, HeldAlone, Truthful, Frugal, Smooth => Smooth', NEW k \in Keys,
         NEW w \in Workers, Crash(w)
  PROVE  Ledger(k)'
  <1>1. /\ UNCHANGED <<op, letters>> /\ faults' = faults + 1 /\ worker'[w].pc = "dead"
        /\ \A v \in Workers \ {w} : worker'[v] = worker[v]
    BY Moves DEF Crash, Fault
  <1>2. letters[k] \in Nat /\ faults \in Nat
    BY EventOperationsAssumption DEF Typed, Tables
  <1>3. CASE worker[w].pc \in PastMail /\ worker[w].key = k
    <2>1. letters[k] <= 1 \/ letters[k] <= faults
      BY DEF Frugal, Paid
    <2>2. CASE letters[k] = 1 /\ faults = 0
      <3>1. Smooth'
        BY <2>2 DEF Frugal
      <3>2. op[k].receipt # "none"
        BY <2>2 DEF Frugal, Receipts
      <3>3. op[k].lease = w /\ \A v \in Workers \ {w} : worker[v].pc \notin Working
        BY <1>3, AloneOperation DEF PastMail, Working
      <3>4. op[k].lease \notin {NoWorker, Expired}
        BY <3>3, EventOperationsAssumption
      <3>5. ASSUME NEW v \in Workers PROVE Barred(worker'[v], k, op'[k])
        <4>1. worker'[v].pc \notin Working
          BY <1>1, <3>3 DEF Working
        <4> QED BY <1>1, <3>4, <4>1 DEF Barred, Working
      <3>6. Shut(k)'
        BY <1>1, <3>2, <3>4, <3>5 DEF Shut
      <3> QED BY <1>1, <2>2, <3>1, <3>6 DEF Ledger
    <2>3. CASE ~(letters[k] = 1 /\ faults = 0)
      <3>1. letters[k] = 0 \/ letters[k] < faults + 1
        BY <1>2, <2>1, <2>3
      <3> QED BY <1>1, <3>1 DEF Ledger
    <2> QED BY <2>2, <2>3
  <1>4. CASE ~(worker[w].pc \in PastMail /\ worker[w].key = k)
    <2>1. ~InHand(k)' => ~InHand(k)
      BY <1>1, <1>4, StillInHand
    <2> QED BY <1>1, <2>1, LedgerPays DEF Frugal
  <1> QED BY <1>3, <1>4

LEMMA LeaseEndLedger ==
  ASSUME Typed, Smooth => Smooth', NEW k \in Keys, Ledger(k), NEW w \in Workers, LeaseRunsOut(w)
  PROVE  Ledger(k)'
  <1>1. UNCHANGED <<letters, faults>> /\ worker[w].pc = "dead" /\ worker'[w].pc = "idle"
    BY DEF LeaseRunsOut, Idle
  <1>2. /\ op'[k].state = op[k].state /\ op'[k].receipt = op[k].receipt
        /\ op'[k].lease = IF op[k].lease = w THEN Expired ELSE op[k].lease
    <2>1. op[k] \in OpRec
      BY DEF Typed, Tables
    <2> QED BY <2>1 DEF LeaseRunsOut, OpRec
  <1>3. ASSUME NEW v \in Workers, v # w
        PROVE  /\ worker'[v].pc = worker[v].pc /\ worker'[v].key = worker[v].key
               /\ worker'[v].receipt = worker[v].receipt /\ worker'[v].force = worker[v].force
               /\ worker'[v].late = (worker[v].late \/ (worker[v].pc = "claim"
                                     /\ worker[v].key \in Keys /\ op[worker[v].key].lease = w))
    <2>1. worker[v] \in WorkerRec
      BY DEF Typed, Acting
    <2> QED BY <1>3, <2>1 DEF LeaseRunsOut, WorkerRec
  <1>4. ASSUME Shut(k) PROVE Shut(k)'
    <2>1. op'[k].receipt # "none" /\ op'[k].lease # NoWorker
      BY <1>2, <1>4, EventOperationsAssumption DEF Shut
    <2>2. ASSUME NEW v \in Workers PROVE Barred(worker'[v], k, op'[k])
      <3>1. CASE v = w
        BY <1>1, <3>1 DEF Barred, Working
      <3>2. CASE v # w
        <4>1. Barred(worker[v], k, op[k])
          BY <1>4 DEF Shut
        <4> QED BY <1>2, <1>3, <3>2, <4>1 DEF Barred
      <3> QED BY <3>1, <3>2
    <2> QED BY <2>1, <2>2 DEF Shut
  <1>5. ~InHand(k)' => ~InHand(k)
    BY <1>1, <1>3 DEF InHand, PastMail
  <1> QED BY <1>1, <1>2, <1>4, <1>5, LedgerStays

LEMMA NextLedger ==
  ASSUME "expiry" \notin Calls, Typed, HeldAlone, Truthful, Frugal, [Next]_vars, NEW k \in Keys
  PROVE  Ledger(k)'
  <1>1. Ledger(k) /\ Receipts
    BY DEF Frugal
  <1>2. UNCHANGED faults \/ (\E w \in Workers : Crash(w)) => (Smooth => Smooth')
    BY NextSmooth
  <1>3. ASSUME UNCHANGED <<event, op, google, worker, letters, faults>> PROVE Ledger(k)'
    BY <1>1, <1>3 DEF Ledger, InHand, Shut, Smooth
  <1>4. ASSUME NEW w \in Workers, ExpiryReads(w) \/ ExpiryPuts(w) PROVE FALSE
    BY <1>4 DEF ExpiryReads, ExpiryPuts, HeldAlone, NobodyExpires, Expiring
  <1>5. ASSUME NEW w \in Workers, NEW c \in Calendars,
               FindCopy(w, c) \/ PatchCopy(w, c) \/ DeleteCopy(w, c), ~UNCHANGED faults
        PROVE  Ledger(k)'
    <2>1. faults' = faults + 1
      BY <1>5 DEF FindCopy, PatchCopy, DeleteCopy, Sync, Fault
    <2>2. /\ UNCHANGED <<op, letters>> /\ worker[w].pc \notin PastMail
          /\ \A v \in Workers \ {w} : worker'[v] = worker[v]
      BY <1>5, QuietMoves
    <2>3. ~InHand(k)' => ~InHand(k)
      BY <2>2, StillInHand
    <2> QED BY <1>1, <2>1, <2>2, <2>3, LedgerPays
  <1>6. ASSUME NEW w \in Workers, Send(w), ~UNCHANGED faults PROVE Ledger(k)'
    <2>1. /\ worker'[w].pc = "unsent" /\ worker'[w].key = worker[w].key
          /\ \A j \in Keys : j # worker[w].key => op[j].state # "pending" /\ op'[j] = op[j]
      BY <1>6, MailMoves DEF Send
    <2> QED BY <2>1 DEF Ledger, InHand, PastMail
  <1>7. ASSUME NEW w \in Workers, Step(w), UNCHANGED faults PROVE Ledger(k)'
    BY <1>1, <1>2, <1>4, <1>7, QuietLedger, ClaimLedger, MailLedger, CommitLedger DEF Step
  <1>8. ASSUME NEW w \in Workers, Step(w), ~UNCHANGED faults PROVE Ledger(k)'
    <2>1. \/ \E c \in Calendars : FindCopy(w, c) \/ PatchCopy(w, c) \/ DeleteCopy(w, c)
          \/ Send(w)
      BY <1>8 DEF Step, Fetch, Accept, Commit, Conflict, Open, Claim, Reload, DeferJournal,
                  DeferEvent, DeferCard, Mail, Sent, Unsent, Complete, Note, ExpiryPuts
    <2> QED BY <1>5, <1>6, <1>8, <2>1
  <1>9. ASSUME NEW w \in Workers,
               \/ \E j \in Keys : Request(w, j)
               \/ \E force \in BOOLEAN : Retry(w, force)
               \/ Poll(w)
        PROVE  Ledger(k)'
    <2>1. UNCHANGED faults
      BY <1>9 DEF Request, Retry, Poll
    <2> QED BY <1>1, <1>2, <1>9, <2>1, QuietLedger
  <1>10. ASSUME NEW w \in Workers, Crash(w) PROVE Ledger(k)'
    BY <1>2, <1>10, CrashLedger
  <1>11. ASSUME NEW w \in Workers, LeaseRunsOut(w) PROVE Ledger(k)'
    <2>1. UNCHANGED faults
      BY <1>11 DEF LeaseRunsOut
    <2> QED BY <1>1, <1>2, <1>11, <2>1, LeaseEndLedger
  <1>12. ASSUME NEW i \in Generations, GuestAccepts(i) PROVE Ledger(k)'
    BY <1>3, <1>12 DEF GuestAccepts
  <1> QED BY <1>3, <1>4, <1>7, <1>8, <1>9, <1>10, <1>11, <1>12 DEF Next, vars

\* Every step but a sender's leaves the letters alone, and none undoes a fault.
LEMMA Counters ==
  ASSUME [Next]_vars
  PROVE  /\ faults' = faults \/ faults' = faults + 1
         /\ UNCHANGED letters \/ \E w \in Workers : Send(w)
  <1> DEFINE Goal == /\ faults' = faults \/ faults' = faults + 1
                     /\ UNCHANGED letters \/ \E w \in Workers : Send(w)
  <1>1. ASSUME NEW w \in Workers, NEW c \in Calendars,
               FindCopy(w, c) \/ PatchCopy(w, c) \/ DeleteCopy(w, c)
        PROVE  Goal
    BY <1>1 DEF FindCopy, PatchCopy, DeleteCopy, Sync, Fault
  <1>2. ASSUME NEW w \in Workers, Send(w) PROVE Goal
    BY <1>2 DEF Send, Fault
  <1>3. ASSUME NEW w \in Workers,
               \/ Fetch(w) \/ Accept(w) \/ Commit(w) \/ Conflict(w) \/ Open(w) \/ Claim(w)
               \/ Reload(w) \/ DeferJournal(w) \/ DeferEvent(w) \/ DeferCard(w)
        PROVE  UNCHANGED <<letters, faults>>
    BY <1>3 DEF Fetch, Accept, Commit, Conflict, Open, Claim, Reload, DeferJournal, DeferEvent,
                DeferCard
  <1>4. ASSUME NEW w \in Workers,
               Mail(w) \/ Sent(w) \/ Unsent(w) \/ Complete(w) \/ Note(w) \/ ExpiryPuts(w)
        PROVE  UNCHANGED <<letters, faults>>
    BY <1>4 DEF Mail, Sent, Unsent, Complete, Note, ExpiryPuts
  <1>5. ASSUME NEW w \in Workers, Step(w) PROVE Goal
    BY <1>1, <1>2, <1>3, <1>4, <1>5 DEF Step
  <1>6. ASSUME NEW w \in Workers,
               \/ \E k \in Keys : Request(w, k)
               \/ \E force \in BOOLEAN : Retry(w, force)
               \/ Poll(w) \/ ExpiryReads(w) \/ LeaseRunsOut(w)
        PROVE  UNCHANGED <<letters, faults>>
    BY <1>6 DEF Request, Retry, Poll, ExpiryReads, LeaseRunsOut
  <1>7. ASSUME NEW w \in Workers, Crash(w) PROVE Goal
    BY <1>7 DEF Crash, Fault
  <1>8. ASSUME NEW i \in Generations, GuestAccepts(i) PROVE UNCHANGED <<letters, faults>>
    BY <1>8 DEF GuestAccepts
  <1>9. CASE UNCHANGED vars
    BY <1>9 DEF vars
  <1>10. CASE Next
    BY <1>5, <1>6, <1>7, <1>8, <1>10 DEF Next
  <1> QED BY <1>9, <1>10

\* A letter is sent when there was none, or when more faults than letters went before.
LEMMA NextPaid ==
  ASSUME "expiry" \notin Calls, Typed, Typed', HeldAlone, Frugal, [Next]_vars
  PROVE  Paid'
  <1>1. \A k \in Keys : letters[k] \in Nat /\ letters'[k] \in Nat
    BY DEF Typed, Tables
  <1>2. faults \in Nat /\ faults' \in Nat /\ faults <= faults'
    <2>1. faults \in Nat
      BY EventOperationsAssumption DEF Typed, Tables
    <2>2. faults' \in {faults, faults + 1}
      BY Counters
    <2> QED BY <2>1, <2>2
  <1>3. CASE UNCHANGED letters
    BY <1>1, <1>2, <1>3 DEF Frugal, Paid
  <1>4. ASSUME NEW w \in Workers, Send(w) PROVE Paid'
    <2> DEFINE j == worker[w].key
    <2>1. /\ j \in Keys /\ op[j].state = "pending"
          /\ \A v \in Workers \ {w} : worker[v].pc \notin Working
      BY <1>4, AloneOperation DEF Send, Working
    <2>2. worker[w].pc = "send" /\ letters \in [Keys -> Nat]
      BY <1>4 DEF Send, Typed, Tables
    <2> HIDE DEF j
    <2>3. /\ \A k \in Keys : k # j => letters'[k] = letters[k]
          /\ letters'[j] = letters[j] \/ (~worker[w].force /\ letters'[j] = letters[j] + 1)
      BY <1>4, <2>1, <2>2 DEF Send, j
    <2>4. ~InHand(j)
      BY <2>1, <2>2 DEF InHand, PastMail, Working
    <2>5. ~worker[w].force => ~Shut(j)
      BY <2>2 DEF Shut, Barred, j
    <2>6. ~worker[w].force => letters[j] = 0 \/ letters[j] < faults
      BY <2>1, <2>4, <2>5 DEF Frugal, Ledger
    <2>7. \A k \in Keys : letters[k] <= 1 \/ letters[k] <= faults
      BY DEF Frugal, Paid
    <2> QED BY <1>1, <1>2, <2>1, <2>3, <2>6, <2>7 DEF Paid
  <1> QED BY <1>3, <1>4, Counters

LEMMA NextFrugal ==
  ASSUME "expiry" \notin Calls, Typed, Typed', HeldAlone, Truthful, Frugal, [Next]_vars
  PROVE  Frugal'
  <1>1. ASSUME faults' = 0 PROVE Smooth'
    <2>1. faults \in Nat
      BY EventOperationsAssumption DEF Typed, Tables
    <2>2. faults' \in {faults, faults + 1}
      BY Counters
    <2>3. faults = 0 /\ UNCHANGED faults
      BY <1>1, <2>1, <2>2
    <2> QED BY <2>3, NextSmooth DEF Frugal
  <1> QED BY <1>1, NextReceipts, NextLedger, NextPaid DEF Frugal

LEMMA InitFrugal == Init => Frugal
  <1> SUFFICES ASSUME Init PROVE Frugal
    OBVIOUS
  <1>1. Receipts /\ Paid
    BY DEF Init, Receipts, Paid, NoOp, Idle
  <1>2. \A k \in Keys : Ledger(k)
    BY DEF Init, Ledger
  <1>3. Smooth
    BY DEF Init, Smooth, Steady, NoOp, Idle, NoEvent, NoIds, Closing
  <1> QED BY <1>1, <1>2, <1>3 DEF Frugal

\* With any number of crashes and failed calls, an operation's mail goes out
\* once, or no more often than there were faults: no letter is repeated for free.
THEOREM LettersArePaidFor ==
  ASSUME "expiry" \notin Calls
  PROVE  Spec => [](\A k \in Keys : letters[k] <= 1 \/ letters[k] <= faults)
  <1>1. Init => Frugal
    BY InitFrugal
  <1>2. Typed /\ HeldAlone /\ Truthful /\ Typed' /\ Frugal /\ [Next]_vars => Frugal'
    BY NextFrugal
  <1>3. Frugal => \A k \in Keys : letters[k] <= 1 \/ letters[k] <= faults
    BY DEF Frugal, Paid
  <1> QED BY <1>1, <1>2, <1>3, ServiceInvariant, PTL DEF Spec

\* An operation's mail goes out at most once unless an operator forces it: no
\* single crash, provider failure or stalled retry repeats it.
THEOREM MailGoesOutOnce ==
  ASSUME "expiry" \notin Calls, FaultLimit <= 1
  PROVE  Spec => []MailedAtMostOnce
  <1>1. Typed /\ (\A k \in Keys : letters[k] <= 1 \/ letters[k] <= faults) => MailedAtMostOnce
    <2> SUFFICES ASSUME Typed, \A k \in Keys : letters[k] <= 1 \/ letters[k] <= faults,
                        NEW k \in Keys
                 PROVE  letters[k] <= 1
      BY DEF MailedAtMostOnce
    <2>1. faults \in 0..FaultLimit /\ letters[k] \in Nat /\ FaultLimit \in Nat
      BY EventOperationsAssumption DEF Typed, Tables
    <2> QED BY <2>1
  <1> QED BY <1>1, LettersArePaidFor, ServiceInvariant, PTL
=============================================================================
