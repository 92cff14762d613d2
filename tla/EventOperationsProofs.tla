------------------------ MODULE EventOperationsProofs ------------------------
(***************************************************************************)
(* Proofs about EventOperations, for any numbers of workers, keys and      *)
(* faults: its types, and that one worker at a time acts on the event as   *)
(* long as no expiry puts a row back that has been written since.          *)
(***************************************************************************)
EXTENDS EventOperations, FiniteSetTheorems, TLAPS

\* Where a worker has an operation, and where it knows which copies there are.
Handling == Working \cup {"open", "claim", "defer event", "defer card", "note"}
Knowing == (Working \ {"reload"}) \cup {"defer event", "defer card", "note", "expire", "put"}
Places == Handling \cup {"idle", "dead", "fetch", "plan", "commit", "expire", "put"}

WorkerRec == [pc : Places, key : Keys \cup {NoKey}, ev : EventRec, gen : {0} \cup Generations,
              force : BOOLEAN, receipt : {"none", "dispatching", "sent", "unknown"},
              ids : Ids \cup {Unset}, left : SUBSET Calendars, same : BOOLEAN, late : BOOLEAN]

\* The keys in the journal, and whether there is an event.
Committed == {k \in Keys : op[k].state # "none"}
Begun == event.status # "none"

\* An event row that is or was the table's: its latest operation is in the
\* journal, and no more generations began than operations that begin one.
KnownAt(e, done) ==
  /\ e \in EventRec
  /\ e.gen <= Cardinality(Proposals \cap done)
  /\ e.status # "none" <=> e.latest # NoKey
  /\ e.status # "none" => e.latest \in done /\ e.gen # 0

\* What a worker knows where it is.
Fine(r, done, begun) ==
  /\ r \in WorkerRec
  /\ KnownAt(r.ev, done)
  /\ r.pc \in Handling \cup {"plan", "commit"} => r.key \in Keys
  /\ r.pc \in Handling => begun /\ r.key \in done
  /\ r.pc = "fetch" => r.ev.gen # 0 /\ AcceptKey[r.ev.gen] # NoKey
  /\ r.pc \in {"find", "patch", "expire", "put"} => r.ev.status # "none"
  /\ r.pc = "commit" => r.key \in Proposals \/ r.ev.status # "none"
  /\ r.pc \in Knowing => r.ids \in Ids

\* Types, as an inductive invariant: a live copy shows some generation.
CardRow == [gen : {0} \cup Generations, status : Statuses,
            sync : {"none", "syncing", "deferred", "synced"},
            invites : SUBSET (Calendars \X ({0} \cup Generations))]
Copied ==
  /\ google \in [Calendars -> [Generations -> CopyRec]]
  /\ \A c \in Calendars, g \in Generations : google[c][g].state = "live" => google[c][g].gen # 0
Tables ==
  /\ KnownAt(event, Committed)
  /\ op \in [Keys -> OpRec]
  /\ card \in CardRow
  /\ Copied
  /\ accepted \subseteq Generations /\ said \subseteq Generations
  /\ letters \in [Keys -> Nat] /\ faults \in 0..FaultLimit
Acting ==
  /\ worker \in [Workers -> WorkerRec]
  /\ \A w \in Workers : Fine(worker[w], Committed, Begun)
Typed == Tables /\ Acting

\* Whoever acts holds the lease of the one unresolved operation.  A plan whose
\* version still is the event's was made when nothing was unresolved, and a row
\* an expiry took with that version names the same latest operation.
Expiring == {"expire", "put"}
HeldByLease ==
  /\ \A w \in Workers : worker[w].pc \in Working =>
       op[worker[w].key].state = "pending" /\ op[worker[w].key].lease = w
  /\ \A k \in Keys : op[k].state = "pending" => event.latest = k
  /\ \A w \in Workers : worker[w].pc = "commit" =>
       /\ worker[w].ev.version <= event.version
       /\ worker[w].ev.version = event.version => ~Unresolved
  /\ \A w \in Workers : worker[w].pc \in Expiring =>
       /\ worker[w].ev.version <= event.version
       /\ worker[w].ev.version = event.version => worker[w].ev.latest = event.latest

-----------------------------------------------------------------------------
\* The journal only grows, and what was known of it stays so.

LEMMA ProposalsCount ==
  ASSUME NEW done, done \subseteq Keys
  PROVE  /\ IsFiniteSet(Proposals \cap done)
         /\ Cardinality(Proposals \cap done) \in Nat
         /\ Cardinality(Proposals \cap done) <= Cardinality(Proposals)
         /\ Cardinality(Proposals) \in Nat
  <1>1. IsFiniteSet(Proposals)
    BY EventOperationsAssumption, FS_Subset DEF Proposals
  <1>2. Proposals \cap done \subseteq Proposals
    OBVIOUS
  <1> QED BY <1>1, <1>2, FS_Subset, FS_CardinalityType

LEMMA KnownStays ==
  ASSUME NEW e, NEW done, NEW more, done \subseteq more, more \subseteq Keys, KnownAt(e, done)
  PROVE  KnownAt(e, more)
  <1>1. /\ Cardinality(Proposals \cap done) \in Nat
        /\ Cardinality(Proposals \cap more) \in Nat
        /\ Cardinality(Proposals \cap done) <= Cardinality(Proposals \cap more)
    <2>1. Proposals \cap done \subseteq Proposals \cap more /\ done \subseteq Keys
      OBVIOUS
    <2> QED BY <2>1, ProposalsCount, FS_Subset
  <1>2. e.gen \in Int
    BY DEF KnownAt, EventRec, Generations
  <1> QED BY <1>1, <1>2 DEF KnownAt

LEMMA FineStays ==
  ASSUME NEW r, NEW done, NEW more, done \subseteq more, more \subseteq Keys,
         NEW begun, NEW later, begun => later, Fine(r, done, begun)
  PROVE  Fine(r, more, later)
  <1>1. KnownAt(r.ev, more)
    BY KnownStays DEF Fine
  <1> QED BY <1>1 DEF Fine

\* A worker moves and the others stay.
LEMMA OneMoves ==
  ASSUME Acting, Committed \subseteq Committed', Begun => Begun', NEW w \in Workers,
         worker' = [worker EXCEPT ![w] = worker'[w]], Fine(worker'[w], Committed', Begun')
  PROVE  Acting'
  <1>1. Committed' \subseteq Keys
    BY DEF Committed
  <1>2. ASSUME NEW v \in Workers PROVE Fine(worker'[v], Committed', Begun')
    <2>1. CASE v = w
      BY <2>1
    <2>2. CASE v # w
      <3>1. worker'[v] = worker[v]
        BY <2>2 DEF Acting
      <3>2. Fine(worker[v], Committed, Begun)
        BY DEF Acting
      <3> QED BY <1>1, <3>1, <3>2, FineStays
    <2> QED BY <2>1, <2>2
  <1>3. worker' \in [Workers -> WorkerRec]
    BY DEF Acting, Fine
  <1> QED BY <1>2, <1>3 DEF Acting

LEMMA NobodyMoves ==
  ASSUME Acting, Committed \subseteq Committed', Begun => Begun', UNCHANGED worker
  PROVE  Acting'
  <1>1. Committed' \subseteq Keys
    BY DEF Committed
  <1> QED BY <1>1, FineStays DEF Acting

LEMMA IdleIsFine == ASSUME NEW done, done \subseteq Keys, NEW begun
                    PROVE  Fine(Idle, done, begun)
  <1>1. NoIds \in Ids
    BY DEF NoIds, Ids
  <1>2. NoEvent \in EventRec
    BY <1>1 DEF NoEvent, EventRec, Statuses
  <1>3. KnownAt(NoEvent, done)
    BY <1>2, ProposalsCount DEF KnownAt, NoEvent
  <1>4. Idle \in WorkerRec
    BY <1>1, <1>2 DEF Idle, WorkerRec, Places
  <1> QED BY <1>1, <1>3, <1>4 DEF Fine, Idle, Handling, Working, Knowing

LEMMA Stops ==
  ASSUME Acting, Committed \subseteq Committed', Begun => Begun', NEW w \in Workers,
         Stop(w) \/ Die(w)
  PROVE  Acting'
  <1>1. Committed' \subseteq Keys
    BY DEF Committed
  <1>2. Fine(Idle, Committed', Begun')
    BY <1>1, IdleIsFine
  <1>3. Fine([Idle EXCEPT !.pc = "dead"], Committed', Begun')
    BY <1>2 DEF Fine, Idle, WorkerRec, Places, Handling, Working, Knowing
  <1>4. worker'[w] = Idle \/ worker'[w] = [Idle EXCEPT !.pc = "dead"]
    BY DEF Stop, Die, Become, Acting
  <1>5. worker' = [worker EXCEPT ![w] = worker'[w]]
    BY DEF Stop, Die, Become, Acting
  <1> QED BY <1>2, <1>3, <1>4, <1>5, OneMoves

LEMMA GoesOn ==
  ASSUME Acting, Committed \subseteq Committed', Begun', NEW w \in Workers,
         worker[w].key \in Committed', NEW pc \in Handling \ {"find", "patch"},
         pc \in Knowing => worker[w].ids \in Ids, Goto(w, pc)
  PROVE  Acting'
  <1>1. /\ worker'[w] = [worker[w] EXCEPT !.pc = pc]
        /\ worker' = [worker EXCEPT ![w] = worker'[w]]
    BY DEF Goto, Acting
  <1>2. Fine(worker[w], Committed', Begun')
    <2>1. Committed' \subseteq Keys
      BY DEF Committed
    <2> QED BY <2>1, FineStays DEF Acting
  <1>3. /\ worker[w].key \in Keys
        /\ worker'[w] \in WorkerRec /\ worker'[w].pc = pc /\ worker'[w].key = worker[w].key
        /\ worker'[w].ev = worker[w].ev /\ worker'[w].ids = worker[w].ids
    BY <1>1, <1>2 DEF Fine, WorkerRec, Places, Committed
  <1>4. pc \notin {"plan", "commit", "fetch", "find", "patch", "expire", "put"}
    BY DEF Handling, Working
  <1>5. Fine(worker'[w], Committed', Begun')
    BY <1>2, <1>3, <1>4 DEF Fine
  <1> QED BY <1>1, <1>5, OneMoves

-----------------------------------------------------------------------------
\* Types.

LEMMA InitTyped == Init => Typed
  <1> SUFFICES ASSUME Init PROVE Typed
    OBVIOUS
  <1>1. Committed = {} /\ op \in [Keys -> OpRec]
    BY DEF Init, Committed, NoOp, OpRec
  <1>2. NoEvent \in EventRec /\ NoIds \in Ids
    BY DEF NoEvent, EventRec, Statuses, NoIds, Ids
  <1>3. KnownAt(event, Committed)
    BY <1>1, <1>2, ProposalsCount DEF Init, NoEvent, KnownAt
  <1>4. Copied
    BY DEF Init, Copied, NoCopy, CopyRec, Statuses
  <1>5. Tables
    BY <1>1, <1>3, <1>4, EventOperationsAssumption DEF Init, Tables, CardRow, Statuses
  <1>6. Acting
    <2>1. Fine(Idle, Committed, Begun)
      BY <1>1, IdleIsFine
    <2>2. Idle \in WorkerRec
      BY <2>1 DEF Fine
    <2> QED BY <2>1, <2>2 DEF Init, Acting
  <1> QED BY <1>5, <1>6 DEF Typed

\* What the lease, the journal and the tables look like does not matter to a
\* step that only moves a worker.
LEMMA OnlyAWorker ==
  ASSUME Typed, UNCHANGED <<event, op, card, outside, letters>>, faults' \in 0..FaultLimit
  PROVE  Tables' /\ Committed' = Committed /\ Begun' = Begun
  BY DEF Typed, Tables, Copied, Committed, Begun, outside

\* A worker that opens a planned operation or a retried one.
LEMMA Opens ==
  ASSUME Typed, UNCHANGED <<event, op>>, NEW w \in Workers, NEW r \in WorkerRec,
         r.pc = "open" /\ r.key = event.latest /\ r.key \in Keys /\ r.ev = NoEvent, Become(w, r)
  PROVE  Acting'
  <1>1. /\ Committed' = Committed /\ Begun' = Begun /\ Begun /\ Committed \subseteq Keys
        /\ event.latest \in Committed
    BY EventOperationsAssumption DEF Typed, Tables, KnownAt, Committed, Begun
  <1>2. KnownAt(NoEvent, Committed)
    BY <1>1, IdleIsFine DEF Fine, Idle
  <1>3. Fine(r, Committed, Begun)
    BY <1>1, <1>2 DEF Fine, Handling, Working, Knowing
  <1>4. worker'[w] = r /\ worker' = [worker EXCEPT ![w] = worker'[w]]
    BY DEF Typed, Acting, Become
  <1> QED BY <1>1, <1>3, <1>4, OneMoves DEF Typed

LEMMA Plans ==
  ASSUME Typed, UNCHANGED <<event, op>>, NEW w \in Workers, NEW k \in Keys, NEW gen, Plan(w, k, gen)
  PROVE  Acting'
  <1>1. Committed' = Committed /\ Begun' = Begun /\ Committed \subseteq Keys
    BY DEF Committed, Begun
  <1>2. CASE event.latest = k /\ Become(w, [Idle EXCEPT !.pc = "open", !.key = k])
    <2> DEFINE r == [Idle EXCEPT !.pc = "open", !.key = k]
    <2>1. Idle \in WorkerRec
      BY <1>1, IdleIsFine DEF Fine
    <2>2. r \in WorkerRec /\ r.pc = "open" /\ r.key = k /\ r.ev = NoEvent
      BY <2>1 DEF Idle, WorkerRec, Places, Handling
    <2> HIDE DEF r
    <2>3. Become(w, r)
      BY <1>2 DEF r
    <2> QED BY <1>2, <2>2, <2>3, Opens
  <1>3. CASE /\ event.latest # k /\ Plannable(Intent[k], gen)
             /\ Become(w, [Idle EXCEPT !.pc = "commit", !.key = k, !.ev = event])
    <2>1. Fine(Idle, Committed, Begun)
      BY <1>1, IdleIsFine
    <2>2. KnownAt(event, Committed)
      BY DEF Typed, Tables
    <2>3. k \in Proposals \/ event.status # "none"
      BY <1>3 DEF Plannable, Allowed, Active, Proposals
    <2>4. Fine([Idle EXCEPT !.pc = "commit", !.key = k, !.ev = event], Committed, Begun)
      <3> DEFINE r == [Idle EXCEPT !.pc = "commit", !.key = k, !.ev = event]
      <3>1. Idle \in WorkerRec /\ event \in EventRec
        BY <2>1, <2>2 DEF Fine, KnownAt
      <3>2. r \in WorkerRec /\ r.pc = "commit" /\ r.key = k /\ r.ev = event
        BY <3>1 DEF WorkerRec, Places
      <3> HIDE DEF r
      <3>3. Fine(r, Committed, Begun)
        BY <2>2, <2>3, <3>2 DEF Fine, Handling, Working, Knowing
      <3> QED BY <3>3 DEF r
    <2>5. /\ worker'[w] = [Idle EXCEPT !.pc = "commit", !.key = k, !.ev = event]
          /\ worker' = [worker EXCEPT ![w] = worker'[w]]
      BY <1>3 DEF Typed, Acting, Become
    <2> QED BY <1>1, <2>4, <2>5, OneMoves DEF Typed
  <1> QED BY <1>2, <1>3 DEF Plan

LEMMA RequestsTyped ==
  ASSUME Typed, NEW w \in Workers,
         \/ \E k \in Keys : Request(w, k)
         \/ \E force \in BOOLEAN : Retry(w, force)
         \/ Poll(w) \/ Fetch(w) \/ Accept(w) \/ Conflict(w)
  PROVE  Typed'
  <1>1. Tables' /\ Committed' = Committed /\ Begun' = Begun /\ Committed \subseteq Keys
    <2>1. UNCHANGED <<event, op, card, outside, letters, faults>> /\ faults \in 0..FaultLimit
      BY DEF Request, Retry, Poll, Fetch, Accept, Conflict, Typed, Tables, outside
    <2> QED BY <2>1, OnlyAWorker DEF Committed
  <1>2. UNCHANGED <<event, op>>
    BY DEF Request, Retry, Poll, Fetch, Accept, Conflict
  <1>3. Fine(Idle, Committed, Begun) /\ Fine(worker[w], Committed, Begun) /\ KnownAt(event, Committed)
    BY <1>1, IdleIsFine DEF Typed, Tables, Acting
  <1>4. ASSUME NEW k \in Keys, Request(w, k) PROVE Acting'
    BY <1>2, <1>4, Plans DEF Request
  <1>5. ASSUME NEW force \in BOOLEAN, Retry(w, force) PROVE Acting'
    <2>1. event.latest \in Keys
      BY <1>3, <1>5 DEF Retry, KnownAt, EventRec
    <2> DEFINE r == [Idle EXCEPT !.pc = "open", !.key = event.latest, !.force = force]
    <2>2. r \in WorkerRec /\ r.pc = "open" /\ r.key = event.latest /\ r.ev = NoEvent
      <3>1. Idle \in WorkerRec
        BY <1>3 DEF Fine
      <3>2. r.pc = "open" /\ r.key = event.latest /\ r.ev = NoEvent
        BY DEF Idle
      <3>3. r \in WorkerRec
        BY <2>1, <3>1 DEF WorkerRec, Places, Handling
      <3> QED BY <3>2, <3>3
    <2> HIDE DEF r
    <2>3. Become(w, r)
      BY <1>5 DEF Retry, r
    <2> QED BY <1>2, <2>1, <2>2, <2>3, Opens
  <1>6. ASSUME Poll(w) PROVE Acting'
    <2>1. /\ worker'[w] = [Idle EXCEPT !.pc = "fetch", !.ev = event]
          /\ worker' = [worker EXCEPT ![w] = worker'[w]]
      BY <1>6 DEF Poll, Become, Typed, Acting
    <2>2. event.gen # 0 /\ AcceptKey[event.gen] # NoKey /\ event \in EventRec
      BY <1>3, <1>6 DEF Poll, KnownAt
    <2>3. Fine(worker'[w], Committed, Begun)
      <3>1. Idle \in WorkerRec
        BY <1>3 DEF Fine
      <3>2. worker'[w] \in WorkerRec /\ worker'[w].pc = "fetch" /\ worker'[w].ev = event
        BY <2>1, <2>2, <3>1 DEF WorkerRec, Places
      <3> QED BY <1>3, <2>2, <3>2 DEF Fine, Handling, Working, Knowing
    <2> QED BY <1>1, <2>1, <2>3, OneMoves DEF Typed
  <1>7. ASSUME Fetch(w) PROVE Acting'
    <2>1. CASE Stop(w)
      BY <1>1, <2>1, Stops DEF Typed
    <2>2. CASE Become(w, [Idle EXCEPT !.pc = "plan", !.key = AcceptKey[worker[w].ev.gen],
                                      !.gen = worker[w].ev.gen])
      <3>1. worker[w].ev.gen \in Generations /\ AcceptKey[worker[w].ev.gen] \in Keys
        BY <1>3, <1>7, EventOperationsAssumption DEF Fetch, Fine, KnownAt, EventRec
      <3>2. /\ worker'[w] = [Idle EXCEPT !.pc = "plan", !.key = AcceptKey[worker[w].ev.gen],
                                         !.gen = worker[w].ev.gen]
            /\ worker' = [worker EXCEPT ![w] = worker'[w]]
        BY <2>2 DEF Become, Typed, Acting
      <3>3. Fine(worker'[w], Committed, Begun)
        <4>1. Idle \in WorkerRec /\ KnownAt(NoEvent, Committed)
          BY <1>3 DEF Fine, Idle
        <4>2. /\ worker'[w] \in WorkerRec /\ worker'[w].pc = "plan"
              /\ worker'[w].key \in Keys /\ worker'[w].ev = Idle.ev
          BY <3>1, <3>2, <4>1 DEF WorkerRec, Places
        <4> QED BY <4>1, <4>2 DEF Fine, Idle, Handling, Working, Knowing
      <3> QED BY <1>1, <3>2, <3>3, OneMoves DEF Typed
    <2> QED BY <1>7, <2>1, <2>2 DEF Fetch
  <1>8. ASSUME Accept(w) PROVE Acting'
    <2>1. worker[w].key \in Keys
      BY <1>3, <1>8 DEF Accept, Fine
    <2> QED BY <1>1, <1>2, <1>8, <2>1, Plans, Stops DEF Accept, Typed
  <1>9. ASSUME Conflict(w) PROVE Acting'
    BY <1>1, <1>9, Stops DEF Conflict, Typed
  <1> QED BY <1>1, <1>4, <1>5, <1>6, <1>7, <1>8, <1>9 DEF Typed

\* The generation a commit begins is in range: its key never committed before.
LEMMA PlannedIsKnown ==
  ASSUME Typed, NEW w \in Workers, Commit(w)
  PROVE  /\ KnownAt(event', Committed') /\ Begun'
         /\ Committed' = Committed \cup {worker[w].key} /\ worker[w].key \in Keys
  <1> DEFINE k == worker[w].key
             e == worker[w].ev
             next == Planned(e, k)
  <1>1. /\ k \in Keys /\ KnownAt(e, Committed) /\ e \in EventRec
        /\ k \in Proposals \/ e.status # "none"
    BY DEF Typed, Acting, Fine, Commit, KnownAt
  <1>2. k \notin Committed /\ Committed' = Committed \cup {k}
    BY <1>1 DEF Typed, Tables, Commit, CommitHolds, Committed, NoOp, OpRec
  <1>3. event' = next
    BY DEF Commit
  <1> HIDE DEF k, e
  <1>4. Committed \subseteq Keys /\ Committed' \subseteq Keys
    BY DEF Committed
  <1>5. next.gen \in {0} \cup Generations /\ next.gen # 0
        /\ next.gen <= Cardinality(Proposals \cap Committed')
    <2>1. CASE k \in Proposals
      <3>1. Proposals \cap Committed' = (Proposals \cap Committed) \cup {k}
        BY <1>2, <2>1
      <3>2. Cardinality(Proposals \cap Committed') = Cardinality(Proposals \cap Committed) + 1
        BY <1>2, <1>4, <3>1, ProposalsCount, FS_AddElement
      <3>3. next.gen = e.gen + 1
        BY <2>1 DEF Planned
      <3>4. e.gen \in Nat /\ e.gen <= Cardinality(Proposals \cap Committed)
        BY <1>1 DEF KnownAt, EventRec, Generations
      <3>5. /\ Cardinality(Proposals \cap Committed') <= Cardinality(Proposals)
            /\ Cardinality(Proposals) \in Nat /\ Cardinality(Proposals \cap Committed) \in Nat
        BY <1>4, ProposalsCount
      <3> HIDE DEF next
      <3> QED BY <3>2, <3>3, <3>4, <3>5 DEF Generations
    <2>2. CASE k \notin Proposals
      <3>1. next.gen = e.gen
        BY <2>2 DEF Planned
      <3>2. KnownAt(e, Committed')
        BY <1>1, <1>2, <1>4, KnownStays
      <3> HIDE DEF next
      <3> QED BY <1>1, <2>2, <3>1, <3>2 DEF KnownAt, EventRec
    <2> QED BY <2>1, <2>2
  <1>6. /\ next.version \in Nat /\ next.status \in Statuses \ {"none"} /\ next.latest = k
        /\ next.identity \in {0} \cup Generations /\ next.ids \in Ids
    <2>1. NoIds \in Ids
      BY DEF NoIds, Ids
    <2>2. k \in Proposals => e.gen + 1 \in {0} \cup Generations
      BY <1>5 DEF Planned
    <2> QED BY <1>1, <2>1, <2>2 DEF Planned, EventRec, Statuses
  <1>7. next \in EventRec
    <2>1. next = [version |-> next.version, gen |-> next.gen, identity |-> next.identity,
                  status |-> next.status, ids |-> next.ids, latest |-> next.latest]
      BY DEF Planned
    <2> HIDE DEF next
    <2> QED BY <1>1, <1>5, <1>6, <2>1 DEF EventRec
  <1> HIDE DEF next
  <1>8. KnownAt(next, Committed')
    BY <1>1, <1>2, <1>5, <1>6, <1>7, EventOperationsAssumption DEF KnownAt
  <1> QED BY <1>1, <1>2, <1>3, <1>6, <1>8 DEF Begun, k

LEMMA CommitTyped == ASSUME Typed, NEW w \in Workers, Commit(w) PROVE Typed'
  <1>1. /\ KnownAt(event', Committed') /\ Begun' /\ Committed \subseteq Committed'
        /\ worker[w].key \in Keys /\ worker[w].key \in Committed'
    BY PlannedIsKnown
  <1>2. Acting'
    BY <1>1, GoesOn DEF Typed, Commit, Handling, Knowing, Working
  <1>3. card' \in CardRow
    BY <1>1 DEF Typed, Tables, CardRow, KnownAt, EventRec, Commit
  <1>4. op' \in [Keys -> OpRec]
    BY <1>1, EventOperationsAssumption DEF Typed, Tables, OpRec, NoOp, Commit
  <1> QED BY <1>1, <1>2, <1>3, <1>4 DEF Typed, Tables, Copied, Commit, outside

\* A step that writes the journal row of a worker's own operation.
LEMMA JournalTyped ==
  ASSUME Typed, NEW k \in Keys, op[k].state # "none", NEW o \in OpRec, o.state # "none",
         op' = [op EXCEPT ![k] = o], UNCHANGED <<event, card, outside, letters>>,
         faults' \in 0..FaultLimit
  PROVE  Tables' /\ Committed' = Committed /\ Begun' = Begun
  <1>1. Committed' = Committed /\ op' \in [Keys -> OpRec]
    BY DEF Typed, Tables, Committed
  <1> QED BY <1>1 DEF Typed, Tables, Copied, Begun, outside

LEMMA LeaseTyped ==
  ASSUME Typed, NEW w \in Workers, Open(w) \/ Claim(w) \/ Reload(w) PROVE Typed'
  <1>1. /\ worker[w].key \in Keys \cap Committed /\ Begun /\ Fine(worker[w], Committed, Begun)
        /\ worker[w] \in WorkerRec
    BY DEF Typed, Acting, Fine, Open, Claim, Reload, Handling, Working
  <1>2. CASE Open(w)
    <2>1. Tables' /\ Committed' = Committed /\ Begun' = Begun
      BY <1>2, OnlyAWorker DEF Open, Typed, Tables
    <2>2. CASE Stop(w)
      BY <2>1, <2>2, Stops DEF Typed
    <2>3. CASE worker' = [worker EXCEPT ![w].pc = "claim", ![w].receipt = op[worker[w].key].receipt,
                                        ![w].ids = op[worker[w].key].partial]
      <3>1. /\ worker'[w] = [worker[w] EXCEPT !.pc = "claim", !.receipt = op[worker[w].key].receipt,
                                              !.ids = op[worker[w].key].partial]
            /\ worker' = [worker EXCEPT ![w] = worker'[w]]
        BY <2>3 DEF Typed, Acting
      <3>2. op[worker[w].key].receipt \in {"none", "dispatching", "sent", "unknown"}
            /\ op[worker[w].key].partial \in Ids \cup {Unset}
        BY <1>1 DEF Typed, Tables, OpRec
      <3>3. worker'[w] \in WorkerRec /\ worker'[w].pc = "claim" /\ worker'[w].ev = worker[w].ev
            /\ worker'[w].key = worker[w].key
        BY <1>1, <3>1, <3>2 DEF WorkerRec, Places, Handling
      <3>4. Fine(worker'[w], Committed, Begun)
        BY <1>1, <3>3 DEF Fine, Handling, Working, Knowing
      <3> QED BY <2>1, <3>1, <3>4, OneMoves DEF Typed
    <2> QED BY <1>2, <2>1, <2>2, <2>3 DEF Open, Typed
  <1>3. CASE Claim(w)
    <2>1. CASE Claimable(w, worker[w].key) /\ op' = [op EXCEPT ![worker[w].key].lease = w]
               /\ Goto(w, "reload")
      <3> DEFINE o == [op[worker[w].key] EXCEPT !.lease = w]
      <3>1. o \in OpRec /\ op[worker[w].key].state # "none" /\ o.state # "none"
        BY <1>1, <2>1 DEF Typed, Tables, OpRec, Claimable
      <3>2. op' = [op EXCEPT ![worker[w].key] = o]
        BY <1>1, <2>1 DEF Typed, Tables
      <3> HIDE DEF o
      <3>3. Tables' /\ Committed' = Committed /\ Begun' = Begun
        BY <1>1, <1>3, <3>1, <3>2, JournalTyped DEF Claim, Typed, Tables
      <3>4. Acting'
        BY <1>1, <2>1, <3>3, GoesOn DEF Typed, Handling, Working, Knowing
      <3> QED BY <3>3, <3>4 DEF Typed
    <2>2. CASE op' = op /\ Stop(w)
      <3>1. Tables' /\ Committed' = Committed /\ Begun' = Begun
        BY <1>3, <2>2, OnlyAWorker DEF Claim, Typed, Tables
      <3> QED BY <2>2, <3>1, Stops DEF Typed
    <2> QED BY <1>3, <2>1, <2>2 DEF Claim
  <1>4. CASE Reload(w)
    <2>1. Tables' /\ Committed' = Committed /\ Begun' = Begun
      BY <1>4, OnlyAWorker DEF Reload, Typed, Tables
    <2>2. /\ event \in EventRec /\ KnownAt(event, Committed) /\ event.status # "none"
          /\ event.ids \in Ids /\ worker[w].ids \in Ids \cup {Unset}
      BY <1>1 DEF Typed, Tables, KnownAt, EventRec, Begun, WorkerRec
    <2>3. PICK ids \in Ids, left \in SUBSET Calendars, pc \in {"defer", "find", "mail", "delete"} :
            worker' = [worker EXCEPT ![w].ev = event, ![w].ids = ids, ![w].left = left, ![w].pc = pc]
      <3> DEFINE ids == IF Intent[worker[w].key] # "release" /\ worker[w].ids # Unset
                        THEN worker[w].ids ELSE event.ids
                 left == IF Intent[worker[w].key] = "release" THEN {c \in Calendars : ids[c] # 0}
                         ELSE Calendars
                 pc == CASE Intent[worker[w].key] # "release" /\ ids # NoIds /\ ids[Organizer] = 0 -> "defer"
                        [] Intent[worker[w].key] # "release" /\ (ids = NoIds \/ ids[Organizer] # 0) -> "find"
                        [] Intent[worker[w].key] = "release" /\ ids = NoIds -> "mail"
                        [] Intent[worker[w].key] = "release" /\ ids # NoIds -> "delete"
      <3>1. ids \in Ids
        BY <2>2
      <3>2. left \in SUBSET Calendars
        OBVIOUS
      <3>3. worker' = [worker EXCEPT ![w].ev = event, ![w].ids = ids, ![w].left = left, ![w].pc = pc]
        BY <1>4 DEF Reload
      <3> HIDE DEF ids
      <3>4. pc \in {"defer", "find", "mail", "delete"}
        OBVIOUS
      <3> HIDE DEF left, pc
      <3> QED BY <3>1, <3>2, <3>3, <3>4
    <2>4. /\ worker'[w] = [worker[w] EXCEPT !.ev = event, !.ids = ids, !.left = left, !.pc = pc]
          /\ worker' = [worker EXCEPT ![w] = worker'[w]]
      BY <2>3 DEF Typed, Acting
    <2>5. /\ worker'[w] \in WorkerRec /\ worker'[w].pc = pc /\ worker'[w].ev = event
          /\ worker'[w].key = worker[w].key /\ worker'[w].ids = ids
      <3>1. worker[w] \in WorkerRec /\ event \in EventRec /\ ids \in Ids /\ pc \in Places
        BY <1>1, <2>2 DEF Places, Handling, Working
      <3> QED BY <2>4, <3>1 DEF WorkerRec
    <2>6. Fine(worker'[w], Committed, Begun)
      BY <1>1, <2>2, <2>5 DEF Fine
    <2> QED BY <2>1, <2>4, <2>6, OneMoves DEF Typed
  <1> QED BY <1>2, <1>3, <1>4

\* A request to Google that changes copies and answers, and where the worker goes.
LEMMA GoogleTyped ==
  ASSUME Typed, UNCHANGED <<event, op, card, said, letters>>, faults' \in 0..FaultLimit,
         Copied', accepted' \subseteq Generations
  PROVE  Tables' /\ Committed' = Committed /\ Begun' = Begun
  BY DEF Typed, Tables, Committed, Begun

\* One copy is rewritten or deleted.
LEMMA CopyTyped ==
  ASSUME Typed, NEW c \in Calendars, NEW i, NEW copy, google' = [google EXCEPT ![c][i] = copy],
         i \in Generations => copy \in CopyRec /\ (copy.state = "live" => copy.gen # 0)
  PROVE  Copied'
  <1>1. CASE i \in Generations
    BY <1>1 DEF Typed, Tables, Copied
  <1>2. CASE i \notin Generations
    BY <1>2 DEF Typed, Tables, Copied
  <1> QED BY <1>1, <1>2

LEMMA ShowsIsACopy ==
  ASSUME Typed, NEW w \in Workers, worker[w].pc \in {"find", "patch"}
  PROVE  /\ Shows(w) \in CopyRec /\ Shows(w).gen # 0
         /\ Invites(w) \in CopyRec /\ Invites(w).gen # 0
  <1>1. worker[w].ev \in EventRec /\ worker[w].ev.status # "none" /\ worker[w].ev.gen # 0
    BY DEF Typed, Acting, Fine, KnownAt
  <1>2. worker[w].ev.gen \in {0} \cup Generations /\ worker[w].ev.status \in Statuses
    BY <1>1 DEF EventRec
  <1> QED BY <1>1, <1>2 DEF Shows, Invites, CopyRec

LEMMA FindTyped ==
  ASSUME Typed, NEW w \in Workers, NEW c \in Calendars, FindCopy(w, c) PROVE Typed'
  <1> DEFINE i == worker[w].ev.identity
             seen == [worker[w] EXCEPT !.ids[c] = i, !.left = @ \ {c},
                                       !.same = IF c = Organizer THEN SameInvite(w, i) ELSE @]
  <1>1. /\ worker[w].pc = "find" /\ worker[w] \in WorkerRec /\ Fine(worker[w], Committed, Begun)
        /\ worker[w].key \in Keys \cap Committed /\ Begun /\ worker[w].ids \in Ids /\ worker[w].ev \in EventRec
    BY DEF FindCopy, Typed, Acting, Fine, KnownAt, Handling, Working, Knowing
  <1>2. UNCHANGED <<event, op, card, said, letters>> /\ faults' \in 0..FaultLimit
    <2>1. UNCHANGED faults \/ Fault
      BY DEF FindCopy, Sync
    <2> QED BY <2>1, EventOperationsAssumption DEF FindCopy, Fault, Typed, Tables
  <1>3. accepted' = accepted /\ (google' = google \/ google' = [google EXCEPT ![c][i] = Shows(w)])
    BY DEF FindCopy, Sync
  <1>4. Copied'
    <2>1. CASE google' = google
      BY <2>1 DEF Typed, Tables, Copied
    <2>2. CASE google' = [google EXCEPT ![c][i] = Shows(w)]
      BY <1>1, <2>2, ShowsIsACopy, CopyTyped
    <2> QED BY <1>3, <2>1, <2>2
  <1>5. Tables' /\ Committed' = Committed /\ Begun' = Begun
    BY <1>2, <1>3, <1>4, GoogleTyped DEF Typed, Tables
  <1>6. CASE Goto(w, "defer")
    BY <1>1, <1>5, <1>6, GoesOn DEF Typed, Handling, Working
  <1>7. CASE Become(w, IF seen.left = {} THEN [seen EXCEPT !.pc = "patch", !.left = Calendars] ELSE seen)
    <2>1. i \in {0} \cup Generations /\ SameInvite(w, i) \in BOOLEAN
      BY <1>1 DEF EventRec, SameInvite
    <2>2. /\ seen \in WorkerRec /\ seen.pc = "find" /\ seen.key = worker[w].key
          /\ seen.ev = worker[w].ev /\ seen.ids \in Ids
      <3>1. [worker[w].ids EXCEPT ![c] = i] \in Ids
        BY <1>1, <2>1 DEF Ids
      <3> QED BY <1>1, <2>1, <3>1 DEF WorkerRec
    <2> HIDE DEF seen
    <2> DEFINE r == IF seen.left = {} THEN [seen EXCEPT !.pc = "patch", !.left = Calendars] ELSE seen
    <2>3. /\ r \in WorkerRec /\ r.pc \in {"find", "patch"} /\ r.key = worker[w].key
          /\ r.ev = worker[w].ev /\ r.ids \in Ids
      BY <2>2 DEF WorkerRec, Places, Handling, Working
    <2>4. worker'[w] = r /\ worker' = [worker EXCEPT ![w] = worker'[w]]
      BY <1>7 DEF Become, Typed, Acting
    <2> HIDE DEF r
    <2>5. Fine(r, Committed, Begun)
      BY <1>1, <2>3 DEF Fine
    <2> QED BY <1>5, <2>4, <2>5, OneMoves DEF Typed
  <1>8. Goto(w, "defer") \/ Become(w, IF seen.left = {} THEN [seen EXCEPT !.pc = "patch", !.left = Calendars] ELSE seen)
    BY DEF FindCopy, Sync
  <1> QED BY <1>5, <1>6, <1>7, <1>8 DEF Typed

\* Where a loop over the calendars leads.
LEMMA LoopsOn ==
  ASSUME Typed, Committed' = Committed, Begun' = Begun, NEW w \in Workers, NEW c,
         worker[w].pc \in {"patch", "delete", "expire"}, NEW pc,
         pc = IF worker[w].pc = "expire" THEN "put" ELSE "mail",
         Onward(w, c, pc) \/ Goto(w, pc)
  PROVE  Acting'
  <1>1. /\ worker[w] \in WorkerRec /\ Fine(worker[w], Committed, Begun)
        /\ worker[w].left \in SUBSET Calendars
    BY DEF Typed, Acting, WorkerRec
  <1>2. worker' = [worker EXCEPT ![w] = worker'[w]]
    BY DEF Onward, Goto, Typed, Acting
  <1>3. /\ worker'[w] \in WorkerRec /\ worker'[w].pc \in {worker[w].pc, pc}
        /\ worker'[w].key = worker[w].key /\ worker'[w].ev = worker[w].ev
        /\ worker'[w].ids = worker[w].ids
    <2>1. CASE Onward(w, c, pc)
      <3>1. worker'[w] = [worker[w] EXCEPT !.left = worker[w].left \ {c},
                            !.pc = IF worker[w].left = {c} THEN pc ELSE worker[w].pc]
        BY <2>1 DEF Onward, Typed, Acting
      <3>2. PICK at \in {worker[w].pc, pc}, left \in SUBSET Calendars :
              worker'[w] = [worker[w] EXCEPT !.left = left, !.pc = at]
        BY <1>1, <3>1
      <3>3. at \in Places
        BY <1>1, <3>2 DEF WorkerRec, Places, Handling, Working
      <3> QED BY <1>1, <3>2, <3>3 DEF WorkerRec
    <2>2. CASE Goto(w, pc)
      <3>1. worker'[w] = [worker[w] EXCEPT !.pc = pc]
        BY <2>2 DEF Goto, Typed, Acting
      <3> QED BY <1>1, <3>1 DEF WorkerRec, Places, Handling, Working
    <2> QED BY <2>1, <2>2
  <1>4. Fine(worker'[w], Committed, Begun)
    BY <1>1, <1>3 DEF Fine, Handling, Working, Knowing
  <1> QED BY <1>2, <1>4, OneMoves DEF Typed

LEMMA PatchTyped ==
  ASSUME Typed, NEW w \in Workers, NEW c \in Calendars, PatchCopy(w, c) PROVE Typed'
  <1> DEFINE i == worker[w].ids[c]
  <1>1. /\ worker[w].pc = "patch" /\ worker[w].key \in Keys \cap Committed /\ Begun /\ worker[w].ids \in Ids
        /\ Fine(worker[w], Committed, Begun)
    BY DEF PatchCopy, Typed, Acting, Fine, Handling, Working, Knowing
  <1>2. /\ UNCHANGED <<event, op, card, said, letters>>
        /\ Onward(w, c, "mail") \/ Goto(w, "defer")
    BY DEF PatchCopy, Sync
  <1>3. faults' \in 0..FaultLimit
    <2>1. UNCHANGED faults \/ Fault
      BY DEF PatchCopy, Sync
    <2> QED BY <2>1, EventOperationsAssumption DEF Fault, Typed, Tables
  <1>4. /\ google' = google \/ google' = [google EXCEPT ![c][i] = Patched(w, c, i)]
        /\ accepted' = accepted \/ accepted' = Answers(w, i)
        /\ accepted \subseteq Generations
    BY DEF PatchCopy, Sync, Typed, Tables
  <1>5. Copied'
    <2>1. CASE google' = google
      BY <2>1 DEF Typed, Tables, Copied
    <2>2. CASE google' = [google EXCEPT ![c][i] = Patched(w, c, i)]
      <3>1. Patched(w, c, i) \in CopyRec /\ Patched(w, c, i).gen # 0
        BY <1>1, ShowsIsACopy DEF Patched
      <3> QED BY <2>2, <3>1, CopyTyped
    <2> QED BY <1>4, <2>1, <2>2
  <1>6. accepted' \subseteq Generations
    BY <1>4 DEF Answers
  <1>7. Tables' /\ Committed' = Committed /\ Begun' = Begun
    BY <1>2, <1>3, <1>5, <1>6, GoogleTyped
  <1>8. CASE Onward(w, c, "mail")
    BY <1>1, <1>7, <1>8, LoopsOn DEF Typed
  <1>9. CASE Goto(w, "defer")
    BY <1>1, <1>7, <1>9, GoesOn DEF Typed, Handling, Working
  <1> QED BY <1>2, <1>7, <1>8, <1>9 DEF Typed

LEMMA DeleteTyped ==
  ASSUME Typed, NEW w \in Workers, NEW c \in Calendars, DeleteCopy(w, c) PROVE Typed'
  <1> DEFINE i == worker[w].ids[c]
             next == IF worker[w].pc = "expire" THEN "put" ELSE "mail"
  <1>1. /\ worker[w].pc \in {"delete", "expire"} /\ worker[w].ids \in Ids
        /\ Fine(worker[w], Committed, Begun)
        /\ worker[w].pc = "delete" => worker[w].key \in Keys \cap Committed /\ Begun
    BY DEF DeleteCopy, Typed, Acting, Fine, Handling, Working, Knowing
  <1>2. /\ UNCHANGED <<event, op, card, said, letters>>
        /\ \/ Onward(w, c, next) \/ Goto(w, next)
           \/ Goto(w, "defer") /\ worker[w].pc = "delete"
    BY <1>1 DEF DeleteCopy, Sync
  <1>3. faults' \in 0..FaultLimit
    <2>1. UNCHANGED faults \/ Fault
      BY DEF DeleteCopy, Sync
    <2> QED BY <2>1, EventOperationsAssumption DEF Fault, Typed, Tables
  <1>4. /\ google' = google \/ google' = [google EXCEPT ![c][i].state = "deleted"]
        /\ accepted' = accepted
    BY DEF DeleteCopy, Sync
  <1>5. Copied'
    <2>1. CASE google' = google
      BY <2>1 DEF Typed, Tables, Copied
    <2>2. CASE google' = [google EXCEPT ![c][i].state = "deleted"]
      <3> DEFINE copy == [google[c][i] EXCEPT !.state = "deleted"]
      <3>1. google' = [google EXCEPT ![c][i] = copy]
        BY <2>2
      <3>2. i \in Generations => copy \in CopyRec /\ copy.state = "deleted"
        <4>1. i \in Generations => google[c][i] \in CopyRec
          BY DEF Typed, Tables, Copied
        <4> HIDE DEF i
        <4> QED BY <4>1 DEF CopyRec
      <3> HIDE DEF copy
      <3> QED BY <3>1, <3>2, CopyTyped
    <2> QED BY <1>4, <2>1, <2>2
  <1>6. Tables' /\ Committed' = Committed /\ Begun' = Begun
    BY <1>2, <1>3, <1>4, <1>5, GoogleTyped DEF Typed, Tables
  <1>7. CASE Onward(w, c, next) \/ Goto(w, next)
    BY <1>1, <1>6, <1>7, LoopsOn DEF Typed
  <1>8. CASE Goto(w, "defer") /\ worker[w].pc = "delete"
    BY <1>1, <1>6, <1>8, GoesOn DEF Typed, Handling, Working
  <1> QED BY <1>2, <1>6, <1>7, <1>8 DEF Typed

LEMMA DeferTyped ==
  ASSUME Typed, NEW w \in Workers, DeferJournal(w) \/ DeferEvent(w) \/ DeferCard(w) PROVE Typed'
  <1>1. /\ worker[w].key \in Keys \cap Committed /\ Begun /\ worker[w].ids \in Ids
        /\ Committed \subseteq Keys
    BY DEF DeferJournal, DeferEvent, DeferCard, Typed, Acting, Fine, Handling, Working, Knowing,
           Committed
  <1>2. CASE DeferJournal(w)
    <2>1. op' \in [Keys -> OpRec] /\ Committed' = Committed
      <3>1. /\ op \in [Keys -> OpRec] /\ op[worker[w].key] \in OpRec
        BY <1>1 DEF Typed, Tables
      <3>2. op' = [op EXCEPT ![worker[w].key] =
                     [op[worker[w].key] EXCEPT !.partial = worker[w].ids, !.lease = NoWorker]]
        BY <1>1, <1>2, <3>1 DEF DeferJournal
      <3>3. [op[worker[w].key] EXCEPT !.partial = worker[w].ids, !.lease = NoWorker] \in OpRec
        BY <1>1, <3>1 DEF OpRec
      <3> QED BY <1>1, <3>1, <3>2, <3>3 DEF Committed, OpRec
    <2>2. Tables' /\ Begun' = Begun
      BY <1>2, <2>1 DEF DeferJournal, outside, Typed, Tables, Copied, Begun
    <2>3. Acting'
      BY <1>1, <1>2, <2>1, <2>2, GoesOn DEF DeferJournal, Typed, Handling, Working
    <2> QED BY <2>2, <2>3 DEF Typed
  <1>3. CASE DeferEvent(w)
    <2>1. Committed' = Committed /\ Begun' = Begun /\ KnownAt(event', Committed)
      <3>1. event \in EventRec /\ KnownAt(event, Committed)
        BY DEF Typed, Tables, KnownAt
      <3>2. event' \in EventRec /\ event' = [event EXCEPT !.ids = worker[w].ids]
        BY <1>1, <1>3, <3>1 DEF DeferEvent, EventRec
      <3>3. event'.gen = event.gen /\ event'.status = event.status /\ event'.latest = event.latest
        BY <3>1, <3>2 DEF EventRec
      <3> QED BY <1>3, <3>1, <3>2, <3>3 DEF DeferEvent, KnownAt, Committed, Begun
    <2>2. Tables'
      BY <1>3, <2>1 DEF DeferEvent, outside, Typed, Tables, Copied
    <2>3. Acting'
      BY <1>1, <1>3, <2>1, GoesOn DEF DeferEvent, Typed, Handling, Working
    <2> QED BY <2>2, <2>3 DEF Typed
  <1>4. CASE DeferCard(w)
    <2>1. Committed' = Committed /\ Begun' = Begun
      BY <1>4 DEF DeferCard, Committed, Begun
    <2>2. Tables'
      BY <1>4, <2>1 DEF DeferCard, outside, Typed, Tables, Copied, CardRow
    <2> QED BY <1>4, <2>1, <2>2, Stops DEF DeferCard, Typed
  <1> QED BY <1>2, <1>3, <1>4

\* Every write of a receipt, and giving up.
LEMMA ReceiptTyped ==
  ASSUME Typed, NEW w \in Workers, worker[w].pc \in {"mail", "send", "receipt", "unsent"},
         NEW receipt, receipt \in {"none", "dispatching", "sent", "unknown"},
         UNCHANGED <<event, card, outside, letters, faults>>,
         \/ GiveUp(w, receipt)
         \/ /\ op' = [op EXCEPT ![worker[w].key].receipt = receipt]
            /\ Goto(w, "send") \/ Goto(w, "finish")
  PROVE  Typed'
  <1> DEFINE k == worker[w].key
             o == [op[k] EXCEPT !.receipt = receipt]
             u == [op[k] EXCEPT !.receipt = receipt, !.state = "unknown", !.lease = NoWorker]
  <1>1. /\ k \in Keys /\ k \in Committed /\ op[k].state # "none" /\ Begun
        /\ worker[w].ids \in Ids /\ op[k] \in OpRec /\ op \in [Keys -> OpRec]
    BY DEF Typed, Acting, Tables, Fine, Handling, Working, Knowing, Committed
  <1>2. faults' \in 0..FaultLimit
    BY DEF Typed, Tables
  <1>3. o \in OpRec /\ o.state = op[k].state /\ u \in OpRec /\ u.state = "unknown"
    BY <1>1 DEF OpRec
  <1>4. CASE GiveUp(w, receipt)
    <2>1. op' = [op EXCEPT ![k] = u] /\ Stop(w)
      BY <1>1, <1>4 DEF GiveUp
    <2> HIDE DEF k, u
    <2>2. op[k].state # "none"
      BY <1>1 DEF k
    <2>3. Tables' /\ Committed' = Committed /\ Begun' = Begun
      BY <1>1, <1>2, <1>3, <2>1, <2>2, JournalTyped
    <2> QED BY <2>1, <2>3, Stops DEF Typed
  <1>5. CASE /\ op' = [op EXCEPT ![k].receipt = receipt]
             /\ Goto(w, "send") \/ Goto(w, "finish")
    <2>1. op' = [op EXCEPT ![k] = o]
      BY <1>1, <1>5
    <2>2. op[k].state # "none"
      BY <1>1
    <2> HIDE DEF o
    <2>3. Tables' /\ Committed' = Committed /\ Begun' = Begun
      BY <1>1, <1>2, <1>3, <2>1, <2>2, JournalTyped
    <2>4. Acting'
      BY <1>1, <1>5, <2>3, GoesOn DEF Typed, Handling, Working
    <2> QED BY <2>3, <2>4 DEF Typed
  <1> QED BY <1>4, <1>5

LEMMA MailTyped ==
  ASSUME Typed, NEW w \in Workers, Mail(w) \/ Send(w) \/ Sent(w) \/ Unsent(w) PROVE Typed'
  <1>1. /\ worker[w].key \in Keys \cap Committed /\ Begun /\ worker[w].ids \in Ids
        /\ worker[w].pc \in {"mail", "send", "receipt", "unsent"}
    BY DEF Mail, Send, Sent, Unsent, Typed, Acting, Fine, Handling, Working, Knowing
  <1>2. CASE Mail(w)
    <2>1. op[worker[w].key].receipt \in {"none", "dispatching", "sent", "unknown"}
      BY <1>1 DEF Typed, Tables, OpRec
    <2>2. CASE Goto(w, "finish") /\ UNCHANGED op
      <3>1. Tables' /\ Committed' = Committed /\ Begun' = Begun
        BY <1>2, <2>2, OnlyAWorker DEF Mail, Typed, Tables
      <3>2. Acting'
        BY <1>1, <2>2, <3>1, GoesOn DEF Typed, Handling, Working
      <3> QED BY <3>1, <3>2 DEF Typed
    <2>3. CASE ~(Goto(w, "finish") /\ UNCHANGED op)
      BY <1>1, <1>2, <2>1, <2>3, ReceiptTyped DEF Mail
    <2> QED BY <2>2, <2>3
  <1>3. CASE Send(w)
    <2>1. letters' \in [Keys -> Nat] /\ faults' \in 0..FaultLimit
      <3>1. UNCHANGED faults \/ Fault
        BY <1>3 DEF Send
      <3>2. UNCHANGED letters \/ letters' = [letters EXCEPT ![worker[w].key] =
                                               IF worker[w].force THEN @ ELSE @ + 1]
        BY <1>3 DEF Send
      <3> QED BY <3>1, <3>2, EventOperationsAssumption DEF Fault, Typed, Tables
    <2>2. Tables' /\ Committed' = Committed /\ Begun' = Begun
      BY <1>3, <2>1 DEF Send, outside, Typed, Tables, Copied, Committed, Begun
    <2>3. Goto(w, "receipt") \/ Goto(w, "unsent")
      BY <1>3 DEF Send
    <2>4. Acting'
      BY <1>1, <2>2, <2>3, GoesOn DEF Typed, Handling, Working
    <2> QED BY <2>2, <2>4 DEF Typed
  <1>4. CASE Sent(w)
    BY <1>1, <1>4, ReceiptTyped DEF Sent
  <1>5. CASE Unsent(w)
    BY <1>1, <1>5, ReceiptTyped DEF Unsent
  <1> QED BY <1>2, <1>3, <1>4, <1>5

LEMMA CompleteTyped ==
  ASSUME Typed, NEW w \in Workers, Complete(w) \/ Note(w) PROVE Typed'
  <1> DEFINE k == worker[w].key
  <1>1. /\ k \in Keys \cap Committed /\ Begun /\ worker[w].ids \in Ids
    BY DEF Complete, Note, Typed, Acting, Fine, Handling, Working, Knowing
  <1>2. CASE Complete(w) /\ CompletionHolds(w)
    <2>1. op' \in [Keys -> OpRec] /\ Committed' = Committed
      <3>1. op \in [Keys -> OpRec] /\ op[k] \in OpRec
        BY <1>1 DEF Typed, Tables
      <3>2. op' = [op EXCEPT ![k] = [op[k] EXCEPT !.state = "complete", !.lease = NoWorker]]
        BY <1>1, <1>2, <3>1 DEF Complete
      <3>3. /\ [op[k] EXCEPT !.state = "complete", !.lease = NoWorker] \in OpRec
            /\ [op[k] EXCEPT !.state = "complete", !.lease = NoWorker].state = "complete"
        BY <3>1 DEF OpRec
      <3> HIDE DEF k
      <3> QED BY <1>1, <3>1, <3>2, <3>3 DEF Committed
    <2>2. Begun' = Begun /\ KnownAt(event', Committed)
      <3>1. FinalIds(w) \in Ids
        BY <1>1 DEF FinalIds, NoIds, Ids
      <3>2. event \in EventRec /\ KnownAt(event, Committed)
        BY DEF Typed, Tables, KnownAt
      <3>3. event' = [event EXCEPT !.ids = FinalIds(w), !.version = event.version + 1]
        BY <1>2, <3>2 DEF Complete
      <3>4. /\ event' \in EventRec /\ event'.gen = event.gen /\ event'.status = event.status
            /\ event'.latest = event.latest
        <4>1. event.version + 1 \in Nat
          BY <3>2 DEF EventRec
        <4> QED BY <3>1, <3>2, <3>3, <4>1 DEF EventRec
      <3> QED BY <3>2, <3>4 DEF KnownAt, Begun
    <2>3. Tables'
      BY <1>2, <2>1, <2>2 DEF Complete, outside, Typed, Tables, Copied, CardRow
    <2>4. Acting'
      BY <1>1, <1>2, <2>1, <2>2, GoesOn DEF Complete, Typed, Handling, Working
    <2> QED BY <2>3, <2>4 DEF Typed
  <1>3. CASE Complete(w) /\ ~CompletionHolds(w)
    <2>1. Tables' /\ Committed' = Committed /\ Begun' = Begun
      BY <1>3, OnlyAWorker DEF Complete, Typed, Tables
    <2> QED BY <1>3, <2>1, Stops DEF Complete, Typed
  <1>4. CASE Note(w)
    <2>1. Committed' = Committed /\ Begun' = Begun
      BY <1>4 DEF Note, Committed, Begun
    <2>2. card' \in CardRow
      <3>1. {<<c, worker[w].ids[c]>> : c \in Calendars} \subseteq Calendars \X ({0} \cup Generations)
        BY <1>1 DEF Ids
      <3> QED BY <1>4, <3>1 DEF Note, CardRow, Typed, Tables
    <2>3. Tables'
      BY <1>4, <2>1, <2>2 DEF Note, outside, Typed, Tables, Copied
    <2> QED BY <1>4, <2>1, <2>3, Stops DEF Note, Typed
  <1> QED BY <1>2, <1>3, <1>4

\* A crash, the end of a lease, the guest's answer, the expiry of a hold.
LEMMA ElseTyped ==
  ASSUME Typed,
         \/ \E w \in Workers : Crash(w) \/ LeaseRunsOut(w) \/ ExpiryReads(w) \/ ExpiryPuts(w)
         \/ \E i \in Generations : GuestAccepts(i)
  PROVE  Typed'
  <1>1. Committed \subseteq Keys /\ KnownAt(event, Committed) /\ event \in EventRec
    BY DEF Committed, Typed, Tables, KnownAt
  <1>2. ASSUME NEW w \in Workers, Crash(w) PROVE Typed'
    <2>1. Tables' /\ Committed' = Committed /\ Begun' = Begun
      BY <1>2, OnlyAWorker, EventOperationsAssumption DEF Crash, Fault, Typed, Tables
    <2> QED BY <1>2, <2>1, Stops DEF Crash, Typed
  <1>3. ASSUME NEW w \in Workers, LeaseRunsOut(w) PROVE Typed'
    <2>1. op' \in [Keys -> OpRec] /\ Committed' = Committed
      <3>1. ASSUME NEW k \in Keys PROVE op'[k] \in OpRec /\ op'[k].state = op[k].state
        <4>1. op[k] \in OpRec
          BY DEF Typed, Tables
        <4>2. op'[k] = op[k] \/ op'[k] = [op[k] EXCEPT !.lease = Expired]
          BY <1>3 DEF LeaseRunsOut
        <4> QED BY <4>1, <4>2 DEF OpRec
      <3>2. DOMAIN op' = Keys /\ op' = [k \in Keys |-> op'[k]]
        BY <1>3 DEF LeaseRunsOut
      <3> QED BY <3>1, <3>2 DEF Committed
    <2>2. Tables' /\ Begun' = Begun
      BY <1>3, <2>1 DEF LeaseRunsOut, outside, Typed, Tables, Copied, Begun
    <2>3. ASSUME NEW v \in Workers PROVE worker'[v] \in WorkerRec /\ Fine(worker'[v], Committed, Begun)
      <3>1. worker[v] \in WorkerRec /\ Fine(worker[v], Committed, Begun)
        BY DEF Typed, Acting
      <3>2. \/ worker'[v] = Idle \/ worker'[v] = worker[v]
            \/ worker'[v] = [worker[v] EXCEPT !.late = TRUE]
        BY <1>3 DEF LeaseRunsOut
      <3>3. Fine(Idle, Committed, Begun)
        BY <1>1, IdleIsFine
      <3>4. Fine([worker[v] EXCEPT !.late = TRUE], Committed, Begun)
        BY <3>1 DEF Fine, WorkerRec
      <3>5. Fine(worker'[v], Committed, Begun)
        BY <3>1, <3>2, <3>3, <3>4
      <3> QED BY <3>5 DEF Fine
    <2>4. worker' = [v \in Workers |-> worker'[v]]
      BY <1>3 DEF LeaseRunsOut
    <2>5. Acting'
      BY <2>1, <2>2, <2>3, <2>4 DEF Acting
    <2> QED BY <2>2, <2>5 DEF Typed
  <1>4. ASSUME NEW w \in Workers, ExpiryReads(w) PROVE Typed'
    <2>1. Tables' /\ Committed' = Committed /\ Begun' = Begun
      BY <1>4, OnlyAWorker DEF ExpiryReads, Typed, Tables
    <2>2. PICK pc \in {"put", "expire"}, left \in SUBSET Calendars :
            Become(w, [Idle EXCEPT !.pc = pc, !.ev = event, !.ids = event.ids, !.left = left])
      <3>1. {c \in Calendars : event.ids[c] # 0} \in SUBSET Calendars
        OBVIOUS
      <3> QED BY <1>4, <3>1 DEF ExpiryReads
    <2>3. /\ worker'[w] = [Idle EXCEPT !.pc = pc, !.ev = event, !.ids = event.ids, !.left = left]
          /\ worker' = [worker EXCEPT ![w] = worker'[w]]
      BY <2>2 DEF Become, Typed, Acting
    <2>4. event.ids \in Ids /\ event.status = "proposed"
      BY <1>1, <1>4 DEF EventRec, ExpiryReads
    <2>5. Idle \in WorkerRec
      BY <1>1, IdleIsFine DEF Fine
    <2>6. /\ worker'[w] \in WorkerRec /\ worker'[w].pc = pc /\ worker'[w].ev = event
          /\ worker'[w].ids = event.ids
      <3>1. pc \in Places /\ event \in EventRec
        BY <1>1 DEF Places
      <3> QED BY <2>3, <2>4, <2>5, <3>1 DEF WorkerRec
    <2>7. Fine(worker'[w], Committed, Begun)
      BY <1>1, <2>4, <2>6 DEF Fine, Handling, Working
    <2> QED BY <2>1, <2>3, <2>7, OneMoves DEF Typed
  <1>5. ASSUME NEW w \in Workers, ExpiryPuts(w) PROVE Typed'
    <2>1. KnownAt(worker[w].ev, Committed) /\ worker[w].ev.status # "none" /\ worker[w].ev \in EventRec
      BY <1>5 DEF ExpiryPuts, Typed, Acting, Fine, KnownAt
    <2>2. event' = [worker[w].ev EXCEPT !.status = "expired", !.version = worker[w].ev.version + 1]
      BY <1>5, <2>1 DEF ExpiryPuts
    <2>3. /\ event' \in EventRec /\ event'.gen = worker[w].ev.gen /\ event'.status = "expired"
          /\ event'.latest = worker[w].ev.latest
      <3>1. worker[w].ev.version + 1 \in Nat
        BY <2>1 DEF EventRec
      <3> QED BY <2>1, <2>2, <3>1 DEF EventRec, Statuses
    <2>4. KnownAt(event', Committed) /\ Begun' /\ Committed' = Committed
      BY <1>5, <2>1, <2>3 DEF KnownAt, Begun, Committed, ExpiryPuts
    <2>5. Tables'
      BY <1>5, <2>4 DEF ExpiryPuts, outside, Typed, Tables, Copied
    <2> QED BY <1>5, <2>4, <2>5, Stops DEF ExpiryPuts, Typed
  <1>6. ASSUME NEW i \in Generations, GuestAccepts(i) PROVE Typed'
    <2>1. google[Organizer][i] \in CopyRec /\ google[Organizer][i].gen # 0
      BY <1>6 DEF GuestAccepts, Typed, Tables, Copied, Calendars
    <2>2. google[Organizer][i].gen \in Generations
      BY <2>1 DEF CopyRec
    <2>3. Tables' /\ Committed' = Committed /\ Begun' = Begun
      BY <1>6, <2>2 DEF GuestAccepts, Typed, Tables, Copied, Committed, Begun
    <2> QED BY <1>6, <2>3, NobodyMoves DEF GuestAccepts, Typed
  <1> QED BY <1>2, <1>3, <1>4, <1>5, <1>6

\* Types hold, and an event with a status has its operation in the journal.
LEMMA NextTyped == Typed /\ [Next]_vars => Typed'
  <1> SUFFICES ASSUME Typed, [Next]_vars PROVE Typed'
    OBVIOUS
  <1>1. ASSUME UNCHANGED vars PROVE Typed'
    BY <1>1 DEF vars, outside, Typed, Tables, Acting, Copied, Committed, Begun
  <1>2. ASSUME NEW w \in Workers, Step(w) PROVE Typed'
    BY <1>2, RequestsTyped, CommitTyped, LeaseTyped, FindTyped, PatchTyped, DeleteTyped,
       DeferTyped, MailTyped, CompleteTyped, ElseTyped DEF Step
  <1> QED BY <1>1, <1>2, RequestsTyped, ElseTyped DEF Next

THEOREM TypeCorrect == Spec => []EventTypeOK
  <1>1. Typed => EventTypeOK
    BY DEF Typed, Tables, Acting, Copied, KnownAt, CardRow, Committed, EventTypeOK
  <1> QED BY <1>1, InitTyped, NextTyped, PTL DEF Spec

-----------------------------------------------------------------------------
\* One worker at a time.

LEMMA AtMostOne == Typed /\ HeldByLease => OneReconciler
  <1> SUFFICES ASSUME Typed, HeldByLease, NEW v \in Workers, NEW w \in Workers,
                      worker[v].pc \in Working, worker[w].pc \in Working
               PROVE  v = w
    BY DEF OneReconciler
  <1>1. worker[v].key \in Keys /\ worker[w].key \in Keys
    BY DEF Typed, Acting, Fine, Handling
  <1>2. worker[v].key = worker[w].key
    BY <1>1 DEF HeldByLease
  <1> QED BY <1>2 DEF HeldByLease

\* A step of one worker that leaves the event and the journal alone.
LEMMA HeldMoves ==
  ASSUME HeldByLease, UNCHANGED <<event, op>>, NEW w \in Workers,
         \A v \in Workers \ {w} : worker'[v] = worker[v],
         worker'[w].pc \in Working =>
           worker[w].pc \in Working /\ worker'[w].key = worker[w].key,
         worker'[w].pc = "commit" => worker'[w].ev = event /\ event.version <= event.version
                                     /\ ~Unresolved,
         worker'[w].pc \in Expiring =>
           \/ worker'[w].ev = event /\ event.version <= event.version
           \/ worker[w].pc \in Expiring /\ worker'[w].ev = worker[w].ev
  PROVE  HeldByLease'
  <1>1. Unresolved' <=> Unresolved
    BY DEF Unresolved
  <1> QED BY <1>1 DEF HeldByLease

\* A step of the one worker that may write the unresolved operation.
LEMMA HeldWrites ==
  ASSUME Typed, HeldByLease, UNCHANGED event, NEW w \in Workers, NEW k \in Keys, NEW o,
         op' = [op EXCEPT ![k] = o], op[k].state = "pending", o.state # "none",
         \A v \in Workers \ {w} : worker'[v] = worker[v],
         \A v \in Workers \ {w} : worker[v].pc \in Working => worker[v].key # k,
         worker'[w].pc \in Working => worker'[w].key = k /\ o.state = "pending" /\ o.lease = w,
         worker'[w].pc \notin {"commit"} \cup Expiring
  PROVE  HeldByLease'
  <1>1. op'[k] = o /\ \A j \in Keys \ {k} : op'[j] = op[j]
    BY DEF Typed, Tables
  <1>2. event.latest = k
    BY DEF HeldByLease
  <1>3. Unresolved
    BY <1>2, EventOperationsAssumption DEF Unresolved
  <1>4. \A v \in Workers : worker[v].pc \in Working => worker[v].key \in Keys
    BY DEF Typed, Acting, Fine, Handling
  <1>5. ASSUME NEW v \in Workers, worker'[v].pc \in Working
        PROVE  op'[worker'[v].key].state = "pending" /\ op'[worker'[v].key].lease = v
    BY <1>1, <1>4, <1>5 DEF HeldByLease
  <1>6. ASSUME NEW j \in Keys, op'[j].state = "pending" PROVE event'.latest = j
    BY <1>1, <1>2, <1>6 DEF HeldByLease
  <1>7. ASSUME NEW v \in Workers, worker'[v].pc = "commit"
        PROVE  /\ worker'[v].ev.version <= event'.version
               /\ worker'[v].ev.version = event'.version => ~Unresolved'
    BY <1>3, <1>7 DEF HeldByLease
  <1>8. \A v \in Workers : worker'[v].pc \in Expiring => worker'[v] = worker[v]
    OBVIOUS
  <1> QED BY <1>5, <1>6, <1>7, <1>8 DEF HeldByLease

LEMMA OwnOperation ==
  ASSUME Typed, HeldByLease, NEW w \in Workers, worker[w].pc \in Working
  PROVE  /\ worker[w].key \in Keys /\ op[worker[w].key].state = "pending"
         /\ op[worker[w].key].lease = w /\ op[worker[w].key] \in OpRec
         /\ \A v \in Workers \ {w} : worker[v].pc \notin Working
         /\ event.latest = worker[w].key
  BY AtMostOne DEF HeldByLease, OneReconciler, Typed, Acting, Fine, Handling, Tables

LEMMA InitHeld == Init => HeldByLease
  BY DEF Init, HeldByLease, Idle, NoOp, Working, Expiring

\* Steps that leave the event and the journal alone.
LEMMA QuietHeld ==
  ASSUME Typed, HeldByLease, NEW w \in Workers,
         \/ \E k \in Keys : Request(w, k)
         \/ \E force \in BOOLEAN : Retry(w, force)
         \/ Poll(w) \/ Fetch(w) \/ Accept(w) \/ Conflict(w) \/ Open(w) \/ Reload(w)
         \/ \E c \in Calendars : FindCopy(w, c) \/ PatchCopy(w, c) \/ DeleteCopy(w, c)
         \/ DeferCard(w) \/ Send(w) \/ Note(w) \/ Crash(w) \/ ExpiryReads(w)
  PROVE  HeldByLease'
  <1>1. /\ UNCHANGED <<event, op>>
        /\ event.version <= event.version
        /\ worker[w] \in WorkerRec
    <2>1. event.version \in Nat
      BY DEF Typed, Tables, KnownAt, EventRec
    <2>2. UNCHANGED <<event, op>>
      BY DEF Request, Retry, Poll, Fetch, Accept, Conflict, Open, Reload, FindCopy, PatchCopy,
             DeleteCopy, DeferCard, Send, Note, Crash, ExpiryReads
    <2> QED BY <2>1, <2>2 DEF Typed, Acting
  <1>2. ASSUME NEW r, Become(w, r), r.pc \notin Working \cup {"commit"} \cup Expiring
        PROVE  HeldByLease'
    BY <1>1, <1>2, HeldMoves DEF Become, Typed, Acting
  <1>3. ASSUME NEW pc, Goto(w, pc), pc \notin {"commit"} \cup Expiring,
               pc \in Working => worker[w].pc \in Working
        PROVE  HeldByLease'
    <2>1. /\ worker'[w] = [worker[w] EXCEPT !.pc = pc]
          /\ \A v \in Workers \ {w} : worker'[v] = worker[v]
      BY <1>3 DEF Goto, Typed, Acting
    <2>2. worker'[w].pc = pc /\ worker'[w].key = worker[w].key
      BY <1>1, <2>1 DEF WorkerRec
    <2> QED BY <1>1, <1>3, <2>1, <2>2, HeldMoves
  <1>4. ASSUME Stop(w) \/ Die(w) PROVE HeldByLease'
    BY <1>2, <1>4 DEF Stop, Die, Idle, Working, Expiring
  <1>5. ASSUME NEW k \in Keys, NEW gen, Plan(w, k, gen) PROVE HeldByLease'
    <2>1. CASE Become(w, [Idle EXCEPT !.pc = "open", !.key = k])
      BY <1>2, <2>1 DEF Idle, Working, Expiring
    <2>2. CASE ~Unresolved /\ Become(w, [Idle EXCEPT !.pc = "commit", !.key = k, !.ev = event])
      <3>1. /\ worker'[w].pc = "commit" /\ worker'[w].ev = event
            /\ \A v \in Workers \ {w} : worker'[v] = worker[v]
        BY <2>2 DEF Become, Idle, Typed, Acting
      <3> QED BY <1>1, <2>2, <3>1, HeldMoves DEF Working, Expiring
    <2> QED BY <1>5, <2>1, <2>2 DEF Plan, Plannable
  <1>6. ASSUME \/ \E k \in Keys : Request(w, k)
               \/ \E force \in BOOLEAN : Retry(w, force)
               \/ Poll(w) \/ Fetch(w) \/ Accept(w) \/ Conflict(w)
        PROVE  HeldByLease'
    <2>1. ASSUME NEW k \in Keys, Request(w, k) PROVE HeldByLease'
      BY <1>5, <2>1 DEF Request
    <2>2. ASSUME NEW force \in BOOLEAN, Retry(w, force) PROVE HeldByLease'
      <3>1. [Idle EXCEPT !.pc = "open", !.key = event.latest, !.force = force].pc = "open"
        BY DEF Idle
      <3> QED BY <1>2, <2>2, <3>1 DEF Retry, Working, Expiring
    <2>3. ASSUME Poll(w) PROVE HeldByLease'
      <3>1. [Idle EXCEPT !.pc = "fetch", !.ev = event].pc = "fetch"
        BY DEF Idle
      <3> QED BY <1>2, <2>3, <3>1 DEF Poll, Working, Expiring
    <2>4. ASSUME Fetch(w) PROVE HeldByLease'
      <3>1. [Idle EXCEPT !.pc = "plan", !.key = AcceptKey[worker[w].ev.gen],
                         !.gen = worker[w].ev.gen].pc = "plan"
        BY DEF Idle
      <3> QED BY <1>2, <1>4, <2>4, <3>1 DEF Fetch, Working, Expiring
    <2>5. ASSUME Accept(w) PROVE HeldByLease'
      <3>1. worker[w].key \in Keys
        BY <2>5 DEF Accept, Typed, Acting, Fine
      <3> QED BY <1>4, <1>5, <2>5, <3>1 DEF Accept
    <2> QED BY <1>4, <1>6, <2>1, <2>2, <2>3, <2>4, <2>5 DEF Conflict
  <1>7. ASSUME Open(w) PROVE HeldByLease'
    <2>1. CASE Stop(w)
      BY <1>4, <2>1
    <2>2. CASE worker' = [worker EXCEPT ![w].pc = "claim", ![w].receipt = op[worker[w].key].receipt,
                                        ![w].ids = op[worker[w].key].partial]
      <3>1. worker'[w].pc = "claim" /\ \A v \in Workers \ {w} : worker'[v] = worker[v]
        BY <1>1, <2>2 DEF Typed, Acting, WorkerRec
      <3> QED BY <1>1, <3>1, HeldMoves DEF Working, Expiring
    <2> QED BY <1>7, <2>1, <2>2 DEF Open
  <1>8. ASSUME Reload(w) PROVE HeldByLease'
    <2>1. /\ worker[w].pc \in Working /\ worker'[w].key = worker[w].key
          /\ \A v \in Workers \ {w} : worker'[v] = worker[v]
      BY <1>1, <1>8 DEF Reload, Working, Typed, Acting, WorkerRec
    <2>2. worker'[w].pc \in {"defer", "find", "mail", "delete"}
      <3> DEFINE ids == IF Intent[worker[w].key] # "release" /\ worker[w].ids # Unset
                        THEN worker[w].ids ELSE event.ids
                 pc == CASE Intent[worker[w].key] # "release" /\ ids # NoIds /\ ids[Organizer] = 0 -> "defer"
                        [] Intent[worker[w].key] # "release" /\ (ids = NoIds \/ ids[Organizer] # 0) -> "find"
                        [] Intent[worker[w].key] = "release" /\ ids = NoIds -> "mail"
                        [] Intent[worker[w].key] = "release" /\ ids # NoIds -> "delete"
      <3>1. worker'[w].pc = pc
        BY <1>1, <1>8 DEF Reload, Typed, Acting, WorkerRec
      <3> HIDE DEF ids
      <3> QED BY <3>1
    <2> QED BY <1>1, <2>1, <2>2, HeldMoves DEF Expiring
  <1>9. ASSUME NEW c \in Calendars, FindCopy(w, c) \/ PatchCopy(w, c) \/ DeleteCopy(w, c),
               worker[w].pc # "expire"
        PROVE  HeldByLease'
    <2>1. worker[w].pc \in Working
      BY <1>1, <1>9 DEF FindCopy, PatchCopy, DeleteCopy, Working
    <2>2. CASE \E pc \in {"defer", "mail"} : Goto(w, pc) \/ Onward(w, c, pc)
      <3>1. PICK pc \in {"defer", "mail"} : Goto(w, pc) \/ Onward(w, c, pc)
        BY <2>2
      <3>2. /\ worker'[w].pc \in {pc, worker[w].pc} /\ worker'[w].key = worker[w].key
            /\ \A v \in Workers \ {w} : worker'[v] = worker[v]
        BY <1>1, <3>1 DEF Goto, Onward, Typed, Acting, WorkerRec
      <3> QED BY <1>1, <2>1, <3>1, <3>2, HeldMoves DEF Working, Expiring
    <2>3. CASE FindCopy(w, c)
      <3> DEFINE i == worker[w].ev.identity
                 seen == [worker[w] EXCEPT !.ids[c] = i, !.left = @ \ {c},
                                           !.same = IF c = Organizer THEN SameInvite(w, i) ELSE @]
                 r == IF seen.left = {} THEN [seen EXCEPT !.pc = "patch", !.left = Calendars] ELSE seen
      <3>1. Goto(w, "defer") \/ Become(w, r)
        BY <2>3 DEF FindCopy, Sync
      <3>2. seen.pc = "find" /\ seen.key = worker[w].key
        BY <1>1, <2>3 DEF FindCopy, WorkerRec
      <3>3. r.pc \in {"find", "patch"} /\ r.key = worker[w].key
        <4>1. CASE seen.left = {}
          BY <1>1, <4>1 DEF WorkerRec
        <4>2. CASE seen.left # {}
          <5> HIDE DEF seen
          <5> QED BY <3>2, <4>2
        <4> QED BY <4>1, <4>2
      <3> HIDE DEF r
      <3>4. CASE Become(w, r)
        <4>1. worker'[w] = r /\ \A v \in Workers \ {w} : worker'[v] = worker[v]
          BY <3>4 DEF Become, Typed, Acting
        <4> QED BY <1>1, <2>1, <3>3, <4>1, HeldMoves DEF Expiring
      <3> QED BY <2>2, <3>1, <3>4
    <2>4. CASE PatchCopy(w, c) \/ DeleteCopy(w, c)
      BY <1>1, <1>9, <2>2, <2>4 DEF PatchCopy, DeleteCopy, Sync
    <2> QED BY <1>9, <2>3, <2>4
  <1>10. ASSUME DeferCard(w) \/ Send(w) \/ Note(w) \/ Crash(w) PROVE HeldByLease'
    <2>1. ASSUME Send(w) PROVE HeldByLease'
      BY <1>3, <2>1 DEF Send, Working, Expiring
    <2> QED BY <1>4, <1>10, <2>1 DEF DeferCard, Note, Crash
  <1>11. ASSUME NEW c \in Calendars, DeleteCopy(w, c), worker[w].pc = "expire" PROVE HeldByLease'
    <2>1. Goto(w, "put") \/ Onward(w, c, "put")
      BY <1>11 DEF DeleteCopy, Sync
    <2>2. /\ worker'[w].pc \in Expiring /\ worker'[w].ev = worker[w].ev
          /\ \A v \in Workers \ {w} : worker'[v] = worker[v]
      BY <1>1, <1>11, <2>1 DEF Goto, Onward, Typed, Acting, WorkerRec, Expiring
    <2> QED BY <1>1, <1>11, <2>2, HeldMoves DEF Working, Expiring
  <1>12. ASSUME ExpiryReads(w) PROVE HeldByLease'
    <2>1. PICK pc \in Expiring, left \in SUBSET Calendars :
            Become(w, [Idle EXCEPT !.pc = pc, !.ev = event, !.ids = event.ids, !.left = left])
      BY <1>12 DEF ExpiryReads, Expiring
    <2> DEFINE r == [Idle EXCEPT !.pc = pc, !.ev = event, !.ids = event.ids, !.left = left]
    <2>2. r.pc = pc /\ r.ev = event
      BY DEF Idle
    <2> HIDE DEF r
    <2>3. worker'[w] = r /\ \A v \in Workers \ {w} : worker'[v] = worker[v]
      BY <2>1 DEF Become, Typed, Acting, r
    <2> QED BY <1>1, <2>2, <2>3, HeldMoves DEF Working, Expiring
  <1>13. ASSUME NEW c \in Calendars, FindCopy(w, c) \/ PatchCopy(w, c) \/ DeleteCopy(w, c)
         PROVE  HeldByLease'
    <2>1. worker[w].pc = "expire" => DeleteCopy(w, c)
      BY <1>13 DEF FindCopy, PatchCopy
    <2> QED BY <1>9, <1>11, <1>13, <2>1
  <1> QED BY <1>6, <1>7, <1>8, <1>10, <1>12, <1>13

\* Steps that write the journal row of the worker's own operation.
LEMMA JournalHeld ==
  ASSUME Typed, HeldByLease, NEW w \in Workers,
         Claim(w) \/ DeferJournal(w) \/ Mail(w) \/ Sent(w) \/ Unsent(w)
  PROVE  HeldByLease'
  <1> DEFINE k == worker[w].key
  <1>1. k \in Keys /\ op[k] \in OpRec /\ op \in [Keys -> OpRec] /\ worker[w] \in WorkerRec
        /\ UNCHANGED event /\ worker[w].pc \notin {"commit"} \cup Expiring
    BY DEF Claim, DeferJournal, Mail, Sent, Unsent, Typed, Acting, Tables, Fine, Handling, Working, Expiring
  <1>2. /\ \A pc : Goto(w, pc) => /\ worker'[w].pc = pc /\ worker'[w].key = k
                                  /\ \A v \in Workers \ {w} : worker'[v] = worker[v]
        /\ Stop(w) => /\ worker'[w].pc = "idle"
                      /\ \A v \in Workers \ {w} : worker'[v] = worker[v]
    BY <1>1 DEF Goto, Stop, Become, Idle, Typed, Acting, WorkerRec
  <1>3. CASE worker[w].pc \in Working
    <2>1. /\ op[k].state = "pending" /\ op[k].lease = w
          /\ \A v \in Workers \ {w} : worker[v].pc \notin Working
      BY <1>3, OwnOperation
    <2>2. ASSUME NEW receipt, GiveUp(w, receipt) PROVE HeldByLease'
      <3> DEFINE o == [op[k] EXCEPT !.receipt = receipt, !.state = "unknown", !.lease = NoWorker]
      <3>1. op' = [op EXCEPT ![k] = o] /\ o.state = "unknown" /\ Stop(w)
        BY <1>1, <2>2 DEF GiveUp, OpRec
      <3> HIDE DEF k, o
      <3>2. worker'[w].pc = "idle" /\ \A v \in Workers \ {w} : worker'[v] = worker[v]
        BY <1>2, <3>1
      <3> QED BY <1>1, <2>1, <3>1, <3>2, HeldWrites DEF Working, Expiring
    <2>3. ASSUME NEW receipt, op' = [op EXCEPT ![k].receipt = receipt],
                 Goto(w, "send") \/ Goto(w, "finish")
          PROVE  HeldByLease'
      <3> DEFINE o == [op[k] EXCEPT !.receipt = receipt]
      <3>1. op' = [op EXCEPT ![k] = o] /\ o.state = "pending" /\ o.lease = w
        BY <1>1, <2>1, <2>3 DEF OpRec
      <3> HIDE DEF o
      <3>2. /\ worker'[w].pc \in {"send", "finish"} /\ worker'[w].key = k
            /\ \A v \in Workers \ {w} : worker'[v] = worker[v]
        BY <1>2, <2>3
      <3> QED BY <1>1, <2>1, <3>1, <3>2, HeldWrites DEF Expiring
    <2>4. CASE Mail(w)
      <3>1. CASE Goto(w, "finish") /\ UNCHANGED op
        BY <1>1, <1>2, <1>3, <3>1, HeldMoves DEF Expiring
      <3> QED BY <2>2, <2>3, <2>4, <3>1 DEF Mail
    <2>5. CASE DeferJournal(w)
      <3> DEFINE o == [op[k] EXCEPT !.partial = worker[w].ids, !.lease = NoWorker]
      <3>1. op' = [op EXCEPT ![k] = o] /\ o.state = "pending"
        BY <1>1, <2>1, <2>5 DEF DeferJournal, OpRec
      <3> HIDE DEF o
      <3>2. /\ worker'[w].pc = "defer event"
            /\ \A v \in Workers \ {w} : worker'[v] = worker[v]
        BY <1>2, <2>5 DEF DeferJournal
      <3>3. worker'[w].pc \notin Working \cup {"commit"} \cup Expiring
        BY <3>2 DEF Working, Expiring
      <3> HIDE DEF k
      <3> QED BY <1>1, <2>1, <3>1, <3>2, <3>3, HeldWrites
    <2>6. CASE Sent(w) \/ Unsent(w)
      BY <2>2, <2>3, <2>6 DEF Sent, Unsent
    <2> QED BY <1>3, <2>4, <2>5, <2>6 DEF Claim, Working
  <1>4. CASE Claim(w)
    <2>1. CASE Claimable(w, k) /\ op' = [op EXCEPT ![k].lease = w] /\ Goto(w, "reload")
      <3> DEFINE o == [op[k] EXCEPT !.lease = w]
      <3>1. op' = [op EXCEPT ![k] = o] /\ o.state = "pending" /\ o.lease = w
        BY <1>1, <2>1 DEF Claimable, OpRec
      <3>2. op[k].state = "pending" /\ op[k].lease \notin Workers
        BY <2>1, EventOperationsAssumption DEF Claimable
      <3>3. \A v \in Workers \ {w} : worker[v].pc \in Working => worker[v].key # k
        BY <3>2 DEF HeldByLease
      <3>4. /\ worker'[w].pc = "reload" /\ worker'[w].key = k
            /\ \A v \in Workers \ {w} : worker'[v] = worker[v]
        BY <1>2, <2>1
      <3> HIDE DEF k, o
      <3>5. worker'[w].pc \notin {"commit"} \cup Expiring /\ o.state # "none"
        BY <3>1, <3>4 DEF Expiring
      <3>6. worker'[w].pc \in Working =>
              worker'[w].key = k /\ o.state = "pending" /\ o.lease = w
        BY <3>1, <3>4
      <3>7. k \in Keys /\ UNCHANGED event
        BY <1>1
      <3>8. \A v \in Workers \ {w} : worker'[v] = worker[v]
        BY <3>4
      <3> QED BY <3>1, <3>2, <3>3, <3>5, <3>6, <3>7, <3>8, HeldWrites
    <2>2. CASE op' = op /\ Stop(w)
      BY <1>1, <1>2, <2>2, HeldMoves DEF Working, Expiring
    <2> QED BY <1>4, <2>1, <2>2 DEF Claim
  <1> QED BY <1>3, <1>4 DEF DeferJournal, Mail, Sent, Unsent, Working

\* Steps that write the event row.
LEMMA CommitHeld == ASSUME Typed, HeldByLease, NEW w \in Workers, Commit(w) PROVE HeldByLease'
  <1> DEFINE k == worker[w].key
  <1>1. /\ k \in Keys /\ worker[w] \in WorkerRec /\ worker[w].ev \in EventRec
        /\ op \in [Keys -> OpRec] /\ event.version \in Nat /\ event.latest \in Keys \cup {NoKey}
    BY DEF Commit, Typed, Acting, Tables, Fine, KnownAt, EventRec
  <1>2. ~Unresolved /\ event.version = worker[w].ev.version
    BY DEF Commit, CommitHolds, HeldByLease
  <1>3. \A j \in Keys : op[j].state # "pending"
    BY <1>2, EventOperationsAssumption DEF HeldByLease, Unresolved
  <1>4. \A v \in Workers : worker[v].pc \notin Working
    BY <1>3 DEF HeldByLease, Typed, Acting, Fine, Handling
  <1>5. event'.latest = k /\ event'.version = event.version + 1
    BY <1>2 DEF Commit, Planned
  <1>6. \A j \in Keys \ {k} : op'[j] = op[j]
    BY <1>1 DEF Commit
  <1>7. /\ worker'[w].pc = "open"
        /\ \A v \in Workers \ {w} : worker'[v] = worker[v]
    BY <1>1 DEF Commit, Goto, Typed, Acting, WorkerRec
  <1>8. \A v \in Workers : worker[v].ev.version \in Nat
    BY DEF Typed, Acting, WorkerRec, EventRec
  <1> HIDE DEF k
  <1>9. ASSUME NEW v \in Workers, worker'[v].pc \in {"commit"} \cup Expiring
        PROVE  /\ worker'[v].ev.version <= event'.version
               /\ worker'[v].ev.version # event'.version
    <2>1. /\ worker[v].pc \in {"commit"} \cup Expiring
          /\ worker'[v] = worker[v] /\ worker[v].ev.version \in Nat
      BY <1>7, <1>8, <1>9 DEF Expiring
    <2>2. worker[v].ev.version <= event.version
      BY <2>1 DEF HeldByLease
    <2> QED BY <1>1, <1>5, <2>1, <2>2
  <1> QED BY <1>3, <1>4, <1>5, <1>6, <1>7, <1>9 DEF HeldByLease, Working

LEMMA CompleteHeld == ASSUME Typed, HeldByLease, NEW w \in Workers, Complete(w) PROVE HeldByLease'
  <1> DEFINE k == worker[w].key
  <1>1. /\ worker[w].pc \in Working /\ worker[w] \in WorkerRec /\ event.version \in Nat
        /\ event \in EventRec
    BY DEF Complete, Working, Typed, Acting, Tables, KnownAt, EventRec
  <1>2. /\ k \in Keys /\ op[k] \in OpRec /\ op \in [Keys -> OpRec] /\ event.latest = k
        /\ \A v \in Workers \ {w} : worker[v].pc \notin Working
    BY <1>1, OwnOperation DEF Typed, Tables
  <1>3. CASE CompletionHolds(w)
    <2>1. event'.latest = k /\ event'.version = event.version + 1
      BY <1>1, <1>2, <1>3 DEF Complete, EventRec
    <2>2. op'[k].state = "complete" /\ \A j \in Keys \ {k} : op'[j] = op[j]
      BY <1>2, <1>3 DEF Complete, OpRec
    <2>3. /\ worker'[w].pc = "note"
          /\ \A v \in Workers \ {w} : worker'[v] = worker[v]
      BY <1>1, <1>3 DEF Complete, Goto, Typed, Acting, WorkerRec
    <2> HIDE DEF k
    <2>4. ASSUME NEW v \in Workers, worker'[v].pc \in {"commit"} \cup Expiring
          PROVE  /\ worker'[v].ev.version <= event'.version
                 /\ worker'[v].ev.version # event'.version
      <3>1. /\ worker[v].pc \in {"commit"} \cup Expiring
            /\ worker'[v] = worker[v] /\ worker[v].ev.version \in Nat
        BY <2>3, <2>4 DEF Typed, Acting, WorkerRec, EventRec, Expiring
      <3>2. worker[v].ev.version <= event.version
        BY <3>1 DEF HeldByLease
      <3> QED BY <1>1, <2>1, <3>1, <3>2
    <2> QED BY <1>2, <2>1, <2>2, <2>3, <2>4 DEF HeldByLease, Working
  <1>4. CASE ~CompletionHolds(w)
    <2>1. /\ worker'[w].pc = "dead" /\ UNCHANGED <<event, op>>
          /\ \A v \in Workers \ {w} : worker'[v] = worker[v]
      BY <1>4 DEF Complete, Die, Become, Idle, Typed, Acting
    <2> QED BY <2>1, HeldMoves DEF Working, Expiring
  <1> QED BY <1>3, <1>4

\* Expiring a hold writes a row as well: the one it read, so of a row nobody
\* has written since it changes the status alone.
LEMMA PutHeld ==
  ASSUME Typed, HeldByLease, NEW w \in Workers, ExpiryPuts(w),
         event.version = worker[w].ev.version
  PROVE  HeldByLease'
  <1>1. /\ event.version \in Nat /\ worker[w].ev \in EventRec /\ UNCHANGED op
        /\ \A v \in Workers : worker[v].ev.version \in Nat
    BY DEF Typed, Acting, Tables, KnownAt, WorkerRec, EventRec, ExpiryPuts
  <1>2. worker[w].ev.latest = event.latest
    BY DEF HeldByLease, ExpiryPuts, Expiring
  <1>3. event'.latest = event.latest /\ event'.version = event.version + 1
    BY <1>1, <1>2 DEF ExpiryPuts, EventRec
  <1>4. worker'[w].pc = "idle" /\ \A v \in Workers \ {w} : worker'[v] = worker[v]
    BY DEF ExpiryPuts, Stop, Become, Idle, Typed, Acting
  <1>5. ASSUME NEW v \in Workers, worker'[v].pc \in {"commit"} \cup Expiring
        PROVE  /\ worker'[v].ev.version <= event'.version
               /\ worker'[v].ev.version # event'.version
    <2>1. worker[v].pc \in {"commit"} \cup Expiring /\ worker'[v] = worker[v]
      BY <1>4, <1>5 DEF Expiring
    <2>2. worker[v].ev.version <= event.version
      BY <2>1 DEF HeldByLease
    <2> QED BY <1>1, <1>3, <2>1, <2>2
  <1> QED BY <1>1, <1>3, <1>4, <1>5 DEF HeldByLease, Working

LEMMA DeferEventHeld ==
  ASSUME Typed, HeldByLease, NEW w \in Workers, DeferEvent(w) PROVE HeldByLease'
  <1>1. event'.version = event.version /\ event'.latest = event.latest /\ UNCHANGED op
    BY DEF DeferEvent, Typed, Tables, KnownAt, EventRec
  <1>2. /\ worker'[w].pc = "defer card"
        /\ \A v \in Workers \ {w} : worker'[v] = worker[v]
    BY DEF DeferEvent, Goto, Typed, Acting, WorkerRec
  <1>3. Unresolved' <=> Unresolved
    BY <1>1 DEF Unresolved
  <1>4. \A v \in Workers : worker'[v].pc \in Working \cup {"commit"} \cup Expiring =>
          worker'[v] = worker[v]
    BY <1>2 DEF Working, Expiring
  <1> QED BY <1>1, <1>3, <1>4 DEF HeldByLease

LEMMA LeaseEndHeld ==
  ASSUME Typed, HeldByLease, NEW w \in Workers, LeaseRunsOut(w) PROVE HeldByLease'
  <1>1. \A k \in Keys : /\ op'[k].state = op[k].state
                        /\ op[k].lease # w => op'[k] = op[k]
    <2>1. \A k \in Keys : op[k] \in OpRec
      BY DEF Typed, Tables
    <2> QED BY <2>1 DEF LeaseRunsOut, OpRec
  <1>2. /\ worker'[w].pc = "idle" /\ UNCHANGED event
        /\ \A v \in Workers : v # w =>
             /\ worker'[v].pc = worker[v].pc /\ worker'[v].key = worker[v].key
             /\ worker'[v].ev = worker[v].ev
    <2>1. \A v \in Workers : worker[v] \in WorkerRec
      BY DEF Typed, Acting
    <2> QED BY <2>1 DEF LeaseRunsOut, Idle, WorkerRec
  <1>3. Unresolved' <=> Unresolved
    BY <1>1, <1>2 DEF Unresolved, Typed, Tables, KnownAt, EventRec
  <1>4. \A v \in Workers : worker[v].pc \in Working => worker[v].key \in Keys
    BY DEF Typed, Acting, Fine, Handling
  <1> QED BY <1>1, <1>2, <1>3, <1>4 DEF HeldByLease, Working, Expiring

\* No expiry writes over what was written since it read the row: the condition
\* that the expiry of holds leaves out.
FreshPuts == \A w \in Workers : ExpiryPuts(w) => event.version = worker[w].ev.version
NoOldRowPutBack == [][FreshPuts]_vars

LEMMA NextHeld == Typed /\ HeldByLease /\ [Next]_vars /\ [FreshPuts]_vars => HeldByLease'
  <1> SUFFICES ASSUME Typed, HeldByLease, [Next]_vars, [FreshPuts]_vars PROVE HeldByLease'
    OBVIOUS
  <1>1. ASSUME UNCHANGED <<event, op, worker>> PROVE HeldByLease'
    BY <1>1 DEF HeldByLease, Unresolved
  <1>2. ASSUME NEW w \in Workers, ExpiryPuts(w) PROVE HeldByLease'
    <2>1. CASE FreshPuts
      BY <1>2, <2>1, PutHeld DEF FreshPuts
    <2> QED BY <1>1, <2>1 DEF vars
  <1>3. ASSUME NEW w \in Workers, Step(w) PROVE HeldByLease'
    BY <1>2, <1>3, QuietHeld, JournalHeld, CommitHeld, CompleteHeld, DeferEventHeld DEF Step
  <1>4. ASSUME NEW i \in Generations, GuestAccepts(i) PROVE HeldByLease'
    BY <1>1, <1>4 DEF GuestAccepts
  <1> QED BY <1>1, <1>3, <1>4, QuietHeld, LeaseEndHeld DEF Next, vars

\* However many workers crash, stall and retry, one of them at a time acts on
\* the event between a claim and giving the lease back, as long as no expiry
\* puts a row back over what was written since.  Nothing else could let two of
\* them in, and the expiry of a row nobody touched does not either.
THEOREM OneWorkerActs == Spec /\ NoOldRowPutBack => []OneReconciler
  <1>1. Init => Typed /\ HeldByLease
    BY InitTyped, InitHeld
  <1>2. Typed /\ HeldByLease /\ [Next]_vars /\ [FreshPuts]_vars => (Typed /\ HeldByLease)'
    BY NextTyped, NextHeld
  <1> QED BY <1>1, <1>2, AtMostOne, PTL DEF Spec, NoOldRowPutBack
=============================================================================
