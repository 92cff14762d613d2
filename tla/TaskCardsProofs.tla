--------------------------- MODULE TaskCardsProofs ---------------------------
(***************************************************************************)
(* Proofs about TaskCards, for every set of Tasks, Cards and Requests.     *)
(*                                                                         *)
(* The invariants of the board are not inductive: that a commit keeps them *)
(* depends on what its request read earlier still being true.  RInv says   *)
(* when it is.  A row that was read is an earlier value of the stored row, *)
(* and the same value while the version is the same (ReadsArePast); the    *)
(* graph is read after its Cards are pinned (PinsComeFirst); and nothing   *)
(* in the graph of a Card changes while the Card's version stays as it was *)
(* pinned (PinnedGraphIsCurrent).                                          *)
(***************************************************************************)
EXTENDS TaskCards, FiniteSetTheorems, TLAPS

\* An id that was never written has no row, and a stored Card has a version.
Numbered == /\ \A t \in Tasks : task[t].version = 0 => task[t] = Unborn
            /\ \A c \in Cards : card[c].version >= 1

\* What the request wants: to create a row, or to replace the one it read.
WellFormed(q) == /\ q.id \in Tasks
                 /\ ~Malformed(q)
                 /\ q.after.version = q.before.version + 1
                 /\ ~q.before.live => q.before = Unborn /\ q.after.live
CallsWellFormed == \A r \in Requests : pc[r] = "working" => WellFormed(call[r])

\* A row read earlier is behind the stored one, or is the stored one.
Past(old, now) == old.version <= now.version /\ (old.version = now.version => old = now)
ReadsArePast ==
  \A r \in Requests : pc[r] = "working" =>
    /\ Past(call[r].before, task[call[r].id])
    /\ \A t \in Tasks : /\ IsRead(walk[r][t]) => Past(walk[r][t], task[t])
                        /\ IsRead(scan[r][t]) => Past(scan[r][t], task[t])
    /\ \A c \in Cards : pins[r][c] <= card[c].version /\ Past(base[r][c], card[c])

\* The graph is read under the pins, and no Card is loaded past its pin.
\* The Task itself is not among its prerequisites.
PinsComeFirst ==
  \A r \in Requests : pc[r] = "working" =>
    /\ \A t \in Tasks : IsRead(walk[r][t]) \/ IsRead(scan[r][t]) => AllPinned(r)
    /\ \A c \in Cards : base[r][c].version # 0 =>
         AllPinned(r) /\ (pins[r][c] # 0 => base[r][c].version = pins[r][c])
    /\ ~IsRead(walk[r][call[r].id])

IdleHoldsNothing ==
  \A r \in Requests : pc[r] # "working" =>
    /\ \A c \in Cards : pins[r][c] = 0 /\ base[r][c].version = 0
    /\ \A t \in Tasks : ~IsRead(walk[r][t]) /\ ~IsRead(scan[r][t])

\* What the requests rely on, and the board with them.
RInv == /\ TypeOK /\ Numbered /\ CallsWellFormed /\ ReadsArePast /\ PinsComeFirst
        /\ IdleHoldsNothing /\ PinnedGraphIsCurrent /\ EdgesStayOnCard
IInv == RInv /\ CompletedWorkStands /\ GraphAcyclic

-----------------------------------------------------------------------------
\* What the operators return.

\* Recomputing a Card row gives a Card row, one version on.
LEMMA AppliedCard ==
  ASSUME NEW c \in CardRec, NEW delta \in [tasks : Int, open : Int],
         NEW hint \in ActiveStages \cup {NoStage}
  PROVE  /\ ApplyAggregateDelta(c, delta, hint) \in CardRec
         /\ ApplyAggregateDelta(c, delta, hint).version = c.version + 1
  BY DEF ApplyAggregateDelta, CardRec, CardStatuses, ActiveStages, NoStage,
         DoneStage, Preparation, OrPreparation, Completes, Reactivates, ResumedStage

\* The literal rows have the types of their tables.
LEMMA LiteralRows ==
  /\ Unborn \in TaskRec /\ ~IsRead(NotRead)
  /\ \A n \in Nat : CardWith(n) \in CardRec /\ CardWith(n).version = 1
  /\ NotLoaded \in CardRec /\ NotLoaded.version = 0
  /\ NoCall \in [id : Tasks \cup {NoTask}, before : TaskRec, after : TaskRec]
  BY DEF Unborn, TaskRec, IsRead, NotRead, CardWith, NotLoaded, NoCall, CardRec,
         CardStatuses, ActiveStages, NoStage, DoneStage, Preparation, Statuses

\* A row that counts as read is a row of the table.
LEMMA ReadRows ==
  ASSUME NEW row \in TaskRec \cup {NotRead}
  PROVE  /\ row \in TaskRec => IsRead(row)
         /\ IsRead(row) => row \in TaskRec
         /\ row.deps \subseteq Tasks
  BY DEF TaskRec, NotRead, IsRead, Unborn

\* Numbering a row changes its version only.
LEMMA Renumbered ==
  ASSUME NEW row \in TaskRec, NEW v \in Nat
  PROVE  /\ [row EXCEPT !.version = v] \in TaskRec
         /\ [row EXCEPT !.version = v].live = row.live
         /\ [row EXCEPT !.version = v].version = v
  BY DEF TaskRec

-----------------------------------------------------------------------------
\* Steps that write neither table keep everything that speaks of the tables only.

BoardInv == Numbered /\ EdgesStayOnCard

\* A step that leaves both tables alone leaves the board's invariants alone.
LEMMA BoardUnchanged ==
  ASSUME BoardInv, UNCHANGED <<task, card>>
  PROVE  BoardInv'
  BY DEF BoardInv, Numbered, EdgesStayOnCard

\* Answering a request forgets what it read and says nothing of the others.
LEMMA AnswerKeepsRInv ==
  ASSUME RInv, NEW r \in Requests, Answer(r), UNCHANGED <<task, card>>
  PROVE  RInv'
  <1>1. BoardInv'
    BY BoardUnchanged DEF RInv, BoardInv
  <1>2. TypeOK'
    BY LiteralRows DEF RInv, TypeOK, Answer
  <1>3. CallsWellFormed'
    BY DEF RInv, TypeOK, CallsWellFormed, WellFormed, Answer
  <1>4. ReadsArePast'
    BY DEF RInv, TypeOK, ReadsArePast, Answer
  <1>5. PinsComeFirst'
    BY DEF RInv, TypeOK, PinsComeFirst, Answer, AllPinned
  <1>6. IdleHoldsNothing'
    BY LiteralRows DEF RInv, TypeOK, IdleHoldsNothing, Answer
  <1>7. PinnedGraphIsCurrent'
    BY DEF RInv, TypeOK, PinnedGraphIsCurrent, Answer
  <1> QED BY <1>1, <1>2, <1>3, <1>4, <1>5, <1>6, <1>7 DEF RInv, BoardInv

\* Accepting a request reads the Task's row; nothing else has been read yet.
LEMMA BeginKeepsRInv ==
  ASSUME RInv, NEW r \in Requests, NEW t \in Tasks, NEW after \in TaskRec,
         Begin(r, t, after), task[t].live \/ (task[t].version = 0 /\ after.live)
  PROVE  RInv'
  <1> DEFINE q == [id |-> t, before |-> task[t],
                   after |-> [after EXCEPT !.version = task[t].version + 1]]
  <1>1. /\ pc[r] = "idle" /\ ~Malformed(q)
        /\ pc' = [pc EXCEPT ![r] = "working"] /\ call' = [call EXCEPT ![r] = q]
        /\ UNCHANGED <<task, card, pins, walk, scan, base>>
    BY DEF Begin, local
  <1>2. /\ q.id \in Tasks /\ q.before \in TaskRec /\ q.after \in TaskRec
        /\ q.after.live = after.live /\ q.after.version = q.before.version + 1
    <2>1. task[t] \in TaskRec /\ task[t].version + 1 \in Nat
      BY DEF RInv, TypeOK, TaskRec
    <2> QED BY <2>1, Renumbered, ZenonT(40)
  <1>3. /\ \A c \in Cards : pins[r][c] = 0 /\ base[r][c].version = 0
        /\ \A p \in Tasks : ~IsRead(walk[r][p]) /\ ~IsRead(scan[r][p])
    BY <1>1 DEF RInv, IdleHoldsNothing
  <1>4. BoardInv'
    BY <1>1, BoardUnchanged DEF RInv, BoardInv
  <1>5. TypeOK'
    BY <1>1, <1>2 DEF RInv, TypeOK
  <1>6. WellFormed(q)
    <2>1. ~q.before.live => q.before = Unborn /\ q.after.live
      BY <1>2 DEF RInv, Numbered
    <2> QED BY <1>1, <2>1, <1>2 DEF WellFormed, TaskRec
  <1>7. CallsWellFormed'
    <2>1. CallsWellFormed /\ pc \in [Requests -> {"idle", "working", "answered"}] /\ DOMAIN call = Requests
      BY DEF RInv, TypeOK
    <2> SUFFICES ASSUME NEW s \in Requests, pc'[s] = "working" PROVE WellFormed(call'[s])
      BY DEF CallsWellFormed, WellFormed, Malformed, EdgesChanged
    <2> HIDE DEF q
    <2> QED BY <2>1, <1>1, <1>6 DEF CallsWellFormed
  <1>8. ReadsArePast'
    BY <1>1, <1>3 DEF RInv, TypeOK, ReadsArePast, Past, TaskRec, CardRec, Numbered
  <1>9. PinsComeFirst'
    <2> HIDE DEF q
    <2> QED BY <1>1, <1>2, <1>3 DEF RInv, TypeOK, PinsComeFirst, AllPinned
  <1>10. IdleHoldsNothing'
    BY <1>1 DEF RInv, TypeOK, IdleHoldsNothing
  <1>11. PinnedGraphIsCurrent'
    BY <1>1, <1>3 DEF RInv, TypeOK, PinnedGraphIsCurrent
  <1> QED BY <1>4, <1>5, <1>7, <1>8, <1>9, <1>10, <1>11 DEF RInv, BoardInv

\* The three calls that write a Task ask for a row of the table.
LEMMA CallBegins ==
  ASSUME TypeOK, NEW r \in Requests, NEW t \in Tasks,
         \/ \E new \in NewTasks : CreateTask(r, t, new)
         \/ \E p \in Patches : UpdateTask(r, t, p)
         \/ DeleteTask(r, t)
  PROVE  \E after \in TaskRec :
           Begin(r, t, after) /\ (task[t].live \/ (task[t].version = 0 /\ after.live))
  <1>0. task[t] \in TaskRec
    BY DEF TypeOK
  <1>1. CASE \E new \in NewTasks : CreateTask(r, t, new)
    <2>1. PICK new \in NewTasks : CreateTask(r, t, new)
      BY <1>1
    <2> DEFINE after == [live |-> TRUE, card |-> new.card, status |-> new.status,
                         deps |-> new.deps, version |-> 0]
    <2>2. after \in TaskRec /\ after.live
      BY TaskCardsAssumption DEF TaskRec
    <2>3. task[t].version = 0 /\ Begin(r, t, after)
      BY <2>1 DEF CreateTask
    <2> HIDE DEF after
    <2> QED BY <2>2, <2>3
  <1>2. CASE \E p \in Patches : UpdateTask(r, t, p)
    <2>1. PICK p \in Patches : UpdateTask(r, t, p)
      BY <1>2
    <2> DEFINE after == [task[t] EXCEPT !.card = Sent(p.card, @), !.status = Sent(p.status, @),
                                        !.deps = Sent(p.deps, @)]
    <2>2. /\ Sent(p.card, task[t].card) \in Cards \cup {NoCard}
          /\ Sent(p.status, task[t].status) \in Statuses
          /\ Sent(p.deps, task[t].deps) \in SUBSET Tasks
      BY <1>0, TaskCardsAssumption DEF TaskRec, PatchRec, Sent
    <2>3. after \in TaskRec
      BY <1>0, <2>2, Zenon DEF TaskRec
    <2>4. task[t].live /\ Begin(r, t, after)
      BY <2>1 DEF UpdateTask
    <2> HIDE DEF after
    <2> QED BY <2>3, <2>4
  <1>3. CASE DeleteTask(r, t)
    <2> DEFINE after == [task[t] EXCEPT !.live = FALSE]
    <2>1. after \in TaskRec
      BY <1>0 DEF TaskRec
    <2>2. task[t].live /\ Begin(r, t, after)
      BY <1>3 DEF DeleteTask
    <2> HIDE DEF after
    <2> QED BY <2>1, <2>2
  <1> QED BY <1>1, <1>2, <1>3

LEMMA CallKeepsRInv ==
  ASSUME RInv, NEW r \in Requests, NEW t \in Tasks,
         \/ \E new \in NewTasks : CreateTask(r, t, new)
         \/ \E p \in Patches : UpdateTask(r, t, p)
         \/ DeleteTask(r, t)
  PROVE  RInv'
  <1>1. TypeOK
    BY DEF RInv
  <1>2. PICK after \in TaskRec :
          Begin(r, t, after) /\ (task[t].live \/ (task[t].version = 0 /\ after.live))
    BY <1>1, CallBegins
  <1> QED BY <1>2, BeginKeepsRInv

-----------------------------------------------------------------------------
\* The reading steps.  Each reads a row as it is now, so what it adds is
\* current; what was read before is left as it was.

LEMMA PinCardKeepsRInv ==
  ASSUME RInv, NEW r \in Requests, NEW c \in Cards, PinCard(r, c)
  PROVE  RInv'
  <1>1. /\ pc[r] = "working" /\ c \in CardsToPin(call[r]) /\ pins[r][c] = 0
        /\ pins' = [pins EXCEPT ![r][c] = card[c].version]
        /\ UNCHANGED <<task, card, pc, call, walk, scan, base>>
    BY DEF PinCard
  <1>2. /\ ~AllPinned(r) /\ \A d \in Cards : base[r][d].version = 0
        /\ \A t \in Tasks : ~IsRead(walk[r][t]) /\ ~IsRead(scan[r][t])
    BY <1>1 DEF AllPinned, RInv, PinsComeFirst
  <1>3. card[c].version \in Nat
    BY DEF RInv, TypeOK, CardRec
  <1>4. BoardInv'
    BY <1>1, BoardUnchanged DEF RInv, BoardInv
  <1>5. TypeOK'
    BY <1>1, <1>3 DEF RInv, TypeOK
  <1>6. CallsWellFormed'
    BY <1>1 DEF RInv, CallsWellFormed, WellFormed
  <1>7. ReadsArePast'
    BY <1>1, <1>3 DEF RInv, TypeOK, ReadsArePast
  <1>8. PinsComeFirst'
    BY <1>1, <1>2 DEF RInv, TypeOK, PinsComeFirst, AllPinned
  <1>9. IdleHoldsNothing'
    BY <1>1 DEF RInv, TypeOK, IdleHoldsNothing
  <1>10. PinnedGraphIsCurrent'
    BY <1>1, <1>2 DEF RInv, TypeOK, PinnedGraphIsCurrent
  <1> QED BY <1>4, <1>5, <1>6, <1>7, <1>8, <1>9, <1>10 DEF RInv, BoardInv

LEMMA ReadPrerequisiteKeepsRInv ==
  ASSUME RInv, NEW r \in Requests, NEW t \in Tasks, ReadPrerequisite(r, t)
  PROVE  RInv'
  <1>1. /\ pc[r] = "working" /\ AllPinned(r) /\ t \in Frontier(r)
        /\ walk' = [walk EXCEPT ![r][t] = task[t]]
        /\ UNCHANGED <<task, card, pc, call, pins, scan, base>>
    BY DEF ReadPrerequisite
  <1>2. t # call[r].id
    <2>1. ~(call[r].after.live /\ call[r].id \in call[r].after.deps)
      BY <1>1 DEF RInv, CallsWellFormed, WellFormed, Malformed
    <2>2. CASE EdgesChanged(call[r])
      BY <1>1, <2>2 DEF Frontier
    <2>3. CASE ~EdgesChanged(call[r]) /\ EnteringDone(call[r])
      BY <1>1, <2>1, <2>3 DEF Frontier, EnteringDone
    <2>4. CASE ~EdgesChanged(call[r]) /\ ~EnteringDone(call[r])
      BY <1>1, <2>4 DEF Frontier
    <2> QED BY <2>2, <2>3, <2>4
  <1>3. Past(task[t], task[t]) /\ \A c \in Cards : SameInGraph(task[t], task[t], c)
    BY DEF RInv, TypeOK, TaskRec, Past, SameInGraph
  <1>4. BoardInv'
    BY <1>1, BoardUnchanged DEF RInv, BoardInv
  <1>5. TypeOK'
    BY <1>1 DEF RInv, TypeOK
  <1>6. CallsWellFormed'
    BY <1>1 DEF RInv, CallsWellFormed, WellFormed
  <1>7. ReadsArePast'
    BY <1>1, <1>3 DEF RInv, TypeOK, ReadsArePast
  <1>8. PinsComeFirst'
    BY <1>1, <1>2 DEF RInv, TypeOK, PinsComeFirst, AllPinned, CallsWellFormed, WellFormed
  <1>9. IdleHoldsNothing'
    BY <1>1 DEF RInv, TypeOK, IdleHoldsNothing
  <1>10. PinnedGraphIsCurrent'
    BY <1>1, <1>3 DEF RInv, TypeOK, PinnedGraphIsCurrent
  <1> QED BY <1>4, <1>5, <1>6, <1>7, <1>8, <1>9, <1>10 DEF RInv, BoardInv

LEMMA ScanRowKeepsRInv ==
  ASSUME RInv, NEW r \in Requests, NEW t \in Tasks, ScanRow(r, t)
  PROVE  RInv'
  <1>1. /\ pc[r] = "working" /\ AllPinned(r)
        /\ scan' = [scan EXCEPT ![r][t] = task[t]]
        /\ UNCHANGED <<task, card, pc, call, pins, walk, base>>
    BY DEF ScanRow
  <1>3. Past(task[t], task[t]) /\ \A c \in Cards : SameInGraph(task[t], task[t], c)
    BY DEF RInv, TypeOK, TaskRec, Past, SameInGraph
  <1>4. BoardInv'
    BY <1>1, BoardUnchanged DEF RInv, BoardInv
  <1>5. TypeOK'
    BY <1>1 DEF RInv, TypeOK
  <1>6. CallsWellFormed'
    BY <1>1 DEF RInv, CallsWellFormed, WellFormed
  <1>7. ReadsArePast'
    BY <1>1, <1>3 DEF RInv, TypeOK, ReadsArePast
  <1>8. PinsComeFirst'
    BY <1>1 DEF RInv, TypeOK, PinsComeFirst, AllPinned
  <1>9. IdleHoldsNothing'
    BY <1>1 DEF RInv, TypeOK, IdleHoldsNothing
  <1>10. PinnedGraphIsCurrent'
    BY <1>1, <1>3 DEF RInv, TypeOK, PinnedGraphIsCurrent
  <1> QED BY <1>4, <1>5, <1>6, <1>7, <1>8, <1>9, <1>10 DEF RInv, BoardInv

LEMMA LoadCardKeepsRInv ==
  ASSUME RInv, NEW r \in Requests, NEW c \in Cards, LoadCard(r, c)
  PROVE  RInv'
  <1>1. /\ pc[r] = "working" /\ AllPinned(r) /\ ~Stale(r, c)
        /\ base' = [base EXCEPT ![r][c] = card[c]]
        /\ UNCHANGED <<task, card, pc, call, pins, walk, scan>>
    BY DEF LoadCard, AllRead
  <1>2. Past(card[c], card[c]) /\ (pins[r][c] # 0 => card[c].version = pins[r][c])
    BY <1>1 DEF RInv, TypeOK, CardRec, Past, Stale
  <1>4. BoardInv'
    BY <1>1, BoardUnchanged DEF RInv, BoardInv
  <1>5. TypeOK'
    BY <1>1 DEF RInv, TypeOK
  <1>6. CallsWellFormed'
    BY <1>1 DEF RInv, CallsWellFormed, WellFormed
  <1>7. ReadsArePast'
    BY <1>1, <1>2 DEF RInv, TypeOK, ReadsArePast
  <1>8. PinsComeFirst'
    BY <1>1, <1>2 DEF RInv, TypeOK, PinsComeFirst, AllPinned
  <1>9. IdleHoldsNothing'
    BY <1>1 DEF RInv, TypeOK, IdleHoldsNothing
  <1>10. PinnedGraphIsCurrent'
    BY <1>1 DEF RInv, TypeOK, PinnedGraphIsCurrent
  <1> QED BY <1>4, <1>5, <1>6, <1>7, <1>8, <1>9, <1>10 DEF RInv, BoardInv

-----------------------------------------------------------------------------
\* The writing steps.

\* A write of a Card row is the next version of that row: no pin of it is current.
LEMMA WriteCardKeepsRInv ==
  ASSUME RInv, NEW r \in Requests, NEW c \in Cards, NEW kind, NEW row \in CardRec,
         row.version = card[c].version, WriteCard(kind, r, c, row)
  PROVE  RInv'
  <1> DEFINE new == [row EXCEPT !.version = @ + 1]
  <1>1. /\ pc[r] = "idle" /\ pc' = [pc EXCEPT ![r] = "answered"]
        /\ card' = [card EXCEPT ![c] = new]
        /\ UNCHANGED <<task, call, pins, walk, scan, base>>
    BY DEF WriteCard, local
  <1>2. new \in CardRec /\ new.version = card[c].version + 1
    BY DEF CardRec
  <1> HIDE DEF new
  <1>3. card' \in [Cards -> CardRec] /\ \A d \in Cards : card[d].version \in Nat
    BY <1>1, <1>2 DEF RInv, TypeOK, CardRec
  <1>4. card'[c].version = card[c].version + 1 /\ \A d \in Cards \ {c} : card'[d] = card[d]
    BY <1>1, <1>2 DEF RInv, TypeOK
  <1>5. TypeOK'
    BY <1>1, <1>3 DEF RInv, TypeOK
  <1>6. Numbered'
    BY <1>1, <1>3, <1>4 DEF RInv, Numbered
  <1>7. CallsWellFormed'
    BY <1>1 DEF RInv, TypeOK, CallsWellFormed, WellFormed
  <1>8. ReadsArePast'
    <2> SUFFICES ASSUME NEW s \in Requests, pc'[s] = "working"
                 PROVE  \A d \in Cards : pins[s][d] <= card'[d].version /\ Past(base[s][d], card'[d])
      BY <1>1 DEF RInv, TypeOK, ReadsArePast
    <2> TAKE d \in Cards
    <2>1. /\ pins[s][d] \in Nat /\ base[s][d].version \in Nat
          /\ pins[s][d] <= card[d].version /\ Past(base[s][d], card[d])
      BY <1>1 DEF RInv, TypeOK, ReadsArePast, CardRec
    <2> QED BY <1>3, <1>4, <2>1 DEF Past
  <1>9. PinsComeFirst'
    BY <1>1 DEF RInv, TypeOK, PinsComeFirst, AllPinned
  <1>10. IdleHoldsNothing'
    BY <1>1 DEF RInv, TypeOK, IdleHoldsNothing
  <1>11. PinnedGraphIsCurrent'
    <2> SUFFICES ASSUME NEW s \in Requests, NEW d \in Cards,
                        pc'[s] = "working", pins[s][d] = card'[d].version
                 PROVE  pc[s] = "working" /\ pins[s][d] = card[d].version
      BY <1>1 DEF RInv, PinnedGraphIsCurrent
    <2>1. pc[s] = "working" /\ pins[s][d] <= card[d].version
      BY <1>1 DEF RInv, TypeOK, ReadsArePast
    <2> QED BY <1>3, <1>4, <2>1
  <1>12. EdgesStayOnCard'
    BY <1>1 DEF RInv, EdgesStayOnCard
  <1> QED BY <1>5, <1>6, <1>7, <1>8, <1>9, <1>10, <1>11, <1>12 DEF RInv

\* The Card calls write the row they read, but for its status or stage.
LEMMA CardCallWrites ==
  ASSUME TypeOK, NEW r \in Requests, NEW c \in Cards,
         UpdateCard(r, c) \/ ParkCard(r, c) \/ ResumeCard(r, c)
           \/ \E st \in ActiveStages : UpdateCardStage(r, c, st)
  PROVE  \E row \in CardRec : /\ row.version = card[c].version
                              /\ row.taskCount = card[c].taskCount
                              /\ row.openTaskCount = card[c].openTaskCount
                              /\ \E kind \in CardCalls : WriteCard(kind, r, c, row)
  <1>1. card[c] \in CardRec
    BY DEF TypeOK
  <1> DEFINE SameBut(row) == /\ row \in CardRec /\ row.version = card[c].version
                             /\ row.taskCount = card[c].taskCount
                             /\ row.openTaskCount = card[c].openTaskCount
             Writes(row) == \E kind \in CardCalls : WriteCard(kind, r, c, row)
  <1>2. \A kind, row : WriteCard(kind, r, c, row) => Writes(row)
    BY DEF WriteCard
  <1>3. CASE UpdateCard(r, c)
    <2>1. SameBut(card[c]) /\ Writes(card[c])
      BY <1>1, <1>2, <1>3 DEF UpdateCard
    <2> QED BY <2>1
  <1>4. CASE ParkCard(r, c)
    <2> DEFINE row == [card[c] EXCEPT !.status = "parked"]
    <2>1. SameBut(row)
      BY <1>1 DEF CardRec, CardStatuses
    <2>2. Writes(row)
      BY <1>2, <1>4 DEF ParkCard
    <2> HIDE DEF row
    <2> QED BY <2>1, <2>2
  <1>5. CASE ResumeCard(r, c)
    <2> DEFINE row == [card[c] EXCEPT !.status = "active"]
    <2>1. SameBut(row)
      BY <1>1 DEF CardRec, CardStatuses
    <2>2. Writes(row)
      BY <1>2, <1>5 DEF ResumeCard
    <2> HIDE DEF row
    <2> QED BY <2>1, <2>2
  <1>6. ASSUME NEW st \in ActiveStages, UpdateCardStage(r, c, st)
        PROVE  \E row : SameBut(row) /\ Writes(row)
    <2> DEFINE row == [card[c] EXCEPT !.stage = st]
    <2>1. SameBut(row)
      BY <1>1 DEF CardRec
    <2>2. Writes(row)
      BY <1>2, <1>6 DEF UpdateCardStage
    <2> HIDE DEF row
    <2> QED BY <2>1, <2>2
  <1> QED BY <1>3, <1>4, <1>5, <1>6

LEMMA CardCallKeepsRInv ==
  ASSUME RInv, NEW r \in Requests, NEW c \in Cards,
         UpdateCard(r, c) \/ ParkCard(r, c) \/ ResumeCard(r, c)
           \/ \E st \in ActiveStages : UpdateCardStage(r, c, st)
  PROVE  RInv'
  <1>1. TypeOK
    BY DEF RInv
  <1>2. PICK row \in CardRec : /\ row.version = card[c].version
                               /\ \E kind \in CardCalls : WriteCard(kind, r, c, row)
    BY <1>1, CardCallWrites
  <1> QED BY <1>2, WriteCardKeepsRInv

\* A mutation that does not touch a Card leaves the Card's graph as it is.
LEMMA UntouchedIsSame ==
  ASSUME NEW q, q.before \in TaskRec, q.after \in TaskRec,
         NEW c \in Cards, c \notin Touched(q)
  PROVE  SameInGraph(q.before, q.after, c)
  <1>1. c # NoCard
    BY TaskCardsAssumption
  <1>2. CASE c \notin OnCards(q)
    BY <1>1, <1>2 DEF OnCards, SameInGraph
  <1>3. CASE c \in OnCards(q)
    <2>1. /\ Weight(q.after, c).tasks - Weight(q.before, c).tasks = 0
          /\ Weight(q.after, c).open - Weight(q.before, c).open = 0
          /\ ~(EdgesChanged(q) /\ c = q.after.card)
      BY <1>3 DEF Touched, Delta
    <2>2. q.before.live /\ q.before.card = c <=> q.after.live /\ q.after.card = c
      BY <2>1 DEF Weight
    <2>3. CASE q.after.live /\ q.after.card = c
      <3>1. IsOpen(q.before.status) <=> IsOpen(q.after.status)
        BY <2>1, <2>2, <2>3 DEF Weight
      <3>2. q.before.deps = q.after.deps
        BY <2>1, <2>3 DEF EdgesChanged
      <3> QED BY <2>2, <3>1, <3>2 DEF SameInGraph, IsOpen
    <2>4. CASE ~(q.after.live /\ q.after.card = c)
      BY <2>2, <2>4 DEF SameInGraph
    <2> QED BY <2>3, <2>4
  <1> QED BY <1>2, <1>3

\* What a request may rely on when its transaction is applied: the Task is the
\* row it read, and the graph of every Card it touches is the graph it read.
LEMMA AtCommit ==
  ASSUME RInv, NEW r \in Requests, Commit(r)
  PROVE  /\ WellFormed(call[r]) /\ call[r].before \in TaskRec /\ call[r].after \in TaskRec
         /\ task[call[r].id] = call[r].before
         /\ \A c \in Touched(call[r]) \cap CardsToPin(call[r]), t \in Tasks :
              /\ IsRead(walk[r][t]) => SameInGraph(walk[r][t], task[t], c)
              /\ IsRead(scan[r][t]) => SameInGraph(scan[r][t], task[t], c)
  <1>1. pc[r] = "working" /\ AllPinned(r) /\ ToLoad(r) = {} /\ ConditionsHold(r)
    BY DEF Commit, ReadyToCommit, AllRead
  <1>2. WellFormed(call[r]) /\ call[r].before \in TaskRec /\ call[r].after \in TaskRec
    BY <1>1 DEF RInv, TypeOK, CallsWellFormed
  <1>3. task[call[r].id] = call[r].before
    BY <1>1 DEF RInv, ReadsArePast, Past, ConditionsHold, Unmoved
  <1>4. ASSUME NEW c \in Touched(call[r]) \cap CardsToPin(call[r])
        PROVE  c \in Cards /\ pins[r][c] = card[c].version
    <2>1. c \in Cards
      BY <1>2 DEF Touched, OnCards, TaskRec
    <2>2. pins[r][c] # 0 /\ base[r][c].version # 0 /\ card[c].version = base[r][c].version
      BY <1>1, <1>4, <2>1 DEF AllPinned, ToLoad, ConditionsHold
    <2> QED BY <1>1, <2>1, <2>2 DEF RInv, PinsComeFirst
  <1>5. PinnedGraphIsCurrent
    BY DEF RInv
  <1> QED BY <1>1, <1>2, <1>3, <1>4, <1>5 DEF PinnedGraphIsCurrent

\* A Task others depend on is neither deleted nor moved, and is not reopened
\* under a completed one: the scan has seen every dependent there is.
LEMMA DependentsAreSeen ==
  ASSUME RInv, NEW r \in Requests, Commit(r),
         NEW d \in Tasks, d # call[r].id, task[d].live, call[r].id \in task[d].deps
  PROVE  /\ call[r].before.live /\ call[r].before.card = task[d].card
         /\ call[r].after.live /\ call[r].after.card = call[r].before.card
         /\ task[d].status = "done" => ~Reopening(call[r])
  <1> DEFINE q == call[r]
  <1>1. /\ WellFormed(q) /\ q.before \in TaskRec /\ q.after \in TaskRec /\ task[q.id] = q.before
        /\ q.id \in Tasks
    BY AtCommit DEF WellFormed
  <1>2. q.before.live /\ q.before.card = task[d].card /\ q.before.card \in Cards
    BY <1>1 DEF RInv, EdgesStayOnCard, TaskRec
  <1>3. ASSUME Reopening(q) \/ Deleting(q) \/ Moving(q) PROVE d \in Dependents(r)
    <2>1. LooksForDependents(q)
      BY <1>2, <1>3, TaskCardsAssumption DEF LooksForDependents
    <2>2. IsRead(scan[r][d])
      BY <2>1 DEF Commit, ReadyToCommit, AllRead, ToScan
    <2>3. q.before.card \in Touched(q) \cap CardsToPin(q)
      <3>1. q.before.card \in OnCards(q) /\ q.before.card \in CardsToPin(q)
        BY <1>2, <1>3, TaskCardsAssumption DEF OnCards, CardsToPin
      <3>2. CASE Deleting(q) \/ Moving(q)
        <4>1. Delta(q, q.before.card).tasks = -1
          BY <1>2, <3>2 DEF Delta, Weight, Deleting, Moving
        <4> QED BY <3>1, <4>1 DEF Touched
      <3>3. CASE Reopening(q) /\ ~Moving(q)
        <4>1. Delta(q, q.before.card).open = 1
          BY <1>2, <3>3 DEF Delta, Weight, Reopening, Moving, Updating, IsOpen, IsResolved
        <4> QED BY <3>1, <4>1 DEF Touched
      <3> QED BY <1>3, <3>1, <3>2, <3>3
    <2>4. SameInGraph(scan[r][d], task[d], q.before.card)
      BY <2>2, <2>3, AtCommit
    <2> QED BY <1>2, <2>4 DEF SameInGraph, Dependents
  <1>4. ~LeavesDependents(r) /\ GuardsHold(r) /\ pc[r] = "working"
    BY DEF Commit, ReadyToCommit, Refused, ConditionsHold
  <1>5. ~Deleting(q) /\ ~Moving(q)
    BY <1>3, <1>4 DEF LeavesDependents
  <1>6. ASSUME task[d].status = "done", Reopening(q) PROVE FALSE
    <2>1. d \in Dependents(r) /\ task[d].version = scan[r][d].version
      BY <1>3, <1>4, <1>6 DEF GuardsHold, Unmoved
    <2>2. IsRead(scan[r][d])
      <3>1. scan[r][d] \in TaskRec \cup {NotRead}
        BY DEF RInv, TypeOK
      <3>2. scan[r][d].live
        BY <2>1 DEF Dependents
      <3> QED BY <3>1, <3>2, ReadRows DEF NotRead, Unborn
    <2>3. scan[r][d] = task[d]
      BY <1>4, <2>1, <2>2 DEF RInv, ReadsArePast, Past
    <2> QED BY <1>4, <1>6, <2>1, <2>3 DEF LeavesDependents
  <1> QED BY <1>2, <1>5, <1>6 DEF Deleting, Moving, Updating

\* The table after a commit: one row replaced.
LEMMA CommittedRow ==
  ASSUME RInv, NEW r \in Requests, Commit(r)
  PROVE  /\ call[r].id \in Tasks /\ task'[call[r].id] = call[r].after
         /\ \A t \in Tasks \ {call[r].id} : task'[t] = task[t]
  BY AtCommit DEF Commit, WellFormed, RInv, TypeOK

\* A request that changes no edge of the row keeps the edges of the row it read.
LEMMA KeptEdges ==
  ASSUME RInv, NEW r \in Requests, Commit(r), call[r].after.live, ~EdgesChanged(call[r]),
         NEW p \in call[r].after.deps
  PROVE  /\ call[r].before.live /\ p \in call[r].before.deps
         /\ call[r].after.card = call[r].before.card
  <1>1. p \in call[r].before.deps
    BY DEF EdgesChanged
  <1>2. call[r].before.live
    BY <1>1, AtCommit DEF WellFormed, Unborn
  <1>3. ~MovesWithEdges(r)
    BY DEF Commit, ReadyToCommit, Refused
  <1> QED BY <1>1, <1>2, <1>3 DEF MovesWithEdges, Moving, Updating

\* A committed edge leads to a Task of the same Card.
LEMMA CommitKeepsEdgesOnCard ==
  ASSUME RInv, NEW r \in Requests, Commit(r)
  PROVE  EdgesStayOnCard'
  <1> DEFINE q == call[r]
  <1>1. /\ WellFormed(q) /\ q.before \in TaskRec /\ q.after \in TaskRec
        /\ task[q.id] = q.before /\ q.id \in Tasks
    BY AtCommit DEF WellFormed
  <1>2. task'[q.id] = q.after /\ \A t \in Tasks \ {q.id} : task'[t] = task[t]
    BY CommittedRow
  <1> SUFFICES ASSUME NEW t \in Tasks, task'[t].live, NEW p \in task'[t].deps
               PROVE  task'[t].card # NoCard /\ task'[p].live /\ task'[p].card = task'[t].card
    BY DEF EdgesStayOnCard
  <1>3. p \in Tasks
    <2>1. task'[t] \in TaskRec
      BY <1>1, <1>2 DEF RInv, TypeOK
    <2> QED BY <2>1 DEF TaskRec
  <1>4. EdgesStayOnCard
    BY DEF RInv
  <1>5. CASE t # q.id
    <2>1. task[t].card # NoCard /\ task[p].live /\ task[p].card = task[t].card
      BY <1>2, <1>4, <1>5 DEF EdgesStayOnCard
    <2>2. CASE p = q.id
      BY <1>1, <1>2, <1>5, <2>1, <2>2, DependentsAreSeen
    <2>3. CASE p # q.id
      BY <1>2, <1>3, <1>5, <2>1, <2>3
    <2> QED BY <2>2, <2>3
  <1>6. CASE t = q.id
    <2>1. p \in q.after.deps /\ q.after.live /\ p # q.id /\ q.after.card # NoCard
      BY <1>1, <1>2, <1>6 DEF WellFormed, Malformed
    <2>2. CASE EdgesChanged(q)
      <3>1. walk[r][p].live /\ walk[r][p].card = q.after.card
        BY <2>1, <2>2 DEF Commit, ReadyToCommit, Refused, BadEdges
      <3>2. IsRead(walk[r][p])
        <4>1. walk[r][p] \in TaskRec \cup {NotRead}
          BY <1>3 DEF RInv, TypeOK
        <4> QED BY <3>1, <4>1, ReadRows DEF NotRead, Unborn
      <3>3. q.after.card \in Touched(q) \cap CardsToPin(q)
        BY <2>1, <2>2 DEF Touched, CardsToPin, OnCards
      <3>4. SameInGraph(walk[r][p], task[p], q.after.card)
        BY <1>3, <3>2, <3>3, AtCommit
      <3>5. task[p].live /\ task[p].card = q.after.card
        BY <3>1, <3>4 DEF SameInGraph
      <3> QED BY <1>2, <1>3, <1>6, <2>1, <3>5
    <2>3. CASE ~EdgesChanged(q)
      <3>1. q.before.live /\ p \in q.before.deps /\ q.after.card = q.before.card
        BY <2>1, <2>3, KeptEdges
      <3>2. task[p].live /\ task[p].card = q.before.card
        BY <1>1, <1>4, <3>1 DEF EdgesStayOnCard
      <3> QED BY <1>2, <1>3, <1>6, <2>1, <3>1, <3>2
    <2> QED BY <2>2, <2>3
  <1> QED BY <1>5, <1>6

\* Neither completing a Task nor reopening another leaves a completed Task
\* over an unfinished one.
LEMMA CommitKeepsCompletedWork ==
  ASSUME RInv, CompletedWorkStands, NEW r \in Requests, Commit(r)
  PROVE  CompletedWorkStands'
  <1> DEFINE q == call[r]
  <1>1. /\ WellFormed(q) /\ q.before \in TaskRec /\ q.after \in TaskRec
        /\ task[q.id] = q.before /\ q.id \in Tasks
    BY AtCommit DEF WellFormed
  <1>2. task'[q.id] = q.after /\ \A t \in Tasks \ {q.id} : task'[t] = task[t]
    BY CommittedRow
  <1> SUFFICES ASSUME NEW t \in Tasks, task'[t].live, task'[t].status = "done",
                      NEW p \in task'[t].deps
               PROVE  task'[p].live /\ IsResolved(task'[p].status)
    BY DEF CompletedWorkStands
  <1>3. p \in Tasks
    <2>1. task'[t] \in TaskRec
      BY <1>1, <1>2 DEF RInv, TypeOK
    <2> QED BY <2>1 DEF TaskRec
  <1>4. CompletedWorkStands
    OBVIOUS
  <1>5. CASE t # q.id
    <2>1. task[p].live /\ IsResolved(task[p].status)
      BY <1>2, <1>4, <1>5 DEF CompletedWorkStands
    <2>2. CASE p = q.id
      <3>1. q.before.live /\ q.after.live /\ ~Reopening(q)
        BY <1>1, <1>2, <1>5, <2>2, DependentsAreSeen
      <3>2. ~IsOpen(q.after.status)
        BY <1>1, <2>1, <2>2, <3>1 DEF Reopening, Updating
      <3> QED BY <1>1, <1>2, <2>2, <3>1, <3>2 DEF TaskRec, Statuses, IsOpen, IsResolved
    <2>3. CASE p # q.id
      BY <1>2, <1>3, <1>5, <2>1, <2>3
    <2> QED BY <2>2, <2>3
  <1>6. CASE t = q.id
    <2>1. p \in q.after.deps /\ q.after.live /\ p # q.id /\ q.after.status = "done"
      BY <1>1, <1>2, <1>6 DEF WellFormed, Malformed
    <2>2. CASE EnteringDone(q)
      <3>1. task[p].live /\ IsResolved(task[p].status)
        BY <2>1, <2>2 DEF Commit, ConditionsHold, GuardsHold
      <3> QED BY <1>2, <1>3, <2>1, <3>1
    <2>3. CASE ~EnteringDone(q)
      <3>1. q.before.status = "done" /\ ~EdgesChanged(q)
        BY <1>1, <2>1, <2>3 DEF EnteringDone, WellFormed, Malformed
      <3>2. q.before.live /\ p \in q.before.deps
        BY <2>1, <3>1, KeptEdges
      <3>3. task[p].live /\ IsResolved(task[p].status)
        BY <1>1, <1>4, <3>1, <3>2 DEF CompletedWorkStands
      <3> QED BY <1>2, <1>3, <2>1, <3>3
    <2> QED BY <2>2, <2>3
  <1> QED BY <1>5, <1>6

\* A new edge closes no cycle: the members of a cycle through the Task that are
\* on its Card would all have been walked, as they are stored where the graph
\* looks, and the walk did not meet the Task.
LEMMA CommitKeepsAcyclic ==
  ASSUME RInv, GraphAcyclic, NEW r \in Requests, Commit(r)
  PROVE  GraphAcyclic'
  <1> DEFINE q == call[r]
  <1>1. /\ WellFormed(q) /\ q.before \in TaskRec /\ q.after \in TaskRec
        /\ task[q.id] = q.before /\ q.id \in Tasks
    BY AtCommit DEF WellFormed
  <1>2. task'[q.id] = q.after /\ \A t \in Tasks \ {q.id} : task'[t] = task[t]
    BY CommittedRow
  <1> SUFFICES ASSUME NEW S \in SUBSET Tasks, S # {}, \A t \in S : Edges'[t] \cap S # {}
               PROVE  FALSE
    BY DEF GraphAcyclic, Acyclic
  <1>3. ~ \E R \in SUBSET Tasks : R # {} /\ \A t \in R : Edges[t] \cap R # {}
    BY DEF GraphAcyclic, Acyclic
  <1>4. \A t \in Tasks \ {q.id} : Edges'[t] = Edges[t]
    BY <1>2 DEF Edges
  <1>5. q.id \in S
    BY <1>3, <1>4
  <1>6. q.after.live /\ q.after.deps \cap S # {}
    BY <1>1, <1>2, <1>5 DEF Edges
  <1>7. EdgesChanged(q)
    <2>1. ASSUME ~EdgesChanged(q) PROVE Edges'[q.id] = Edges[q.id]
      <3>1. q.before.live
        BY <1>6, <2>1, KeptEdges
      <3> QED BY <1>1, <1>2, <1>6, <2>1, <3>1 DEF Edges, EdgesChanged
    <2> QED BY <1>3, <1>4, <2>1
  <1> DEFINE c == q.after.card
             R == {v \in S \cap Walked(r) : task[v].live /\ task[v].card = c}
  <1>8. /\ pc[r] = "working" /\ q.id \notin Reached(r) /\ q.id \notin Walked(r)
        /\ \A t \in Reached(r) : t \in Walked(r)
        /\ \A p \in q.after.deps : walk[r][p].live /\ walk[r][p].card = c
    <2>1. /\ q.id \notin Reached(r) /\ Frontier(r) = {} /\ pc[r] = "working"
          /\ \A p \in q.after.deps : walk[r][p].live /\ walk[r][p].card = c
      BY <1>7 DEF Commit, ReadyToCommit, AllRead, Refused, BadEdges
    <2>2. Frontier(r) = (Reached(r) \ Walked(r)) \ {q.id}
      BY <1>7 DEF Frontier
    <2>3. q.id \notin Walked(r)
      BY <2>1 DEF Walked, RInv, PinsComeFirst
    <2> QED BY <2>1, <2>2, <2>3
  <1>9. ASSUME NEW v \in Walked(r) PROVE v \in Tasks /\ SameInGraph(walk[r][v], task[v], c)
    <2>1. v \in Tasks /\ IsRead(walk[r][v])
      BY DEF Walked
    <2>2. c # NoCard
      BY <1>1, <1>6 DEF WellFormed, Malformed
    <2>3. c \in Touched(q) \cap CardsToPin(q)
      BY <1>6, <1>7, <2>2 DEF Touched, CardsToPin, OnCards
    <2> QED BY <2>1, <2>3, AtCommit
  <1>10. R # {}
    <2>1. PICK p \in q.after.deps : p \in S
      BY <1>6
    <2>2. p \in Walked(r)
      BY <1>8 DEF Reached
    <2>3. task[p].live /\ task[p].card = c
      BY <1>8, <1>9, <2>2 DEF SameInGraph
    <2> QED BY <2>1, <2>2, <2>3
  <1>11. ASSUME NEW v \in R PROVE Edges[v] \cap R # {}
    <2>1. v \in Tasks /\ v \in S /\ v # q.id /\ Edges[v] \cap S # {}
      BY <1>4, <1>8 DEF Walked
    <2>2. walk[r][v].live /\ walk[r][v].deps = task[v].deps
      BY <1>9 DEF SameInGraph
    <2>3. PICK w \in S : w \in task[v].deps /\ w \in Edges[v]
      BY <2>1 DEF Edges
    <2>4. w \in Reached(r)
      BY <2>2, <2>3 DEF Reached
    <2>5. task[w].live /\ task[w].card = c
      BY <2>1, <2>3 DEF RInv, EdgesStayOnCard
    <2> QED BY <1>8, <2>3, <2>4, <2>5
  <1>12. R \in SUBSET Tasks
    BY DEF Walked
  <1> QED BY <1>3, <1>10, <1>11, <1>12

\* The Card rows a commit writes are the next versions of the rows it read.
LEMMA CommittedCards ==
  ASSUME RInv, NEW r \in Requests, Commit(r), NEW c \in Cards
  PROVE  /\ card'[c] \in CardRec
         /\ c \in Touched(call[r]) => card'[c].version = card[c].version + 1
         /\ c \notin Touched(call[r]) => card'[c] = card[c]
  <1>1. card'[c] = IF c \in Touched(call[r]) THEN Written(r, c) ELSE card[c]
    BY DEF Commit
  <1>2. card[c] \in CardRec /\ base[r][c] \in CardRec
    BY DEF RInv, TypeOK
  <1>3. CASE c \in Touched(call[r])
    <2>1. Delta(call[r], c) \in [tasks : Int, open : Int]
      BY DEF Delta, Weight
    <2>2. StageHint(call[r]) \in ActiveStages \cup {NoStage}
      BY AtCommit, TaskCardsAssumption DEF StageHint, WellFormed
    <2>3. Written(r, c) \in CardRec /\ Written(r, c).version = base[r][c].version + 1
      BY <1>2, <2>1, <2>2, AppliedCard DEF Written
    <2>4. card[c].version = base[r][c].version
      BY <1>3 DEF Commit, ConditionsHold
    <2> QED BY <1>1, <1>3, <2>3, <2>4
  <1> QED BY <1>1, <1>2, <1>3

LEMMA CommitKeepsRInv ==
  ASSUME RInv, NEW r \in Requests, Commit(r)
  PROVE  RInv'
  <1> DEFINE q == call[r]
  <1>1. /\ WellFormed(q) /\ q.before \in TaskRec /\ q.after \in TaskRec
        /\ task[q.id] = q.before /\ q.id \in Tasks
        /\ q.after.version = q.before.version + 1
    BY AtCommit DEF WellFormed
  <1>2. task'[q.id] = q.after /\ \A t \in Tasks \ {q.id} : task'[t] = task[t]
    BY CommittedRow
  <1>3. Answer(r) /\ task' = [task EXCEPT ![q.id] = q.after]
    BY DEF Commit
  <1>4. card' \in [Cards -> CardRec]
    BY CommittedCards DEF Commit
  <1>5. \A c \in Cards : card[c] \in CardRec /\ card[c].version \in Nat /\ card[c].version >= 1
    BY DEF RInv, TypeOK, CardRec, Numbered
  <1>6. TypeOK'
    <2>1. task' \in [Tasks -> TaskRec]
      BY <1>1, <1>3 DEF RInv, TypeOK
    <2> QED BY <1>3, <1>4, <2>1, LiteralRows DEF RInv, TypeOK, Answer
  <1>7. Numbered'
    <2>1. \A t \in Tasks : task'[t].version = 0 => task'[t] = Unborn
      BY <1>1, <1>2 DEF RInv, Numbered, TaskRec
    <2>2. \A c \in Cards : card'[c].version >= 1
      BY <1>5, CommittedCards
    <2> QED BY <2>1, <2>2 DEF Numbered
  <1>8. CallsWellFormed'
    BY <1>3 DEF RInv, TypeOK, CallsWellFormed, WellFormed, Answer
  <1>9. ASSUME NEW s \in Requests, pc'[s] = "working"
        PROVE  /\ s # r /\ pc[s] = "working" /\ call'[s] = call[s] /\ pins'[s] = pins[s]
               /\ walk'[s] = walk[s] /\ scan'[s] = scan[s] /\ base'[s] = base[s]
    BY <1>3, <1>9 DEF RInv, TypeOK, Answer
  <1>10. ReadsArePast'
    <2>1. ASSUME NEW t \in Tasks, NEW row \in TaskRec, Past(row, task[t]) PROVE Past(row, task'[t])
      <3>1. CASE t = q.id
        BY <1>1, <1>2, <2>1, <3>1 DEF Past, TaskRec
      <3>2. CASE t # q.id
        BY <1>2, <2>1, <3>2
      <3> QED BY <3>1, <3>2
    <2>2. ASSUME NEW c \in Cards, NEW row \in CardRec, Past(row, card[c]) PROVE Past(row, card'[c])
      BY <1>5, <2>2, CommittedCards DEF Past, CardRec
    <2>3. ASSUME NEW c \in Cards, NEW n \in Nat, n <= card[c].version PROVE n <= card'[c].version
      BY <1>5, <2>3, CommittedCards
    <2> SUFFICES ASSUME NEW s \in Requests, pc'[s] = "working"
                 PROVE  /\ Past(call[s].before, task'[call[s].id])
                        /\ \A t \in Tasks : /\ IsRead(walk[s][t]) => Past(walk[s][t], task'[t])
                                            /\ IsRead(scan[s][t]) => Past(scan[s][t], task'[t])
                        /\ \A c \in Cards : /\ pins[s][c] <= card'[c].version
                                            /\ Past(base[s][c], card'[c])
      BY <1>9 DEF ReadsArePast
    <2>4. pc[s] = "working" /\ s # r
      BY <1>9
    <2>5. call[s].id \in Tasks /\ call[s].before \in TaskRec
      BY <2>4 DEF RInv, TypeOK, CallsWellFormed, WellFormed
    <2>6. Past(call[s].before, task'[call[s].id])
      BY <2>1, <2>4, <2>5 DEF RInv, ReadsArePast
    <2>7. ASSUME NEW t \in Tasks
          PROVE  /\ IsRead(walk[s][t]) => Past(walk[s][t], task'[t])
                 /\ IsRead(scan[s][t]) => Past(scan[s][t], task'[t])
      <3>1. walk[s][t] \in TaskRec \cup {NotRead} /\ scan[s][t] \in TaskRec \cup {NotRead}
        BY DEF RInv, TypeOK
      <3>2. /\ IsRead(walk[s][t]) => walk[s][t] \in TaskRec
            /\ IsRead(scan[s][t]) => scan[s][t] \in TaskRec
        BY <3>1, ReadRows
      <3> QED BY <2>1, <2>4, <3>2 DEF RInv, ReadsArePast
    <2>8. ASSUME NEW c \in Cards
          PROVE  pins[s][c] <= card'[c].version /\ Past(base[s][c], card'[c])
      <3>1. pins[s][c] \in Nat /\ base[s][c] \in CardRec
        BY DEF RInv, TypeOK
      <3> QED BY <2>2, <2>3, <2>4, <3>1 DEF RInv, ReadsArePast
    <2> QED BY <2>6, <2>7, <2>8
  <1>11. PinsComeFirst'
    <2> SUFFICES ASSUME NEW s \in Requests, pc'[s] = "working"
                 PROVE  /\ \A t \in Tasks : IsRead(walk[s][t]) \/ IsRead(scan[s][t]) => AllPinned(s)
                        /\ \A c \in Cards : base[s][c].version # 0 =>
                             AllPinned(s) /\ (pins[s][c] # 0 => base[s][c].version = pins[s][c])
                        /\ ~IsRead(walk[s][call[s].id])
      BY <1>9 DEF PinsComeFirst, AllPinned
    <2> QED BY <1>9 DEF RInv, PinsComeFirst
  <1>12. IdleHoldsNothing'
    BY <1>3, LiteralRows DEF RInv, TypeOK, IdleHoldsNothing, Answer
  <1>13. PinnedGraphIsCurrent'
    <2>1. ASSUME NEW s \in Requests, NEW c \in Cards, NEW t \in Tasks, NEW row,
                 pc'[s] = "working", pins'[s][c] = card'[c].version,
                 SameInGraph(row, task[t], c)
          PROVE  SameInGraph(row, task'[t], c)
      <3>1. pins[s][c] \in Nat /\ pins[s][c] <= card[c].version /\ pins[s][c] = card'[c].version
        BY <1>9, <2>1 DEF RInv, TypeOK, ReadsArePast
      <3>2. c \notin Touched(q)
        BY <1>5, <3>1, CommittedCards
      <3>3. CASE t = q.id
        <4>1. SameInGraph(q.before, q.after, c)
          BY <1>1, <3>2, UntouchedIsSame
        <4> QED BY <1>1, <1>2, <2>1, <3>3, <4>1 DEF SameInGraph
      <3>4. CASE t # q.id
        BY <1>2, <2>1, <3>4
      <3> QED BY <3>3, <3>4
    <2>2. ASSUME NEW s \in Requests, NEW c \in Cards,
                 pc'[s] = "working", pins'[s][c] = card'[c].version
          PROVE  pc[s] = "working" /\ pins[s][c] = card[c].version
      <3>1. pins[s][c] \in Nat /\ pins[s][c] <= card[c].version /\ pins[s][c] = card'[c].version
        BY <1>9, <2>2 DEF RInv, TypeOK, ReadsArePast
      <3> QED BY <1>5, <1>9, <2>2, <3>1, CommittedCards
    <2> QED BY <1>9, <2>1, <2>2 DEF RInv, PinnedGraphIsCurrent
  <1> QED BY <1>6, <1>7, <1>8, <1>10, <1>11, <1>12, <1>13, CommitKeepsEdgesOnCard DEF RInv

-----------------------------------------------------------------------------
\* The invariant holds at the start and every step keeps it.

LEMMA InitIInv == Init => IInv
  <1> SUFFICES ASSUME Init PROVE IInv
    OBVIOUS
  <1>0. ASSUME NEW t \in Tasks
        PROVE  task[t] = Unborn \/ \E c \in Cards, d \in SUBSET Tasks : task[t] = FromTemplate(c, d)
    <2>1. task[t] \in {Unborn} \cup {FromTemplate(c, d) : c \in Cards, d \in SUBSET Tasks}
      BY DEF Init
    <2> QED BY <2>1
  <1>t. ASSUME NEW t \in Tasks, task[t] # Unborn
         PROVE  task[t].card \in Cards /\ task[t].status = "todo" /\ task[t].version = 1
    <2>1. PICK c \in Cards, d \in SUBSET Tasks : task[t] = FromTemplate(c, d)
      BY <1>0, <1>t
    <2> QED BY <2>1 DEF FromTemplate
  <1>1. task \in [Tasks -> TaskRec]
    <2>1. \A c \in Cards, d \in SUBSET Tasks : FromTemplate(c, d) \in TaskRec
      BY DEF FromTemplate, TaskRec, Statuses
    <2>2. \A t \in Tasks : task[t] \in TaskRec
      BY <1>0, <2>1, LiteralRows
    <2>3. task = [t \in Tasks |-> task[t]]
      BY DEF Init
    <2> QED BY <2>2, <2>3
  <1>2. ASSUME NEW c \in Cards PROVE card[c] \in CardRec /\ card[c].version = 1
    <2>1. IsFiniteSet(TasksOf(c))
      BY TaskCardsAssumption, FS_Subset DEF TasksOf
    <2>2. Cardinality(TasksOf(c)) \in Nat
      BY <2>1, FS_CardinalityType
    <2>3. card[c] = CardWith(Cardinality(TasksOf(c)))
      BY DEF Init
    <2> QED BY <2>2, <2>3, LiteralRows
  <1>3. card \in [Cards -> CardRec]
    BY <1>2 DEF Init
  <1>4. TypeOK
    BY <1>1, <1>3, LiteralRows DEF Init, TypeOK
  <1>5. Numbered
    <2>1. \A t \in Tasks : task[t].version = 0 => task[t] = Unborn
      BY <1>t
    <2> QED BY <1>2, <2>1 DEF Numbered
  <1>6. /\ CallsWellFormed /\ ReadsArePast /\ PinsComeFirst /\ PinnedGraphIsCurrent
        /\ IdleHoldsNothing
    BY LiteralRows DEF Init, CallsWellFormed, ReadsArePast, PinsComeFirst, PinnedGraphIsCurrent,
                       IdleHoldsNothing
  <1>7. EdgesStayOnCard
    <2> SUFFICES ASSUME NEW t \in Tasks, task[t].live, NEW p \in task[t].deps
                 PROVE  task[t].card # NoCard /\ task[p].live /\ task[p].card = task[t].card
      BY DEF EdgesStayOnCard
    <2>1. task[t].card \in Cards
      <3>1. task[t] # Unborn
        BY DEF Unborn
      <3> QED BY <1>t, <3>1
    <2>2. task[p].live /\ task[p].card = task[t].card
      BY <1>1 DEF Init, TaskRec
    <2> QED BY <2>1, <2>2, TaskCardsAssumption
  <1>8. CompletedWorkStands
    BY <1>t DEF CompletedWorkStands, Unborn
  <1>9. GraphAcyclic
    BY DEF Init, GraphAcyclic
  <1> QED BY <1>4, <1>5, <1>6, <1>7, <1>8, <1>9 DEF RInv, IInv

LEMMA NextRInv == RInv /\ [Next]_vars => RInv'
  <1> SUFFICES ASSUME RInv, [Next]_vars PROVE RInv'
    OBVIOUS
  <1>1. ASSUME NEW r \in Requests, Call(r) PROVE RInv'
    BY <1>1, CallKeepsRInv, CardCallKeepsRInv DEF Call
  <1>2. ASSUME NEW r \in Requests, Handle(r) PROVE RInv'
    <2>1. ASSUME NEW c \in Cards, PinCard(r, c) \/ LoadCard(r, c) \/ LoadFails(r, c) PROVE RInv'
      BY <2>1, PinCardKeepsRInv, LoadCardKeepsRInv, AnswerKeepsRInv DEF LoadFails
    <2>2. ASSUME NEW t \in Tasks, ReadPrerequisite(r, t) \/ ScanRow(r, t) PROVE RInv'
      BY <2>2, ReadPrerequisiteKeepsRInv, ScanRowKeepsRInv
    <2>3. CASE Refuse(r) \/ Conflict(r)
      BY <2>3, AnswerKeepsRInv DEF Refuse, Conflict
    <2>4. CASE Commit(r)
      BY <2>4, CommitKeepsRInv
    <2> QED BY <1>2, <2>1, <2>2, <2>3, <2>4 DEF Handle
  <1>3. CASE UNCHANGED vars
    <2>1. BoardInv'
      BY <1>3, BoardUnchanged DEF RInv, BoardInv, vars
    <2>2. UNCHANGED <<task, card, pc, call, pins, walk, scan, base>>
      BY <1>3 DEF vars, local
    <2> QED BY <2>1, <2>2 DEF RInv, BoardInv, TypeOK, CallsWellFormed, ReadsArePast, PinsComeFirst,
               AllPinned, IdleHoldsNothing, PinnedGraphIsCurrent, WellFormed
  <1> QED BY <1>1, <1>2, <1>3 DEF Next, Quiet

\* The two rules of the board the other invariants do without: only a commit
\* moves the tables, and each commit keeps each rule that held before it.
LEMMA TablesMoveAtCommit ==
  ASSUME [Next]_vars
  PROVE  UNCHANGED task \/ \E r \in Requests : Commit(r)
  <1>1. ASSUME NEW r \in Requests, Call(r) PROVE UNCHANGED task
    BY <1>1 DEF Call, CreateTask, UpdateTask, DeleteTask, Begin, UpdateCard, ParkCard, ResumeCard,
                UpdateCardStage, WriteCard
  <1>2. ASSUME NEW r \in Requests, Handle(r) PROVE UNCHANGED task \/ Commit(r)
    BY <1>2 DEF Handle, PinCard, LoadCard, LoadFails, ReadPrerequisite, ScanRow, Refuse, Conflict
  <1>3. CASE UNCHANGED vars
    BY <1>3 DEF vars
  <1> QED BY <1>1, <1>2, <1>3 DEF Next, Quiet

LEMMA NextCompletedWork == RInv /\ CompletedWorkStands /\ [Next]_vars => CompletedWorkStands'
  <1>1. ASSUME CompletedWorkStands, UNCHANGED task PROVE CompletedWorkStands'
    BY <1>1 DEF CompletedWorkStands
  <1> QED BY <1>1, TablesMoveAtCommit, CommitKeepsCompletedWork

LEMMA NextAcyclic == RInv /\ GraphAcyclic /\ [Next]_vars => GraphAcyclic'
  <1>1. ASSUME GraphAcyclic, UNCHANGED task PROVE GraphAcyclic'
    BY <1>1 DEF GraphAcyclic, Edges, Acyclic
  <1> QED BY <1>1, TablesMoveAtCommit, CommitKeepsAcyclic

LEMMA NextIInv == IInv /\ [Next]_vars => IInv'
  BY NextRInv, NextCompletedWork, NextAcyclic DEF IInv

LEMMA Invariant == Spec => []IInv
  BY InitIInv, NextIInv, PTL DEF Spec

-----------------------------------------------------------------------------
\* What follows from the invariant, for any number of Tasks, Cards and Requests.

\* Every variable keeps its type.
THEOREM TypeCorrect == Spec => []TypeOK
  <1>1. IInv => TypeOK
    BY DEF IInv, RInv
  <1> QED BY <1>1, Invariant, PTL

\* A completed Task never has an unfinished prerequisite, however the requests
\* that complete, reopen, delete, move and re-link Tasks interleave.
THEOREM CompletedWorkIsSafe == Spec => []CompletedWorkStands
  <1>1. IInv => CompletedWorkStands
    BY DEF IInv
  <1> QED BY <1>1, Invariant, PTL

\* No prerequisite is ever missing or on another Card.
THEOREM EdgesAreSafe == Spec => []EdgesStayOnCard
  <1>1. IInv => EdgesStayOnCard
    BY DEF IInv, RInv
  <1> QED BY <1>1, Invariant, PTL

\* Concurrent edge edits never close a cycle.
THEOREM GraphIsSafe == Spec => []GraphAcyclic
  <1>1. IInv => GraphAcyclic
    BY DEF IInv
  <1> QED BY <1>1, Invariant, PTL

\* While a pinned Card version is current, so is everything read of its graph.
THEOREM PinsAreRevisions == Spec => []PinnedGraphIsCurrent
  <1>1. IInv => PinnedGraphIsCurrent
    BY DEF IInv, RInv
  <1> QED BY <1>1, Invariant, PTL

-----------------------------------------------------------------------------
\* The counters.

\* Two finite sets that agree but for x differ in size by what x contributes.
LEMMA SizeButFor ==
  ASSUME NEW S, NEW T, NEW x, IsFiniteSet(S), S \ {x} = T \ {x}
  PROVE  /\ Cardinality(S) \in Nat
         /\ Cardinality(T) = Cardinality(S) + (IF x \in T THEN 1 ELSE 0)
                                            - (IF x \in S THEN 1 ELSE 0)
  <1> DEFINE R == S \ {x}
  <1>1. IsFiniteSet(R) /\ Cardinality(R) \in Nat /\ Cardinality(S) \in Nat
    BY FS_Subset, FS_CardinalityType
  <1>2. Cardinality(S) = Cardinality(R) + (IF x \in S THEN 1 ELSE 0)
    <2>1. CASE x \in S
      <3>1. S = R \cup {x} /\ x \notin R
        BY <2>1
      <3> HIDE DEF R
      <3> QED BY <1>1, <2>1, <3>1, FS_AddElement
    <2>2. CASE x \notin S
      <3>1. S = R
        BY <2>2
      <3> HIDE DEF R
      <3> QED BY <1>1, <2>2, <3>1
    <2> QED BY <2>1, <2>2
  <1>3. Cardinality(T) = Cardinality(R) + (IF x \in T THEN 1 ELSE 0)
    <2>1. CASE x \in T
      <3>1. T = R \cup {x} /\ x \notin R
        BY <2>1
      <3> HIDE DEF R
      <3> QED BY <1>1, <2>1, <3>1, FS_AddElement
    <2>2. CASE x \notin T
      <3>1. T = R
        BY <2>2
      <3> HIDE DEF R
      <3> QED BY <1>1, <2>2, <3>1
    <2> QED BY <2>1, <2>2
  <1> HIDE DEF R
  <1> QED BY <1>1, <1>2, <1>3

\* A commit moves a Card's counters by the Task's change of weight.
LEMMA CommitMovesCounters ==
  ASSUME RInv, NEW r \in Requests, Commit(r), NEW c \in Cards
  PROVE  /\ card'[c].taskCount = card[c].taskCount + Delta(call[r], c).tasks
         /\ card'[c].openTaskCount = card[c].openTaskCount + Delta(call[r], c).open
  <1> DEFINE q == call[r]
  <1>1. card[c] \in CardRec /\ q.before \in TaskRec /\ q.after \in TaskRec
    BY AtCommit DEF RInv, TypeOK
  <1>2. CASE c \in Touched(q)
    <2>1. base[r][c] = card[c]
      BY <1>2 DEF Commit, ReadyToCommit, ConditionsHold, RInv, ReadsArePast, Past
    <2>2. card'[c] = ApplyAggregateDelta(card[c], Delta(q, c), StageHint(q))
      BY <1>2, <2>1 DEF Commit, Written
    <2> QED BY <2>2 DEF ApplyAggregateDelta
  <1>3. CASE c \notin Touched(q)
    <2>1. card'[c] = card[c]
      BY <1>3, CommittedCards
    <2>2. Delta(q, c).tasks = 0 /\ Delta(q, c).open = 0
      <3>1. CASE c \in OnCards(q)
        BY <1>3, <3>1 DEF Touched
      <3>2. CASE c \notin OnCards(q)
        BY <3>2, TaskCardsAssumption DEF OnCards, Delta, Weight
      <3> QED BY <3>1, <3>2
    <2> QED BY <1>1, <2>1, <2>2 DEF CardRec
  <1> QED BY <1>2, <1>3

LEMMA InitCounters == Init => CountersTrue
  <1> SUFFICES ASSUME Init, NEW c \in Cards
               PROVE  /\ card[c].taskCount = Cardinality(TasksOf(c))
                      /\ card[c].openTaskCount = Cardinality(OpenTasksOf(c))
    BY DEF CountersTrue
  <1>1. card[c] = CardWith(Cardinality(TasksOf(c)))
    BY DEF Init
  <1>2. OpenTasksOf(c) = TasksOf(c)
    <2>1. \A t \in TasksOf(c) : task[t].status = "todo"
      BY DEF Init, TasksOf, FromTemplate, Unborn
    <2> QED BY <2>1 DEF OpenTasksOf, IsOpen
  <1> QED BY <1>1, <1>2 DEF CardWith

LEMMA NextCounters == RInv /\ CountersTrue /\ [Next]_vars => CountersTrue'
  <1> SUFFICES ASSUME RInv, CountersTrue, [Next]_vars PROVE CountersTrue'
    OBVIOUS
  <1>1. ASSUME NEW r \in Requests, Commit(r) PROVE CountersTrue'
    <2> DEFINE q == call[r]
    <2> SUFFICES ASSUME NEW c \in Cards
                 PROVE  /\ card'[c].taskCount = Cardinality(TasksOf(c)')
                        /\ card'[c].openTaskCount = Cardinality(OpenTasksOf(c)')
      BY DEF CountersTrue
    <2>1. /\ q.id \in Tasks /\ task[q.id] = q.before /\ task'[q.id] = q.after
          /\ \A t \in Tasks \ {q.id} : task'[t] = task[t]
      BY <1>1, AtCommit, CommittedRow
    <2>2. IsFiniteSet(TasksOf(c)) /\ IsFiniteSet(OpenTasksOf(c))
      BY TaskCardsAssumption, FS_Subset DEF TasksOf, OpenTasksOf
    <2>3. /\ TasksOf(c) \ {q.id} = TasksOf(c)' \ {q.id}
          /\ OpenTasksOf(c) \ {q.id} = OpenTasksOf(c)' \ {q.id}
      BY <2>1 DEF TasksOf, OpenTasksOf
    <2>4. /\ (q.id \in TasksOf(c)) = (q.before.live /\ q.before.card = c)
          /\ (q.id \in TasksOf(c)') = (q.after.live /\ q.after.card = c)
          /\ (q.id \in OpenTasksOf(c)) = (q.before.live /\ q.before.card = c /\ IsOpen(q.before.status))
          /\ (q.id \in OpenTasksOf(c)') = (q.after.live /\ q.after.card = c /\ IsOpen(q.after.status))
      BY <2>1 DEF TasksOf, OpenTasksOf
    <2>5. /\ Cardinality(TasksOf(c)) \in Nat /\ Cardinality(OpenTasksOf(c)) \in Nat
          /\ Cardinality(TasksOf(c)') = Cardinality(TasksOf(c)) + Delta(q, c).tasks
          /\ Cardinality(OpenTasksOf(c)') = Cardinality(OpenTasksOf(c)) + Delta(q, c).open
      BY <2>2, <2>3, <2>4, SizeButFor DEF Delta, Weight
    <2> QED BY <1>1, <2>5, CommitMovesCounters DEF CountersTrue
  <1>2. ASSUME UNCHANGED <<task, card>> PROVE CountersTrue'
    BY <1>2 DEF CountersTrue, TasksOf, OpenTasksOf
  <1>3. ASSUME NEW r \in Requests, NEW c \in Cards,
               UpdateCard(r, c) \/ ParkCard(r, c) \/ ResumeCard(r, c)
                 \/ \E st \in ActiveStages : UpdateCardStage(r, c, st)
        PROVE  CountersTrue'
    <2> DEFINE Kept == /\ UNCHANGED task /\ \A d \in Cards \ {c} : card'[d] = card[d]
                       /\ card'[c].taskCount = card[c].taskCount
                       /\ card'[c].openTaskCount = card[c].openTaskCount
    <2>1. Kept
      <3>1. TypeOK /\ DOMAIN card = Cards
        BY DEF RInv, TypeOK
      <3>2. PICK row \in CardRec : /\ row.taskCount = card[c].taskCount
                                   /\ row.openTaskCount = card[c].openTaskCount
                                   /\ \E kind \in CardCalls : WriteCard(kind, r, c, row)
        BY <1>3, <3>1, CardCallWrites
      <3> QED BY <3>1, <3>2 DEF WriteCard, CardRec
    <2> QED BY <2>1 DEF CountersTrue, TasksOf, OpenTasksOf
  <1>4. ASSUME NEW r \in Requests, Call(r) PROVE CountersTrue'
    BY <1>2, <1>3, <1>4 DEF Call, CreateTask, UpdateTask, DeleteTask, Begin
  <1>5. ASSUME NEW r \in Requests, Handle(r) PROVE CountersTrue'
    BY <1>1, <1>2, <1>5 DEF Handle, PinCard, LoadCard, LoadFails, ReadPrerequisite, ScanRow,
                            Refuse, Conflict
  <1> QED BY <1>2, <1>4, <1>5 DEF Next, Quiet, vars

\* The counters of every Card are true: no transaction that recomputes them
\* from a row it read earlier loses or repeats another's change.
THEOREM CountersAreTrue == Spec => []CountersTrue
  <1>1. IInv => RInv
    BY DEF IInv
  <1> QED BY <1>1, InitCounters, NextCounters, Invariant, PTL DEF Spec

-----------------------------------------------------------------------------
\* The shape of the Cards.

\* A Card that the next read accepts, and that may be resumed if it is parked.
Readable(c) == /\ CanonicalCard(c)
               /\ c.status = "parked" => c.taskCount = 0 \/ c.openTaskCount > 0

\* A Card was only loaded if its counters take the delta.
BasesFit ==
  \A r \in Requests, c \in Cards : pc[r] = "working" /\ base[r][c].version # 0 =>
    ValidDelta(base[r][c], Delta(call[r], c))

\* Recomputing a readable Card by a delta it can take gives a readable Card:
\* it completes, comes back, moves on or stays.
LEMMA AppliedReads ==
  ASSUME NEW c \in CardRec, Readable(c), NEW delta \in [tasks : Int, open : Int],
         NEW hint \in ActiveStages \cup {NoStage}, ValidDelta(c, delta)
  PROVE  Readable(ApplyAggregateDelta(c, delta, hint))
  <1> DEFINE count == c.taskCount + delta.tasks
             open == c.openTaskCount + delta.open
  <1>1. count \in Int /\ open \in Int /\ 0 <= open /\ open <= count
    BY DEF CardRec, ValidDelta
  <1>2. SUFFICES ASSUME NEW new, new = ApplyAggregateDelta(c, delta, hint)
                 PROVE  Readable(new)
    OBVIOUS
  <1>3. new.taskCount = count /\ new.openTaskCount = open
    BY <1>2 DEF ApplyAggregateDelta
  <1> HIDE DEF count, open
  <1>4. CASE Completes(c, count, open)
    <2>1. c.stage \in ActiveStages /\ count > 0 /\ open = 0
      BY <1>4 DEF Readable, CanonicalCard, Completes
    <2>2. new.status = "archived" /\ new.stage = DoneStage /\ new.resume = OrPreparation(c.stage)
      BY <1>2, <1>4 DEF ApplyAggregateDelta, Completes, Reactivates, count, open
    <2>3. new.resume \in ActiveStages
      BY <2>1, <2>2 DEF OrPreparation
    <2> QED BY <1>1, <1>3, <2>1, <2>2, <2>3 DEF Readable, CanonicalCard
  <1>5. CASE Reactivates(c, count, open)
    <2>1. c.status = "archived" /\ (count = 0 \/ open > 0)
      BY <1>1, <1>5 DEF Reactivates
    <2>2. new.status = "active" /\ new.stage = OrPreparation(c.resume) /\ new.resume = NoStage
      BY <1>2, <1>5, <2>1 DEF ApplyAggregateDelta, ResumedStage, Completes, count, open
    <2>3. new.stage \in ActiveStages
      BY <2>2 DEF OrPreparation, ActiveStages, Preparation
    <2> QED BY <1>1, <1>3, <2>1, <2>2, <2>3 DEF Readable, CanonicalCard
  <1>6. CASE ~Completes(c, count, open) /\ ~Reactivates(c, count, open)
    <2>1. /\ new.status = c.status /\ new.resume = c.resume
          /\ new.stage = c.stage \/ (c.status = "active" /\ new.stage \in ActiveStages)
      BY <1>2, <1>6 DEF ApplyAggregateDelta, count, open
    <2>2. IF c.status = "archived" THEN count > 0 /\ open = 0 ELSE count = 0 \/ open > 0
      BY <1>1, <1>6 DEF Completes, Reactivates
    <2> QED BY <1>1, <1>3, <2>1, <2>2 DEF Readable, CanonicalCard
  <1> QED BY <1>4, <1>5, <1>6

\* What was loaded keeps fitting: a request's Cards and its call do not change.
LEMMA NextBasesFit == RInv /\ BasesFit /\ [Next]_vars => BasesFit'
  <1> SUFFICES ASSUME RInv, BasesFit, [Next]_vars PROVE BasesFit'
    OBVIOUS
  <1>1. ASSUME NEW r \in Requests, Answer(r) PROVE BasesFit'
    BY <1>1 DEF RInv, TypeOK, BasesFit, Answer
  <1>2. ASSUME NEW r \in Requests, NEW t, NEW after, Begin(r, t, after) PROVE BasesFit'
    <2>1. \A c \in Cards : base[r][c].version = 0
      BY <1>2 DEF RInv, IdleHoldsNothing, Begin
    <2>2. \A s \in Requests \ {r} : pc'[s] = pc[s] /\ call'[s] = call[s]
      BY <1>2 DEF RInv, TypeOK, Begin
    <2>3. UNCHANGED base
      BY <1>2 DEF Begin, local
    <2> QED BY <2>1, <2>2, <2>3 DEF BasesFit
  <1>3. ASSUME NEW r \in Requests, NEW c \in Cards, LoadCard(r, c) PROVE BasesFit'
    BY <1>3 DEF RInv, TypeOK, BasesFit, LoadCard
  <1>4. ASSUME UNCHANGED <<pc, call, base>> PROVE BasesFit'
    BY <1>4 DEF BasesFit
  <1>5. ASSUME NEW r \in Requests, NEW c \in Cards, NEW kind, NEW row, WriteCard(kind, r, c, row)
        PROVE  BasesFit'
    BY <1>5 DEF RInv, TypeOK, BasesFit, WriteCard, local
  <1>6. ASSUME NEW r \in Requests, Call(r) PROVE BasesFit'
    <2>1. ASSUME NEW t \in Tasks, NEW new \in NewTasks, CreateTask(r, t, new) PROVE BasesFit'
      BY <1>2, <2>1 DEF CreateTask
    <2>2. ASSUME NEW t \in Tasks, NEW p \in Patches, UpdateTask(r, t, p) PROVE BasesFit'
      BY <1>2, <2>2 DEF UpdateTask
    <2>3. ASSUME NEW t \in Tasks, DeleteTask(r, t) PROVE BasesFit'
      BY <1>2, <2>3 DEF DeleteTask
    <2>4. ASSUME NEW c \in Cards, UpdateCard(r, c) \/ ParkCard(r, c) \/ ResumeCard(r, c)
                   \/ \E st \in ActiveStages : UpdateCardStage(r, c, st)
          PROVE  BasesFit'
      BY <1>5, <2>4 DEF UpdateCard, ParkCard, ResumeCard, UpdateCardStage
    <2> QED BY <1>6, <2>1, <2>2, <2>3, <2>4 DEF Call
  <1>7. ASSUME NEW r \in Requests, Handle(r) PROVE BasesFit'
    BY <1>1, <1>3, <1>4, <1>7
       DEF Handle, PinCard, LoadFails, ReadPrerequisite, ScanRow, Refuse, Commit, Conflict
  <1> QED BY <1>4, <1>6, <1>7 DEF Next, Quiet, vars, local

\* No sequence of calls stores a Card that the next read rejects.
THEOREM CardsStayReadable == Spec => []CardsReadable
  <1>1. CardsReadable <=> \A c \in Cards : Readable(card[c])
    BY DEF CardsReadable, Readable
  <1>2. Init => BasesFit /\ CardsReadable
    <2> SUFFICES ASSUME Init PROVE BasesFit /\ CardsReadable
      OBVIOUS
    <2>1. BasesFit
      BY DEF Init, BasesFit
    <2>2. ASSUME NEW c \in Cards PROVE Readable(card[c])
      <3>1. IsFiniteSet(TasksOf(c))
        BY TaskCardsAssumption, FS_Subset DEF TasksOf
      <3>2. Cardinality(TasksOf(c)) \in Nat
        BY <3>1, FS_CardinalityType
      <3>3. card[c] = CardWith(Cardinality(TasksOf(c)))
        BY DEF Init
      <3> QED BY <3>2, <3>3 DEF CardWith, Readable, CanonicalCard, ActiveStages, Preparation, NoStage
    <2> QED BY <1>1, <2>1, <2>2
  <1>3. RInv /\ BasesFit /\ CardsReadable /\ [Next]_vars => CardsReadable'
    <2> SUFFICES ASSUME RInv, BasesFit, CardsReadable, [Next]_vars
                 PROVE  \A c \in Cards : Readable(card'[c])
      BY <1>1 DEF CardsReadable, Readable
    <2>1. ASSUME NEW r \in Requests, Commit(r), NEW c \in Cards PROVE Readable(card'[c])
      <3>1. CASE c \in Touched(call[r])
        <4>1. base[r][c] = card[c] /\ base[r][c].version # 0 /\ pc[r] = "working"
          BY <2>1, <3>1 DEF Commit, ReadyToCommit, ToLoad, ConditionsHold, RInv, ReadsArePast, Past
        <4>2. Delta(call[r], c) \in [tasks : Int, open : Int]
          BY DEF Delta, Weight
        <4>3. StageHint(call[r]) \in ActiveStages \cup {NoStage}
          BY <2>1, AtCommit, TaskCardsAssumption DEF StageHint, WellFormed
        <4>4. card[c] \in CardRec /\ Readable(card[c]) /\ ValidDelta(card[c], Delta(call[r], c))
          BY <1>1, <4>1 DEF RInv, TypeOK, BasesFit
        <4>5. card'[c] = ApplyAggregateDelta(card[c], Delta(call[r], c), StageHint(call[r]))
          BY <2>1, <3>1, <4>1 DEF Commit, Written
        <4> QED BY <4>2, <4>3, <4>4, <4>5, AppliedReads
      <3>2. CASE c \notin Touched(call[r])
        BY <1>1, <2>1, <3>2, CommittedCards
      <3> QED BY <3>1, <3>2
    <2>2. ASSUME UNCHANGED card, NEW c \in Cards PROVE Readable(card'[c])
      BY <1>1, <2>2
    <2>3. ASSUME NEW r \in Requests, NEW c \in Cards, NEW d \in Cards,
                 UpdateCard(r, c) \/ ParkCard(r, c) \/ ResumeCard(r, c)
                   \/ \E st \in ActiveStages : UpdateCardStage(r, c, st)
          PROVE  Readable(card'[d])
      <3>1. card[c] \in CardRec /\ Readable(card[c]) /\ Readable(card[d]) /\ card \in [Cards -> CardRec]
        BY <1>1 DEF RInv, TypeOK
      <3>2. ASSUME NEW kind, NEW row \in CardRec, Readable(row), WriteCard(kind, r, c, row)
            PROVE  Readable(card'[d])
        <4>1. Readable([row EXCEPT !.version = @ + 1])
          BY <3>2 DEF Readable, CanonicalCard, CardRec
        <4> QED BY <3>1, <3>2, <4>1 DEF WriteCard
      <3>3. CASE UpdateCard(r, c)
        BY <3>1, <3>2, <3>3 DEF UpdateCard
      <3>4. CASE ParkCard(r, c)
        <4> DEFINE row == [card[c] EXCEPT !.status = "parked"]
        <4>1. row \in CardRec /\ Readable(row) /\ WriteCard("park", r, c, row)
          BY <3>1, <3>4 DEF ParkCard, CardRec, CardStatuses, Readable, CanonicalCard
        <4> HIDE DEF row
        <4> QED BY <3>2, <4>1
      <3>5. CASE ResumeCard(r, c)
        <4> DEFINE row == [card[c] EXCEPT !.status = "active"]
        <4>1. row \in CardRec /\ Readable(row) /\ WriteCard("resume", r, c, row)
          BY <3>1, <3>5 DEF ResumeCard, CardRec, CardStatuses, Readable, CanonicalCard
        <4> HIDE DEF row
        <4> QED BY <3>2, <4>1
      <3>6. ASSUME NEW st \in ActiveStages, UpdateCardStage(r, c, st) PROVE Readable(card'[d])
        <4> DEFINE row == [card[c] EXCEPT !.stage = st]
        <4>1. row \in CardRec /\ Readable(row) /\ WriteCard("stage", r, c, row)
          BY <3>1, <3>6 DEF UpdateCardStage, CardRec, Readable, CanonicalCard
        <4> HIDE DEF row
        <4> QED BY <3>2, <4>1
      <3> QED BY <2>3, <3>3, <3>4, <3>5, <3>6
    <2>4. ASSUME NEW r \in Requests, Call(r), NEW d \in Cards PROVE Readable(card'[d])
      BY <2>2, <2>3, <2>4 DEF Call, CreateTask, UpdateTask, DeleteTask, Begin
    <2>5. ASSUME NEW r \in Requests, Handle(r), NEW d \in Cards PROVE Readable(card'[d])
      BY <2>1, <2>2, <2>5 DEF Handle, PinCard, LoadCard, LoadFails, ReadPrerequisite, ScanRow,
                              Refuse, Conflict
    <2> QED BY <2>2, <2>4, <2>5 DEF Next, Quiet, vars
  <1>4. IInv => RInv
    BY DEF IInv
  <1> QED BY <1>2, <1>3, <1>4, NextBasesFit, Invariant, PTL DEF Spec

-----------------------------------------------------------------------------
\* Optimism is fair.

\* Whatever a request walked, something it had read led there.
WalkIsLed == \A r \in Requests : pc[r] = "working" => Walked(r) \subseteq Reached(r)

\* A walk takes its next row from what it has met, and forgets nothing it met.
LEMMA NextWalkIsLed == RInv /\ WalkIsLed /\ [Next]_vars => WalkIsLed'
  <1> SUFFICES ASSUME RInv, WalkIsLed, [Next]_vars, NEW s \in Requests, pc'[s] = "working"
               PROVE  (Walked(s) \subseteq Reached(s))'
    BY DEF WalkIsLed
  <1>1. CASE pc[s] = "working" /\ UNCHANGED <<call[s], walk[s]>>
    BY <1>1 DEF WalkIsLed, Walked, Reached
  <1>2. ASSUME NEW r \in Requests, NEW t \in Tasks, ReadPrerequisite(r, t), r = s
        PROVE  (Walked(s) \subseteq Reached(s))'
    <2>1. /\ t \in Reached(s) /\ ~IsRead(walk[s][t]) /\ call' = call /\ pc[s] = "working"
      BY <1>2 DEF ReadPrerequisite, Frontier, Reached, Walked
    <2>2. /\ walk'[s][t] = task[t]
          /\ \A u \in Tasks \ {t} : walk'[s][u] = walk[s][u]
      BY <1>2 DEF ReadPrerequisite, RInv, TypeOK
    <2>3. \A u \in Walked(s) : u # t /\ walk'[s][u] = walk[s][u] /\ u \in Walked(s)'
      BY <2>1, <2>2 DEF Walked
    <2>4. Reached(s) \subseteq Reached(s)'
      BY <2>1, <2>3 DEF Reached
    <2>5. Walked(s)' \subseteq Walked(s) \cup {t}
      BY <2>2 DEF Walked
    <2> QED BY <2>1, <2>4, <2>5 DEF WalkIsLed
  <1>3. CASE pc[s] # "working" /\ UNCHANGED walk
    BY <1>3 DEF RInv, IdleHoldsNothing, Walked
  <1>4. ASSUME NEW r \in Requests, Call(r) PROVE (Walked(s) \subseteq Reached(s))'
    <2>1. UNCHANGED walk /\ pc[r] = "idle" /\ (s # r => UNCHANGED <<pc[s], call[s]>>)
      BY <1>4 DEF Call, CreateTask, UpdateTask, DeleteTask, Begin, local, UpdateCard, ParkCard,
                  ResumeCard, UpdateCardStage, WriteCard, RInv, TypeOK
    <2> QED BY <1>1, <1>3, <2>1
  <1>5. ASSUME NEW r \in Requests, Answer(r) PROVE (Walked(s) \subseteq Reached(s))'
    <2>1. s # r /\ UNCHANGED <<pc[s], call[s], walk[s]>>
      BY <1>5 DEF Answer, RInv, TypeOK
    <2> QED BY <1>1, <1>3, <2>1 DEF RInv, IdleHoldsNothing, Walked
  <1>6. ASSUME NEW r \in Requests, NEW t \in Tasks, ReadPrerequisite(r, t)
        PROVE  (Walked(s) \subseteq Reached(s))'
    <2>1. CASE r = s
      BY <1>2, <1>6, <2>1
    <2>2. CASE r # s
      <3>1. UNCHANGED <<pc[s], call[s], walk[s]>>
        BY <1>6, <2>2 DEF ReadPrerequisite, RInv, TypeOK
      <3> QED BY <1>1, <3>1
    <2> QED BY <2>1, <2>2
  <1>7. ASSUME NEW r \in Requests, Handle(r) PROVE (Walked(s) \subseteq Reached(s))'
    <2>1. CASE UNCHANGED <<pc, call, walk>>
      BY <1>1, <2>1
    <2> QED BY <1>5, <1>6, <1>7, <2>1 DEF Handle, PinCard, LoadCard, LoadFails, ScanRow, Refuse,
                                         Commit, Conflict
  <1>8. CASE UNCHANGED vars
    BY <1>1, <1>8 DEF vars, local
  <1> QED BY <1>4, <1>7, <1>8 DEF Next, Quiet

\* Where edges stay on their Card, a request that is not refused walked only
\* Tasks that it found.
LEMMA WalkFinds ==
  ASSUME IInv, WalkIsLed, NEW r \in Requests, pc[r] = "working", Undisturbed(r), ~Refused(r),
         EdgesChanged(call[r]), NEW t \in Walked(r)
  PROVE  walk[r][t].live /\ walk[r][t] = task[t]
  <1>1. t \in Reached(r) /\ walk[r][t] = task[t]
    BY DEF WalkIsLed, Walked, Undisturbed
  <1>2. CASE t \in call[r].after.deps
    BY <1>1, <1>2 DEF Refused, BadEdges
  <1>3. CASE t \notin call[r].after.deps
    <2>1. PICK w \in Walked(r) : walk[r][w].live /\ t \in walk[r][w].deps
      BY <1>1, <1>3 DEF Reached
    <2>2. w \in Tasks /\ task[w].live /\ t \in task[w].deps
      BY <2>1 DEF Walked, Undisturbed
    <2> QED BY <1>1, <2>2 DEF IInv, RInv, EdgesStayOnCard
  <1> QED BY <1>2, <1>3

\* A request turned away has met a write: with everything as it was read, the
\* counters take its deltas and every condition of its transaction holds.
THEOREM ConflictsAreReal == Spec => []NoSpuriousConflict
  <1>1. IInv /\ CountersTrue /\ WalkIsLed => NoSpuriousConflict
    <2> SUFFICES ASSUME IInv, CountersTrue, WalkIsLed, NEW r \in Requests,
                        pc[r] = "working", Undisturbed(r), AllRead(r), ~Refused(r)
                 PROVE  /\ \A c \in ToLoad(r) : ~Stale(r, c) /\ ValidDelta(card[c], Delta(call[r], c))
                        /\ ToLoad(r) = {} => ConditionsHold(r)
      BY DEF NoSpuriousConflict
    <2> DEFINE q == call[r]
    <2>1. /\ q.id \in Tasks /\ q.before \in TaskRec /\ q.after \in TaskRec /\ task[q.id] = q.before
      BY DEF IInv, RInv, TypeOK, CallsWellFormed, WellFormed, Undisturbed
    <2>2. \A c \in Touched(q) : c \in Cards
      BY <2>1 DEF Touched, OnCards, TaskRec
    <2>3. ASSUME NEW c \in ToLoad(r) PROVE ~Stale(r, c) /\ ValidDelta(card[c], Delta(q, c))
      <3>1. c \in Cards
        BY <2>2 DEF ToLoad
      <3>2. ~Stale(r, c)
        BY <3>1 DEF Stale, Undisturbed
      <3> DEFINE T == (TasksOf(c) \ {q.id})
                        \cup (IF q.after.live /\ q.after.card = c THEN {q.id} ELSE {})
                 O == (OpenTasksOf(c) \ {q.id})
                        \cup (IF q.after.live /\ q.after.card = c /\ IsOpen(q.after.status)
                              THEN {q.id} ELSE {})
      <3>3. IsFiniteSet(TasksOf(c)) /\ IsFiniteSet(OpenTasksOf(c)) /\ OpenTasksOf(c) \subseteq TasksOf(c)
        BY TaskCardsAssumption, FS_Subset DEF TasksOf, OpenTasksOf
      <3>4. /\ TasksOf(c) \ {q.id} = T \ {q.id} /\ OpenTasksOf(c) \ {q.id} = O \ {q.id}
            /\ (q.id \in T) = (q.after.live /\ q.after.card = c)
            /\ (q.id \in O) = (q.after.live /\ q.after.card = c /\ IsOpen(q.after.status))
            /\ O \subseteq T /\ T \subseteq Tasks
        BY <2>1, <3>3 DEF TasksOf
      <3>5. /\ (q.id \in TasksOf(c)) = (q.before.live /\ q.before.card = c)
            /\ (q.id \in OpenTasksOf(c)) = (q.before.live /\ q.before.card = c /\ IsOpen(q.before.status))
        BY <2>1 DEF TasksOf, OpenTasksOf
      <3> HIDE DEF T, O
      <3>6. /\ Cardinality(T) = Cardinality(TasksOf(c)) + Delta(q, c).tasks
            /\ Cardinality(O) = Cardinality(OpenTasksOf(c)) + Delta(q, c).open
        BY <3>3, <3>4, <3>5, SizeButFor DEF Delta, Weight
      <3>7. Cardinality(O) \in Nat /\ Cardinality(O) <= Cardinality(T)
        <4>1. IsFiniteSet(T)
          BY <3>4, TaskCardsAssumption, FS_Subset
        <4> QED BY <3>4, <4>1, FS_Subset, FS_CardinalityType
      <3>8. ValidDelta(card[c], Delta(q, c))
        BY <3>1, <3>6, <3>7 DEF ValidDelta, CountersTrue
      <3> QED BY <3>2, <3>8
    <2>4. ASSUME ToLoad(r) = {} PROVE ConditionsHold(r)
      <3>1. ASSUME NEW t \in Tasks
            PROVE  /\ IsRead(walk[r][t]) \/ walk[r][t].live => walk[r][t] = task[t]
                   /\ IsRead(scan[r][t]) \/ scan[r][t].live => scan[r][t] = task[t]
        <4>1. walk[r][t] \in TaskRec \cup {NotRead} /\ scan[r][t] \in TaskRec \cup {NotRead}
          BY DEF IInv, RInv, TypeOK
        <4>2. ~NotRead.live
          BY DEF NotRead, Unborn
        <4> QED BY <4>1, <4>2, ReadRows DEF Undisturbed
      <3>2. \A c \in Touched(q) : card[c].version = base[r][c].version
        BY <2>2, <2>4 DEF ToLoad, Undisturbed
      <3>3. EnteringDone(q) => \A p \in q.after.deps : task[p].live /\ IsResolved(task[p].status)
        BY <2>1, <3>1 DEF Refused, Unfinished, TaskRec
      <3>4. GuardsHold(r)
        <4>1. EdgesChanged(q) => \A t \in Walked(r) : Stands(t, walk[r][t])
          BY WalkFinds DEF Stands
        <4> QED BY <3>1, <3>3, <4>1 DEF GuardsHold, Dependents, Unmoved
      <3> QED BY <2>1, <3>2, <3>4 DEF ConditionsHold, Unmoved
    <2> QED BY <2>3, <2>4
  <1>2. Init => WalkIsLed
    BY DEF Init, WalkIsLed
  <1>3. IInv => RInv
    BY DEF IInv
  <1> QED BY <1>1, <1>2, <1>3, NextWalkIsLed, Invariant, CountersAreTrue, PTL DEF Spec
=============================================================================
