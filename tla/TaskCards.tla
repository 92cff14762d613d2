------------------------------ MODULE TaskCards ------------------------------
(***************************************************************************)
(* Tasks, the Cards that hold them, and the API requests that write them.  *)
(*                                                                         *)
(* A Task may name prerequisite Tasks of its own Card.  Every write of a   *)
(* Task is an optimistic transaction: the request reads the Task, pins the *)
(* version of the Cards concerned, reads the part of the dependency graph  *)
(* its rule needs one row at a time, decides, reads the Cards whose        *)
(* counters move, and commits with one DynamoDB transaction conditioned on *)
(* everything it relied on.  Requests run in separate Lambda invocations,  *)
(* so any other request may commit between two of those steps.             *)
(*                                                                         *)
(* Each member of Requests is one API call: it is idle, then working, then *)
(* answered (with success or with an error).  A call cut off half way is a *)
(* call that never takes its next step.                                    *)
(***************************************************************************)
EXTENDS TaskRules, FiniteSets

CONSTANTS Tasks,            \* Task ids (UUIDs, never reused)
          Cards,            \* Card ids
          Requests,         \* API calls
          NoCard, NoTask,   \* the absent Card id, the absent Task id
          Keep,             \* a patch field the caller did not send
          Patches,          \* the update bodies callers send
          NewTasks,         \* the Tasks callers create
          CardCalls,        \* the Card writes callers make
          StageOnComplete   \* stage a Template Task moves its Card to, or NoStage

TaskRec == [live : BOOLEAN, card : Cards \cup {NoCard}, status : Statuses,
            deps : SUBSET Tasks, version : Nat]

PatchRec == [card : Cards \cup {NoCard, Keep}, status : Statuses \cup {Keep},
             deps : {Keep} \cup SUBSET Tasks]

ASSUME TaskCardsAssumption ==
  /\ IsFiniteSet(Tasks)
  /\ NoCard \notin Cards /\ NoTask \notin Tasks
  /\ Keep \notin Cards \cup {NoCard} /\ Keep \notin Statuses
  /\ Patches \subseteq PatchRec
  /\ NewTasks \subseteq [card : Cards \cup {NoCard}, status : Statuses,
                         deps : SUBSET Tasks]
  /\ CardCalls \subseteq {"edit", "stage", "park", "resume"}
  /\ StageOnComplete \in [Tasks -> ActiveStages \cup {NoStage}]

\* The row of an id nobody created yet; a deleted row keeps its last version.
Unborn == [live |-> FALSE, card |-> NoCard, status |-> "todo", deps |-> {}, version |-> 0]
\* A row the request has not read, and a Card it has not read.
NotRead == [Unborn EXCEPT !.version = -1]
CardWith(n) == [version |-> 1, taskCount |-> n, openTaskCount |-> n,
                status |-> "active", stage |-> Preparation, resume |-> NoStage]
NotLoaded == [CardWith(0) EXCEPT !.version = 0]
NoCall == [id |-> NoTask, before |-> Unborn, after |-> Unborn]

VARIABLES task,   \* the Tasks table: row by id
          card,   \* the Cards table: row by id
          pc,     \* where each request is: idle, working or answered
          call,   \* what it wants: the Task id, the row it read, the row it will write
          pins,   \* the Card versions it pinned, 0 where none
          walk,   \* the prerequisite rows it read with GetItem
          scan,   \* the rows its scan for dependents returned
          base    \* the Card rows it read to recompute, NotLoaded where none

vars == <<task, card, pc, call, pins, walk, scan, base>>
local == <<pins, walk, scan, base>>

-----------------------------------------------------------------------------
\* What one mutation does to the Task's place in the graph, as the dependency
\* check classifies it from the row before and the row after.

Updating(q) == q.before.live /\ q.after.live
EdgesChanged(q) == q.after.live /\ q.before.deps # q.after.deps
EnteringDone(q) == q.after.live /\ q.after.status = "done" /\ q.before.status # "done"
Reopening(q) == Updating(q) /\ IsResolved(q.before.status) /\ IsOpen(q.after.status)
Deleting(q) == ~q.after.live
Moving(q) == Updating(q) /\ q.before.card # q.after.card

OnCards(q) == ({q.before.card} \cup {q.after.card}) \ {NoCard}
\* Slip: deleting a Task does not pin its Card.
BugDeleteUnpinned(q) == IF EdgesChanged(q) \/ Reopening(q) \/ Moving(q) THEN OnCards(q) ELSE {}
\* The Cards whose version the check pins before it reads the graph.
CardsToPin(q) ==
  IF \/ EdgesChanged(q) \/ Reopening(q) \/ Deleting(q) \/ Moving(q)
     \/ EnteringDone(q) /\ q.after.deps # {}
  THEN OnCards(q) ELSE {}

\* Requests refused before anything but the Task itself is read.
Malformed(q) ==
  \/ q.after.live /\ q.after.deps # {} /\ q.after.card = NoCard
  \/ q.after.live /\ q.id \in q.after.deps
  \/ EdgesChanged(q) /\ q.before.status = "done"

-----------------------------------------------------------------------------
\* What request r still has to read, and what it concludes from what it read.

IsRead(row) == row.version >= 0
Walked(r) == {t \in Tasks : IsRead(walk[r][t])}
\* What the walk has met: a Task that was not there leads nowhere.
Reached(r) == call[r].after.deps \cup UNION {walk[r][t].deps : t \in {w \in Walked(r) : walk[r][w].live}}
\* Slip: an edge edit looks at its direct prerequisites only.
BugOneLevel(r) ==
  IF EdgesChanged(call[r]) \/ EnteringDone(call[r])
  THEN call[r].after.deps \ Walked(r) ELSE {}
\* An edge edit walks the whole prerequisite closure, completion reads one level.
Frontier(r) ==
  CASE EdgesChanged(call[r]) -> (Reached(r) \ Walked(r)) \ {call[r].id}
    [] ~EdgesChanged(call[r]) /\ EnteringDone(call[r]) -> call[r].after.deps \ Walked(r)
    [] OTHER -> {}

LooksForDependents(q) == q.before.card # NoCard /\ (Reopening(q) \/ Deleting(q) \/ Moving(q))
ToScan(r) == IF LooksForDependents(call[r])
             THEN {t \in Tasks \ {call[r].id} : ~IsRead(scan[r][t])} ELSE {}
Dependents(r) == {t \in Tasks \ {call[r].id} :
                    /\ scan[r][t].live /\ scan[r][t].card = call[r].before.card
                    /\ call[r].id \in scan[r][t].deps}

AllPinned(r) == \A c \in CardsToPin(call[r]) : pins[r][c] # 0
AllRead(r) == AllPinned(r) /\ Frontier(r) = {} /\ ToScan(r) = {}

\* The rules of planTaskDependencyChecks, on the rows the request read.
\* An edge must lead to a Task of the same Card and close no cycle.
BadEdges(r) ==
  LET q == call[r]
  IN  EdgesChanged(q) /\ \/ \E p \in q.after.deps :
                              ~walk[r][p].live \/ walk[r][p].card # q.after.card
                         \/ q.id \in Reached(r)
Unfinished(r) == EnteringDone(call[r]) /\ \E p \in call[r].after.deps :
                   ~walk[r][p].live \/ ~IsResolved(walk[r][p].status)
\* Slip: reopening does not look whether a dependent has been completed.
BugReopenUnderDone(r) == (Deleting(call[r]) \/ Moving(call[r])) /\ Dependents(r) # {}
\* Slip: a Task moves to another Card while others depend on it.
BugMoveLeavesDependents(r) ==
  \/ (Reopening(call[r]) \/ Deleting(call[r])) /\ \E d \in Dependents(r) : scan[r][d].status = "done"
  \/ Deleting(call[r]) /\ Dependents(r) # {}
LeavesDependents(r) ==
  \/ (Reopening(call[r]) \/ Deleting(call[r])) /\ \E d \in Dependents(r) : scan[r][d].status = "done"
  \/ (Deleting(call[r]) \/ Moving(call[r])) /\ Dependents(r) # {}
MovesWithEdges(r) == Moving(call[r]) /\ call[r].before.deps # {}
Refused(r) == BadEdges(r) \/ Unfinished(r) \/ LeavesDependents(r) \/ MovesWithEdges(r)

\* Conditions on a row: there, or not there, as it was read, at that version;
\* or there in any case, at that version if it was found.
Unmoved(t, row) == task[t].live = row.live /\ task[t].version = row.version
Stands(t, row) == task[t].live /\ (row.live => task[t].version = row.version)

\* The row conditions the transaction carries besides those on what it writes.
GuardsHold(r) ==
  LET q == call[r]
  IN  /\ EdgesChanged(q) => \A t \in Walked(r) \ Dependents(r) : Stands(t, walk[r][t])
      /\ EnteringDone(q) => \A p \in q.after.deps :
                               task[p].live /\ IsResolved(task[p].status)
      /\ \A d \in Dependents(r) : Unmoved(d, scan[r][d])

-----------------------------------------------------------------------------
\* The Card side of a mutation: counter deltas, and the Cards it rewrites.

Weight(row, c) == [tasks |-> IF row.live /\ row.card = c THEN 1 ELSE 0,
                   open |-> IF row.live /\ row.card = c /\ IsOpen(row.status) THEN 1 ELSE 0]
Delta(q, c) == [tasks |-> Weight(q.after, c).tasks - Weight(q.before, c).tasks,
                open |-> Weight(q.after, c).open - Weight(q.before, c).open]
\* Slip: an edge edit that moves no counter leaves the Card row alone.
BugEdgesUntouched(q) == {c \in OnCards(q) : Delta(q, c).tasks # 0 \/ Delta(q, c).open # 0}
Touched(q) == {c \in OnCards(q) : \/ Delta(q, c).tasks # 0 \/ Delta(q, c).open # 0
                                  \/ EdgesChanged(q) /\ c = q.after.card}
StageHint(q) == IF /\ Updating(q) /\ ~Moving(q)
                   /\ IsOpen(q.before.status) /\ q.after.status = "done"
                THEN StageOnComplete[q.id] ELSE NoStage

ToLoad(r) == {c \in Touched(call[r]) : base[r][c].version = 0}
Written(r, c) == ApplyAggregateDelta(base[r][c], Delta(call[r], c), StageHint(call[r]))

-----------------------------------------------------------------------------
\* A Card is created from its Template together with its open Tasks, whose
\* prerequisites the Template resolves to Tasks of the same Card.
\* Versions are only ever compared for equality, so 1 stands for any.

FromTemplate(c, d) == [live |-> TRUE, card |-> c, status |-> "todo", deps |-> d, version |-> 1]
TasksOf(c) == {t \in Tasks : task[t].live /\ task[t].card = c}
OpenTasksOf(c) == {t \in TasksOf(c) : IsOpen(task[t].status)}
Edges == [t \in Tasks |-> IF task[t].live THEN task[t].deps ELSE {}]

Init ==
  /\ task \in [Tasks -> {Unborn} \cup {FromTemplate(c, d) : c \in Cards, d \in SUBSET Tasks}]
  /\ \A t \in Tasks : \A p \in task[t].deps : task[p].live /\ task[p].card = task[t].card
  /\ Acyclic(Tasks, Edges)
  /\ card = [c \in Cards |-> CardWith(Cardinality(TasksOf(c)))]
  /\ pc = [r \in Requests |-> "idle"]
  /\ call = [r \in Requests |-> NoCall]
  /\ pins = [r \in Requests |-> [c \in Cards |-> 0]]
  /\ walk = [r \in Requests |-> [t \in Tasks |-> NotRead]]
  /\ scan = [r \in Requests |-> [t \in Tasks |-> NotRead]]
  /\ base = [r \in Requests |-> [c \in Cards |-> NotLoaded]]

\* The route has read the Task's row and asks for the new one.
Begin(r, t, after) ==
  LET q == [id |-> t, before |-> task[t], after |-> [after EXCEPT !.version = task[t].version + 1]]
  IN  /\ pc[r] = "idle"
      /\ ~Malformed(q)
      /\ pc' = [pc EXCEPT ![r] = "working"]
      /\ call' = [call EXCEPT ![r] = q]
      /\ UNCHANGED <<task, card, local>>

CreateTask(r, t, new) ==
  /\ task[t].version = 0
  /\ Begin(r, t, [live |-> TRUE, card |-> new.card, status |-> new.status,
                  deps |-> new.deps, version |-> 0])

Sent(field, old) == IF field = Keep THEN old ELSE field
UpdateTask(r, t, p) ==
  /\ task[t].live
  /\ Begin(r, t, [task[t] EXCEPT !.card = Sent(p.card, @), !.status = Sent(p.status, @),
                                 !.deps = Sent(p.deps, @)])

DeleteTask(r, t) ==
  /\ task[t].live
  /\ Begin(r, t, [task[t] EXCEPT !.live = FALSE])

PinCard(r, c) ==
  /\ pc[r] = "working"
  /\ c \in CardsToPin(call[r]) /\ pins[r][c] = 0
  /\ pins' = [pins EXCEPT ![r][c] = card[c].version]
  /\ UNCHANGED <<task, card, pc, call, walk, scan, base>>

\* Slip: a prerequisite that is missing is not remembered as visited.
BugMissingForgotten(r, t) ==
  /\ pc[r] = "working" /\ AllPinned(r)
  /\ t \in Frontier(r)
  /\ walk' = IF task[t].live THEN [walk EXCEPT ![r][t] = task[t]] ELSE walk
  /\ UNCHANGED <<task, card, pc, call, pins, scan, base>>
ReadPrerequisite(r, t) ==
  /\ pc[r] = "working" /\ AllPinned(r)
  /\ t \in Frontier(r)
  /\ walk' = [walk EXCEPT ![r][t] = task[t]]
  /\ UNCHANGED <<task, card, pc, call, pins, scan, base>>

\* The scan for dependents is paged: it reads the table a row at a time.
ScanRow(r, t) ==
  /\ pc[r] = "working" /\ AllPinned(r) /\ Frontier(r) = {}
  /\ t \in ToScan(r)
  /\ scan' = [scan EXCEPT ![r][t] = task[t]]
  /\ UNCHANGED <<task, card, pc, call, pins, walk, base>>

\* The request ends: nothing of what it read outlives the Lambda invocation.
Answer(r) ==
  /\ pc' = [pc EXCEPT ![r] = "answered"]
  /\ call' = [call EXCEPT ![r] = NoCall]
  /\ pins' = [pins EXCEPT ![r] = [c \in Cards |-> 0]]
  /\ walk' = [walk EXCEPT ![r] = [t \in Tasks |-> NotRead]]
  /\ scan' = [scan EXCEPT ![r] = [t \in Tasks |-> NotRead]]
  /\ base' = [base EXCEPT ![r] = [c \in Cards |-> NotLoaded]]

Refuse(r) ==
  /\ pc[r] = "working" /\ AllRead(r)
  /\ Refused(r)
  /\ Answer(r)
  /\ UNCHANGED <<task, card>>

\* Slip: a Card nobody pinned counts as moved on.
BugUnpinnedIsStale(r, c) == card[c].version # pins[r][c]
\* A Card that moved on since it was pinned, or whose counters cannot take
\* the delta, stops the request.
Stale(r, c) == pins[r][c] # 0 /\ card[c].version # pins[r][c]

LoadCard(r, c) ==
  /\ pc[r] = "working" /\ AllRead(r) /\ ~Refused(r)
  /\ c \in ToLoad(r)
  /\ ~Stale(r, c) /\ ValidDelta(card[c], Delta(call[r], c))
  /\ base' = [base EXCEPT ![r][c] = card[c]]
  /\ UNCHANGED <<task, card, pc, call, pins, walk, scan>>

LoadFails(r, c) ==
  /\ pc[r] = "working" /\ AllRead(r) /\ ~Refused(r)
  /\ c \in ToLoad(r)
  /\ Stale(r, c) \/ ~ValidDelta(card[c], Delta(call[r], c))
  /\ Answer(r)
  /\ UNCHANGED <<task, card>>

\* Slip: the Card rows are put back without their version condition.
BugBlindCardPut(r) == Unmoved(call[r].id, call[r].before) /\ GuardsHold(r)
\* The conditions of the transaction: the Task and every rewritten Card are
\* still at the version that was read, and every guarded row still stands.
ConditionsHold(r) ==
  /\ Unmoved(call[r].id, call[r].before)
  /\ \A c \in Touched(call[r]) : card[c].version = base[r][c].version
  /\ GuardsHold(r)

ReadyToCommit(r) == pc[r] = "working" /\ AllRead(r) /\ ~Refused(r) /\ ToLoad(r) = {}

Commit(r) ==
  /\ ReadyToCommit(r) /\ ConditionsHold(r)
  /\ task' = [task EXCEPT ![call[r].id] = call[r].after]
  /\ card' = [c \in Cards |-> IF c \in Touched(call[r]) THEN Written(r, c) ELSE card[c]]
  /\ Answer(r)

Conflict(r) ==
  /\ ReadyToCommit(r) /\ ~ConditionsHold(r)
  /\ Answer(r)
  /\ UNCHANGED <<task, card>>

\* Writes of the Card row alone are one conditional update of that row, so
\* the read they rely on and the write are one step.
WriteCard(kind, r, c, row) ==
  /\ kind \in CardCalls /\ pc[r] = "idle"
  /\ pc' = [pc EXCEPT ![r] = "answered"]
  /\ card' = [card EXCEPT ![c] = [row EXCEPT !.version = @ + 1]]
  /\ UNCHANGED <<task, call, local>>

UpdateCard(r, c) == WriteCard("edit", r, c, card[c])
UpdateCardStage(r, c, s) ==
  /\ card[c].status \in {"active", "parked"}
  /\ WriteCard("stage", r, c, [card[c] EXCEPT !.stage = s])
ParkCard(r, c) ==
  /\ card[c].status = "active"
  /\ WriteCard("park", r, c, [card[c] EXCEPT !.status = "parked"])
ResumeCard(r, c) ==
  /\ card[c].status = "parked"
  /\ WriteCard("resume", r, c, [card[c] EXCEPT !.status = "active"])

\* The calls a client makes; the rest is the handler working one of them off.
Call(r) ==
  \/ \E t \in Tasks, new \in NewTasks : CreateTask(r, t, new)
  \/ \E t \in Tasks, p \in Patches : UpdateTask(r, t, p)
  \/ \E t \in Tasks : DeleteTask(r, t)
  \/ \E c \in Cards : \/ UpdateCard(r, c) \/ ParkCard(r, c) \/ ResumeCard(r, c)
                      \/ \E s \in ActiveStages : UpdateCardStage(r, c, s)
Handle(r) ==
  \/ \E c \in Cards : PinCard(r, c) \/ LoadCard(r, c) \/ LoadFails(r, c)
  \/ \E t \in Tasks : ReadPrerequisite(r, t) \/ ScanRow(r, t)
  \/ Refuse(r) \/ Commit(r) \/ Conflict(r)

\* No call in progress: clients may make no more. A deadlock is a stuck request.
Quiet == (\A r \in Requests : pc[r] # "working") /\ UNCHANGED vars

Next == (\E r \in Requests : Call(r) \/ Handle(r)) \/ Quiet

Spec == Init /\ [][Next]_vars

\* A Lambda that is not cut off works its request to an answer.
FairSpec == Spec /\ \A r \in Requests : WF_vars(Handle(r))

-----------------------------------------------------------------------------
\* Correctness.

\* Every variable has the values the code can give it.
TypeOK ==
  /\ task \in [Tasks -> TaskRec]
  /\ card \in [Cards -> CardRec]
  /\ pc \in [Requests -> {"idle", "working", "answered"}]
  /\ call \in [Requests -> [id : Tasks \cup {NoTask}, before : TaskRec, after : TaskRec]]
  /\ pins \in [Requests -> [Cards -> Nat]]
  /\ walk \in [Requests -> [Tasks -> TaskRec \cup {NotRead}]]
  /\ scan \in [Requests -> [Tasks -> TaskRec \cup {NotRead}]]
  /\ base \in [Requests -> [Cards -> CardRec]]

\* A prerequisite exists and is on the same Card as the Task that names it,
\* whatever was deleted or moved while the edge was being added.
EdgesStayOnCard ==
  \A t \in Tasks : task[t].live => \A p \in task[t].deps :
    task[t].card # NoCard /\ task[p].live /\ task[p].card = task[t].card

\* A completed Task never has an unfinished prerequisite: completing it and
\* reopening the prerequisite cannot both get through.
CompletedWorkStands ==
  \A t \in Tasks : task[t].live /\ task[t].status = "done" =>
    \A p \in task[t].deps : task[p].live /\ IsResolved(task[p].status)

\* Two edge edits that each look harmless never close a cycle together.
GraphAcyclic == Acyclic(Tasks, Edges)

\* The counters stored on a Card are the number of its Tasks and of its open
\* Tasks, however many transactions recomputed them from a row read earlier.
CountersTrue ==
  \A c \in Cards : /\ card[c].taskCount = Cardinality(TasksOf(c))
                   /\ card[c].openTaskCount = Cardinality(OpenTasksOf(c))

\* Every stored Card passes the shape check of the next read, and a parked
\* Card has open work or none at all, so resuming it gives a Card that reads.
CardsReadable ==
  \A c \in Cards : /\ CanonicalCard(card[c])
                   /\ card[c].status = "parked" =>
                        card[c].taskCount = 0 \/ card[c].openTaskCount > 0

\* The Card version is the revision of the Card's dependency graph: while a
\* pinned version is current, every row read since is current in all the rules
\* look at, except that done and skipped may have been exchanged.
SameInGraph(row, now, c) ==
  /\ row.live /\ row.card = c <=> now.live /\ now.card = c
  /\ now.live /\ now.card = c => /\ row.deps = now.deps
                                 /\ IsOpen(row.status) = IsOpen(now.status)
PinnedGraphIsCurrent ==
  \A r \in Requests, c \in Cards : pc[r] = "working" /\ pins[r][c] = card[c].version =>
    \A t \in Tasks : /\ IsRead(walk[r][t]) => SameInGraph(walk[r][t], task[t], c)
                     /\ IsRead(scan[r][t]) => SameInGraph(scan[r][t], task[t], c)

\* A request is turned away only if something it read has been written since:
\* with every row as it was read, its Cards load, its deltas fit, it commits.
Undisturbed(r) ==
  /\ task[call[r].id] = call[r].before
  /\ \A t \in Tasks : /\ IsRead(walk[r][t]) => walk[r][t] = task[t]
                      /\ IsRead(scan[r][t]) => scan[r][t] = task[t]
  /\ \A c \in Cards : /\ pins[r][c] # 0 => pins[r][c] = card[c].version
                      /\ base[r][c].version # 0 => base[r][c] = card[c]
NoSpuriousConflict ==
  \A r \in Requests : pc[r] = "working" /\ Undisturbed(r) /\ AllRead(r) /\ ~Refused(r) =>
    /\ \A c \in ToLoad(r) : ~Stale(r, c) /\ ValidDelta(card[c], Delta(call[r], c))
    /\ ToLoad(r) = {} => ConditionsHold(r)

\* The interleaved reads, pins and conditional writes are the atomic board.
Board == INSTANCE TaskBoard WITH
  place <- [t \in Tasks |-> [live |-> task[t].live, card |-> task[t].card,
                             status |-> task[t].status, deps |-> task[t].deps]],
  life <- [c \in Cards |-> [status |-> card[c].status, stage |-> card[c].stage,
                            resume |-> card[c].resume]]
ImplementsBoard == Board!Spec

\* Optimism costs no answer: the walk of a graph that changes under it ends,
\* and nobody waits for anybody.
EveryCallAnswered == \A r \in Requests : pc[r] = "working" ~> pc[r] = "answered"
=============================================================================
