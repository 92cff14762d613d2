--------------------------- MODULE TaskBoardProofs ---------------------------
(***************************************************************************)
(* The interleaved reads, pins and conditional writes of TaskCards are the *)
(* atomic board of TaskBoard, for every set of Tasks, Cards and Requests:  *)
(* a commit is one lawful change of one Task, and nothing before it shows. *)
(***************************************************************************)
EXTENDS TaskCardsProofs

\* What the board shows of the tables.
PlaceOf(row) == [live |-> row.live, card |-> row.card, status |-> row.status, deps |-> row.deps]
LifeOf(row) == [status |-> row.status, stage |-> row.stage, resume |-> row.resume]
Place == [t \in Tasks |-> PlaceOf(task[t])]
Lives == [c \in Cards |-> LifeOf(card[c])]

-----------------------------------------------------------------------------
\* The board's vocabulary is the tables'.

LEMMA SameRules ==
  ASSUME NEW row, NEW delta, NEW hint
  PROVE  Board!ApplyAggregateDelta(row, delta, hint) = ApplyAggregateDelta(row, delta, hint)
  BY DEF ApplyAggregateDelta, Completes, Reactivates, ResumedStage, OrPreparation, ActiveStages,
         Preparation, NoStage, DoneStage, Board!ApplyAggregateDelta, Board!Completes,
         Board!Reactivates, Board!ResumedStage, Board!OrPreparation, Board!ActiveStages,
         Board!Preparation, Board!NoStage, Board!DoneStage

\* The rule looks at a Card's counters and place, not at its version.
LEMMA VersionDoesNotMatter ==
  ASSUME NEW row, NEW delta, NEW hint
  PROVE  LifeOf(ApplyAggregateDelta([version |-> 0, taskCount |-> row.taskCount,
                                     openTaskCount |-> row.openTaskCount, status |-> row.status,
                                     stage |-> row.stage, resume |-> row.resume], delta, hint))
           = LifeOf(ApplyAggregateDelta(row, delta, hint))
  BY DEF LifeOf, ApplyAggregateDelta, Completes, Reactivates, ResumedStage

\* A readable Card that nothing happens to stays where it is.
LEMMA NothingHappens ==
  ASSUME NEW row \in CardRec, Readable(row)
  PROVE  LifeOf(ApplyAggregateDelta(row, [tasks |-> 0, open |-> 0], NoStage)) = LifeOf(row)
  <1> DEFINE delta == [tasks |-> 0, open |-> 0]
  <1>1. row.taskCount + 0 = row.taskCount /\ row.openTaskCount + 0 = row.openTaskCount
    BY DEF CardRec
  <1>2. ~Completes(row, row.taskCount, row.openTaskCount)
        /\ ~Reactivates(row, row.taskCount, row.openTaskCount)
    BY DEF Completes, Reactivates, Readable, CanonicalCard, CardRec
  <1>3. NoStage \notin ActiveStages
    BY DEF NoStage, ActiveStages
  <1>4. /\ ApplyAggregateDelta(row, delta, NoStage).status = row.status
        /\ ApplyAggregateDelta(row, delta, NoStage).stage = row.stage
        /\ ApplyAggregateDelta(row, delta, NoStage).resume = row.resume
    BY <1>1, <1>2, <1>3 DEF ApplyAggregateDelta
  <1> QED BY <1>4 DEF LifeOf

\* The invariants of the tables are the law of the board.
LEMMA TablesAreLawful == IInv => Board!Lawful(Place)
  <1> SUFFICES ASSUME IInv PROVE Board!Lawful(Place)
    OBVIOUS
  <1>1. Board!Graph(Place) = Edges
    BY DEF Board!Graph, Edges, Place, PlaceOf
  <1>2. Board!Acyclic(Tasks, Board!Graph(Place))
    BY <1>1 DEF IInv, GraphAcyclic, Acyclic, Board!Acyclic
  <1>3. ASSUME NEW t \in Tasks, task[t].live PROVE t \notin task[t].deps
    <2>1. \E u \in {t} : Edges[u] \cap {t} = {}
      BY DEF IInv, GraphAcyclic, Acyclic
    <2> QED BY <1>3, <2>1 DEF Edges
  <1>4. ASSUME NEW t \in Tasks, task[t].live, NEW p \in task[t].deps
        PROVE  /\ p \in Tasks /\ task[p].live /\ task[t].card # NoCard /\ task[p].card = task[t].card
               /\ task[t].status = "done" => IsResolved(task[p].status)
    BY <1>4 DEF IInv, RInv, TypeOK, TaskRec, EdgesStayOnCard, CompletedWorkStands
  <1>5. \A t \in Tasks : /\ Place[t].live = task[t].live
                         /\ Place[t].card = task[t].card
                         /\ Place[t].status = task[t].status
                         /\ Place[t].deps = task[t].deps
    BY DEF Place, PlaceOf
  <1>6. ASSUME NEW t \in Tasks, Place[t].live
        PROVE  /\ t \notin Place[t].deps
               /\ \A p \in Place[t].deps :
                    /\ Place[p].live /\ Place[t].card # NoCard /\ Place[p].card = Place[t].card
                    /\ Place[t].status = "done" => Board!IsResolved(Place[p].status)
    <2>1. task[t].live
      BY <1>5, <1>6
    <2>2. t \notin Place[t].deps
      BY <1>3, <1>5, <2>1
    <2>3. ASSUME NEW p \in Place[t].deps
          PROVE  /\ Place[p].live /\ Place[t].card # NoCard /\ Place[p].card = Place[t].card
                 /\ Place[t].status = "done" => Board!IsResolved(Place[p].status)
      <3>1. p \in task[t].deps
        BY <1>5
      <3>2. /\ p \in Tasks /\ task[p].live /\ task[t].card # NoCard /\ task[p].card = task[t].card
            /\ task[t].status = "done" => IsResolved(task[p].status)
        BY <1>4, <2>1, <3>1
      <3>3. IsResolved(task[p].status) = Board!IsResolved(Place[p].status)
        BY <1>5, <3>2 DEF IsResolved, Board!IsResolved
      <3> QED BY <1>5, <3>2, <3>3
    <2> QED BY <2>2, <2>3
  <1> QED BY <1>2, <1>6 DEF Board!Lawful

\* The board's count is the count (each module takes its own copy of FiniteSets).
LEMMA SameCount == ASSUME NEW S PROVE Board!Cardinality(S) = Cardinality(S)
  BY DEF Board!Cardinality, Cardinality

\* The board counts what the Cards' counters hold.
CountsAgree == \A c \in Cards : /\ Board!Count(Place, c) = card[c].taskCount
                                /\ Board!OpenCount(Place, c) = card[c].openTaskCount

LEMMA CountersCount == CountersTrue => CountsAgree
  <1> SUFFICES ASSUME CountersTrue, NEW c \in Cards
               PROVE  /\ Board!Count(Place, c) = card[c].taskCount
                      /\ Board!OpenCount(Place, c) = card[c].openTaskCount
    BY DEF CountsAgree
  <1>1. Board!On(Place, c) = TasksOf(c)
    BY DEF Board!On, Place, PlaceOf, TasksOf
  <1>2. {t \in Board!On(Place, c) : Board!IsOpen(Place[t].status)} = OpenTasksOf(c)
    BY <1>1 DEF OpenTasksOf, TasksOf, Place, PlaceOf, IsOpen, Board!IsOpen
  <1>3. /\ Board!Count(Place, c) = Cardinality(Board!On(Place, c))
        /\ Board!OpenCount(Place, c)
             = Cardinality({t \in Board!On(Place, c) : Board!IsOpen(Place[t].status)})
    BY SameCount DEF Board!Count, Board!OpenCount
  <1> QED BY <1>1, <1>2, <1>3 DEF CountersTrue

\* Both hold of the next state as of this one.
LEMMA TablesStayLawful == IInv' => Board!Lawful(Place')
  <1>1. (IInv => Board!Lawful(Place))'
    BY TablesAreLawful, PTL
  <1> QED BY <1>1

LEMMA CountersStillCount == CountersTrue' => CountsAgree'
  <1>1. (CountersTrue => CountsAgree)'
    BY CountersCount, PTL
  <1> QED BY <1>1

-----------------------------------------------------------------------------
\* One step of the tables is one step of the board, or none.

\* The lives of the Cards after a commit are the lives the board settles.
LEMMA CommitSettles ==
  ASSUME IInv, CountersTrue, CountersTrue', CardsReadable, NEW r \in Requests, Commit(r),
         NEW c \in Cards
  PROVE  LifeOf(card'[c]) = Board!Settled(c, Place, Place',
                                          Board!Hint(call[r].id, PlaceOf(call[r].after), c))
  <1> DEFINE q == call[r]
             hint == Board!Hint(q.id, PlaceOf(q.after), c)
             row == card[c]
             new == [version |-> 0, taskCount |-> row.taskCount,
                     openTaskCount |-> row.openTaskCount, status |-> row.status,
                     stage |-> row.stage, resume |-> row.resume]
  <1>0. RInv
    BY DEF IInv
  <1>1. /\ q.id \in Tasks /\ q.before \in TaskRec /\ q.after \in TaskRec /\ task[q.id] = q.before
        /\ row \in CardRec /\ Readable(row)
    <2>1. row \in CardRec /\ Readable(row)
      BY <1>0 DEF RInv, TypeOK, CardsReadable, Readable
    <2> QED BY <1>0, <2>1, AtCommit DEF WellFormed
  <1>2. /\ Board!Count(Place, c) = row.taskCount /\ Board!OpenCount(Place, c) = row.openTaskCount
        /\ Board!Count(Place', c) = card'[c].taskCount
        /\ Board!OpenCount(Place', c) = card'[c].openTaskCount
    BY CountersCount, CountersStillCount DEF CountsAgree
  <1>3. Delta(q, c) = [tasks |-> card'[c].taskCount - row.taskCount,
                       open |-> card'[c].openTaskCount - row.openTaskCount]
    <2>1. /\ Delta(q, c).tasks \in Int /\ Delta(q, c).open \in Int
          /\ Delta(q, c) = [tasks |-> Delta(q, c).tasks, open |-> Delta(q, c).open]
      BY DEF Delta, Weight
    <2>2. row.taskCount \in Int /\ row.openTaskCount \in Int
      BY <1>1 DEF CardRec
    <2>3. /\ card'[c].taskCount = row.taskCount + Delta(q, c).tasks
          /\ card'[c].openTaskCount = row.openTaskCount + Delta(q, c).open
      BY <1>0, CommitMovesCounters
    <2>4. /\ Delta(q, c).tasks = card'[c].taskCount - row.taskCount
          /\ Delta(q, c).open = card'[c].openTaskCount - row.openTaskCount
      BY <2>1, <2>2, <2>3
    <2> QED BY <2>1, <2>4
  <1>4. Board!Settled(c, Place, Place', hint) = LifeOf(ApplyAggregateDelta(new, Delta(q, c), hint))
    BY <1>2, <1>3, SameRules DEF Board!Settled, LifeOf
  <1>5. Board!Settled(c, Place, Place', hint) = LifeOf(ApplyAggregateDelta(row, Delta(q, c), hint))
    BY <1>4, VersionDoesNotMatter
  <1>6. hint = IF /\ q.before.live /\ q.after.live /\ q.before.card = c /\ q.after.card = c
                  /\ IsOpen(q.before.status) /\ q.after.status = "done"
               THEN StageOnComplete[q.id] ELSE NoStage
    BY <1>1 DEF Board!Hint, PlaceOf, Board!IsOpen, IsOpen, Board!NoStage, NoStage
  <1>7. CASE c \in Touched(q)
    <2>1. hint = StageHint(q)
      BY <1>6, <1>7 DEF StageHint, Updating, Moving, Touched, OnCards
    <2>2. base[r][c] = row
      BY <1>0, <1>7 DEF Commit, ReadyToCommit, ConditionsHold, RInv, ReadsArePast, Past
    <2>3. card'[c] = ApplyAggregateDelta(row, Delta(q, c), StageHint(q))
      BY <1>7, <2>2 DEF Commit, Written
    <2> QED BY <1>5, <2>1, <2>3
  <1>8. CASE c \notin Touched(q)
    <2>1. card'[c] = row
      BY <1>0, <1>8, CommittedCards
    <2>2. Delta(q, c) = [tasks |-> 0, open |-> 0]
      BY <1>1, <1>3, <2>1 DEF CardRec
    <2>3. SameInGraph(q.before, q.after, c)
      BY <1>0, <1>1, <1>8, UntouchedIsSame
    <2>4. hint = NoStage
      BY <1>6, <2>3 DEF SameInGraph, IsOpen
    <2> QED BY <1>1, <1>5, <2>1, <2>2, <2>4, NothingHappens
  <1> QED BY <1>7, <1>8

\* A commit is one lawful change of one Task.
LEMMA CommitIsOneChange ==
  ASSUME IInv, IInv', CountersTrue, CountersTrue', CardsReadable, NEW r \in Requests, Commit(r)
  PROVE  Board!Next
  <1> SUFFICES ASSUME NEW t, NEW row, NEW q, q = call[r], t = q.id, row = PlaceOf(q.after)
               PROVE  Board!Next
    OBVIOUS
  <1>0. RInv
    BY DEF IInv
  <1>1. /\ t \in Tasks /\ q.before \in TaskRec /\ q.after \in TaskRec /\ task[t] = q.before
        /\ ~Malformed(q) /\ (~q.before.live => q.after.live)
    BY <1>0, AtCommit DEF WellFormed
  <1>2. row \in Board!PlaceRec
    BY <1>1 DEF PlaceOf, TaskRec, Board!PlaceRec, Board!Statuses, Statuses
  <1>3. Place[t].live \/ row.live
    BY <1>1 DEF Place, PlaceOf
  <1>4. Place[t].live /\ row.live /\ Place[t].status = "done" => row.deps = Place[t].deps
    BY <1>1 DEF Place, PlaceOf, Malformed, EdgesChanged
  <1>5. Place' = [Place EXCEPT ![t] = row]
    BY <1>0, <1>1, CommittedRow DEF Place
  <1>6. Board!Lawful(Place')
    BY TablesStayLawful
  <1>7. Lives' = [c \in Cards |-> Board!Settled(c, Place, Place', Board!Hint(t, row, c))]
    BY CommitSettles DEF Lives
  <1>8. Board!ChangeTask(t, row)
    BY <1>3, <1>4, <1>5, <1>6, <1>7 DEF Board!ChangeTask, Place, Lives, PlaceOf, LifeOf
  <1> QED BY <1>1, <1>2, <1>8 DEF Board!Next

\* The tables start as the board starts.
LEMMA StartsAsTheBoard == Init => Board!Init
  <1> SUFFICES ASSUME Init PROVE Board!Init
    OBVIOUS
  <1>1. Board!Lawful(Place)
    BY InitIInv, TablesAreLawful
  <1>2. Place \in [Tasks -> {Board!Unborn} \cup
                     {Board!FromTemplate(c, d) : c \in Cards, d \in SUBSET Tasks}]
    <2>1. ASSUME NEW t \in Tasks
          PROVE  PlaceOf(task[t]) \in {Board!Unborn} \cup
                     {Board!FromTemplate(c, d) : c \in Cards, d \in SUBSET Tasks}
      <3>1. CASE task[t] = Unborn
        BY <3>1 DEF PlaceOf, Unborn, Board!Unborn
      <3>2. CASE \E c \in Cards, d \in SUBSET Tasks : task[t] = FromTemplate(c, d)
        <4>1. PICK c \in Cards, d \in SUBSET Tasks : task[t] = FromTemplate(c, d)
          BY <3>2
        <4>2. PlaceOf(task[t]) = Board!FromTemplate(c, d)
          BY <4>1 DEF PlaceOf, FromTemplate, Board!FromTemplate
        <4> QED BY <4>2
      <3>3. task[t] \in {Unborn} \cup {FromTemplate(c, d) : c \in Cards, d \in SUBSET Tasks}
        BY DEF Init
      <3> QED BY <3>1, <3>2, <3>3
    <2> QED BY <2>1 DEF Place
  <1>3. Lives = [c \in Cards |-> Board!NewLife]
    BY DEF Init, CardWith, Lives, LifeOf, Board!NewLife, Preparation, NoStage,
           Board!Preparation, Board!NoStage
  <1> QED BY <1>1, <1>2, <1>3 DEF Board!Init, Place, PlaceOf, Lives, LifeOf

\* A write of the Card row alone moves one Card on the board, or none.
LEMMA CardCallIsOneMove ==
  ASSUME IInv, NEW r \in Requests, NEW c \in Cards,
         UpdateCard(r, c) \/ ParkCard(r, c) \/ ResumeCard(r, c)
           \/ \E s \in ActiveStages : UpdateCardStage(r, c, s)
  PROVE  Board!Next \/ UNCHANGED Board!vars
  <1>1. card \in [Cards -> CardRec] /\ card[c] \in CardRec
    BY DEF IInv, RInv, TypeOK
  <1>2. ASSUME NEW kind, NEW row \in CardRec, WriteCard(kind, r, c, row)
        PROVE  Place' = Place /\ Lives' = [Lives EXCEPT ![c] = LifeOf(row)]
    BY <1>1, <1>2 DEF WriteCard, Place, Lives, LifeOf, CardRec
  <1>3. Lives[c] = LifeOf(card[c])
    BY DEF Lives
  <1>4. CASE UpdateCard(r, c)
    <2>1. Place' = Place /\ Lives' = [Lives EXCEPT ![c] = LifeOf(card[c])]
      BY <1>1, <1>2, <1>4 DEF UpdateCard
    <2>2. Lives' = Lives
      BY <1>3, <2>1 DEF Lives
    <2> QED BY <2>1, <2>2 DEF Board!vars, Place, PlaceOf, Lives, LifeOf
  <1>5. CASE ParkCard(r, c)
    <2> DEFINE row == [card[c] EXCEPT !.status = "parked"]
    <2>1. row \in CardRec /\ card[c].status = "active"
          /\ LifeOf(row) = [LifeOf(card[c]) EXCEPT !.status = "parked"]
      BY <1>1, <1>5 DEF ParkCard, CardRec, CardStatuses, LifeOf
    <2>2. Place' = Place /\ Lives' = [Lives EXCEPT ![c] = LifeOf(row)]
      BY <1>2, <1>5, <2>1 DEF ParkCard
    <2>3. Lives[c].status = "active" /\ LifeOf(row) = [Lives[c] EXCEPT !.status = "parked"]
      BY <1>3, <2>1 DEF LifeOf
    <2> HIDE DEF row
    <2>4. Board!Park(c)
      BY <2>2, <2>3 DEF Board!Park, Board!SetLife, Place, PlaceOf, Lives, LifeOf
    <2> QED BY <2>4 DEF Board!Next
  <1>6. CASE ResumeCard(r, c)
    <2> DEFINE row == [card[c] EXCEPT !.status = "active"]
    <2>1. row \in CardRec /\ card[c].status = "parked"
          /\ LifeOf(row) = [LifeOf(card[c]) EXCEPT !.status = "active"]
      BY <1>1, <1>6 DEF ResumeCard, CardRec, CardStatuses, LifeOf
    <2>2. Place' = Place /\ Lives' = [Lives EXCEPT ![c] = LifeOf(row)]
      BY <1>2, <1>6, <2>1 DEF ResumeCard
    <2>3. Lives[c].status = "parked" /\ LifeOf(row) = [Lives[c] EXCEPT !.status = "active"]
      BY <1>3, <2>1 DEF LifeOf
    <2> HIDE DEF row
    <2>4. Board!Resume(c)
      BY <2>2, <2>3 DEF Board!Resume, Board!SetLife, Place, PlaceOf, Lives, LifeOf
    <2> QED BY <2>4 DEF Board!Next
  <1>7. ASSUME NEW s \in ActiveStages, UpdateCardStage(r, c, s) PROVE Board!Next
    <2> DEFINE row == [card[c] EXCEPT !.stage = s]
    <2>1. row \in CardRec /\ card[c].status # "archived"
          /\ LifeOf(row) = [LifeOf(card[c]) EXCEPT !.stage = s]
      BY <1>1, <1>7 DEF UpdateCardStage, CardRec, LifeOf
    <2>2. Place' = Place /\ Lives' = [Lives EXCEPT ![c] = LifeOf(row)]
      BY <1>2, <1>7, <2>1 DEF UpdateCardStage
    <2>3. Lives[c].status # "archived" /\ LifeOf(row) = [Lives[c] EXCEPT !.stage = s]
      BY <1>3, <2>1 DEF LifeOf
    <2> HIDE DEF row
    <2>4. Board!SetStage(c, s)
      BY <2>2, <2>3 DEF Board!SetStage, Board!SetLife, Place, PlaceOf, Lives, LifeOf
    <2> QED BY <2>4 DEF Board!Next, Board!ActiveStages, ActiveStages
  <1> QED BY <1>4, <1>5, <1>6, <1>7

\* The interleaved reads, pins and conditional writes of any requests are the
\* atomic board: what a client sees is Tasks changed one at a time, lawfully.
THEOREM BoardIsImplemented == Spec => ImplementsBoard
  <1>1. ASSUME UNCHANGED <<task, card>> PROVE UNCHANGED Board!vars
    BY <1>1 DEF Board!vars
  <1>2. /\ IInv /\ IInv' /\ CountersTrue /\ CountersTrue' /\ CardsReadable
        /\ [Next]_vars
        => [Board!Next]_(Board!vars)
    <2> SUFFICES ASSUME IInv, IInv', CountersTrue, CountersTrue', CardsReadable, [Next]_vars
                 PROVE  Board!Next \/ UNCHANGED Board!vars
      OBVIOUS
    <2>1. ASSUME NEW r \in Requests, Call(r) PROVE Board!Next \/ UNCHANGED Board!vars
      <3>1. CASE UNCHANGED <<task, card>>
        BY <1>1, <3>1
      <3>2. ASSUME NEW c \in Cards,
                   UpdateCard(r, c) \/ ParkCard(r, c) \/ ResumeCard(r, c)
                     \/ \E s \in ActiveStages : UpdateCardStage(r, c, s)
            PROVE  Board!Next \/ UNCHANGED Board!vars
        BY <3>2, CardCallIsOneMove
      <3> QED BY <2>1, <3>1, <3>2 DEF Call, CreateTask, UpdateTask, DeleteTask, Begin
    <2>2. ASSUME NEW r \in Requests, Handle(r) PROVE Board!Next \/ UNCHANGED Board!vars
      <3>1. CASE UNCHANGED <<task, card>>
        BY <1>1, <3>1
      <3>2. CASE Commit(r)
        BY <3>2, CommitIsOneChange
      <3> QED BY <2>2, <3>1, <3>2 DEF Handle, PinCard, LoadCard, LoadFails, ReadPrerequisite,
                                      ScanRow, Refuse, Conflict
    <2>3. CASE UNCHANGED vars
      BY <1>1, <2>3 DEF vars
    <2> QED BY <2>1, <2>2, <2>3 DEF Next, Quiet
  <1> QED BY <1>2, StartsAsTheBoard, Invariant, CountersAreTrue, CardsStayReadable, PTL
         DEF Spec, ImplementsBoard, Board!Spec
=============================================================================
