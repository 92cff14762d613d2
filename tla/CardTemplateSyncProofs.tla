------------------------ MODULE CardTemplateSyncProofs ------------------------
(***************************************************************************)
(* Proofs about CardTemplateSync, for every set of Tasks, Cards, requests, *)
(* update calls and Template definitions.                                  *)
(***************************************************************************)
EXTENDS CardTemplateSync, TaskCardsProofs

-----------------------------------------------------------------------------
\* Types.

SyncRec == [pc : {"idle", "card", "rows", "answered"}, card : Cards \cup {NoCard},
            want : BOOLEAN, base : CardRec, held : HeldRec, tmpl : TmplRec,
            rows : [Tasks -> TaskRec \cup {NotRead}], prov : [Tasks -> ProvRec]]

\* The literal rows have the types of their tables.
LEMMA SyncLiterals ==
  /\ \A r \in Refs \cup {NoRef} : OfElsewhere(r) \in ProvRec
  /\ \A r \in Refs, d \in SnapRec \cup {Absent}, v \in Nat : Following(r, d, v) \in ProvRec
  /\ \A c \in Cards, d \in SUBSET Tasks : FromTemplate(c, d) \in TaskRec
  /\ IdleSync.pc = "idle" /\ \A t \in Tasks : ~IsRead(IdleSync.rows[t])
  /\ IdleSync \in SyncRec
  <1>1. /\ \A r \in Refs \cup {NoRef} : OfElsewhere(r) \in ProvRec
        /\ \A r \in Refs, d \in SnapRec \cup {Absent}, v \in Nat : Following(r, d, v) \in ProvRec
    BY DEF OfElsewhere, Following, ProvRec
  <1>2. \A c \in Cards, d \in SUBSET Tasks : FromTemplate(c, d) \in TaskRec
    BY DEF FromTemplate, TaskRec, Statuses
  <1>3. [version |-> 0, body |-> [r \in Refs |-> Absent]] \in TmplRec
    BY DEF TmplRec, BodyRec
  <1>4. [version |-> 0, refs |-> {}, selected |-> FALSE] \in HeldRec
    BY DEF HeldRec
  <1>5. NotLoaded \in CardRec /\ ~IsRead(NotRead)
    BY LiteralRows
  <1> QED BY <1>1, <1>2, <1>3, <1>4, <1>5 DEF IdleSync, SyncRec

\* What a Task keeps of a definition.
LEMMA SnapshotType ==
  ASSUME NEW d \in DefRec
  PROVE  SnapshotOf(d) \in SnapRec
  BY DEF DefRec, SnapRec, SnapshotOf

\* What the plan is made of: references, the Card's Tasks, definitions.
LEMMA PlanTypes ==
  ASSUME SyncTypeOK, NEW s \in Syncs
  PROVE  /\ Target(s) \subseteq Refs /\ ToAdd(s) \subseteq Target(s)
         /\ \A r \in Target(s) : Body(s)[r] \in DefRec
         /\ Rewritten(s) \subseteq Mine(s) /\ Mine(s) \subseteq Rows(s) /\ Rows(s) \subseteq Tasks
         /\ \A t \in Rows(s) : sync[s].rows[t] \in TaskRec /\ sync[s].rows[t].live
                               /\ sync[s].rows[t].card = sync[s].card
         /\ \A t \in Mine(s) : sync[s].prov[t].ref \in Refs /\ DefOf(s, t) \in DefRec \cup {Absent}
  <1>1. /\ Body(s) \in BodyRec /\ sync[s].rows \in [Tasks -> TaskRec \cup {NotRead}]
        /\ sync[s].prov \in [Tasks -> ProvRec] /\ sync[s].tmpl \in TmplRec
    BY DEF SyncTypeOK, TmplRec, Body
  <1>2. Target(s) \subseteq Refs /\ ToAdd(s) \subseteq Target(s)
    BY DEF Target, Applicable, ToAdd
  <1>3. \A r \in Target(s) : Body(s)[r] \in DefRec
    BY <1>1 DEF Target, Applicable, BodyRec
  <1>4. Rewritten(s) \subseteq Mine(s) /\ Mine(s) \subseteq Rows(s) /\ Rows(s) \subseteq Tasks
    BY DEF Rewritten, ToRestore, ToRefresh, ToUpdate, ToRetain, ToSkip, Defined, Dropped, Mine, Rows
  <1>5. \A t \in Rows(s) : sync[s].rows[t] \in TaskRec /\ sync[s].rows[t].live
                           /\ sync[s].rows[t].card = sync[s].card
    BY <1>1 DEF Rows, NotRead, Unborn
  <1>6. \A t \in Mine(s) : sync[s].prov[t].ref \in Refs
    BY <1>1, <1>4 DEF Mine, ProvRec
  <1>7. \A t \in Mine(s) : DefOf(s, t) \in DefRec \cup {Absent}
    BY <1>1, <1>6 DEF DefOf, BodyRec
  <1> QED BY <1>2, <1>3, <1>4, <1>5, <1>6, <1>7

\* Each added ref has an id of its own.
LEMMA AddedOnce ==
  ASSUME SyncTypeOK, NEW s \in Syncs, sync[s].card \in Cards
  PROVE  /\ AddedIds(s) \subseteq Tasks
         /\ \A t \in AddedIds(s) : RefOfAdded(s, t) \in ToAdd(s) /\ NewId(s, RefOfAdded(s, t)) = t
         /\ \A r \in ToAdd(s) : NewId(s, r) \in AddedIds(s) /\ RefOfAdded(s, NewId(s, r)) = r
         /\ IsFiniteSet(ToAdd(s)) /\ IsFiniteSet(AddedIds(s))
         /\ Cardinality(AddedIds(s)) = Cardinality(ToAdd(s)) /\ Cardinality(ToAdd(s)) \in Nat
  <1>1. ToAdd(s) \subseteq Refs
    BY PlanTypes
  <1>2. \A q, r \in ToAdd(s) : NewId(s, q) \in Tasks /\ (NewId(s, q) = NewId(s, r) => q = r)
    BY <1>1, CardTemplateSyncAssumption DEF NewId
  <1>3. \A t \in AddedIds(s) : RefOfAdded(s, t) \in ToAdd(s) /\ NewId(s, RefOfAdded(s, t)) = t
    <2> SUFFICES ASSUME NEW t \in AddedIds(s)
                 PROVE  RefOfAdded(s, t) \in ToAdd(s) /\ NewId(s, RefOfAdded(s, t)) = t
      OBVIOUS
    <2>1. \E r \in ToAdd(s) : NewId(s, r) = t
      BY DEF AddedIds
    <2> QED BY <2>1 DEF RefOfAdded
  <1>4. \A r \in ToAdd(s) : NewId(s, r) \in AddedIds(s)
    BY DEF AddedIds
  <1>5. IsFiniteSet(ToAdd(s)) /\ Cardinality(ToAdd(s)) \in Nat
    BY <1>1, CardTemplateSyncAssumption, FS_Subset, FS_CardinalityType
  <1>6. AddedIds(s) \subseteq Tasks
    BY <1>2 DEF AddedIds
  <1>7. IsFiniteSet(AddedIds(s))
    BY <1>6, TaskCardsAssumption, FS_Subset
  <1>8. Cardinality(AddedIds(s)) = Cardinality(ToAdd(s))
    <2> DEFINE f == [r \in ToAdd(s) |-> NewId(s, r)]
    <2>1. f \in Bijection(ToAdd(s), AddedIds(s))
      BY <1>2, <1>4 DEF Bijection, Injection, Surjection, IsInjective, AddedIds
    <2> HIDE DEF f
    <2> QED BY <1>5, <1>7, <2>1, FS_Bijection DEF ExistsBijection
  <1> QED BY <1>2, <1>3, <1>4, <1>5, <1>6, <1>7, <1>8

\* The refs resolve to Tasks.
LEMMA ResolvedTasks ==
  ASSUME SyncTypeOK, NEW s \in Syncs, sync[s].card \in Cards, NEW refs
  PROVE  Resolved(s, refs) \subseteq AddedIds(s) \cup Mine(s)
  BY AddedOnce DEF Resolved, IdsOf

\* A row with three columns replaced, column by column.
Replaced(row, st, v, d) == [row EXCEPT !.status = st, !.version = v, !.deps = d]

LEMMA ReplacedColumns ==
  ASSUME NEW row \in TaskRec, NEW st \in Statuses, NEW v \in Nat, NEW d \in SUBSET Tasks
  PROVE  /\ Replaced(row, st, v, d) \in TaskRec
         /\ Replaced(row, st, v, d).live = row.live /\ Replaced(row, st, v, d).card = row.card
         /\ Replaced(row, st, v, d).status = st /\ Replaced(row, st, v, d).version = v
         /\ Replaced(row, st, v, d).deps = d
  BY DEF Replaced, TaskRec

NewEdges(s, t) == IF t \in Relinked(s) THEN Resolved(s, DefOf(s, t).edges)
                  ELSE sync[s].rows[t].deps

\* The rows an update writes are rows, one version on or new.
LEMMA SyncRows ==
  ASSUME SyncTypeOK, NEW s \in Syncs, sync[s].card \in Cards
  PROVE  /\ \A t \in AddedIds(s) : AddedRow(s, t) \in TaskRec
         /\ \A t \in Rewritten(s) : /\ RewrittenRow(s, t) \in TaskRec
                                    /\ RewrittenRow(s, t).live
                                    /\ RewrittenRow(s, t).card = sync[s].card
                                    /\ RewrittenRow(s, t).version = sync[s].rows[t].version + 1
                                    /\ RewrittenRow(s, t).status = NewStatus(s, t)
                                    /\ RewrittenRow(s, t).deps = NewEdges(s, t)
  <1>1. \A refs : Resolved(s, refs) \subseteq Tasks
    BY ResolvedTasks, AddedOnce, PlanTypes
  <1>2. \A t \in AddedIds(s) : AddedRow(s, t) \in TaskRec
    BY <1>1, SyncLiterals DEF AddedRow
  <1>3. ASSUME NEW t \in Rewritten(s)
        PROVE  /\ RewrittenRow(s, t) \in TaskRec /\ RewrittenRow(s, t).live
               /\ RewrittenRow(s, t).card = sync[s].card
               /\ RewrittenRow(s, t).version = sync[s].rows[t].version + 1
               /\ RewrittenRow(s, t).status = NewStatus(s, t)
               /\ RewrittenRow(s, t).deps = NewEdges(s, t)
    <2> DEFINE row == sync[s].rows[t]
               d == NewEdges(s, t)
    <2>1. row \in TaskRec /\ row.live /\ row.card = sync[s].card
      BY <1>3, PlanTypes
    <2>2. NewStatus(s, t) \in Statuses
      BY <2>1 DEF NewStatus, Statuses, TaskRec
    <2>3. d \in SUBSET Tasks
      BY <1>1, <2>1 DEF TaskRec, NewEdges
    <2>4. RewrittenRow(s, t) = Replaced(row, NewStatus(s, t), row.version + 1, d)
      BY DEF RewrittenRow, Replaced, NewEdges
    <2>5. row.version + 1 \in Nat
      BY <2>1 DEF TaskRec
    <2> HIDE DEF row, d
    <2>6. /\ RewrittenRow(s, t) \in TaskRec /\ RewrittenRow(s, t).live = row.live
          /\ RewrittenRow(s, t).card = row.card /\ RewrittenRow(s, t).version = row.version + 1
          /\ RewrittenRow(s, t).status = NewStatus(s, t) /\ RewrittenRow(s, t).deps = d
      <3>1. row \in TaskRec
        BY <2>1
      <3>2. /\ Replaced(row, NewStatus(s, t), row.version + 1, d) \in TaskRec
            /\ Replaced(row, NewStatus(s, t), row.version + 1, d).live = row.live
            /\ Replaced(row, NewStatus(s, t), row.version + 1, d).card = row.card
            /\ Replaced(row, NewStatus(s, t), row.version + 1, d).version = row.version + 1
            /\ Replaced(row, NewStatus(s, t), row.version + 1, d).status = NewStatus(s, t)
            /\ Replaced(row, NewStatus(s, t), row.version + 1, d).deps = d
        BY ONLY <3>1, <2>2, <2>3, <2>5, ReplacedColumns, SMT
      <3> QED BY <2>4, <3>2
    <2> QED BY <2>1, <2>6 DEF row, d
  <1> QED BY <1>2, <1>3

-----------------------------------------------------------------------------
\* The requests keep the types of their tables, whoever else writes them.

Typed == TypeOK /\ \A r \in Requests : pc[r] = "working" => call[r].id \in Tasks

LEMMA BeginKeepsTypes ==
  ASSUME Typed, NEW r \in Requests, NEW t \in Tasks, NEW after \in TaskRec, Begin(r, t, after)
  PROVE  Typed'
  <1> DEFINE q == [id |-> t, before |-> task[t],
                   after |-> [after EXCEPT !.version = task[t].version + 1]]
  <1>1. /\ pc' = [pc EXCEPT ![r] = "working"] /\ call' = [call EXCEPT ![r] = q]
        /\ UNCHANGED <<task, card, pins, walk, scan, base>>
    BY DEF Begin, local
  <1>2. q.id \in Tasks /\ q.before \in TaskRec /\ q.after \in TaskRec
    <2>1. task[t] \in TaskRec /\ task[t].version + 1 \in Nat
      BY DEF Typed, TypeOK, TaskRec
    <2> QED BY <2>1, Renumbered, ZenonT(40)
  <1>3. TypeOK'
    BY <1>1, <1>2 DEF Typed, TypeOK
  <1>4. \A u \in Requests : pc'[u] = "working" => call'[u].id \in Tasks
    <2> HIDE DEF q
    <2> QED BY <1>1, <1>2 DEF Typed, TypeOK
  <1> QED BY <1>3, <1>4 DEF Typed

LEMMA AnswerKeepsTypes ==
  ASSUME Typed, NEW r \in Requests, Answer(r),
         task' \in [Tasks -> TaskRec], card' \in [Cards -> CardRec]
  PROVE  Typed'
  BY LiteralRows DEF Typed, TypeOK, Answer

LEMMA CommitKeepsTypes ==
  ASSUME Typed, NEW r \in Requests, Commit(r)
  PROVE  Typed'
  <1>1. Answer(r) /\ pc[r] = "working"
    BY DEF Commit, ReadyToCommit
  <1>2. call[r].id \in Tasks /\ call[r].after \in TaskRec
    BY <1>1 DEF Typed, TypeOK
  <1>3. task' \in [Tasks -> TaskRec]
    BY <1>2 DEF Commit, Typed, TypeOK
  <1>4. ASSUME NEW c \in Cards PROVE Written(r, c) \in CardRec
    <2>1. base[r][c] \in CardRec
      BY DEF Typed, TypeOK
    <2>2. Delta(call[r], c) \in [tasks : Int, open : Int]
      BY DEF Delta, Weight
    <2>3. StageHint(call[r]) \in ActiveStages \cup {NoStage}
      BY <1>2, TaskCardsAssumption DEF StageHint
    <2> QED BY <2>1, <2>2, <2>3, AppliedCard DEF Written
  <1>5. card' \in [Cards -> CardRec]
    BY <1>4 DEF Commit, Typed, TypeOK
  <1> QED BY <1>1, <1>3, <1>5, AnswerKeepsTypes

LEMMA NextTypes == Typed /\ [Next]_vars => Typed'
  <1> SUFFICES ASSUME Typed, [Next]_vars PROVE Typed'
    OBVIOUS
  <1>1. TypeOK
    BY DEF Typed
  <1>2. ASSUME NEW r \in Requests, Call(r) PROVE Typed'
    <2>1. ASSUME NEW t \in Tasks, \/ \E new \in NewTasks : CreateTask(r, t, new)
                                  \/ \E p \in Patches : UpdateTask(r, t, p)
                                  \/ DeleteTask(r, t)
          PROVE  Typed'
      BY <1>1, <2>1, CallBegins, BeginKeepsTypes
    <2>2. ASSUME NEW c \in Cards, UpdateCard(r, c) \/ ParkCard(r, c) \/ ResumeCard(r, c)
                                    \/ \E st \in ActiveStages : UpdateCardStage(r, c, st)
          PROVE  Typed'
      <3>1. PICK row \in CardRec : \E kind \in CardCalls : WriteCard(kind, r, c, row)
        BY <1>1, <2>2, CardCallWrites
      <3>2. [row EXCEPT !.version = @ + 1] \in CardRec
        BY DEF CardRec
      <3> QED BY <3>1, <3>2 DEF WriteCard, local, Typed, TypeOK
    <2> QED BY <1>2, <2>1, <2>2 DEF Call
  <1>3. ASSUME NEW r \in Requests, Handle(r) PROVE Typed'
    <2>1. ASSUME NEW c \in Cards, PinCard(r, c) PROVE Typed'
      <3>1. card[c].version \in Nat
        BY DEF Typed, TypeOK, CardRec
      <3> QED BY <2>1, <3>1 DEF PinCard, Typed, TypeOK
    <2>2. ASSUME NEW c \in Cards, LoadCard(r, c) PROVE Typed'
      BY <2>2 DEF LoadCard, Typed, TypeOK
    <2>3. ASSUME NEW t \in Tasks, ReadPrerequisite(r, t) PROVE Typed'
      BY <2>3 DEF ReadPrerequisite, Typed, TypeOK
    <2>4. ASSUME NEW t \in Tasks, ScanRow(r, t) PROVE Typed'
      BY <2>4 DEF ScanRow, Typed, TypeOK
    <2>5. ASSUME Answer(r), UNCHANGED <<task, card>> PROVE Typed'
      BY <2>5, AnswerKeepsTypes DEF Typed, TypeOK
    <2> QED BY <1>3, <2>1, <2>2, <2>3, <2>4, <2>5, CommitKeepsTypes
           DEF Handle, LoadFails, Refuse, Conflict
  <1>4. CASE UNCHANGED vars
    BY <1>4 DEF vars, Typed, TypeOK
  <1> QED BY <1>2, <1>3, <1>4 DEF Next, Quiet

-----------------------------------------------------------------------------
\* An update at work has a Card.

Active(s) == sync[s].pc \in {"card", "rows"}
SyncTyped == /\ SyncTypeOK /\ Typed
             /\ \A s \in Syncs : Active(s) => sync[s].card \in Cards

\* The Card an update writes is a Card, one version on.
LEMMA SyncedCardType ==
  ASSUME SyncTypeOK, NEW s \in Syncs, sync[s].card \in Cards
  PROVE  /\ SyncedCard(s) \in CardRec /\ SyncedCard(s).version = sync[s].base.version + 1
         /\ SyncDelta(s).tasks \in Int /\ SyncDelta(s).open \in Int
         /\ SyncedCard(s).taskCount = sync[s].base.taskCount + SyncDelta(s).tasks
         /\ SyncedCard(s).openTaskCount = sync[s].base.openTaskCount + SyncDelta(s).open
  <1>1. sync[s].base \in CardRec
    BY DEF SyncTypeOK
  <1>2. ToRestore(s) \subseteq Tasks /\ ToSkip(s) \subseteq Tasks
    BY PlanTypes DEF Rewritten
  <1>3. Cardinality(ToRestore(s)) \in Nat /\ Cardinality(ToSkip(s)) \in Nat
    BY <1>2, TaskCardsAssumption, FS_Subset, FS_CardinalityType
  <1>4. Cardinality(ToAdd(s)) \in Nat
    BY AddedOnce
  <1>5. SyncDelta(s) \in [tasks : Int, open : Int]
    BY <1>3, <1>4 DEF SyncDelta
  <1>6. CASE SyncDelta(s).tasks = 0 /\ SyncDelta(s).open = 0
    <2>1. SyncedCard(s) = [sync[s].base EXCEPT !.version = sync[s].base.version + 1]
      BY <1>6 DEF SyncedCard
    <2>2. /\ SyncedCard(s) \in CardRec /\ SyncedCard(s).version = sync[s].base.version + 1
          /\ SyncedCard(s).taskCount = sync[s].base.taskCount
          /\ SyncedCard(s).openTaskCount = sync[s].base.openTaskCount
      BY <1>1, <2>1 DEF CardRec
    <2>3. sync[s].base.taskCount \in Int /\ sync[s].base.openTaskCount \in Int
      BY <1>1 DEF CardRec
    <2> QED BY <1>5, <1>6, <2>2, <2>3
  <1>7. CASE ~(SyncDelta(s).tasks = 0 /\ SyncDelta(s).open = 0)
    <2>1. SyncedCard(s) = ApplyAggregateDelta(sync[s].base, SyncDelta(s), NoStage)
      BY <1>7 DEF SyncedCard
    <2>2. /\ ApplyAggregateDelta(sync[s].base, SyncDelta(s), NoStage) \in CardRec
          /\ ApplyAggregateDelta(sync[s].base, SyncDelta(s), NoStage).version = sync[s].base.version + 1
      BY <1>1, <1>5, AppliedCard
    <2>3. /\ ApplyAggregateDelta(sync[s].base, SyncDelta(s), NoStage).taskCount
               = sync[s].base.taskCount + SyncDelta(s).tasks
          /\ ApplyAggregateDelta(sync[s].base, SyncDelta(s), NoStage).openTaskCount
               = sync[s].base.openTaskCount + SyncDelta(s).open
      BY DEF ApplyAggregateDelta
    <2> QED BY <1>5, <2>1, <2>2, <2>3
  <1> QED BY <1>6, <1>7

\* What is skipped is neither retained nor restored.
LEMMA PlanParts ==
  ASSUME NEW s \in Syncs
  PROVE  /\ ToSkip(s) \cap ToRetain(s) = {} /\ ToSkip(s) \cap ToRestore(s) = {}
         /\ \A t \in ToRetain(s) : t \notin ToRestore(s) /\ t \notin ToUpdate(s)
  BY DEF ToSkip, ToRetain, ToRestore, ToUpdate, Defined, Dropped, IsOpen, IsResolved

\* The provenance an update writes is one.
LEMMA SyncProvType ==
  ASSUME SyncTypeOK, NEW s \in Syncs, NEW t \in Rewritten(s)
  PROVE  RewrittenProv(s, t) \in ProvRec
  <1> DEFINE was == sync[s].prov[t]
  <1>1. was \in ProvRec /\ sync[s].tmpl.version \in Nat
    BY PlanTypes DEF SyncTypeOK, TmplRec
  <1>2. CASE t \in ToSkip(s)
    <2>1. RewrittenProv(s, t) = [was EXCEPT !.retired = "removed", !.forTemplate = TRUE,
                                            !.undoable = TRUE]
      BY <1>2, PlanParts DEF RewrittenProv
    <2>2. \A row \in ProvRec, yes \in BOOLEAN :
            [row EXCEPT !.retired = "removed", !.forTemplate = yes, !.undoable = yes] \in ProvRec
      BY DEF ProvRec
    <2> QED BY <1>1, <2>1, <2>2, Zenon
  <1>3. CASE t \notin ToSkip(s) /\ t \in ToRetain(s)
    <2> DEFINE why == IF was.ref \in Target(s) THEN "completed-modified" ELSE "removed"
    <2>1. RewrittenProv(s, t) = [was EXCEPT !.retired = why, !.undoable = FALSE]
      BY <1>3 DEF RewrittenProv
    <2>2. why \in {"no", "removed", "completed-modified"}
      OBVIOUS
    <2> HIDE DEF why
    <2> QED BY <1>1, <2>1, <2>2 DEF ProvRec
  <1>4. CASE t \notin ToSkip(s) /\ t \notin ToRetain(s)
    <2> DEFINE d == SnapshotOf(DefOf(s, t))
               v == sync[s].tmpl.version
               f == was.forTemplate /\ t \notin ToRestore(s)
    <2>1. RewrittenProv(s, t) = [was EXCEPT !.def = d, !.version = v, !.retired = "no",
                                            !.undoable = FALSE, !.forTemplate = f]
      BY <1>4 DEF RewrittenProv
    <2>2. f \in BOOLEAN
      OBVIOUS
    <2>3. d \in SnapRec
      <3>1. sync[s].prov[t].ref \in Target(s)
        BY <1>4 DEF Rewritten, ToRestore, ToRefresh, ToUpdate, Defined
      <3> QED BY <3>1, PlanTypes, SnapshotType DEF DefOf
    <2> HIDE DEF d, v, f
    <2> QED BY <1>1, <2>1, <2>2, <2>3 DEF ProvRec, v
  <1> QED BY <1>2, <1>3, <1>4

\* An update that answers forgets what it read.
LEMMA DoneKeepsSyncTypes ==
  ASSUME SyncTyped, NEW s \in Syncs, SyncDone(s)
  PROVE  /\ sync' \in [Syncs -> SyncRec]
         /\ \A u \in Syncs : sync'[u].pc \in {"card", "rows"} => sync'[u].card \in Cards
  <1> DEFINE done == [IdleSync EXCEPT !.pc = "answered"]
  <1>1. sync \in [Syncs -> SyncRec]
    BY DEF SyncTyped, SyncTypeOK, SyncRec
  <1>2. done \in SyncRec /\ done.pc = "answered"
    BY SyncLiterals DEF SyncRec
  <1>3. sync' = [sync EXCEPT ![s] = done]
    BY DEF SyncDone
  <1> HIDE DEF done
  <1> QED BY <1>1, <1>2, <1>3 DEF SyncTyped, Active

LEMMA ApplyKeepsTypes ==
  ASSUME SyncTyped, NEW s \in Syncs, SyncApply(s)
  PROVE  SyncTyped'
  <1>1. /\ SyncTypeOK /\ Typed /\ sync[s].card \in Cards
        /\ SyncDone(s) /\ UNCHANGED <<pc, call, pins, walk, scan, base, tmpl>>
    BY DEF SyncTyped, Active, SyncApply, Planned, local
  <1>2. task' \in [Tasks -> TaskRec]
    <2>1. \A t \in Tasks : task[t] \in TaskRec
      BY <1>1 DEF SyncTypeOK, TypeOK
    <2> QED BY <1>1, <2>1, SyncRows DEF SyncApply
  <1>3. card' \in [Cards -> CardRec]
    BY <1>1, SyncedCardType DEF SyncApply, SyncTypeOK, TypeOK
  <1>4. prov' \in [Tasks -> ProvRec]
    <2>1. ASSUME NEW t \in AddedIds(s)
          PROVE  Following(RefOfAdded(s, t), SnapshotOf(Body(s)[RefOfAdded(s, t)]),
                           sync[s].tmpl.version) \in ProvRec
      <3>1. RefOfAdded(s, t) \in Refs /\ SnapshotOf(Body(s)[RefOfAdded(s, t)]) \in SnapRec
        BY <1>1, <2>1, AddedOnce, PlanTypes, SnapshotType
      <3>2. sync[s].tmpl.version \in Nat
        BY <1>1 DEF SyncTypeOK, TmplRec
      <3> QED BY <3>1, <3>2, SyncLiterals
    <2>2. \A t \in Rewritten(s) : RewrittenProv(s, t) \in ProvRec
      BY <1>1, SyncProvType, PlanTypes
    <2>3. \A t \in Tasks : prov[t] \in ProvRec
      BY <1>1 DEF SyncTypeOK
    <2> QED BY <2>1, <2>2, <2>3 DEF SyncApply
  <1>5. held' \in [Cards -> HeldRec]
    <2> DEFINE now == [version |-> sync[s].tmpl.version, refs |-> Target(s), selected |-> sync[s].want]
    <2>1. now \in HeldRec
      BY <1>1, PlanTypes DEF SyncTypeOK, TmplRec, HeldRec
    <2>2. held' = [held EXCEPT ![sync[s].card] = now]
      BY DEF SyncApply
    <2> HIDE DEF now
    <2> QED BY <1>1, <2>1, <2>2 DEF SyncTypeOK
  <1>6. TypeOK'
    BY <1>1, <1>2, <1>3 DEF Typed, TypeOK
  <1>7. Typed'
    BY <1>1, <1>6 DEF Typed
  <1>8. SyncTypeOK'
    BY <1>1, <1>4, <1>5, <1>6, DoneKeepsSyncTypes DEF SyncTypeOK, SyncRec
  <1> QED BY <1>1, <1>7, <1>8, DoneKeepsSyncTypes DEF SyncTyped, Active

\* What a request's write leaves of a Task's provenance.
LEMMA RequestKeepsProv ==
  ASSUME SyncTypeOK, Request
  PROVE  prov' \in [Tasks -> ProvRec]
  <1>1. ASSUME NEW t \in Tasks PROVE AfterWrite(t) \in ProvRec
    <2>1. prov[t] \in ProvRec
      BY DEF SyncTypeOK
    <2>2. [prov[t] EXCEPT !.forTemplate = FALSE, !.undoable = FALSE] \in ProvRec
      <3>1. \A row \in ProvRec, no \in BOOLEAN :
              [row EXCEPT !.forTemplate = no, !.undoable = no] \in ProvRec
        BY DEF ProvRec
      <3> QED BY <2>1, <3>1, Zenon
    <2>3. OfElsewhere(NoRef) \in ProvRec
      BY SyncLiterals
    <2> QED BY <2>1, <2>2, <2>3 DEF AfterWrite
  <1> QED BY <1>1 DEF Request, SyncTypeOK

LEMMA NextSyncTyped == SyncTyped /\ [SyncNext]_<<vars, syncVars>> => SyncTyped'
  <1> SUFFICES ASSUME SyncTyped, [SyncNext]_<<vars, syncVars>> PROVE SyncTyped'
    OBVIOUS
  <1>0. SyncTypeOK /\ Typed /\ sync \in [Syncs -> SyncRec]
    BY DEF SyncTyped, SyncTypeOK, SyncRec
  <1>1. CASE Request
    <2>1. Typed' /\ UNCHANGED <<tmpl, held, sync>>
      BY <1>0, <1>1, NextTypes DEF Request, Next
    <2>2. SyncTypeOK'
      BY <1>0, <1>1, <2>1, RequestKeepsProv DEF SyncTypeOK, Typed
    <2> QED BY <2>1, <2>2 DEF SyncTyped, Active
  <1>2. ASSUME UNCHANGED <<vars, prov, held>>, tmpl' \in TmplRec, sync' \in [Syncs -> SyncRec],
               \A s \in Syncs : sync'[s].pc \in {"card", "rows"} => sync'[s].card \in Cards
        PROVE  SyncTyped'
    <2>1. Typed'
      BY <1>0, <1>2 DEF vars, Typed, TypeOK
    <2>2. SyncTypeOK'
      BY <1>0, <1>2, <2>1 DEF SyncTypeOK, SyncRec, Typed
    <2> QED BY <1>2, <2>1, <2>2 DEF SyncTyped, Active
  <1>3. ASSUME NEW d \in Definitions, SaveTemplate(d) PROVE SyncTyped'
    <2>1. tmpl' \in TmplRec
      BY <1>0, <1>3, CardTemplateSyncAssumption DEF SaveTemplate, SyncTypeOK, TmplRec
    <2> QED BY <1>0, <1>2, <1>3, <2>1 DEF SaveTemplate, SyncTyped, Active
  <1>4. ASSUME NEW s \in Syncs, NEW c \in Cards, SyncReadCard(s, c) PROVE SyncTyped'
    <2>1. card[c] \in CardRec /\ held[c] \in HeldRec /\ tmpl \in TmplRec
      BY <1>0 DEF SyncTypeOK, TypeOK
    <2>2. sync' \in [Syncs -> SyncRec]
      <3> DEFINE new == [sync[s] EXCEPT !.pc = "card", !.card = c, !.base = card[c], !.held = held[c]]
      <3>1. sync' = [sync EXCEPT ![s] = new]
        BY <1>0, <1>4 DEF SyncReadCard
      <3>2. new \in SyncRec
        BY <1>0, <2>1 DEF SyncRec
      <3> HIDE DEF new
      <3> QED BY <1>0, <3>1, <3>2
    <2>3. \A u \in Syncs : sync'[u].pc \in {"card", "rows"} => sync'[u].card \in Cards
      BY <1>0, <1>4 DEF SyncReadCard, SyncTyped, Active, SyncRec
    <2> QED BY <1>2, <1>4, <2>1, <2>2, <2>3 DEF SyncReadCard
  <1>5. ASSUME NEW s \in Syncs, SyncReadTemplate(s) PROVE SyncTyped'
    <2>1. tmpl \in TmplRec /\ Choices(tmpl.body) \subseteq BOOLEAN
      BY <1>0 DEF SyncTypeOK, Choices
    <2>2. sync' \in [Syncs -> SyncRec]
      <3>1. PICK want \in BOOLEAN :
              sync' = [sync EXCEPT ![s].pc = "rows", ![s].tmpl = tmpl, ![s].want = want]
        BY <1>5, <2>1 DEF SyncReadTemplate
      <3> DEFINE new == [sync[s] EXCEPT !.pc = "rows", !.tmpl = tmpl, !.want = want]
      <3>2. sync' = [sync EXCEPT ![s] = new]
        BY <1>0, <3>1
      <3>3. new \in SyncRec
        BY <1>0, <2>1 DEF SyncRec
      <3> HIDE DEF new
      <3> QED BY <1>0, <3>2, <3>3
    <2>3. \A u \in Syncs : sync'[u].pc \in {"card", "rows"} => sync'[u].card \in Cards
      BY <1>0, <1>5 DEF SyncReadTemplate, SyncTyped, Active, SyncRec
    <2> QED BY <1>2, <1>5, <2>1, <2>2, <2>3 DEF SyncReadTemplate
  <1>6. ASSUME NEW s \in Syncs, NEW t \in Tasks, SyncScanRow(s, t) PROVE SyncTyped'
    <2>1. task[t] \in TaskRec /\ prov[t] \in ProvRec /\ tmpl \in TmplRec
      BY <1>0 DEF SyncTypeOK, TypeOK
    <2>2. sync' \in [Syncs -> SyncRec]
      <3> DEFINE new == [sync[s] EXCEPT !.rows[t] = task[t], !.prov[t] = prov[t]]
      <3>1. sync' = [sync EXCEPT ![s] = new]
        BY <1>0, <1>6 DEF SyncScanRow
      <3>2. new \in SyncRec
        BY <1>0, <2>1 DEF SyncRec
      <3> HIDE DEF new
      <3> QED BY <1>0, <3>1, <3>2
    <2>3. \A u \in Syncs : sync'[u].pc \in {"card", "rows"} => sync'[u].card \in Cards
      BY <1>0, <1>6 DEF SyncScanRow, SyncTyped, Active, SyncRec
    <2> QED BY <1>2, <1>6, <2>1, <2>2, <2>3 DEF SyncScanRow
  <1>7. ASSUME NEW s \in Syncs, SyncRefuse(s) PROVE SyncTyped'
    <2>1. tmpl \in TmplRec
      BY <1>0 DEF SyncTypeOK
    <2> QED BY <1>2, <1>7, <2>1, DoneKeepsSyncTypes DEF SyncRefuse
  <1>8. CASE UNCHANGED <<vars, syncVars>>
    <2>1. tmpl \in TmplRec
      BY <1>0 DEF SyncTypeOK
    <2> QED BY <1>0, <1>2, <1>8, <2>1 DEF syncVars, SyncTyped, Active
  <1> QED BY <1>1, <1>3, <1>4, <1>5, <1>6, <1>7, <1>8, ApplyKeepsTypes
         DEF SyncNext, SyncStep, AllQuiet

LEMMA InitSyncTyped == SyncInit => SyncTyped
  <1> SUFFICES ASSUME SyncInit PROVE SyncTyped
    OBVIOUS
  <1>1. Typed
    <2>1. IInv
      BY InitIInv DEF SyncInit
    <2> QED BY <2>1 DEF IInv, RInv, CallsWellFormed, WellFormed, Typed
  <1>2. tmpl \in TmplRec
    BY CardTemplateSyncAssumption DEF SyncInit, TmplRec
  <1>3. held \in [Cards -> HeldRec]
    <2>1. \A x \in Choices(tmpl.body) :
            [version |-> 1, refs |-> Applicable(tmpl.body, x), selected |-> x] \in HeldRec
      BY DEF HeldRec, Applicable, Choices
    <2> QED BY <2>1 DEF SyncInit
  <1>4. prov \in [Tasks -> ProvRec]
    <2> SUFFICES ASSUME NEW t \in Tasks PROVE prov[t] \in ProvRec
      BY DEF SyncInit
    <2>1. CASE task[t].live /\ Origin[t].own
      <3>1. task[t].card \in Cards /\ t \in TasksOf(task[t].card)
        <4>1. task[t] # Unborn
          BY <2>1 DEF Unborn
        <4>2. \E c \in Cards, d \in SUBSET Tasks : task[t] = FromTemplate(c, d)
          BY <4>1 DEF SyncInit, Init
        <4> QED BY <2>1, <4>2 DEF FromTemplate, TasksOf
      <3>2. Origin[t].ref \in held[task[t].card].refs
        BY <2>1, <3>1 DEF SyncInit
      <3>3. Origin[t].ref \in Refs
        BY <1>3, <3>1, <3>2 DEF HeldRec
      <3>4. SnapshotOf(tmpl.body[Origin[t].ref]) \in SnapRec
        <4>1. Origin[t].ref \in Refs /\ tmpl.body[Origin[t].ref] # Absent
          BY <3>1, <3>2 DEF SyncInit, Applicable
        <4> QED BY <1>2, <4>1, SnapshotType DEF TmplRec, BodyRec
      <3> QED BY <2>1, <3>3, <3>4, SyncLiterals DEF SyncInit
    <2>2. CASE ~(task[t].live /\ Origin[t].own)
      BY <2>2, SyncLiterals, CardTemplateSyncAssumption DEF SyncInit
    <2> QED BY <2>1, <2>2
  <1>5. sync \in [Syncs -> SyncRec] /\ \A s \in Syncs : sync[s].pc = "idle"
    BY SyncLiterals DEF SyncInit
  <1> QED BY <1>1, <1>2, <1>3, <1>4, <1>5 DEF SyncTyped, SyncTypeOK, SyncRec, Typed, Active

\* Rows, plans and Card snapshots keep their types, whatever updates, Template
\* saves and Task requests overlap.
THEOREM SyncIsTyped == SyncSpec => []SyncTypeOK
  <1>1. SyncTyped => SyncTypeOK
    BY DEF SyncTyped
  <1> QED BY <1>1, InitSyncTyped, NextSyncTyped, PTL DEF SyncSpec

-----------------------------------------------------------------------------
\* What an update relies on: as for the requests, a row it read is behind the
\* stored one or is the stored one, and while the version of its Card is the
\* one it read, what it read of the Card's graph is current.

ReadsBehind(s) ==
  /\ Active(s) => Past(sync[s].base, card[sync[s].card])
  /\ sync[s].pc = "rows" => Past(sync[s].tmpl, tmpl)
  /\ \A t \in Tasks : IsRead(sync[s].rows[t]) =>
       sync[s].pc = "rows" /\ Past(sync[s].rows[t], task[t])
GraphSeen(s) ==
  sync[s].pc = "rows" /\ sync[s].base.version = card[sync[s].card].version =>
    \A t \in Tasks : IsRead(sync[s].rows[t]) =>
      SameInGraph(sync[s].rows[t], task[t], sync[s].card)
SyncInv == SyncTyped /\ RInv /\ \A s \in Syncs : ReadsBehind(s) /\ GraphSeen(s)

\* An id an update derives is the same each time a ref is added to a Card, and
\* a row it puts starts at version 1 again.  Nobody may still hold a row that
\* was read under the id before it was deleted: its version would be mistaken
\* for the new row's.
Unheld(t, s) ==
  /\ \A r \in Requests : pc[r] = "working" =>
       call[r].id # t /\ ~IsRead(walk[r][t]) /\ ~IsRead(scan[r][t])
  /\ \A u \in Syncs \ {s} : ~IsRead(sync[u].rows[t])
AddsUnheld == \A s \in Syncs : SyncApply(s) =>
                \A t \in AddedIds(s) : task[t].version = 0 \/ Unheld(t, s)
NoRowOutlivesItsTask == [][AddsUnheld]_<<vars, syncVars>>

\* The tables move forward under the requests: a row that changes has a later
\* version, and a Card whose version stays keeps its graph.
Forward(t) == task'[t] = task[t] \/ task'[t].version > task[t].version
CardForward(c) == card'[c] = card[c] \/ card'[c].version > card[c].version
GraphStays(c) == card'[c].version = card[c].version =>
                   \A t \in Tasks : SameInGraph(task[t], task'[t], c)

LEMMA RequestsMoveForward ==
  ASSUME RInv, [Next]_vars
  PROVE  /\ \A t \in Tasks : Forward(t)
         /\ \A c \in Cards : CardForward(c) /\ GraphStays(c)
  <1>1. ASSUME UNCHANGED task
        PROVE  /\ \A t \in Tasks : Forward(t)
               /\ \A c \in Cards : GraphStays(c)
    BY <1>1 DEF Forward, GraphStays, SameInGraph
  <1>2. ASSUME NEW r \in Requests, Commit(r)
        PROVE  /\ \A t \in Tasks : Forward(t)
               /\ \A c \in Cards : CardForward(c) /\ GraphStays(c)
    <2> DEFINE q == call[r]
    <2>1. /\ q.id \in Tasks /\ task[q.id] = q.before /\ task'[q.id] = q.after
          /\ \A t \in Tasks \ {q.id} : task'[t] = task[t]
          /\ q.before \in TaskRec /\ q.after \in TaskRec
          /\ q.after.version = q.before.version + 1
      BY <1>2, AtCommit, CommittedRow DEF WellFormed
    <2>2. \A c \in Cards : card[c].version \in Nat
      BY DEF RInv, TypeOK, CardRec
    <2>3. \A t \in Tasks : Forward(t)
      BY <2>1 DEF Forward, TaskRec
    <2>4. ASSUME NEW c \in Cards PROVE CardForward(c)
      BY <1>2, <2>2, CommittedCards DEF CardForward
    <2>5. ASSUME NEW c \in Cards, card'[c].version = card[c].version, NEW t \in Tasks
          PROVE  SameInGraph(task[t], task'[t], c)
      <3>1. c \notin Touched(q)
        BY <1>2, <2>2, <2>5, CommittedCards
      <3>2. SameInGraph(q.before, q.after, c)
        BY <2>1, <3>1, UntouchedIsSame
      <3>3. CASE t = q.id
        BY <2>1, <3>2, <3>3
      <3>4. CASE t # q.id
        BY <2>1, <3>4 DEF SameInGraph
      <3> QED BY <3>3, <3>4
    <2> QED BY <2>3, <2>4, <2>5 DEF GraphStays
  <1>3. ASSUME NEW r \in Requests, NEW c \in Cards,
               UpdateCard(r, c) \/ ParkCard(r, c) \/ ResumeCard(r, c)
                 \/ \E st \in ActiveStages : UpdateCardStage(r, c, st),
               NEW d \in Cards
        PROVE  CardForward(d)
    <2>1. TypeOK
      BY DEF RInv
    <2>2. PICK row \in CardRec : /\ row.version = card[c].version
                                 /\ \E kind \in CardCalls : WriteCard(kind, r, c, row)
      BY <1>3, <2>1, CardCallWrites
    <2>3. card' = [card EXCEPT ![c] = [row EXCEPT !.version = row.version + 1]]
      BY <2>2 DEF WriteCard
    <2> QED BY <2>1, <2>2, <2>3 DEF CardForward, TypeOK, CardRec
  <1>4. ASSUME UNCHANGED card PROVE \A c \in Cards : CardForward(c)
    BY <1>4 DEF CardForward
  <1>5. ASSUME NEW r \in Requests, Call(r)
        PROVE  UNCHANGED task /\ \A c \in Cards : CardForward(c)
    <2>1. UNCHANGED task
      BY <1>5 DEF Call, CreateTask, UpdateTask, DeleteTask, Begin, UpdateCard, ParkCard, ResumeCard,
                  UpdateCardStage, WriteCard
    <2>2. \A c \in Cards : CardForward(c)
      BY <1>3, <1>4, <1>5 DEF Call, CreateTask, UpdateTask, DeleteTask, Begin
    <2> QED BY <2>1, <2>2
  <1>6. ASSUME NEW r \in Requests, Handle(r) PROVE UNCHANGED <<task, card>> \/ Commit(r)
    BY <1>6 DEF Handle, PinCard, LoadCard, LoadFails, ReadPrerequisite, ScanRow, Refuse, Conflict
  <1>7. CASE UNCHANGED vars
    BY <1>1, <1>4, <1>7 DEF vars
  <1> QED BY <1>1, <1>2, <1>4, <1>5, <1>6, <1>7 DEF Next, Quiet

-----------------------------------------------------------------------------
\* The commit of an update.

\* The conditions of the transaction make what it read what is stored: the
\* Card and its Tasks, the rows it rewrites, the Template.
LEMMA AtApply ==
  ASSUME SyncInv, NEW s \in Syncs, SyncApply(s)
  PROVE  /\ sync[s].card \in Cards /\ sync[s].base = card[sync[s].card] /\ sync[s].tmpl = tmpl
         /\ \A t \in Tasks : IsRead(sync[s].rows[t]) /\ SameInGraph(sync[s].rows[t], task[t], sync[s].card)
         /\ \A t \in Rewritten(s) : sync[s].rows[t] = task[t]
         /\ \A t \in AddedIds(s) : ~task[t].live
         /\ Rows(s) = TasksOf(sync[s].card)
         /\ AddedIds(s) \cap Rows(s) = {}
  <1> DEFINE k == sync[s].card
  <1>1. /\ sync[s].pc = "rows" /\ \A t \in Tasks : IsRead(sync[s].rows[t])
        /\ SyncConditionsHold(s)
    BY DEF SyncApply, Planned
  <1>2. k \in Cards /\ ReadsBehind(s) /\ GraphSeen(s)
    BY <1>1 DEF SyncInv, SyncTyped, Active
  <1>3. sync[s].base = card[k] /\ sync[s].tmpl = tmpl
    BY <1>1, <1>2 DEF ReadsBehind, Active, Past, SyncConditionsHold
  <1>4. \A t \in Tasks : SameInGraph(sync[s].rows[t], task[t], k)
    BY <1>1, <1>2, <1>3 DEF GraphSeen
  <1>5. Rewritten(s) \subseteq Tasks
    BY PlanTypes DEF SyncInv, SyncTyped
  <1>6. \A t \in Rewritten(s) : sync[s].rows[t] = task[t]
    BY <1>1, <1>2, <1>5 DEF ReadsBehind, Past, SyncConditionsHold
  <1>7. \A t \in AddedIds(s) : ~task[t].live
    BY <1>1 DEF SyncConditionsHold
  <1>8. Rows(s) = TasksOf(k)
    BY <1>4 DEF Rows, TasksOf, SameInGraph
  <1>9. AddedIds(s) \cap Rows(s) = {}
    BY <1>7, <1>8 DEF TasksOf
  <1> QED BY <1>1, <1>2, <1>3, <1>4, <1>6, <1>7, <1>8, <1>9

\* A row the update adds is new, open and on its Card.
LEMMA AddedRowIs ==
  ASSUME NEW s \in Syncs, NEW t
  PROVE  /\ AddedRow(s, t).live /\ AddedRow(s, t).card = sync[s].card
         /\ AddedRow(s, t).status = "todo" /\ AddedRow(s, t).version = 1
         /\ AddedRow(s, t).deps = Resolved(s, Body(s)[RefOfAdded(s, t)].edges)
  BY DEF AddedRow, FromTemplate

\* The tables after the commit of an update.
LEMMA AppliedTables ==
  ASSUME SyncInv, NEW s \in Syncs, SyncApply(s)
  PROVE  /\ \A t \in AddedIds(s) : task'[t] = AddedRow(s, t)
         /\ \A t \in Rewritten(s) : task'[t] = RewrittenRow(s, t)
         /\ \A t \in Tasks : t \notin AddedIds(s) /\ t \notin Rewritten(s) => task'[t] = task[t]
         /\ card'[sync[s].card] = SyncedCard(s)
         /\ card'[sync[s].card].version = card[sync[s].card].version + 1
         /\ \A c \in Cards : c # sync[s].card => card'[c] = card[c]
         /\ \A t \in Tasks : task[t].live /\ task[t].card = sync[s].card =>
              task'[t].live /\ task'[t].card = sync[s].card
         /\ \A t \in AddedIds(s) : task'[t].live /\ task'[t].card = sync[s].card
         /\ \A t \in Tasks, c \in Cards : c # sync[s].card => SameInGraph(task[t], task'[t], c)
  <1> DEFINE k == sync[s].card
  <1>1. SyncTypeOK /\ k \in Cards /\ AddedIds(s) \subseteq Tasks /\ Rewritten(s) \subseteq Rows(s)
        /\ Rows(s) \subseteq Tasks
    BY AtApply, AddedOnce, PlanTypes DEF SyncInv, SyncTyped
  <1>2. \A t \in AddedIds(s) : t \notin Rewritten(s) /\ ~task[t].live
    BY <1>1, AtApply
  <1>3. /\ \A t \in AddedIds(s) : task'[t] = AddedRow(s, t)
        /\ \A t \in Rewritten(s) : task'[t] = RewrittenRow(s, t)
        /\ \A t \in Tasks : t \notin AddedIds(s) /\ t \notin Rewritten(s) => task'[t] = task[t]
    BY <1>1, <1>2 DEF SyncApply
  <1>4. /\ card'[k] = SyncedCard(s) /\ \A c \in Cards : c # k => card'[c] = card[c]
    BY <1>1 DEF SyncApply, SyncTypeOK, TypeOK
  <1>5. card'[k].version = card[k].version + 1
    BY <1>1, <1>4, AtApply, SyncedCardType
  <1>6. \A t \in AddedIds(s) : task'[t].live /\ task'[t].card = k
    BY <1>3, AddedRowIs
  <1>7. \A t \in Rewritten(s) : task'[t].live /\ task'[t].card = k /\ task[t].live /\ task[t].card = k
    BY <1>1, <1>3, SyncRows, AtApply DEF TasksOf
  <1>8. ASSUME NEW t \in Tasks, NEW c \in Cards, c # k PROVE SameInGraph(task[t], task'[t], c)
    <2>1. CASE t \in AddedIds(s)
      BY <1>2, <1>6, <1>8, <2>1 DEF SameInGraph
    <2>2. CASE t \in Rewritten(s)
      BY <1>7, <1>8, <2>2 DEF SameInGraph
    <2>3. CASE t \notin AddedIds(s) /\ t \notin Rewritten(s)
      BY <1>3, <2>3 DEF SameInGraph
    <2> QED BY <2>1, <2>2, <2>3
  <1>9. ASSUME NEW t \in Tasks, task[t].live, task[t].card = k PROVE task'[t].live /\ task'[t].card = k
    BY <1>3, <1>6, <1>7, <1>9
  <1> QED BY <1>3, <1>4, <1>5, <1>6, <1>8, <1>9

LEMMA SameInGraphTwice ==
  ASSUME NEW a, NEW b, NEW c, NEW k, SameInGraph(a, b, k), SameInGraph(b, c, k)
  PROVE  SameInGraph(a, c, k)
  BY DEF SameInGraph

\* A row read earlier stays behind the stored one, unless its id was reborn.
LEMMA PastStays ==
  ASSUME SyncInv, NEW s \in Syncs, SyncApply(s), NEW t \in Tasks, NEW row \in TaskRec,
         Past(row, task[t]), t \in AddedIds(s) => task[t].version = 0
  PROVE  Past(row, task'[t])
  <1>1. row.version \in Nat /\ task[t].version \in Nat
    BY DEF SyncInv, SyncTyped, Typed, TypeOK, TaskRec
  <1>2. CASE t \in AddedIds(s)
    <2>1. task'[t].version = 1
      BY <1>2, AppliedTables, AddedRowIs
    <2> QED BY <1>1, <1>2, <2>1 DEF Past
  <1>3. CASE t \in Rewritten(s)
    <2>1. SyncTypeOK /\ sync[s].card \in Cards
      BY AtApply DEF SyncInv, SyncTyped
    <2>2. task'[t].version = task[t].version + 1
      BY <1>3, <2>1, AppliedTables, SyncRows, AtApply
    <2> QED BY <1>1, <2>2 DEF Past
  <1>4. CASE t \notin AddedIds(s) /\ t \notin Rewritten(s)
    BY <1>4, AppliedTables
  <1> QED BY <1>2, <1>3, <1>4

\* The edges an update writes lead to Tasks of its Card.
LEMMA ApplyKeepsEdgesOnCard ==
  ASSUME SyncInv, NEW s \in Syncs, SyncApply(s)
  PROVE  EdgesStayOnCard'
  <1> DEFINE k == sync[s].card
  <1>1. SyncTypeOK /\ k \in Cards /\ k # NoCard /\ EdgesStayOnCard
    BY AtApply, TaskCardsAssumption DEF SyncInv, SyncTyped, RInv
  <1>2. \A p \in AddedIds(s) \cup Mine(s) : p \in Tasks /\ task'[p].live /\ task'[p].card = k
    BY <1>1, PlanTypes, AddedOnce, AppliedTables, AtApply DEF TasksOf
  <1>3. \A refs : \A p \in Resolved(s, refs) : task'[p].live /\ task'[p].card = k
    BY <1>1, <1>2, ResolvedTasks
  <1>4. ASSUME NEW t \in Tasks, task[t].live, NEW p \in task[t].deps, task[t].card = k
        PROVE  task'[p].live /\ task'[p].card = k
    <2>1. p \in Tasks /\ task[p].live /\ task[p].card = k
      BY <1>1, <1>4 DEF EdgesStayOnCard, SyncTypeOK, TypeOK, TaskRec
    <2> QED BY <2>1, AppliedTables
  <1> SUFFICES ASSUME NEW t \in Tasks, task'[t].live, NEW p \in task'[t].deps
               PROVE  task'[t].card # NoCard /\ task'[p].live /\ task'[p].card = task'[t].card
    BY DEF EdgesStayOnCard
  <1>5. CASE t \in AddedIds(s)
    <2>1. task'[t].card = k /\ task'[t].deps = Resolved(s, Body(s)[RefOfAdded(s, t)].edges)
      BY <1>5, AppliedTables, AddedRowIs
    <2> QED BY <1>1, <1>3, <2>1
  <1>6. CASE t \in Rewritten(s)
    <2>1. /\ task'[t].card = k /\ task'[t].deps = NewEdges(s, t) /\ t \in Tasks
          /\ sync[s].rows[t] = task[t] /\ task[t].live /\ task[t].card = k
      BY <1>1, <1>6, AppliedTables, SyncRows, AtApply, PlanTypes DEF TasksOf
    <2>2. CASE t \in Relinked(s)
      BY <1>1, <1>3, <2>1, <2>2 DEF NewEdges
    <2>3. CASE t \notin Relinked(s)
      BY <1>1, <1>4, <2>1, <2>3 DEF NewEdges
    <2> QED BY <2>2, <2>3
  <1>7. CASE t \notin AddedIds(s) /\ t \notin Rewritten(s)
    <2>1. task'[t] = task[t]
      BY <1>7, AppliedTables
    <2>2. p \in Tasks /\ task[t].card # NoCard /\ task[p].live /\ task[p].card = task[t].card
      BY <1>1, <2>1 DEF EdgesStayOnCard, SyncTypeOK, TypeOK, TaskRec
    <2>3. CASE task[t].card = k
      BY <1>1, <1>4, <2>1, <2>3
    <2>4. CASE task[t].card # k
      <3>1. task[t].card \in Cards
        BY <1>1, <2>2 DEF SyncTypeOK, TypeOK, TaskRec
      <3>2. SameInGraph(task[p], task'[p], task[t].card)
        BY <2>2, <2>4, <3>1, AppliedTables
      <3> QED BY <2>1, <2>2, <3>2 DEF SameInGraph
    <2> QED BY <2>3, <2>4
  <1> QED BY <1>5, <1>6, <1>7

\* An update keeps what the requests rely on, provided nobody holds an old row
\* of an id it adds.
LEMMA ApplyKeepsRInv ==
  ASSUME SyncInv, NEW s \in Syncs, SyncApply(s),
         \A t \in AddedIds(s) : task[t].version = 0 \/ Unheld(t, s)
  PROVE  RInv'
  <1> DEFINE k == sync[s].card
  <1>1. /\ RInv /\ SyncTyped /\ SyncTypeOK /\ k \in Cards
        /\ UNCHANGED <<pc, call, pins, walk, scan, base>>
    BY AtApply DEF SyncInv, SyncTyped, SyncApply, local
  <1>2. TypeOK'
    BY <1>1, ApplyKeepsTypes DEF SyncTyped, Typed
  <1>3. Numbered'
    <2>1. ASSUME NEW t \in Tasks, task'[t].version = 0 PROVE task'[t] = Unborn
      <3>1. t \notin AddedIds(s)
        BY <2>1, AppliedTables, AddedRowIs
      <3>2. t \notin Rewritten(s)
        <4>1. ASSUME t \in Rewritten(s) PROVE task'[t].version = sync[s].rows[t].version + 1
          BY <1>1, <4>1, AppliedTables, SyncRows
        <4>2. ASSUME t \in Rewritten(s) PROVE sync[s].rows[t].version \in Nat
          BY <1>1, <4>2, PlanTypes DEF TaskRec
        <4> QED BY <2>1, <4>1, <4>2
      <3> QED BY <1>1, <2>1, <3>1, <3>2, AppliedTables DEF RInv, Numbered
    <2>2. ASSUME NEW c \in Cards PROVE card'[c].version >= 1
      <3>1. card[c].version \in Nat /\ card[c].version >= 1
        BY <1>1 DEF RInv, TypeOK, CardRec, Numbered
      <3> QED BY <3>1, AppliedTables
    <2> QED BY <2>1, <2>2 DEF Numbered
  <1>4. CallsWellFormed' /\ PinsComeFirst' /\ IdleHoldsNothing'
    BY <1>1 DEF RInv, CallsWellFormed, WellFormed, PinsComeFirst, AllPinned, IdleHoldsNothing
  <1>5. ReadsArePast'
    <2> SUFFICES ASSUME NEW r \in Requests, pc[r] = "working"
                 PROVE  /\ Past(call[r].before, task'[call[r].id])
                        /\ \A t \in Tasks : /\ IsRead(walk[r][t]) => Past(walk[r][t], task'[t])
                                            /\ IsRead(scan[r][t]) => Past(scan[r][t], task'[t])
                        /\ \A c \in Cards : /\ pins[r][c] <= card'[c].version
                                            /\ Past(base[r][c], card'[c])
      BY <1>1 DEF ReadsArePast
    <2>1. Past(call[r].before, task'[call[r].id])
      <3>1. /\ call[r].id \in Tasks /\ call[r].before \in TaskRec
            /\ Past(call[r].before, task[call[r].id])
        BY <1>1 DEF RInv, TypeOK, CallsWellFormed, WellFormed, ReadsArePast
      <3>2. call[r].id \in AddedIds(s) => task[call[r].id].version = 0
        BY DEF Unheld
      <3> QED BY <3>1, <3>2, PastStays
    <2>2. ASSUME NEW t \in Tasks, IsRead(walk[r][t]) PROVE Past(walk[r][t], task'[t])
      <3>1. walk[r][t] \in TaskRec /\ Past(walk[r][t], task[t])
        <4>1. walk[r][t] \in TaskRec \cup {NotRead}
          BY <1>1 DEF RInv, TypeOK
        <4> QED BY <1>1, <2>2, <4>1, ReadRows DEF RInv, ReadsArePast
      <3>2. t \in AddedIds(s) => task[t].version = 0
        BY <2>2 DEF Unheld
      <3> QED BY <3>1, <3>2, PastStays
    <2>3. ASSUME NEW t \in Tasks, IsRead(scan[r][t]) PROVE Past(scan[r][t], task'[t])
      <3>1. scan[r][t] \in TaskRec /\ Past(scan[r][t], task[t])
        <4>1. scan[r][t] \in TaskRec \cup {NotRead}
          BY <1>1 DEF RInv, TypeOK
        <4> QED BY <1>1, <2>3, <4>1, ReadRows DEF RInv, ReadsArePast
      <3>2. t \in AddedIds(s) => task[t].version = 0
        BY <2>3 DEF Unheld
      <3> QED BY <3>1, <3>2, PastStays
    <2>4. ASSUME NEW c \in Cards PROVE pins[r][c] <= card'[c].version /\ Past(base[r][c], card'[c])
      <3>1. /\ pins[r][c] \in Nat /\ base[r][c].version \in Nat /\ card[c].version \in Nat
            /\ pins[r][c] <= card[c].version /\ Past(base[r][c], card[c])
        BY <1>1 DEF RInv, TypeOK, CardRec, ReadsArePast
      <3>2. card'[c] = card[c] \/ card'[c].version = card[c].version + 1
        BY AppliedTables
      <3> QED BY <3>1, <3>2 DEF Past
    <2> QED BY <2>1, <2>2, <2>3, <2>4
  <1>6. PinnedGraphIsCurrent'
    <2> SUFFICES ASSUME NEW r \in Requests, NEW c \in Cards, pc[r] = "working",
                        pins[r][c] = card'[c].version, NEW t \in Tasks
                 PROVE  /\ IsRead(walk[r][t]) => SameInGraph(walk[r][t], task'[t], c)
                        /\ IsRead(scan[r][t]) => SameInGraph(scan[r][t], task'[t], c)
      BY <1>1 DEF PinnedGraphIsCurrent
    <2>1. c # k
      <3>1. pins[r][k] \in Nat /\ card[k].version \in Nat /\ pins[r][k] <= card[k].version
        BY <1>1 DEF RInv, TypeOK, CardRec, ReadsArePast
      <3> QED BY <3>1, AppliedTables
    <2>2. card'[c] = card[c] /\ SameInGraph(task[t], task'[t], c)
      BY <2>1, AppliedTables
    <2>3. /\ IsRead(walk[r][t]) => SameInGraph(walk[r][t], task[t], c)
          /\ IsRead(scan[r][t]) => SameInGraph(scan[r][t], task[t], c)
      BY <1>1, <2>2 DEF RInv, PinnedGraphIsCurrent
    <2> QED BY <2>2, <2>3, SameInGraphTwice
  <1>7. EdgesStayOnCard'
    BY ApplyKeepsEdgesOnCard
  <1> QED BY <1>2, <1>3, <1>4, <1>5, <1>6, <1>7 DEF RInv

-----------------------------------------------------------------------------
\* Every step keeps what the updates rely on.

\* An update that has ended, or has not begun, holds nothing.
LEMMA DoneHoldsNothing ==
  ASSUME SyncTyped, NEW s \in Syncs, SyncDone(s)
  PROVE  /\ ~Active(s)' /\ sync'[s].pc = "answered" /\ \A t \in Tasks : ~IsRead(sync'[s].rows[t])
         /\ \A u \in Syncs : u # s => sync'[u] = sync[u]
  <1> DEFINE done == [IdleSync EXCEPT !.pc = "answered"]
  <1>1. sync \in [Syncs -> SyncRec] /\ sync' = [sync EXCEPT ![s] = done]
    BY DEF SyncTyped, SyncTypeOK, SyncRec, SyncDone
  <1>2. done.pc = "answered" /\ done.rows = IdleSync.rows
    BY SyncLiterals DEF SyncRec
  <1> HIDE DEF done
  <1> QED BY <1>1, <1>2, SyncLiterals DEF Active

LEMMA HoldsNothing ==
  ASSUME NEW s \in Syncs, sync[s].pc \notin {"card", "rows"}, \A t \in Tasks : ~IsRead(sync[s].rows[t])
  PROVE  ReadsBehind(s) /\ GraphSeen(s)
  BY DEF ReadsBehind, GraphSeen, Active

LEMMA HoldsNothingNext ==
  ASSUME NEW s \in Syncs, sync'[s].pc \notin {"card", "rows"},
         \A t \in Tasks : ~IsRead(sync'[s].rows[t])
  PROVE  ReadsBehind(s)' /\ GraphSeen(s)'
  BY DEF ReadsBehind, GraphSeen, Active

\* An update whose reads stand where they stood, in tables that moved forward.
LEMMA ReadsCarryOn ==
  ASSUME SyncInv, SyncTyped', NEW u \in Syncs, sync'[u] = sync[u],
         tmpl' = tmpl \/ tmpl'.version > tmpl.version,
         \A c \in Cards : CardForward(c) /\ GraphStays(c),
         \A t \in Tasks : IsRead(sync[u].rows[t]) => Past(sync[u].rows[t], task'[t])
  PROVE  ReadsBehind(u)' /\ GraphSeen(u)'
  <1> DEFINE k == sync[u].card
  <1>1. ReadsBehind(u) /\ GraphSeen(u) /\ SyncTyped
    BY DEF SyncInv
  <1>2. Active(u) => /\ k \in Cards /\ sync[u].base.version \in Nat /\ card[k].version \in Nat
                     /\ sync[u].base.version <= card[k].version /\ card[k].version <= card'[k].version
                     /\ Past(sync[u].base, card'[k])
    <2> SUFFICES ASSUME Active(u)
                 PROVE  /\ k \in Cards /\ sync[u].base.version \in Nat /\ card[k].version \in Nat
                        /\ sync[u].base.version <= card[k].version
                        /\ card[k].version <= card'[k].version
                        /\ Past(sync[u].base, card'[k])
      OBVIOUS
    <2>1. k \in Cards /\ Past(sync[u].base, card[k])
      BY <1>1 DEF SyncTyped, ReadsBehind
    <2>2. sync[u].base.version \in Nat /\ card[k].version \in Nat /\ card'[k].version \in Nat
      <3>1. sync[u].base \in CardRec /\ card[k] \in CardRec
        BY <1>1, <2>1 DEF SyncTyped, SyncTypeOK, TypeOK
      <3>2. card'[k] \in CardRec
        BY <2>1 DEF SyncTyped, SyncTypeOK, TypeOK
      <3> QED BY <3>1, <3>2 DEF CardRec
    <2>3. CardForward(k)
      BY <2>1
    <2> QED BY <2>1, <2>2, <2>3 DEF Past, CardForward
  <1>3. sync[u].pc = "rows" => Past(sync[u].tmpl, tmpl')
    <2>1. sync[u].tmpl.version \in Nat /\ tmpl.version \in Nat /\ tmpl'.version \in Nat
      <3>1. sync[u].tmpl \in TmplRec /\ tmpl \in TmplRec
        BY <1>1 DEF SyncTyped, SyncTypeOK
      <3>2. tmpl' \in TmplRec
        BY DEF SyncTyped, SyncTypeOK
      <3> QED BY <3>1, <3>2 DEF TmplRec
    <2>2. sync[u].pc = "rows" => Past(sync[u].tmpl, tmpl)
      BY <1>1 DEF ReadsBehind
    <2>3. CASE tmpl' = tmpl
      BY <2>2, <2>3
    <2>4. CASE tmpl'.version > tmpl.version
      BY <2>1, <2>2, <2>4 DEF Past
    <2> QED BY <2>3, <2>4
  <1>4. ReadsBehind(u)'
    BY <1>1, <1>2, <1>3 DEF ReadsBehind, Active
  <1>5. GraphSeen(u)'
    <2> SUFFICES ASSUME sync[u].pc = "rows", sync[u].base.version = card'[k].version,
                        NEW t \in Tasks, IsRead(sync[u].rows[t])
                 PROVE  SameInGraph(sync[u].rows[t], task'[t], k)
      BY DEF GraphSeen
    <2>1. k \in Cards /\ sync[u].base.version = card[k].version /\ card'[k].version = card[k].version
      BY <1>2 DEF Active
    <2>2. SameInGraph(sync[u].rows[t], task[t], k) /\ SameInGraph(task[t], task'[t], k)
      BY <1>1, <2>1 DEF GraphSeen, GraphStays
    <2> QED BY <2>2, SameInGraphTwice
  <1> QED BY <1>4, <1>5

LEMMA ApplyKeepsReads ==
  ASSUME SyncInv, NEW s \in Syncs, SyncApply(s), NEW u \in Syncs,
         \A t \in AddedIds(s) : task[t].version = 0 \/ Unheld(t, s)
  PROVE  ReadsBehind(u)' /\ GraphSeen(u)'
  <1>1. /\ SyncTyped /\ SyncTyped' /\ SyncDone(s) /\ tmpl' = tmpl
        /\ \A c \in Cards : card[c].version \in Nat
    BY ApplyKeepsTypes DEF SyncInv, SyncApply, SyncTyped, SyncTypeOK, TypeOK, CardRec
  <1>2. CASE u = s
    BY <1>1, <1>2, DoneHoldsNothing, HoldsNothingNext
  <1>3. CASE u # s
    <2>1. sync'[u] = sync[u]
      BY <1>1, <1>3, DoneHoldsNothing
    <2>2. ASSUME NEW c \in Cards PROVE CardForward(c) /\ GraphStays(c)
      BY <1>1, AppliedTables DEF CardForward, GraphStays
    <2>3. ASSUME NEW t \in Tasks, IsRead(sync[u].rows[t]) PROVE Past(sync[u].rows[t], task'[t])
      <3>1. sync[u].rows[t] \in TaskRec
        <4>1. sync[u].rows[t] \in TaskRec \cup {NotRead}
          BY <1>1 DEF SyncTyped, SyncTypeOK
        <4> QED BY <2>3, <4>1, ReadRows
      <3>2. Past(sync[u].rows[t], task[t])
        BY <2>3 DEF SyncInv, ReadsBehind
      <3>3. t \in AddedIds(s) => task[t].version = 0
        BY <1>3, <2>3 DEF Unheld
      <3> QED BY <3>1, <3>2, <3>3, PastStays
    <2> QED BY <1>1, <2>1, <2>2, <2>3, ReadsCarryOn
  <1> QED BY <1>2, <1>3

LEMMA RequestKeepsReads ==
  ASSUME SyncInv, SyncTyped', Request, NEW u \in Syncs
  PROVE  ReadsBehind(u)' /\ GraphSeen(u)'
  <1>1. RInv /\ [Next]_vars /\ UNCHANGED <<tmpl, sync>>
    BY DEF SyncInv, Request, Next
  <1>2. \A t \in Tasks : IsRead(sync[u].rows[t]) => Past(sync[u].rows[t], task'[t])
    <2> SUFFICES ASSUME NEW t \in Tasks, IsRead(sync[u].rows[t])
                 PROVE  Past(sync[u].rows[t], task'[t])
      OBVIOUS
    <2>1. /\ sync[u].rows[t] \in TaskRec \cup {NotRead} /\ task[t] \in TaskRec /\ task'[t] \in TaskRec
      BY DEF SyncInv, SyncTyped, SyncTypeOK, TypeOK
    <2>2. sync[u].rows[t] \in TaskRec
      BY <2>1, ReadRows
    <2>3. Past(sync[u].rows[t], task[t])
      BY DEF SyncInv, ReadsBehind
    <2>4. Forward(t)
      BY <1>1, RequestsMoveForward
    <2> QED BY <2>1, <2>2, <2>3, <2>4 DEF Past, Forward, TaskRec
  <1> QED BY <1>1, <1>2, RequestsMoveForward, ReadsCarryOn

\* The update calls' own reading steps, the Template's save, and standing still.
LEMMA QuietKeepsReads ==
  ASSUME SyncInv, SyncTyped', UNCHANGED <<task, card>>, NEW u \in Syncs,
         \/ sync' = sync /\ (tmpl' = tmpl \/ tmpl'.version > tmpl.version)
         \/ \E s \in Syncs : \/ \E c \in Cards : SyncReadCard(s, c)
                             \/ SyncReadTemplate(s) \/ SyncRefuse(s)
                             \/ \E t \in Tasks : SyncScanRow(s, t)
  PROVE  ReadsBehind(u)' /\ GraphSeen(u)'
  <1>1. ASSUME sync'[u] = sync[u], tmpl' = tmpl \/ tmpl'.version > tmpl.version
        PROVE  ReadsBehind(u)' /\ GraphSeen(u)'
    <2>1. \A c \in Cards : CardForward(c) /\ GraphStays(c)
      BY DEF CardForward, GraphStays, SameInGraph
    <2>2. \A t \in Tasks : IsRead(sync[u].rows[t]) => Past(sync[u].rows[t], task'[t])
      BY DEF SyncInv, ReadsBehind
    <2> QED BY <1>1, <2>1, <2>2, ReadsCarryOn
  <1>2. /\ sync \in [Syncs -> SyncRec] /\ ReadsBehind(u) /\ GraphSeen(u)
        /\ \A t \in Tasks : task[t].version \in Nat
    BY DEF SyncInv, SyncTyped, SyncTypeOK, SyncRec, TypeOK, TaskRec
  <1>3. ASSUME NEW s \in Syncs, NEW c \in Cards, SyncReadCard(s, c)
        PROVE  ReadsBehind(u)' /\ GraphSeen(u)'
    <2>1. CASE u = s
      <3>1. /\ sync'[u].pc = "card" /\ sync'[u].card = c /\ sync'[u].base = card[c]
            /\ sync'[u].rows = sync[u].rows /\ sync[u].pc = "idle"
        BY <1>2, <1>3, <2>1 DEF SyncReadCard, SyncRec
      <3>2. \A t \in Tasks : ~IsRead(sync'[u].rows[t])
        BY <1>2, <3>1 DEF ReadsBehind
      <3>3. Past(card[c], card'[c])
        <4>1. card[c].version \in Nat
          BY DEF SyncInv, RInv, TypeOK, CardRec
        <4> QED BY <4>1 DEF Past
      <3> QED BY <3>1, <3>2, <3>3 DEF ReadsBehind, GraphSeen, Active
    <2>2. CASE u # s
      BY <1>1, <1>2, <1>3, <2>2 DEF SyncReadCard
    <2> QED BY <2>1, <2>2
  <1>4. ASSUME NEW s \in Syncs, SyncReadTemplate(s)
        PROVE  ReadsBehind(u)' /\ GraphSeen(u)'
    <2>1. CASE u = s
      <3>1. /\ sync'[u].pc = "rows" /\ sync'[u].card = sync[u].card /\ sync'[u].base = sync[u].base
            /\ sync'[u].rows = sync[u].rows /\ sync'[u].tmpl = tmpl /\ tmpl' = tmpl
            /\ sync[u].pc = "card"
        <4>1. PICK want \in Choices(tmpl.body) :
                sync' = [sync EXCEPT ![s].pc = "rows", ![s].tmpl = tmpl, ![s].want = want]
          BY <1>4 DEF SyncReadTemplate
        <4> DEFINE new == [sync[s] EXCEPT !.pc = "rows", !.tmpl = tmpl, !.want = want]
        <4>2. sync' = [sync EXCEPT ![s] = new]
          BY <1>2, <4>1
        <4>3. /\ new.pc = "rows" /\ new.card = sync[s].card /\ new.base = sync[s].base
              /\ new.rows = sync[s].rows /\ new.tmpl = tmpl
          BY <1>2 DEF SyncRec
        <4> HIDE DEF new
        <4>4. sync'[u] = new
          BY <1>2, <2>1, <4>2
        <4>5. sync[u].pc = "card" /\ tmpl' = tmpl
          BY <1>4, <2>1 DEF SyncReadTemplate
        <4> QED BY <2>1, <4>3, <4>4, <4>5
      <3>2. \A t \in Tasks : ~IsRead(sync'[u].rows[t])
        BY <1>2, <3>1 DEF ReadsBehind
      <3>3. Past(tmpl, tmpl)
        <4>1. tmpl.version \in Nat
          BY DEF SyncInv, SyncTyped, SyncTypeOK, TmplRec
        <4> QED BY <4>1 DEF Past
      <3> QED BY <1>2, <3>1, <3>2, <3>3 DEF ReadsBehind, GraphSeen, Active
    <2>2. CASE u # s
      BY <1>1, <1>2, <1>4, <2>2 DEF SyncReadTemplate
    <2> QED BY <2>1, <2>2
  <1>5. ASSUME NEW s \in Syncs, NEW t \in Tasks, SyncScanRow(s, t)
        PROVE  ReadsBehind(u)' /\ GraphSeen(u)'
    <2>1. CASE u = s
      <3>1. /\ sync'[u].pc = "rows" /\ sync'[u].card = sync[u].card /\ sync'[u].base = sync[u].base
            /\ sync'[u].rows[t] = task[t] /\ sync'[u].tmpl = sync[u].tmpl /\ tmpl' = tmpl
            /\ sync[u].pc = "rows"
            /\ \A p \in Tasks : p # t => sync'[u].rows[p] = sync[u].rows[p]
        BY <1>2, <1>5, <2>1 DEF SyncScanRow, SyncRec
      <3>2. Past(task[t], task[t]) /\ SameInGraph(task[t], task[t], sync[u].card)
        BY <1>2 DEF Past, SameInGraph
      <3>3. ReadsBehind(u)'
        BY <1>2, <3>1, <3>2 DEF ReadsBehind, Active
      <3>4. GraphSeen(u)'
        BY <1>2, <3>1, <3>2 DEF GraphSeen
      <3> QED BY <3>3, <3>4
    <2>2. CASE u # s
      BY <1>1, <1>2, <1>5, <2>2 DEF SyncScanRow
    <2> QED BY <2>1, <2>2
  <1>6. ASSUME NEW s \in Syncs, SyncRefuse(s)
        PROVE  ReadsBehind(u)' /\ GraphSeen(u)'
    <2>1. SyncTyped /\ SyncDone(s) /\ tmpl' = tmpl
      BY <1>6 DEF SyncInv, SyncRefuse
    <2>2. CASE u = s
      BY <2>1, <2>2, DoneHoldsNothing, HoldsNothingNext
    <2>3. CASE u # s
      BY <1>1, <2>1, <2>3, DoneHoldsNothing
    <2> QED BY <2>2, <2>3
  <1> QED BY <1>1, <1>3, <1>4, <1>5, <1>6

LEMMA NextSyncInv ==
  SyncInv /\ [SyncNext]_<<vars, syncVars>> /\ [AddsUnheld]_<<vars, syncVars>> => SyncInv'
  <1> SUFFICES ASSUME SyncInv, [SyncNext]_<<vars, syncVars>>, [AddsUnheld]_<<vars, syncVars>>
               PROVE SyncInv'
    OBVIOUS
  <1>1. SyncTyped' /\ RInv /\ SyncTyped
    BY NextSyncTyped DEF SyncInv
  <1>2. CASE Request
    <2>1. [Next]_vars
      BY <1>2 DEF Request, Next
    <2> QED BY <1>1, <1>2, <2>1, NextRInv, RequestKeepsReads DEF SyncInv
  <1>3. ASSUME NEW s \in Syncs, SyncApply(s) PROVE SyncInv'
    <2>1. ~UNCHANGED <<vars, syncVars>>
      BY <1>1, <1>3, DoneHoldsNothing DEF SyncApply, Planned, syncVars
    <2>2. \A t \in AddedIds(s) : task[t].version = 0 \/ Unheld(t, s)
      BY <1>3, <2>1 DEF AddsUnheld
    <2> QED BY <1>1, <1>3, <2>2, ApplyKeepsRInv, ApplyKeepsReads DEF SyncInv
  <1>4. ASSUME UNCHANGED vars,
               \/ sync' = sync /\ (tmpl' = tmpl \/ tmpl'.version > tmpl.version)
               \/ \E s \in Syncs : \/ \E c \in Cards : SyncReadCard(s, c)
                                   \/ SyncReadTemplate(s) \/ SyncRefuse(s)
                                   \/ \E t \in Tasks : SyncScanRow(s, t)
        PROVE  SyncInv'
    <2>1. [Next]_vars /\ UNCHANGED <<task, card>>
      BY <1>4 DEF vars
    <2> QED BY <1>1, <1>4, <2>1, NextRInv, QuietKeepsReads DEF SyncInv
  <1>5. ASSUME NEW d \in Definitions, SaveTemplate(d) PROVE SyncInv'
    <2>1. tmpl.version \in Nat
      BY <1>1 DEF SyncTyped, SyncTypeOK, TmplRec
    <2> QED BY <1>4, <1>5, <2>1 DEF SaveTemplate
  <1>6. ASSUME NEW s \in Syncs, SyncStep(s) PROVE SyncInv'
    BY <1>3, <1>4, <1>6 DEF SyncStep, SyncReadCard, SyncReadTemplate, SyncScanRow, SyncRefuse
  <1>7. CASE UNCHANGED <<vars, syncVars>>
    BY <1>4, <1>7 DEF syncVars
  <1> QED BY <1>2, <1>5, <1>6, <1>7 DEF SyncNext, AllQuiet

LEMMA InitSyncInv == SyncInit => SyncInv
  <1> SUFFICES ASSUME SyncInit PROVE SyncInv
    OBVIOUS
  <1>1. RInv
    BY InitIInv DEF SyncInit, IInv
  <1>2. \A s \in Syncs : sync[s].pc = "idle" /\ \A t \in Tasks : ~IsRead(sync[s].rows[t])
    BY SyncLiterals DEF SyncInit
  <1> QED BY <1>1, <1>2, InitSyncTyped, HoldsNothing DEF SyncInv

LEMMA SyncInvariant == SyncSpec /\ NoRowOutlivesItsTask => []SyncInv
  BY InitSyncInv, NextSyncInv, PTL DEF SyncSpec, NoRowOutlivesItsTask

\* The edges of a Card lead to its own Tasks, although an update writes rows
\* without the dependency check of the Task routes.
THEOREM EdgesSurviveUpdates == SyncSpec /\ NoRowOutlivesItsTask => []EdgesStayOnCard
  <1>1. SyncInv => EdgesStayOnCard
    BY DEF SyncInv, RInv
  <1> QED BY <1>1, SyncInvariant, PTL

\* An update moves the version of the Card whose graph it rewrites, so a pinned
\* version still says that what was read under it is current.
THEOREM PinsSurviveUpdates == SyncSpec /\ NoRowOutlivesItsTask => []PinnedGraphIsCurrent
  <1>1. SyncInv => PinnedGraphIsCurrent
    BY DEF SyncInv, RInv
  <1> QED BY <1>1, SyncInvariant, PTL

-----------------------------------------------------------------------------
\* The counters of the Card an update rewrites.

LEMMA SizeOfDisjointUnion ==
  ASSUME NEW S, NEW T, IsFiniteSet(S), IsFiniteSet(T), S \cap T = {}
  PROVE  /\ IsFiniteSet(S \cup T)
         /\ Cardinality(S \cup T) = Cardinality(S) + Cardinality(T)
         /\ Cardinality(S) \in Nat /\ Cardinality(T) \in Nat
  <1>1. Cardinality(S) \in Nat /\ Cardinality(T) \in Nat /\ Cardinality(S \cap T) = 0
    BY FS_CardinalityType, FS_EmptySet
  <1>2. /\ IsFiniteSet(S \cup T)
        /\ Cardinality(S \cup T) = Cardinality(S) + Cardinality(T) - Cardinality(S \cap T)
    BY FS_Union
  <1> QED BY <1>1, <1>2

LEMMA SizeOfDifference ==
  ASSUME NEW S, NEW T, IsFiniteSet(S), T \subseteq S
  PROVE  /\ Cardinality(S \ T) = Cardinality(S) - Cardinality(T)
         /\ Cardinality(S) \in Nat /\ Cardinality(T) \in Nat
  <1>1. IsFiniteSet(T) /\ Cardinality(S) \in Nat /\ Cardinality(T) \in Nat /\ S \cap T = T
    BY FS_Subset, FS_CardinalityType
  <1> QED BY <1>1, FS_Difference

\* The Tasks and the open Tasks of the Card after the update.
LEMMA AppliedTasks ==
  ASSUME SyncInv, NEW s \in Syncs, SyncApply(s), NEW k \in Cards, k = sync[s].card
  PROVE  /\ TasksOf(k)' = TasksOf(k) \cup AddedIds(s)
         /\ OpenTasksOf(k)' = ((OpenTasksOf(k) \cup AddedIds(s)) \cup ToRestore(s)) \ ToSkip(s)
         /\ TasksOf(k) \cap AddedIds(s) = {} /\ OpenTasksOf(k) \cap AddedIds(s) = {}
         /\ (OpenTasksOf(k) \cup AddedIds(s)) \cap ToRestore(s) = {}
         /\ ToSkip(s) \subseteq OpenTasksOf(k)
  <1>1. /\ SyncTypeOK /\ k \in Cards /\ AddedIds(s) \subseteq Tasks
        /\ Rewritten(s) \subseteq TasksOf(k) /\ AddedIds(s) \cap TasksOf(k) = {}
        /\ ToRestore(s) \subseteq Rewritten(s) /\ ToSkip(s) \subseteq Rewritten(s)
    BY AtApply, AddedOnce, PlanTypes DEF SyncInv, SyncTyped, Rewritten
  <1>2. \A t \in AddedIds(s) : task'[t].live /\ task'[t].card = k /\ IsOpen(task'[t].status)
    BY AppliedTables, AddedRowIs DEF IsOpen
  <1>3. ASSUME NEW t \in Rewritten(s)
        PROVE  task'[t].live /\ task'[t].card = k /\ task'[t].status = NewStatus(s, t)
    BY <1>1, AppliedTables, SyncRows
  <1>4. \A t \in ToSkip(s) : task'[t].status = "skipped" /\ IsOpen(task[t].status)
    <2> SUFFICES ASSUME NEW t \in ToSkip(s)
                 PROVE  task'[t].status = "skipped" /\ IsOpen(task[t].status)
      OBVIOUS
    <2>1. NewStatus(s, t) = "skipped"
      BY PlanParts DEF NewStatus
    <2>2. sync[s].rows[t] = task[t]
      BY <1>1, AtApply
    <2> QED BY <1>1, <1>3, <2>1, <2>2 DEF ToSkip
  <1>5. \A t \in ToRestore(s) : task'[t].status = "todo" /\ task[t].status = "skipped"
    <2> SUFFICES ASSUME NEW t \in ToRestore(s)
                 PROVE  task'[t].status = "todo" /\ task[t].status = "skipped"
      OBVIOUS
    <2>1. NewStatus(s, t) = "todo"
      BY PlanParts DEF NewStatus
    <2>2. sync[s].rows[t] = task[t]
      BY <1>1, AtApply
    <2> QED BY <1>1, <1>3, <2>1, <2>2 DEF ToRestore, Restorable
  <1>6. \A t \in Rewritten(s) : t \notin ToSkip(s) /\ t \notin ToRestore(s) =>
                                  task'[t].status = task[t].status
    <2> SUFFICES ASSUME NEW t \in Rewritten(s), t \notin ToSkip(s), t \notin ToRestore(s)
                 PROVE  task'[t].status = task[t].status
      OBVIOUS
    <2>1. NewStatus(s, t) = sync[s].rows[t].status
      BY DEF NewStatus
    <2>2. sync[s].rows[t] = task[t]
      BY AtApply
    <2> QED BY <1>3, <2>1, <2>2
  <1>7. \A t \in Tasks : t \notin AddedIds(s) /\ t \notin Rewritten(s) => task'[t] = task[t]
    BY AppliedTables
  <1>8. TasksOf(k)' = TasksOf(k) \cup AddedIds(s)
    BY <1>1, <1>2, <1>3, <1>7 DEF TasksOf
  <1>9. \A t \in TasksOf(k) \cup AddedIds(s) :
          IsOpen(task'[t].status) <=> /\ t \in (OpenTasksOf(k) \cup AddedIds(s)) \cup ToRestore(s)
                                      /\ t \notin ToSkip(s)
    <2> SUFFICES ASSUME NEW t \in TasksOf(k) \cup AddedIds(s)
                 PROVE  IsOpen(task'[t].status) <=>
                          /\ t \in (OpenTasksOf(k) \cup AddedIds(s)) \cup ToRestore(s)
                          /\ t \notin ToSkip(s)
      OBVIOUS
    <2>1. CASE t \in AddedIds(s)
      BY <1>1, <1>2, <2>1
    <2>2. CASE t \in ToSkip(s)
      BY <1>4, <2>2 DEF IsOpen
    <2>3. CASE t \in ToRestore(s) /\ t \notin ToSkip(s)
      BY <1>5, <2>3 DEF IsOpen
    <2>4. CASE t \notin AddedIds(s) /\ t \notin ToSkip(s) /\ t \notin ToRestore(s)
      <3>1. task'[t].status = task[t].status
        BY <1>1, <1>6, <1>7, <2>4 DEF TasksOf
      <3> QED BY <2>4, <3>1 DEF OpenTasksOf
    <2> QED BY <2>1, <2>2, <2>3, <2>4
  <1>10. OpenTasksOf(k)' = ((OpenTasksOf(k) \cup AddedIds(s)) \cup ToRestore(s)) \ ToSkip(s)
    <2>1. OpenTasksOf(k)' = {t \in TasksOf(k) \cup AddedIds(s) : IsOpen(task'[t].status)}
      BY <1>8 DEF OpenTasksOf
    <2>2. OpenTasksOf(k) \subseteq TasksOf(k) /\ ToRestore(s) \subseteq TasksOf(k)
      BY <1>1 DEF OpenTasksOf
    <2> QED BY <1>9, <2>1, <2>2
  <1>11. (OpenTasksOf(k) \cup AddedIds(s)) \cap ToRestore(s) = {}
    BY <1>1, <1>5 DEF OpenTasksOf, IsOpen
  <1>12. ToSkip(s) \subseteq OpenTasksOf(k) /\ OpenTasksOf(k) \cap AddedIds(s) = {}
    BY <1>1, <1>4 DEF OpenTasksOf
  <1> QED BY <1>1, <1>8, <1>10, <1>11, <1>12

LEMMA ApplyKeepsCounters ==
  ASSUME SyncInv, CountersTrue, NEW s \in Syncs, SyncApply(s)
  PROVE  CountersTrue'
  <1>0. PICK k \in Cards : k = sync[s].card
    BY AtApply
  <1> DEFINE T == TasksOf(k)
             O == OpenTasksOf(k)
             A == AddedIds(s)
             R == ToRestore(s)
             K == ToSkip(s)
  <1>1. SyncTypeOK /\ k \in Cards /\ sync[s].base = card[k] /\ card'[k] = SyncedCard(s)
    BY <1>0, AtApply, AppliedTables DEF SyncInv, SyncTyped
  <1>2. /\ T' = T \cup A /\ O' = ((O \cup A) \cup R) \ K
        /\ T \cap A = {} /\ O \cap A = {} /\ (O \cup A) \cap R = {} /\ K \subseteq O
    BY <1>0, AppliedTasks
  <1>3. IsFiniteSet(T) /\ IsFiniteSet(O) /\ IsFiniteSet(A) /\ IsFiniteSet(R)
    <2>1. T \subseteq Tasks /\ O \subseteq Tasks /\ A \subseteq Tasks /\ R \subseteq Tasks
      BY <1>0, <1>1, AddedOnce, PlanTypes DEF TasksOf, OpenTasksOf, Rewritten
    <2> QED BY <2>1, TaskCardsAssumption, FS_Subset
  <1>4. card'[k].taskCount = Cardinality(T') /\ card'[k].openTaskCount = Cardinality(O')
    <2>1. /\ card'[k].taskCount = Cardinality(T) + SyncDelta(s).tasks
          /\ card'[k].openTaskCount = Cardinality(O) + SyncDelta(s).open
      BY <1>0, <1>1, SyncedCardType DEF CountersTrue
    <2>2. /\ SyncDelta(s).tasks = Cardinality(A)
          /\ SyncDelta(s).open = Cardinality(A) + Cardinality(R) - Cardinality(K)
      BY <1>0, <1>1, AddedOnce DEF SyncDelta
    <2> HIDE DEF T, O, A, R, K
    <2>3. Cardinality(T \cup A) = Cardinality(T) + Cardinality(A)
      BY <1>2, <1>3, SizeOfDisjointUnion
    <2>4. /\ IsFiniteSet(O \cup A) /\ Cardinality(O \cup A) = Cardinality(O) + Cardinality(A)
          /\ Cardinality(O) \in Nat /\ Cardinality(A) \in Nat
      BY <1>2, <1>3, SizeOfDisjointUnion
    <2>5. /\ IsFiniteSet((O \cup A) \cup R) /\ Cardinality(R) \in Nat
          /\ Cardinality((O \cup A) \cup R) = Cardinality(O \cup A) + Cardinality(R)
      BY <1>2, <1>3, <2>4, SizeOfDisjointUnion
    <2>6. /\ Cardinality(((O \cup A) \cup R) \ K) = Cardinality((O \cup A) \cup R) - Cardinality(K)
          /\ Cardinality(K) \in Nat
      <3>1. K \subseteq (O \cup A) \cup R
        BY <1>2
      <3> QED BY <2>5, <3>1, SizeOfDifference
    <2> QED BY <1>2, <2>1, <2>2, <2>3, <2>4, <2>5, <2>6
  <1>5. ASSUME NEW c \in Cards, c # k
        PROVE  /\ card'[c] = card[c] /\ TasksOf(c)' = TasksOf(c) /\ OpenTasksOf(c)' = OpenTasksOf(c)
    <2>1. card'[c] = card[c] /\ \A t \in Tasks : SameInGraph(task[t], task'[t], c)
      BY <1>0, <1>5, AppliedTables
    <2> QED BY <2>1 DEF SameInGraph, TasksOf, OpenTasksOf
  <1> QED BY <1>4, <1>5 DEF CountersTrue

\* A step of the specification is a step of the requests, or leaves both
\* tables alone, or is the commit of an update.
LEMMA SyncSteps ==
  ASSUME [SyncNext]_<<vars, syncVars>>
  PROVE  \/ Request /\ [Next]_vars
         \/ UNCHANGED <<vars, prov, held>>
         \/ \E s \in Syncs : SyncApply(s)
  BY DEF SyncNext, Request, Next, SyncStep, SyncReadCard, SyncReadTemplate, SyncScanRow, SyncRefuse,
         SaveTemplate, AllQuiet, syncVars

\* An update counts what it adds, restores and skips on its Card, on top of
\* whatever the requests counted before it.
THEOREM CountersSurviveUpdates == SyncSpec /\ NoRowOutlivesItsTask => []CountersTrue
  <1>1. SyncInit => CountersTrue
    BY InitCounters DEF SyncInit
  <1>2. SyncInv /\ CountersTrue /\ [SyncNext]_<<vars, syncVars>> => CountersTrue'
    <2> SUFFICES ASSUME SyncInv, CountersTrue, [SyncNext]_<<vars, syncVars>> PROVE CountersTrue'
      OBVIOUS
    <2>1. ASSUME [Next]_vars PROVE CountersTrue'
      BY <2>1, NextCounters DEF SyncInv
    <2>2. ASSUME UNCHANGED vars PROVE CountersTrue'
      BY <2>1, <2>2
    <2> QED BY <2>1, <2>2, SyncSteps, ApplyKeepsCounters
  <1> QED BY <1>1, <1>2, SyncInvariant, PTL DEF SyncSpec

-----------------------------------------------------------------------------
\* The completed Tasks.

\* An update leaves a completed Task as it is.
LEMMA ApplyKeepsDone ==
  ASSUME SyncInv, NEW s \in Syncs, SyncApply(s),
         NEW t \in Tasks, task[t].live, task[t].status = "done"
  PROVE  task'[t].live /\ task'[t].status = "done" /\ task'[t].deps = task[t].deps
  <1>1. SyncTypeOK /\ sync[s].card \in Cards /\ t \notin AddedIds(s)
    BY AtApply DEF SyncInv, SyncTyped
  <1>2. CASE t \in Rewritten(s)
    <2>1. sync[s].rows[t] = task[t] /\ task'[t] = RewrittenRow(s, t)
      BY <1>2, AtApply, AppliedTables
    <2>2. t \notin ToSkip(s) /\ t \notin ToRestore(s) /\ t \notin ToUpdate(s)
      BY <2>1 DEF ToSkip, ToRestore, Restorable, ToUpdate, IsOpen
    <2>3. NewStatus(s, t) = task[t].status /\ NewEdges(s, t) = task[t].deps
      BY <2>1, <2>2 DEF NewStatus, NewEdges, Relinked
    <2> QED BY <1>1, <1>2, <2>1, <2>3, SyncRows
  <1>3. CASE t \notin Rewritten(s)
    BY <1>1, <1>3, AppliedTables
  <1> QED BY <1>2, <1>3

\* A completed Task is not skipped, restored, added or given other edges by an
\* update, although the plan was made from rows read one at a time.
THEOREM CompletedWorkIsLeftAlone ==
  SyncSpec /\ NoRowOutlivesItsTask => CompletedTasksUntouched
  <1>1. SyncInv => \A s \in Syncs : SyncApply(s) =>
          \A t \in Tasks : task[t].live /\ task[t].status = "done" =>
            task'[t].live /\ task'[t].status = "done" /\ task'[t].deps = task[t].deps
    BY ApplyKeepsDone
  <1> QED BY <1>1, SyncInvariant, PTL DEF CompletedTasksUntouched

\* An update completes nothing: a Task that is done after it was done before.
LEMMA ApplyCompletesNothing ==
  ASSUME SyncInv, NEW s \in Syncs, SyncApply(s),
         NEW t \in Tasks, task'[t].live, task'[t].status = "done"
  PROVE  task[t].live /\ task[t].status = "done"
  <1>1. SyncTypeOK /\ sync[s].card \in Cards
    BY AtApply DEF SyncInv, SyncTyped
  <1>2. t \notin AddedIds(s)
    BY AppliedTables, AddedRowIs
  <1>3. CASE t \in Rewritten(s)
    <2>1. /\ sync[s].rows[t] = task[t] /\ task'[t] = RewrittenRow(s, t)
          /\ t \in TasksOf(sync[s].card)
      BY <1>1, <1>3, AtApply, AppliedTables, PlanTypes
    <2>2. NewStatus(s, t) = "done"
      BY <1>1, <1>3, <2>1, SyncRows
    <2>3. task[t].status = "done"
      BY <2>1, <2>2 DEF NewStatus
    <2> QED BY <2>1, <2>3 DEF TasksOf
  <1>4. CASE t \notin Rewritten(s)
    BY <1>2, <1>4, AppliedTables
  <1> QED BY <1>3, <1>4

\* Restoring is the one thing an update does that opens a resolved Task.
LEMMA ApplyReopensRestored ==
  ASSUME SyncInv, NEW s \in Syncs, SyncApply(s), NEW p \in Tasks \ ToRestore(s),
         task[p].live, IsResolved(task[p].status)
  PROVE  task'[p].live /\ IsResolved(task'[p].status)
  <1>1. SyncTypeOK /\ sync[s].card \in Cards /\ p \notin AddedIds(s)
    BY AtApply DEF SyncInv, SyncTyped
  <1>2. CASE p \in Rewritten(s)
    <2>1. sync[s].rows[p] = task[p] /\ task'[p] = RewrittenRow(s, p)
      BY <1>2, AtApply, AppliedTables
    <2>2. IsResolved(NewStatus(s, p))
      BY <2>1 DEF NewStatus, IsResolved
    <2> QED BY <1>1, <1>2, <2>1, <2>2, SyncRows
  <1>3. CASE p \notin Rewritten(s)
    BY <1>1, <1>3, AppliedTables
  <1> QED BY <1>2, <1>3

\* The one check an update leaves out: it restores a skipped Task without
\* looking whether a Task that waits for it has been completed since.
NothingDoneWaits(s) ==
  \A p \in ToRestore(s), t \in Tasks :
    task[t].live /\ task[t].status = "done" => p \notin task[t].deps
RestoresUnderNothingDone == \A s \in Syncs : SyncApply(s) => NothingDoneWaits(s)

LEMMA ApplyKeepsCompletedWork ==
  ASSUME SyncInv, CompletedWorkStands, NEW s \in Syncs, SyncApply(s), NothingDoneWaits(s)
  PROVE  CompletedWorkStands'
  <1> SUFFICES ASSUME NEW t \in Tasks, task'[t].live, task'[t].status = "done",
                      NEW p \in task'[t].deps
               PROVE  task'[p].live /\ IsResolved(task'[p].status)
    BY DEF CompletedWorkStands
  <1>1. task[t].live /\ task[t].status = "done"
    BY ApplyCompletesNothing
  <1>2. p \in task[t].deps
    BY <1>1, ApplyKeepsDone
  <1>3. p \in Tasks
    BY <1>2 DEF SyncInv, SyncTyped, SyncTypeOK, TypeOK, TaskRec
  <1>4. task[p].live /\ IsResolved(task[p].status)
    BY <1>1, <1>2 DEF CompletedWorkStands
  <1>5. p \notin ToRestore(s)
    BY <1>1, <1>2 DEF NothingDoneWaits
  <1> QED BY <1>3, <1>4, <1>5, ApplyReopensRestored

\* Apart from that, updates are as careful as the requests: no interleaving of
\* updates, completions, deletions and reopenings leaves a completed Task over
\* an unfinished one, unless an update restores a Task under completed work.
THEOREM CompletedWorkSurvivesUpdates ==
  SyncSpec /\ NoRowOutlivesItsTask /\ [][RestoresUnderNothingDone]_<<vars, syncVars>>
    => []CompletedWorkStands
  <1>1. SyncInit => CompletedWorkStands
    BY InitIInv DEF SyncInit, IInv
  <1>2. /\ SyncInv /\ CompletedWorkStands
        /\ [SyncNext]_<<vars, syncVars>> /\ [RestoresUnderNothingDone]_<<vars, syncVars>>
        => CompletedWorkStands'
    <2> SUFFICES ASSUME SyncInv, CompletedWorkStands, [SyncNext]_<<vars, syncVars>>,
                        [RestoresUnderNothingDone]_<<vars, syncVars>>
                 PROVE  CompletedWorkStands'
      OBVIOUS
    <2>1. ASSUME [Next]_vars PROVE CompletedWorkStands'
      BY <2>1, NextCompletedWork DEF SyncInv
    <2>2. ASSUME UNCHANGED vars PROVE CompletedWorkStands'
      BY <2>1, <2>2
    <2>3. ASSUME NEW s \in Syncs, SyncApply(s) PROVE CompletedWorkStands'
      <3>1. CASE RestoresUnderNothingDone
        BY <2>3, <3>1, ApplyKeepsCompletedWork DEF RestoresUnderNothingDone
      <3>2. CASE UNCHANGED <<vars, syncVars>>
        BY <2>2, <3>2
      <3> QED BY <3>1, <3>2
    <2> QED BY <2>1, <2>2, <2>3, SyncSteps
  <1> QED BY <1>1, <1>2, SyncInvariant, PTL DEF SyncSpec

-----------------------------------------------------------------------------
\* Provenance.

\* What an update makes of the provenance of a Task it rewrites.
LEMMA RewrittenColumns ==
  ASSUME SyncTypeOK, NEW s \in Syncs, NEW t \in Mine(s)
  PROVE  /\ RewrittenProv(s, t).own = sync[s].prov[t].own
         /\ RewrittenProv(s, t).ref = sync[s].prov[t].ref
         /\ t \in ToSkip(s) \cup ToRetain(s) => RewrittenProv(s, t).retired # "no"
         /\ t \notin ToSkip(s) \cup ToRetain(s) =>
              /\ RewrittenProv(s, t).def = SnapshotOf(DefOf(s, t))
              /\ RewrittenProv(s, t).version = sync[s].tmpl.version
  <1> DEFINE was == sync[s].prov[t]
  <1>1. was \in ProvRec
    BY PlanTypes DEF SyncTypeOK
  <1>2. CASE t \in ToSkip(s)
    <2>1. RewrittenProv(s, t) = [was EXCEPT !.retired = "removed", !.forTemplate = TRUE,
                                            !.undoable = TRUE]
      BY <1>2, PlanParts DEF RewrittenProv
    <2>2. \A row \in ProvRec, yes \in BOOLEAN :
            LET new == [row EXCEPT !.retired = "removed", !.forTemplate = yes, !.undoable = yes]
            IN  new.own = row.own /\ new.ref = row.ref /\ new.retired = "removed"
      BY DEF ProvRec
    <2>3. /\ RewrittenProv(s, t).own = was.own /\ RewrittenProv(s, t).ref = was.ref
          /\ RewrittenProv(s, t).retired = "removed"
      BY <1>1, <2>1, <2>2, Zenon
    <2> QED BY <1>2, <2>3
  <1>3. CASE t \notin ToSkip(s) /\ t \in ToRetain(s)
    <2> DEFINE why == IF was.ref \in Target(s) THEN "completed-modified" ELSE "removed"
    <2>1. RewrittenProv(s, t) = [was EXCEPT !.retired = why, !.undoable = FALSE]
      BY <1>3 DEF RewrittenProv
    <2>2. why # "no"
      OBVIOUS
    <2> HIDE DEF why
    <2>3. /\ RewrittenProv(s, t).own = was.own /\ RewrittenProv(s, t).ref = was.ref
          /\ RewrittenProv(s, t).retired = why
      BY <1>1, <2>1 DEF ProvRec
    <2> QED BY <1>3, <2>2, <2>3
  <1>4. CASE t \notin ToSkip(s) /\ t \notin ToRetain(s)
    <2> DEFINE d == SnapshotOf(DefOf(s, t))
               v == sync[s].tmpl.version
               f == was.forTemplate /\ t \notin ToRestore(s)
    <2>1. RewrittenProv(s, t) = [was EXCEPT !.def = d, !.version = v, !.retired = "no",
                                            !.undoable = FALSE, !.forTemplate = f]
      BY <1>4 DEF RewrittenProv
    <2> HIDE DEF d, v, f
    <2>2. /\ RewrittenProv(s, t).own = was.own /\ RewrittenProv(s, t).ref = was.ref
          /\ RewrittenProv(s, t).def = d /\ RewrittenProv(s, t).version = v
      BY <1>1, <2>1 DEF ProvRec
    <2> QED BY <1>4, <2>2 DEF d, v
  <1> QED BY <1>2, <1>3, <1>4

\* The provenance columns after the commit of an update.
LEMMA AppliedProv ==
  ASSUME SyncInv, NEW s \in Syncs, SyncApply(s)
  PROVE  /\ \A t \in AddedIds(s) :
              prov'[t] = Following(RefOfAdded(s, t), SnapshotOf(Body(s)[RefOfAdded(s, t)]),
                                   sync[s].tmpl.version)
         /\ \A t \in Rewritten(s) : t \notin AddedIds(s) /\ prov'[t] = RewrittenProv(s, t)
         /\ \A t \in Tasks : t \notin AddedIds(s) /\ t \notin Rewritten(s) => prov'[t] = prov[t]
  <1>1. /\ AddedIds(s) \subseteq Tasks /\ Rewritten(s) \subseteq Tasks
        /\ AddedIds(s) \cap Rewritten(s) = {}
    BY AtApply, AddedOnce, PlanTypes DEF SyncInv, SyncTyped
  <1> QED BY <1>1 DEF SyncApply

\* What a request's write makes of the provenance of a Task.
LEMMA RequestedProv ==
  ASSUME SyncTypeOK, Request, NEW t \in Tasks
  PROVE  \/ prov'[t] = prov[t] /\ task'[t] = task[t]
         \/ prov'[t] = OfElsewhere(NoRef) /\ (~task[t].live \/ ~task'[t].live)
         \/ /\ task[t].live /\ task'[t].live
            /\ prov'[t].own = prov[t].own /\ prov'[t].ref = prov[t].ref
            /\ prov'[t].def = prov[t].def /\ prov'[t].version = prov[t].version
            /\ prov'[t].retired = prov[t].retired
  <1>1. prov[t] \in ProvRec
    BY DEF SyncTypeOK
  <1>2. \A row \in ProvRec, no \in BOOLEAN :
          LET new == [row EXCEPT !.forTemplate = no, !.undoable = no]
          IN  /\ new.own = row.own /\ new.ref = row.ref /\ new.def = row.def
              /\ new.version = row.version /\ new.retired = row.retired
    BY DEF ProvRec
  <1>3. CASE task'[t] = task[t]
    BY <1>3 DEF Request
  <1>4. CASE task'[t] # task[t] /\ (~task[t].live \/ ~task'[t].live)
    BY <1>4 DEF Request, AfterWrite
  <1>5. CASE task'[t] # task[t] /\ task[t].live /\ task'[t].live
    <2>1. \/ prov'[t] = [prov[t] EXCEPT !.forTemplate = FALSE, !.undoable = FALSE]
          \/ prov'[t] = prov[t]
      BY <1>5 DEF Request, AfterWrite
    <2>2. LET new == [prov[t] EXCEPT !.forTemplate = FALSE, !.undoable = FALSE]
          IN  /\ new.own = prov[t].own /\ new.ref = prov[t].ref /\ new.def = prov[t].def
              /\ new.version = prov[t].version /\ new.retired = prov[t].retired
      BY <1>1, <1>2, Zenon
    <2> QED BY <1>5, <2>1, <2>2
  <1> QED BY <1>3, <1>4, <1>5

\* How the calls' own columns move: an update that ends forgets what it read,
\* a scan copies the provenance of one Task.
LEMMA SyncProvMoves ==
  ASSUME SyncTyped, [SyncNext]_<<vars, syncVars>>, NEW u \in Syncs
  PROVE  \/ sync'[u].prov = sync[u].prov
         \/ \A t \in Tasks : sync'[u].prov[t] = OfElsewhere(NoRef)
         \/ /\ UNCHANGED prov
            /\ \E t \in Tasks : sync'[u].prov = [sync[u].prov EXCEPT ![t] = prov[t]]
  <1>1. sync \in [Syncs -> SyncRec]
    BY DEF SyncTyped, SyncTypeOK, SyncRec
  <1>2. ASSUME NEW s \in Syncs, SyncDone(s)
        PROVE  \/ sync'[u].prov = sync[u].prov
               \/ \A t \in Tasks : sync'[u].prov[t] = OfElsewhere(NoRef)
    <2> DEFINE done == [IdleSync EXCEPT !.pc = "answered"]
    <2>1. sync' = [sync EXCEPT ![s] = done] /\ done.prov = IdleSync.prov
      BY <1>2, SyncLiterals DEF SyncDone, SyncRec
    <2>2. \A t \in Tasks : IdleSync.prov[t] = OfElsewhere(NoRef)
      BY DEF IdleSync
    <2> HIDE DEF done
    <2> QED BY <1>1, <2>1, <2>2
  <1>3. ASSUME NEW s \in Syncs, NEW c \in Cards, SyncReadCard(s, c) PROVE sync'[u].prov = sync[u].prov
    <2> DEFINE new == [sync[s] EXCEPT !.pc = "card", !.card = c, !.base = card[c], !.held = held[c]]
    <2>1. sync' = [sync EXCEPT ![s] = new] /\ new.prov = sync[s].prov
      BY <1>1, <1>3 DEF SyncReadCard, SyncRec
    <2> HIDE DEF new
    <2> QED BY <1>1, <2>1
  <1>4. ASSUME NEW s \in Syncs, SyncReadTemplate(s) PROVE sync'[u].prov = sync[u].prov
    <2>1. PICK want \in Choices(tmpl.body) :
            sync' = [sync EXCEPT ![s].pc = "rows", ![s].tmpl = tmpl, ![s].want = want]
      BY <1>4 DEF SyncReadTemplate
    <2> DEFINE new == [sync[s] EXCEPT !.pc = "rows", !.tmpl = tmpl, !.want = want]
    <2>2. sync' = [sync EXCEPT ![s] = new] /\ new.prov = sync[s].prov
      BY <1>1, <2>1 DEF SyncRec
    <2> HIDE DEF new
    <2> QED BY <1>1, <2>2
  <1>5. ASSUME NEW s \in Syncs, NEW t \in Tasks, SyncScanRow(s, t)
        PROVE  \/ sync'[u].prov = sync[u].prov
               \/ UNCHANGED prov /\ sync'[u].prov = [sync[u].prov EXCEPT ![t] = prov[t]]
    <2> DEFINE new == [sync[s] EXCEPT !.rows[t] = task[t], !.prov[t] = prov[t]]
    <2>1. sync' = [sync EXCEPT ![s] = new] /\ new.prov = [sync[s].prov EXCEPT ![t] = prov[t]]
      BY <1>1, <1>5 DEF SyncScanRow, SyncRec
    <2>2. UNCHANGED prov
      BY <1>5 DEF SyncScanRow
    <2> HIDE DEF new
    <2>3. sync'[u] = IF u = s THEN new ELSE sync[u]
      BY <1>1, <2>1
    <2>4. CASE u = s
      <3>1. sync'[u].prov = new.prov
        BY <2>3, <2>4
      <3> QED BY <2>1, <2>2, <2>4, <3>1, Zenon
    <2>5. CASE u # s
      BY <2>3, <2>5
    <2> QED BY <2>4, <2>5
  <1>6. ASSUME UNCHANGED sync PROVE sync'[u].prov = sync[u].prov
    BY <1>6
  <1>7. CASE Request \/ (\E d \in Definitions : SaveTemplate(d)) \/ AllQuiet
                 \/ UNCHANGED <<vars, syncVars>>
    BY <1>6, <1>7 DEF Request, SaveTemplate, AllQuiet, syncVars
  <1>8. ASSUME NEW s \in Syncs, SyncRefuse(s) \/ SyncApply(s) PROVE SyncDone(s)
    BY <1>8 DEF SyncRefuse, SyncApply
  <1> QED BY <1>2, <1>3, <1>4, <1>5, <1>7, <1>8 DEF SyncNext, SyncStep

-----------------------------------------------------------------------------
\* The dependency graph under updates.

\* Only the Template's own Tasks carry a ref.
RefsAreOwn == /\ \A t \in Tasks : ~prov[t].own => prov[t].ref = NoRef
              /\ \A s \in Syncs, t \in Tasks : ~sync[s].prov[t].own => sync[s].prov[t].ref = NoRef

LEMMA NextRefsAreOwn ==
  SyncInv /\ RefsAreOwn /\ [SyncNext]_<<vars, syncVars>> => RefsAreOwn'
  <1> SUFFICES ASSUME SyncInv, RefsAreOwn, [SyncNext]_<<vars, syncVars>> PROVE RefsAreOwn'
    OBVIOUS
  <1>1. /\ SyncTyped /\ SyncTypeOK /\ OfElsewhere(NoRef).ref = NoRef
        /\ \A r, d, v : Following(r, d, v).own
    BY DEF SyncInv, SyncTyped, OfElsewhere, Following
  <1>2. ASSUME NEW t \in Tasks PROVE ~prov'[t].own => prov'[t].ref = NoRef
    <2>1. ASSUME NEW s \in Syncs, SyncApply(s) PROVE ~prov'[t].own => prov'[t].ref = NoRef
      <3>1. CASE t \in AddedIds(s)
        BY <1>1, <2>1, <3>1, AppliedProv
      <3>2. CASE t \in Rewritten(s)
        <4>1. t \in Mine(s) /\ sync[s].prov[t].own
          BY <1>1, <3>2, PlanTypes DEF Mine
        <4> QED BY <1>1, <2>1, <3>2, <4>1, AppliedProv, RewrittenColumns
      <3>3. CASE t \notin AddedIds(s) /\ t \notin Rewritten(s)
        BY <2>1, <3>3, AppliedProv DEF RefsAreOwn
      <3> QED BY <3>1, <3>2, <3>3
    <2>2. CASE Request
      BY <1>1, <2>2, RequestedProv DEF RefsAreOwn
    <2>3. CASE UNCHANGED prov
      BY <2>3 DEF RefsAreOwn
    <2> QED BY <2>1, <2>2, <2>3, SyncSteps
  <1>3. ASSUME NEW u \in Syncs, NEW t \in Tasks
        PROVE  ~sync'[u].prov[t].own => sync'[u].prov[t].ref = NoRef
    <2>1. CASE sync'[u].prov = sync[u].prov
      BY <2>1 DEF RefsAreOwn
    <2>2. CASE \A p \in Tasks : sync'[u].prov[p] = OfElsewhere(NoRef)
      BY <1>1, <2>2
    <2>3. ASSUME NEW p \in Tasks, sync'[u].prov = [sync[u].prov EXCEPT ![p] = prov[p]]
          PROVE  ~sync'[u].prov[t].own => sync'[u].prov[t].ref = NoRef
      <3>1. DOMAIN sync[u].prov = Tasks
        BY <1>1 DEF SyncTypeOK
      <3>2. sync'[u].prov[t] = prov[t] \/ sync'[u].prov[t] = sync[u].prov[t]
        BY <2>3, <3>1
      <3> QED BY <3>2 DEF RefsAreOwn
    <2> QED BY <1>1, <2>1, <2>2, <2>3, SyncProvMoves
  <1> QED BY <1>2, <1>3 DEF RefsAreOwn

\* The check and the write resolve a ref to the same Task.
LEMMA CheckedIsWritten ==
  ASSUME SyncInv, RefsAreOwn, NEW s \in Syncs, SyncApply(s),
         NEW listing \in Listings(s), ~AmbiguousRefs(s), NEW e \in Refs
  PROVE  IdsOf(s, e) \subseteq {listing[e]} \ {NoTask}
  <1>1. SyncTypeOK /\ sync[s].card \in Cards
    BY AtApply DEF SyncInv, SyncTyped
  <1>2. IF CheckedIds(s, e) = {} THEN listing[e] = NoTask ELSE listing[e] \in CheckedIds(s, e)
    BY DEF Listings
  <1>3. NoTask \notin Tasks /\ NoRef \notin Refs
    BY TaskCardsAssumption, CardTemplateSyncAssumption
  <1>4. CASE e \in ToAdd(s)
    <2>1. NewId(s, e) \in Tasks
      BY <1>1, <1>4, AddedOnce
    <2> QED BY <1>2, <1>3, <1>4, <2>1 DEF IdsOf, CheckedIds
  <1>5. CASE e \notin ToAdd(s)
    <2> SUFFICES ASSUME NEW p \in Mine(s), sync[s].prov[p].ref = e
                 PROVE  p = listing[e] /\ p # NoTask
      BY <1>5 DEF IdsOf
    <2>1. p \in Rows(s) /\ p \in Tasks
      BY <1>1, PlanTypes
    <2>2. CheckedIds(s, e) = {t \in Rows(s) : sync[s].prov[t].ref = e}
      BY <1>5 DEF CheckedIds
    <2>3. listing[e] \in Rows(s) /\ sync[s].prov[listing[e]].ref = e
      BY <1>2, <2>1, <2>2
    <2>4. listing[e] \in Mine(s)
      <3>1. listing[e] \in Tasks
        BY <1>1, <2>3, PlanTypes
      <3> QED BY <1>3, <2>3, <3>1 DEF RefsAreOwn, Mine
    <2> QED BY <1>3, <2>1, <2>3, <2>4 DEF AmbiguousRefs
  <1> QED BY <1>4, <1>5

\* Every edge of the Card after the update is one the acyclicity check saw.
LEMMA EdgesWereChecked ==
  ASSUME SyncInv, RefsAreOwn, NEW s \in Syncs, SyncApply(s),
         NEW listing \in Listings(s), ~AmbiguousRefs(s),
         NEW t \in Tasks, task'[t].live, task'[t].card = sync[s].card
  PROVE  task'[t].deps \subseteq CheckedEdges(s, listing)[t]
  <1>1. SyncTypeOK /\ sync[s].card \in Cards
    BY AtApply DEF SyncInv, SyncTyped
  <1>2. ASSUME NEW d \in DefRec
        PROVE  Resolved(s, d.edges) \subseteq {listing[e] : e \in d.edges} \ {NoTask}
    <2>1. d.edges \subseteq Refs
      BY DEF DefRec
    <2> QED BY <2>1, CheckedIsWritten DEF Resolved
  <1>3. CASE t \in AddedIds(s)
    <2>1. Body(s)[RefOfAdded(s, t)] \in DefRec
      BY <1>1, <1>3, AddedOnce, PlanTypes
    <2>2. task'[t].deps = Resolved(s, Body(s)[RefOfAdded(s, t)].edges)
      BY <1>3, AppliedTables, AddedRowIs
    <2>3. CheckedEdges(s, listing)[t] = {listing[e] : e \in Body(s)[RefOfAdded(s, t)].edges} \ {NoTask}
      BY <1>3 DEF CheckedEdges
    <2> QED BY <1>2, <2>1, <2>2, <2>3
  <1>4. CASE t \notin AddedIds(s) /\ t \in Relinked(s)
    <2>1. t \in Rewritten(s) /\ sync[s].prov[t].ref \in Target(s)
      BY <1>4 DEF Relinked, Rewritten, ToRestore, ToUpdate, Defined
    <2>2. DefOf(s, t) \in DefRec
      BY <1>1, <2>1, PlanTypes DEF DefOf
    <2>3. task'[t].deps = Resolved(s, DefOf(s, t).edges)
      BY <1>1, <1>4, <2>1, AppliedTables, SyncRows DEF NewEdges
    <2>4. CheckedEdges(s, listing)[t] = {listing[e] : e \in DefOf(s, t).edges} \ {NoTask}
      BY <1>4 DEF CheckedEdges
    <2> QED BY <1>2, <2>2, <2>3, <2>4
  <1>5. CASE t \notin AddedIds(s) /\ t \notin Relinked(s)
    <2>1. t \in Rows(s) /\ task'[t].deps = sync[s].rows[t].deps
      <3>1. CASE t \in Rewritten(s)
        BY <1>1, <1>5, <3>1, AppliedTables, SyncRows, PlanTypes DEF NewEdges
      <3>2. CASE t \notin Rewritten(s)
        <4>1. task'[t] = task[t]
          BY <1>5, <3>2, AppliedTables
        <4>2. SameInGraph(sync[s].rows[t], task[t], sync[s].card)
          BY AtApply
        <4> QED BY <4>1, <4>2 DEF SameInGraph, Rows
      <3> QED BY <3>1, <3>2
    <2>2. CheckedEdges(s, listing)[t] = sync[s].rows[t].deps
      BY <1>5, <2>1 DEF CheckedEdges
    <2> QED BY <2>1, <2>2
  <1> QED BY <1>3, <1>4, <1>5

LEMMA ApplyKeepsAcyclic ==
  ASSUME SyncInv, RefsAreOwn, GraphAcyclic, NEW s \in Syncs, SyncApply(s)
  PROVE  GraphAcyclic'
  <1>1. PICK listing \in Listings(s) : ~PlanFails(s, listing)
    BY DEF SyncApply
  <1>2. ~AmbiguousRefs(s) /\ Acyclic(Tasks, CheckedEdges(s, listing))
    BY <1>1 DEF PlanFails
  <1>3. SyncTypeOK /\ sync[s].card \in Cards /\ EdgesStayOnCard' /\ TypeOK'
    BY AtApply, ApplyKeepsEdgesOnCard, ApplyKeepsTypes DEF SyncInv, SyncTyped, Typed
  <1>4. PICK k \in Cards : k = sync[s].card
    BY <1>3
  <1> DEFINE after == [t \in Tasks |-> IF task'[t].live THEN task'[t].deps ELSE {}]
  <1>5. Edges' = after
    BY DEF Edges
  <1> SUFFICES ASSUME NEW S \in SUBSET Tasks, S # {}
               PROVE  \E t \in S : after[t] \cap S = {}
    BY <1>5 DEF GraphAcyclic, Acyclic
  <1> DEFINE U == {t \in S : task'[t].live /\ task'[t].card = k}
  <1>6. CASE U = {}
    <2>1. \A t \in S : task'[t] = task[t]
      <3>1. \A t \in Rewritten(s) : task'[t].live /\ task'[t].card = k
        BY <1>3, <1>4, AppliedTables, SyncRows
      <3> QED BY <1>4, <1>6, <3>1, AppliedTables
    <2>2. PICK t \in S : Edges[t] \cap S = {}
      BY DEF GraphAcyclic, Acyclic
    <2> QED BY <2>1, <2>2 DEF Edges
  <1>7. CASE U # {}
    <2>1. PICK t \in U : CheckedEdges(s, listing)[t] \cap U = {}
      <3>1. U \in SUBSET Tasks
        OBVIOUS
      <3> QED BY <1>2, <1>7, <3>1 DEF Acyclic
    <2>2. t \in Tasks /\ task'[t].live /\ task'[t].card = k /\ t \in S
      BY <2>1
    <2>3. after[t] = task'[t].deps
      BY <2>2
    <2>4. task'[t].deps \subseteq CheckedEdges(s, listing)[t]
      BY <1>2, <1>4, <2>2, EdgesWereChecked
    <2>5. \A p \in task'[t].deps : task'[p].live /\ task'[p].card = k
      BY <1>3, <2>2 DEF EdgesStayOnCard
    <2> QED BY <2>1, <2>2, <2>3, <2>4, <2>5
  <1> QED BY <1>6, <1>7

\* No update closes a cycle, whatever edges operators add while it is planned,
\* where only Tasks of the Card's own Template carry refs.
THEOREM GraphSurvivesUpdates ==
  ASSUME \A t \in Tasks : ~Origin[t].own => Origin[t].ref = NoRef
  PROVE  SyncSpec /\ NoRowOutlivesItsTask => []GraphAcyclic
  <1>1. SyncInit => RefsAreOwn /\ GraphAcyclic
    <2> SUFFICES ASSUME SyncInit PROVE RefsAreOwn /\ GraphAcyclic
      OBVIOUS
    <2>1. GraphAcyclic
      BY InitIInv DEF SyncInit, IInv
    <2>2. /\ \A r : OfElsewhere(r).ref = r
          /\ \A r, d, v : Following(r, d, v).own
      BY DEF OfElsewhere, Following
    <2>3. \A s \in Syncs, t \in Tasks : sync[s].prov[t] = OfElsewhere(NoRef)
      BY DEF SyncInit, IdleSync
    <2>4. \A t \in Tasks : ~prov[t].own => prov[t].ref = NoRef
      BY <2>2 DEF SyncInit
    <2> QED BY <2>1, <2>2, <2>3, <2>4 DEF RefsAreOwn
  <1>2. SyncInv /\ RefsAreOwn /\ GraphAcyclic /\ [SyncNext]_<<vars, syncVars>> => GraphAcyclic'
    <2> SUFFICES ASSUME SyncInv, RefsAreOwn, GraphAcyclic, [SyncNext]_<<vars, syncVars>>
                 PROVE  GraphAcyclic'
      OBVIOUS
    <2>1. ASSUME [Next]_vars PROVE GraphAcyclic'
      BY <2>1, NextAcyclic DEF SyncInv
    <2>2. ASSUME UNCHANGED vars PROVE GraphAcyclic'
      BY <2>1, <2>2
    <2> QED BY <2>1, <2>2, SyncSteps, ApplyKeepsAcyclic
  <1> QED BY <1>1, <1>2, NextRefsAreOwn, SyncInvariant, PTL DEF SyncSpec

-----------------------------------------------------------------------------
\* What a Card holds of its Template.

\* No request moves a Task of the Template that is not retired to another Card.
TemplateTasksStay ==
  \A t \in Tasks : task[t].live /\ task'[t].live /\ prov[t].own /\ prov[t].retired = "no" =>
                   task'[t].card = task[t].card
\* A Card is never ahead of the Template, and the Template's Tasks have refs.
HeldBehind == \A c \in Cards : held[c].version <= tmpl.version
OwnHaveRefs == \A t \in Tasks : prov[t].own => prov[t].ref # NoRef
\* While the version of its Card is the one an update read, what it read of the
\* provenance of the Card's Tasks is current in all the plan looks at, except
\* whether a skip may be undone.
SameSource(was, now) ==
  /\ was.own = now.own /\ was.ref = now.ref /\ was.def = now.def
  /\ was.version = now.version /\ was.retired = now.retired
ProvSeen(s) ==
  sync[s].pc = "rows" /\ sync[s].base.version = card[sync[s].card].version =>
    \A t \in Tasks :
      IsRead(sync[s].rows[t]) /\ sync[s].rows[t].live /\ sync[s].rows[t].card = sync[s].card =>
        SameSource(sync[s].prov[t], prov[t])
FollowInv == /\ HeldBehind /\ OwnHaveRefs /\ CurrentCardFollowsTemplate
             /\ \A s \in Syncs : ProvSeen(s)

\* After an update every live Task of the Card's Template that it did not
\* retire carries the Template's definition.
LEMMA ApplyFollows ==
  ASSUME SyncInv, FollowInv, NEW s \in Syncs, SyncApply(s), NEW t \in Tasks,
         task'[t].live, task'[t].card = sync[s].card, prov'[t].own, prov'[t].retired = "no"
  PROVE  /\ prov'[t].ref \in Target(s)
         /\ prov'[t].def = SnapshotOf(tmpl.body[prov'[t].ref]) /\ prov'[t].version = tmpl.version
  <1>1. /\ SyncTypeOK /\ sync[s].card \in Cards /\ sync[s].tmpl = tmpl /\ Body(s) = tmpl.body
        /\ sync[s].base = card[sync[s].card] /\ sync[s].pc = "rows"
    BY AtApply DEF SyncInv, SyncTyped, Body, SyncApply, Planned
  <1>2. CASE t \in AddedIds(s)
    <2>1. RefOfAdded(s, t) \in Target(s)
      BY <1>1, <1>2, AddedOnce, PlanTypes
    <2>2. prov'[t] = Following(RefOfAdded(s, t), SnapshotOf(tmpl.body[RefOfAdded(s, t)]), tmpl.version)
      BY <1>1, <1>2, AppliedProv
    <2> QED BY <2>1, <2>2 DEF Following
  <1>3. CASE t \in Rewritten(s)
    <2>1. t \in Mine(s) /\ prov'[t] = RewrittenProv(s, t)
      BY <1>1, <1>3, PlanTypes, AppliedProv
    <2>2. t \notin ToSkip(s) \cup ToRetain(s)
      BY <1>1, <2>1, RewrittenColumns
    <2>3. sync[s].prov[t].ref \in Target(s)
      BY <1>3, <2>2 DEF Rewritten, ToRestore, ToRefresh, ToUpdate, Defined
    <2>4. /\ prov'[t].ref = sync[s].prov[t].ref /\ prov'[t].def = SnapshotOf(DefOf(s, t))
          /\ prov'[t].version = tmpl.version
      BY <1>1, <2>1, <2>2, RewrittenColumns
    <2> QED BY <1>1, <2>3, <2>4 DEF DefOf
  <1>4. CASE t \notin AddedIds(s) /\ t \notin Rewritten(s)
    <2>1. task'[t] = task[t] /\ prov'[t] = prov[t]
      BY <1>4, AppliedTables, AppliedProv
    <2>2. t \in Rows(s)
      BY <2>1, AtApply DEF TasksOf
    <2>3. SameSource(sync[s].prov[t], prov[t])
      BY <1>1, <2>2, AtApply DEF FollowInv, ProvSeen, Rows
    <2>4. t \in Mine(s) /\ sync[s].prov[t].retired = "no" /\ ~SettledTask(s, t)
      BY <2>1, <2>2, <2>3 DEF FollowInv, OwnHaveRefs, SameSource, Mine, SettledTask
    <2>5. sync[s].prov[t].ref \in Target(s)
      <3>1. sync[s].rows[t].status \in Statuses
        BY <1>1, <2>2, PlanTypes DEF TaskRec
      <3>2. t \notin ToSkip(s) /\ t \notin ToRetain(s)
        BY <1>4 DEF Rewritten
      <3> QED BY <2>4, <3>1, <3>2 DEF ToSkip, ToRetain, Dropped, IsOpen, IsResolved, Statuses
    <2>6. t \in Defined(s)
      BY <2>4, <2>5 DEF Defined
    <2>7. ~Changed(s, t)
      BY <1>4, <2>6 DEF Rewritten, ToRestore, ToUpdate, ToRetain
    <2>8. sync[s].prov[t].version = tmpl.version
      BY <1>1, <1>4, <2>6, <2>7 DEF Rewritten, ToRefresh
    <2> QED BY <1>1, <2>1, <2>3, <2>5, <2>7, <2>8 DEF SameSource, Changed, DefOf
  <1> QED BY <1>2, <1>3, <1>4

\* What a Card holds stays true at every step.
LEMMA NextFollows ==
  ASSUME SyncInv, FollowInv, [SyncNext]_<<vars, syncVars>>,
         [TemplateTasksStay]_<<vars, syncVars>>
  PROVE  CurrentCardFollowsTemplate' /\ HeldBehind' /\ OwnHaveRefs'
  <1>1. SyncTyped /\ SyncTypeOK /\ RInv /\ tmpl.version \in Nat
        /\ ~OfElsewhere(NoRef).own /\ \A c \in Cards : held[c].version \in Nat
    BY DEF SyncInv, SyncTyped, SyncTypeOK, TmplRec, HeldRec, OfElsewhere, Following
  <1>2. ASSUME Request, [Next]_vars
        PROVE  CurrentCardFollowsTemplate' /\ HeldBehind' /\ OwnHaveRefs'
    <2>1. UNCHANGED <<tmpl, held>>
      BY <1>2 DEF Request
    <2>2. ASSUME NEW t \in Tasks, prov'[t].own
          PROVE  /\ SameSource(prov[t], prov'[t])
                 /\ task'[t].live /\ prov'[t].retired = "no" =>
                      task[t].live /\ task'[t].card = task[t].card
      <3>1. prov'[t] # OfElsewhere(NoRef)
        BY <1>1, <2>2
      <3>2. \/ prov'[t] = prov[t] /\ task'[t] = task[t]
            \/ task[t].live /\ task'[t].live /\ SameSource(prov[t], prov'[t])
        BY <1>1, <1>2, <3>1, RequestedProv DEF SameSource
      <3>3. task'[t] = task[t] \/ TemplateTasksStay
        BY DEF vars, syncVars
      <3> QED BY <2>2, <3>2, <3>3 DEF TemplateTasksStay, SameSource
    <2> QED BY <2>1, <2>2
           DEF FollowInv, HeldBehind, OwnHaveRefs, CurrentCardFollowsTemplate, SameSource
  <1>3. ASSUME NEW s \in Syncs, SyncApply(s)
        PROVE  CurrentCardFollowsTemplate' /\ HeldBehind' /\ OwnHaveRefs'
    <2>1. PICK k \in Cards : k = sync[s].card
      BY <1>3, AtApply
    <2>2. /\ tmpl' = tmpl /\ sync[s].tmpl = tmpl
          /\ held' = [held EXCEPT ![k] = [version |-> tmpl.version, refs |-> Target(s),
                                          selected |-> sync[s].want]]
      BY <1>3, <2>1, AtApply DEF SyncApply
    <2>3. /\ held'[k].version = tmpl.version /\ held'[k].refs = Target(s)
          /\ \A c \in Cards : c # k => held'[c] = held[c]
      BY <1>1, <2>2 DEF SyncTypeOK
    <2>4. HeldBehind'
      BY <1>1, <2>2, <2>3 DEF FollowInv, HeldBehind
    <2>5. OwnHaveRefs'
      <3> SUFFICES ASSUME NEW t \in Tasks, prov'[t].own PROVE prov'[t].ref # NoRef
        BY DEF OwnHaveRefs
      <3>1. CASE t \in AddedIds(s)
        <4>1. RefOfAdded(s, t) \in Refs
          BY <1>1, <2>1, <3>1, AddedOnce, PlanTypes
        <4>2. prov'[t].ref = RefOfAdded(s, t)
          <5>1. \A r, d, v : Following(r, d, v).ref = r
            BY DEF Following
          <5> QED BY <1>3, <3>1, <5>1, AppliedProv
        <4> QED BY <4>1, <4>2, CardTemplateSyncAssumption
      <3>2. CASE t \in Rewritten(s)
        <4>1. t \in Mine(s) /\ prov'[t].ref = sync[s].prov[t].ref
          BY <1>1, <1>3, <3>2, PlanTypes, AppliedProv, RewrittenColumns
        <4> QED BY <4>1 DEF Mine
      <3>3. CASE t \notin AddedIds(s) /\ t \notin Rewritten(s)
        BY <1>3, <3>3, AppliedProv DEF FollowInv, OwnHaveRefs
      <3> QED BY <3>1, <3>2, <3>3
    <2>6. CurrentCardFollowsTemplate'
      <3> SUFFICES ASSUME NEW t \in Tasks, task'[t].live, prov'[t].own, prov'[t].retired = "no",
                          task'[t].card # NoCard, held'[task'[t].card].version = tmpl.version
                   PROVE  /\ prov'[t].ref \in held'[task'[t].card].refs
                          /\ prov'[t].def = SnapshotOf(tmpl.body[prov'[t].ref])
                          /\ prov'[t].version = tmpl.version
        BY <2>2 DEF CurrentCardFollowsTemplate
      <3>1. CASE task'[t].card = k
        BY <1>3, <2>1, <2>3, <3>1, ApplyFollows
      <3>2. CASE task'[t].card # k
        <4>1. t \notin AddedIds(s) /\ t \notin Rewritten(s)
          BY <1>1, <1>3, <2>1, <3>2, AppliedTables, SyncRows
        <4>2. task'[t] = task[t] /\ prov'[t] = prov[t]
          BY <1>3, <4>1, AppliedTables, AppliedProv
        <4>3. task[t].card \in Cards
          BY <4>2 DEF SyncInv, RInv, TypeOK, TaskRec
        <4>4. held'[task[t].card] = held[task[t].card]
          BY <2>3, <3>2, <4>2, <4>3
        <4> QED BY <4>2, <4>4 DEF FollowInv, CurrentCardFollowsTemplate
      <3> QED BY <3>1, <3>2
    <2> QED BY <2>4, <2>5, <2>6
  <1>4. ASSUME UNCHANGED <<vars, prov, held>>
        PROVE  CurrentCardFollowsTemplate' /\ HeldBehind' /\ OwnHaveRefs'
    <2>1. CASE tmpl' = tmpl
      BY <1>4, <2>1 DEF vars, FollowInv, CurrentCardFollowsTemplate, HeldBehind, OwnHaveRefs
    <2>2. ASSUME NEW d \in Definitions, SaveTemplate(d)
          PROVE  CurrentCardFollowsTemplate' /\ HeldBehind' /\ OwnHaveRefs'
      <3>1. tmpl'.version = tmpl.version + 1
        BY <2>2 DEF SaveTemplate
      <3>2. \A c \in Cards : held'[c].version < tmpl'.version
        BY <1>1, <1>4, <3>1 DEF FollowInv, HeldBehind
      <3>3. HeldBehind' /\ OwnHaveRefs'
        BY <1>1, <1>4, <3>1, <3>2 DEF FollowInv, HeldBehind, OwnHaveRefs
      <3>4. \A t \in Tasks : task'[t].card # NoCard => task'[t].card \in Cards
        BY <1>1, <1>4 DEF vars, SyncTypeOK, TypeOK, TaskRec
      <3>5. \A c \in Cards : held'[c].version # tmpl'.version
        BY <1>1, <1>4, <3>1, <3>2
      <3> QED BY <3>3, <3>4, <3>5 DEF CurrentCardFollowsTemplate
    <2>3. tmpl' = tmpl \/ \E d \in Definitions : SaveTemplate(d)
      BY DEF SyncNext, Request, SyncStep, SyncReadCard, SyncReadTemplate, SyncScanRow, SyncRefuse,
             SyncApply, AllQuiet, syncVars
    <2> QED BY <2>1, <2>2, <2>3
  <1> QED BY <1>2, <1>3, <1>4, SyncSteps

LEMMA NextProvSeen ==
  ASSUME SyncInv, FollowInv, [SyncNext]_<<vars, syncVars>>, NEW u \in Syncs
  PROVE  ProvSeen(u)'
  <1>1. /\ SyncTyped /\ SyncTypeOK /\ RInv /\ ProvSeen(u) /\ ReadsBehind(u) /\ GraphSeen(u)
        /\ sync \in [Syncs -> SyncRec] /\ \A c \in Cards : card[c].version \in Nat
    BY DEF SyncInv, SyncTyped, SyncTypeOK, SyncRec, FollowInv, TypeOK, CardRec
  <1>2. ASSUME sync'[u] = sync[u], UNCHANGED <<card, prov>> PROVE ProvSeen(u)'
    BY <1>1, <1>2 DEF ProvSeen
  <1>3. sync[u].pc = "rows" =>
          /\ sync[u].card \in Cards /\ sync[u].base.version \in Nat
          /\ sync[u].base.version <= card[sync[u].card].version
    <2> SUFFICES ASSUME sync[u].pc = "rows"
                 PROVE  /\ sync[u].card \in Cards /\ sync[u].base.version \in Nat
                        /\ sync[u].base.version <= card[sync[u].card].version
      OBVIOUS
    <2>1. sync[u].card \in Cards /\ Past(sync[u].base, card[sync[u].card])
      BY <1>1 DEF SyncTyped, ReadsBehind, Active
    <2>2. sync[u].base \in CardRec
      BY <1>1 DEF SyncRec
    <2> QED BY <2>1, <2>2 DEF Past, CardRec
  <1>4. ASSUME Request, [Next]_vars PROVE ProvSeen(u)'
    <2> SUFFICES ASSUME sync[u].pc = "rows", NEW k \in Cards, k = sync[u].card,
                        sync[u].base.version = card'[k].version,
                        NEW t \in Tasks, IsRead(sync[u].rows[t]),
                        sync[u].rows[t].live, sync[u].rows[t].card = k
                 PROVE  SameSource(sync[u].prov[t], prov'[t])
      BY <1>3, <1>4 DEF Request, ProvSeen
    <2>1. CardForward(k) /\ GraphStays(k)
      BY <1>1, <1>4, RequestsMoveForward
    <2>2. sync[u].base.version = card[k].version /\ card'[k].version = card[k].version
      BY <1>1, <1>3, <2>1 DEF CardForward
    <2>3. SameSource(sync[u].prov[t], prov[t])
      BY <1>1, <2>2 DEF ProvSeen
    <2>4. task[t].live /\ task'[t].live
      BY <1>1, <2>1, <2>2 DEF GraphSeen, GraphStays, SameInGraph
    <2>5. SameSource(prov[t], prov'[t])
      BY <1>1, <1>4, <2>4, RequestedProv DEF SameSource
    <2> QED BY <2>3, <2>5 DEF SameSource
  <1>5. ASSUME NEW s \in Syncs, SyncApply(s) PROVE ProvSeen(u)'
    <2>1. SyncDone(s)
      BY <1>5 DEF SyncApply
    <2>2. CASE u = s
      BY <1>1, <2>1, <2>2, DoneHoldsNothing DEF ProvSeen
    <2>3. CASE u # s
      <3>1. sync'[u] = sync[u]
        BY <1>1, <2>1, <2>3, DoneHoldsNothing
      <3> SUFFICES ASSUME sync[u].pc = "rows", NEW k \in Cards, k = sync[u].card,
                          sync[u].base.version = card'[k].version,
                          NEW t \in Tasks, IsRead(sync[u].rows[t]),
                          sync[u].rows[t].live, sync[u].rows[t].card = k
                   PROVE  SameSource(sync[u].prov[t], prov'[t])
        BY <1>3, <3>1 DEF ProvSeen
      <3>2. k # sync[s].card /\ card'[k] = card[k]
        BY <1>1, <1>3, <1>5, AppliedTables
      <3>3. task[t].live /\ task[t].card = k
        BY <1>1, <3>2 DEF GraphSeen, SameInGraph
      <3>4. t \notin AddedIds(s) /\ t \notin Rewritten(s)
        BY <1>1, <1>5, <3>2, <3>3, AtApply, PlanTypes
      <3>5. prov'[t] = prov[t]
        BY <1>5, <3>4, AppliedProv
      <3> QED BY <1>1, <3>2, <3>5 DEF ProvSeen
    <2> QED BY <2>2, <2>3
  <1>6. ASSUME NEW s \in Syncs, NEW c \in Cards, SyncReadCard(s, c) PROVE ProvSeen(u)'
    <2>1. CASE u = s
      <3>1. sync'[u].pc = "card"
        BY <1>1, <1>6, <2>1 DEF SyncReadCard, SyncRec
      <3> QED BY <3>1 DEF ProvSeen
    <2>2. CASE u # s
      <3>1. sync'[u] = sync[u] /\ UNCHANGED <<card, prov>>
        BY <1>1, <1>6, <2>2 DEF SyncReadCard, vars
      <3> QED BY <1>2, <3>1
    <2> QED BY <2>1, <2>2
  <1>7. ASSUME NEW s \in Syncs, SyncReadTemplate(s) PROVE ProvSeen(u)'
    <2>1. PICK want \in Choices(tmpl.body) :
            sync' = [sync EXCEPT ![s].pc = "rows", ![s].tmpl = tmpl, ![s].want = want]
      BY <1>7 DEF SyncReadTemplate
    <2> DEFINE new == [sync[s] EXCEPT !.pc = "rows", !.tmpl = tmpl, !.want = want]
    <2>2. sync' = [sync EXCEPT ![s] = new] /\ new.rows = sync[s].rows /\ sync[s].pc = "card"
      <3>1. sync' = [sync EXCEPT ![s] = new]
        BY <1>1, <2>1
      <3>2. new.rows = sync[s].rows
        BY <1>1 DEF SyncRec
      <3>3. sync[s].pc = "card"
        BY <1>7 DEF SyncReadTemplate
      <3> QED BY <3>1, <3>2, <3>3
    <2> HIDE DEF new
    <2>3. CASE u = s
      <3>1. sync'[u].rows = sync[u].rows /\ \A t \in Tasks : ~IsRead(sync[u].rows[t])
        BY <1>1, <2>2, <2>3 DEF ReadsBehind
      <3> QED BY <3>1 DEF ProvSeen
    <2>4. CASE u # s
      <3>1. sync'[u] = sync[u] /\ UNCHANGED <<card, prov>>
        BY <1>1, <1>7, <2>2, <2>4 DEF SyncReadTemplate, vars
      <3> QED BY <1>2, <3>1
    <2> QED BY <2>3, <2>4
  <1>8. ASSUME NEW s \in Syncs, NEW t \in Tasks, SyncScanRow(s, t) PROVE ProvSeen(u)'
    <2> DEFINE new == [sync[s] EXCEPT !.rows[t] = task[t], !.prov[t] = prov[t]]
    <2>1. /\ sync' = [sync EXCEPT ![s] = new] /\ UNCHANGED <<card, prov>>
          /\ new.card = sync[s].card /\ new.base = sync[s].base /\ sync[s].pc = "rows"
          /\ new.prov[t] = prov[t]
          /\ \A p \in Tasks \ {t} : new.rows[p] = sync[s].rows[p] /\ new.prov[p] = sync[s].prov[p]
      BY <1>1, <1>8 DEF SyncScanRow, SyncRec, vars
    <2> HIDE DEF new
    <2>2. CASE u = s
      <3>1. sync'[u] = new
        BY <1>1, <2>1, <2>2
      <3> SUFFICES ASSUME new.base.version = card[new.card].version, NEW p \in Tasks,
                          IsRead(new.rows[p]), new.rows[p].live, new.rows[p].card = new.card
                   PROVE  SameSource(new.prov[p], prov[p])
        BY <2>1, <3>1 DEF ProvSeen
      <3>2. CASE p = t
        BY <2>1, <3>2 DEF SameSource
      <3>3. CASE p # t
        BY <1>1, <2>1, <2>2, <3>3 DEF ProvSeen
      <3> QED BY <3>2, <3>3
    <2>3. CASE u # s
      <3>1. sync'[u] = sync[u]
        BY <1>1, <2>1, <2>3
      <3> QED BY <1>2, <2>1, <3>1
    <2> QED BY <2>2, <2>3
  <1>9. ASSUME NEW s \in Syncs, SyncRefuse(s) PROVE ProvSeen(u)'
    <2>1. SyncDone(s) /\ UNCHANGED <<card, prov>>
      BY <1>9 DEF SyncRefuse, vars
    <2>2. CASE u = s
      BY <1>1, <2>1, <2>2, DoneHoldsNothing DEF ProvSeen
    <2>3. CASE u # s
      BY <1>1, <1>2, <2>1, <2>3, DoneHoldsNothing
    <2> QED BY <2>2, <2>3
  <1>10. ASSUME NEW d \in Definitions, SaveTemplate(d) PROVE ProvSeen(u)'
    BY <1>2, <1>10 DEF SaveTemplate, vars
  <1>11. CASE UNCHANGED <<vars, syncVars>>
    BY <1>2, <1>11 DEF vars, syncVars
  <1>12. CASE Request
    BY <1>4, <1>12 DEF Request, Next
  <1> QED BY <1>5, <1>6, <1>7, <1>8, <1>9, <1>10, <1>11, <1>12 DEF SyncNext, SyncStep, AllQuiet

LEMMA InitFollows == SyncInit => FollowInv
  <1> SUFFICES ASSUME SyncInit PROVE FollowInv
    OBVIOUS
  <1>1. SyncTypeOK /\ tmpl.version = 1 /\ \A c \in Cards : held[c].version = 1
    BY InitSyncTyped DEF SyncInit, SyncTyped
  <1>2. \A s \in Syncs : ProvSeen(s)
    BY SyncLiterals DEF SyncInit, ProvSeen
  <1>3. HeldBehind
    BY <1>1 DEF HeldBehind
  <1>4. /\ ~OfElsewhere(NoRef).own /\ \A r : ~OfElsewhere(r).own
        /\ \A r, d, v : /\ Following(r, d, v).ref = r /\ Following(r, d, v).def = d
                        /\ Following(r, d, v).version = v
    BY DEF OfElsewhere, Following
  <1>5. ASSUME NEW t \in Tasks, prov[t].own
        PROVE  /\ task[t].card \in Cards /\ prov[t].ref \in held[task[t].card].refs
               /\ prov[t].def = SnapshotOf(tmpl.body[prov[t].ref]) /\ prov[t].version = 1
               /\ prov[t].ref \in Refs
    <2>1. /\ task[t].live /\ Origin[t].own
          /\ prov[t] = Following(Origin[t].ref, SnapshotOf(tmpl.body[Origin[t].ref]), 1)
      BY <1>4, <1>5 DEF SyncInit
    <2>2. task[t].card \in Cards /\ t \in TasksOf(task[t].card)
      <3>1. task[t] # Unborn
        BY <2>1 DEF Unborn
      <3>2. \E c \in Cards, d \in SUBSET Tasks : task[t] = FromTemplate(c, d)
        BY <3>1 DEF SyncInit, Init
      <3> QED BY <2>1, <3>2 DEF FromTemplate, TasksOf
    <2>3. Origin[t].ref \in held[task[t].card].refs
      BY <2>1, <2>2 DEF SyncInit
    <2>4. Origin[t].ref \in Refs
      BY <1>1, <2>2, <2>3 DEF SyncTypeOK, HeldRec
    <2> QED BY <1>4, <2>1, <2>2, <2>3, <2>4
  <1>6. OwnHaveRefs /\ CurrentCardFollowsTemplate
    BY <1>1, <1>5, CardTemplateSyncAssumption DEF OwnHaveRefs, CurrentCardFollowsTemplate
  <1> QED BY <1>2, <1>3, <1>6 DEF FollowInv

\* A Card at the Template's version has only the Template's Tasks that are in
\* it, each with the definition the Template has now, where no operator moves
\* such a Task to another Card; others may be moved, and updates, option
\* changes, deletions, completions and Template saves may overlap.
THEOREM CurrentCardsFollow ==
  SyncSpec /\ NoRowOutlivesItsTask /\ [][TemplateTasksStay]_<<vars, syncVars>>
    => []CurrentCardFollowsTemplate
  <1>1. /\ SyncInv /\ FollowInv
        /\ [SyncNext]_<<vars, syncVars>> /\ [TemplateTasksStay]_<<vars, syncVars>>
        => FollowInv'
    <2> SUFFICES ASSUME SyncInv, FollowInv, [SyncNext]_<<vars, syncVars>>,
                        [TemplateTasksStay]_<<vars, syncVars>>
                 PROVE  FollowInv'
      OBVIOUS
    <2>1. CurrentCardFollowsTemplate' /\ HeldBehind' /\ OwnHaveRefs'
      BY NextFollows
    <2>2. \A u \in Syncs : ProvSeen(u)'
      BY NextProvSeen
    <2> QED BY <2>1, <2>2 DEF FollowInv
  <1>2. FollowInv => CurrentCardFollowsTemplate
    BY DEF FollowInv
  <1> QED BY <1>1, <1>2, InitFollows, SyncInvariant, PTL DEF SyncSpec

=============================================================================
