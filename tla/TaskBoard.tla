------------------------------ MODULE TaskBoard ------------------------------
(***************************************************************************)
(* What the Task API promises: the board as if every mutation were checked *)
(* and applied in one instant, against the board as it is at that instant. *)
(* There are no versions, no reads and no conflicts here.  A mutation is   *)
(* allowed or it is not, and a Card's counters are simply the number of    *)
(* its Tasks.                                                              *)
(***************************************************************************)
EXTENDS TaskRules, FiniteSets

CONSTANTS Tasks, Cards, NoCard, StageOnComplete

VARIABLES place,   \* a Task's row without its version: live, card, status, deps
          life     \* a Card's status, stage and the stage it resumes to

vars == <<place, life>>

PlaceRec == [live : BOOLEAN, card : Cards \cup {NoCard}, status : Statuses,
             deps : SUBSET Tasks]
LifeRec == [status : CardStatuses, stage : ActiveStages \cup {DoneStage},
            resume : ActiveStages \cup {NoStage}]

On(pl, c) == {t \in Tasks : pl[t].live /\ pl[t].card = c}
Count(pl, c) == Cardinality(On(pl, c))
OpenCount(pl, c) == Cardinality({t \in On(pl, c) : IsOpen(pl[t].status)})
Graph(pl) == [t \in Tasks |-> IF pl[t].live THEN pl[t].deps ELSE {}]

\* The board's law: prerequisites exist, share their dependent's Card and
\* form no cycle, and a completed Task has no unfinished one.
Lawful(pl) ==
  /\ \A t \in Tasks : pl[t].live =>
       /\ t \notin pl[t].deps
       /\ \A p \in pl[t].deps : /\ pl[p].live
                                /\ pl[t].card # NoCard /\ pl[p].card = pl[t].card
                                /\ pl[t].status = "done" => IsResolved(pl[p].status)
  /\ Acyclic(Tasks, Graph(pl))

\* The lifecycle of Card c when its Tasks go from old to new.
Settled(c, old, new, hint) ==
  LET row == [version |-> 0, taskCount |-> Count(old, c), openTaskCount |-> OpenCount(old, c),
              status |-> life[c].status, stage |-> life[c].stage, resume |-> life[c].resume]
      next == ApplyAggregateDelta(row, [tasks |-> Count(new, c) - Count(old, c),
                                        open |-> OpenCount(new, c) - OpenCount(old, c)], hint)
  IN  [status |-> next.status, stage |-> next.stage, resume |-> next.resume]

\* Only completing an open Task where it is moves its Card to a later stage.
Hint(t, row, c) ==
  IF /\ place[t].live /\ row.live /\ place[t].card = c /\ row.card = c
     /\ IsOpen(place[t].status) /\ row.status = "done"
  THEN StageOnComplete[t] ELSE NoStage

FromTemplate(c, d) == [live |-> TRUE, card |-> c, status |-> "todo", deps |-> d]
Unborn == [live |-> FALSE, card |-> NoCard, status |-> "todo", deps |-> {}]
NewLife == [status |-> "active", stage |-> Preparation, resume |-> NoStage]

Init ==
  /\ place \in [Tasks -> {Unborn} \cup {FromTemplate(c, d) : c \in Cards, d \in SUBSET Tasks}]
  /\ Lawful(place)
  /\ life = [c \in Cards |-> NewLife]

\* Create, update, move or delete one Task: any change the law allows, except
\* that a completed Task keeps its prerequisites.
ChangeTask(t, row) ==
  /\ place' = [place EXCEPT ![t] = row]
  /\ place[t].live \/ row.live
  /\ place[t].live /\ row.live /\ place[t].status = "done" => row.deps = place[t].deps
  /\ Lawful(place')
  /\ life' = [c \in Cards |-> Settled(c, place, place', Hint(t, row, c))]

SetLife(c, l) == life' = [life EXCEPT ![c] = l] /\ UNCHANGED place
Park(c) == life[c].status = "active" /\ SetLife(c, [life[c] EXCEPT !.status = "parked"])
Resume(c) == life[c].status = "parked" /\ SetLife(c, [life[c] EXCEPT !.status = "active"])
SetStage(c, s) == life[c].status # "archived" /\ SetLife(c, [life[c] EXCEPT !.stage = s])

Next ==
  \/ \E t \in Tasks, row \in PlaceRec : ChangeTask(t, row)
  \/ \E c \in Cards : Park(c) \/ Resume(c) \/ \E s \in ActiveStages : SetStage(c, s)

Spec == Init /\ [][Next]_vars
=============================================================================
