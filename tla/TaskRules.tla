------------------------------ MODULE TaskRules ------------------------------
(***************************************************************************)
(* The vocabulary of Tasks and Cards: their statuses and stages, the       *)
(* lifecycle rule that recomputes a Card from a change of its Task         *)
(* counters, and what it means for the prerequisite graph to be acyclic.   *)
(* Shared by the abstract board (TaskBoard) and by the optimistic          *)
(* transactions that implement it (TaskCards).                             *)
(***************************************************************************)
EXTENDS Integers

Statuses == {"todo", "waiting", "done", "skipped"}

\* isOpenStatus and isResolvedStatus: the two halves of Statuses.
IsOpen(s) == s \in {"todo", "waiting"}
IsResolved(s) == s \in {"done", "skipped"}

\* preparation < announced < after-event, then the stage of a finished Card.
Preparation == 1
ActiveStages == 1..3
DoneStage == 4
NoStage == 0

CardStatuses == {"active", "parked", "archived"}

\* A Card row: its optimistic version, the Task aggregate, and its place.
\* resume is activeStageBeforeCompletion, NoStage while it is absent.
CardRec == [version : Nat, taskCount : Int, openTaskCount : Int,
            status : CardStatuses, stage : ActiveStages \cup {DoneStage},
            resume : ActiveStages \cup {NoStage}]

\* The shape every read of a Card row insists on: an active Card is empty or
\* has open work, a finished one has only resolved work and remembers its stage.
CanonicalCard(c) ==
  /\ 0 <= c.openTaskCount /\ c.openTaskCount <= c.taskCount
  /\ \/ /\ c.status = "active" /\ c.stage \in ActiveStages /\ c.resume = NoStage
        /\ c.taskCount = 0 \/ c.openTaskCount > 0
     \/ c.status = "parked" /\ c.stage \in ActiveStages /\ c.resume = NoStage
     \/ /\ c.status = "archived" /\ c.stage = DoneStage /\ c.resume \in ActiveStages
        /\ c.taskCount > 0 /\ c.openTaskCount = 0

\* The aggregate the delta leads to is one a Card can hold; the code throws otherwise.
ValidDelta(c, delta) ==
  LET open == c.openTaskCount + delta.open
  IN  0 <= open /\ open <= c.taskCount + delta.tasks

\* Resolving the last open Task completes a Card, on the board or parked.
\* Slip: a parked Card stays parked.
BugOnlyActiveCompletes(c, count, open) == c.status = "active" /\ count > 0 /\ open = 0
Completes(c, count, open) == c.status # "archived" /\ count > 0 /\ open = 0
Reactivates(c, count, open) == c.status = "archived" /\ ~(count > 0 /\ open = 0)

OrPreparation(s) == IF s \in ActiveStages THEN s ELSE Preparation
\* Slip: the stage to resume is cleared before it is used.
BugClearedFirst(c) == NoStage
ResumedStage(c) == OrPreparation(c.resume)

\* The Card after its Task counters move by delta. hint is the stage a completed
\* Template Task asks for; it only ever moves an active Card forward.
ApplyAggregateDelta(c, delta, hint) ==
  LET count == c.taskCount + delta.tasks
      open  == c.openTaskCount + delta.open
      completes   == Completes(c, count, open)
      reactivates == Reactivates(c, count, open)
      advances    == c.status = "active" /\ hint \in ActiveStages /\ hint > c.stage
  IN  [version |-> c.version + 1, taskCount |-> count, openTaskCount |-> open,
       status |-> CASE completes -> "archived" [] reactivates -> "active" [] OTHER -> c.status,
       stage  |-> CASE completes -> DoneStage [] reactivates -> ResumedStage(c)
                    [] advances /\ ~completes -> hint [] OTHER -> c.stage,
       resume |-> CASE completes -> OrPreparation(c.stage) [] reactivates -> NoStage
                    [] OTHER -> c.resume]

\* A finite prerequisite graph has a cycle exactly when some non-empty set of
\* Tasks has no member all of whose prerequisites lie outside the set.
Acyclic(nodes, edges) ==
  \A S \in SUBSET nodes : S # {} => \E t \in S : edges[t] \cap S = {}
=============================================================================
