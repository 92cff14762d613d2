------------------------------ MODULE IssueCards ------------------------------
(***************************************************************************)
(* Cards as rows that come and go: a newsletter issue and the Card that    *)
(* executes it, the Card's Tasks, and the Template it is made from.        *)
(*                                                                         *)
(* A Card is created with its Tasks, the Template's fence and the issue's  *)
(* next version in one transaction, and deleted with its Tasks and the     *)
(* issue's write in another.  What each transaction relies on was read     *)
(* before, some of it from the index or a scan, which may lag by a write.  *)
(*                                                                         *)
(* Mutations of single Tasks are the atomic steps that TaskCards is shown  *)
(* to implement, reduced to what a deletion can tell apart.  Files,        *)
(* deliverables and other rows with soft links to a Card are left out.     *)
(***************************************************************************)
EXTENDS Integers, FiniteSets, Sequences

CONSTANTS Issues, NoIssue, Cards, NoCard, Tasks, Templates, NoTemplate, Requests,
          TemplateOf,        \* the Template of each issue's kind
          ScanOrder,         \* the order in which a scan meets the Cards
          Calls              \* what callers ask for

ASSUME IssueCardsAssumption ==
  /\ NoIssue \notin Issues /\ NoCard \notin Cards /\ NoTemplate \notin Templates
  /\ TemplateOf \in [Issues -> Templates]
  /\ ScanOrder \in Seq(Cards)
  /\ Calls \subseteq {"create", "edit", "reinstate", "remove", "cancel", "delete", "admin",
                      "drop Template", "edit Template"}

IssueRow == [state : {"planned", "cancelled", "deleted"}, version : Nat, card : Cards \cup {NoCard}]
CardRow == [state : {"unused", "live", "deleted"}, version : Nat,
            template : Templates \cup {NoTemplate},
            madeFor : Issues \cup {NoIssue}]          \* history: whose Card it was made as
TaskRow == [state : {"unused", "live", "deleted"}, version : Nat, card : Cards \cup {NoCard},
            done : BOOLEAN, noted : BOOLEAN, link : Cards \cup {NoCard}]
TemplateRow == [live : BOOLEAN, version : Nat, cardCreateSeq : Nat]
RequestRec == [pc : {"start", "create", "write issue", "check", "plan", "delete Card", "scan",
                     "drop", "edit", "done"},
               call : Calls \cup {"none"}, issue : Issues \cup {NoIssue}, card : Cards \cup {NoCard},
               template : Templates \cup {NoTemplate}, version : Nat, seq : Nat, confirm : BOOLEAN,
               row : IssueRow,                    \* the issue as read
               tasks : SUBSET (Tasks \X Nat),     \* the Tasks listed, with their versions
               passed : SUBSET Cards]             \* history: Cards of the Template at the in-use scan

VARIABLES issue, card, task, template,   \* the stored rows
          issueOld, taskOld,             \* the image before a row's last write
          req                            \* the call each request runs, and what it read

vars == <<issue, card, task, template, issueOld, taskOld, req>>

Blank == [pc |-> "start", call |-> "none", issue |-> NoIssue, card |-> NoCard,
          template |-> NoTemplate, version |-> 0, seq |-> 0, confirm |-> FALSE,
          row |-> [state |-> "deleted", version |-> 0, card |-> NoCard], tasks |-> {}, passed |-> {}]

Init ==
  /\ issue = [i \in Issues |-> [state |-> "planned", version |-> 1, card |-> NoCard]]
  /\ card = [c \in Cards |-> [state |-> "unused", version |-> 0, template |-> NoTemplate,
                              madeFor |-> NoIssue]]
  /\ task = [t \in Tasks |-> [state |-> "unused", version |-> 0, card |-> NoCard, done |-> FALSE,
                              noted |-> FALSE, link |-> NoCard]]
  /\ template = [p \in Templates |-> [live |-> TRUE, version |-> 1, cardCreateSeq |-> 0]]
  /\ issueOld = issue /\ taskOld = task
  /\ req = [r \in Requests |-> Blank]

Live(c) == c \in Cards /\ card[c].state = "live"
TasksOf(c) == {t \in Tasks : task[t].state = "live" /\ task[t].card = c}
CardsFrom(p) == {c \in Cards : card[c].state = "live" /\ card[c].template = p}

\* Eventually consistent: the row, or what it was before its last write.
Lagging(row, old, k) == {row[k], old[k]}
PutIssue(i, row) == issue' = [issue EXCEPT ![i] = row] /\ issueOld' = [issueOld EXCEPT ![i] = issue[i]]
PutTasks(rows) ==
  /\ task' = rows
  /\ taskOld' = [t \in Tasks |-> IF rows[t] = task[t] THEN taskOld[t] ELSE task[t]]
Become(r, next) == req' = [req EXCEPT ![r] = next]
Goto(r, pc) == req' = [req EXCEPT ![r].pc = pc]
Stop(r) == Become(r, [Blank EXCEPT !.pc = "done"])
Starts(r, call) == req[r].pc = "start" /\ call \in Calls

-----------------------------------------------------------------------------
\* Creating a Card: for an issue, on request or by the daily run, or for nobody.

AskForCard(r, i, p) ==
  /\ Starts(r, "create") /\ template[p].live
  /\ \/ /\ i = NoIssue
        /\ Become(r, [Blank EXCEPT !.pc = "create", !.call = "create", !.template = p,
                                   !.version = template[p].version])
     \/ /\ i \in Issues /\ p = TemplateOf[i]
        /\ \E row \in Lagging(issue, issueOld, i) :
             /\ row.state = "planned" /\ row.card = NoCard
             /\ Become(r, [Blank EXCEPT !.pc = "create", !.call = "create", !.issue = i, !.row = row,
                                        !.template = p, !.version = template[p].version])
  /\ UNCHANGED <<issue, card, task, template, issueOld, taskOld>>

\* An issue is replaced at the version it was read.
Unmoved(r) ==
  LET i == req[r].issue
  IN  i # NoIssue => issue[i].state # "deleted" /\ issue[i].version = req[r].row.version
\* Slips: the issue's condition is dropped; the fence is verified but not moved.
BugIssueUnchecked(r) ==
  LET p == req[r].template IN template[p].live /\ template[p].version = req[r].version
BugSeqKept(p) == template[p]
CreationHolds(r) ==
  LET p == req[r].template
  IN  template[p].live /\ template[p].version = req[r].version /\ Unmoved(r)
Fenced(p) == [template[p] EXCEPT !.cardCreateSeq = @ + 1]
CreateCard(r, c, new) ==
  LET i == req[r].issue
      p == req[r].template
  IN  /\ req[r].pc = "create" /\ CreationHolds(r)
      /\ card[c].state = "unused" /\ \A t \in new : task[t].state = "unused"
      /\ card' = [card EXCEPT ![c] = [state |-> "live", version |-> 1, template |-> p, madeFor |-> i]]
      /\ PutTasks([t \in Tasks |->
           IF t \in new THEN [task[t] EXCEPT !.state = "live", !.version = 1, !.card = c] ELSE task[t]])
      /\ template' = [template EXCEPT ![p] = Fenced(p)]
      /\ IF i = NoIssue THEN UNCHANGED <<issue, issueOld>>
         ELSE PutIssue(i, [state |-> req[r].row.state, version |-> req[r].row.version + 1, card |-> c])
      /\ Stop(r)

\* A transaction one of whose conditions fails changes nothing.
Holds(r) ==
  CASE req[r].pc = "create" -> CreationHolds(r)
    [] req[r].pc = "delete Card" ->
         LET c == req[r].card
         IN  /\ Live(c) /\ card[c].version = req[r].version /\ Unmoved(r)
             /\ \A e \in req[r].tasks : e[1] \in TasksOf(c) /\ task[e[1]].version = e[2]
    [] req[r].pc = "write issue" ->
         Unmoved(r) /\ (req[r].call = "delete" => issue[req[r].issue].card = NoCard)
    [] req[r].pc = "drop" ->
         LET p == req[r].template
         IN  /\ template[p].live /\ template[p].version = req[r].version
             /\ template[p].cardCreateSeq = req[r].seq
    [] req[r].pc = "edit" ->
         template[req[r].template].live /\ template[req[r].template].version = req[r].version
    [] OTHER -> TRUE
Conflict(r) ==
  /\ ~Holds(r) /\ Stop(r)
  /\ UNCHANGED <<issue, card, task, template, issueOld, taskOld>>

-----------------------------------------------------------------------------
\* Writing an issue without a say in its Card's existence.

AskForWrite(r, i, call) ==
  /\ Starts(r, call) /\ call \in {"edit", "reinstate", "cancel", "delete"}
  /\ \E row \in Lagging(issue, issueOld, i) :
       /\ row.state # "deleted"
       /\ call = "cancel" => row.state = "planned" /\ row.card = NoCard
       /\ call = "delete" => row.card = NoCard
       /\ call = "reinstate" => row.state = "cancelled"
       /\ Become(r, [Blank EXCEPT !.pc = "write issue", !.call = call, !.issue = i, !.row = row])
  /\ UNCHANGED <<issue, card, task, template, issueOld, taskOld>>

\* Slip: the request's own verb is stored as the issue's status.
BugVerbStored(r) == [req[r].row EXCEPT !.version = @ + 1, !.state = req[r].call, !.card = NoCard]
\* The issue's next version after the call, its Card gone if it had one.
Written(r) ==
  LET row == req[r].row
      call == req[r].call
  IN  [state |-> CASE call = "cancel" -> "cancelled" [] call = "delete" -> "deleted"
                   [] call = "reinstate" -> "planned" [] OTHER -> row.state,
       version |-> row.version + 1,
       card |-> IF call \in {"edit", "reinstate"} THEN row.card ELSE NoCard]
WriteIssue(r) ==
  /\ req[r].pc = "write issue" /\ Holds(r)
  /\ PutIssue(req[r].issue, Written(r))
  /\ Stop(r)
  /\ UNCHANGED <<card, task, template, taskOld>>

-----------------------------------------------------------------------------
\* Deleting a Card: with its issue's own write, or by an admin.

AskForRemoval(r, i, call, confirm) ==
  /\ Starts(r, call) /\ call \in {"remove", "cancel", "delete"}
  /\ \E row \in Lagging(issue, issueOld, i) :
       /\ row.state # "deleted" /\ Live(row.card)
       /\ Become(r, [Blank EXCEPT !.pc = "check", !.call = call, !.issue = i, !.row = row,
                       !.card = row.card, !.version = card[row.card].version, !.confirm = confirm])
  /\ UNCHANGED <<issue, card, task, template, issueOld, taskOld>>

\* The caller names the Card version he saw.
AskForDeletion(r, c) ==
  /\ Starts(r, "admin") /\ Live(c)
  /\ Become(r, [Blank EXCEPT !.pc = "plan", !.call = "admin", !.card = c,
                             !.version = card[c].version, !.confirm = TRUE])
  /\ UNCHANGED <<issue, card, task, template, issueOld, taskOld>>

\* Slip: the work is looked up in the index.
BugCheckIndex(r) ==
  {t \in Tasks : taskOld[t].state = "live" /\ taskOld[t].card = req[r].card /\ taskOld[t].done}
\* What a caller has to confirm; only a removal asks for notes.
Work(r) == {t \in TasksOf(req[r].card) : task[t].done \/ (req[r].call = "remove" /\ task[t].noted)}
CheckWork(r) ==
  /\ req[r].pc = "check"
  /\ IF Work(r) # {} /\ ~req[r].confirm THEN Stop(r) ELSE Goto(r, "plan")
  /\ UNCHANGED <<issue, card, task, template, issueOld, taskOld>>

\* The Card again; its Tasks from the index; then scans for what points at it.
PlanDeletion(r) ==
  LET c == req[r].card
  IN  /\ req[r].pc = "plan"
      /\ IF Live(c) /\ card[c].version = req[r].version
         THEN \E late, unseen \in SUBSET Tasks, past \in SUBSET Issues :
                LET index == [t \in Tasks |-> IF t \in late THEN taskOld[t] ELSE task[t]]
                    scan == [t \in Tasks |-> IF t \in unseen THEN taskOld[t] ELSE task[t]]
                    shown == [j \in Issues |-> IF j \in past THEN issueOld[j] ELSE issue[j]]
                    listed == {t \in Tasks : index[t].state = "live" /\ index[t].card = c}
                    linking == {t \in Tasks \ listed : scan[t].state = "live" /\ scan[t].link = c}
                    owning == {j \in Issues \ {req[r].issue} :
                                 shown[j].state # "deleted" /\ shown[j].card = c}
                IN  IF linking \cup owning # {} THEN Stop(r)
                    ELSE Become(r, [req[r] EXCEPT !.pc = "delete Card",
                                                  !.tasks = {<<t, index[t].version>> : t \in listed}])
         ELSE Stop(r)
      /\ UNCHANGED <<issue, card, task, template, issueOld, taskOld>>

DeleteCard(r) ==
  LET c == req[r].card
      gone == {e[1] : e \in req[r].tasks}
  IN  /\ req[r].pc = "delete Card" /\ Holds(r)
      /\ card' = [card EXCEPT ![c].state = "deleted"]
      /\ PutTasks([t \in Tasks |-> IF t \in gone THEN [task[t] EXCEPT !.state = "deleted"] ELSE task[t]])
      /\ IF req[r].issue = NoIssue THEN UNCHANGED <<issue, issueOld>>
         ELSE PutIssue(req[r].issue, Written(r))
      /\ Stop(r)
      /\ UNCHANGED template

-----------------------------------------------------------------------------
\* Templates: an editor's write, and the deletion of one that no Card uses.

AskForTemplate(r, p, call) ==
  /\ Starts(r, call) /\ call \in {"drop Template", "edit Template"} /\ template[p].live
  /\ Become(r, [Blank EXCEPT !.pc = IF call = "edit Template" THEN "edit" ELSE "scan", !.call = call,
                  !.template = p, !.version = template[p].version, !.seq = template[p].cardCreateSeq])
  /\ UNCHANGED <<issue, card, task, template, issueOld, taskOld>>

\* The scan has a limit of one row, and the limit counts rows before the filter.
InUse(p) ==
  LET rows == SelectSeq(ScanOrder, LAMBDA c : card[c].state = "live")
  IN  rows # <<>> /\ card[Head(rows)].template = p
ScanCards(r) ==
  /\ req[r].pc = "scan"
  /\ IF InUse(req[r].template) THEN Stop(r)
     ELSE Become(r, [req[r] EXCEPT !.pc = "drop", !.passed = CardsFrom(req[r].template)])
  /\ UNCHANGED <<issue, card, task, template, issueOld, taskOld>>
DropTemplate(r) ==
  /\ req[r].pc = "drop" /\ Holds(r)
  /\ template' = [template EXCEPT ![req[r].template].live = FALSE]
  /\ Stop(r)
  /\ UNCHANGED <<issue, card, task, issueOld, taskOld>>

\* The whole item is put back, the fence as it was read.
EditTemplate(r) ==
  /\ req[r].pc = "edit" /\ Holds(r)
  /\ LET p == req[r].template
     IN  template' = [template EXCEPT ![p] = [live |-> template[p].live, version |-> template[p].version + 1,
                                              cardCreateSeq |-> req[r].seq]]
  /\ Stop(r)
  /\ UNCHANGED <<issue, card, task, issueOld, taskOld>>

-----------------------------------------------------------------------------
\* Task requests, each one transaction: all but a note move the Card.

PutTask(t, row) == PutTasks([task EXCEPT ![t] = row])
Touch(c) == card' = [card EXCEPT ![c].version = @ + 1]
AddTask(t, c) ==
  /\ task[t].state = "unused" /\ Live(c)
  /\ PutTask(t, [task[t] EXCEPT !.state = "live", !.version = 1, !.card = c])
  /\ Touch(c)
  /\ UNCHANGED <<issue, template, issueOld, req>>
CompleteTask(t) ==
  /\ task[t].state = "live" /\ ~task[t].done /\ Live(task[t].card)
  /\ PutTask(t, [task[t] EXCEPT !.done = TRUE, !.version = task[t].version + 1])
  /\ Touch(task[t].card)
  /\ UNCHANGED <<issue, template, issueOld, req>>
NoteTask(t) ==
  /\ task[t].state = "live" /\ ~task[t].noted
  /\ PutTask(t, [task[t] EXCEPT !.noted = TRUE, !.version = task[t].version + 1])
  /\ UNCHANGED <<issue, card, template, issueOld, req>>
\* Bound: a Task is linked once.
LinkTask(t, c) ==
  /\ task[t].state = "live" /\ task[t].link = NoCard /\ Live(c)
  /\ PutTask(t, [task[t] EXCEPT !.link = c, !.version = task[t].version + 1])
  /\ Touch(c)
  /\ UNCHANGED <<issue, template, issueOld, req>>

Next ==
  \/ \E r \in Requests :
       \/ \E i \in Issues \cup {NoIssue}, p \in Templates : AskForCard(r, i, p)
       \/ \E c \in Cards, new \in SUBSET Tasks : Cardinality(new) <= 1 /\ CreateCard(r, c, new)
       \/ \E i \in Issues, call \in Calls :
            AskForWrite(r, i, call) \/ \E confirm \in BOOLEAN : AskForRemoval(r, i, call, confirm)
       \/ \E c \in Cards : AskForDeletion(r, c)
       \/ \E p \in Templates, call \in Calls : AskForTemplate(r, p, call)
       \/ WriteIssue(r) \/ CheckWork(r) \/ PlanDeletion(r) \/ DeleteCard(r)
       \/ ScanCards(r) \/ DropTemplate(r) \/ EditTemplate(r) \/ Conflict(r)
  \/ \E t \in Tasks : CompleteTask(t) \/ NoteTask(t) \/ \E c \in Cards : AddTask(t, c) \/ LinkTask(t, c)

Spec == Init /\ [][Next]_vars

-----------------------------------------------------------------------------
\* Properties

IssueTypeOK ==
  /\ {issue, issueOld} \subseteq [Issues -> IssueRow]
  /\ card \in [Cards -> CardRow]
  /\ {task, taskOld} \subseteq [Tasks -> TaskRow]
  /\ template \in [Templates -> TemplateRow]
  /\ req \in [Requests -> RequestRec]

\* Whatever creates, cancels, deletes, edits and removals overlap, a live Card
\* made for an issue is the one Card that issue names, and the issue is planned.
IssueOwnsItsCards ==
  \A c \in Cards :
    Live(c) /\ card[c].madeFor # NoIssue =>
      issue[card[c].madeFor].card = c /\ issue[card[c].madeFor].state = "planned"

\* A completed Task goes with its Card only if the caller confirmed: one that is
\* completed between the check and the transaction keeps the Card.
CompletedWorkNeedsConfirmation ==
  [][\A t \in Tasks :
       task[t].state = "live" /\ task[t].done /\ task'[t].state = "deleted" =>
         \E r \in Requests : req[r].pc = "delete Card" /\ req'[r].pc = "done" /\ req[r].confirm]_vars

\* The fence of a Template: what is deleted has no Cards but those the in-use
\* scan passed over.  No creation slips in between the scan and the deletion.
NoCardSlipsIn ==
  [][\A p \in Templates :
       template[p].live /\ ~template'[p].live =>
         \E r \in Requests : /\ req[r].pc = "drop" /\ req'[r].pc = "done" /\ req[r].template = p
                             /\ CardsFrom(p) \subseteq req[r].passed]_vars

\* Expected by the CLI manual, and not so: only unused Templates are deleted.
OnlyUnusedDeleted ==
  [][\A p \in Templates : template[p].live /\ ~template'[p].live => CardsFrom(p) = {}]_vars
=============================================================================
