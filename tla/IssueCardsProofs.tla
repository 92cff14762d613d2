--------------------------- MODULE IssueCardsProofs ---------------------------
(***************************************************************************)
(* Proofs about IssueCards, for every set of issues, Cards, Tasks,         *)
(* Templates and requests.                                                 *)
(*                                                                         *)
(* What a request wants to write was decided on rows read before.  IInv    *)
(* says what is left of that: a row read is an earlier value of the stored *)
(* one, and the same value at the same version; an unconfirmed deletion's  *)
(* Card holds no completed Task while its version is the one that was      *)
(* read; a Template at the version and fence that were read has no Cards   *)
(* but those the scan saw.                                                 *)
(***************************************************************************)
EXTENDS IssueCards, TLAPS

\* A row is behind the stored one, or is the stored one.
Past(old, now) == old.version <= now.version /\ (old.version = now.version => old = now)
ImagesArePast == \A i \in Issues : Past(issueOld[i], issue[i])

\* No Task is completed before it exists.
UnusedIsOpen == \A t \in Tasks : task[t].state = "unused" => ~task[t].done

\* What the request q holds is still worth what its conditions make of it.
ReadsIssue(q) == q.issue # NoIssue => Past(q.row, issue[q.issue])
ReadsToWrite(q) ==
  /\ q.pc = "create" =>
       q.template \in Templates /\ (q.issue # NoIssue => q.row.state = "planned" /\ q.row.card = NoCard)
  /\ q.pc = "write issue" =>
       /\ q.issue \in Issues
       /\ q.call \in {"edit", "reinstate", "cancel", "delete"}
       /\ q.call \in {"cancel", "delete"} => q.row.card = NoCard
ReadsToDelete(q) ==
  q.pc \in {"check", "plan", "delete Card"} =>
    /\ q.card \in Cards /\ card[q.card].state # "unused" /\ q.version <= card[q.card].version
    /\ q.issue # NoIssue => q.row.card = q.card /\ q.call \notin {"edit", "reinstate"}
    /\ q.pc # "check" /\ ~q.confirm /\ card[q.card].version = q.version =>
         \A t \in TasksOf(q.card) : ~task[t].done
ReadsTemplate(q) ==
  q.pc \in {"scan", "drop", "edit"} =>
    /\ q.template \in Templates
    /\ q.version <= template[q.template].version
    /\ q.version = template[q.template].version =>
         /\ q.seq <= template[q.template].cardCreateSeq
         /\ q.pc = "drop" /\ q.seq = template[q.template].cardCreateSeq =>
              CardsFrom(q.template) \subseteq q.passed
Justified(q) == ReadsIssue(q) /\ ReadsToWrite(q) /\ ReadsToDelete(q) /\ ReadsTemplate(q)

IInv == /\ IssueTypeOK /\ ImagesArePast /\ UnusedIsOpen /\ IssueOwnsItsCards
        /\ \A r \in Requests : Justified(req[r])

Stored == <<issue, card, task, template, issueOld, taskOld>>

-----------------------------------------------------------------------------
\* Blank is a request, and one that wants nothing is justified.
LEMMA BlankRequest ==
  /\ Blank \in RequestRec /\ Justified(Blank)
  /\ [Blank EXCEPT !.pc = "done"] \in RequestRec /\ Justified([Blank EXCEPT !.pc = "done"])
  BY DEF Blank, RequestRec, IssueRow, Justified, ReadsIssue, ReadsToWrite, ReadsToDelete, ReadsTemplate

\* A step that only makes a request hold what is justified keeps the invariant.
LEMMA Reading ==
  ASSUME IInv, NEW r \in Requests, NEW q \in RequestRec, Justified(q), Become(r, q), UNCHANGED Stored
  PROVE  IInv'
  <1>1. IssueTypeOK'
    BY DEF IInv, IssueTypeOK, Become, Stored
  <1>2. (ImagesArePast /\ UnusedIsOpen /\ IssueOwnsItsCards)'
    BY DEF IInv, ImagesArePast, UnusedIsOpen, IssueOwnsItsCards, Live, Stored
  <1>3. ASSUME NEW s \in Requests
        PROVE  Justified(req[s])'
    <2>1. req'[s] \in {req[s], q}
      BY DEF IInv, IssueTypeOK, Become
    <2>2. Justified(req[s]) /\ Justified(q)
      BY DEF IInv
    <2>3. ReadsIssue(req[s])' /\ ReadsToWrite(req[s])'
      BY <2>1, <2>2 DEF Justified, ReadsIssue, ReadsToWrite, Stored
    <2>4. ReadsToDelete(req[s])'
      BY <2>1, <2>2 DEF Justified, ReadsToDelete, TasksOf, Stored
    <2>5. ReadsTemplate(req[s])'
      BY <2>1, <2>2 DEF Justified, ReadsTemplate, CardsFrom, Stored
    <2> QED
      BY <2>3, <2>4, <2>5 DEF Justified
  <1> QED
    BY <1>1, <1>2, <1>3 DEF IInv

\* An image of an issue is a row, and an earlier value of the stored one.
LEMMA Images ==
  ASSUME IInv, NEW i \in Issues, NEW row \in Lagging(issue, issueOld, i)
  PROVE  row \in IssueRow /\ Past(row, issue[i])
  BY DEF IInv, IssueTypeOK, ImagesArePast, Past, Lagging, IssueRow

-----------------------------------------------------------------------------
\* The steps that read.

\* A request that ends, whatever it held, has nothing left to justify.
LEMMA StopKeeps ==
  ASSUME IInv, NEW r \in Requests, Stop(r), UNCHANGED Stored
  PROVE  IInv'
  BY BlankRequest, Reading DEF Stop

\* A Card is asked for on an image of an issue that has none.
LEMMA AskForCardKeeps ==
  ASSUME IInv, NEW r \in Requests, NEW i \in Issues \cup {NoIssue}, NEW p \in Templates,
         AskForCard(r, i, p)
  PROVE  IInv'
  <1>1. template[p].version \in Nat /\ "create" \in Calls \cup {"none"} /\ NoIssue \notin Issues
    BY IssueCardsAssumption DEF IInv, IssueTypeOK, TemplateRow, AskForCard, Starts
  <1>2. UNCHANGED Stored
    BY DEF AskForCard, Stored
  <1>3. CASE i = NoIssue
    <2> DEFINE q == [Blank EXCEPT !.pc = "create", !.call = "create", !.template = p,
                                  !.version = template[p].version]
    <2>1. q \in RequestRec /\ Justified(q)
      BY <1>1 DEF Blank, RequestRec, IssueRow, Justified, ReadsIssue, ReadsToWrite, ReadsToDelete,
                  ReadsTemplate
    <2>2. Become(r, q)
      BY <1>3, <1>1 DEF AskForCard
    <2> QED
      BY <2>1, <2>2, <1>2, Reading
  <1>4. CASE i \in Issues
    <2>1. PICK row \in Lagging(issue, issueOld, i) :
            /\ row.state = "planned" /\ row.card = NoCard
            /\ Become(r, [Blank EXCEPT !.pc = "create", !.call = "create", !.issue = i, !.row = row,
                                       !.template = p, !.version = template[p].version])
      BY <1>4, <1>1 DEF AskForCard
    <2> DEFINE q == [Blank EXCEPT !.pc = "create", !.call = "create", !.issue = i, !.row = row,
                                  !.template = p, !.version = template[p].version]
    <2>2. q \in RequestRec /\ Justified(q)
      BY <1>1, <1>4, <2>1, Images
         DEF Blank, RequestRec, Justified, ReadsIssue, ReadsToWrite, ReadsToDelete, ReadsTemplate
    <2> QED
      BY <2>1, <2>2, <1>2, Reading
  <1> QED
    BY <1>3, <1>4

\* A cancellation or deletion without a Card was asked for on an image without one.
LEMMA AskForWriteKeeps ==
  ASSUME IInv, NEW r \in Requests, NEW i \in Issues, NEW call \in Calls, AskForWrite(r, i, call)
  PROVE  IInv'
  <1>1. PICK row \in Lagging(issue, issueOld, i) :
          /\ call \in {"cancel", "delete"} => row.card = NoCard
          /\ Become(r, [Blank EXCEPT !.pc = "write issue", !.call = call, !.issue = i, !.row = row])
    BY DEF AskForWrite
  <1> DEFINE q == [Blank EXCEPT !.pc = "write issue", !.call = call, !.issue = i, !.row = row]
  <1>2. q \in RequestRec /\ Justified(q)
    BY <1>1, Images
       DEF AskForWrite, Blank, RequestRec, Justified, ReadsIssue, ReadsToWrite, ReadsToDelete, ReadsTemplate
  <1>3. UNCHANGED Stored
    BY DEF AskForWrite, Stored
  <1> QED
    BY <1>1, <1>2, <1>3, Reading

\* A removal holds the version of the Card its image of the issue names.
LEMMA AskForRemovalKeeps ==
  ASSUME IInv, NEW r \in Requests, NEW i \in Issues, NEW call \in Calls, NEW confirm \in BOOLEAN,
         AskForRemoval(r, i, call, confirm)
  PROVE  IInv'
  <1>1. PICK row \in Lagging(issue, issueOld, i) :
          /\ Live(row.card)
          /\ Become(r, [Blank EXCEPT !.pc = "check", !.call = call, !.issue = i, !.row = row,
                          !.card = row.card, !.version = card[row.card].version, !.confirm = confirm])
    BY DEF AskForRemoval
  <1> DEFINE q == [Blank EXCEPT !.pc = "check", !.call = call, !.issue = i, !.row = row,
                     !.card = row.card, !.version = card[row.card].version, !.confirm = confirm]
  <1>2. row.card \in Cards /\ card[row.card].version \in Nat /\ card[row.card].state = "live"
    BY <1>1 DEF Live, IInv, IssueTypeOK, CardRow
  <1>a. row \in IssueRow /\ Past(row, issue[i]) /\ call \in {"remove", "cancel", "delete"}
    BY <1>1, Images DEF AskForRemoval
  <1>b. q \in RequestRec
    BY <1>a, <1>2 DEF Blank, RequestRec
  <1>c. /\ q.pc = "check" /\ q.call = call /\ q.issue = i /\ q.row = row /\ q.card = row.card
        /\ q.version = card[row.card].version
    BY DEF Blank
  <1>3. q \in RequestRec /\ Justified(q)
    BY <1>a, <1>b, <1>c, <1>2 DEF Justified, ReadsIssue, ReadsToWrite, ReadsToDelete, ReadsTemplate
  <1>4. UNCHANGED Stored
    BY DEF AskForRemoval, Stored
  <1> QED
    BY <1>1, <1>3, <1>4, Reading

\* An admin holds the version of the Card he saw.
LEMMA AskForDeletionKeeps ==
  ASSUME IInv, NEW r \in Requests, NEW c \in Cards, AskForDeletion(r, c)
  PROVE  IInv'
  <1> DEFINE q == [Blank EXCEPT !.pc = "plan", !.call = "admin", !.card = c,
                                !.version = card[c].version, !.confirm = TRUE]
  <1>1. Become(r, q) /\ UNCHANGED Stored /\ "admin" \in Calls /\ card[c].state = "live"
    BY DEF AskForDeletion, Stored, Starts, Live
  <1>a. card[c].version \in Nat
    BY DEF IInv, IssueTypeOK, CardRow
  <1>b. q \in RequestRec
    BY <1>1, <1>a DEF Blank, RequestRec, IssueRow
  <1>c. q.pc = "plan" /\ q.issue = NoIssue /\ q.card = c /\ q.version = card[c].version /\ q.confirm
    BY DEF Blank
  <1>2. q \in RequestRec /\ Justified(q)
    BY <1>1, <1>a, <1>b, <1>c DEF Justified, ReadsIssue, ReadsToWrite, ReadsToDelete, ReadsTemplate
  <1> QED
    BY <1>1, <1>2, Reading

\* Without the caller's word the check passes only a Card without completed Tasks.
LEMMA CheckWorkKeeps ==
  ASSUME IInv, NEW r \in Requests, CheckWork(r)
  PROVE  IInv'
  <1>1. UNCHANGED Stored
    BY DEF CheckWork, Stored
  <1>2. CASE Stop(r)
    BY <1>1, <1>2, StopKeeps
  <1>3. CASE Goto(r, "plan") /\ ~(Work(r) # {} /\ ~req[r].confirm)
    <2> DEFINE q == [req[r] EXCEPT !.pc = "plan"]
    <2>1. Become(r, q)
      BY <1>3 DEF Goto, Become
    <2>2. req[r] \in RequestRec /\ Justified(req[r]) /\ req[r].pc = "check"
      BY DEF IInv, IssueTypeOK, CheckWork
    <2>3. q \in RequestRec /\ q.pc = "plan" /\ q.issue = req[r].issue /\ q.row = req[r].row
          /\ q.card = req[r].card /\ q.version = req[r].version /\ q.confirm = req[r].confirm
          /\ q.call = req[r].call
      BY <2>2 DEF RequestRec
    <2>4. ~q.confirm => \A t \in TasksOf(q.card) : ~task[t].done
      BY <1>3, <2>3 DEF Work
    <2>5. Justified(q)
      BY <2>2, <2>3, <2>4 DEF Justified, ReadsIssue, ReadsToWrite, ReadsToDelete, ReadsTemplate
    <2> QED
      BY <1>1, <2>1, <2>3, <2>5, Reading
  <1> QED
    BY <1>2, <1>3 DEF CheckWork

\* The plan lists Tasks; what it may delete unconfirmed is what the check let pass.
LEMMA PlanDeletionKeeps ==
  ASSUME IInv, NEW r \in Requests, PlanDeletion(r)
  PROVE  IInv'
  <1>1. UNCHANGED Stored
    BY DEF PlanDeletion, Stored
  <1>2. CASE Stop(r)
    BY <1>1, <1>2, StopKeeps
  <1>3. CASE ~Stop(r)
    <2>1. PICK listing \in SUBSET (Tasks \X Nat) :
            Become(r, [req[r] EXCEPT !.pc = "delete Card", !.tasks = listing])
      <3>1. PICK late \in SUBSET Tasks :
              LET index == [t \in Tasks |-> IF t \in late THEN taskOld[t] ELSE task[t]]
                  listed == {t \in Tasks : index[t].state = "live" /\ index[t].card = req[r].card}
              IN  Become(r, [req[r] EXCEPT !.pc = "delete Card",
                                           !.tasks = {<<t, index[t].version>> : t \in listed}])
        BY <1>3 DEF PlanDeletion
      <3>2. \A t \in Tasks : task[t].version \in Nat /\ taskOld[t].version \in Nat
        BY DEF IInv, IssueTypeOK, TaskRow
      <3> DEFINE index == [t \in Tasks |-> IF t \in late THEN taskOld[t] ELSE task[t]]
      <3> DEFINE listing ==
                   {<<t, index[t].version>> :
                      t \in {u \in Tasks : index[u].state = "live" /\ index[u].card = req[r].card}}
      <3>3. \A t \in Tasks : index[t].version \in Nat
        BY <3>2
      <3>4. Become(r, [req[r] EXCEPT !.pc = "delete Card", !.tasks = listing])
        BY <3>1
      <3> HIDE DEF index
      <3>5. listing \in SUBSET (Tasks \X Nat)
        BY <3>3
      <3> QED
        BY <3>4, <3>5
    <2> DEFINE q == [req[r] EXCEPT !.pc = "delete Card", !.tasks = listing]
    <2>2. req[r] \in RequestRec /\ Justified(req[r]) /\ req[r].pc = "plan"
      BY DEF IInv, IssueTypeOK, PlanDeletion
    <2>3. q \in RequestRec /\ q.pc = "delete Card" /\ q.issue = req[r].issue /\ q.row = req[r].row
          /\ q.card = req[r].card /\ q.version = req[r].version /\ q.confirm = req[r].confirm
          /\ q.call = req[r].call
      BY <2>2 DEF RequestRec
    <2>4. Justified(q)
      BY <2>2, <2>3 DEF Justified, ReadsIssue, ReadsToWrite, ReadsToDelete, ReadsTemplate
    <2> QED
      BY <1>1, <2>1, <2>3, <2>4, Reading
  <1> QED
    BY <1>2, <1>3

\* A Template is asked for at its version and fence as they are.
LEMMA AskForTemplateKeeps ==
  ASSUME IInv, NEW r \in Requests, NEW p \in Templates, NEW call \in Calls, AskForTemplate(r, p, call)
  PROVE  IInv'
  <1> DEFINE q == [Blank EXCEPT !.pc = IF call = "edit Template" THEN "edit" ELSE "scan", !.call = call,
                     !.template = p, !.version = template[p].version, !.seq = template[p].cardCreateSeq]
  <1>1. Become(r, q) /\ UNCHANGED Stored
    BY DEF AskForTemplate, Stored
  <1>2. template[p].version \in Nat /\ template[p].cardCreateSeq \in Nat
    BY DEF IInv, IssueTypeOK, TemplateRow
  <1>3. q \in RequestRec
    BY <1>2 DEF Blank, RequestRec, IssueRow
  <1>4. q.pc \in {"edit", "scan"} /\ q.issue = NoIssue /\ q.template = p
        /\ q.version = template[p].version /\ q.seq = template[p].cardCreateSeq
    BY DEF Blank
  <1>5. Justified(q)
    BY <1>2, <1>4 DEF Justified, ReadsIssue, ReadsToWrite, ReadsToDelete, ReadsTemplate
  <1> QED
    BY <1>1, <1>3, <1>5, Reading

\* At the scan the Template's Cards are those it has.
LEMMA ScanCardsKeeps ==
  ASSUME IInv, NEW r \in Requests, ScanCards(r)
  PROVE  IInv'
  <1>1. UNCHANGED Stored
    BY DEF ScanCards, Stored
  <1>2. CASE Stop(r)
    BY <1>1, <1>2, StopKeeps
  <1>3. CASE ~Stop(r)
    <2> DEFINE q == [req[r] EXCEPT !.pc = "drop", !.passed = CardsFrom(req[r].template)]
    <2>1. Become(r, q)
      BY <1>3 DEF ScanCards
    <2>2. req[r] \in RequestRec /\ Justified(req[r]) /\ req[r].pc = "scan"
      BY DEF IInv, IssueTypeOK, ScanCards
    <2>3. q \in RequestRec /\ q.pc = "drop" /\ q.issue = req[r].issue /\ q.row = req[r].row
          /\ q.template = req[r].template /\ q.version = req[r].version /\ q.seq = req[r].seq
          /\ q.passed = CardsFrom(q.template)
      BY <2>2 DEF RequestRec, CardsFrom
    <2>4. Justified(q)
      BY <2>2, <2>3 DEF Justified, ReadsIssue, ReadsToWrite, ReadsToDelete, ReadsTemplate
    <2> QED
      BY <1>1, <2>1, <2>3, <2>4, Reading
  <1> QED
    BY <1>2, <1>3

-----------------------------------------------------------------------------
\* The steps that write.

\* A live Card made for an issue is named by it.
LEMMA Owned ==
  ASSUME IInv, NEW c \in Cards, card[c].state = "live", card[c].madeFor # NoIssue
  PROVE  /\ card[c].madeFor \in Issues /\ c # NoCard
         /\ issue[card[c].madeFor].card = c /\ issue[card[c].madeFor].state = "planned"
  <1>1. card[c].madeFor \in Issues
    BY DEF IInv, IssueTypeOK, CardRow
  <1>2. IssueOwnsItsCards /\ Live(c)
    BY DEF IInv, Live
  <1> QED
    BY <1>1, <1>2, IssueCardsAssumption, ZenonT(40) DEF IssueOwnsItsCards

\* When a request ends, each request is one there was before or an ended one.
LEMMA Ended ==
  ASSUME IInv, NEW r \in Requests, Stop(r)
  PROVE  /\ req' \in [Requests -> RequestRec]
         /\ \A s \in Requests :
              \E q \in RequestRec : req'[s] = q /\ Justified(q) /\ q.pc \in {"done", req[s].pc}
  <1>1. \A s \in Requests : req'[s] = IF s = r THEN [Blank EXCEPT !.pc = "done"] ELSE req[s]
    BY DEF IInv, IssueTypeOK, Stop, Become
  <1>2. [Blank EXCEPT !.pc = "done"].pc = "done"
    BY DEF Blank
  <1>3. req' \in [Requests -> RequestRec]
    BY BlankRequest DEF IInv, IssueTypeOK, Stop, Become
  <1>4. \A s \in Requests : req[s] \in RequestRec /\ Justified(req[s])
    BY DEF IInv, IssueTypeOK
  <1> QED
    BY <1>1, <1>2, <1>3, <1>4, BlankRequest

\* Writing Task rows leaves rows, and rows as images.
LEMMA TasksPut ==
  ASSUME IInv, NEW rows \in [Tasks -> TaskRow], PutTasks(rows)
  PROVE  task' = rows /\ task' \in [Tasks -> TaskRow] /\ taskOld' \in [Tasks -> TaskRow]
  <1>1. task \in [Tasks -> TaskRow] /\ taskOld \in [Tasks -> TaskRow]
    BY DEF IInv, IssueTypeOK
  <1> QED
    BY <1>1 DEF PutTasks

\* An issue's write at the version that was read: the row it replaces is the
\* row that was read, and every image of it held elsewhere is behind.
LEMMA IssueWritten ==
  ASSUME IInv, NEW i \in Issues, NEW row \in IssueRow, PutIssue(i, row), row.version = issue[i].version + 1
  PROVE  /\ {issue', issueOld'} \subseteq [Issues -> IssueRow]
         /\ ImagesArePast'
         /\ \A q \in RequestRec : ReadsIssue(q) => (q.issue # NoIssue => Past(q.row, issue'[q.issue]))
  <1>1. issue \in [Issues -> IssueRow] /\ issueOld \in [Issues -> IssueRow]
    BY DEF IInv, IssueTypeOK
  <1>2. \A j \in Issues : issue[j].version \in Nat /\ issueOld[j].version \in Nat
    BY <1>1 DEF IssueRow
  <1>3. ImagesArePast'
    BY <1>1, <1>2 DEF PutIssue, ImagesArePast, Past, IInv
  <1>4. ASSUME NEW q \in RequestRec, ReadsIssue(q), q.issue # NoIssue
        PROVE  Past(q.row, issue'[q.issue])
    <2>1. q.issue \in Issues /\ q.row.version \in Nat
      BY <1>4 DEF RequestRec, IssueRow
    <2> QED
      BY <1>1, <1>2, <1>4, <2>1 DEF PutIssue, ReadsIssue, Past
  <1> QED
    BY <1>1, <1>3, <1>4 DEF PutIssue

\* The row each call writes.
LEMMA WrittenRow ==
  ASSUME IInv, NEW r \in Requests
  PROVE  /\ Written(r) \in IssueRow
         /\ Written(r).version = req[r].row.version + 1
         /\ Written(r).card = IF req[r].call \in {"edit", "reinstate"} THEN req[r].row.card ELSE NoCard
         /\ req[r].call = "edit" => Written(r).state = req[r].row.state
         /\ req[r].call = "reinstate" => Written(r).state = "planned"
  <1>1. req[r].row \in IssueRow
    BY DEF IInv, IssueTypeOK, RequestRec
  <1> QED
    BY <1>1 DEF Written, IssueRow

\* A request that changes nothing of Cards, Tasks and Templates.
LEMMA WriteIssueKeeps ==
  ASSUME IInv, NEW r \in Requests, WriteIssue(r)
  PROVE  IInv'
  <1> DEFINE i == req[r].issue
             row == Written(r)
  <1>1. /\ req[r] \in RequestRec /\ Justified(req[r]) /\ req[r].pc = "write issue"
        /\ i \in Issues /\ issue[i] = req[r].row /\ issue[i] \in IssueRow
        /\ req[r].call \in {"edit", "reinstate", "cancel", "delete"}
        /\ req[r].call \in {"cancel", "delete"} => issue[i].card = NoCard
    <2>1. req[r] \in RequestRec /\ Justified(req[r]) /\ req[r].pc = "write issue"
      BY DEF IInv, IssueTypeOK, WriteIssue
    <2>2. i \in Issues /\ i # NoIssue
      BY <2>1, IssueCardsAssumption DEF Justified, ReadsToWrite
    <2>3. Unmoved(r)
      BY <2>1 DEF WriteIssue, Holds
    <2> QED
      BY <2>1, <2>2, <2>3 DEF Unmoved, Justified, ReadsIssue, ReadsToWrite, Past, IInv, IssueTypeOK
  <1>2. /\ row \in IssueRow /\ row.version = issue[i].version + 1
        /\ row.card = IF req[r].call \in {"edit", "reinstate"} THEN issue[i].card ELSE NoCard
        /\ req[r].call = "edit" => row.state = issue[i].state
        /\ req[r].call = "reinstate" => row.state = "planned"
    BY <1>1, WrittenRow
  <1>3. PutIssue(i, row) /\ UNCHANGED <<card, task, template, taskOld>> /\ Stop(r)
    BY DEF WriteIssue
  <1>4. IssueTypeOK'
    <2>1. {issue', issueOld'} \subseteq [Issues -> IssueRow]
      BY <1>1, <1>2, <1>3, IssueWritten
    <2>2. req' \in [Requests -> RequestRec]
      BY <1>3, BlankRequest DEF IInv, IssueTypeOK, Stop, Become
    <2> QED
      BY <2>1, <2>2, <1>3 DEF IInv, IssueTypeOK
  <1>5. IssueOwnsItsCards'
    <2>1. SUFFICES ASSUME NEW c \in Cards, card[c].state = "live", card[c].madeFor # NoIssue
                   PROVE  /\ issue'[card[c].madeFor].card = c
                          /\ issue'[card[c].madeFor].state = "planned"
      BY <1>3 DEF IssueOwnsItsCards, Live
    <2>2. /\ issue[card[c].madeFor].card = c /\ issue[card[c].madeFor].state = "planned"
          /\ card[c].madeFor \in Issues /\ c # NoCard
      BY <2>1, Owned
    <2>3. card[c].madeFor = i => row.card = c /\ row.state = "planned"
      BY <1>1, <1>2, <2>2
    <2> QED
      BY <2>2, <2>3, <1>3, <1>1 DEF PutIssue, IInv, IssueTypeOK
  <1>6. ASSUME NEW s \in Requests
        PROVE  Justified(req[s])'
    <2>1. req'[s] \in {req[s], [Blank EXCEPT !.pc = "done"]}
      BY <1>3 DEF IInv, IssueTypeOK, Stop, Become
    <2>2. \A q \in {req[s], [Blank EXCEPT !.pc = "done"]} : q \in RequestRec /\ Justified(q)
      BY BlankRequest DEF IInv, IssueTypeOK
    <2>3. ReadsIssue(req[s])'
      BY <1>1, <1>2, <1>3, <2>1, <2>2, IssueWritten DEF Justified, ReadsIssue
    <2>4. ReadsToWrite(req[s])'
      BY <2>1, <2>2 DEF Justified, ReadsToWrite
    <2>5. ReadsToDelete(req[s])'
      BY <1>3, <2>1, <2>2 DEF Justified, ReadsToDelete, TasksOf
    <2>6. ReadsTemplate(req[s])'
      BY <1>3, <2>1, <2>2 DEF Justified, ReadsTemplate, CardsFrom
    <2> QED
      BY <2>3, <2>4, <2>5, <2>6 DEF Justified
  <1>7. ImagesArePast' /\ UnusedIsOpen'
    BY <1>1, <1>2, <1>3, IssueWritten DEF IInv, UnusedIsOpen
  <1> QED
    BY <1>4, <1>5, <1>6, <1>7 DEF IInv

\* A new Card moves its Template's fence, and its issue on.
LEMMA CreateCardKeeps ==
  ASSUME IInv, NEW r \in Requests, NEW c \in Cards, NEW new \in SUBSET Tasks, CreateCard(r, c, new)
  PROVE  IInv'
  <1> DEFINE i == req[r].issue
             p == req[r].template
             row == [state |-> req[r].row.state, version |-> req[r].row.version + 1, card |-> c]
  <1>1. /\ req[r] \in RequestRec /\ req[r].pc = "create" /\ p \in Templates
        /\ i # NoIssue => req[r].row.state = "planned" /\ req[r].row.card = NoCard
    BY DEF IInv, IssueTypeOK, CreateCard, Justified, ReadsToWrite
  <1>2. i # NoIssue => i \in Issues /\ issue[i] = req[r].row /\ issue[i] \in IssueRow
    <2>1. CreationHolds(r)
      BY DEF CreateCard
    <2> QED
      BY <1>1, <2>1 DEF CreationHolds, Unmoved, Past, IInv, IssueTypeOK, Justified, ReadsIssue, RequestRec
  <1>3. /\ card[c].state = "unused" /\ \A t \in new : task[t].state = "unused"
        /\ card' = [card EXCEPT ![c] = [state |-> "live", version |-> 1, template |-> p, madeFor |-> i]]
        /\ task' = [t \in Tasks |->
             IF t \in new THEN [task[t] EXCEPT !.state = "live", !.version = 1, !.card = c] ELSE task[t]]
        /\ taskOld' = [t \in Tasks |-> IF task'[t] = task[t] THEN taskOld[t] ELSE task[t]]
        /\ template' = [template EXCEPT ![p] = [template[p] EXCEPT !.cardCreateSeq = @ + 1]]
        /\ i = NoIssue => UNCHANGED <<issue, issueOld>>
        /\ i # NoIssue => PutIssue(i, row)
        /\ Stop(r)
    BY DEF CreateCard, PutTasks, Fenced
  <1>4. i # NoIssue => row \in IssueRow /\ row.version = issue[i].version + 1 /\ row.card = c
                        /\ row.state = "planned"
    BY <1>1, <1>2 DEF IssueRow
  <1>5. IssueTypeOK'
    <2>1. {issue', issueOld'} \subseteq [Issues -> IssueRow]
      BY <1>2, <1>3, <1>4, IssueWritten DEF IInv, IssueTypeOK
    <2>a. i \in Issues \cup {NoIssue}
      BY <1>1 DEF RequestRec
    <2>b. [state |-> "live", version |-> 1, template |-> p, madeFor |-> i] \in CardRow
      BY <1>1, <2>a DEF CardRow
    <2>2. card' \in [Cards -> CardRow]
      BY <1>3, <2>b DEF IInv, IssueTypeOK
    <2> DEFINE born(t) == IF t \in new THEN [task[t] EXCEPT !.state = "live", !.version = 1, !.card = c]
                          ELSE task[t]
    <2>3. ASSUME NEW t \in Tasks
          PROVE  born(t) \in TaskRow
      <3>1. task[t] \in TaskRow
        BY DEF IInv, IssueTypeOK
      <3> QED
        BY <3>1 DEF TaskRow
    <2>c. PutTasks([t \in Tasks |-> born(t)])
      BY DEF CreateCard
    <2> HIDE DEF born
    <2>d. [t \in Tasks |-> born(t)] \in [Tasks -> TaskRow]
      BY <2>3
    <2>4. task' \in [Tasks -> TaskRow] /\ taskOld' \in [Tasks -> TaskRow]
      BY <2>c, <2>d, TasksPut
    <2>e. template[p] \in TemplateRow
      BY <1>1 DEF IInv, IssueTypeOK
    <2>f. [template[p] EXCEPT !.cardCreateSeq = @ + 1] \in TemplateRow
      BY <2>e DEF TemplateRow
    <2>5. template' \in [Templates -> TemplateRow]
      BY <1>3, <2>f DEF IInv, IssueTypeOK
    <2> QED
      BY <2>1, <2>2, <2>4, <2>5, <1>3, Ended DEF IssueTypeOK
  <1>6. ImagesArePast'
    BY <1>2, <1>3, <1>4, IssueWritten DEF IInv, ImagesArePast
  <1>7. UnusedIsOpen'
    BY <1>3, ZenonT(40) DEF IInv, UnusedIsOpen, IssueTypeOK, TaskRow
  <1>8. IssueOwnsItsCards'
    <2>1. SUFFICES ASSUME NEW d \in Cards, card'[d].state = "live", card'[d].madeFor # NoIssue
                   PROVE  /\ issue'[card'[d].madeFor].card = d
                          /\ issue'[card'[d].madeFor].state = "planned"
      BY DEF IssueOwnsItsCards, Live
    <2>2. CASE d = c
      BY <1>2, <1>3, <1>4, <2>1, <2>2 DEF PutIssue, IInv, IssueTypeOK
    <2>3. CASE d # c
      <3>1. card'[d] = card[d]
        BY <1>3, <2>3 DEF IInv, IssueTypeOK
      <3>2. /\ issue[card[d].madeFor].card = d /\ issue[card[d].madeFor].state = "planned"
            /\ card[d].madeFor \in Issues /\ d # NoCard
        BY <2>1, <3>1, Owned
      <3>3. i # NoIssue => card[d].madeFor # i
        BY <1>1, <1>2, <3>2
      <3> QED
        BY <3>1, <3>2, <3>3, <1>3, ZenonT(40) DEF PutIssue, IInv, IssueTypeOK
    <2> QED
      BY <2>2, <2>3
  <1>9. ASSUME NEW s \in Requests
        PROVE  Justified(req[s])'
    <2>1. PICK q \in RequestRec : req'[s] = q /\ Justified(q)
      BY <1>3, Ended
    <2>2. ReadsIssue(req[s])'
      <3>1. q.issue # NoIssue => Past(q.row, issue'[q.issue])
        BY <1>2, <1>3, <1>4, <2>1, IssueWritten DEF Justified, ReadsIssue
      <3> QED
        BY <2>1, <3>1 DEF ReadsIssue
    <2>3. ReadsToWrite(req[s])'
      BY <2>1 DEF Justified, ReadsToWrite
    <2>4. ReadsToDelete(req[s])'
      <3>1. SUFFICES ASSUME q.pc \in {"check", "plan", "delete Card"}
                     PROVE  ReadsToDelete(req[s])'
        BY <2>1 DEF ReadsToDelete
      <3>2. q.card \in Cards /\ card[q.card].state # "unused"
        BY <2>1, <3>1 DEF Justified, ReadsToDelete
      <3>3. q.card # c /\ card'[q.card] = card[q.card]
        BY <1>3, <3>2 DEF IInv, IssueTypeOK
      <3>4. \A t \in TasksOf(q.card)' : t \in TasksOf(q.card) /\ task'[t] = task[t]
        BY <1>3, <3>3, ZenonT(40) DEF TasksOf, IInv, IssueTypeOK, TaskRow
      <3> QED
        BY <2>1, <3>1, <3>2, <3>3, <3>4 DEF Justified, ReadsToDelete
    <2>5. ReadsTemplate(req[s])'
      <3>1. SUFFICES ASSUME q.pc \in {"scan", "drop", "edit"}
                     PROVE  ReadsTemplate(req[s])'
        BY <2>1 DEF ReadsTemplate
      <3>2. q.template \in Templates /\ q.seq \in Nat /\ \A x \in Templates : template[x].cardCreateSeq \in Nat
        BY <2>1, <3>1 DEF Justified, ReadsTemplate, RequestRec, IInv, IssueTypeOK, TemplateRow
      <3>3. template'[q.template].version = template[q.template].version
        BY <1>1, <1>3, <3>2 DEF IInv, IssueTypeOK, TemplateRow
      <3>4. CASE q.template = p
        <4>1. template'[q.template].cardCreateSeq = template[q.template].cardCreateSeq + 1
          BY <1>1, <1>3, <3>2, <3>4 DEF IInv, IssueTypeOK, TemplateRow
        <4> QED
          BY <2>1, <3>1, <3>2, <3>3, <4>1 DEF Justified, ReadsTemplate
      <3>5. CASE q.template # p
        <4>1. template'[q.template] = template[q.template]
          BY <1>3, <3>2, <3>5 DEF IInv, IssueTypeOK
        <4>2. CardsFrom(q.template)' = CardsFrom(q.template)
          BY <1>3, <3>5, <2>1 DEF CardsFrom, IInv, IssueTypeOK
        <4> QED
          BY <2>1, <3>1, <3>2, <4>1, <4>2 DEF Justified, ReadsTemplate, CardsFrom
      <3> QED
        BY <3>4, <3>5
    <2> QED
      BY <2>2, <2>3, <2>4, <2>5 DEF Justified
  <1> QED
    BY <1>5, <1>6, <1>7, <1>8, <1>9 DEF IInv

\* A deletion keeps what is justified: the Card is gone, and what is gone is not live.
LEMMA DeleteCardKeeps ==
  ASSUME IInv, NEW r \in Requests, DeleteCard(r)
  PROVE  IInv'
  <1> DEFINE i == req[r].issue
             k == req[r].card
             row == Written(r)
             gone == {e[1] : e \in req[r].tasks}
             kept(t) == IF t \in gone THEN [task[t] EXCEPT !.state = "deleted"] ELSE task[t]
  <1>1. /\ req[r] \in RequestRec /\ Justified(req[r]) /\ req[r].pc = "delete Card"
        /\ Holds(r) /\ PutTasks([t \in Tasks |-> kept(t)]) /\ Stop(r) /\ UNCHANGED template
        /\ card' = [card EXCEPT ![k].state = "deleted"]
        /\ i = NoIssue => UNCHANGED <<issue, issueOld>>
        /\ i # NoIssue => PutIssue(i, row)
    BY DEF DeleteCard, IInv, IssueTypeOK
  <1>2. k \in Cards /\ card[k].state = "live"
    <2>1. Live(k)
      BY <1>1 DEF Holds
    <2> QED
      BY <2>1 DEF Live
  <1>3. i # NoIssue => /\ i \in Issues /\ issue[i] = req[r].row /\ issue[i].card = k
                       /\ row \in IssueRow /\ row.version = issue[i].version + 1
    <2>1. Unmoved(r) /\ (i \in Issues \/ i = NoIssue) /\ req[r].row \in IssueRow
      BY <1>1 DEF Holds, RequestRec
    <2> QED
      BY <1>1, <2>1, WrittenRow DEF Unmoved, Past, Justified, ReadsIssue, ReadsToDelete, IInv, IssueTypeOK
  <1>4. [t \in Tasks |-> kept(t)] \in [Tasks -> TaskRow]
    <2>1. ASSUME NEW t \in Tasks
          PROVE  kept(t) \in TaskRow
      <3>1. task[t] \in TaskRow
        BY DEF IInv, IssueTypeOK
      <3> QED
        BY <3>1 DEF TaskRow
    <2> HIDE DEF kept
    <2> QED
      BY <2>1
  <1>5. task' = [t \in Tasks |-> kept(t)] /\ task' \in [Tasks -> TaskRow] /\ taskOld' \in [Tasks -> TaskRow]
    <2> HIDE DEF kept
    <2> QED
      BY <1>1, <1>4, TasksPut
  <1>6. ASSUME NEW t \in Tasks
        PROVE  /\ task'[t].done = task[t].done /\ task'[t].card = task[t].card
               /\ task'[t].state # "deleted" => task'[t] = task[t]
    <2>1. task[t] \in TaskRow /\ task'[t] = kept(t)
      BY <1>5 DEF IInv, IssueTypeOK
    <2> QED
      BY <2>1 DEF TaskRow
  <1>7. \A d \in Cards : /\ card'[d].version = card[d].version /\ card'[d].madeFor = card[d].madeFor
                          /\ card'[d].template = card[d].template
                          /\ card'[d].state = IF d = k THEN "deleted" ELSE card[d].state
    BY <1>1, <1>2 DEF IInv, IssueTypeOK, CardRow
  <1>8. IssueTypeOK'
    <2>1. {issue', issueOld'} \subseteq [Issues -> IssueRow]
      BY <1>1, <1>3, IssueWritten DEF IInv, IssueTypeOK
    <2>2. card' \in [Cards -> CardRow]
      BY <1>1, <1>2, ZenonT(40) DEF IInv, IssueTypeOK, CardRow
    <2>3. template' \in [Templates -> TemplateRow]
      BY <1>1 DEF IInv, IssueTypeOK
    <2> QED
      BY <2>1, <2>2, <2>3, <1>1, <1>5, Ended DEF IssueTypeOK
  <1>9. ImagesArePast'
    BY <1>1, <1>3, IssueWritten DEF IInv, ImagesArePast
  <1>10. UnusedIsOpen'
    BY <1>6 DEF IInv, UnusedIsOpen
  <1>11. IssueOwnsItsCards'
    <2>1. SUFFICES ASSUME NEW d \in Cards, card'[d].state = "live", card'[d].madeFor # NoIssue
                   PROVE  /\ issue'[card'[d].madeFor].card = d
                          /\ issue'[card'[d].madeFor].state = "planned"
      BY DEF IssueOwnsItsCards, Live
    <2>2. d # k /\ card[d].state = "live" /\ card'[d].madeFor = card[d].madeFor
      BY <2>1, <1>7
    <2>3. /\ issue[card[d].madeFor].card = d /\ issue[card[d].madeFor].state = "planned"
          /\ card[d].madeFor \in Issues
      BY <2>1, <2>2, Owned
    <2>4. i # NoIssue => card[d].madeFor # i
      BY <1>3, <2>2, <2>3
    <2> QED
      BY <2>2, <2>3, <2>4, <1>1, <1>3 DEF PutIssue, IInv, IssueTypeOK
  <1>12. ASSUME NEW s \in Requests
         PROVE  Justified(req[s])'
    <2>1. PICK q \in RequestRec : req'[s] = q /\ Justified(q)
      BY <1>1, Ended
    <2>2. ReadsIssue(req[s])'
      <3>1. q.issue # NoIssue => Past(q.row, issue'[q.issue])
        BY <1>1, <1>3, <2>1, IssueWritten DEF Justified, ReadsIssue
      <3> QED
        BY <2>1, <3>1 DEF ReadsIssue
    <2>3. ReadsToWrite(req[s])'
      BY <2>1 DEF Justified, ReadsToWrite
    <2>4. ReadsToDelete(req[s])'
      <3>1. \A x \in Cards : \A t \in TasksOf(x)' : t \in TasksOf(x) /\ task'[t].done = task[t].done
        BY <1>6 DEF TasksOf
      <3> QED
        BY <2>1, <3>1, <1>7 DEF Justified, ReadsToDelete
    <2>5. ReadsTemplate(req[s])'
      <3>1. \A x \in Templates : CardsFrom(x)' \subseteq CardsFrom(x)
        BY <1>7 DEF CardsFrom
      <3> QED
        BY <2>1, <3>1, <1>1 DEF Justified, ReadsTemplate
    <2> QED
      BY <2>2, <2>3, <2>4, <2>5 DEF Justified
  <1> QED
    BY <1>8, <1>9, <1>10, <1>11, <1>12 DEF IInv

\* A Template's write never moves its fence back at the same version.
LEMMA TemplateWritten ==
  ASSUME IInv, NEW r \in Requests, NEW p \in Templates, NEW row \in TemplateRow,
         template' = [template EXCEPT ![p] = row], Stop(r),
         UNCHANGED <<issue, card, task, issueOld, taskOld>>,
         \/ row.version = template[p].version /\ row.cardCreateSeq = template[p].cardCreateSeq
         \/ row.version = template[p].version + 1
  PROVE  IInv'
  <1>1. IssueTypeOK'
    <2>1. template' \in [Templates -> TemplateRow]
      BY DEF IInv, IssueTypeOK
    <2> QED
      BY <2>1, Ended DEF IInv, IssueTypeOK
  <1>2. (ImagesArePast /\ UnusedIsOpen /\ IssueOwnsItsCards)'
    BY DEF IInv, ImagesArePast, UnusedIsOpen, IssueOwnsItsCards, Live
  <1>3. ASSUME NEW s \in Requests
        PROVE  Justified(req[s])'
    <2>1. PICK q \in RequestRec : req'[s] = q /\ Justified(q)
      BY Ended
    <2>2. ReadsIssue(req[s])' /\ ReadsToWrite(req[s])'
      BY <2>1 DEF Justified, ReadsIssue, ReadsToWrite
    <2>3. ReadsToDelete(req[s])'
      BY <2>1 DEF Justified, ReadsToDelete, TasksOf
    <2>4. ReadsTemplate(req[s])'
      <3>1. \A x \in Templates : CardsFrom(x)' = CardsFrom(x)
        BY DEF CardsFrom
      <3>2. \A x \in Templates : template[x].version \in Nat /\ template'[x] = IF x = p THEN row ELSE template[x]
        BY DEF IInv, IssueTypeOK, TemplateRow
      <3>3. q.version \in Nat
        BY DEF RequestRec
      <3> QED
        BY <2>1, <3>1, <3>2, <3>3 DEF Justified, ReadsTemplate
    <2> QED
      BY <2>2, <2>3, <2>4 DEF Justified
  <1> QED
    BY <1>1, <1>2, <1>3 DEF IInv

\* An editor's write is a version on, a deletion keeps version and fence.
LEMMA TemplatesKeep ==
  ASSUME IInv, NEW r \in Requests, DropTemplate(r) \/ EditTemplate(r)
  PROVE  IInv'
  <1> DEFINE p == req[r].template
  <1>1. p \in Templates /\ template[p] \in TemplateRow /\ req[r].seq \in Nat /\ Stop(r)
    BY DEF DropTemplate, EditTemplate, IInv, IssueTypeOK, Justified, ReadsTemplate, RequestRec
  <1>2. CASE DropTemplate(r)
    <2>1. template' = [template EXCEPT ![p] = [template[p] EXCEPT !.live = FALSE]]
      BY <1>2 DEF DropTemplate, IInv, IssueTypeOK
    <2>2. [template[p] EXCEPT !.live = FALSE] \in TemplateRow
      BY <1>1 DEF TemplateRow
    <2>3. /\ [template[p] EXCEPT !.live = FALSE].version = template[p].version
          /\ [template[p] EXCEPT !.live = FALSE].cardCreateSeq = template[p].cardCreateSeq
      BY <1>1 DEF TemplateRow
    <2> QED
      BY <1>1, <1>2, <2>1, <2>2, <2>3, TemplateWritten DEF DropTemplate
  <1>3. CASE EditTemplate(r)
    <2> DEFINE row == [live |-> template[p].live, version |-> template[p].version + 1,
                       cardCreateSeq |-> req[r].seq]
    <2>1. template' = [template EXCEPT ![p] = row]
      BY <1>3 DEF EditTemplate
    <2>2. row \in TemplateRow
      BY <1>1 DEF TemplateRow
    <2> QED
      BY <1>1, <1>3, <2>1, <2>2, TemplateWritten DEF EditTemplate
  <1> QED
    BY <1>2, <1>3

\* A Task's write: it stays on its Card, and a Task that is completed moves it.
LEMMA TaskWritten ==
  ASSUME IInv, NEW t \in Tasks, NEW row \in TaskRow, PutTask(t, row),
         NEW c \in Cards \cup {NoCard},
         row.state = "live",
         task[t].state = "live" => row.card = task[t].card,
         task[t].state = "live" \/ ~row.done,
         \/ UNCHANGED card /\ (task[t].state = "live" => row.done = task[t].done)
         \/ c \in Cards /\ Touch(c) /\ (task[t].state = "live" => c = row.card \/ row.done = task[t].done),
         UNCHANGED <<issue, template, issueOld, req>>
  PROVE  IInv'
  <1>1. [task EXCEPT ![t] = row] \in [Tasks -> TaskRow]
    BY DEF IInv, IssueTypeOK
  <1>2. task' = [task EXCEPT ![t] = row] /\ task' \in [Tasks -> TaskRow] /\ taskOld' \in [Tasks -> TaskRow]
    BY <1>1, TasksPut DEF PutTask
  <1>3. \A d \in Cards :
          /\ card[d].version \in Nat
          /\ \/ card'[d].version = card[d].version
             \/ Touch(c) /\ d = c /\ card'[d].version = card[d].version + 1
          /\ card'[d].state = card[d].state /\ card'[d].template = card[d].template
          /\ card'[d].madeFor = card[d].madeFor
    <2>1. card \in [Cards -> CardRow]
      BY DEF IInv, IssueTypeOK
    <2>2. \A d \in Cards : card[d] \in CardRow /\ card[d].version \in Nat
      BY <2>1 DEF CardRow
    <2>3. CASE card' = card
      BY <2>2, <2>3
    <2>4. CASE c \in Cards /\ Touch(c)
      <3>1. card[c] \in CardRow /\ card' = [card EXCEPT ![c] = [card[c] EXCEPT !.version = card[c].version + 1]]
        BY <2>2, <2>4 DEF Touch
      <3> DEFINE next == [card[c] EXCEPT !.version = card[c].version + 1]
      <3>2. /\ next.version = card[c].version + 1 /\ next.state = card[c].state
            /\ next.template = card[c].template /\ next.madeFor = card[c].madeFor
        BY <3>1 DEF CardRow
      <3>3. \A d \in Cards : card'[d] = IF d = c THEN next ELSE card[d]
        BY <2>1, <3>1
      <3> HIDE DEF next
      <3>4. ASSUME NEW d \in Cards, d # c
            PROVE  card'[d] = card[d]
        BY <3>3, <3>4
      <3>5. card'[c] = next
        BY <2>4, <3>3
      <3> QED
        BY <2>2, <2>4, <3>2, <3>4, <3>5
    <2>5. card' = card \/ (c \in Cards /\ Touch(c))
      OBVIOUS
    <2> QED
      BY <2>3, <2>4, <2>5
  <1>4. IssueTypeOK'
    <2>1. card' \in [Cards -> CardRow]
      BY DEF Touch, IInv, IssueTypeOK, CardRow
    <2> QED
      BY <1>2, <2>1 DEF IInv, IssueTypeOK
  <1>5. ImagesArePast' /\ UnusedIsOpen'
    BY <1>2 DEF IInv, ImagesArePast, UnusedIsOpen, IssueTypeOK
  <1>6. IssueOwnsItsCards'
    BY <1>3 DEF IInv, IssueOwnsItsCards, Live
  <1>7. ASSUME NEW s \in Requests
        PROVE  Justified(req[s])'
    <2> DEFINE q == req[s]
    <2>1. q \in RequestRec /\ Justified(q) /\ req'[s] = q
      BY DEF IInv, IssueTypeOK
    <2>2. ReadsIssue(req[s])' /\ ReadsToWrite(req[s])'
      BY <2>1 DEF Justified, ReadsIssue, ReadsToWrite
    <2>3. ReadsTemplate(req[s])'
      <3>1. \A x \in Templates : CardsFrom(x)' = CardsFrom(x)
        BY <1>3 DEF CardsFrom
      <3> QED
        BY <2>1, <3>1 DEF Justified, ReadsTemplate
    <2>4. ReadsToDelete(req[s])'
      <3>1. SUFFICES ASSUME q.pc \in {"check", "plan", "delete Card"}
                     PROVE  ReadsToDelete(req[s])'
        BY <2>1 DEF ReadsToDelete
      <3>2. q.card \in Cards /\ q.version \in Nat /\ q.version <= card[q.card].version
        BY <2>1, <3>1 DEF Justified, ReadsToDelete, RequestRec
      <3>3. CASE card'[q.card].version = card[q.card].version
        <4>1. ASSUME NEW u \in TasksOf(q.card)',
                     \A v \in TasksOf(q.card) : ~task[v].done
              PROVE  ~task'[u].done
          <5>1. u \in Tasks /\ task'[u].state = "live" /\ task'[u].card = q.card
            BY DEF TasksOf
          <5>2. CASE u # t
            BY <1>2, <4>1, <5>1, <5>2 DEF TasksOf, IInv, IssueTypeOK
          <5>3. CASE u = t /\ task[t].state # "live"
            BY <1>2, <5>3 DEF IInv, IssueTypeOK
          <5>4. CASE u = t /\ task[t].state = "live"
            <6>1. task'[u] = row /\ t \in TasksOf(q.card) /\ row.card = q.card
              BY <1>2, <5>1, <5>4 DEF TasksOf, IInv, IssueTypeOK
            <6>2. ~Touch(c) \/ c # row.card
              BY <1>3, <3>2, <3>3, <6>1 DEF Touch, IInv, IssueTypeOK, CardRow
            <6> QED
              BY <4>1, <5>4, <6>1, <6>2
          <5> QED
            BY <5>2, <5>3, <5>4
        <4> QED
          BY <2>1, <3>1, <3>2, <3>3, <4>1, <1>3 DEF Justified, ReadsToDelete
      <3>4. CASE card'[q.card].version = card[q.card].version + 1
        <4>1. card[q.card].version \in Nat /\ card'[q.card].state = card[q.card].state
          BY <3>2, <1>3
        <4>2. q.version <= card'[q.card].version /\ card'[q.card].version # q.version
          BY <3>2, <3>4, <4>1
        <4>3. /\ card[q.card].state # "unused"
              /\ q.issue # NoIssue => q.row.card = q.card /\ q.call \notin {"edit", "reinstate"}
          BY <2>1, <3>1 DEF Justified, ReadsToDelete
        <4> QED
          BY <2>1, <3>2, <4>1, <4>2, <4>3 DEF ReadsToDelete
      <3> QED
        BY <1>3, <3>2, <3>3, <3>4
    <2> QED
      BY <2>2, <2>3, <2>4 DEF Justified
  <1> QED
    BY <1>4, <1>5, <1>6, <1>7 DEF IInv

\* A Task's row one version on, with one more thing true of it.
LEMMA NextTaskRow ==
  ASSUME NEW row \in TaskRow
  PROVE  /\ row.version + 1 \in Nat
         /\ \A v \in Nat, c \in Cards \cup {NoCard} :
              /\ [row EXCEPT !.done = TRUE, !.version = v] \in TaskRow
              /\ [row EXCEPT !.noted = TRUE, !.version = v] \in TaskRow
              /\ [row EXCEPT !.link = c, !.version = v] \in TaskRow
  <1>1. row.version + 1 \in Nat
    BY DEF TaskRow
  <1>2. ASSUME NEW v \in Nat, NEW c \in Cards \cup {NoCard}
        PROVE  /\ [row EXCEPT !.done = TRUE, !.version = v] \in TaskRow
               /\ [row EXCEPT !.noted = TRUE, !.version = v] \in TaskRow
               /\ [row EXCEPT !.link = c, !.version = v] \in TaskRow
    BY DEF TaskRow
  <1> QED
    BY <1>1, <1>2

\* Every request on a single Task writes one this way.
LEMMA TaskRequestsKeep ==
  ASSUME IInv, NEW t \in Tasks, NEW c \in Cards \cup {NoCard},
         CompleteTask(t) \/ NoteTask(t) \/ AddTask(t, c) \/ LinkTask(t, c)
  PROVE  IInv'
  <1>1. task[t] \in TaskRow /\ (task[t].state = "unused" => ~task[t].done)
    BY DEF IInv, IssueTypeOK, UnusedIsOpen
  <1>2. CASE AddTask(t, c)
    <2> DEFINE row == [task[t] EXCEPT !.state = "live", !.version = 1, !.card = c]
    <2>1. row \in TaskRow /\ row.state = "live" /\ row.card = c /\ row.done = task[t].done
      BY <1>1 DEF TaskRow
    <2>2. PutTask(t, row) /\ c \in Cards /\ Touch(c) /\ task[t].state = "unused"
          /\ UNCHANGED <<issue, template, issueOld, req>>
      BY <1>2 DEF AddTask, Live
    <2> QED
      BY <1>1, <2>1, <2>2, TaskWritten
  <1>3. CASE CompleteTask(t)
    <2> DEFINE row == [task[t] EXCEPT !.done = TRUE, !.version = task[t].version + 1]
    <2>1. row \in TaskRow /\ row.state = task[t].state /\ row.card = task[t].card
      BY <1>1, NextTaskRow DEF TaskRow
    <2>2. PutTask(t, row) /\ Touch(task[t].card) /\ task[t].state = "live" /\ Live(task[t].card)
          /\ UNCHANGED <<issue, template, issueOld, req>>
      BY <1>3 DEF CompleteTask
    <2>3. task[t].card \in Cards
      BY <2>2 DEF Live
    <2> QED
      BY <2>1, <2>2, <2>3, TaskWritten
  <1>4. CASE NoteTask(t)
    <2> DEFINE row == [task[t] EXCEPT !.noted = TRUE, !.version = task[t].version + 1]
    <2>1. row \in TaskRow /\ row.state = task[t].state /\ row.card = task[t].card
          /\ row.done = task[t].done
      BY <1>1, NextTaskRow DEF TaskRow
    <2>2. PutTask(t, row) /\ task[t].state = "live" /\ UNCHANGED <<issue, card, template, issueOld, req>>
      BY <1>4 DEF NoteTask
    <2> QED
      BY <2>1, <2>2, TaskWritten
  <1>5. CASE LinkTask(t, c)
    <2> DEFINE row == [task[t] EXCEPT !.link = c, !.version = task[t].version + 1]
    <2>1. row \in TaskRow /\ row.state = task[t].state /\ row.card = task[t].card
          /\ row.done = task[t].done
      BY <1>1, NextTaskRow DEF TaskRow
    <2>2. PutTask(t, row) /\ c \in Cards /\ Touch(c) /\ task[t].state = "live"
          /\ UNCHANGED <<issue, template, issueOld, req>>
      BY <1>5 DEF LinkTask, Live
    <2> QED
      BY <2>1, <2>2, TaskWritten
  <1> QED
    BY <1>2, <1>3, <1>4, <1>5

-----------------------------------------------------------------------------
\* What holds of every behaviour.

\* At the start nothing is read, and no issue has a Card.
LEMMA InitIInv == Init => IInv
  <1> SUFFICES ASSUME Init
               PROVE  IInv
    OBVIOUS
  <1>1. IssueTypeOK
    <2>1. {issue, issueOld} \subseteq [Issues -> IssueRow]
      BY DEF Init, IssueRow
    <2>2. card \in [Cards -> CardRow]
      BY DEF Init, CardRow
    <2>3. {task, taskOld} \subseteq [Tasks -> TaskRow]
      BY DEF Init, TaskRow
    <2>4. template \in [Templates -> TemplateRow]
      BY DEF Init, TemplateRow
    <2>5. req \in [Requests -> RequestRec]
      BY BlankRequest DEF Init
    <2> QED
      BY <2>1, <2>2, <2>3, <2>4, <2>5 DEF IssueTypeOK
  <1>2. ImagesArePast /\ UnusedIsOpen /\ IssueOwnsItsCards
    BY DEF Init, ImagesArePast, Past, UnusedIsOpen, IssueOwnsItsCards, Live, IssueRow
  <1>3. \A r \in Requests : Justified(req[r])
    BY BlankRequest DEF Init
  <1> QED
    BY <1>1, <1>2, <1>3 DEF IInv

\* Every step keeps the invariant.
LEMMA StepIInv == IInv /\ [Next]_vars => IInv'
  <1> SUFFICES ASSUME IInv, [Next]_vars
               PROVE  IInv'
    OBVIOUS
  <1>1. CASE UNCHANGED vars
    <2>1. IssueTypeOK' /\ ImagesArePast' /\ UnusedIsOpen' /\ IssueOwnsItsCards'
      BY <1>1 DEF vars, IInv, IssueTypeOK, ImagesArePast, UnusedIsOpen, IssueOwnsItsCards, Live
    <2>2. ASSUME NEW r \in Requests
          PROVE  Justified(req[r])'
      <3>1. Justified(req[r])
        BY DEF IInv
      <3>2. ReadsIssue(req[r])' /\ ReadsToWrite(req[r])'
        BY <1>1, <3>1 DEF vars, Justified, ReadsIssue, ReadsToWrite
      <3>3. ReadsToDelete(req[r])'
        BY <1>1, <3>1 DEF vars, Justified, ReadsToDelete, TasksOf
      <3>4. ReadsTemplate(req[r])'
        BY <1>1, <3>1 DEF vars, Justified, ReadsTemplate, CardsFrom
      <3> QED
        BY <3>2, <3>3, <3>4 DEF Justified
    <2> QED
      BY <2>1, <2>2 DEF IInv
  <1>2. ASSUME NEW r \in Requests, NEW i \in Issues \cup {NoIssue}, NEW p \in Templates, AskForCard(r, i, p)
        PROVE  IInv'
    BY <1>2, AskForCardKeeps
  <1>3. ASSUME NEW r \in Requests, NEW c \in Cards, NEW new \in SUBSET Tasks, CreateCard(r, c, new)
        PROVE  IInv'
    BY <1>3, CreateCardKeeps
  <1>4. ASSUME NEW r \in Requests, NEW i \in Issues, NEW call \in Calls, AskForWrite(r, i, call)
        PROVE  IInv'
    BY <1>4, AskForWriteKeeps
  <1>5. ASSUME NEW r \in Requests, NEW i \in Issues, NEW call \in Calls, NEW confirm \in BOOLEAN,
               AskForRemoval(r, i, call, confirm)
        PROVE  IInv'
    BY <1>5, AskForRemovalKeeps
  <1>6. ASSUME NEW r \in Requests, NEW c \in Cards, AskForDeletion(r, c)
        PROVE  IInv'
    BY <1>6, AskForDeletionKeeps
  <1>7. ASSUME NEW r \in Requests, NEW p \in Templates, NEW call \in Calls, AskForTemplate(r, p, call)
        PROVE  IInv'
    BY <1>7, AskForTemplateKeeps
  <1>8. ASSUME NEW r \in Requests,
               \/ WriteIssue(r) \/ CheckWork(r) \/ PlanDeletion(r) \/ DeleteCard(r)
               \/ ScanCards(r) \/ DropTemplate(r) \/ EditTemplate(r)
        PROVE  IInv'
    BY <1>8, WriteIssueKeeps, CheckWorkKeeps, PlanDeletionKeeps, DeleteCardKeeps, ScanCardsKeeps, TemplatesKeep
  <1>9. ASSUME NEW r \in Requests, Conflict(r)
        PROVE  IInv'
    <2>1. Stop(r) /\ UNCHANGED Stored
      BY <1>9 DEF Conflict, Stored
    <2> QED
      BY <2>1, StopKeeps
  <1>10. ASSUME NEW t \in Tasks, CompleteTask(t) \/ NoteTask(t) \/ \E c \in Cards : AddTask(t, c) \/ LinkTask(t, c)
         PROVE  IInv'
    BY <1>10, TaskRequestsKeep
  <1> QED
    BY <1>1, <1>2, <1>3, <1>4, <1>5, <1>6, <1>7, <1>8, <1>9, <1>10 DEF Next

\* IInv holds throughout.
LEMMA Invariance == Spec => []IInv
  BY InitIInv, StepIInv, PTL DEF Spec

\* Every stored row, and every request, keeps its type.
THEOREM TypeCorrect == Spec => []IssueTypeOK
  <1>1. IInv => IssueTypeOK
    BY DEF IInv
  <1> QED
    BY <1>1, Invariance, PTL

\* Whatever overlaps, a live Card made for an issue is the one it names.
THEOREM OneCardPerIssue == Spec => []IssueOwnsItsCards
  <1>1. IInv => IssueOwnsItsCards
    BY DEF IInv
  <1> QED
    BY <1>1, Invariance, PTL

\* A Task disappears only by the transaction that deletes the Card it is on.
LEMMA OnlyDeletionsDelete ==
  ASSUME IInv, [Next]_vars, NEW t \in Tasks, task[t].state = "live", task'[t].state = "deleted"
  PROVE  \E r \in Requests : DeleteCard(r) /\ t \in {e[1] : e \in req[r].tasks}
  <1>0. \A u \in Tasks : task[u] \in TaskRow
    BY DEF IInv, IssueTypeOK
  <1>a. task \in [Tasks -> TaskRow]
    BY DEF IInv, IssueTypeOK
  <1>1. task' # task
    OBVIOUS
  <1>2. ASSUME NEW r \in Requests, DeleteCard(r)
        PROVE  t \in {e[1] : e \in req[r].tasks}
    BY <1>2 DEF DeleteCard, PutTasks
  <1>3. ASSUME NEW r \in Requests, NEW c \in Cards, NEW new \in SUBSET Tasks, CreateCard(r, c, new)
        PROVE  FALSE
    BY <1>0, <1>3 DEF CreateCard, PutTasks, TaskRow
  <1>4. ASSUME NEW u \in Tasks, NEW c \in Cards, AddTask(u, c) \/ LinkTask(u, c)
        PROVE  FALSE
    <2>1. CASE AddTask(u, c)
      <3>1. /\ task' = [task EXCEPT ![u] = [task[u] EXCEPT !.state = "live", !.version = 1, !.card = c]]
            /\ task[u].state = "unused"
        BY <2>1 DEF AddTask, PutTask, PutTasks
      <3> QED
        BY <1>0, <1>a, <3>1 DEF TaskRow
    <2>2. CASE LinkTask(u, c)
      <3>1. task' = [task EXCEPT ![u] = [task[u] EXCEPT !.link = c, !.version = task[u].version + 1]]
        BY <2>2 DEF LinkTask, PutTask, PutTasks
      <3> QED
        BY <1>0, <1>a, <3>1 DEF TaskRow
    <2> QED
      BY <1>4, <2>1, <2>2
  <1>5. ASSUME NEW u \in Tasks, CompleteTask(u) \/ NoteTask(u)
        PROVE  FALSE
    <2>1. CASE CompleteTask(u)
      <3>1. task' = [task EXCEPT ![u] = [task[u] EXCEPT !.done = TRUE, !.version = task[u].version + 1]]
        BY <2>1 DEF CompleteTask, PutTask, PutTasks
      <3> QED
        BY <1>0, <1>a, <3>1 DEF TaskRow
    <2>2. CASE NoteTask(u)
      <3>1. task' = [task EXCEPT ![u] = [task[u] EXCEPT !.noted = TRUE, !.version = task[u].version + 1]]
        BY <2>2 DEF NoteTask, PutTask, PutTasks
      <3> QED
        BY <1>0, <1>a, <3>1 DEF TaskRow
    <2> QED
      BY <1>5, <2>1, <2>2
  <1> QED
    BY <1>1, <1>2, <1>3, <1>4, <1>5, ZenonT(40)
       DEF Next, vars, AskForCard, AskForWrite, AskForRemoval, AskForDeletion, AskForTemplate, WriteIssue,
           CheckWork, PlanDeletion, ScanCards, DropTemplate, EditTemplate, Conflict

\* A completed Task goes with its Card only on the caller's word.
THEOREM ConfirmationNeeded == Spec => CompletedWorkNeedsConfirmation
  <1>1. ASSUME IInv, [Next]_vars, NEW t \in Tasks,
               task[t].state = "live", task[t].done, task'[t].state = "deleted"
        PROVE  \E r \in Requests : req[r].pc = "delete Card" /\ req'[r].pc = "done" /\ req[r].confirm
    <2>1. PICK r \in Requests : DeleteCard(r) /\ t \in {e[1] : e \in req[r].tasks}
      BY <1>1, OnlyDeletionsDelete
    <2>2. req[r].pc = "delete Card" /\ Holds(r) /\ Justified(req[r]) /\ Stop(r)
      BY <1>1, <2>1 DEF DeleteCard, IInv
    <2>3. t \in TasksOf(req[r].card) /\ card[req[r].card].version = req[r].version
      BY <2>1, <2>2 DEF Holds
    <2>4. req[r].confirm
      BY <1>1, <2>2, <2>3 DEF Justified, ReadsToDelete
    <2>5. req'[r].pc = "done"
      BY <1>1, <2>2 DEF Stop, Become, Blank, IInv, IssueTypeOK
    <2> QED
      BY <2>2, <2>4, <2>5
  <1>2. IInv /\ [Next]_vars =>
          [\A t \in Tasks :
             task[t].state = "live" /\ task[t].done /\ task'[t].state = "deleted" =>
               \E r \in Requests : req[r].pc = "delete Card" /\ req'[r].pc = "done" /\ req[r].confirm]_vars
    BY <1>1
  <1> QED
    BY <1>2, Invariance, PTL DEF Spec, CompletedWorkNeedsConfirmation

\* A Template is deleted with no more Cards than its in-use scan passed over.
THEOREM FenceHolds == Spec => NoCardSlipsIn
  <1>1. ASSUME IInv, [Next]_vars, NEW p \in Templates, template[p].live, ~template'[p].live
        PROVE  \E r \in Requests : /\ req[r].pc = "drop" /\ req'[r].pc = "done" /\ req[r].template = p
                                   /\ CardsFrom(p) \subseteq req[r].passed
    <2>0. template \in [Templates -> TemplateRow]
      BY <1>1 DEF IInv, IssueTypeOK
    <2>1. PICK r \in Requests : DropTemplate(r) /\ req[r].template = p
      <3>1. ASSUME NEW r \in Requests, NEW c \in Cards, NEW new \in SUBSET Tasks, CreateCard(r, c, new)
            PROVE  FALSE
        BY <1>1, <2>0, <3>1 DEF CreateCard, Fenced, TemplateRow
      <3>2. ASSUME NEW r \in Requests, EditTemplate(r)
            PROVE  FALSE
        BY <1>1, <2>0, <3>2 DEF EditTemplate, Holds
      <3>3. ASSUME NEW r \in Requests, DropTemplate(r)
            PROVE  req[r].template = p
        BY <1>1, <2>0, <3>3 DEF DropTemplate
      <3> QED
        BY <1>1, <3>1, <3>2, <3>3, ZenonT(40)
           DEF Next, vars, AskForCard, AskForWrite, AskForRemoval, AskForDeletion, AskForTemplate, WriteIssue,
               CheckWork, PlanDeletion, DeleteCard, ScanCards, Conflict, AddTask, CompleteTask, NoteTask, LinkTask
    <2>2. req[r].pc = "drop" /\ Holds(r) /\ Justified(req[r]) /\ Stop(r)
      BY <1>1, <2>1 DEF DropTemplate, IInv
    <2>3. CardsFrom(p) \subseteq req[r].passed
      BY <2>1, <2>2 DEF Holds, Justified, ReadsTemplate
    <2>4. req'[r].pc = "done"
      BY <1>1, <2>2 DEF Stop, Become, Blank, IInv, IssueTypeOK
    <2> QED
      BY <2>1, <2>2, <2>3, <2>4
  <1>2. IInv /\ [Next]_vars =>
          [\A p \in Templates :
             template[p].live /\ ~template'[p].live =>
               \E r \in Requests : /\ req[r].pc = "drop" /\ req'[r].pc = "done" /\ req[r].template = p
                                   /\ CardsFrom(p) \subseteq req[r].passed]_vars
    BY <1>1
  <1> QED
    BY <1>2, Invariance, PTL DEF Spec, NoCardSlipsIn
=============================================================================
