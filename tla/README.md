# DataOps in TLA+

DataOps is the operations tool of DataTalks.Club: a TypeScript backend on AWS
Lambda over DynamoDB, a web frontend, a CLI and an MCP server. This directory
models the parts of the backend where several calls meet on the same rows, checks
them with TLC on small instances and proves what matters most with TLAPS for
every instance. Paths below are relative to `src/backend/src/` unless they start
with `src/`.

## 1. The system

Every API request runs in a Lambda invocation of its own
(`infra/template.full.yaml`, timeout 120 s). There is no lock and no memory
between invocations: what two requests share is DynamoDB, and what keeps them
apart is the *condition* a write carries. A request reads some rows (one
`GetItem`, or one page of a `Query`, at a time), decides, and writes with one
conditional update or one `TransactWriteItems`. Anything may commit between two
of its reads, and an invocation may be cut off anywhere. Outside calls (Google
Calendar, mail, S3) are not part of any transaction.

| Component | State | Operations | Meets | What makes it correct | Here |
|---|---|---|---|---|---|
| Tasks and dependencies (`db/tasks.ts`, `db/taskDependencies.ts`) | Task rows: Card, status, `dependsOn`, version | create, update, move, delete | Cards, Template updates | edges stay on one Card and acyclic; no completed Task with unfinished prerequisites | `TaskCards` |
| Cards and their counters (`db/taskCardLifecycle.ts`, `db/cards.ts`) | Card rows: version, `taskCount`, `openTaskCount`, status, stage | every Task write; park, resume, stage, edit | Tasks | counters exact; completion and reactivation leave a row the next read accepts | `TaskCards` |
| Card Template updates (`templates/cardTemplateUpdates.ts`, `db/cardTemplateUpdates.ts`) | Template columns of Card and Task rows | preview, plan, apply | Tasks, Templates | same graph and counter invariants; completed Tasks untouched; a Card that says it is current is | `CardTemplateSync` |
| Template definitions (`db/templates.ts`) | Template rows, `cardCreateSeq` fence | save, seed, reset, delete, instantiate | Cards | no Card of a deleted Template | `IssueCards` (fence, deletion), `CardTemplateSync` (saves) |
| Card deletion (`db/cardDeletion.ts`) | all rows of a Card | plan, one transaction | Tasks | completed work goes only when confirmed | `IssueCards` |
| Deal-subject Tasks (`db/dealDeletion.ts`, `db/taskDependencies.ts:315-381`) | Tasks without a Card | as Tasks, no Card to pin | CRM deals | completed work stands | next in the plan |
| Event lifecycle (`events/lifecycle.ts`, `store.ts`, `service.ts`) | event row, operation log, Card projection | propose, approve, reschedule, release, reconcile, retry, poll | Google, mail, Cards | one operation at a time, calendars that follow, no mail sent twice | `EventOperations` |
| Guest intake (`events/guestIntake*.ts`) | intake rows, job lease, allocator lease | prepare, send, retry, resume, accept | events, Tasks, Cards, mail | one letter per guest, Cards that prepare at once get times of their own, every invitation settles | `GuestIntake` |
| Knowledge jobs (`knowledge/lease.ts`, `worker.ts`) | S3 lease object | acquire, renew, release | S3, publications | a live lease has one owner; no lag means recoverable | `KnowledgeBackup` |
| Calendar holds (`calendar/`, `db/calendarHolds.ts`) | hold rows, Google events | create, update, expire | Google | a hold has all its copies or says so | copies and expiry in `EventOperations` |
| Newsletter issues (`newsletter/`, `db/newsletterIssues.ts`) | issue rows | create the Card, edit, remove it, cancel, reinstate, delete; daily run | Cards, Tasks, Templates | an issue owns its Card; one Card per issue | `IssueCards` |
| Newsletter slots, podcast (`newsletter/slotBooking.ts`, `podcast/`) | slots, episodes | book, move, remove | Cards, events | one booking per slot | planned |
| Recurring work, cron, automations (`cron/`, `automations/`, `db/recurring.ts`) | run rows | due, run | Tasks | one Task per due date | planned |
| Sponsor CRM and finance (`db/sponsorCrm.ts`, `sponsorFinance/`, …) | deals, offers, ledger, follow-ups | edit, settle, remind | Tasks, mail | reminders once, ledger settled once | planned |
| Bookkeeping, reconciliation, invoices (`db/bookkeeping.ts`, `reconcile/`, `invoices/`) | statements, matches | import, match | — | a payment matched once | matching planned; parsing left out |
| Users, sessions (`db/userLifecycle.ts`, …) | users, tokens | offboard, restore | Tasks | no open work of a departed user | planned |
| Docs and knowledge content (`docs/`) | S3 payloads, publications, pointer | save, create, rename, delete, restore, regenerate | Templates, backup | no lost update, history readable, pages as new as the Template | `Knowledge` |
| Router, export, secrets, VIES, banners, frontend, CLI, MCP, infrastructure | — | — | — | — | left out: dispatch, formats, wrappers, rendering |

`PROJECT.json` has the same list with files and status, and every hazard at its line.

### What is hard in the modelled part

A Task may name prerequisites on the same Card. The rules
(`src/docs/task-dependencies.md`) relate *several* Tasks, but a write carries
conditions on *few* rows, chosen from what was read one row at a time: the
transitive closure of prerequisites for an edge edit, the direct prerequisites
for a completion, the listing of the Card for a reopening, deletion or move.
The Card row doubles as the revision of the Card's graph: a check first pins its
version (`taskDependencies.ts:247`), and every graph write moves it. Whether that
suffices when four requests overlap is hard to reach by unit tests, which set up a
table, make a call and look at the result, or at best let one write in between two steps.
Template updates write Tasks in bulk without going through those checks.

An event's transition is a row in DynamoDB, but what it is for happens outside:
three Google calendars, one HTTP request each, and a mail. Nothing makes those
atomic, so the service keeps a journal row per operation, a lease on it and a
receipt for the mail, and retries pick up where a stopped worker left. Any two of
requests, retries, polls, the expiry job and the guest's own answer may overlap.

A Card made for a newsletter issue is created and deleted in transactions over five
kinds of rows, from reads that were made earlier and partly through an index that
lags; the daily run, an operator and the Template's author may all be at it at once.
The knowledge base has no transactions at all: a publication is a set of objects put
one by one, and only the swap of one pointer decides which of them count. A guest's
first invitation is prepared by whichever invocation wakes up next, over a calendar,
a mail provider and two leases, while people park the Card or press retry; the one
thing it must not do is write to the guest twice.

## 2. The modules

    TaskRules <--- TaskBoard                        the promise
        ^              ^ (INSTANCE, refinement)
        +--------- TaskCards <--- MCTaskCards        requests as they run
                     ^      ^
                     |      +---- TaskCardsProofs <--- TaskBoardProofs   theorems
                     |                   ^
                     |         CardTemplateSyncProofs    theorems (also extends
                     |                                   CardTemplateSync)
              CardTemplateSync <--- MCCardTemplateSync

    EventLifecycle                                   the promise
        ^ (INSTANCE, refinement)
    EventOperations <--- MCEventOperations           workers, Google, mail
        ^--------------- EventOperationsProofs <--- EventLifecycleProofs   theorems

    IssueCards <--- MCIssueCards                     an issue, its Card, the Template
        ^---------- IssueCardsProofs                 theorems

    PublicationLog                                   the promise
        ^ (INSTANCE, refinement)
    Knowledge <--- KnowledgeBackup <--- MCKnowledge  publishing, the backup
                        ^--------- KnowledgeProofs   theorems

    GuestIntake <--- MCGuestIntake                   invitations
        ^----------- GuestIntakeProofs               theorems

**TaskRules** is the shared vocabulary: statuses, stages, the Card row, the
lifecycle rule `ApplyAggregateDelta` (`taskCardLifecycle.ts:219-323`), the shape
`CanonicalCard` that `cleanItem` insists on when a Card is read
(`cards.ts:112-154`), and `Acyclic`.

**TaskBoard** is the abstract specification: a board on which each mutation is
checked and applied in one instant. There are no versions, reads or conflicts;
a mutation is allowed when the board it leads to is `Lawful`, and a Card's
counters are simply the number of its Tasks.

**TaskCards** is the database layer. `task` and `card` are the two tables.
A row is `live` or not; a deleted row keeps its id (ids are UUIDs, never reused).
A request `r` has a program counter `pc`, the mutation it wants (`call`: the row
it read and the row it will write), and what it has read so far.

| Code | Action |
|---|---|
| `createTask`, `updateTask`, `deleteTask` up to the check (`tasks.ts`) | `CreateTask`, `UpdateTask`, `DeleteTask` through `Begin` |
| pin the Cards' versions (`taskDependencies.ts:247-258`) | `PinCard` |
| `walkPrerequisites`, one `GetItem` per Task (`:171-192`) | `ReadPrerequisite` |
| `listTasksByCardConsistent`, a paged scan (`tasks.ts:465-477`) | `ScanRow` |
| a rule of `planTaskDependencyChecks` fails (`:260-426`) | `Refuse` |
| `executeTaskCardTransaction` loads the Cards whose counters move (`taskCardLifecycle.ts:555-583`) | `LoadCard`, `LoadFails` |
| the transaction succeeds, or is cancelled (`:585-648`) | `Commit`, `Conflict` |
| Card writes of one conditional update (`cards.ts:229-361`) | `UpdateCard`, `UpdateCardStage`, `ParkCard`, `ResumeCard` |

Abstracted: titles, notes, assignees, dates, tags, history rows (no rule looks at
them); a request body is a record of the three fields the rules look at, each
sent or not (`Keep`). Refusals that need no other row (`Malformed`) are guards,
since they change nothing. The order in which pins, walks and scans run among
themselves is left free where the code runs them in a fixed order, which only
adds behaviours; the *phases* (pin, walk, scan, decide, load, commit) are kept.

**CardTemplateSync** extends TaskCards with the reviewed Template update. It adds
the Template row (`tmpl`), the provenance columns of Tasks (`prov`), the Template
columns of Cards (`held`), and the update calls (`sync`). The route's reads are
three kinds of steps (`SyncReadCard`, `SyncReadTemplate`, `SyncScanRow`), the plan
is a set of operators over what the call read — `ToAdd`, `ToUpdate`, `ToRestore`,
`ToRefresh`, `ToSkip`, `ToRetain` name the plan's actions — and `SyncApply` is the
transaction. `Request` is any step of TaskCards with its effect on provenance.
`SaveTemplate` is an author's save. `SyncRefuse` stands for every way the route
answers without writing, the preview token included; a call may always be refused.

**EventLifecycle** is what the event service promises: one lifecycle, one
unresolved transition at a time, calendars that change only while it is
unresolved and only to what it wants, and, while the event is active, a finished
transition whose calendars all show it. A proposal after a release has a new identity.

**EventOperations** is the service around one event. `event` is the event row, `op`
the journal row of each operation key, `card` the Card's projection, `google` the
copy of each identity on each calendar, `accepted` the identities whose invitation
carries the guest's yes. A worker is one invocation: where it is (`pc`) and what it
has read. Its steps are the awaits of the code:

| Code | Action |
|---|---|
| `runTransition` reads and plans (`events/service.ts:669`, `lifecycle.ts:101`) | `Request` through `Plan` |
| `commitEventTransition` (`events/store.ts:87`) | `Commit`, `Conflict` |
| `retryEventOperation` (`service.ts:969`) | `Retry` |
| `reconcileEventOperation` reads the journal, claims, reads the event (`service.ts:398-424`) | `Open`, `Claim`, `Reload` |
| `syncEvents`: find or import, then patch, the organizer last (`calendar/holdGoogleSync.ts:214-281`) | `FindCopy`, `PatchCopy` |
| `deleteHoldGoogleEvents` (`:471`) | `DeleteCopy` |
| a failed request: three writes (`service.ts:465-501`) | `DeferJournal`, `DeferEvent`, `DeferCard` |
| mail and receipt (`:503-572`) | `Mail`, `Send`, `Sent`, `Unsent` |
| `completeEventOperation`, and what follows it (`store.ts:148`, `service.ts:610`) | `Complete`, `Note` |
| `pollEventCalendarAcceptances`: read the event, ask Google, approve what was accepted (`service.ts:1044-1240`) | `Poll`, `Fetch`, `Accept` |
| `expireCalendarHolds` (`db/calendarHolds.ts:185`) | `ExpiryReads`, `DeleteCopy`, `ExpiryPuts` |
| the invocation is stopped; 120 seconds pass; the guest answers | `Crash`, `LeaseRunsOut`, `GuestAccepts` |

A lease lasts as long as the Lambda's timeout and is counted from inside the
invocation, so it lapses only after its holder stopped: `LeaseRunsOut` needs a
dead worker, and the lease token is the worker. A claim compares with the time
its request started, so a worker that looked before the lapse is `late`.
Abstracted: what a copy shows is the generation and status it was written for
(titles, times and guests follow from them); proposals invite one guest; the three
calendars are the organizer and its mirrors. Google answers a request for a
deleted copy as not found. A request that times out either took effect by the time
the worker goes on or never does. Consecutive reads that the version check of the
commit covers are one step; a Card or Episode that moved on is `Conflict`, always
possible.

**IssueCards** is one newsletter issue, the Card that executes it, the Card's Tasks and
the Template it is made from: rows that come and go together. `issueOld` and `taskOld`
are the images before a row's last write, what a read through a lagging index or
without `ConsistentRead` may still return (`Lagging`). A request asks for one thing and
then does what the code does between its reads:

| Code | Action |
|---|---|
| `POST /cards`, an edit that makes the Card due, `createDueIssueCards` (`newsletter/cardSchedule.ts:75`) | `AskForCard` |
| `createCardFromTemplate` (`db/templates.ts:912`): Tasks, Card, the Template's fence and the issue in one transaction | `CreateCard` |
| `updateRoute` (`routes/newsletterIssues.ts:669`) | `AskForWrite`, `WriteIssue` |
| `cardRoute`, `deleteWithCard` (`:496`, `:789`) and `DELETE /cards/:id` (`routes/cards.ts:825`) | `AskForRemoval`, `AskForDeletion` |
| `removeIssueCard` looks for completed work (`newsletter/cardRemoval.ts:133`) | `CheckWork` |
| `loadDeletionPlan` (`db/cardDeletion.ts:189`), `deleteCardCascade` (`:448`) | `PlanDeletion`, `DeleteCard` |
| `deleteCustomTemplate`: scan, then the conditional transaction (`db/templates.ts:744`) | `AskForTemplate`, `ScanCards`, `DropTemplate` |
| a Template edit puts the whole item (`db/templates.ts:489`) | `EditTemplate` |
| a condition fails | `Conflict` |
| Task requests, as the atomic steps `TaskCards` is shown to implement | `AddTask`, `CompleteTask`, `NoteTask`, `LinkTask` |

Artifacts, files and notifications that a deletion only unlinks are left out, as are the
facts an issue's update copies onto its Card afterwards.

**PublicationLog** is what a reader of the knowledge base may rely on: one history that
only grows, each publication one change away from the one before it, its index the
index of its documents. **Knowledge** is how it is done: a request pins the
publication the pointer names, uploads payloads, puts its publication, and swaps the
pointer under `IfMatch`.

| Code | Action |
|---|---|
| the handlers of `docs/contentApi.ts:481-845` | `Open`, `OpenRegeneration` |
| a Template write, then the regeneration (`routes/templates.ts:243`, `:149`) | `SaveTemplate` |
| `templatesFor` (`contentApi.ts:253`) | `ReadTemplates` |
| `KnowledgeStore.pin` (`docs/knowledgeStore.ts:175`) | `Pin` |
| `publish`: payloads, then the publication, then the pointer (`:321-384`) | `Store`, `Put`, `Swap` |
| a lost swap: an edit is answered 409, a regeneration is retried (`contentApi.ts:330-360`) | `Conflict`, within `Swap` |

A document is its content; the two generated pages are the Template version one was
rendered from and the tree the other lists. Batches and folders repeat these changes
over several documents and are left out, with images, the local cache and search. That
a payload put again under its content hash is the same payload is built in.

**KnowledgeBackup** adds the daily worker under its renewable lease
(`knowledge/lease.ts`, `knowledge/worker.ts`): `Take`, `Renew`, `Expire` and `Close` are
the lease; `PinHead`, `CopyPublication`, `PutSnapshot`, `RecordSuccess` the backup,
which walks the parents to the first publication each time and copies the payloads that are not there yet. `fresh` are the workers
whose ETag is the lease object's, so a conditional put succeeds for exactly those.
A fault is a crash, a pause past the lease, or a put whose answer is lost.

**GuestIntake** is the first invitation of a guest, with several jobs so that the shared
slot allocator and the queue mean something. `jobs` are the durable rows, `order` their
order by `updatedAt`, `runs` the Lambda invocations, `asks` the rows that a request for a
retry or a letter has read and will put.

| Code | Action |
|---|---|
| the Cards' stream (`handler.ts:473`), the two-minute schedule (`guestIntakeWorker.ts:135`) | `Stream`, `Resume` |
| `claimGuestIntakeJob` (`guestIntakeStore.ts:25`) | `Claim` |
| reread the job and the Card; cancelled, paused or preparing (`guestIntakeWorker.ts:44-61`) | `Look` |
| the event that is there, or none (`:76-101`) | `Reserve` |
| none: the shared lease, the search for a time, the proposal, its calendars (`:80-99`, `:107`; `events/guestIntakeSlots.ts:17`) | `Allot`, `Choose`, `Propose`, `Sync` |
| a proposal the guest was not shown: `rescheduleEvent` reads it once more (`:102-105`, `events/service.ts:949`) | `Notify` |
| event held, allocator given back, letter skipped or not (`:108-113`) | `Hold` |
| `deliverGuestFirstContact`: claim on the Task, send, record (`guestFirstContactDelivery.ts:15`) | `ClaimLetter`, `Send`, `RecordLetter` |
| the Task is read, the event is read, the Task waits or is resolved (`guestIntakeWorker.ts:118-121`) | `Compare`, `LookAtEvent`, `Waiting`, `Resolving` |
| the end, a failure, a lost lease, the `finally` | `Finish`, `Fail`, `LoseLease`, `Close` |
| `POST /cards/:id/guest-intake/send` and `/retry` (`routes/cards.ts:386-417`) | `Ask`, `PutAsk` |
| `approveEvent`, then `resolveGuestAcceptanceTask` (`events/service.ts:939`) | `Accept`, `AcceptReads`, `AcceptResolves` |
| people park, resume, archive, edit the Task, release the event | `SetCard`, `Edit`, `ReleaseEvent` |

Both leases last 150 seconds and an invocation 120 (`guestIntakeAllocator.ts:4`), so a
lease runs out only after its invocation is gone. The model names a lease for its
invocation and lets others have it from the moment that one ends. The version of a Task is
the set of those whose last read of it is current. Abstractions: a job's calendar sync is one step
that succeeds or stays pending (`EventOperations` has the detail); all guests have the
same preferences, so times are taken earliest first; an event keeps its time, since the
reschedules that staff and the portal make are left out; a release deletes the Google copies
in the same step; the reread of a job, the read of its Card and the save that follows are one step, and so
are the read of the Task and the save in `recordFailure`. The search for a time lags as the
code's scans do (`db/calendarHolds.ts:127`, the Cards of one page only; neither is consistent):
in `Choose` any set of Cards is `behind`, which means that their last write is not shown, and only
Google's copy of a synced event still keeps their times apart. The variable `missed` is
history: for each Card, the proposals its search was not shown. The Card's copy of the job's
status, the guest's form document, portal time choices, manual blockers, preparations that fail
for good and the Template's own first-contact Tasks are left out.

The MC modules only give values to constants, and name a symmetry or a constraint.

## 3. What TLC checks

| Run | Instance | Shows |
|---|---|---|
| `task_graph` | 3 Tasks, 1 Card, 2 requests that link, complete or delete, or edit the Card; fairness | `GraphAcyclic`, `EdgesStayOnCard`, `PinnedGraphIsCurrent`, `TypeOK`, `EveryCallAnswered` |
| `task_board` | 2 Tasks, 2 Cards, 3 requests that create, move, complete, link, delete; parking and stage changes | the step-by-step requests implement the atomic board (`ImplementsBoard`); `CompletedWorkStands`, `CountersTrue`, `CardsReadable`, `NoSpuriousConflict` |
| `sync_board` | 2 refs, 2 Tasks, 1 Card, 2 updates, 1 request (complete, skip, delete, link), 1 Template save | the graph and counter invariants with bulk writes, `CurrentCardFollowsTemplate`, `CompletedTasksUntouched` |
| `event_board` | 2 workers; keys propose, reschedule, approve, release, propose again; one fault | `OneReconciler`, `SyncedMeansShown`, `ImplementsLifecycle`, `EventTypeOK` |
| `event_accept` | 2 workers; propose, reschedule, a poll's approval of either date; the guest's answers, the expiry job, retries; one fault | `AcceptedThisDate` |
| `event_resolves` | 2 workers; propose with a mail, approve, release; retries, forced ones too; one fault, fairness | `MailedAtMostOnce`, `OperationsResolve` |
| `issue_cards` | 1 issue, 2 Cards, 1 Task, 2 Templates, 3 requests of any kind | `IssueOwnsItsCards`, `CompletedWorkNeedsConfirmation`, `NoCardSlipsIn`, `IssueTypeOK` |
| `knowledge` | 2 documents, 2 requests, 4 publications, 3 Template versions, 2 workers, one fault; fairness | `LinearHistory`, `PublishedIsReadable`, `ImplementsLog`, `EditsNeverRegress`, `NoLagIsRecoverable`, `LiveLeaseIsKept`, `BackupCatchesUp`, `BackupTypeOK` |
| `guest_intake` | 2 jobs (one skips its letter), 2 invocations, 2 times, one fault, one intervention; fairness | `LetterAtMostOnce`, `ClashesAreUnseenOrAgain`, `EveryInvitationSettles`, `GuestTypeOK` |
| `issue_template`, `knowledge_views`, `guest_accepted` | one disagreement each, see 5 | expected violations |

The properties in words:

- `CompletedWorkStands`: a completed Task never has an unfinished or missing
  prerequisite. It takes two requests to violate: one completes the dependent on
  the strength of a prerequisite that another one reopens.
- `GraphAcyclic`: with three Tasks and one edge, two edits that each look harmless on
  the rows they read would close a triangle.
- `EdgesStayOnCard`: nothing is deleted or moved from under an edge being added.
- `PinnedGraphIsCurrent`: the reason the above hold. While the version a request
  pinned is still the Card's, everything it read of that Card's graph is current
  (up to an exchange of done and skipped, which moves no counter; the completion
  rule covers that case by conditions on the prerequisite rows).
- `CountersTrue`: `taskCount` and `openTaskCount` are exact although every request
  recomputes them from a row it read earlier.
- `CardsReadable`: no sequence of calls stores a Card that `cleanItem` rejects.
- `NoSpuriousConflict`: a request is told "conflict" only if something it read
  was written since.
- `CurrentCardFollowsTemplate`: a Card whose recorded Template version is the
  Template's holds exactly the definitions that apply, apart from Tasks the code
  deliberately leaves.
- `CompletedTasksUntouched` (an action property): an update leaves the status and the edges
  of a Task that is done at the time of the write, however long ago the plan was made. (What
  the code compares of a definition, and here `SnapshotOf`, leaves out the optional group it
  belongs to; a done Task of which only that changed is refreshed, and keeps status and edges.)
- `OneReconciler`: between a claim and giving the lease back at most one worker acts
  on the event, across operations too: a second operation cannot begin while the
  first is unresolved.
- `SyncedMeansShown`: a Card that says "synced" is right about every calendar.
- `MailedAtMostOnce`: with one crash, provider failure or lost receipt, an
  operation's mail goes out at most once unless forced. (Two faults and a stalled
  retry break it, see section 5; in general it goes out once, or no more often than
  there were faults.)
- `AcceptedThisDate`: an acceptance the guest gave to an earlier date never approves
  a later one, whatever poll, reschedule and retry overlap: any number of workers by the
  theorem, two of them and the expiry job by the run. (Two expiry jobs beside
  two more workers break it, see section 5.)
- `OperationsResolve`: no operation stays pending for ever.
- `ImplementsLifecycle`: the whole of it, as a refinement of `EventLifecycle`. The
  mapping takes an operation as unresolved while the row names it and its journal
  is not complete, and reads the calendars of the row's current identity. The
  expiry job is outside this refinement: it writes around the service (section 5).
- `IssueOwnsItsCards`: a live Card made for an issue is the one that issue names, and
  the issue is planned. A creation from a stale issue row, next to a removal or a
  cancellation, would leave a Card nobody owns, or two.
- `CompletedWorkNeedsConfirmation`: completed work is deleted with its Card only if the
  caller confirmed, although the check and the deletion list the Tasks separately, and
  the second listing lags: completing a Task moves the Card, and the deletion is
  conditioned on the Card as it was read first.
- `NoCardSlipsIn`: when a Template is deleted, every Card then made from it was there at
  the in-use scan. Only the `cardCreateSeq` fence ties creations to deletions, and an edit
  of the Template puts the fence back as it read it; the Template's version covers that.
- `LinearHistory`, `ImplementsLog`: no publication that lost the swap enters the history,
  and none that won it drops its predecessor's change.
- `PublishedIsReadable`: what history, restore or backup can reach is in the bucket, also
  while others are between their uploads and their swap.
- `EditsNeverRegress`: an edit lists the Templates *before* it pins, so it may carry pages
  of an older Template; the revision its client expects keeps it from publishing them
  over newer ones.
- `LiveLeaseIsKept`: a live lease never changes hands, whoever read the object earlier.
- `NoLagIsRecoverable`: when the status shows no lag, the snapshot and every payload of the
  whole history are in the backup, although the copies, the snapshot and the record are separate
  puts and other, perhaps stopped or superseded, workers make them too.
- `BackupCatchesUp`: once publications and faults stop, the record reaches the active
  publication and stays, in spite of superseded workers that record late.
- `LetterAtMostOnce`: nobody gets the first letter twice, through crashes after the
  provider took it, lost answers, retries by hand, and two invocations on one job.
- `ClashesAreUnseenOrAgain`: two Cards have one time only for one of two reasons: the search
  for the one was not shown the other's proposal, or one of the events was released and
  proposed again. That is what the shared lease is good for; that no two Cards have one time is
  more than the code achieves (section 5).
- `EveryInvitationSettles`: every invitation ends sent, skipped, cancelled or in the hands
  of a person, although one job is taken up at a time. Two situations are excluded, as
  the code does not settle them: a Card that stays parked, and two invocations at work on
  one job after a retry was put over a claim (section 5). A third is outside the model: a
  preparation that fails on every attempt is retried for ever and never settles. It does so
  without a guest's address or an enabled policy (`events/guestIntakeWorker.ts:59`), with a policy that
  has mails of its own (`:64`), where the calendar has no time left (`:81`; the instance has a time
  for each job), and where the letter's Template cannot be loaded (`:85`).

### Bounds, and why they are enough

Requests are one-shot: each member of `Requests` or `Syncs` makes one call, so the
number of requests bounds both concurrency and history. Three calls
suffice for a completion that is undermined, because Tasks may be created done: one links
or completes, one reopens, deletes or moves the other Task meanwhile. For a cycle two calls and
three Tasks suffice, because a Template may bring the first edge; two Cards for a
move. The patches of each run are listed in `MCTaskCards`; each sends one field, and
patches of several fields at once are left to the proofs. Nothing depends on more:
each rule relates a Task to its prerequisites, and the theorems of section 4 confirm
the graph and counter invariants for every number of Tasks, Cards and requests.
`LastVersion` bounds Template saves. Versions are compared for equality only,
so rows start at 1. Tasks, Cards and requests are symmetric where no constant
distinguishes them; runs with a liveness property use no symmetry.
Deadlock is checked in every Task run: a request that could neither answer nor go
on would be one, because `Quiet` stutters only when no request is working.

An operation key commits once, so `Keys` bounds the transitions of an event: five,
in any order the code allows, with a second life after a release in `event_board`.
`Calls` says which other callers there are (retries, forced retries, the expiry
job, the guest's answer); `FaultLimit` bounds the crashes, failed requests and lost
answers. Two workers suffice for one acting and one interfering; a stopped worker
starts over as a new one, so more than two invocations take part in one behaviour.
One mirror shows
what two would: the loop treats mirrors alike. These runs check deadlock too.

`issue_cards`: three requests are one that creates, one that takes away and one that
edits in between; one issue suffices because requests of different issues share only the
Template row, and the second Card is there for a second creation and for the scan. A
Card or Task id is used once. One Task and one link bound the Card's content.

`knowledge`: versions and publications are bounded by `MaxVersion` and
`MaxPublications`; `Retries` is 1 where the code has 2 (the violation run has 2, no
workers, no constraint). The constraint `Overlap` of `MCKnowledge` leaves out the
product of both halves: two requests overlap freely while no worker has run, and once
one has, only `Writer` publishes, writing a document or generating pages. The
workers see publishing only as publications and their payloads that appear and a
pointer that moves, which one request brings about in every order; for publishing itself the
workers do not exist, as they write none of its variables. The liveness property is
therefore about behaviours within the constraint. The theorems of section 4 need none.

`guest_intake`: two jobs contend for times, the allocator and the head of the queue; one
job is created without a letter, so that a letter asked for later meets the event that is
there. One fault is a crash, a refused calendar or mail request or a lost answer, at any
step; one intervention is any of retry, send, park, archive, edit, release, accept.
With two of either the state space outgrows the time limit; the safety theorems hold for
any number. An event that is proposed again takes two interventions, the letter asked for after it
was skipped and the release, so the second reason in `ClashesAreUnseenOrAgain` is left to the theorem.
(With one time, the calls send, retry and release, one fault and two interventions TLC finds the
property to hold, and without it both ways to a clash.) `guest_accepted` needs no fault.

These runs check no deadlock, because their callers stop: all requests answered, all
publications used up, all invitations settled.

### Fairness

`FairSpec` adds, for each request, weak fairness of its own steps (`Handle`). The
code justifies it: an invocation that is not cut off keeps executing, and waits on
no other request (no locks). It does not assume that clients call, nor that a
conflicting request is retried: the answer may be an error. What remains to show
is that the walk ends although the graph changes under it.

The `FairSpec` of EventOperations adds weak fairness of each worker's steps and of
the lapse of a dead worker's lease (time passes), and strong fairness of retries:
the intake worker retries on its schedule (`events/guestIntakeWorker.ts:97`), and
for other events an operator is assumed to. It assumes no request, poll or answer.

`KnowledgeBackup`: weak fairness of each worker's steps, among them `Start` (the schedule
invokes the worker again and again), and of `Expire` (45 seconds pass). Nothing is assumed
of requests; `MaxPublications` and `MaxFaults` end publications and faults.

`GuestIntake`: weak fairness of each invocation's steps, and strong fairness of `Resume`: the schedule starts an
invocation every two minutes whatever else is running; that a worker of the model is idle
again and again stands for this, as does a job that is listed again and again. Nobody
has to ask for anything.

## 4. What is proved

Eight modules hold theorems, all for arbitrary values of the constants within the
assumptions the modules name, and none about liveness.

`TaskCardsProofs` proves, for arbitrary finite `Tasks`, arbitrary `Cards` and
`Requests`, and arbitrary patches within their types (`TaskCardsAssumption`):

| Theorem | Property |
|---|---|
| `TypeCorrect` | `TypeOK` |
| `CompletedWorkIsSafe` | `CompletedWorkStands` |
| `EdgesAreSafe` | `EdgesStayOnCard` |
| `GraphIsSafe` | `GraphAcyclic` |
| `PinsAreRevisions` | `PinnedGraphIsCurrent` |
| `CountersAreTrue` | `CountersTrue` |
| `CardsStayReadable` | `CardsReadable` |
| `ConflictsAreReal` | `NoSpuriousConflict` |

The argument. None of the safety properties is inductive: a request in the
middle of its reads could hold stale rows that make its commit unsafe. `RInv`
says what every working request knows, and with it goes any other writer of the tables
that moves versions as the requests do; `IInv` adds `CompletedWorkStands` and
`GraphAcyclic`, which such a writer has to establish for itself. A working request knows:

- the row it read is not newer than the table's, and is *the* table's row if its
  version is still current (versions name row contents);
- a pinned version is not newer than the Card's, and while it is current every
  row read since agrees with the table in all the rules look at
  (`PinnedGraphIsCurrent`);
- a Card loaded for recomputation and still at that version is still that row.

`AtCommit` then turns the transaction's conditions into facts about the table at
the instant of the commit: `DependentsAreSeen` (whoever depends on the Task now was in the
scan), `KeptEdges` (every other edge survives). From these follow, one lemma per
conjunct, `CommitKeepsEdgesOnCard`, `CommitKeepsCompletedWork`,
`CommitKeepsAcyclic` (as long as the Card is at its pinned version, what was walked of it is as it
was, so a new cycle through the changed Task would put the Task in its own walked closure) and `CommitMovesCounters` (`SizeButFor` counts the Card's
Tasks without the one that changes). All other actions leave the tables alone or
rewrite one Card without moving its counters. `NextIInv` puts the actions
together; the theorems are its consequences by PTL.

`CardsStayReadable` needs one fact more (`BasesFit`): a Card that a request loaded takes the
request's delta. A Card the commit rewrites is the Card that was loaded, and the rule takes a
readable Card and a fitting delta to a readable Card (`AppliedReads`, one case for completing,
coming back and staying). `ConflictsAreReal` holds in every state of `IInv` and `CountersTrue`:
true counters take the delta of a row that is still the table's, and a walk that is led by the rows
it has read (`WalkIsLed`) finds every Task it looks for, as the transaction demands of each (`WalkFinds`).

`TaskBoardProofs` proves the refinement, `Spec => ImplementsBoard` (`BoardIsImplemented`), for
the same constants. `TablesAreLawful` says that `IInv` is the board's law, so a commit leads to
a lawful board; `CountersCount`, that the board's counts are what the Cards store; and
`CommitSettles`, that a rewritten Card lands where the board settles it and that a Card the
transaction leaves out is one the board's rule does not move (`NothingHappens`, which needs the
Card to be readable). Every step but a commit and the three Card writes that show is a stutter.

`CardTemplateSyncProofs` puts the bulk writes of a Template update beside the requests:

| Theorem | Property | Hypotheses |
|---|---|---|
| `SyncIsTyped` | `SyncTypeOK` | none |
| `EdgesSurviveUpdates` | `EdgesStayOnCard` | (a) |
| `PinsSurviveUpdates` | `PinnedGraphIsCurrent` | (a) |
| `CountersSurviveUpdates` | `CountersTrue` | (a) |
| `CompletedWorkIsLeftAlone` | `CompletedTasksUntouched` | (a) |
| `GraphSurvivesUpdates` | `GraphAcyclic` | (a), (b) |
| `CurrentCardsFollow` | `CurrentCardFollowsTemplate` | (a), (c) |
| `CompletedWorkSurvivesUpdates` | `CompletedWorkStands` | (a), (d) |

(a) `NoRowOutlivesItsTask`: when an update puts a Task under an id that was used before, no
call still holds a row read under it. Without this the properties are false (section 5):
the id is derived, so it comes back, and its version starts at 1 again. In `sync_board` no
call lives long enough for that, so the run needs no constraint.
(b) Tasks that are there at the start and belong to another Template carry no ref of this one:
the update checks its graph over the refs of all Tasks and writes those of its own (section 5).
(c) `TemplateTasksStay`: no unretired Task of the Template is moved to another Card; any other Task
may be. A Task that is moved brings along the provenance of the older Card, which no
update has reviewed. The patches of `sync_board` move none.
(d) `RestoresUnderNothingDone`: no update puts a skipped Task back to todo while a completed
Task waits for it. The code does not look (section 5), so no run of updates checks
`CompletedWorkStands`: on the instance of `sync_board` it is violated without (d) and holds with it.
The theorem says that this is the only way: an update never completes a Task, changes no
edge of a completed one, and reopens only what it restores (`ApplyCompletesNothing`,
`ApplyKeepsDone`, `ApplyReopensRestored`).

The invariant is `SyncInv`: the types, `RInv`, and for an update what `RInv` has for a
request, that its reads are behind the tables (`ReadsBehind`) and current in the graph while
its Card's version is (`GraphSeen`). Either kind of call keeps it because both move the tables
forward (`RequestsMoveForward`, `ApplyKeepsReads`): a row that changes gets a later version,
and a Card whose version stays keeps its graph. `AtApply` turns the conditions of the update's
transaction into facts about the tables, from which the counters follow by counting what is
added, restored and skipped. For acyclicity, the edges an update writes are those its
plan found acyclic, with the edges of the rows it leaves alone. `FollowInv` adds
for `CurrentCardFollowsTemplate` that the provenance an update read is current with the version of its
Card in all the plan looks at (`ProvSeen`), and that no Card is ahead of the Template.

`IssueCardsProofs` proves `IssueTypeOK` (`TypeCorrect`), `IssueOwnsItsCards`
(`OneCardPerIssue`), `CompletedWorkNeedsConfirmation` (`ConfirmationNeeded`) and
`NoCardSlipsIn` (`FenceHolds`), for any numbers of issues, Cards, Tasks, Templates and
requests. What they add to the properties is what a waiting request knows: an image it
read is the row's if the version still is; a listed Task with its current version is the
row it saw; the completed work of a Card at the version that was checked is confirmed; and
between the scan and the deletion, a Card of the Template that the scan did not see has
moved the fence or the version.

`KnowledgeProofs` proves one inductive invariant of publishing (`PublishingIsSound`: a
publication that was put is at its place with its payloads uploaded, and its parent is what
its request pinned) and from it `HistoryIsLinear`, `PublishedStaysReadable`,
`EditsKeepTheView` and the refinement `PublishingIsALog`; for the composition with the
backup, `BackupTypes`, `NoLagMeansRecoverable` (a snapshot, or a walk past a publication,
entails everything before it) and `LeaseIsExclusive`.

`GuestIntakeProofs` proves `GInv == Typed /\ LetterInv /\ SlotInv` (`IntakeIsSound`), and
from it `OneLetter` and `AllocatorKeepsTimesApart`. `LetterInv`: while an invocation sends or records,
the Task says "sending", no other invocation does so for this job, and nothing has gone out before
it sends; a Task that says "none" or "unsent" means that nothing has gone out at all.
`SlotInv`: an invocation that chooses or proposes holds the allocator, so there is one, and whoever
has the time it proposes was not seen by its search, or has the time from being proposed again;
one that is about to show an event to the guest knows the event's time, which is what it proposes should the
event have been released. `Typed` is the part of `GuestTypeOK` these need; `IntakeIsTyped` proves
the rest of it, above all that the order in which jobs are taken up stays a
list of all jobs, each once (`LatestIsOrdered`), so that no job drops out of the schedule's sight.

`EventOperationsProofs` proves `EventTypeOK` (`TypeCorrect`) and `OneReconciler`
(`OneWorkerActs`), for any workers, keys, calendars and faults. `Typed` adds to the types what
keeps them: an event row that is or was the table's has its latest operation in the journal
(`KnownAt`), and no more generations began than operations that begin one were committed, each
key once; a live copy shows some generation. `HeldByLease` makes mutual exclusion inductive:
whoever acts holds the lease of a pending operation, only the event's latest operation is
pending, a plan whose version is still the event's was made with nothing unresolved, so a
commit never starts a second operation beside one, and a row an expiry job took at that version
names the same latest operation. The job puts that row back whatever was written meanwhile, and
behind it two workers may act (section 5). `OneWorkerActs` therefore assumes
`NoOldRowPutBack`: an expiry writes only over the version it read, the condition that
`db/calendarHolds.ts:236` leaves out. On the instance of `event_accept`, which has the job,
`OneReconciler` is violated as the code stands and holds under this condition; `event_board`
checks it without the job.

`EventLifecycleProofs` proves, where no expiry job runs (`"expiry" \notin Calls`), what the service
shows to the world: `SyncedMeansShown` (`SyncedTellsTheTruth`), `AcceptedThisDate`
(`AcceptancesAreOfThisDate`) and the refinement `ImplementsLifecycle`
(`ServiceImplementsLifecycle`). Their common invariant is `Truthful == Trusted /\ World`.
`Trusted` is what a worker may rely on: past its second look at the event its row is the event's;
while it patches, every calendar it has left behind shows what the event wants, and behind
the last one all do; a plan that may still be committed was made of this very row. `World` is what
the tables, the calendars and the guest's answers have in common: the event's status
is that of its latest operation, no calendar shows a generation still to come, and when
nothing is unresolved every calendar shows the event. `AcceptedThisDate` rests on the patch that puts
a new date on the organizer's copy and takes the guest's answer off it in one request: an
answer on a copy is to the date the copy shows (`Answered`). The refinement then goes action by
action: `Commit` begins a transition, `Complete` finishes it, a request to Google changes one calendar to what is wanted, all else is a stutter.
The run `event_accept` checks `AcceptedThisDate` with the expiry job on its instance; the theorem
leaves the job out, and must: with two jobs beside a poll and a client the property fails (section 5).

The same module bounds the mail: `LettersArePaidFor` says, for any number of faults, that the mail
of an operation goes out at most once or at most as often as there were faults, and
`MailGoesOutOnce` concludes `MailedAtMostOnce` for `FaultLimit <= 1`. A second letter takes a
worker that read the receipts early and finds the lease free late, and only a deferral gives the lease
of a pending operation back. The invariant `Frugal` follows both sides. Before the first
fault nothing is deferred and every copy is found where the row says (`Smooth`); a receipt is
written before the letter it speaks of (`Receipts`); and a pending operation that no
worker is past the mail of has sent nothing, or less than the faults paid for, or one letter whose
sender's stop was the one fault (`Ledger`). In that last case nobody who read the receipt before it was
written can come to send again: its claim is too late, or the retry is forced (`Shut`).

The assumptions on constants say what the code computes: an acceptance key
contains the generation it accepts, so no two are alike (`AcceptKey`,
`events/service.ts:1221`); the jobs there are at the start are listed in some order, each once
(`AsCreated`); a Task id derived from Card and ref is a hash, taken to be injective (`AddedId`);
a lease that ran out is not a lease given back (`NoWorker # Expired`).

Only model-checked: `EveryCallAnswered`, `OperationsResolve`, `BackupCatchesUp` and
`EveryInvitationSettles`, since liveness is outside the prover. Every other property
of the passing runs has its theorem.

## 5. Where the code and its documents disagree

Each violation run checks what a document, a comment or an assertion says; details
and quotations are in `PROJECT.json` under "findings".

- `issue_template`: a Template is deleted although a Card uses it. The in-use scan has
  `Limit: 1`, and DynamoDB counts the limit before the filter: it looks at one Card, of
  whatever Template (`db/templates.ts:731`).
- `knowledge_views`: two writes of one Template commit in one order and regenerate in the
  other; each renders the object it wrote (`routes/templates.ts:265`), and the view stays at
  the older definition.
- `guest_accepted`: a guest accepts between the worker's look at the event and its write
  of the Task. The acceptance meets a version conflict that nobody retries
  (`events/guestIntakeCompletion.ts:12`), and the invitation Task goes on waiting.

More was met while modelling. What follows is read in the code, or found by TLC where that
is said; no run is kept for it.

Template updates:

- Selecting an optional group again puts its skipped Tasks back to todo without looking for
  completed dependents (`db/cardTemplateUpdates.ts:240`); the Task routes refuse exactly that
  ("including unskip", `src/docs/task-dependencies.md:31`).
- The update's acyclicity check resolves a ref over all Tasks of the Card
  (`templates/cardTemplateUpdates.ts:609`), the write over the Tasks of this Template. With a Task
  moved in from a Card of another Template that uses the same ref, a cycle is
  committed that `src/docs/task-dependencies.md:35` rules out. `sync_board`
  therefore has Tasks of one Template.
- A Task that an update skipped and a later update retained is no longer recognised
  as skipped by the system: retaining rewrites `templateRetiredAt`
  (`db/cardTemplateUpdates.ts:206`) and not `skippedAt`, and the equality of the two
  is the mark (`templates/cardTemplateUpdates.ts:495`). When its definition returns,
  the Task stays skipped.

- A Task whose definition is dropped and returns, and that was deleted meanwhile, is added under the
  id it had (`db/cardTemplateUpdates.ts:87-92`) and at version 1 again (`:294`). An
  edit of the first Task that stalled before its write since it read version 1, through the deletion
  and an update, overwrites the new Task: its condition is that the row exists at that version. With three
  requests, two updates and two saves TLC finds a Task that depends on a deleted one. This
  is the hypothesis `NoRowOutlivesItsTask` of section 4.

Events:

- The expiry job writes back, unconditionally, a proposal it read before several requests to
  Google (`db/calendarHolds.ts:236`); an approval committed meanwhile becomes expired, against
  `src/docs/unified-event-lifecycle.md:22`. The version goes back with it, so a poll that
  planned on the old row may commit beside a pending reschedule, and two workers act at once.
  It is the only way they can (`OneWorkerActs`).
- The same write breaks `AcceptedThisDate` when two expiry jobs overlap. Both read the row of
  the first date; a poll reads it too and stalls before it asks Google. The event is moved and the guest
  accepts the second date. One job puts the first date back, an approval patches the organizer's
  copy to it and keeps the answer, and the poll takes that for a yes to the first
  date. The other job puts the row back to the version the poll planned on, so its approval commits. TLC
  follows these steps on an instance with four workers and, over those of `event_accept`,
  a client's approval.
- Retrying a reschedule whose response was lost resets the answer the guest gave to that
  very invitation (`calendar/holdGoogleSync.ts:260`, against
  `src/docs/unified-event-lifecycle.md:139`).
- An operation of unknown mail outcome can never be claimed again, forced or not
  (`events/store.ts:139`), though the answer asks to force it (`events/service.ts:525`); it blocks the event.
- A deferral gives its lease back with its first write and puts the Google ids it
  knows on the event with its second (`events/service.ts:467-485`). If a retry
  completes in between, the late write shrinks the ids, and the release that
  follows deletes only those copies. For this reason `EventLifecycle` asks nothing
  of the calendars when a release finishes.
- A worker that stops right after completing an operation (`events/service.ts:576`)
  leaves the Card without its calendar invites (`:610-639`); retries of a complete
  operation return at once (`:408`).
- Receipts are read before the claim (`events/service.ts:402`) and used after it. A
  retry that stalls between the two for most of a lease's life, while another
  worker mails and stops and a third defers, mails a second time.

Issues and Card deletion:

- A note does not move the Card. One written between the look for work and the deletion's
  listing goes with the Card unconfirmed (`newsletter/cardRemoval.ts:8-11` counts notes as work that keeps the Card).
- The deletion lists Tasks through an index without consistent reads
  (`db/cardDeletion.ts:227`); only writes that move the Card are sure to be noticed.
- A cancellation of an issue without a Card writes the issue outside the `try` that turns
  conflicts into 409 (`routes/newsletterIssues.ts:708`).
- A just created Card is discarded row by row when a later step fails (`db/templates.ts:1017`).

Knowledge:

- If the answer to the swap of `active.json` is lost and the client library retries, the
  request is told of a conflict though its publication is active.
- A superseded worker may put `success.json` late, with an older revision; the next run repairs it.

Guest intake:

- One time is given to two Cards, against the comment that the allocator's lease "covers
  availability read through durable Calendar proposal" (`events/guestIntakeAllocator.ts:4`). A job whose
  letter was skipped is asked to send it; its invocation reads the event as proposed
  (`guestIntakeWorker.ts:76`), the event is released, and the reschedule that is to show it to the guest
  (`:103`) reads it again and proposes it anew at its old time (`events/service.ts:955`), without the
  lease. Another invocation has the lease, searches meanwhile and proposes the same time. TLC finds this
  without any fault.
- With one fault it finds a clash without a release: an invocation stops between its proposal and
  Google's answer, and the next search is not shown what was proposed (`guestIntakeSlots.ts:23`).
- The schedule takes up one job, the one updated longest ago (`events/guestIntakeWorker.ts:139`).
  The job of a parked Card is looked at and left without a save (`:52-58`), so it stays first
  in line, and no other job is resumed until the Card is.
- The retry route puts the whole row as it read it, and its condition is on status and
  `updatedAt`, which a claim does not move (`routes/cards.ts:413`): it can erase a lease.
  A second invocation then works on the job; the claimed letter keeps the guest from
  getting two.
- The letter may go out for an event that was released in the meantime.

## 6. Not modelled

In the modelled components: deal-subject Tasks, paged list reads that only
display, repeated definitions with counts, adoption of manual or renamed Tasks by
a Template update and the conflicts that raises, the replay of audit events,
history rows; of events, policy rendering, Episode rows, declines, guest addresses,
migration of old rows, and manual blockers; of issues, slots, deliverables, the facts
copied onto the Card, and an issue with a `sourceKey` that is deleted and made again: its id is
derived from the key and it starts at version 1 again (`routes/newsletterIssues.ts:537`,
`db/newsletterIssues.ts:129`), while ids in `IssueCards` are not used twice; of Card deletion, rows that are only unlinked; of Templates, Git
seeds, pins and resets; of publishing, batches, folders, images, the local cache; of guest
intake, what section 2 lists.

Elsewhere: see the table of section 1. Most of the repository is record keeping by one conditional
write per request, forms, rendering, parsing of bank and mail documents, and a frontend:
files of I/O and data in which no two steps meet. They stay out for good; that is
why the map covers a small share of the lines.

DynamoDB is modelled from how the code uses it: a transaction is atomic,
`GetItem` with `ConsistentRead` returns the current row, a paged query reads rows
at different instants, and a read of a secondary index may lag by a write
(`IssueCards`). S3 is read-after-write consistent, with conditional puts.

## 7. What a next step would be

1. Deal-subject Tasks: prerequisites without a Card version to pin.
2. Cron and recurring work: `db/recurring.ts` and overlapping passes of the runner.
3. Newsletter and podcast slots, payment follow-ups, offboarding.
4. Template seeds and resets.

Proofs: every invariant, action property and refinement of the passing runs has its theorem.
`AcceptedThisDate` might be proved, as `OneReconciler` is, for an expiry job that writes under the
event's version; with two workers TLC agrees. `SyncedMeansShown` would still fail beside such a
job, which deletes the copies of an event before it writes that the event has expired.
