-------------------------- MODULE CardTemplateSync --------------------------
(***************************************************************************)
(* Reviewed Card Template updates, next to the requests of TaskCards.      *)
(*                                                                         *)
(* A Card keeps the Template version it was last brought up to, and each   *)
(* Task made from a Template keeps the definition it was made from.  An    *)
(* update reads the Card, then the Template, then the Card's Tasks; plans  *)
(* one action per Task; and commits Card and Tasks in one transaction.     *)
(* Only one writer of the Task table does not go through the dependency    *)
(* checks of TaskCards, and this is it.                                    *)
(*                                                                         *)
(* Template definitions here have distinct descriptions that no manual     *)
(* Task carries and do not repeat, so nothing is adopted, in conflict or   *)
(* removed outright: the update adds, updates, restores, skips, retains.   *)
(***************************************************************************)
EXTENDS TaskCards

CONSTANTS Refs,          \* refIds of Task definitions
          NoRef, Absent, \* no ref; no definition under this ref
          Definitions,   \* the Template bodies an author saves
          AddedId,       \* the id an update derives from Card, Template and ref: a hash
          Origin,        \* where the Tasks that exist at the start come from
          Syncs,         \* update calls
          LastVersion    \* bound: the Template is saved this often

DefRec == [edges : SUBSET Refs, text : 1..2, optional : BOOLEAN]
BodyRec == [Refs -> DefRec \cup {Absent}]
\* What a Task keeps of its definition, and plans compare: not whether it is optional.
SnapRec == [edges : SUBSET Refs, text : 1..2]
SnapshotOf(d) == [edges |-> d.edges, text |-> d.text]

\* Template validation: prerequisites are defined, ungrouped or in the same
\* optional group, and acyclic.
ValidBody(d) ==
  /\ \A r \in Refs : d[r] # Absent => \A e \in d[r].edges :
       d[e] # Absent /\ (d[e].optional => d[r].optional)
  /\ Acyclic(Refs, [r \in Refs |-> IF d[r] = Absent THEN {} ELSE d[r].edges])

ASSUME CardTemplateSyncAssumption ==
  /\ Absent \notin DefRec \cup SnapRec /\ NoRef \notin Refs
  /\ Definitions \subseteq BodyRec /\ \A d \in Definitions : ValidBody(d)
  /\ IsFiniteSet(Refs)
  /\ AddedId \in [Cards -> [Refs -> Tasks]]
  /\ \A c, d \in Cards, q, r \in Refs : AddedId[c][q] = AddedId[d][r] => c = d /\ q = r
  /\ Origin \in [Tasks -> [ref : Refs \cup {NoRef}, own : BOOLEAN]]

\* Provenance of a Task: its ref, whether it is this Template's, what it keeps of
\* the definition and the version it follows, why it was retired, whether its skip reason says the
\* Template removed it, and whether skippedAt still equals templateRetiredAt.
ProvRec == [ref : Refs \cup {NoRef}, own : BOOLEAN, def : SnapRec \cup {Absent}, version : Nat,
            retired : {"no", "removed", "completed-modified"},
            forTemplate : BOOLEAN, undoable : BOOLEAN]
Following(r, d, v) == [ref |-> r, own |-> TRUE, def |-> d, version |-> v, retired |-> "no",
                       forTemplate |-> FALSE, undoable |-> FALSE]
OfElsewhere(r) == [Following(r, Absent, 0) EXCEPT !.own = FALSE]

\* What a Card holds of its Template.
HeldRec == [version : Nat, refs : SUBSET Refs, selected : BOOLEAN]
TmplRec == [version : Nat, body : BodyRec]

VARIABLES tmpl,   \* the Template row
          prov,   \* provenance columns of the Task rows
          held,   \* Template columns of the Card rows
          sync    \* the update calls in progress and what they read

syncVars == <<tmpl, prov, held, sync>>

IdleSync == [pc |-> "idle", card |-> NoCard, want |-> FALSE,
             base |-> NotLoaded, held |-> [version |-> 0, refs |-> {}, selected |-> FALSE],
             tmpl |-> [version |-> 0, body |-> [r \in Refs |-> Absent]],
             rows |-> [t \in Tasks |-> NotRead], prov |-> [t \in Tasks |-> OfElsewhere(NoRef)]]

\* The definitions that apply to a Card, given whether it chose the options.
Choices(body) == IF \E r \in Refs : body[r] # Absent /\ body[r].optional THEN BOOLEAN ELSE {FALSE}
Applicable(body, chosen) == {r \in Refs : body[r] # Absent /\ (body[r].optional => chosen)}

-----------------------------------------------------------------------------
\* The plan, over what call s read.

Rows(s) == {t \in Tasks : sync[s].rows[t].live /\ sync[s].rows[t].card = sync[s].card}
Mine(s) == {t \in Rows(s) : sync[s].prov[t].own /\ sync[s].prov[t].ref # NoRef}
Body(s) == sync[s].tmpl.body
Target(s) == Applicable(Body(s), sync[s].want)
DefOf(s, t) == Body(s)[sync[s].prov[t].ref]

AmbiguousRefs(s) == \E t, u \in Mine(s) : t # u /\ sync[s].prov[t].ref = sync[s].prov[u].ref

\* A Task retired for the version the Card is at stays as it is, unless the
\* choice of options brings it back.
SettledTask(s, t) ==
  /\ sync[s].held.version = sync[s].tmpl.version /\ sync[s].prov[t].retired # "no"
  /\ ~ /\ sync[s].prov[t].ref \in Target(s) /\ sync[s].held.selected # sync[s].want
       /\ DefOf(s, t).optional
Defined(s) == {t \in Mine(s) : sync[s].prov[t].ref \in Target(s) /\ ~SettledTask(s, t)}
Dropped(s) == {t \in Mine(s) : sync[s].prov[t].ref \notin Target(s) /\ ~SettledTask(s, t)}

Changed(s, t) == SnapshotOf(DefOf(s, t)) # sync[s].prov[t].def
\* Only the skip the update itself made is undone.
Restorable(s, t) == /\ sync[s].prov[t].retired = "removed" /\ sync[s].prov[t].undoable
                    /\ sync[s].rows[t].status = "skipped"

ToRestore(s) == {t \in Defined(s) : Restorable(s, t)}
ToRefresh(s) == {t \in Defined(s) \ ToRestore(s) :
                   /\ ~Changed(s, t)
                   /\ \/ sync[s].prov[t].version # sync[s].tmpl.version
                      \/ sync[s].prov[t].retired # "no"}
\* Slip: a completed Task takes the new definition like any other.
BugRewriteDone(s) == {t \in Defined(s) \ ToRestore(s) : Changed(s, t)}
ToUpdate(s) == {t \in Defined(s) \ ToRestore(s) :
                  Changed(s, t) /\ sync[s].rows[t].status # "done"}
ToRetain(s) == {t \in Defined(s) \ (ToRestore(s) \cup ToUpdate(s)) : Changed(s, t)}
               \cup {t \in Dropped(s) : IsResolved(sync[s].rows[t].status)}
ToSkip(s) == {t \in Dropped(s) : IsOpen(sync[s].rows[t].status)}
\* A ref the Card accounts for but holds no Task for was left out on purpose.
ToAdd(s) == {r \in Target(s) \ sync[s].held.refs : \A t \in Mine(s) : sync[s].prov[t].ref # r}
NewId(s, r) == AddedId[sync[s].card][r]
AddedIds(s) == {NewId(s, r) : r \in ToAdd(s)}
RefOfAdded(s, t) == CHOOSE r \in ToAdd(s) : NewId(s, r) = t

Rewritten(s) == ToRestore(s) \cup ToRefresh(s) \cup ToUpdate(s) \cup ToRetain(s) \cup ToSkip(s)
\* Edges are rewritten only where the Template changed them.
Relinked(s) == {t \in ToRestore(s) \cup ToUpdate(s) :
                  sync[s].prov[t].def = Absent \/ DefOf(s, t).edges # sync[s].prov[t].def.edges}

\* Slip: the derived id stands for the ref whether or not there is such a Task.
BugDerivedIds(s, r) == {NewId(s, r)}
\* The Tasks this Template's refs stand for once the update is applied.
IdsOf(s, r) == IF r \in ToAdd(s) THEN {NewId(s, r)}
               ELSE {t \in Mine(s) : sync[s].prov[t].ref = r}
Resolved(s, refs) == UNION {IdsOf(s, r) : r \in refs}
Unresolvable(s) ==
  \E r \in {sync[s].prov[t].ref : t \in Relinked(s)} \cup ToAdd(s) :
    \E e \in Body(s)[r].edges : IdsOf(s, e) = {}

\* The acyclicity check resolves refs over every Task of the Card, whichever
\* Template it came from; the last Task of the listing wins.
CheckedIds(s, r) == IF r \in ToAdd(s) THEN {NewId(s, r)}
                    ELSE {t \in Rows(s) : sync[s].prov[t].ref = r}
Listings(s) == {l \in [Refs -> Tasks \cup {NoTask}] :
                  \A r \in Refs : IF CheckedIds(s, r) = {} THEN l[r] = NoTask
                                  ELSE l[r] \in CheckedIds(s, r)}
\* Slip: the edges operators added are left out of the check.
BugTemplateEdgesOnly(s, listing) ==
  [t \in Tasks |->
     IF t \in AddedIds(s) THEN {listing[e] : e \in Body(s)[RefOfAdded(s, t)].edges} \ {NoTask}
     ELSE IF t \in Relinked(s) THEN {listing[e] : e \in DefOf(s, t).edges} \ {NoTask}
     ELSE {}]
CheckedEdges(s, listing) ==
  [t \in Tasks |->
     IF t \in AddedIds(s) THEN {listing[e] : e \in Body(s)[RefOfAdded(s, t)].edges} \ {NoTask}
     ELSE IF t \in Relinked(s) THEN {listing[e] : e \in DefOf(s, t).edges} \ {NoTask}
     ELSE IF t \in Rows(s) THEN sync[s].rows[t].deps ELSE {}]

PlanFails(s, listing) ==
  AmbiguousRefs(s) \/ ~Acyclic(Tasks, CheckedEdges(s, listing)) \/ Unresolvable(s)
NothingToDo(s) == /\ sync[s].held.version = sync[s].tmpl.version
                  /\ sync[s].held.selected = sync[s].want
                  /\ Rewritten(s) \cup AddedIds(s) = {}

-----------------------------------------------------------------------------
\* The rows the transaction writes.

NewStatus(s, t) == CASE t \in ToSkip(s) -> "skipped" [] t \in ToRestore(s) -> "todo"
                     [] OTHER -> sync[s].rows[t].status
RewrittenRow(s, t) ==
  [sync[s].rows[t] EXCEPT !.status = NewStatus(s, t), !.version = @ + 1,
                          !.deps = IF t \in Relinked(s) THEN Resolved(s, DefOf(s, t).edges) ELSE @]
AddedRow(s, t) == FromTemplate(sync[s].card, Resolved(s, Body(s)[RefOfAdded(s, t)].edges))

RewrittenProv(s, t) ==
  LET was == sync[s].prov[t]
  IN  CASE t \in ToSkip(s) ->
             [was EXCEPT !.retired = "removed", !.forTemplate = TRUE, !.undoable = TRUE]
        [] t \in ToRetain(s) ->
             [was EXCEPT !.retired = IF was.ref \in Target(s) THEN "completed-modified" ELSE "removed",
                       !.undoable = FALSE]
        [] OTHER -> [was EXCEPT !.def = SnapshotOf(DefOf(s, t)), !.version = sync[s].tmpl.version,
                              !.retired = "no", !.undoable = FALSE,
                              !.forTemplate = @ /\ t \notin ToRestore(s)]

\* Slip: added Tasks are left out of the Card's counters.
BugAddedUncounted(s) ==
  [tasks |-> 0,
   open |-> Cardinality(ToRestore(s)) - Cardinality(ToSkip(s))]
SyncDelta(s) ==
  [tasks |-> Cardinality(ToAdd(s)),
   open |-> Cardinality(ToAdd(s)) + Cardinality(ToRestore(s)) - Cardinality(ToSkip(s))]
\* Slip: an update that moves no counter keeps the Card's version.
BugVersionKept(s) ==
  IF SyncDelta(s).tasks = 0 /\ SyncDelta(s).open = 0
  THEN sync[s].base
  ELSE ApplyAggregateDelta(sync[s].base, SyncDelta(s), NoStage)
SyncedCard(s) ==
  IF SyncDelta(s).tasks = 0 /\ SyncDelta(s).open = 0
  THEN [sync[s].base EXCEPT !.version = @ + 1]
  ELSE ApplyAggregateDelta(sync[s].base, SyncDelta(s), NoStage)

\* The Tasks on an edge after the update that it does not rewrite.
GraphRows(s) ==
  LET after(t) == IF t \in AddedIds(s) THEN AddedRow(s, t).deps
                  ELSE IF t \in Rewritten(s) THEN RewrittenRow(s, t).deps
                  ELSE IF t \in Rows(s) THEN sync[s].rows[t].deps ELSE {}
      linked == {t \in Tasks : after(t) # {}}
  IN  (Rows(s) \cap (linked \cup UNION {after(t) : t \in linked})) \ Rewritten(s)
\* Slip: the Card row is written whatever its version.
BugCardUnconditioned(s) ==
  /\ tmpl.version = sync[s].tmpl.version
  /\ \A t \in Rewritten(s) \cup GraphRows(s) :
       task[t].live /\ task[t].version = sync[s].rows[t].version
  /\ \A t \in AddedIds(s) : ~task[t].live
SyncConditionsHold(s) ==
  /\ card[sync[s].card].version = sync[s].base.version
  /\ tmpl.version = sync[s].tmpl.version
  /\ \A t \in Rewritten(s) \cup GraphRows(s) :
       task[t].live /\ task[t].version = sync[s].rows[t].version
  /\ \A t \in AddedIds(s) : ~task[t].live

-----------------------------------------------------------------------------
\* At the start Cards have the Tasks of their Template, further Tasks of other
\* Templates that were moved to them, manual ones, and edges operators added.
SyncInit ==
  /\ Init
  /\ tmpl \in [version : {1}, body : Definitions]
  /\ held \in [Cards -> {[version |-> 1, refs |-> Applicable(tmpl.body, x), selected |-> x] :
                            x \in Choices(tmpl.body)}]
  /\ \A c \in Cards : held[c].refs = {Origin[t].ref : t \in {t \in TasksOf(c) : Origin[t].own}}
  /\ prov = [t \in Tasks |-> IF task[t].live /\ Origin[t].own
                             THEN Following(Origin[t].ref, SnapshotOf(tmpl.body[Origin[t].ref]), 1)
                             ELSE IF task[t].live THEN OfElsewhere(Origin[t].ref)
                             ELSE OfElsewhere(NoRef)]
  /\ sync = [s \in Syncs |-> IdleSync]

\* An author saves the Template.
SaveTemplate(d) ==
  /\ tmpl.version < LastVersion /\ d # tmpl.body
  /\ tmpl' = [version |-> tmpl.version + 1, body |-> d]
  /\ UNCHANGED <<vars, prov, held, sync>>

SyncReadCard(s, c) ==
  /\ sync[s].pc = "idle"
  /\ sync' = [sync EXCEPT ![s].pc = "card", ![s].card = c,
                          ![s].base = card[c], ![s].held = held[c]]
  /\ UNCHANGED <<vars, tmpl, prov, held>>

\* The caller's choice of options counts where the Template offers options.
SyncReadTemplate(s) ==
  /\ sync[s].pc = "card"
  /\ \E want \in Choices(tmpl.body) :
       sync' = [sync EXCEPT ![s].pc = "rows", ![s].tmpl = tmpl, ![s].want = want]
  /\ UNCHANGED <<vars, tmpl, prov, held>>

SyncScanRow(s, t) ==
  /\ sync[s].pc = "rows" /\ ~IsRead(sync[s].rows[t])
  /\ sync' = [sync EXCEPT ![s].rows[t] = task[t], ![s].prov[t] = prov[t]]
  /\ UNCHANGED <<vars, tmpl, prov, held>>

Planned(s) == sync[s].pc = "rows" /\ \A t \in Tasks : IsRead(sync[s].rows[t])
SyncDone(s) == sync' = [sync EXCEPT ![s] = [IdleSync EXCEPT !.pc = "answered"]]

\* The plan cannot be made, changes nothing, or is not the one the operator
\* reviewed (the preview token is over versions read at some earlier time).
SyncRefuse(s) ==
  /\ Planned(s)
  /\ SyncDone(s)
  /\ UNCHANGED <<vars, tmpl, prov, held>>

\* The route also plans for the options the Card has before it plans for those
\* asked for; that plan can only refuse, and SyncRefuse stands for it.
SyncApply(s) ==
  /\ Planned(s) /\ ~NothingToDo(s)
  /\ \E listing \in Listings(s) : ~PlanFails(s, listing)
  /\ ValidDelta(sync[s].base, SyncDelta(s))
  /\ SyncConditionsHold(s)
  /\ task' = [t \in Tasks |-> IF t \in AddedIds(s) THEN AddedRow(s, t)
                              ELSE IF t \in Rewritten(s) THEN RewrittenRow(s, t) ELSE task[t]]
  /\ prov' = [t \in Tasks |->
                IF t \in AddedIds(s)
                THEN Following(RefOfAdded(s, t), SnapshotOf(Body(s)[RefOfAdded(s, t)]), sync[s].tmpl.version)
                ELSE IF t \in Rewritten(s) THEN RewrittenProv(s, t) ELSE prov[t]]
  /\ card' = [card EXCEPT ![sync[s].card] = SyncedCard(s)]
  /\ held' = [held EXCEPT ![sync[s].card] =
                [version |-> sync[s].tmpl.version, refs |-> Target(s), selected |-> sync[s].want]]
  /\ SyncDone(s)
  /\ UNCHANGED <<pc, call, local, tmpl>>

\* A step of a Task or Card request.  A deleted row loses its provenance, and
\* an operator's skip or unskip replaces the skip columns.
AfterWrite(t) ==
  CASE ~task[t].live \/ ~task'[t].live -> OfElsewhere(NoRef)
    [] task[t].live /\ task'[t].live /\ task'[t].status # task[t].status ->
         [prov[t] EXCEPT !.forTemplate = FALSE, !.undoable = FALSE]
    [] OTHER -> prov[t]
Request ==
  /\ \E r \in Requests : Call(r) \/ Handle(r)
  /\ prov' = [t \in Tasks |-> IF task'[t] = task[t] THEN prov[t] ELSE AfterWrite(t)]
  /\ UNCHANGED <<tmpl, held, sync>>

SyncStep(s) ==
  \/ \E c \in Cards : SyncReadCard(s, c)
  \/ SyncReadTemplate(s)
  \/ \E t \in Tasks : SyncScanRow(s, t)
  \/ SyncRefuse(s) \/ SyncApply(s)

AllQuiet == /\ \A r \in Requests : pc[r] # "working"
            /\ \A s \in Syncs : sync[s].pc \in {"idle", "answered"}
            /\ UNCHANGED <<vars, syncVars>>

SyncNext == \/ Request \/ (\E s \in Syncs : SyncStep(s)) \/ (\E d \in Definitions : SaveTemplate(d))
            \/ AllQuiet

SyncSpec == SyncInit /\ [][SyncNext]_<<vars, syncVars>>

-----------------------------------------------------------------------------
\* Correctness, besides the invariants of TaskCards, which must survive a
\* writer that does not run the dependency checks.

SyncTypeOK ==
  /\ TypeOK
  /\ tmpl \in TmplRec /\ prov \in [Tasks -> ProvRec] /\ held \in [Cards -> HeldRec]
  /\ sync \in [Syncs -> [pc : {"idle", "card", "rows", "answered"}, card : Cards \cup {NoCard},
                         want : BOOLEAN, base : CardRec, held : HeldRec, tmpl : TmplRec,
                         rows : [Tasks -> TaskRec \cup {NotRead}], prov : [Tasks -> ProvRec]]]

\* Template sync never rewrites a completed Task: whatever the plan was made
\* from, a Task that is done when the update commits stays done with its edges.
CompletedTasksUntouched ==
  [][\A s \in Syncs : SyncApply(s) =>
       \A t \in Tasks : task[t].live /\ task[t].status = "done" =>
         task'[t].live /\ task'[t].status = "done" /\ task'[t].deps = task[t].deps]_<<vars, syncVars>>

\* On a Card that is at the Template's version, every Task of the Template that
\* is not retired is one the Card accounts for and carries the definition the
\* Template has now, whichever updates, deletions and option changes raced.
CurrentCardFollowsTemplate ==
  \A t \in Tasks :
    /\ task[t].live /\ prov[t].own /\ prov[t].retired = "no"
    /\ task[t].card # NoCard /\ held[task[t].card].version = tmpl.version
    => /\ prov[t].ref \in held[task[t].card].refs
       /\ prov[t].def = SnapshotOf(tmpl.body[prov[t].ref]) /\ prov[t].version = tmpl.version
=============================================================================
