----------------------------- MODULE Knowledge -----------------------------
(***************************************************************************)
(* Publishing of the knowledge base (docs/knowledgeStore.ts,               *)
(* docs/contentApi.ts) in one S3 bucket: immutable payloads under          *)
(* objects/, immutable publications that name their parent, and a pointer  *)
(* active.json that is swapped with IfMatch on the ETag the request read.  *)
(* Every request works on a store of its own that pins one publication.    *)
(*                                                                         *)
(* A document is its content.  The generated pages are two: the view of a  *)
(* Template, which is the Template version it was rendered from, and the   *)
(* index, which is the tree of documents it lists.  The revision of a      *)
(* publication is a UUID; here it is its place in the order of the puts.   *)
(***************************************************************************)
EXTENDS Integers, Sequences, FiniteSets

CONSTANTS Docs,             \* paths of source documents
          Contents,         \* what a document may hold
          Absent,           \* no document at the path
          Requests,         \* requests that publish
          Retries,          \* retries of a regeneration (2 in the code)
          MaxPublications,  \* bound: publications put into the bucket
          MaxVersion        \* bound: versions of the Template

ASSUME KnowledgeAssumption ==
  /\ Absent \notin Contents
  /\ Retries \in Nat
  /\ MaxPublications \in Nat \ {0}
  /\ MaxVersion \in Nat \ {0}

VARIABLES
  template,      \* version of the Template's row in DynamoDB
  objects,       \* payloads in the bucket
  publications,  \* publications/<revision>.json, by revision
  active,        \* the revision active.json names
  log,           \* history: the revisions active.json has named
  reqs           \* requests under way

knowledgeVars == <<template, objects, publications, active, log, reqs>>

Revisions == 1..MaxPublications
Versions == 1..MaxVersion
Trees == [Docs -> Contents \cup {Absent}]
Publications ==
  [parent : 0..MaxPublications, docs : Trees, view : Versions, index : Trees]

(* The changes a client may ask for: PUT /docs, /knowledge/publish with and *)
(* without absent, DELETE /docs, /docs/rename and /knowledge/restore.       *)
Changes ==
  [op : {"write", "create"}, doc : Docs, content : Contents]
    \cup [op : {"delete"}, doc : Docs]
    \cup [op : {"rename"}, doc : Docs, from : Docs]
    \cup [op : {"restore"}, doc : Docs, revision : Revisions]

NoChange == [op |-> "none"]

(* "edit" brings the revision its client read; "status" rewrites the front  *)
(* matter of the document it finds and expects what it pinned; "template"   *)
(* saves the Template first; "regenerate" is POST /docs/regenerate.         *)
Kinds == {"edit", "status", "template", "regenerate"}

RequestStates ==
  [pc      : {"idle", "open", "read", "pinned", "stored", "put", "done"},
   kind    : Kinds,
   change  : Changes \cup {NoChange},
   seen    : 0..MaxPublications,   \* expectedRevision of the client
   version : 0..MaxVersion,        \* of the Template it renders
   base    : 0..MaxPublications,   \* the publication it pinned
   own     : 0..MaxPublications,   \* the publication it put
   tries   : 0..Retries,
   answer  : {"none", "ok", "conflict", "refused"}]

Request(pc, kind, change, seen, version, answer) ==
  [pc |-> pc, kind |-> kind, change |-> change, seen |-> seen,
   version |-> version, base |-> 0, own |-> 0, tries |-> 0, answer |-> answer]

Idle == Request("idle", "edit", NoChange, 0, 0, "none")

-----------------------------------------------------------------------------
(* The revisions a walk along the parents meets, from rev on: versionEntry, *)
(* history and the backup walk the publications this way.                   *)
Ancestors(rev) ==
  LET walk[n \in 0..MaxPublications] ==
        IF n = 0 THEN {} ELSE {n} \cup walk[publications[n].parent]
  IN  walk[rev]

Payloads(p) ==
  {<<"document", p.docs[d]>> : d \in {x \in Docs : p.docs[x] # Absent}}
    \cup {<<"view", p.view>>, <<"index", p.index>>}

Edits(q) == q.kind \in {"edit", "status"}

(* Whether publish can apply the change to the tree it pinned. *)
Applies(q) ==
  LET docs == publications[q.base].docs
      c == q.change
  IN  \/ c.op = "none"
      \/ c.op = "write" /\ (q.kind = "status" => docs[c.doc] # Absent)
      \/ c.op = "create" /\ docs[c.doc] = Absent
      \/ c.op = "delete" /\ docs[c.doc] # Absent
      \/ c.op = "rename" /\ docs[c.from] # Absent /\ docs[c.doc] = Absent
      \/ /\ c.op = "restore"
         /\ c.revision \in Ancestors(q.base)
         /\ publications[c.revision].docs[c.doc] # Absent

(* The tree the change leaves. *)
Changed(docs, c) ==
  IF c.op \in {"write", "create"} THEN [docs EXCEPT ![c.doc] = c.content]
  ELSE IF c.op = "delete" THEN [docs EXCEPT ![c.doc] = Absent]
  ELSE IF c.op = "rename"
       THEN [docs EXCEPT ![c.doc] = docs[c.from], ![c.from] = Absent]
  ELSE IF c.op = "restore"
       THEN [docs EXCEPT ![c.doc] = publications[c.revision].docs[c.doc]]
  ELSE docs

(* Slip: the parent is the revision the client sent, not the one pinned. *)
BugParentSeen(q) ==
  LET docs == Changed(publications[q.base].docs, q.change)
  IN  [parent |-> q.seen, docs |-> docs, view |-> q.version, index |-> docs]

(* The publication the plan amounts to: the changed tree and the generated  *)
(* pages rendered from it and from the Template the request holds.          *)
Planned(q) ==
  LET docs == Changed(publications[q.base].docs, q.change)
  IN  [parent |-> q.base, docs |-> docs, view |-> q.version, index |-> docs]

(* A regeneration that finds every page up to date publishes nothing. *)
PlanIsEmpty(q) ==
  LET p == publications[q.base]
  IN  ~Edits(q) /\ p.view = q.version /\ p.index = p.docs

(* Slip: only the bytes of the request are put. *)
BugPagesNotPut(q) ==
  {<<"document", q.change.content>> :
     x \in {y \in {q} : y.change.op \in {"write", "create"}}}

(* What publish puts under objects/: the bytes it was given and the pages   *)
(* that differ.  A rename and a restore name a payload that is there.       *)
Uploads(q) ==
  LET p == publications[q.base]
      planned == Planned(q)
  IN  {<<"document", q.change.content>> :
         x \in {y \in {q} : y.change.op \in {"write", "create"}}}
        \cup ({<<"view", planned.view>>, <<"index", planned.index>>}
                \ {<<"view", p.view>>, <<"index", p.index>>})

(* Slips: the pointer is put without IfMatch; the revision the client       *)
(* expects is not compared.                                                 *)
BugNoIfMatch(q) == TRUE
BugNoExpectation(q) == TRUE

PointerUnchanged(q) == active = q.base

ExpectationHolds(q) == q.kind = "edit" => q.seen = q.base

-----------------------------------------------------------------------------
Answered(answer) == Request("done", "edit", NoChange, 0, 0, answer)

(* A person has the active publication on the screen and sends an edit of   *)
(* it, or sets a status.                                                    *)
Open(r) ==
  /\ reqs[r].pc = "idle"
  /\ \E c \in {x \in Changes : x.op = "restore" => x.revision \in DOMAIN publications} :
       \/ reqs' = [reqs EXCEPT ![r] = Request("open", "edit", c, active, 0, "none")]
       \/ /\ c.op = "write"
          /\ reqs' = [reqs EXCEPT ![r] = Request("open", "status", c, 0, 0, "none")]
  /\ UNCHANGED <<template, objects, publications, active, log>>

(* POST /docs/regenerate: no change of a document. *)
OpenRegeneration(r) ==
  /\ reqs[r].pc = "idle"
  /\ reqs' = [reqs EXCEPT ![r] = Request("open", "regenerate", NoChange, 0, 0, "none")]
  /\ UNCHANGED <<template, objects, publications, active, log>>

(* A Template write commits its row and goes on to regenerate the pages     *)
(* with the Template it wrote.                                              *)
SaveTemplate(r) ==
  /\ reqs[r].pc = "idle"
  /\ template < MaxVersion
  /\ template' = template + 1
  /\ reqs' = [reqs EXCEPT ![r] =
                Request("read", "template", NoChange, 0, template + 1, "none")]
  /\ UNCHANGED <<objects, publications, active, log>>

(* templatesFor: every other request lists the Templates before it pins. *)
ReadTemplates(r) ==
  /\ reqs[r].pc = "open"
  /\ reqs' = [reqs EXCEPT ![r].pc = "read", ![r].version = template]
  /\ UNCHANGED <<template, objects, publications, active, log>>

Pin(r) ==
  /\ reqs[r].pc = "read"
  /\ reqs' = [reqs EXCEPT ![r].pc = "pinned", ![r].base = active]
  /\ UNCHANGED <<template, objects, publications, active, log>>

(* publish up to its uploads, or one of its early ends. *)
Store(r) ==
  LET q == reqs[r]
  IN  /\ q.pc = "pinned"
      /\ \/ /\ PlanIsEmpty(q)
            /\ reqs' = [reqs EXCEPT ![r] = Answered("ok")]
            /\ UNCHANGED objects
         \/ /\ ~ExpectationHolds(q)
            /\ reqs' = [reqs EXCEPT ![r] = Answered("conflict")]
            /\ UNCHANGED objects
         \/ /\ ExpectationHolds(q)
            /\ ~Applies(q)
            /\ reqs' = [reqs EXCEPT ![r] = Answered("refused")]
            /\ UNCHANGED objects
         \/ /\ ExpectationHolds(q)
            /\ ~PlanIsEmpty(q)
            /\ Applies(q)
            /\ objects' = objects \cup Uploads(q)
            /\ reqs' = [reqs EXCEPT ![r].pc = "stored"]
      /\ UNCHANGED <<template, publications, active, log>>

Put(r) ==
  /\ reqs[r].pc = "stored"
  /\ Len(publications) < MaxPublications
  /\ publications' = Append(publications, Planned(reqs[r]))
  /\ reqs' = [reqs EXCEPT ![r].pc = "put", ![r].own = Len(publications) + 1]
  /\ UNCHANGED <<template, objects, active, log>>

(* Slip: one attempt too many. *)
BugOneMoreTry(r) ==
  reqs' = [reqs EXCEPT ![r] =
             IF ~Edits(reqs[r]) /\ reqs[r].tries <= Retries
             THEN [reqs[r] EXCEPT !.pc = "read", !.base = 0, !.own = 0,
                                  !.tries = reqs[r].tries + 1]
             ELSE Answered("conflict")]

(* A regeneration that met a conflict refreshes its tree and starts again;  *)
(* everybody else is told.                                                  *)
Conflict(r) ==
  reqs' = [reqs EXCEPT ![r] =
             IF ~Edits(reqs[r]) /\ reqs[r].tries < Retries
             THEN [reqs[r] EXCEPT !.pc = "read", !.base = 0, !.own = 0,
                                  !.tries = reqs[r].tries + 1]
             ELSE Answered("conflict")]

(* The pointer is swapped if it still has the ETag the request pinned.  A   *)
(* put whose answer is lost is retried by the SDK, and the retry meets the  *)
(* pointer it has itself written: the request takes that for a conflict.    *)
Swap(r) ==
  LET q == reqs[r]
  IN  /\ q.pc = "put"
      /\ \/ /\ PointerUnchanged(q)
            /\ active' = q.own
            /\ log' = Append(log, q.own)
            /\ \/ reqs' = [reqs EXCEPT ![r] = Answered("ok")]
               \/ Conflict(r)
         \/ /\ ~PointerUnchanged(q)
            /\ Conflict(r)
            /\ UNCHANGED <<active, log>>
      /\ UNCHANGED <<template, objects, publications>>

(* The bucket as a deployment seeds it: one publication, its pages rendered. *)
KnowledgeInit ==
  /\ template = 1
  /\ \E docs \in Trees :
       /\ publications = <<[parent |-> 0, docs |-> docs, view |-> 1, index |-> docs]>>
       /\ objects = Payloads([docs |-> docs, view |-> 1, index |-> docs])
  /\ active = 1
  /\ log = <<1>>
  /\ reqs = [r \in Requests |-> Idle]

Publishing(r) ==
  \/ Open(r) \/ OpenRegeneration(r) \/ SaveTemplate(r) \/ ReadTemplates(r)
  \/ Pin(r) \/ Store(r) \/ Put(r) \/ Swap(r)

KnowledgeNext == \E r \in Requests : Publishing(r)

KnowledgeSpec == KnowledgeInit /\ [][KnowledgeNext]_knowledgeVars

-----------------------------------------------------------------------------
(* Types of the bucket's contents and of the requests. *)
KnowledgeTypeOK ==
  /\ template \in Versions
  /\ publications \in Seq(Publications)
  /\ Len(publications) \in Revisions
  /\ active \in DOMAIN publications
  /\ log \in Seq(Revisions)
  /\ reqs \in [Requests -> RequestStates]

(* Walking the parents from the active publication meets exactly the        *)
(* revisions that have been active, in their order: no publication loses    *)
(* its place in the history, and none that lost the swap gets one.          *)
LinearHistory ==
  /\ log # <<>> /\ active = log[Len(log)]
  /\ \A i \in DOMAIN log :
       /\ log[i] \in DOMAIN publications
       /\ publications[log[i]].parent = IF i = 1 THEN 0 ELSE log[i - 1]

(* Whatever history, restore or a backup can reach has its payloads in the  *)
(* bucket, also while another request is between its uploads and its swap.  *)
PublishedIsReadable ==
  \A i \in DOMAIN log : Payloads(publications[log[i]]) \subseteq objects

(* A client's edit lists the Templates before it pins, so its pages may be  *)
(* rendered from an old Template; the revision it expects keeps it from     *)
(* taking the view back to a version older than the one on display.         *)
EditsNeverRegress ==
  [][\A r \in Requests :
       /\ active' # active
       /\ reqs[r].kind = "edit"
       /\ reqs[r].pc = "put"
       /\ reqs'[r].pc = "done"
       => publications[active].view <= publications[active'].view]_knowledgeVars

(* The bucket implements one growing history in which every publication is  *)
(* one change away from the publication before it: no update is lost.       *)
Shown == [i \in DOMAIN log |-> [docs |-> publications[log[i]].docs,
                                view |-> publications[log[i]].view,
                                index |-> publications[log[i]].index]]
Log == INSTANCE PublicationLog WITH log <- Shown
ImplementsLog == Log!Spec

(* What routes/templates.ts:143 says of a Template write: with every        *)
(* request answered and none refused, the view on display describes the     *)
(* Template as it stands.                                                   *)
ViewsAreCurrent ==
  (\A r \in Requests : reqs[r].pc = "idle" \/ reqs[r].answer = "ok")
    => publications[active].view = template
=============================================================================
