--------------------------- MODULE KnowledgeProofs ---------------------------
(***************************************************************************)
(* Proofs about publishing and its backup, for any documents, requests,    *)
(* workers, retries and bounds.                                            *)
(***************************************************************************)
EXTENDS KnowledgeBackup, TLAPS

-----------------------------------------------------------------------------
(* The inductive invariant of publishing.                                   *)

(* A publication is younger than its parent and renders no Template that    *)
(* was not saved yet; its payloads were put before it.                      *)
SoundPublications ==
  \A p \in DOMAIN publications :
    /\ publications[p].parent < p
    /\ publications[p].view <= template
    /\ Payloads(publications[p]) \subseteq objects

(* The revisions that were active are in the order of their puts. *)
LogIncreases ==
  \A i, j \in DOMAIN log : i < j => log[i] < log[j]

(* The change of a request fits the tree it pinned. *)
Legal(q) ==
  LET docs == publications[q.base].docs
      c == q.change
  IN  /\ c.op = "delete" => docs[c.doc] # Absent
      /\ c.op = "rename" => docs[c.from] # Absent /\ docs[c.doc] = Absent
      /\ c.op = "restore" => publications[c.revision].docs[c.doc] # Absent

SoundRequest(q) ==
  /\ q.change # NoChange => q.change \in Changes
  /\ q.pc \in {"open", "read", "pinned", "stored", "put"} =>
       /\ q.change # NoChange /\ q.change.op = "restore"
            => q.change.revision \in DOMAIN publications
       /\ q.kind = "edit" => /\ q.seen \in DOMAIN publications
                             /\ publications[q.seen].view <= template
  /\ q.pc \in {"read", "pinned", "stored", "put"} =>
       /\ q.version \in 1..template
       /\ q.kind = "edit" => publications[q.seen].view <= q.version
  /\ q.pc \in {"pinned", "stored", "put"} => q.base \in DOMAIN publications
  /\ q.pc \in {"stored", "put"} =>
       /\ ExpectationHolds(q)
       /\ Legal(q)
       /\ Payloads(Planned(q)) \subseteq objects
  /\ q.pc = "put" => /\ q.own \in DOMAIN publications
                     /\ publications[q.own] = Planned(q)

SoundRequests ==
  \A r \in Requests, q \in RequestStates : q = reqs[r] => SoundRequest(q)

KInv == /\ KnowledgeTypeOK /\ LinearHistory /\ SoundPublications
        /\ LogIncreases /\ SoundRequests

-----------------------------------------------------------------------------
(* A changed tree is a tree. *)
LEMMA ChangedType ==
  ASSUME KnowledgeTypeOK,
         NEW docs \in Trees, NEW c,
         c = NoChange \/ c \in Changes,
         c # NoChange /\ c.op = "restore" => c.revision \in DOMAIN publications
  PROVE  Changed(docs, c) \in Trees
<1>1. CASE c = NoChange
  BY <1>1 DEF Changed, NoChange
<1>2. CASE c \in [op : {"write", "create"}, doc : Docs, content : Contents]
  BY <1>2 DEF Changed, Trees
<1>3. CASE c \in [op : {"delete"}, doc : Docs]
  BY <1>3 DEF Changed, Trees
<1>4. CASE c \in [op : {"rename"}, doc : Docs, from : Docs]
  BY <1>4 DEF Changed, Trees
<1>5. CASE c \in [op : {"restore"}, doc : Docs, revision : Revisions]
  <2>1. c.op = "restore" /\ c.doc \in Docs /\ c # NoChange
    BY <1>5 DEF NoChange
  <2>2. publications[c.revision] \in Publications
    BY <2>1 DEF KnowledgeTypeOK
  <2>3. publications[c.revision].docs \in Trees
    BY <2>2 DEF Publications
  <2> QED  BY <2>1, <2>3 DEF Changed, Trees
<1> QED  BY <1>1, <1>2, <1>3, <1>4, <1>5 DEF Changes

(* So what a request plans is a publication. *)
LEMMA PlannedType ==
  ASSUME KInv, NEW r \in Requests,
         reqs[r].pc \in {"pinned", "stored", "put"}
  PROVE  Planned(reqs[r]) \in Publications
<1>0. PICK q \in RequestStates : q = reqs[r]
  BY DEF KInv, KnowledgeTypeOK
<1>1. SoundRequest(q)
  BY <1>0 DEF KInv, SoundRequests
<1>2. q.base \in DOMAIN publications /\ q.version \in 1..template
  BY <1>0, <1>1 DEF SoundRequest
<1>3. publications[q.base] \in Publications
  BY <1>2 DEF KInv, KnowledgeTypeOK
<1>4. publications[q.base].docs \in Trees
  BY <1>3 DEF Publications
<1>5. Changed(publications[q.base].docs, q.change) \in Trees
  <2>1. q.change = NoChange \/ q.change \in Changes
    BY <1>0 DEF RequestStates
  <2>2. q.change # NoChange /\ q.change.op = "restore"
          => q.change.revision \in DOMAIN publications
    BY <1>0, <1>1 DEF SoundRequest
  <2> QED  BY <1>4, <2>1, <2>2, ChangedType DEF KInv
<1>6. q.version \in Versions
  BY <1>2, KnowledgeAssumption DEF KInv, KnowledgeTypeOK, Versions
<1>7. q.base \in 0..MaxPublications
  BY DEF RequestStates
<1>8. Planned(q) \in Publications
  BY <1>5, <1>6, <1>7 DEF Planned, Publications
<1> QED  BY <1>0, <1>8

-----------------------------------------------------------------------------
(* The bucket only grows: publications stay what they are. *)
Grows ==
  /\ template <= template'
  /\ objects \subseteq objects'
  /\ \A p \in DOMAIN publications :
       p \in DOMAIN publications' /\ publications'[p] = publications[p]

(* A change reads the same in a bucket that has grown. *)
LEMMA SamePlan ==
  ASSUME KInv, Grows, NEW q, q.base \in DOMAIN publications,
         q.change # NoChange /\ q.change.op = "restore"
           => q.change.revision \in DOMAIN publications
  PROVE  Planned(q)' = Planned(q) /\ Legal(q)' = Legal(q)
<1>1. publications'[q.base] = publications[q.base]
  BY DEF Grows
<1>2. q.change.op = "restore" =>
        publications'[q.change.revision] = publications[q.change.revision]
  <2>1. NoChange.op # "restore"
    BY DEF NoChange
  <2> QED  BY <2>1 DEF Grows
<1>3. Changed(publications[q.base].docs, q.change)'
        = Changed(publications[q.base].docs, q.change)
  BY <1>1, <1>2 DEF Changed
<1>4. Planned(q)' = Planned(q)
  BY <1>3 DEF Planned
<1>5. Legal(q)' = Legal(q)
  BY <1>1, <1>2 DEF Legal
<1> QED  BY <1>4, <1>5

(* A request that did nothing stays sound. *)
LEMMA SoundStays ==
  ASSUME KInv, template' \in Versions, Grows, NEW q \in RequestStates, SoundRequest(q)
  PROVE  SoundRequest(q)'
<1> USE DEF SoundRequest
<1>0. template \in Nat /\ template' \in Nat
  BY KnowledgeAssumption DEF KInv, KnowledgeTypeOK, Versions
<1>1. q.change # NoChange => q.change \in Changes
  OBVIOUS
<1>2. ASSUME q.pc \in {"open", "read", "pinned", "stored", "put"}
      PROVE  /\ q.change # NoChange /\ q.change.op = "restore"
                  => q.change.revision \in DOMAIN publications'
             /\ q.kind = "edit" => /\ q.seen \in DOMAIN publications'
                                   /\ publications'[q.seen].view <= template'
  <2>1. q.change # NoChange /\ q.change.op = "restore"
          => q.change.revision \in DOMAIN publications'
    BY <1>2 DEF Grows
  <2>2. ASSUME q.kind = "edit"
        PROVE  q.seen \in DOMAIN publications' /\ publications'[q.seen].view <= template'
    <3>1. /\ q.seen \in DOMAIN publications
          /\ publications[q.seen].view <= template
          /\ publications'[q.seen] = publications[q.seen]
          /\ q.seen \in DOMAIN publications'
      BY <1>2, <2>2 DEF Grows
    <3>2. publications[q.seen] \in Publications
      BY <3>1 DEF KInv, KnowledgeTypeOK
    <3>3. publications[q.seen].view \in Nat
      BY <3>2, KnowledgeAssumption DEF Publications, Versions
    <3> QED  BY <1>0, <3>1, <3>3 DEF Grows
  <2> QED  BY <2>1, <2>2
<1>3. ASSUME q.pc \in {"read", "pinned", "stored", "put"}
      PROVE  /\ q.version \in 1..template'
             /\ q.kind = "edit" => publications'[q.seen].view <= q.version
  <2>1. q.version \in 1..template'
    BY <1>0, <1>3 DEF Grows
  <2>2. q.kind = "edit" => q.seen \in DOMAIN publications
    BY <1>3
  <2> QED  BY <1>3, <2>1, <2>2 DEF Grows
<1>4. q.pc \in {"pinned", "stored", "put"} => q.base \in DOMAIN publications'
  BY DEF Grows
<1>5. ASSUME q.pc \in {"stored", "put"}
      PROVE  ExpectationHolds(q)' /\ Legal(q)' /\ (Payloads(Planned(q)) \subseteq objects)'
  <2>1. Planned(q)' = Planned(q) /\ Legal(q)' = Legal(q)
    BY <1>5, SamePlan
  <2>2. Payloads(Planned(q)) = Payloads(Planned(q))'
    BY <2>1 DEF Payloads
  <2> QED  BY <1>5, <2>1, <2>2 DEF Grows, ExpectationHolds
<1>6. ASSUME q.pc = "put"
      PROVE  q.own \in DOMAIN publications' /\ publications'[q.own] = Planned(q)'
  <2>1. Planned(q)' = Planned(q)
    BY <1>6, SamePlan
  <2> QED  BY <1>6, <2>1 DEF Grows
<1> QED  BY <1>1, <1>2, <1>3, <1>4, <1>5, <1>6

(* What a step of one request has to show. *)
LEMMA OneRequest ==
  ASSUME KInv, Grows, template' \in Versions,
         publications' \in Seq(Publications), Len(publications') \in Revisions,
         active' \in DOMAIN publications', log' \in Seq(Revisions),
         LinearHistory', SoundPublications', LogIncreases',
         NEW r \in Requests, NEW s \in RequestStates,
         reqs' = [reqs EXCEPT ![r] = s], SoundRequest(s)'
  PROVE  KInv'
<1>1. reqs \in [Requests -> RequestStates]
  BY DEF KInv, KnowledgeTypeOK
<1>2. KnowledgeTypeOK'
  BY <1>1 DEF KnowledgeTypeOK
<1>3. ASSUME NEW p \in Requests, NEW q \in RequestStates, q = reqs'[p]
      PROVE  SoundRequest(q)'
  <2>1. CASE p = r
    BY <1>1, <1>3, <2>1
  <2>2. CASE p # r
    <3>1. q = reqs[p]
      BY <1>1, <1>3, <2>2
    <3>2. SoundRequest(q)
      BY <3>1 DEF KInv, SoundRequests
    <3> QED  BY <3>2, SoundStays
  <2> QED  BY <2>1, <2>2
<1> QED  BY <1>2, <1>3 DEF KInv, SoundRequests

(* A step that leaves the publications, the pointer and the Template alone. *)
LEMMA QuietStep ==
  ASSUME KInv, UNCHANGED <<template, publications, active, log>>,
         objects \subseteq objects',
         NEW r \in Requests, NEW s \in RequestStates,
         reqs' = [reqs EXCEPT ![r] = s], SoundRequest(s)'
  PROVE  KInv'
<1>1. Grows
  BY KnowledgeAssumption DEF Grows, KInv, KnowledgeTypeOK, Versions
<1>2. LinearHistory' /\ LogIncreases'
  BY DEF KInv, LinearHistory, LogIncreases
<1>3. SoundPublications'
  BY DEF KInv, SoundPublications, Payloads
<1> QED  BY <1>1, <1>2, <1>3, OneRequest DEF KInv, KnowledgeTypeOK

(* And the same with a request that is sound before the step. *)
LEMMA QuietRequest ==
  ASSUME KInv, UNCHANGED <<template, publications, active, log, objects>>,
         NEW r \in Requests, NEW s \in RequestStates,
         reqs' = [reqs EXCEPT ![r] = s], SoundRequest(s)
  PROVE  KInv'
<1>1. Grows
  BY KnowledgeAssumption DEF Grows, KInv, KnowledgeTypeOK, Versions
<1>2. SoundRequest(s)'
  BY <1>1, SoundStays DEF KInv, KnowledgeTypeOK
<1> QED  BY <1>2, QuietStep

(* A request that has ended, or was never sent. *)
LEMMA EndedIsSound ==
  ASSUME NEW a \in {"none", "ok", "conflict", "refused"}
  PROVE  /\ Answered(a) \in RequestStates
         /\ SoundRequest(Answered(a))
         /\ Idle \in RequestStates
         /\ SoundRequest(Idle)
<1>1. Answered(a) = [pc |-> "done", kind |-> "edit", change |-> NoChange, seen |-> 0,
                     version |-> 0, base |-> 0, own |-> 0, tries |-> 0, answer |-> a]
  BY DEF Answered, Request
<1>2. Answered(a) \in RequestStates /\ Idle \in RequestStates
  BY <1>1, KnowledgeAssumption DEF RequestStates, Idle, Request, Kinds
<1>3. SoundRequest(Answered(a)) /\ SoundRequest(Idle)
  BY <1>1 DEF SoundRequest, Idle, Request
<1> QED  BY <1>2, <1>3

-----------------------------------------------------------------------------
(* The steps. *)

LEMMA OpenStep ==
  ASSUME KInv, NEW r \in Requests, Open(r) \/ OpenRegeneration(r)
  PROVE  KInv'
<1> USE DEF KInv, KnowledgeTypeOK
<1>0. active \in DOMAIN publications /\ active \in 0..MaxPublications
      /\ publications[active].view <= template
  BY KnowledgeAssumption DEF SoundPublications, Revisions
<1>1. ASSUME NEW c \in Changes, c.op = "restore" => c.revision \in DOMAIN publications,
             reqs' = [reqs EXCEPT ![r] = Request("open", "edit", c, active, 0, "none")],
             Open(r)
      PROVE  KInv'
  <2>1. PICK s : s = [pc |-> "open", kind |-> "edit", change |-> c, seen |-> active,
                      version |-> 0, base |-> 0, own |-> 0, tries |-> 0, answer |-> "none"]
    OBVIOUS
  <2>2. reqs' = [reqs EXCEPT ![r] = s]
    BY <1>1, <2>1 DEF Request
  <2>3. s \in RequestStates
    BY <1>0, <2>1, KnowledgeAssumption DEF RequestStates, Kinds
  <2>4. SoundRequest(s)
    BY <1>0, <1>1, <2>1 DEF SoundRequest
  <2> QED  BY <1>1, <2>2, <2>3, <2>4, QuietRequest DEF Open
<1>2. ASSUME NEW c \in Changes, c.op = "write",
             reqs' = [reqs EXCEPT ![r] = Request("open", "status", c, 0, 0, "none")],
             Open(r)
      PROVE  KInv'
  <2>1. PICK s : s = [pc |-> "open", kind |-> "status", change |-> c, seen |-> 0,
                      version |-> 0, base |-> 0, own |-> 0, tries |-> 0, answer |-> "none"]
    OBVIOUS
  <2>2. reqs' = [reqs EXCEPT ![r] = s]
    BY <1>2, <2>1 DEF Request
  <2>3. s \in RequestStates
    BY <2>1, KnowledgeAssumption DEF RequestStates, Kinds
  <2>4. SoundRequest(s)
    BY <1>2, <2>1 DEF SoundRequest
  <2> QED  BY <1>2, <2>2, <2>3, <2>4, QuietRequest DEF Open
<1>3. CASE OpenRegeneration(r)
  <2>1. PICK s : s = [pc |-> "open", kind |-> "regenerate", change |-> NoChange, seen |-> 0,
                      version |-> 0, base |-> 0, own |-> 0, tries |-> 0, answer |-> "none"]
    OBVIOUS
  <2>2. reqs' = [reqs EXCEPT ![r] = s]
    BY <1>3, <2>1 DEF Request, OpenRegeneration
  <2>3. s \in RequestStates
    BY <2>1, KnowledgeAssumption DEF RequestStates, Kinds
  <2>4. SoundRequest(s)
    BY <2>1 DEF SoundRequest
  <2> QED  BY <1>3, <2>2, <2>3, <2>4, QuietRequest DEF OpenRegeneration
<1> QED  BY <1>1, <1>2, <1>3 DEF Open

LEMMA SaveStep ==
  ASSUME KInv, NEW r \in Requests, SaveTemplate(r)
  PROVE  KInv'
<1> USE DEF KInv, KnowledgeTypeOK
<1>1. PICK s : s = [pc |-> "read", kind |-> "template", change |-> NoChange, seen |-> 0,
                    version |-> template + 1, base |-> 0, own |-> 0, tries |-> 0,
                    answer |-> "none"]
  OBVIOUS
<1>2. reqs' = [reqs EXCEPT ![r] = s]
  BY <1>1 DEF SaveTemplate, Request
<1>3. template' = template + 1 /\ template' \in Versions /\ template' \in 0..MaxVersion
  BY KnowledgeAssumption DEF SaveTemplate, Versions
<1>4. Grows
  BY <1>3, KnowledgeAssumption DEF Grows, SaveTemplate, Versions
<1>5. s \in RequestStates
  BY <1>1, <1>3, KnowledgeAssumption DEF RequestStates, Kinds, SaveTemplate
<1>6. s.version \in 1..template'
  BY <1>1, <1>3, KnowledgeAssumption DEF Versions
<1>7. SoundRequest(s)'
  BY <1>1, <1>6 DEF SoundRequest
<1>8. LinearHistory' /\ LogIncreases'
  BY DEF SaveTemplate, LinearHistory, LogIncreases
<1>9. ASSUME NEW p \in DOMAIN publications
      PROVE  publications[p].view <= template'
  <2>1. publications[p] \in Publications
    OBVIOUS
  <2>2. publications[p].view \in Nat /\ template \in Nat /\ publications[p].view <= template
    BY <2>1, KnowledgeAssumption DEF Publications, Versions, SoundPublications
  <2> QED  BY <1>3, <2>2
<1>10. SoundPublications'
  BY <1>9 DEF SaveTemplate, SoundPublications, Payloads
<1> QED  BY <1>2, <1>3, <1>4, <1>5, <1>7, <1>8, <1>10, OneRequest DEF SaveTemplate

LEMMA ReadStep ==
  ASSUME KInv, NEW r \in Requests, ReadTemplates(r) \/ Pin(r)
  PROVE  KInv'
<1> USE DEF KInv, KnowledgeTypeOK
<1>0. PICK q \in RequestStates : q = reqs[r]
  OBVIOUS
<1>1. SoundRequest(q)
  BY <1>0 DEF SoundRequests
<1>2. CASE ReadTemplates(r)
  <2>1. PICK s : s = [q EXCEPT !.pc = "read", !.version = template]
    OBVIOUS
  <2>2. reqs' = [reqs EXCEPT ![r] = s]
    BY <1>0, <1>2, <2>1 DEF ReadTemplates
  <2>3. template \in 0..MaxVersion
    BY KnowledgeAssumption DEF Versions
  <2>6. s \in RequestStates
    BY <2>1, <2>3 DEF RequestStates
  <2>4. s.version \in 1..template
    BY <2>1, KnowledgeAssumption DEF Versions, RequestStates
  <2>5. SoundRequest(s)
    BY <1>0, <1>1, <1>2, <2>1, <2>4 DEF SoundRequest, ReadTemplates, RequestStates
  <2> QED  BY <1>2, <2>2, <2>5, <2>6, QuietRequest DEF ReadTemplates
<1>3. CASE Pin(r)
  <2>1. PICK s : s = [q EXCEPT !.pc = "pinned", !.base = active]
    OBVIOUS
  <2>2. reqs' = [reqs EXCEPT ![r] = s]
    BY <1>0, <1>3, <2>1 DEF Pin
  <2>3. active \in 0..MaxPublications
    BY KnowledgeAssumption DEF Revisions
  <2>4. s \in RequestStates
    BY <2>1, <2>3 DEF RequestStates
  <2>5. SoundRequest(s)
    BY <1>0, <1>1, <1>3, <2>1 DEF SoundRequest, Pin, RequestStates
  <2> QED  BY <1>3, <2>2, <2>4, <2>5, QuietRequest DEF Pin
<1> QED  BY <1>2, <1>3

(* What a plan names and the bucket lacks is uploaded. *)
LEMMA UploadsSuffice ==
  ASSUME KInv, NEW q \in RequestStates, SoundRequest(q), q.pc = "pinned", Legal(q)
  PROVE  Payloads(Planned(q)) \subseteq objects \cup Uploads(q)
<1> DEFINE p == publications[q.base]
           docs == Changed(p.docs, q.change)
<1>1. /\ q.base \in DOMAIN publications
      /\ q.change # NoChange /\ q.change.op = "restore"
           => q.change.revision \in DOMAIN publications
      /\ q.change = NoChange \/ q.change \in Changes
  BY DEF SoundRequest, RequestStates
<1>2. p \in Publications /\ Payloads(p) \subseteq objects
  BY <1>1 DEF KInv, KnowledgeTypeOK, SoundPublications
<1>3. p.docs \in Trees
  BY <1>2 DEF Publications
<1>4. ASSUME NEW d \in Docs, docs[d] # Absent
      PROVE  <<"document", docs[d]>> \in objects \cup Uploads(q)
  <2>1. CASE docs[d] = p.docs[d]
    BY <1>2, <1>4, <2>1 DEF Payloads
  <2>2. CASE q.change = NoChange
    BY <2>1, <2>2 DEF Changed, NoChange
  <2>3. CASE q.change \in [op : {"write", "create"}, doc : Docs, content : Contents]
    <3>1. CASE d = q.change.doc
      <4>1. docs[d] = q.change.content
        BY <1>3, <2>3, <3>1 DEF Changed, Trees
      <4> QED  BY <2>3, <4>1 DEF Uploads
    <3>2. CASE d # q.change.doc
      BY <1>3, <2>1, <2>3, <3>2 DEF Changed, Trees
    <3> QED  BY <3>1, <3>2
  <2>4. CASE q.change \in [op : {"delete"}, doc : Docs]
    <3>1. d # q.change.doc
      BY <1>3, <1>4, <2>4 DEF Changed, Trees
    <3> QED  BY <1>3, <2>1, <2>4, <3>1 DEF Changed, Trees
  <2>5. CASE q.change \in [op : {"rename"}, doc : Docs, from : Docs]
    <3>1. docs = [p.docs EXCEPT ![q.change.doc] = p.docs[q.change.from],
                                ![q.change.from] = Absent]
      BY <2>5 DEF Changed
    <3>2. docs[d] = p.docs[d] \/ docs[d] = p.docs[q.change.from]
      BY <1>3, <1>4, <2>5, <3>1 DEF Trees
    <3>3. CASE docs[d] = p.docs[q.change.from]
      BY <1>2, <1>4, <2>5, <3>3 DEF Payloads
    <3> QED  BY <2>1, <3>2, <3>3
  <2>6. CASE q.change \in [op : {"restore"}, doc : Docs, revision : Revisions]
    <3>1. q.change # NoChange /\ q.change.op = "restore"
      BY <2>6 DEF NoChange
    <3>2. /\ publications[q.change.revision].docs[q.change.doc] # Absent
          /\ Payloads(publications[q.change.revision]) \subseteq objects
      BY <1>1, <3>1 DEF Legal, KInv, SoundPublications
    <3>3. CASE d = q.change.doc
      <4>1. docs[d] = publications[q.change.revision].docs[q.change.doc]
        BY <1>3, <2>6, <3>1, <3>3 DEF Changed, Trees
      <4> QED  BY <2>6, <3>2, <4>1 DEF Payloads
    <3>4. CASE d # q.change.doc
      BY <1>3, <2>1, <2>6, <3>1, <3>4 DEF Changed, Trees
    <3> QED  BY <3>3, <3>4
  <2> QED  BY <1>1, <2>2, <2>3, <2>4, <2>5, <2>6 DEF Changes
<1>5. <<"view", p.view>> \in objects /\ <<"index", p.index>> \in objects
  BY <1>2 DEF Payloads
<1>6. {<<"view", Planned(q).view>>, <<"index", Planned(q).index>>}
        \subseteq objects \cup Uploads(q)
  <2> DEFINE new == {<<"view", Planned(q).view>>, <<"index", Planned(q).index>>}
             old == {<<"view", p.view>>, <<"index", p.index>>}
  <2>1. new \ old \subseteq Uploads(q)
    BY DEF Uploads
  <2>2. old \subseteq objects
    BY <1>5
  <2> HIDE DEF new, old
  <2>3. new \subseteq objects \cup Uploads(q)
    BY <2>1, <2>2
  <2> QED  BY <2>3 DEF new
<1>7. Planned(q).docs = docs
  BY DEF Planned
<1> HIDE DEF docs
<1>8. Payloads(Planned(q)) =
        {<<"document", docs[d]>> : d \in {x \in Docs : docs[x] # Absent}}
          \cup {<<"view", Planned(q).view>>, <<"index", Planned(q).index>>}
  BY <1>7 DEF Payloads
<1> QED  BY <1>4, <1>6, <1>8

LEMMA StoreStep ==
  ASSUME KInv, NEW r \in Requests, Store(r)
  PROVE  KInv'
<1>0. PICK q \in RequestStates : q = reqs[r]
  BY DEF KInv, KnowledgeTypeOK
<1>1. SoundRequest(q) /\ q.pc = "pinned"
  BY <1>0 DEF KInv, SoundRequests, Store
<1>2. ASSUME NEW a \in {"ok", "conflict", "refused"},
             reqs' = [reqs EXCEPT ![r] = Answered(a)],
             UNCHANGED objects
      PROVE  KInv'
  <2>1. PICK s : s = Answered(a)
    OBVIOUS
  <2>2. s \in RequestStates /\ SoundRequest(s)
    BY <2>1, EndedIsSound
  <2> QED  BY <1>2, <2>1, <2>2, QuietRequest DEF Store
<1>3. ASSUME ExpectationHolds(q), Applies(q), objects' = objects \cup Uploads(q),
             reqs' = [reqs EXCEPT ![r].pc = "stored"]
      PROVE  KInv'
  <2>1. PICK s : s = [q EXCEPT !.pc = "stored"]
    OBVIOUS
  <2>2. reqs' = [reqs EXCEPT ![r] = s] /\ s \in RequestStates
    BY <1>0, <1>3, <2>1 DEF RequestStates
  <2>3. Legal(q)
    BY <1>3 DEF Applies, Legal
  <2>4. Payloads(Planned(q)) \subseteq objects'
    BY <1>1, <1>3, <2>3, UploadsSuffice
  <2>5. UNCHANGED <<template, publications, active, log>>
    BY DEF Store
  <2>6. /\ s.base = q.base /\ s.change = q.change /\ s.version = q.version
        /\ s.kind = q.kind /\ s.seen = q.seen /\ s.pc = "stored"
    BY <2>1 DEF RequestStates
  <2>7. Planned(s)' = Planned(q) /\ Legal(s)' = Legal(q)
    BY <2>5, <2>6 DEF Planned, Legal, Changed
  <2>8. (Payloads(Planned(s)) \subseteq objects)'
    BY <2>4, <2>7 DEF Payloads
  <2>9. SoundRequest(s)'
    BY <1>1, <1>3, <2>3, <2>5, <2>6, <2>7, <2>8 DEF SoundRequest, ExpectationHolds
  <2> QED  BY <1>3, <2>2, <2>5, <2>9, QuietStep
<1> QED  BY <1>0, <1>2, <1>3 DEF Store

LEMMA PutStep ==
  ASSUME KInv, NEW r \in Requests, Put(r)
  PROVE  KInv'
<1> USE DEF KInv, KnowledgeTypeOK
<1> DEFINE n == Len(publications) + 1
<1>0. PICK q \in RequestStates : q = reqs[r]
  OBVIOUS
<1>1. /\ SoundRequest(q) /\ q.pc = "stored"
      /\ q.base \in DOMAIN publications /\ q.version \in 1..template
      /\ Payloads(Planned(q)) \subseteq objects
  BY <1>0 DEF SoundRequests, Put, SoundRequest
<1>2. Planned(q) \in Publications
  BY <1>0, <1>1, PlannedType
<1>3. /\ publications' = Append(publications, Planned(q))
      /\ UNCHANGED <<template, objects, active, log>>
      /\ n \in Revisions
  BY <1>0, KnowledgeAssumption DEF Put, Revisions
<1>4. /\ publications' \in Seq(Publications) /\ Len(publications') = n
      /\ DOMAIN publications' = 1..n /\ DOMAIN publications = 1..Len(publications)
      /\ publications'[n] = Planned(q)
      /\ \A p \in DOMAIN publications : publications'[p] = publications[p]
  BY <1>2, <1>3
<1>5. Grows
  BY <1>3, <1>4, KnowledgeAssumption DEF Grows, Versions
<1>6. PICK s : s = [q EXCEPT !.pc = "put", !.own = n]
  OBVIOUS
<1>7. /\ reqs' = [reqs EXCEPT ![r] = s]
      /\ s.base = q.base /\ s.change = q.change /\ s.version = q.version
      /\ s.kind = q.kind /\ s.seen = q.seen /\ s.pc = "put" /\ s.own = n
  BY <1>0, <1>6 DEF Put, RequestStates
<1>8. s \in RequestStates
  <2>1. n \in 0..MaxPublications
    BY <1>3 DEF Revisions
  <2> QED  BY <1>6, <2>1 DEF RequestStates
<1>9. SoundRequest(q)'
  BY <1>1, <1>3, <1>5, SoundStays
<1>10. Planned(q)' = Planned(q)
  BY <1>1, <1>5, SamePlan DEF SoundRequest
<1>11. Planned(s)' = Planned(q)' /\ Legal(s)' = Legal(q)'
  BY <1>7 DEF Planned, Legal, Changed
<1>12. Payloads(Planned(s))' = Payloads(Planned(q))'
  BY <1>11 DEF Payloads
<1>13. SoundRequest(s)'
  BY <1>1, <1>4, <1>7, <1>9, <1>10, <1>11, <1>12 DEF SoundRequest, ExpectationHolds
<1>14. LinearHistory' /\ LogIncreases' /\ active' \in DOMAIN publications'
  BY <1>3, <1>4 DEF LinearHistory, LogIncreases
<1>15. ASSUME NEW p \in DOMAIN publications'
       PROVE  /\ publications'[p].parent < p
              /\ publications'[p].view <= template
              /\ Payloads(publications'[p]) \subseteq objects
  <2>1. CASE p \in DOMAIN publications
    <3>1. publications'[p] = publications[p]
      BY <1>4, <2>1
    <3> QED  BY <2>1, <3>1 DEF SoundPublications
  <2>2. CASE p = n
    <3>1. publications'[p] = Planned(q) /\ q.base \in 1..Len(publications)
      BY <1>1, <1>4, <2>2
    <3>2. Planned(q).parent = q.base /\ Planned(q).view = q.version
      BY DEF Planned
    <3>3. q.version <= template
      BY <1>1, KnowledgeAssumption DEF Versions
    <3> QED  BY <1>1, <2>2, <3>1, <3>2, <3>3
  <2> QED  BY <1>4, <2>1, <2>2
<1>16. SoundPublications'
  BY <1>3, <1>15 DEF SoundPublications, Payloads
<1> QED  BY <1>3, <1>4, <1>5, <1>7, <1>8, <1>13, <1>14, <1>16, OneRequest

(* A successful swap: the planned publication follows the active one. *)
LEMMA SwapFacts ==
  ASSUME KInv, NEW r \in Requests, Swap(r), reqs[r].base = active
  PROVE  /\ reqs[r].own \in DOMAIN publications
         /\ publications[reqs[r].own] = Planned(reqs[r])
         /\ active < reqs[r].own
         /\ publications[reqs[r].own].parent = active
<1> USE DEF KInv, KnowledgeTypeOK
<1>0. PICK q \in RequestStates : q = reqs[r]
  OBVIOUS
<1>1. /\ q.own \in DOMAIN publications
      /\ publications[q.own] = Planned(q)
      /\ q.base \in DOMAIN publications
  BY <1>0 DEF SoundRequests, SoundRequest, Swap
<1>2. publications[q.own].parent = q.base
  BY <1>1 DEF Planned
<1>3. publications[q.own].parent < q.own
  BY <1>1 DEF SoundPublications
<1> QED  BY <1>0, <1>1, <1>2, <1>3

LEMMA SwapStep ==
  ASSUME KInv, NEW r \in Requests, Swap(r)
  PROVE  KInv'
<1> USE DEF KInv, KnowledgeTypeOK
<1>0. PICK q \in RequestStates : q = reqs[r]
  OBVIOUS
<1>1. SoundRequest(q) /\ q.pc = "put"
  BY <1>0 DEF SoundRequests, Swap
<1>2. UNCHANGED <<template, objects, publications>>
  BY DEF Swap
<1>3. Grows
  BY <1>2, KnowledgeAssumption DEF Grows, Versions
<1>4. PICK s : /\ reqs' = [reqs EXCEPT ![r] = s]
               /\ \/ s = Answered("ok") \/ s = Answered("conflict")
                  \/ /\ ~Edits(q) /\ q.tries < Retries
                     /\ s = [q EXCEPT !.pc = "read", !.base = 0, !.own = 0,
                                      !.tries = q.tries + 1]
  BY <1>0 DEF Swap, Conflict
<1>5. s \in RequestStates /\ SoundRequest(s)
  <2>1. CASE s = Answered("ok") \/ s = Answered("conflict")
    BY <2>1, EndedIsSound
  <2>2. CASE /\ ~Edits(q) /\ q.tries < Retries
             /\ s = [q EXCEPT !.pc = "read", !.base = 0, !.own = 0,
                              !.tries = q.tries + 1]
    <3>1. q.tries + 1 \in 0..Retries /\ 0 \in 0..MaxPublications
      BY <2>2, KnowledgeAssumption, SMTT(30) DEF RequestStates
    <3>2. s = [pc |-> "read", kind |-> q.kind, change |-> q.change, seen |-> q.seen,
               version |-> q.version, base |-> 0, own |-> 0, tries |-> q.tries + 1,
               answer |-> q.answer]
      BY <2>2 DEF RequestStates
    <3>3. s \in RequestStates
      BY <3>1, <3>2 DEF RequestStates
    <3>4. SoundRequest(s)
      BY <1>1, <3>2 DEF SoundRequest
    <3> QED  BY <3>3, <3>4
  <2> QED  BY <1>4, <2>1, <2>2
<1>6. SoundRequest(s)'
  BY <1>2, <1>3, <1>5, SoundStays
<1>7. SoundPublications'
  BY <1>2 DEF SoundPublications, Payloads
<1>8. CASE UNCHANGED <<active, log>>
  <2>1. LinearHistory' /\ LogIncreases'
    BY <1>2, <1>8 DEF LinearHistory, LogIncreases
  <2> QED  BY <1>2, <1>3, <1>4, <1>5, <1>6, <1>7, <1>8, <2>1, OneRequest
<1>9. CASE PointerUnchanged(q) /\ active' = q.own /\ log' = Append(log, q.own)
  <2>1. /\ q.own \in DOMAIN publications
        /\ active < q.own
        /\ publications[q.own].parent = active
    BY <1>0, <1>9, SwapFacts DEF PointerUnchanged
  <2>2. /\ log' \in Seq(Revisions) /\ Len(log') = Len(log) + 1
        /\ DOMAIN log' = 1..(Len(log) + 1) /\ DOMAIN log = 1..Len(log)
        /\ log'[Len(log) + 1] = q.own
        /\ \A i \in DOMAIN log : log'[i] = log[i]
    BY <1>9, <2>1, KnowledgeAssumption DEF Revisions
  <2>3. Len(log) \in Nat \ {0} /\ active = log[Len(log)]
    BY DEF LinearHistory
  <2>4. ASSUME NEW i \in DOMAIN log'
        PROVE  /\ log'[i] \in DOMAIN publications
               /\ publications[log'[i]].parent = IF i = 1 THEN 0 ELSE log'[i - 1]
    <3>1. CASE i \in DOMAIN log
      <4>1. log'[i] = log[i] /\ (i # 1 => log'[i - 1] = log[i - 1])
        BY <2>2, <2>3, <3>1
      <4> QED  BY <3>1, <4>1 DEF LinearHistory
    <3>2. CASE i = Len(log) + 1
      <4>1. log'[i] = q.own /\ i # 1 /\ log'[i - 1] = active
        BY <2>2, <2>3, <3>2
      <4> QED  BY <2>1, <4>1
    <3> QED  BY <2>2, <3>1, <3>2
  <2>5. LinearHistory'
    BY <1>2, <1>9, <2>2, <2>3, <2>4 DEF LinearHistory
  <2>6. ASSUME NEW i \in DOMAIN log', NEW j \in DOMAIN log', i < j
        PROVE  log'[i] < log'[j]
    <3>0. \A k \in DOMAIN log : log[k] \in Nat /\ k \in Nat
      <4>1. \A k \in DOMAIN log : log[k] \in Revisions
        OBVIOUS
      <4> QED  BY <2>2, <2>3, <4>1, KnowledgeAssumption, SMTT(30) DEF Revisions
    <3>1. i \in DOMAIN log /\ log'[i] = log[i]
      BY <2>2, <2>3, <2>6
    <3>2. CASE j \in DOMAIN log
      BY <2>2, <2>6, <3>1, <3>2 DEF LogIncreases
    <3>3. CASE j = Len(log) + 1
      <4>1. log[i] <= active
        <5>1. CASE i = Len(log)
          BY <2>3, <3>0, <3>1, <5>1
        <5>2. CASE i # Len(log)
          <6>1. i < Len(log) /\ Len(log) \in DOMAIN log
            BY <2>2, <2>3, <3>0, <3>1, <5>2
          <6>2. log[i] < log[Len(log)]
            BY <3>1, <6>1 DEF LogIncreases
          <6> QED  BY <2>3, <3>0, <3>1, <6>1, <6>2
        <5> QED  BY <5>1, <5>2
      <4>2. q.own \in Nat /\ active \in Nat /\ log[i] \in Nat
        BY <2>1, <3>0, <3>1
      <4> QED  BY <2>1, <2>2, <3>1, <3>3, <4>1, <4>2
    <3> QED  BY <2>2, <3>2, <3>3
  <2>7. LogIncreases'
    BY <2>6 DEF LogIncreases
  <2>8. active' \in DOMAIN publications'
    BY <1>2, <1>9, <2>1
  <2> QED  BY <1>2, <1>3, <1>4, <1>5, <1>6, <1>7, <2>2, <2>5, <2>7, <2>8, OneRequest
<1> QED  BY <1>0, <1>8, <1>9 DEF Swap

LEMMA KnowledgeInitSound == KnowledgeInit => KInv
<1> SUFFICES ASSUME KnowledgeInit PROVE KInv
  OBVIOUS
<1>1. PICK docs \in Trees :
        /\ publications = <<[parent |-> 0, docs |-> docs, view |-> 1, index |-> docs]>>
        /\ objects = Payloads([docs |-> docs, view |-> 1, index |-> docs])
  BY DEF KnowledgeInit
<1> DEFINE p == [parent |-> 0, docs |-> docs, view |-> 1, index |-> docs]
<1>2. p \in Publications /\ 1 \in Revisions /\ 1 \in Versions
  BY KnowledgeAssumption DEF Publications, Revisions, Versions
<1>3. Payloads(p) = objects
  BY <1>1 DEF Payloads
<1>4. /\ publications \in Seq(Publications) /\ Len(publications) = 1
      /\ DOMAIN publications = {1} /\ publications[1] = p /\ p.parent = 0 /\ p.view = 1
  BY <1>1, <1>2
<1>5. /\ log \in Seq(Revisions) /\ Len(log) = 1 /\ DOMAIN log = {1} /\ log[1] = 1
      /\ active = 1 /\ template = 1 /\ log # <<>>
  BY <1>2 DEF KnowledgeInit
<1>6. KnowledgeTypeOK
  BY <1>2, <1>4, <1>5, EndedIsSound DEF KnowledgeTypeOK, KnowledgeInit
<1>7. LinearHistory
  BY <1>4, <1>5 DEF LinearHistory
<1>8. SoundPublications
  BY <1>3, <1>4, <1>5 DEF SoundPublications
<1>9. LogIncreases
  BY <1>5 DEF LogIncreases
<1>10. SoundRequests
  BY EndedIsSound DEF SoundRequests, KnowledgeInit
<1> QED  BY <1>6, <1>7, <1>8, <1>9, <1>10 DEF KInv

LEMMA KnowledgeStepSound == KInv /\ [KnowledgeNext]_knowledgeVars => KInv'
<1>1. ASSUME KInv, UNCHANGED knowledgeVars PROVE KInv'
  <2>1. Grows
    BY <1>1, KnowledgeAssumption DEF Grows, KInv, KnowledgeTypeOK, Versions, knowledgeVars
  <2>2. ASSUME NEW r \in Requests, NEW q \in RequestStates, q = reqs'[r]
        PROVE  SoundRequest(q)'
    <3>1. SoundRequest(q)
      BY <1>1, <2>2 DEF KInv, SoundRequests, knowledgeVars
    <3> QED  BY <1>1, <2>1, <3>1, SoundStays DEF KInv, KnowledgeTypeOK, knowledgeVars
  <2>3. SoundRequests'
    BY <2>2 DEF SoundRequests
  <2>4. (KnowledgeTypeOK /\ LinearHistory /\ SoundPublications /\ LogIncreases)'
    BY <1>1 DEF knowledgeVars, KInv, KnowledgeTypeOK, LinearHistory, SoundPublications,
       LogIncreases, Payloads
  <2> QED  BY <2>3, <2>4 DEF KInv
<1>2. ASSUME KInv, NEW r \in Requests, Publishing(r) PROVE KInv'
  BY <1>2, OpenStep, SaveStep, ReadStep, StoreStep, PutStep, SwapStep DEF Publishing
<1> QED  BY <1>1, <1>2 DEF KnowledgeNext

-----------------------------------------------------------------------------
(* Publishing next to the backup: a step of a worker publishes nothing. *)
LEMMA WorkersPublishNothing == [Next]_vars => [KnowledgeNext]_knowledgeVars
<1>1. ASSUME NEW w \in Workers, Working(w) \/ Renew(w) \/ Crash(w) \/ Expire
      PROVE  UNCHANGED knowledgeVars
  BY <1>1 DEF Working, Start, Take, PinHead, CopyPublication, PutSnapshot,
     RecordSuccess, Abandon, Close, Renew, Crash, Expire
<1>2. Expire => UNCHANGED knowledgeVars
  BY DEF Expire
<1>3. UNCHANGED vars => UNCHANGED knowledgeVars
  BY DEF vars
<1> QED  BY <1>1, <1>2, <1>3 DEF Next

THEOREM PublishingIsSound == Spec => []KInv
<1>1. Init => KInv
  BY KnowledgeInitSound DEF Init
<1>2. KInv /\ [Next]_vars => KInv'
  BY KnowledgeStepSound, WorkersPublishNothing
<1> QED  BY <1>1, <1>2, PTL DEF Spec

(* No publication loses its place in the history and none that lost the     *)
(* swap gets one, whatever requests overlap.                                *)
THEOREM HistoryIsLinear == Spec => []LinearHistory
<1>1. KInv => LinearHistory
  BY DEF KInv
<1> QED  BY <1>1, PublishingIsSound, PTL

(* All that history, restore and backup reach can be read. *)
THEOREM PublishedStaysReadable == Spec => []PublishedIsReadable
<1>1. KInv => PublishedIsReadable
  BY DEF KInv, LinearHistory, SoundPublications, PublishedIsReadable
<1> QED  BY <1>1, PublishingIsSound, PTL

(* An edit that publishes does not put an older view on display. *)
THEOREM EditsKeepTheView == Spec => EditsNeverRegress
<1> DEFINE Kept == \A r \in Requests :
             /\ active' # active
             /\ reqs[r].kind = "edit"
             /\ reqs[r].pc = "put"
             /\ reqs'[r].pc = "done"
             => publications[active].view <= publications[active'].view
<1>1. KInv /\ [KnowledgeNext]_knowledgeVars => Kept
  <2> SUFFICES ASSUME KInv, KnowledgeNext, NEW r \in Requests,
                      active' # active, reqs[r].kind = "edit",
                      reqs[r].pc = "put", reqs'[r].pc = "done"
               PROVE  publications[active].view <= publications[active'].view
    BY DEF knowledgeVars
  <2>1. PICK p \in Requests : Publishing(p)
    BY DEF KnowledgeNext
  <2>2. Swap(p)
    BY <2>1 DEF Publishing, Open, OpenRegeneration, SaveTemplate, ReadTemplates,
       Pin, Store, Put
  <2>3. p = r
    BY <2>2 DEF Swap, Conflict, KInv, KnowledgeTypeOK
  <2>4. active = reqs[r].base /\ active' = reqs[r].own
    BY <2>2, <2>3 DEF Swap, PointerUnchanged
  <2>5. PICK q \in RequestStates : q = reqs[r]
    BY DEF KInv, KnowledgeTypeOK
  <2>6. SoundRequest(q)
    BY <2>5 DEF KInv, SoundRequests
  <2>7. /\ q.seen = q.base
        /\ publications[q.seen].view <= q.version
        /\ publications[q.own] = Planned(q)
    BY <2>5, <2>6 DEF SoundRequest, ExpectationHolds
  <2>8. publications[q.own].view = q.version
    BY <2>7 DEF Planned
  <2> QED  BY <2>4, <2>5, <2>7, <2>8
<1>2. KInv /\ [Next]_vars => [Kept]_knowledgeVars
  BY <1>1, WorkersPublishNothing
<1> QED  BY <1>2, PublishingIsSound, PTL DEF Spec, EditsNeverRegress

(* Publishing implements the abstract log: each publication shown is one    *)
(* change away from the one before it, so no update is lost.                *)
THEOREM PublishingIsALog == Spec => ImplementsLog
<1>1. KnowledgeInit => Log!Init
  <2> SUFFICES ASSUME KnowledgeInit PROVE Log!Init
    OBVIOUS
  <2>1. PICK docs \in Trees :
          publications = <<[parent |-> 0, docs |-> docs, view |-> 1, index |-> docs]>>
    BY DEF KnowledgeInit
  <2>2. Shown = <<[docs |-> docs, view |-> 1, index |-> docs]>>
    BY <2>1 DEF KnowledgeInit, Shown
  <2>3. 1 \in Versions /\ docs \in Log!Trees
    BY KnowledgeAssumption DEF Versions, Trees, Log!Trees
  <2> QED  BY <2>2, <2>3 DEF Log!Init
<1>2. ASSUME KInv, UNCHANGED <<log>>,
             \A p \in DOMAIN publications : publications'[p] = publications[p]
      PROVE  Shown' = Shown
  BY <1>2 DEF KInv, LinearHistory, Shown
<1>3. ASSUME KInv, NEW r \in Requests, Swap(r), log' # log
      PROVE  Log!Next
  <2> USE DEF KInv, KnowledgeTypeOK
  <2>1. PICK q \in RequestStates : q = reqs[r]
    BY <1>3
  <2>2. SoundRequest(q) /\ q.base = active /\ log' = Append(log, q.own)
    BY <1>3, <2>1 DEF SoundRequests, Swap, PointerUnchanged
  <2>3. /\ q.own \in DOMAIN publications /\ publications[q.own] = Planned(q)
        /\ publications' = publications /\ q.pc = "put" /\ Legal(q)
    BY <1>3, <2>1, <2>2, SwapFacts DEF Swap, SoundRequest
  <2>4. Len(log) \in Nat \ {0} /\ active = log[Len(log)] /\ DOMAIN log = 1..Len(log)
        /\ active \in DOMAIN publications
    BY <1>3 DEF LinearHistory
  <2> DEFINE p == publications[active]
             docs == Changed(p.docs, q.change)
             e == [docs |-> docs, view |-> q.version, index |-> docs]
  <2>5. Planned(q) \in Publications
    BY <1>3, <2>1, <2>3, PlannedType
  <2>6. Planned(q).docs = docs /\ Planned(q).index = docs /\ Planned(q).view = q.version
    BY <2>2 DEF Planned
  <2>7. q.version \in Versions /\ docs \in Trees
    BY <2>5, <2>6 DEF Publications
  <2>8. Shown' = Append(Shown, e)
    <3>1. /\ log' \in Seq(Revisions) /\ DOMAIN log' = 1..(Len(log) + 1)
          /\ log'[Len(log) + 1] = q.own /\ \A i \in DOMAIN log : log'[i] = log[i]
      <4>1. q.own \in Revisions
        BY <1>3, <2>3, KnowledgeAssumption DEF Revisions
      <4>2. log \in Seq(Revisions)
        BY <1>3
      <4> QED  BY <2>2, <2>4, <4>1, <4>2
    <3>2. Shown' = [i \in DOMAIN log' |->
                      [docs |-> publications[log'[i]].docs,
                       view |-> publications[log'[i]].view,
                       index |-> publications[log'[i]].index]]
      BY <2>3 DEF Shown
    <3>3. publications[q.own].docs = docs /\ publications[q.own].view = q.version
          /\ publications[q.own].index = docs
      BY <2>3, <2>6
    <3> DEFINE row(i) == [docs |-> publications[log[i]].docs,
                          view |-> publications[log[i]].view,
                          index |-> publications[log[i]].index]
    <3>4. Shown = [i \in 1..Len(log) |-> row(i)]
      BY <2>4 DEF Shown
    <3>5. Shown' = [i \in 1..(Len(log) + 1) |-> IF i = Len(log) + 1 THEN e ELSE row(i)]
      <4>1. \A i \in 1..(Len(log) + 1) :
              i # Len(log) + 1 => log'[i] = log[i]
        BY <2>4, <3>1
      <4> HIDE DEF docs
      <4> QED  BY <3>1, <3>2, <3>3, <4>1
    <3> HIDE DEF row, e
    <3>6. Append([i \in 1..Len(log) |-> row(i)], e)
            = [i \in 1..(Len(log) + 1) |-> IF i = Len(log) + 1 THEN e ELSE row(i)]
      BY <2>4
    <3> QED  BY <3>4, <3>5, <3>6
  <2>9. Log!Last = [docs |-> p.docs, view |-> p.view, index |-> p.index]
    <3>1. Len(Shown) = Len(log)
      BY <2>4 DEF Shown
    <3> QED  BY <2>4, <3>1 DEF Log!Last, Shown
  <2>10. Log!Issue(docs)
    BY <2>7, <2>8 DEF Log!Issue
  <2>11. CASE q.change = NoChange
    <3>1. docs = Log!Last.docs
      BY <2>9, <2>11 DEF Changed, NoChange
    <3> QED  BY <2>10, <3>1 DEF Log!Next
  <2>12. CASE q.change \in [op : {"write", "create"}, doc : Docs, content : Contents]
    <3>1. docs = [Log!Last.docs EXCEPT ![q.change.doc] = q.change.content]
      BY <2>9, <2>12 DEF Changed
    <3>2. Log!Write(q.change.doc, q.change.content)
      BY <2>10, <3>1 DEF Log!Write
    <3> QED  BY <2>12, <3>2 DEF Log!Next
  <2>13. CASE q.change \in [op : {"delete"}, doc : Docs]
    <3>1. docs = [Log!Last.docs EXCEPT ![q.change.doc] = Absent]
      BY <2>9, <2>13 DEF Changed
    <3>2. Log!Delete(q.change.doc)
      BY <2>2, <2>3, <2>9, <2>10, <2>13, <3>1 DEF Log!Delete, Legal
    <3> QED  BY <2>13, <3>2 DEF Log!Next
  <2>14. CASE q.change \in [op : {"rename"}, doc : Docs, from : Docs]
    <3>1. docs = [Log!Last.docs EXCEPT ![q.change.doc] = Log!Last.docs[q.change.from],
                                       ![q.change.from] = Absent]
      BY <2>9, <2>14 DEF Changed
    <3>2. Log!Rename(q.change.from, q.change.doc)
      BY <2>2, <2>3, <2>9, <2>10, <2>14, <3>1 DEF Log!Rename, Legal
    <3> QED  BY <2>14, <3>2 DEF Log!Next
  <2>15. CASE q.change \in [op : {"restore"}, doc : Docs, revision : Revisions]
    <3> DEFINE c == publications[q.change.revision].docs[q.change.doc]
    <3>1. q.change # NoChange /\ q.change.op = "restore" /\ q.change.doc \in Docs
      BY <2>15 DEF NoChange
    <3>2. q.change.revision \in DOMAIN publications /\ c # Absent
      BY <2>2, <2>3, <3>1 DEF SoundRequest, Legal
    <3>3. publications[q.change.revision] \in Publications
      BY <1>3, <3>2
    <3>4. publications[q.change.revision].docs \in Trees
      BY <3>3 DEF Publications
    <3>5. c \in Contents
      BY <3>1, <3>2, <3>4 DEF Trees
    <3>6. docs = [Log!Last.docs EXCEPT ![q.change.doc] = c]
      BY <2>9, <3>1 DEF Changed
    <3>7. Log!Write(q.change.doc, c)
      BY <2>10, <3>6 DEF Log!Write
    <3> QED  BY <3>1, <3>5, <3>7 DEF Log!Next
  <2>16. q.change = NoChange \/ q.change \in Changes
    BY DEF RequestStates
  <2> QED  BY <2>11, <2>12, <2>13, <2>14, <2>15, <2>16 DEF Changes
<1>4. KInv /\ [KnowledgeNext]_knowledgeVars => [Log!Next]_Shown
  <2>1. ASSUME KInv, NEW r \in Requests, Publishing(r), ~Swap(r)
        PROVE  Shown' = Shown
    <3>1. UNCHANGED log
      BY <2>1 DEF Publishing, Open, OpenRegeneration, SaveTemplate, ReadTemplates,
         Pin, Store, Put
    <3>2. CASE Put(r)
      <4>1. Planned(reqs[r]) \in Publications
        BY <2>1, <3>2, PlannedType DEF Put
      <4>2. \A p \in DOMAIN publications : publications'[p] = publications[p]
        BY <2>1, <3>2, <4>1 DEF Put, KInv, KnowledgeTypeOK
      <4> QED  BY <1>2, <2>1, <3>1, <4>2
    <3>3. CASE ~Put(r)
      <4>1. UNCHANGED publications
        BY <2>1, <3>3 DEF Publishing, Open, OpenRegeneration, SaveTemplate,
           ReadTemplates, Pin, Store
      <4> QED  BY <1>2, <2>1, <3>1, <4>1
    <3> QED  BY <3>2, <3>3
  <2>2. ASSUME KInv, NEW r \in Requests, Swap(r), log' = log
        PROVE  Shown' = Shown
    BY <1>2, <2>2 DEF Swap
  <2>3. UNCHANGED knowledgeVars => Shown' = Shown
    BY DEF knowledgeVars, Shown
  <2> QED  BY <1>3, <2>1, <2>2, <2>3 DEF KnowledgeNext
<1>5. KInv /\ [Next]_vars => [Log!Next]_Shown
  BY <1>4, WorkersPublishNothing
<1>6. Init => Log!Init
  BY <1>1 DEF Init
<1> QED  BY <1>5, <1>6, PublishingIsSound, PTL DEF Spec, ImplementsLog, Log!Spec

-----------------------------------------------------------------------------
(* The backup.                                                              *)

(* The backup bucket has the payloads of the history after its k-th entry,  *)
(* up to the h-th.                                                          *)
Backed(k, h) ==
  /\ h \in DOMAIN log /\ k \in 0..h
  /\ \A i \in DOMAIN log :
       k < i /\ i <= h => Payloads(publications[log[i]]) \subseteq copied

(* A worker that copies goes down the history from the head it pinned; one  *)
(* that records has put its snapshot.                                       *)
JobSound(j) ==
  /\ j.pc = "copying" =>
       \E h, k \in Nat : /\ Backed(k, h)
                         /\ j.head = log[h]
                         /\ j.cursor = IF k = 0 THEN 0 ELSE log[k]
  /\ j.pc = "recording" => j.head \in snapshots

Recoverable(s) == \E h \in Nat : Backed(0, h) /\ s = log[h]

BInv ==
  /\ BackupTypeOK
  /\ lease.live => fresh \subseteq {lease.owner}
  /\ \A w \in Workers, j \in JobStates : j = jobs[w] => JobSound(j)
  /\ \A s \in snapshots : Recoverable(s)
  /\ success = 0 \/ success \in snapshots

LEMMA HistoryGrows ==
  ASSUME KInv, [KnowledgeNext]_knowledgeVars
  PROVE  /\ DOMAIN log \subseteq DOMAIN log'
         /\ \A i \in DOMAIN log : /\ log'[i] = log[i]
                                  /\ publications'[log[i]] = publications[log[i]]
<1> USE DEF KInv, KnowledgeTypeOK
<1>0. \A i \in DOMAIN log : log[i] \in DOMAIN publications
  BY DEF LinearHistory
<1>1. CASE UNCHANGED knowledgeVars
  BY <1>1 DEF knowledgeVars
<1>2. ASSUME NEW r \in Requests, Put(r)
      PROVE  /\ UNCHANGED log
             /\ \A p \in DOMAIN publications : publications'[p] = publications[p]
  <2>1. Planned(reqs[r]) \in Publications
    BY <1>2, PlannedType DEF Put
  <2> QED  BY <1>2, <2>1 DEF Put
<1>3. ASSUME NEW r \in Requests, Swap(r)
      PROVE  /\ UNCHANGED publications
             /\ DOMAIN log \subseteq DOMAIN log'
             /\ \A i \in DOMAIN log : log'[i] = log[i]
  <2>1. CASE UNCHANGED log
    BY <1>3, <2>1 DEF Swap
  <2>2. CASE log' = Append(log, reqs[r].own) /\ reqs[r].base = active
    <3>1. reqs[r].own \in Revisions
      BY <1>3, <2>2, SwapFacts, KnowledgeAssumption DEF Revisions
    <3>2. log \in Seq(Revisions)
      OBVIOUS
    <3> QED  BY <1>3, <2>2, <3>1, <3>2 DEF Swap
  <2> QED  BY <1>3, <2>1, <2>2 DEF Swap, PointerUnchanged
<1>4. ASSUME NEW r \in Requests, Publishing(r), ~Put(r), ~Swap(r)
      PROVE  UNCHANGED <<log, publications>>
  BY <1>4 DEF Publishing, Open, OpenRegeneration, SaveTemplate, ReadTemplates, Pin, Store
<1> QED  BY <1>0, <1>1, <1>2, <1>3, <1>4 DEF KnowledgeNext

LEMMA BackedStays ==
  ASSUME KInv, [KnowledgeNext]_knowledgeVars, copied \subseteq copied',
         NEW k, NEW h, Backed(k, h)
  PROVE  /\ Backed(k, h)'
         /\ log'[h] = log[h]
         /\ k # 0 => log'[k] = log[k]
<1>1. \A i \in DOMAIN log' : k < i /\ i <= h => i \in DOMAIN log
  <2>1. log \in Seq(Revisions) /\ h \in 1..Len(log) /\ k \in 0..h
    BY DEF Backed, KInv, KnowledgeTypeOK
  <2>2. log' \in Seq(Revisions)
    BY KnowledgeStepSound DEF KInv, KnowledgeTypeOK
  <2> QED  BY <2>1, <2>2
<1>2. k # 0 => k \in DOMAIN log
  <2>1. log \in Seq(Revisions) /\ h \in 1..Len(log) /\ k \in 0..h
    BY DEF Backed, KInv, KnowledgeTypeOK
  <2> QED  BY <2>1
<1>3. h \in DOMAIN log'
  BY HistoryGrows DEF Backed
<1>4. ASSUME NEW i \in DOMAIN log', k < i, i <= h
      PROVE  (Payloads(publications[log[i]]) \subseteq copied)'
  <2>1. i \in DOMAIN log
    BY <1>1, <1>4
  <2>2. publications'[log'[i]] = publications[log[i]]
    BY <2>1, HistoryGrows
  <2>3. Payloads(publications[log[i]]) \subseteq copied
    BY <1>4, <2>1 DEF Backed
  <2> QED  BY <2>2, <2>3 DEF Payloads
<1>5. Backed(k, h)'
  <2>1. (k \in 0..h)'
    BY DEF Backed
  <2>2. (h \in DOMAIN log)'
    BY <1>3
  <2>3. (\A i \in DOMAIN log : k < i /\ i <= h => Payloads(publications[log[i]]) \subseteq copied)'
    BY <1>4
  <2> QED  BY <2>1, <2>2, <2>3 DEF Backed
<1> QED  BY <1>2, <1>5, HistoryGrows DEF Backed

LEMMA JobStays ==
  ASSUME KInv, [KnowledgeNext]_knowledgeVars, copied \subseteq copied',
         snapshots \subseteq snapshots', NEW j, JobSound(j)
  PROVE  JobSound(j)'
<1>1. ASSUME j.pc = "copying"
      PROVE  (\E h, k \in Nat : /\ Backed(k, h)
                                /\ j.head = log[h]
                                /\ j.cursor = IF k = 0 THEN 0 ELSE log[k])'
  <2>1. PICK h \in Nat, k \in Nat : /\ Backed(k, h)
                                    /\ j.head = log[h]
                                    /\ j.cursor = IF k = 0 THEN 0 ELSE log[k]
    BY <1>1 DEF JobSound
  <2>2. /\ Backed(k, h)'
        /\ log'[h] = log[h]
        /\ k # 0 => log'[k] = log[k]
    BY <2>1, BackedStays
  <2>3. (j.head = log[h] /\ j.cursor = IF k = 0 THEN 0 ELSE log[k])'
    BY <2>1, <2>2
  <2> QED  BY <2>2, <2>3
<1>2. j.pc = "recording" => j.head \in snapshots'
  BY DEF JobSound
<1> QED  BY <1>1, <1>2 DEF JobSound

LEMMA RecoverableStays ==
  ASSUME KInv, [KnowledgeNext]_knowledgeVars, copied \subseteq copied',
         NEW s, Recoverable(s)
  PROVE  Recoverable(s)'
<1>1. PICK h \in Nat : Backed(0, h) /\ s = log[h]
  BY DEF Recoverable
<1>2. Backed(0, h)' /\ log'[h] = log[h]
  BY <1>1, BackedStays
<1> QED  BY <1>1, <1>2 DEF Recoverable

(* The step of one worker, or of none, on the jobs. *)
LEMMA JobsStay ==
  ASSUME KInv, BInv, [KnowledgeNext]_knowledgeVars, copied \subseteq copied',
         snapshots \subseteq snapshots',
         \/ UNCHANGED jobs
         \/ \E w \in Workers, j \in JobStates :
              jobs' = [jobs EXCEPT ![w] = j] /\ JobSound(j)'
  PROVE  /\ jobs' \in [Workers -> JobStates]
         /\ \A w \in Workers, j \in JobStates : j = jobs'[w] => JobSound(j)'
<1>1. jobs \in [Workers -> JobStates]
  BY DEF BInv, BackupTypeOK
<1>2. \A w \in Workers, j \in JobStates : j = jobs[w] => JobSound(j)'
  BY JobStays DEF BInv
<1>3. CASE UNCHANGED jobs
  BY <1>1, <1>2, <1>3
<1>4. ASSUME NEW w \in Workers, NEW j \in JobStates,
             jobs' = [jobs EXCEPT ![w] = j], JobSound(j)'
      PROVE  /\ jobs' \in [Workers -> JobStates]
             /\ \A x \in Workers, i \in JobStates : i = jobs'[x] => JobSound(i)'
  <2>1. jobs' \in [Workers -> JobStates] /\ jobs'[w] = j
        /\ \A x \in Workers \ {w} : jobs'[x] = jobs[x]
    BY <1>1, <1>4
  <2>2. ASSUME NEW x \in Workers, NEW i \in JobStates, i = jobs'[x]
        PROVE  JobSound(i)'
    <3>1. CASE x = w
      BY <1>4, <2>1, <2>2, <3>1
    <3>2. CASE x # w
      BY <1>2, <2>1, <2>2, <3>2
    <3> QED  BY <3>1, <3>2
  <2> QED  BY <2>1, <2>2
<1> QED  BY <1>3, <1>4

(* What each step of the backup leaves: the lease's part and the jobs'. *)
LeaseStays ==
  /\ lease' \in [owner : Workers \cup {None}, live : BOOLEAN]
  /\ fresh' \subseteq Workers
  /\ lease'.live => fresh' \subseteq {lease'.owner}
  /\ faults' \in 0..MaxFaults
  /\ lease.live => lease'.owner = lease.owner

OneJob(w) ==
  \/ UNCHANGED jobs
  \/ \E j \in JobStates : jobs' = [jobs EXCEPT ![w] = j] /\ JobSound(j)'

(* The jobs a step sends to a place where nothing is claimed. *)
LEMMA JobElsewhere ==
  ASSUME NEW w \in Workers, BackupTypeOK, KnowledgeAssumption,
         NEW j \in {Asleep, Ending(w), [jobs[w] EXCEPT !.pc = "taking"],
                    [jobs[w] EXCEPT !.pc = "pinning"]}
  PROVE  j \in JobStates /\ JobSound(j)'
<1>1. jobs[w] \in JobStates
  BY DEF BackupTypeOK
<1>2. jobs[w].aborted \in BOOLEAN /\ jobs[w].head \in 0..MaxPublications
      /\ jobs[w].cursor \in 0..MaxPublications
  BY <1>1 DEF JobStates
<1>3. CASE j = Asleep
  BY <1>3, KnowledgeAssumption DEF Asleep, Job, JobStates, JobSound
<1>4. CASE j = Ending(w)
  <2>1. j = [pc |-> "closing", head |-> 0, cursor |-> 0, aborted |-> jobs[w].aborted]
    BY <1>4 DEF Ending, Job
  <2> QED  BY <1>2, <2>1, KnowledgeAssumption DEF JobStates, JobSound
<1>5. ASSUME NEW pc \in {"taking", "pinning"}, j = [jobs[w] EXCEPT !.pc = pc]
      PROVE  j \in JobStates /\ JobSound(j)'
  <2>1. j = [pc |-> pc, head |-> jobs[w].head, cursor |-> jobs[w].cursor,
             aborted |-> jobs[w].aborted]
    BY <1>1, <1>5 DEF JobStates
  <2> QED  BY <1>2, <2>1 DEF JobStates, JobSound
<1> QED  BY <1>3, <1>4, <1>5

LEMMA LeaseSteps ==
  ASSUME KInv, BInv, NEW w \in Workers,
         Start(w) \/ Take(w) \/ Renew(w) \/ Close(w) \/ Crash(w)
  PROVE  LeaseStays /\ OneJob(w)
<1>1. /\ lease \in [owner : Workers \cup {None}, live : BOOLEAN]
      /\ fresh \subseteq Workers /\ faults \in 0..MaxFaults
      /\ jobs \in [Workers -> JobStates]
      /\ lease.live => fresh \subseteq {lease.owner}
      /\ BackupTypeOK
  BY DEF BInv, BackupTypeOK
<1>2. Fault => faults' \in 0..MaxFaults
  BY <1>1, BackupAssumption DEF Fault
<1>3. ASSUME NEW live \in BOOLEAN, PutLease(w, live)
      PROVE  /\ lease' \in [owner : Workers \cup {None}, live : BOOLEAN]
             /\ fresh' \subseteq Workers
             /\ lease'.live => fresh' \subseteq {lease'.owner}
             /\ lease.live => lease'.owner = lease.owner
  BY <1>1, <1>3 DEF PutLease, LeaseUnchanged
<1>4. ASSUME PutLeaseUnheard(w)
      PROVE  LeaseStays
  BY <1>1, <1>2, <1>4 DEF PutLeaseUnheard, LeaseUnchanged, LeaseStays
<1>5. UNCHANGED <<lease, fresh, faults>> => LeaseStays
  BY <1>1 DEF LeaseStays
<1>6. ASSUME NEW j \in {Asleep, Ending(w), [jobs[w] EXCEPT !.pc = "taking"],
                        [jobs[w] EXCEPT !.pc = "pinning"]},
             jobs' = [jobs EXCEPT ![w] = j]
      PROVE  OneJob(w)
  BY <1>1, <1>6, JobElsewhere, KnowledgeAssumption DEF OneJob
<1>7. CASE Start(w)
  <2>1. LeaseStays
    BY <1>1, <1>7 DEF Start, LeaseIsFree, LeaseStays
  <2>2. jobs' = [jobs EXCEPT ![w] = [jobs[w] EXCEPT !.pc = "taking"]]
    BY <1>7 DEF Start
  <2> QED  BY <1>6, <2>1, <2>2
<1>8. CASE Take(w)
  <2>1. LeaseStays
    BY <1>1, <1>3, <1>4, <1>5, <1>8 DEF Take, LeaseStays
  <2>2. \/ jobs' = [jobs EXCEPT ![w] = [jobs[w] EXCEPT !.pc = "pinning"]]
        \/ jobs' = [jobs EXCEPT ![w] = Asleep]
    BY <1>8 DEF Take
  <2> QED  BY <1>6, <2>1, <2>2
<1>9. CASE Renew(w)
  <2>1. LeaseStays
    BY <1>1, <1>3, <1>4, <1>5, <1>9 DEF Renew, LeaseStays
  <2>2. PICK q \in JobStates : q = jobs[w]
    BY <1>1
  <2>3. PICK j \in JobStates :
          j = [pc |-> q.pc, head |-> q.head, cursor |-> q.cursor, aborted |-> TRUE]
    BY <2>2 DEF JobStates
  <2>4. UNCHANGED jobs \/ jobs' = [jobs EXCEPT ![w] = j]
    BY <1>9, <2>2, <2>3 DEF Renew, Aborted, Job
  <2>5. JobSound(j)
    <3>1. JobSound(q)
      BY <2>2 DEF BInv
    <3>2. j.pc = q.pc /\ j.head = q.head /\ j.cursor = q.cursor
      BY <2>3
    <3> QED  BY <3>1, <3>2 DEF JobSound
  <2>6. JobSound(j)'
    <3>1. UNCHANGED knowledgeVars /\ UNCHANGED <<copied, snapshots>>
      BY <1>9 DEF Renew
    <3> QED  BY <2>5, <3>1, JobStays
  <2> QED  BY <2>1, <2>4, <2>6 DEF OneJob
<1>10. CASE Close(w)
  <2>1. LeaseStays
    BY <1>1, <1>3, <1>5, <1>10 DEF Close, LeaseStays
  <2>2. jobs' = [jobs EXCEPT ![w] = Asleep]
    BY <1>10 DEF Close
  <2> QED  BY <1>6, <2>1, <2>2
<1>11. CASE Crash(w)
  <2>1. LeaseStays
    BY <1>1, <1>2, <1>11 DEF Crash, LeaseStays
  <2>2. jobs' = [jobs EXCEPT ![w] = Asleep]
    BY <1>11 DEF Crash
  <2> QED  BY <1>6, <2>1, <2>2
<1> QED  BY <1>7, <1>8, <1>9, <1>10, <1>11

LEMMA ExpireStep ==
  ASSUME BInv, Expire
  PROVE  LeaseStays
<1>1. /\ lease \in [owner : Workers \cup {None}, live : BOOLEAN]
      /\ fresh \subseteq Workers /\ faults \in 0..MaxFaults
  BY DEF BInv, BackupTypeOK
<1>2. faults' \in 0..MaxFaults
  BY <1>1, BackupAssumption DEF Expire, Fault
<1>3. /\ lease'.live = FALSE /\ lease'.owner = lease.owner
      /\ lease' \in [owner : Workers \cup {None}, live : BOOLEAN]
  BY <1>1 DEF Expire
<1> QED  BY <1>1, <1>2, <1>3 DEF Expire, LeaseStays

(* The worker pins the head: nothing of the chain is claimed yet. *)
LEMMA PinStep ==
  ASSUME KInv, BInv, NEW w \in Workers, PinHead(w)
  PROVE  OneJob(w)
<1>1. jobs \in [Workers -> JobStates] /\ active \in 0..MaxPublications
  BY KnowledgeAssumption DEF BInv, BackupTypeOK, KInv, KnowledgeTypeOK, Revisions
<1>2. PICK j \in JobStates : j = [pc |-> "copying", head |-> active,
                                 cursor |-> active, aborted |-> jobs[w].aborted]
  BY <1>1 DEF JobStates
<1>3. jobs' = [jobs EXCEPT ![w] = j]
  BY <1>2 DEF PinHead, Job
<1>4. JobSound(j)'
  <2>1. PICK h \in Nat : h = Len(log)
    BY DEF KInv, KnowledgeTypeOK
  <2>2. log \in Seq(Revisions) /\ log # <<>> /\ active = log[h]
    BY <2>1 DEF KInv, KnowledgeTypeOK, LinearHistory
  <2>3. h \in 1..Len(log)
    BY <2>1, <2>2
  <2>4. Backed(h, h)'
    BY <2>2, <2>3 DEF Backed, PinHead, knowledgeVars
  <2>5. (j.head = log[h] /\ j.cursor = IF h = 0 THEN 0 ELSE log[h])'
    BY <1>2, <2>2, <2>3 DEF PinHead, knowledgeVars
  <2>6. j.pc = "copying"
    BY <1>2
  <2> QED  BY <2>4, <2>5, <2>6 DEF JobSound
<1> QED  BY <1>3, <1>4 DEF OneJob

(* One publication is copied: one entry more of the history is backed. *)
LEMMA CopyStep ==
  ASSUME KInv, BInv, NEW w \in Workers, CopyPublication(w)
  PROVE  OneJob(w)
<1>1. jobs \in [Workers -> JobStates] /\ jobs[w].pc = "copying"
  BY DEF BInv, BackupTypeOK, CopyPublication
<1>2. PICK q \in JobStates : q = jobs[w]
  BY <1>1
<1>3. PICK h \in Nat, k \in Nat : /\ Backed(k, h)
                                  /\ q.head = log[h]
                                  /\ q.cursor = IF k = 0 THEN 0 ELSE log[k]
  BY <1>1, <1>2 DEF BInv, JobSound
<1>4. /\ q.cursor # 0 /\ k # 0 /\ q.cursor = log[k]
  BY <1>2, <1>3 DEF CopyPublication
<1>5. log \in Seq(Revisions) /\ k \in 1..Len(log) /\ h \in 1..Len(log)
      /\ k \in 1..h /\ k - 1 \in Nat
  <2>1. log \in Seq(Revisions)
    BY DEF KInv, KnowledgeTypeOK
  <2> QED  BY <1>3, <1>4, <2>1 DEF Backed
<1>6. publications[q.cursor].parent = IF k - 1 = 0 THEN 0 ELSE log[k - 1]
  <2>1. publications[log[k]].parent = IF k = 1 THEN 0 ELSE log[k - 1]
    BY <1>5 DEF KInv, LinearHistory
  <2> QED  BY <1>4, <1>5, <2>1
<1>7. (IF k - 1 = 0 THEN 0 ELSE log[k - 1]) \in 0..MaxPublications
  <2>1. CASE k = 1
    BY <2>1, KnowledgeAssumption
  <2>2. CASE k # 1
    BY <1>5, <2>2, KnowledgeAssumption DEF Revisions
  <2> QED  BY <2>1, <2>2
<1>8. PICK j \in JobStates :
        j = [pc |-> q.pc, head |-> q.head,
             cursor |-> IF k - 1 = 0 THEN 0 ELSE log[k - 1], aborted |-> q.aborted]
  BY <1>7 DEF JobStates
<1>9. jobs' = [jobs EXCEPT ![w] = j]
  <2>1. [q EXCEPT !.cursor = publications[q.cursor].parent] = j
    BY <1>6, <1>8 DEF JobStates
  <2>2. jobs' = [jobs EXCEPT ![w] = [q EXCEPT !.cursor = publications[q.cursor].parent]]
    BY <1>2 DEF CopyPublication
  <2> QED  BY <2>1, <2>2
<1>10. Backed(k - 1, h)'
  <2>1. /\ UNCHANGED <<log, publications>>
        /\ copied' = copied \cup Payloads(publications[log[k]])
    BY <1>2, <1>4 DEF CopyPublication, knowledgeVars
  <2>2. ASSUME NEW i \in DOMAIN log, k - 1 < i, i <= h
        PROVE  (Payloads(publications[log[i]]) \subseteq copied)'
    <3>1. Payloads(publications[log[i]])' = Payloads(publications[log[i]])
      BY <2>1 DEF Payloads
    <3>2. CASE i = k
      BY <2>1, <3>1, <3>2
    <3>3. CASE i # k
      <4>1. k < i
        BY <1>5, <2>2, <3>3
      <4>2. Payloads(publications[log[i]]) \subseteq copied
        BY <1>3, <2>2, <4>1 DEF Backed
      <4> QED  BY <2>1, <3>1, <4>2
    <3> QED  BY <3>2, <3>3
  <2>3. (h \in DOMAIN log)' /\ (k - 1 \in 0..h)'
    BY <1>5, <2>1
  <2>4. (\A i \in DOMAIN log :
           k - 1 < i /\ i <= h => Payloads(publications[log[i]]) \subseteq copied)'
    BY <2>1, <2>2
  <2> QED  BY <2>3, <2>4 DEF Backed
<1>11. JobSound(j)'
  <2>1. PICK m \in Nat : m = k - 1
    BY <1>5
  <2>2. Backed(m, h)'
    BY <1>10, <2>1
  <2>3. (j.head = log[h] /\ j.cursor = IF m = 0 THEN 0 ELSE log[m])'
    BY <1>3, <1>8, <2>1 DEF CopyPublication, knowledgeVars
  <2>4. j.pc = "copying"
    BY <1>1, <1>2, <1>8
  <2> QED  BY <2>2, <2>3, <2>4 DEF JobSound
<1> QED  BY <1>9, <1>11 DEF OneJob

(* The snapshot is put when the whole chain is backed. *)
LEMMA SnapshotStep ==
  ASSUME KInv, BInv, NEW w \in Workers, PutSnapshot(w)
  PROVE  /\ OneJob(w)
         /\ snapshots' \subseteq Revisions
         /\ \A s \in snapshots' : Recoverable(s)'
<1>1. /\ jobs \in [Workers -> JobStates] /\ jobs[w].pc = "copying"
      /\ jobs[w].cursor = 0 /\ BackupTypeOK
  BY DEF BInv, BackupTypeOK, PutSnapshot, ChainCopied
<1>2. PICK q \in JobStates : q = jobs[w]
  BY <1>1
<1>3. PICK h \in Nat, k \in Nat : /\ Backed(k, h)
                                  /\ q.head = log[h]
                                  /\ q.cursor = IF k = 0 THEN 0 ELSE log[k]
  BY <1>1, <1>2 DEF BInv, JobSound
<1>4. log \in Seq(Revisions) /\ h \in 1..Len(log) /\ k \in 0..h
  BY <1>3 DEF Backed, KInv, KnowledgeTypeOK
<1>5. k = 0
  <2>1. k # 0 => log[k] \in Revisions
    BY <1>4
  <2> QED  BY <1>1, <1>2, <1>3, <2>1 DEF Revisions
<1>6. UNCHANGED knowledgeVars /\ UNCHANGED copied /\ snapshots' = snapshots \cup {q.head}
  BY <1>2 DEF PutSnapshot
<1>7. q.head \in Revisions /\ Recoverable(q.head)
  BY <1>3, <1>4, <1>5 DEF Recoverable
<1>8. snapshots' \subseteq Revisions
  BY <1>1, <1>6, <1>7 DEF BackupTypeOK
<1>9. \A s \in snapshots' : Recoverable(s)'
  <2>1. ASSUME NEW s \in snapshots'
        PROVE  Recoverable(s)'
    <3>1. Recoverable(s)
      BY <1>6, <1>7, <2>1 DEF BInv
    <3> QED  BY <1>6, <3>1, RecoverableStays
  <2> QED  BY <2>1
<1>10. OneJob(w)
  <2>1. CASE jobs' = [jobs EXCEPT ![w] = Ending(w)]
    BY <1>1, <2>1, JobElsewhere, KnowledgeAssumption DEF OneJob
  <2>2. CASE jobs' = [jobs EXCEPT ![w].pc = "recording"]
    <3>1. PICK j \in JobStates : j = [pc |-> "recording", head |-> q.head,
                                     cursor |-> q.cursor, aborted |-> q.aborted]
      BY <1>2 DEF JobStates
    <3>2. jobs' = [jobs EXCEPT ![w] = [q EXCEPT !.pc = "recording"]]
      BY <1>2, <2>2
    <3>3. [q EXCEPT !.pc = "recording"] = j
      BY <3>1 DEF JobStates
    <3>4. JobSound(j)'
      BY <1>6, <3>1 DEF JobSound
    <3> QED  BY <3>2, <3>3, <3>4 DEF OneJob
  <2> QED  BY <2>1, <2>2 DEF PutSnapshot
<1> QED  BY <1>8, <1>9, <1>10

LEMMA EndSteps ==
  ASSUME KInv, BInv, NEW w \in Workers, RecordSuccess(w) \/ Abandon(w)
  PROVE  OneJob(w)
<1>1. jobs' = [jobs EXCEPT ![w] = Ending(w)]
  BY DEF RecordSuccess, Abandon
<1> QED  BY <1>1, JobElsewhere, KnowledgeAssumption DEF OneJob, BInv

(* The parts of a step. *)
StepParts ==
  /\ LeaseStays
  /\ copied \subseteq copied' /\ snapshots \subseteq snapshots'
  /\ snapshots' \subseteq Revisions
  /\ UNCHANGED jobs \/ \E w \in Workers : OneJob(w)
  /\ \A s \in snapshots' \ snapshots : Recoverable(s)'
  /\ success' = success \/ success' \in snapshots'

LEMMA EveryPart ==
  ASSUME KInv, BInv, [Next]_vars
  PROVE  StepParts
<1>2. BackupTypeOK
  BY DEF BInv
<1>3. UNCHANGED <<lease, fresh, faults>> => LeaseStays
  BY <1>2 DEF LeaseStays, BackupTypeOK, BInv
<1>4. StepParts
  <2> USE DEF StepParts
  <2>0. snapshots \subseteq Revisions
    BY <1>2 DEF BackupTypeOK
  <2>1. CASE UNCHANGED backupVars
    BY <1>3, <2>0, <2>1 DEF backupVars
  <2>2. ASSUME NEW w \in Workers,
               Start(w) \/ Take(w) \/ Renew(w) \/ Close(w) \/ Crash(w)
        PROVE  StepParts
    <3>1. UNCHANGED <<copied, snapshots, success>>
      BY <2>2 DEF Start, Take, Renew, Close, Crash
    <3> QED  BY <2>0, <2>2, <3>1, LeaseSteps
  <2>3. ASSUME NEW w \in Workers, PinHead(w)
        PROVE  StepParts
    <3>1. UNCHANGED <<lease, fresh, copied, snapshots, success, faults>>
      BY <2>3 DEF PinHead
    <3> QED  BY <1>3, <2>0, <2>3, <3>1, PinStep
  <2>4. ASSUME NEW w \in Workers, CopyPublication(w)
        PROVE  StepParts
    <3>1. /\ UNCHANGED <<lease, fresh, snapshots, success, faults>>
          /\ copied \subseteq copied'
      BY <2>4 DEF CopyPublication
    <3> QED  BY <1>3, <2>0, <2>4, <3>1, CopyStep
  <2>5. ASSUME NEW w \in Workers, PutSnapshot(w)
        PROVE  StepParts
    <3>1. /\ UNCHANGED <<lease, fresh, copied, success>>
          /\ snapshots \subseteq snapshots'
      BY <2>5 DEF PutSnapshot
    <3>2. faults' \in 0..MaxFaults
      BY <1>2, <2>5, BackupAssumption DEF PutSnapshot, Fault, BackupTypeOK
    <3>3. LeaseStays
      BY <1>2, <3>1, <3>2 DEF LeaseStays, BackupTypeOK, BInv
    <3> QED  BY <2>5, <3>1, <3>3, SnapshotStep
  <2>6. ASSUME NEW w \in Workers, RecordSuccess(w) \/ Abandon(w)
        PROVE  StepParts
    <3>1. UNCHANGED <<lease, fresh, copied, snapshots, faults>>
      BY <2>6 DEF RecordSuccess, Abandon
    <3>2. success' = success \/ success' \in snapshots'
      <4>1. CASE Abandon(w)
        BY <4>1 DEF Abandon
      <4>2. CASE RecordSuccess(w)
        <5>1. jobs[w] \in JobStates /\ jobs[w].pc = "recording"
          BY <1>2, <4>2 DEF RecordSuccess, BackupTypeOK
        <5>2. JobSound(jobs[w])
          BY <5>1 DEF BInv
        <5> QED  BY <3>1, <4>2, <5>1, <5>2 DEF RecordSuccess, JobSound
      <4> QED  BY <2>6, <4>1, <4>2
    <3> QED  BY <1>3, <2>0, <2>6, <3>1, <3>2, EndSteps
  <2>7. CASE Expire
    <3>1. UNCHANGED <<copied, snapshots, success, jobs>>
      BY <2>7 DEF Expire
    <3> QED  BY <2>0, <2>7, <3>1, ExpireStep
  <2>8. CASE UNCHANGED vars
    BY <2>1, <2>8 DEF vars
  <2> QED  BY <2>1, <2>2, <2>3, <2>4, <2>5, <2>6, <2>7, <2>8 DEF Next, Working
<1> QED  BY <1>4

LEMMA BackupStepSound == KInv /\ BInv /\ [Next]_vars => BInv'
<1> SUFFICES ASSUME KInv, BInv, [Next]_vars
             PROVE  BInv'
  OBVIOUS
<1>1. [KnowledgeNext]_knowledgeVars /\ KInv'
  BY WorkersPublishNothing, KnowledgeStepSound
<1>4. StepParts
  BY EveryPart
<1> USE DEF StepParts
<1>5. /\ jobs' \in [Workers -> JobStates]
      /\ \A w \in Workers, j \in JobStates : j = jobs'[w] => JobSound(j)'
  <2>1. \/ UNCHANGED jobs
        \/ \E w \in Workers, j \in JobStates :
             jobs' = [jobs EXCEPT ![w] = j] /\ JobSound(j)'
    BY <1>4 DEF OneJob
  <2> QED  BY <1>1, <1>4, <2>1, JobsStay
<1>6. \A s \in snapshots' : Recoverable(s)'
  <2>1. ASSUME NEW s \in snapshots
        PROVE  Recoverable(s)'
    <3>1. Recoverable(s)
      BY DEF BInv
    <3> QED  BY <1>1, <1>4, <3>1, RecoverableStays
  <2> QED  BY <1>4, <2>1
<1>7. success' = 0 \/ success' \in snapshots'
  BY <1>4 DEF BInv
<1>8. success' \in 0..MaxPublications
  <2>1. snapshots' \subseteq Revisions
    BY <1>4
  <2>2. MaxPublications \in Nat /\ Revisions = 1..MaxPublications
    BY KnowledgeAssumption DEF Revisions
  <2>3. CASE success' = 0
    BY <2>2, <2>3
  <2>4. CASE success' \in snapshots'
    <3>1. success' \in 1..MaxPublications
      BY <2>1, <2>2, <2>4
    <3> QED  BY <2>2, <3>1
  <2> QED  BY <1>7, <2>3, <2>4
<1>9. BackupTypeOK'
  BY <1>1, <1>4, <1>5, <1>8 DEF BackupTypeOK, LeaseStays, KInv
<1> QED  BY <1>4, <1>5, <1>6, <1>7, <1>9 DEF BInv, LeaseStays

LEMMA BackupInitSound == Init => BInv
<1> SUFFICES ASSUME Init
             PROVE  BInv
  OBVIOUS
<1>1. KInv
  BY KnowledgeInitSound DEF Init
<1>2. jobs \in [Workers -> JobStates]
  <2>1. Asleep \in JobStates
    BY KnowledgeAssumption DEF Asleep, Job, JobStates
  <2> QED  BY <2>1 DEF Init
<1>3. BackupTypeOK
  BY <1>1, <1>2, KnowledgeAssumption, BackupAssumption DEF Init, BackupTypeOK, KInv
<1>4. \A w \in Workers, j \in JobStates : j = jobs[w] => JobSound(j)
  BY DEF Init, JobSound, Asleep, Job
<1> QED  BY <1>3, <1>4 DEF BInv, Init

(* The lease, the jobs and the backup bucket keep to the history.           *)
LEMMA BackupIsSound == Spec => [](KInv /\ BInv)
<1>1. Init => KInv /\ BInv
  BY KnowledgeInitSound, BackupInitSound DEF Init
<1>2. KInv /\ BInv /\ [Next]_vars => KInv' /\ BInv'
  BY WorkersPublishNothing, KnowledgeStepSound, BackupStepSound
<1> QED  BY <1>1, <1>2, PTL DEF Spec

(* Type correctness of the bucket, the requests, the lease and the backup   *)
(* (docs/knowledgeStore.ts, knowledge/lease.ts, knowledge/worker.ts).       *)
THEOREM BackupTypes == Spec => []BackupTypeOK
<1>1. BInv => BackupTypeOK
  BY DEF BInv
<1> QED  BY <1>1, BackupIsSound, PTL

(* When success.json names the active publication (knowledge/worker.ts      *)
(* backup), its snapshot and the payloads of its whole history are in the   *)
(* backup bucket, however many workers overlap and wherever they stop.      *)
THEOREM NoLagMeansRecoverable == Spec => []NoLagIsRecoverable
<1>1. ASSUME KInv, BInv, success = active
      PROVE  /\ active \in snapshots
             /\ \A i \in DOMAIN log : Payloads(publications[log[i]]) \subseteq copied
  <2>1. log \in Seq(Revisions) /\ log # <<>> /\ active = log[Len(log)]
    BY <1>1 DEF KInv, KnowledgeTypeOK, LinearHistory
  <2>2. PICK n \in Nat : n = Len(log) /\ n \in DOMAIN log
    BY <2>1
  <2>3. active \in Revisions /\ active # 0
    <3>1. log[n] \in Revisions
      BY <2>1, <2>2
    <3> QED  BY <2>1, <2>2, <3>1, KnowledgeAssumption DEF Revisions
  <2>4. active \in snapshots
    <3>1. success = 0 \/ success \in snapshots
      BY <1>1 DEF BInv
    <3> QED  BY <1>1, <2>3, <3>1
  <2>5. PICK h \in Nat : Backed(0, h) /\ active = log[h]
    BY <2>4, <1>1 DEF BInv, Recoverable
  <2>6. h = n
    <3>1. h \in DOMAIN log /\ h \in 1..n /\ log[h] = log[n]
      BY <2>1, <2>2, <2>5 DEF Backed
    <3>2. h < n => log[h] < log[n]
      BY <1>1, <2>2, <3>1 DEF KInv, LogIncreases
    <3>3. log[h] \in Revisions
      BY <2>1, <3>1
    <3>4. log[h] \in Int
      BY <3>3, KnowledgeAssumption DEF Revisions
    <3> QED  BY <2>2, <3>1, <3>2, <3>4
  <2>7. ASSUME NEW i \in DOMAIN log
        PROVE  Payloads(publications[log[i]]) \subseteq copied
    <3>1. 0 < i /\ i <= n
      BY <2>1, <2>2, <2>7
    <3> QED  BY <2>5, <2>6, <2>7, <3>1 DEF Backed
  <2> QED  BY <2>4, <2>7
<1>2. KInv /\ BInv => NoLagIsRecoverable
  BY <1>1 DEF NoLagIsRecoverable
<1> QED  BY <1>2, BackupIsSound, PTL

(* The conditional puts of knowledge/lease.ts: no worker overwrites a lease *)
(* that another one holds and that is live.                                 *)
THEOREM LeaseIsExclusive == Spec => LiveLeaseIsKept
<1>1. KInv /\ BInv /\ [Next]_vars => [lease.live => lease'.owner = lease.owner]_vars
  BY EveryPart DEF StepParts, LeaseStays
<1> QED  BY <1>1, BackupIsSound, PTL DEF Spec, LiveLeaseIsKept
=============================================================================
