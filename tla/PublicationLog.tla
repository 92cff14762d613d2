--------------------------- MODULE PublicationLog ---------------------------
(***************************************************************************)
(* What a reader of the knowledge base may rely on: one history of         *)
(* publications that only grows.  Each differs from the one before it by   *)
(* one change of the source documents, or by its generated pages alone,    *)
(* and its index describes the documents it was published with.            *)
(***************************************************************************)
EXTENDS Integers, Sequences

CONSTANTS Docs, Contents, Absent, Versions

VARIABLE log

Last == log[Len(log)]

Trees == [Docs -> Contents \cup {Absent}]

Issue(docs) ==
  \E v \in Versions :
    log' = Append(log, [docs |-> docs, view |-> v, index |-> docs])

Write(d, c) == Issue([Last.docs EXCEPT ![d] = c])

Delete(d) == Last.docs[d] # Absent /\ Issue([Last.docs EXCEPT ![d] = Absent])

Rename(s, d) ==
  /\ Last.docs[s] # Absent
  /\ Last.docs[d] = Absent
  /\ Issue([Last.docs EXCEPT ![d] = Last.docs[s], ![s] = Absent])

Init == \E docs \in Trees, v \in Versions :
          log = <<[docs |-> docs, view |-> v, index |-> docs]>>

Next ==
  \/ \E d \in Docs, c \in Contents : Write(d, c)
  \/ \E d \in Docs : Delete(d)
  \/ \E s, d \in Docs : Rename(s, d)
  \/ Issue(Last.docs)

Spec == Init /\ [][Next]_log
=============================================================================
