---------------------------- MODULE MCTaskCards ----------------------------
(***************************************************************************)
(* Instances of TaskCards for TLC: which bodies the callers send.          *)
(***************************************************************************)
EXTENDS TaskCards, TLC

Same == [card |-> Keep, status |-> Keep, deps |-> Keep]
Status(S) == {[Same EXCEPT !.status = s] : s \in S}
DependOn(D) == {[Same EXCEPT !.deps = d] : d \in D}
MoveTo(C) == {[Same EXCEPT !.card = c] : c \in C}

\* Complete, or wait on one Task.
GraphPatches == Status({"done"}) \cup DependOn({{t} : t \in Tasks})
NothingNew == {}
NoHint == [t \in Tasks |-> NoStage]

\* Complete, reopen, move, or wait on one Task.  Tasks are created open or done.
BoardPatches == Status({"waiting", "done"}) \cup MoveTo(Cards \cup {NoCard})
  \cup DependOn({{t} : t \in Tasks})
CreatedTasks == {[card |-> c, status |-> s, deps |-> {}] : c \in Cards, s \in {"todo", "done"}}
AfterEventHint == [t \in Tasks |-> 3]

Symmetry == Permutations(Tasks) \cup Permutations(Cards) \cup Permutations(Requests)
=============================================================================
