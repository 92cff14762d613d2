--------------------------- MODULE MCIssueCards ---------------------------
(***************************************************************************)
(* Instances of IssueCards for TLC.                                        *)
(***************************************************************************)
EXTENDS IssueCards, TLC

CONSTANTS c1, c2, p1

InOrder == <<c1, c2>>
OneKind == [i \in Issues |-> p1]

Symmetry == Permutations(Tasks) \cup Permutations(Requests)
=============================================================================
