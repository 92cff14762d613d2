-------------------------- MODULE MCCardTemplateSync --------------------------
(***************************************************************************)
(* A small instance of CardTemplateSync: one Card, a Template with two     *)
(* refs, one client and two update calls.                                  *)
(***************************************************************************)
EXTENDS CardTemplateSync, TLC

CONSTANTS p, m   \* the Tasks of refs "prepare" and "mail"

Def(edges, text, optional) == [edges |-> edges, text |-> text, optional |-> optional]
\* Mail waits for prepare; prepare is an option; only mail.
MailWaits == [prepare |-> Def({}, 1, FALSE), mail |-> Def({"prepare"}, 1, FALSE)]
Option == [prepare |-> Def({}, 1, TRUE), mail |-> Def({}, 1, FALSE)]
MailOnly == [prepare |-> Absent, mail |-> Def({}, 1, FALSE)]
Bodies == {MailWaits, Option, MailOnly}

RefIds == [c \in Cards |-> [prepare |-> p, mail |-> m]]
MadeFrom == [t \in Tasks |-> CASE t = p -> [ref |-> "prepare", own |-> TRUE]
                               [] t = m -> [ref |-> "mail", own |-> TRUE]
                               [] OTHER -> [ref |-> NoRef, own |-> FALSE]]

NoHint == [t \in Tasks |-> NoStage]
NothingNew == {}
Patch(s, d) == [card |-> Keep, status |-> s, deps |-> d]
\* Complete, skip, or link one Task to another.
WorkPatches == {Patch(s, Keep) : s \in {"done", "skipped"}} \cup {Patch(Keep, {t}) : t \in Tasks}
===============================================================================
