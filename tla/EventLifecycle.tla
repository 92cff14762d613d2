--------------------------- MODULE EventLifecycle ---------------------------
(***************************************************************************)
(* What the unified event service promises: one event with one lifecycle,  *)
(* one operation at a time, and calendars that follow.  A calendar changes *)
(* only while an operation is unresolved, and only to what that operation  *)
(* wants; an operation on an active event is finished when every calendar  *)
(* shows it.  Workers, leases, retries, crashes and half-written calendars *)
(* have no place here.                                                     *)
(***************************************************************************)
EXTENDS Naturals

CONSTANT Calendars

VARIABLES status, generation, identity, \* the event: identity names its Google copies
          doing,                        \* the unresolved transition
          shown                         \* what each calendar shows of this identity

vars == <<status, generation, identity, doing, shown>>

Nothing == [gen |-> 0, status |-> "none"]
Blank == [c \in Calendars |-> Nothing]
Active == status \in {"proposed", "approved"}
Goal == IF Active THEN [gen |-> generation, status |-> status] ELSE Nothing

Init == /\ status = "none" /\ generation = 0 /\ identity = 0
        /\ doing = "nothing" /\ shown = Blank

Start(transition, new) == /\ doing = "nothing" /\ doing' = transition
                          /\ status' = new

\* A proposal after a release is a new event to Google, under a new identity.
Propose == /\ ~Active
           /\ Start("propose", "proposed")
           /\ generation' = generation + 1
           /\ identity' = generation'
           /\ shown' = Blank
Reschedule == /\ Active
              /\ Start("reschedule", "proposed")
              /\ generation' = generation + 1
              /\ UNCHANGED <<identity, shown>>
Approve == /\ status = "proposed"
           /\ Start("approve", "approved")
           /\ UNCHANGED <<generation, identity, shown>>
Release == /\ Active
           /\ Start("release", "released")
           /\ UNCHANGED <<generation, identity, shown>>

Show(c) == /\ doing # "nothing"
           /\ shown' = [shown EXCEPT ![c] = Goal]
           /\ UNCHANGED <<status, generation, identity, doing>>

Finish == /\ doing # "nothing"
          /\ Active => \A c \in Calendars : shown[c] = Goal
          /\ doing' = "nothing"
          /\ UNCHANGED <<status, generation, identity, shown>>

Next == \/ Propose \/ Reschedule \/ Approve \/ Release \/ Finish
        \/ \E c \in Calendars : Show(c)

Spec == Init /\ [][Next]_vars
=============================================================================
