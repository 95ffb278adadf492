-------------------------- MODULE SnapshotArchive --------------------------
(***************************************************************************)
(* What snapshots promise, with no mention of pages, tiers or streams: a   *)
(* container publishes the states of an execution at some of its quiescent *)
(* points, and a seek answers with the state at the last published point   *)
(* that is not after the one asked for, or refuses.  It never answers with *)
(* any other state.                                                        *)
(***************************************************************************)
EXTENDS Integers, FiniteSets, FiniteSetsExt

CONSTANTS Containers,   \* the containers that may be written
          Executions,   \* the possible sequences of states, one per point
          Nothing,      \* no answer is outstanding
          Refused       \* the answer that gives no state

VARIABLES execution,    \* the execution that is recorded
          published,    \* per container, the points whose states it carries
          answer        \* the answer to the last seek

vars == <<execution, published, answer>>

Points == 0..(Cardinality(DOMAIN execution) - 1)

Init ==
    /\ execution \in Executions
    /\ published = [c \in Containers |-> {}]
    /\ answer = Nothing

Publish(c) ==
    /\ published[c] = {}
    /\ \E S \in (SUBSET Points) \ {{}} : published' = [published EXCEPT ![c] = S]
    /\ UNCHANGED <<execution, answer>>

StateAt(p) == execution[p + 1]

Seek(c) ==
    /\ answer = Nothing
    /\ \E from \in Points :
          LET before == {p \in published[c] : p <= from}
          IN  answer' \in {Refused} \cup
                  (IF before = {} THEN {}
                   ELSE {[point |-> Max(before), state |-> StateAt(Max(before))]})
    /\ UNCHANGED <<execution, published>>

Forget == answer # Nothing /\ answer' = Nothing /\ UNCHANGED <<execution, published>>

Next == (\E c \in Containers : Publish(c) \/ Seek(c)) \/ Forget

Spec == Init /\ [][Next]_vars
=============================================================================
