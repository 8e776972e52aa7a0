---------------------------- MODULE PendingTasks ----------------------------
(***************************************************************************)
(* PendingTasks (packages/core/src/pending_tasks.ts): a set of tasks and   *)
(* the BehaviorSubject hasPendingTasks, whose negation is isStable of      *)
(* ApplicationRef.  Its subscribers run inside add() and remove().         *)
(***************************************************************************)
EXTENDS Naturals

CONSTANT TaskId  \* the identities of tasks; those of removed tasks serve again

PendingTasksType == [pending : SUBSET TaskId, has : BOOLEAN]
NoTasks == [pending |-> {}, has |-> FALSE]

NewTask(t) == CHOOSE id \in TaskId : id \notin t.pending

(* add() and remove(): they emit when `has` changes. *)
Added(t, id) == [pending |-> t.pending \cup {id}, has |-> TRUE]
Removed(t, id) ==
  [pending |-> t.pending \ {id}, has |-> t.has /\ t.pending \ {id} # {}]
=============================================================================
