----------------------------- MODULE QueueList -----------------------------
(***************************************************************************)
(* The ready lists as the machine sees them: queue_list of list.h, with    *)
(* the link of every node and the tail pointer, and kernel_task_list_bitmap*)
(* as a word that is loaded, changed and stored.  A task executes          *)
(* tasklist_append and tasklist_remove_front one access at a time.  What a *)
(* handler does to the lists is one step, HandlerAppend.  AtomicLists says *)
(* when each of the two may run.                                           *)
(*                                                                         *)
(* abs holds what the lists would be if every operation were one step of   *)
(* TaskList.                                                               *)
(***************************************************************************)
EXTENDS TaskList, FiniteSets

CONSTANTS
  TaskPriority,   \* the priority of each task
  NULL

ASSUME QueueListAssumption ==
  /\ TaskPriority \in [Task -> Priority]
  /\ NULL \notin Task \union Priority
  /\ Task \intersect Priority = {}

\* The head of a queue_list is a link like that of a node; its address is
\* written as the priority the list belongs to.
Link == Task \union Priority

VARIABLES
  next,      \* next[n]: the link of a node or of a list head
  tail,      \* tail[p]: the node the list ends with, or its head
  bitmap,    \* kernel_task_list_bitmap
  out,       \* the tasks that are in no ready list: they sleep or wait
  access,    \* the access the task makes next
  node,      \* the node it works on
  prio,      \* and the list
  loaded,    \* the bitmap it has loaded
  abs

listVars == <<next, tail, bitmap, out, access, node, prio, loaded, abs>>

ListStep == {"idle", "push_next", "push_link", "push_tail", "set_load",
             "set_store", "pop_head", "pop_tail", "pop_next", "check_empty",
             "clear_load", "clear_store"}

\* The types: a link leads to a task or is NULL, and a tail is never NULL.
ListTypeOK ==
  /\ next \in [Link -> Task \union {NULL}]
  /\ tail \in [Priority -> Link]
  /\ bitmap \in SUBSET Priority
  /\ out \in SUBSET Task
  /\ access \in ListStep
  /\ node \in Task \union {NULL}
  /\ prio \in Priority
  /\ loaded \in SUBSET Priority

\* tasklist_init, and every task still to be added.
ListInit ==
  /\ next = [l \in Link |-> NULL]
  /\ tail = [p \in Priority |-> p]
  /\ bitmap = {}
  /\ out = Task
  /\ access = "idle"
  /\ node = NULL
  /\ prio = TASKPRIO_IDLE
  /\ loaded = {}
  /\ abs = EmptyReady

-----------------------------------------------------------------------------
(* tasklist_append by a task *)

StartAppend(t) ==
  /\ access = "idle" /\ t \in out
  /\ out' = out \ {t}
  /\ node' = t /\ prio' = TaskPriority[t]
  /\ abs' = tasklist_append(abs, TaskPriority[t], t)
  /\ access' = "push_next"
  /\ UNCHANGED <<next, tail, bitmap, loaded>>

PushNext ==
  /\ access = "push_next"
  /\ next' = [next EXCEPT ![node] = NULL]
  /\ access' = "push_link"
  /\ UNCHANGED <<tail, bitmap, out, node, prio, loaded, abs>>

PushLink ==
  /\ access = "push_link"
  /\ next' = [next EXCEPT ![tail[prio]] = node]
  /\ access' = "push_tail"
  /\ UNCHANGED <<tail, bitmap, out, node, prio, loaded, abs>>

PushTail ==
  /\ access = "push_tail"
  /\ tail' = [tail EXCEPT ![prio] = next[tail[prio]]]
  /\ access' = "set_load"
  /\ UNCHANGED <<next, bitmap, out, node, prio, loaded, abs>>

SetLoad ==
  /\ access = "set_load"
  /\ loaded' = bitmap
  /\ access' = "set_store"
  /\ UNCHANGED <<next, tail, bitmap, out, node, prio, abs>>

Done == access' = "idle" /\ node' = NULL /\ prio' = TASKPRIO_IDLE /\ loaded' = {}

\* Mutant of SetStore: the bit is assigned, not set.
SetStoreAssigns ==
  /\ access = "set_store"
  /\ bitmap' = {prio}
  /\ Done
  /\ UNCHANGED <<next, tail, out, abs>>

SetStore ==
  /\ access = "set_store"
  /\ bitmap' = loaded \union {prio}
  /\ Done
  /\ UNCHANGED <<next, tail, out, abs>>

-----------------------------------------------------------------------------
(* tasklist_remove_front by a task *)

list_empty(p) == tail[p] = p

\* An empty list is left as it is and NULL returned.
StartRemove(p) ==
  /\ access = "idle" /\ ~list_empty(p)
  /\ node' = next[p] /\ prio' = p
  /\ abs' = tasklist_remove_front(abs, p)
  /\ access' = "pop_head"
  /\ UNCHANGED <<next, tail, bitmap, out, loaded>>

PopHead ==
  /\ access = "pop_head"
  /\ next' = [next EXCEPT ![prio] = next[node]]
  /\ access' = "pop_tail"
  /\ UNCHANGED <<tail, bitmap, out, node, prio, loaded, abs>>

PopTail ==
  /\ access = "pop_tail"
  /\ tail' = IF node = tail[prio] THEN [tail EXCEPT ![prio] = prio] ELSE tail
  /\ access' = "pop_next"
  /\ UNCHANGED <<next, bitmap, out, node, prio, loaded, abs>>

PopNext ==
  /\ access = "pop_next"
  /\ next' = [next EXCEPT ![node] = NULL]
  /\ access' = "check_empty"
  /\ UNCHANGED <<tail, bitmap, out, node, prio, loaded, abs>>

CheckEmpty ==
  /\ access = "check_empty"
  /\ IF list_empty(prio)
       THEN access' = "clear_load" /\ UNCHANGED <<out, node, prio, loaded>>
       ELSE out' = out \union {node} /\ Done
  /\ UNCHANGED <<next, tail, bitmap, abs>>

ClearLoad ==
  /\ access = "clear_load"
  /\ loaded' = bitmap
  /\ access' = "clear_store"
  /\ UNCHANGED <<next, tail, bitmap, out, node, prio, abs>>

ClearStore ==
  /\ access = "clear_store"
  /\ bitmap' = loaded \ {prio}
  /\ out' = out \union {node}
  /\ Done
  /\ UNCHANGED <<next, tail, abs>>

ListAccess ==
  \/ \E t \in Task : StartAppend(t)
  \/ PushNext \/ PushLink \/ PushTail \/ SetLoad \/ SetStore
  \/ \E p \in Priority : StartRemove(p)
  \/ PopHead \/ PopTail \/ PopNext \/ CheckEmpty \/ ClearLoad \/ ClearStore

-----------------------------------------------------------------------------

\* A handler makes t ready: the accesses of tasklist_append without a break.
HandlerAppend(t) ==
  LET p == TaskPriority[t]
  IN  /\ t \in out
      /\ out' = out \ {t}
      /\ next' = [next EXCEPT ![t] = NULL, ![tail[p]] = t]
      /\ tail' = [tail EXCEPT ![p] = t]
      /\ bitmap' = bitmap \union {p}
      /\ abs' = tasklist_append(abs, p, t)
      /\ UNCHANGED <<access, node, prio, loaded>>

-----------------------------------------------------------------------------

\* The links from the head of list p lead through the first n tasks of its queue.
Linked(p, n) ==
  /\ next[p] = IF n = 0 THEN NULL ELSE abs.list[p][1]
  /\ \A i \in 1 .. n : next[abs.list[p][i]] = IF i = n THEN NULL ELSE abs.list[p][i + 1]

\* And the tail of list p is the n-th of them.
EndsAt(p, n) == tail[p] = IF n = 0 THEN p ELSE abs.list[p][n]

\* Between two operations the links, read the way the code reads them, hold the
\* tasks that were appended and not removed, in that order, and the tail is the
\* last of them: no operation of the task undoes one of a handler.
ListsCoherent ==
  access = "idle" =>
    \A p \in Priority : LET n == Len(abs.list[p]) IN Linked(p, n) /\ EndsAt(p, n)

\* Between two operations a priority has its bit exactly when its list has a
\* task, so that the highest priority the code finds is that of a task.
BitmapCoherent ==
  access = "idle" => bitmap = {p \in Priority : ~list_empty(p)}

\* The lists and the bitmap are what they would be if every operation of a task
\* or a handler were one step.
ReadyCoherent == ListsCoherent /\ BitmapCoherent

=============================================================================
