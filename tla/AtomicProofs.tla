---------------------------- MODULE AtomicProofs ----------------------------
(***************************************************************************)
(* The invariant of AtomicLists, for every configuration and every depth   *)
(* of nesting: what each context on the core has found in BASEPRI and in   *)
(* interrupt_disabled_nesting and what it has made of them, and how far    *)
(* the operation of the task on the lists has come.                        *)
(***************************************************************************)
EXTENDS AtomicLists, SequenceTheorems, TLAPS

-----------------------------------------------------------------------------
(* The accesses: the operations keep the links, the tails and the bitmap  *)
(* in order, and so does the append of a handler between two of them.      *)

List(p) == abs.list[p]

\* The types; abs has a list of tasks for every priority.
ListTypes ==
  /\ next \in [Link -> Task \union {NULL}]
  /\ tail \in [Priority -> Link]
  /\ bitmap \in SUBSET Priority /\ loaded \in SUBSET Priority
  /\ out \in SUBSET Task
  /\ access \in ListStep
  /\ node \in Task \union {NULL} /\ prio \in Priority
  /\ abs.list \in [Priority -> Seq(Task)]

\* No task is twice in the lists.
Apart ==
  \A p, q \in Priority : \A i \in 1 .. Len(List(p)), j \in 1 .. Len(List(q)) :
    List(p)[i] = List(q)[j] => p = q /\ i = j

Outside(t) == \A p \in Priority : \A i \in 1 .. Len(List(p)) : List(p)[i] # t

Pushing == {"push_next", "push_link", "push_tail", "set_load", "set_store"}
Popping == {"pop_head", "pop_tail", "pop_next", "check_empty", "clear_load", "clear_store"}

\* The node of an operation is the last one of its list, or in none any more.
NodeKnown ==
  /\ \A t \in out : Outside(t)
  /\ access # "idle" => node \in Task \ out
  /\ access \in Pushing => Len(List(prio)) > 0 /\ node = List(prio)[Len(List(prio))]
  /\ access \in Popping => Outside(node)

Whole(p) == Linked(p, Len(List(p))) /\ EndsAt(p, Len(List(p)))

\* The node that is being removed is still in front of the others.
FrontStill(p) ==
  /\ next[p] = node
  /\ next[node] = IF Len(List(p)) = 0 THEN NULL ELSE List(p)[1]
  /\ \A i \in 1 .. Len(List(p)) :
       next[List(p)[i]] = IF i = Len(List(p)) THEN NULL ELSE List(p)[i + 1]

TailStill(p) == tail[p] = IF Len(List(p)) = 0 THEN node ELSE List(p)[Len(List(p))]

\* The list of the operation, as far as that has come.
Half(p) ==
  /\ access \in {"push_next", "push_link"} => Linked(p, Len(List(p)) - 1)
  /\ access = "push_link" => next[node] = NULL
  /\ access \in {"push_next", "push_link", "push_tail"} => EndsAt(p, Len(List(p)) - 1)
  /\ access \in {"push_tail", "pop_tail"} => Linked(p, Len(List(p)))
  /\ access = "pop_head" => FrontStill(p)
  /\ access \in {"pop_head", "pop_tail"} => TailStill(p)
  /\ access \in {"set_load", "set_store", "pop_next", "check_empty", "clear_load", "clear_store"} =>
       Whole(p)

\* Every list but that of the operation is as it should be.
Links == \A p \in Priority : IF access = "idle" \/ p # prio THEN Whole(p) ELSE Half(p)

Bits ==
  /\ \A p \in Priority : access = "idle" \/ p # prio => (p \in bitmap <=> Len(List(p)) > 0)
  /\ access \in {"pop_head", "pop_tail", "pop_next", "check_empty"} => prio \in bitmap
  /\ access \in {"clear_load", "clear_store"} => Len(List(prio)) = 0
  /\ access \in {"set_store", "clear_store"} => loaded = bitmap

ListInd == ListTypes /\ Apart /\ NodeKnown /\ Links /\ Bits

-----------------------------------------------------------------------------

LEMMA Constants ==
  /\ TaskPriority \in [Task -> Priority] /\ NULL \notin Task /\ NULL \notin Priority
  /\ \A t \in Task : t \notin Priority
  /\ TASKPRIO_IDLE \in Priority
BY QueueListAssumption DEF TASKPRIO_IDLE, Priority

\* The place before the last one.
LEMMA LastButOne ==
  \A k \in Nat :
    /\ k > 0 /\ k # 1 => k - 1 \in 1 .. k /\ k - 1 \in 1 .. k - 1 /\ k - 1 # 0
    /\ k > 0 => (k - 1 = 0 <=> k = 1) /\ k - 1 + 1 = k
    /\ k > 0 /\ k # 1 => 1 \in 1 .. k - 1
    /\ \A i \in 1 .. k - 1 : k > 0 /\ k # 1 /\ i \in 1 .. k /\ i + 1 \in 1 .. k /\ i # k
OBVIOUS

LEMMA ListTyped ==
  ASSUME ListTypes, NEW p \in Priority
  PROVE  /\ List(p) \in Seq(Task) /\ Len(List(p)) \in Nat
         /\ \A i \in 1 .. Len(List(p)) : List(p)[i] \in Task
BY DEF ListTypes, List

\* What the append of a task does to the lists.
LEMMA Appended ==
  ASSUME ListTypes, NEW p \in Priority, NEW t \in Task, abs' = tasklist_append(abs, p, t)
  PROVE  /\ abs'.list \in [Priority -> Seq(Task)]
         /\ \A q \in Priority \ {p} : List(q)' = List(q)
         /\ Len(List(p)') = Len(List(p)) + 1
         /\ \A i \in 1 .. Len(List(p)) : List(p)'[i] = List(p)[i]
         /\ List(p)'[Len(List(p)) + 1] = t
<1>1. abs'.list = [abs.list EXCEPT ![p] = Append(@, t)]
  BY DEF tasklist_append
<1>2. List(p) \in Seq(Task)
  BY ListTyped
<1>3. List(p)' = Append(List(p), t)
  BY <1>1 DEF List, ListTypes
<1>4. abs'.list \in [Priority -> Seq(Task)] /\ \A q \in Priority \ {p} : List(q)' = List(q)
  BY <1>1 DEF List, ListTypes
<1> HIDE DEF List
<1> QED BY <1>2, <1>3, <1>4

\* What the removal of the first task does.
LEMMA Removed ==
  ASSUME ListTypes, NEW p \in Priority, Len(List(p)) > 0, abs' = tasklist_remove_front(abs, p)
  PROVE  /\ abs'.list \in [Priority -> Seq(Task)]
         /\ \A q \in Priority \ {p} : List(q)' = List(q)
         /\ Len(List(p)') = Len(List(p)) - 1
         /\ \A i \in 1 .. Len(List(p)) - 1 : List(p)'[i] = List(p)[i + 1]
<1>1. List(p) \in Seq(Task) /\ List(p) # <<>>
  BY ListTyped
<1>2. abs'.list = [abs.list EXCEPT ![p] = Tail(@)]
  BY <1>1 DEF tasklist_remove_front, List
<1>3. List(p)' = Tail(List(p)) /\ Tail(List(p)) \in Seq(Task)
  BY <1>1, <1>2 DEF List, ListTypes
<1>4. abs'.list \in [Priority -> Seq(Task)] /\ \A q \in Priority \ {p} : List(q)' = List(q)
  BY <1>2, <1>3 DEF List, ListTypes
<1> HIDE DEF List
<1> QED BY <1>1, <1>3, <1>4

\* A step that does not touch the links, the tail and the tasks of a list.
LEMMA WholeStays ==
  ASSUME NEW q, Whole(q), List(q)' = List(q), tail'[q] = tail[q], next'[q] = next[q],
         \A i \in 1 .. Len(List(q)) : next'[List(q)[i]] = next[List(q)[i]]
  PROVE  Whole(q)'
BY DEF Whole, Linked, EndsAt, List

\* An access in the middle of an operation, which leaves the lists alone.
LEMMA SameLists ==
  ASSUME ListInd, UNCHANGED <<out, node, prio, abs>>, access # "idle", access' # "idle",
         access' \in Pushing <=> access \in Pushing, access' \in Popping <=> access \in Popping
  PROVE  Apart' /\ NodeKnown'
<1>1. Apart'
  BY DEF ListInd, Apart, List
<1>2. NodeKnown'
  BY DEF ListInd, NodeKnown, Outside, List
<1> QED BY <1>1, <1>2

\* The node that is appended is the last one of its list and nowhere else.
LEMMA PushedNode ==
  ASSUME ListInd, access \in Pushing
  PROVE  /\ prio \in Priority /\ Len(List(prio)) \in Nat /\ Len(List(prio)) > 0
         /\ node \in Task /\ node \in Link /\ node \notin Priority /\ node # NULL
         /\ node = List(prio)[Len(List(prio))]
         /\ \A q \in Priority \ {prio} : \A i \in 1 .. Len(List(q)) : List(q)[i] # node
         /\ \A i \in 1 .. Len(List(prio)) - 1 : List(prio)[i] # node
<1>1. prio \in Priority /\ Len(List(prio)) \in Nat /\ access # "idle"
  BY ListTyped DEF ListInd, ListTypes, Pushing
<1>2. Len(List(prio)) > 0 /\ node \in Task /\ node = List(prio)[Len(List(prio))]
  BY <1>1 DEF ListInd, NodeKnown
<1>3. node \in Link /\ node \notin Priority /\ node # NULL
  BY <1>2, Constants DEF Link
<1>4. ASSUME NEW q \in Priority \ {prio}, NEW i \in 1 .. Len(List(q)) PROVE List(q)[i] # node
  BY <1>1, <1>2 DEF ListInd, Apart
<1>5. ASSUME NEW i \in 1 .. Len(List(prio)) - 1 PROVE List(prio)[i] # node
  <2>1. i \in 1 .. Len(List(prio)) /\ i # Len(List(prio))
    BY <1>1
  <2> QED BY <1>1, <1>2, <2>1 DEF ListInd, Apart
<1> QED BY <1>1, <1>2, <1>3, <1>4, <1>5

\* The node that is removed is in no list.
LEMMA PoppedNode ==
  ASSUME ListInd, access \in Popping
  PROVE  /\ prio \in Priority /\ Len(List(prio)) \in Nat
         /\ node \in Task /\ node \in Link /\ node \notin Priority /\ node # NULL
         /\ \A q \in Priority : \A i \in 1 .. Len(List(q)) : List(q)[i] # node
<1>1. prio \in Priority /\ Len(List(prio)) \in Nat /\ access # "idle"
  BY ListTyped DEF ListInd, ListTypes, Popping
<1>2. node \in Task /\ \A q \in Priority : \A i \in 1 .. Len(List(q)) : List(q)[i] # node
  BY <1>1 DEF ListInd, NodeKnown, Outside
<1> QED BY <1>1, <1>2, Constants DEF Link

\* The lists other than that of the operation.
LEMMA OthersWhole ==
  ASSUME ListInd, access # "idle", UNCHANGED <<abs, prio>>,
         \A q \in Priority \ {prio} :
           /\ tail'[q] = tail[q] /\ next'[q] = next[q]
           /\ \A i \in 1 .. Len(List(q)) : next'[List(q)[i]] = next[List(q)[i]]
  PROVE  \A q \in Priority \ {prio} : Whole(q)'
<1> SUFFICES ASSUME NEW q \in Priority \ {prio} PROVE Whole(q)'
  OBVIOUS
<1>1. Whole(q)
  BY DEF ListInd, Links
<1>2. List(q)' = List(q)
  BY DEF List
<1> QED BY <1>1, <1>2, WholeStays

LEMMA PushNextKeeps ==
  ASSUME ListInd, PushNext
  PROVE  ListInd'
<1> DEFINE n == Len(List(prio))
<1>1. /\ access = "push_next" /\ access' = "push_link" /\ next' = [next EXCEPT ![node] = NULL]
      /\ UNCHANGED <<tail, bitmap, out, node, prio, loaded, abs>>
  BY DEF PushNext
<1>2. access \in Pushing /\ access' \in Pushing /\ access \notin Popping /\ access' \notin Popping
  BY <1>1 DEF Pushing, Popping
<1>3. Apart' /\ NodeKnown'
  BY <1>1, <1>2, SameLists
<1>4. ListTypes'
  BY <1>1, <1>2, PushedNode DEF ListInd, ListTypes, ListStep
<1>5. next'[node] = NULL /\ \A l \in Link \ {node} : next'[l] = next[l]
  BY <1>1, <1>2, PushedNode DEF ListInd, ListTypes
<1>6. \A q \in Priority : q \in Link \ {node} /\ \A i \in 1 .. Len(List(q)) : List(q)[i] \in Link
  BY <1>2, PushedNode, ListTyped DEF ListInd, Link
<1>7. \A q \in Priority \ {prio} : Whole(q)'
  BY <1>1, <1>2, <1>5, <1>6, PushedNode, OthersWhole
<1>8. Linked(prio, n - 1)' /\ EndsAt(prio, n - 1)'
  <2>1. Linked(prio, n - 1) /\ EndsAt(prio, n - 1) /\ prio \in Priority /\ n \in Nat
    BY <1>1, <1>2, PushedNode DEF ListInd, Links, Half
  <2>2. next'[prio] = next[prio]
    BY <1>5, <1>6, <2>1
  <2>3. \A i \in 1 .. n - 1 : next'[List(prio)[i]] = next[List(prio)[i]]
    BY <1>2, <1>5, <1>6, <2>1, PushedNode
  <2> QED BY <1>1, <2>1, <2>2, <2>3 DEF Linked, EndsAt, List
<1>9. Links'
  BY <1>1, <1>5, <1>7, <1>8 DEF Links, Half, List
<1>10. Bits'
  BY <1>1 DEF ListInd, Bits, List
<1> QED BY <1>3, <1>4, <1>9, <1>10 DEF ListInd

LEMMA PushLinkKeeps ==
  ASSUME ListInd, PushLink
  PROVE  ListInd'
<1> DEFINE n == Len(List(prio))
           l == tail[prio]
<1>1. /\ access = "push_link" /\ access' = "push_tail" /\ next' = [next EXCEPT ![l] = node]
      /\ UNCHANGED <<tail, bitmap, out, node, prio, loaded, abs>>
  BY DEF PushLink
<1>2. access \in Pushing /\ access' \in Pushing /\ access \notin Popping /\ access' \notin Popping
  BY <1>1 DEF Pushing, Popping
<1>3. Apart' /\ NodeKnown'
  BY <1>1, <1>2, SameLists
<1>4. ListTypes'
  BY <1>1, <1>2, PushedNode DEF ListInd, ListTypes, ListStep
<1>5. /\ Linked(prio, n - 1) /\ EndsAt(prio, n - 1) /\ next[node] = NULL
      /\ prio \in Priority /\ n \in Nat /\ n > 0
  BY <1>1, <1>2, PushedNode DEF ListInd, Links, Half
<1>6. l = IF n = 1 THEN prio ELSE List(prio)[n - 1]
  BY <1>5 DEF EndsAt, List
<1>7. ASSUME n # 1 PROVE n - 1 \in 1 .. n /\ l \in Task /\ l # node
  <2>1. n \in Nat /\ n > 0
    BY <1>5
  <2>2. n - 1 \in 1 .. n /\ n - 1 \in 1 .. n - 1
    BY <1>7, <2>1, LastButOne
  <2>3. l = List(prio)[n - 1]
    BY <1>6, <1>7
  <2> QED BY <1>2, <1>5, <2>2, <2>3, ListTyped, PushedNode DEF ListInd
<1>8. l \in Link /\ next'[l] = node /\ \A a \in Link \ {l} : next'[a] = next[a]
  BY <1>1, <1>5, <1>6, <1>7 DEF ListInd, ListTypes, Link
<1>9. ASSUME NEW q \in Priority \ {prio}
      PROVE  /\ tail'[q] = tail[q] /\ next'[q] = next[q]
             /\ \A i \in 1 .. Len(List(q)) : next'[List(q)[i]] = next[List(q)[i]]
  <2>1. q # l
    BY <1>6, <1>7, Constants
  <2>2. ASSUME NEW i \in 1 .. Len(List(q)) PROVE List(q)[i] \in Task /\ List(q)[i] # l
    <3>1. List(q)[i] \in Task
      BY ListTyped DEF ListInd
    <3>2. CASE n = 1
      BY <1>5, <1>6, <3>1, <3>2, Constants
    <3>3. CASE n # 1
      BY <1>5, <1>6, <1>7, <3>1, <3>3 DEF ListInd, Apart
    <3> QED BY <3>1, <3>2, <3>3
  <2> QED BY <1>1, <1>8, <2>1, <2>2 DEF Link
<1>10. \A q \in Priority \ {prio} : Whole(q)'
  BY <1>1, <1>9, OthersWhole
<1>11. Linked(prio, n)'
  <2>1. node \in Task /\ node \in Link /\ node # l /\ List(prio)[n] = node
    BY <1>2, <1>5, <1>6, <1>7, PushedNode
  <2>2. next'[node] = NULL
    BY <1>5, <1>8, <2>1
  <2>3. next'[prio] = List(prio)[1]
    <3>1. CASE n = 1
      BY <1>6, <1>8, <2>1, <3>1
    <3>2. CASE n # 1
      <4>1. next[prio] = List(prio)[1] /\ prio # l /\ prio \in Link
        BY <1>5, <1>7, <3>2, Constants DEF Linked, List, Link
      <4> QED BY <1>8, <4>1
    <3> QED BY <3>1, <3>2
  <2>4. ASSUME NEW i \in 1 .. n - 1 PROVE next'[List(prio)[i]] = List(prio)[i + 1]
    <3>1. List(prio)[i] \in Task /\ List(prio)[i] \in Link /\ i \in 1 .. n
      BY <1>5, ListTyped DEF ListInd, Link
    <3>2. CASE i = n - 1
      BY <1>5, <1>6, <1>8, <2>1, <3>2
    <3>3. CASE i # n - 1
      <4>1. next[List(prio)[i]] = List(prio)[i + 1]
        BY <1>5, <3>3 DEF Linked, List
      <4>2. List(prio)[i] # l
        <5>1. n # 1 /\ n - 1 \in 1 .. n
          BY <1>5, <3>3, LastButOne
        <5> QED BY <1>5, <1>6, <3>1, <3>3, <5>1 DEF ListInd, Apart
      <4> QED BY <1>8, <3>1, <4>1, <4>2
    <3> QED BY <3>2, <3>3
  <2>5. \A i \in 1 .. n : next'[List(prio)[i]] = IF i = n THEN NULL ELSE List(prio)[i + 1]
    BY <1>5, <2>1, <2>2, <2>4
  <2> QED BY <1>1, <1>5, <2>3, <2>5 DEF Linked, List
<1>12. EndsAt(prio, n - 1)'
  BY <1>1, <1>5 DEF EndsAt, List
<1>13. Links'
  BY <1>1, <1>10, <1>11, <1>12 DEF Links, Half, List
<1>14. Bits'
  BY <1>1 DEF ListInd, Bits, List
<1> QED BY <1>3, <1>4, <1>13, <1>14 DEF ListInd

LEMMA PushTailKeeps ==
  ASSUME ListInd, PushTail
  PROVE  ListInd'
<1> DEFINE n == Len(List(prio))
<1>1. /\ access = "push_tail" /\ access' = "set_load"
      /\ tail' = [tail EXCEPT ![prio] = next[tail[prio]]]
      /\ UNCHANGED <<next, bitmap, out, node, prio, loaded, abs>>
  BY DEF PushTail
<1>2. access \in Pushing /\ access' \in Pushing /\ access \notin Popping /\ access' \notin Popping
  BY <1>1 DEF Pushing, Popping
<1>3. Apart' /\ NodeKnown'
  BY <1>1, <1>2, SameLists
<1>4. Linked(prio, n) /\ EndsAt(prio, n - 1) /\ prio \in Priority /\ n \in Nat /\ n > 0
  BY <1>1, <1>2, PushedNode DEF ListInd, Links, Half
<1>5. next[tail[prio]] = List(prio)[n]
  <2>1. CASE n = 1
    BY <1>4, <2>1 DEF Linked, EndsAt, List
  <2>2. CASE n # 1
    <3>1. n \in Nat /\ n > 0 /\ n # 1
      BY <1>4, <2>2
    <3>2. n - 1 \in 1 .. n /\ n - 1 # 0
      BY <3>1, LastButOne
    <3>3. tail[prio] = List(prio)[n - 1]
      BY <1>4, <3>2 DEF EndsAt, List
    <3>4. next[List(prio)[n - 1]] = List(prio)[n - 1 + 1]
      BY <1>4, <3>2 DEF Linked, List
    <3> QED BY <3>1, <3>3, <3>4
  <2> QED BY <2>1, <2>2
<1>6. List(prio)[n] \in Link
  BY <1>4, ListTyped DEF ListInd, Link
<1>7. ListTypes'
  BY <1>1, <1>4, <1>5, <1>6 DEF ListInd, ListTypes, ListStep
<1>8. tail'[prio] = List(prio)[n] /\ \A q \in Priority \ {prio} : tail'[q] = tail[q]
  BY <1>1, <1>4, <1>5 DEF ListInd, ListTypes
<1>9. \A q \in Priority \ {prio} : Whole(q)'
  BY <1>1, <1>8, OthersWhole
<1>10. Whole(prio)'
  BY <1>1, <1>4, <1>8 DEF Whole, Linked, EndsAt, List
<1>11. Links'
  BY <1>1, <1>9, <1>10 DEF Links, Half
<1>12. Bits'
  BY <1>1 DEF ListInd, Bits, List
<1> QED BY <1>3, <1>7, <1>11, <1>12 DEF ListInd

\* The loads of the bitmap.
LEMMA LoadsKeep ==
  ASSUME ListInd, SetLoad \/ ClearLoad
  PROVE  ListInd'
<1>1. /\ \/ access = "set_load" /\ access' = "set_store"
         \/ access = "clear_load" /\ access' = "clear_store"
      /\ loaded' = bitmap /\ UNCHANGED <<next, tail, bitmap, out, node, prio, abs>>
  BY DEF SetLoad, ClearLoad
<1>2. access # "idle" /\ access' # "idle"
      /\ (access' \in Pushing <=> access \in Pushing) /\ (access' \in Popping <=> access \in Popping)
  BY <1>1 DEF Pushing, Popping
<1>3. Apart' /\ NodeKnown'
  BY <1>1, <1>2, SameLists
<1>4. ListTypes'
  BY <1>1 DEF ListInd, ListTypes, ListStep
<1>5. \A q \in Priority \ {prio} : Whole(q)'
  BY <1>1, <1>2, OthersWhole
<1>6. prio \in Priority /\ Whole(prio)'
  BY <1>1 DEF ListInd, ListTypes, Links, Half, Whole, Linked, EndsAt, List
<1>7. Links'
  BY <1>1, <1>5, <1>6 DEF Links, Half
<1>8. Bits'
  BY <1>1 DEF ListInd, Bits, List
<1> QED BY <1>3, <1>4, <1>7, <1>8 DEF ListInd

LEMMA SetStoreKeeps ==
  ASSUME ListInd, SetStore
  PROVE  ListInd'
<1>1. /\ access = "set_store" /\ access' = "idle" /\ bitmap' = loaded \union {prio}
      /\ node' = NULL /\ prio' = TASKPRIO_IDLE /\ loaded' = {}
      /\ UNCHANGED <<next, tail, out, abs>>
  BY DEF SetStore, Done
<1>2. access \in Pushing
  BY <1>1 DEF Pushing
<1>3. Apart'
  BY <1>1 DEF ListInd, Apart, List
<1>4. NodeKnown'
  BY <1>1 DEF ListInd, NodeKnown, Outside, List, Pushing, Popping
<1>5. ListTypes'
  BY <1>1, Constants DEF ListInd, ListTypes, ListStep
<1>6. Links'
  <2>1. \A q \in Priority : Whole(q)
    BY <1>1 DEF ListInd, Links, Half
  <2> QED BY <1>1, <2>1 DEF Links, Whole, Linked, EndsAt, List
<1>7. Bits'
  <2>1. \A q \in Priority : q \in bitmap' <=> Len(List(q)) > 0
    BY <1>1, <1>2, PushedNode DEF ListInd, Bits
  <2> QED BY <1>1, <2>1 DEF Bits, List
<1> QED BY <1>3, <1>4, <1>5, <1>6, <1>7 DEF ListInd

LEMMA PopHeadKeeps ==
  ASSUME ListInd, PopHead
  PROVE  ListInd'
<1> DEFINE n == Len(List(prio))
<1>1. /\ access = "pop_head" /\ access' = "pop_tail" /\ next' = [next EXCEPT ![prio] = next[node]]
      /\ UNCHANGED <<tail, bitmap, out, node, prio, loaded, abs>>
  BY DEF PopHead
<1>2. access \in Popping /\ access' \in Popping /\ access \notin Pushing /\ access' \notin Pushing
  BY <1>1 DEF Pushing, Popping
<1>3. Apart' /\ NodeKnown'
  BY <1>1, <1>2, SameLists
<1>4. prio \in Priority /\ prio \in Link /\ node \in Link /\ n \in Nat /\ next[node] \in Task \union {NULL}
  BY <1>2, PoppedNode DEF ListInd, ListTypes, Link
<1>5. ListTypes'
  BY <1>1, <1>4 DEF ListInd, ListTypes, ListStep
<1>6. next'[prio] = next[node] /\ \A l \in Link \ {prio} : next'[l] = next[l]
  BY <1>1, <1>4 DEF ListInd, ListTypes
<1>7. \A q \in Priority : q \in Link /\ \A i \in 1 .. Len(List(q)) : List(q)[i] \in Link \ {prio}
  BY <1>4, ListTyped, Constants DEF ListInd, Link
<1>8. \A q \in Priority \ {prio} : Whole(q)'
  BY <1>1, <1>6, <1>7, OthersWhole
<1>9. FrontStill(prio) /\ TailStill(prio)
  BY <1>1, <1>4 DEF ListInd, Links, Half
<1>10. Linked(prio, n)'
  <2>1. next'[prio] = IF n = 0 THEN NULL ELSE List(prio)[1]
    BY <1>6, <1>9 DEF FrontStill
  <2>2. \A i \in 1 .. n : next'[List(prio)[i]] = IF i = n THEN NULL ELSE List(prio)[i + 1]
    BY <1>4, <1>6, <1>7, <1>9 DEF FrontStill
  <2> QED BY <1>1, <2>1, <2>2 DEF Linked, List
<1>11. TailStill(prio)'
  BY <1>1, <1>9 DEF TailStill, List
<1>12. Links'
  BY <1>1, <1>8, <1>10, <1>11 DEF Links, Half, List
<1>13. Bits'
  BY <1>1 DEF ListInd, Bits, List
<1> QED BY <1>3, <1>5, <1>12, <1>13 DEF ListInd

LEMMA PopTailKeeps ==
  ASSUME ListInd, PopTail
  PROVE  ListInd'
<1> DEFINE n == Len(List(prio))
<1>1. /\ access = "pop_tail" /\ access' = "pop_next"
      /\ tail' = IF node = tail[prio] THEN [tail EXCEPT ![prio] = prio] ELSE tail
      /\ UNCHANGED <<next, bitmap, out, node, prio, loaded, abs>>
  BY DEF PopTail
<1>2. access \in Popping /\ access' \in Popping /\ access \notin Pushing /\ access' \notin Pushing
  BY <1>1 DEF Pushing, Popping
<1>3. Apart' /\ NodeKnown'
  BY <1>1, <1>2, SameLists
<1>4. prio \in Priority /\ prio \in Link /\ n \in Nat
  BY <1>2, PoppedNode DEF Link
<1>5. ListTypes'
  <2>1. tail' \in [Priority -> Link]
    BY <1>1, <1>4 DEF ListInd, ListTypes
  <2> QED BY <1>1, <2>1 DEF ListInd, ListTypes, ListStep
<1>6. Linked(prio, n) /\ TailStill(prio)
  BY <1>1, <1>4 DEF ListInd, Links, Half
<1>7. EndsAt(prio, n)'
  <2>1. CASE n = 0
    <3>1. tail'[prio] = prio
      BY <1>1, <1>4, <1>6, <2>1 DEF TailStill, ListInd, ListTypes
    <3> QED BY <1>1, <2>1, <3>1 DEF EndsAt, List
  <2>2. CASE n # 0
    <3>1. tail[prio] = List(prio)[n] /\ n \in 1 .. n
      BY <1>4, <1>6, <2>2 DEF TailStill
    <3>2. tail' = tail
      BY <1>1, <1>2, <1>4, <3>1, PoppedNode
    <3> QED BY <1>1, <2>2, <3>1, <3>2 DEF EndsAt, List
  <2> QED BY <2>1, <2>2
<1>8. \A q \in Priority \ {prio} : tail'[q] = tail[q]
  BY <1>1 DEF ListInd, ListTypes
<1>9. \A q \in Priority \ {prio} : Whole(q)'
  BY <1>1, <1>8, OthersWhole
<1>10. Whole(prio)'
  BY <1>1, <1>6, <1>7 DEF Whole, Linked, List
<1>11. Links'
  BY <1>1, <1>9, <1>10 DEF Links, Half
<1>12. Bits'
  BY <1>1 DEF ListInd, Bits, List
<1> QED BY <1>3, <1>5, <1>11, <1>12 DEF ListInd

LEMMA PopNextKeeps ==
  ASSUME ListInd, PopNext
  PROVE  ListInd'
<1>1. /\ access = "pop_next" /\ access' = "check_empty" /\ next' = [next EXCEPT ![node] = NULL]
      /\ UNCHANGED <<tail, bitmap, out, node, prio, loaded, abs>>
  BY DEF PopNext
<1>2. access \in Popping /\ access' \in Popping /\ access \notin Pushing /\ access' \notin Pushing
  BY <1>1 DEF Pushing, Popping
<1>3. Apart' /\ NodeKnown'
  BY <1>1, <1>2, SameLists
<1>4. ListTypes'
  BY <1>1, <1>2, PoppedNode DEF ListInd, ListTypes, ListStep
<1>5. ASSUME NEW q \in Priority PROVE Whole(q)'
  <2>1. Whole(q)
    BY <1>1 DEF ListInd, Links, Half
  <2>2. /\ q \in Link \ {node}
        /\ \A i \in 1 .. Len(List(q)) : List(q)[i] \in Link \ {node}
    BY <1>2, PoppedNode, ListTyped DEF ListInd, Link
  <2>3. \A l \in Link \ {node} : next'[l] = next[l]
    BY <1>1 DEF ListInd, ListTypes
  <2>4. List(q)' = List(q)
    BY <1>1 DEF List
  <2> QED BY <1>1, <2>1, <2>2, <2>3, <2>4, WholeStays
<1>6. Links'
  BY <1>1, <1>5 DEF Links, Half
<1>7. Bits'
  BY <1>1 DEF ListInd, Bits, List
<1> QED BY <1>3, <1>4, <1>6, <1>7 DEF ListInd

\* A list has a node exactly when its tail is not its head.
LEMMA EmptyTail ==
  ASSUME ListInd, NEW p \in Priority, EndsAt(p, Len(List(p)))
  PROVE  list_empty(p) <=> Len(List(p)) = 0
<1>1. CASE Len(List(p)) = 0
  BY <1>1 DEF EndsAt, list_empty
<1>2. CASE Len(List(p)) # 0
  <2>1. tail[p] = List(p)[Len(List(p))]
    BY <1>2 DEF EndsAt, List
  <2>2. Len(List(p)) \in 1 .. Len(List(p))
    BY <1>2, ListTyped DEF ListInd
  <2>3. tail[p] \in Task
    BY <2>1, <2>2, ListTyped DEF ListInd
  <2> QED BY <1>2, <2>3, Constants DEF list_empty
<1> QED BY <1>1, <1>2

\* The last access of a removal: the node is out, the list may be empty or not.
LEMMA PopEnds ==
  ASSUME ListInd, access \in {"check_empty", "clear_store"},
         access' = "idle", node' = NULL, prio' = TASKPRIO_IDLE, loaded' = {},
         out' = out \union {node}, bitmap' \in SUBSET Priority,
         \A q \in Priority : q \in bitmap' <=> Len(List(q)) > 0,
         UNCHANGED <<next, tail, abs>>
  PROVE  ListInd'
<1>1. access \in Popping /\ access \notin Pushing /\ access' \notin Popping /\ access' \notin Pushing
  BY DEF Popping, Pushing
<1>2. Apart'
  BY DEF ListInd, Apart, List
<1>3. NodeKnown'
  <2>1. \A t \in out' : Outside(t)
    BY <1>1, PoppedNode DEF ListInd, NodeKnown, Outside
  <2> QED BY <1>1, <2>1 DEF NodeKnown, Outside, List
<1>4. ListTypes'
  BY <1>1, Constants, PoppedNode DEF ListInd, ListTypes, ListStep
<1>5. Links'
  <2>1. \A q \in Priority : Whole(q)
    BY DEF ListInd, Links, Half
  <2> QED BY <2>1 DEF Links, Whole, Linked, EndsAt, List
<1>6. Bits'
  BY DEF Bits, List
<1> QED BY <1>2, <1>3, <1>4, <1>5, <1>6 DEF ListInd

LEMMA CheckEmptyKeeps ==
  ASSUME ListInd, CheckEmpty
  PROVE  ListInd'
<1>1. access = "check_empty" /\ UNCHANGED <<next, tail, bitmap, abs>>
  BY DEF CheckEmpty
<1>2. access \in Popping /\ access \notin Pushing /\ prio \in Priority
  BY <1>1 DEF Popping, Pushing, ListInd, ListTypes
<1>3. Whole(prio)
  BY <1>1, <1>2 DEF ListInd, Links, Half
<1>4. list_empty(prio) <=> Len(List(prio)) = 0
  BY <1>2, <1>3, EmptyTail DEF Whole
<1>5. CASE list_empty(prio)
  <2>1. access' = "clear_load" /\ UNCHANGED <<out, node, prio, loaded>>
    BY <1>5 DEF CheckEmpty
  <2>2. Apart' /\ NodeKnown'
    BY <1>1, <1>2, <2>1, SameLists DEF Popping, Pushing
  <2>3. ListTypes'
    BY <1>1, <2>1 DEF ListInd, ListTypes, ListStep
  <2>4. \A q \in Priority : Whole(q)'
    BY <1>1, <1>3 DEF ListInd, Links, Whole, Linked, EndsAt, List
  <2>5. Links'
    BY <2>1, <2>4 DEF Links, Half
  <2>6. Bits'
    BY <1>1, <1>4, <1>5, <2>1 DEF ListInd, Bits, List
  <2> QED BY <2>2, <2>3, <2>5, <2>6 DEF ListInd
<1>6. CASE ~list_empty(prio)
  <2>1. out' = out \union {node} /\ Done
    BY <1>6 DEF CheckEmpty
  <2>2. Len(List(prio)) \in Nat /\ Len(List(prio)) > 0
    BY <1>2, <1>4, <1>6, PoppedNode
  <2>3. \A q \in Priority : q \in bitmap' <=> Len(List(q)) > 0
    BY <1>1, <2>2 DEF ListInd, Bits
  <2> QED BY <1>1, <2>1, <2>3, PopEnds DEF Done, ListInd, ListTypes
<1> QED BY <1>5, <1>6

LEMMA ClearStoreKeeps ==
  ASSUME ListInd, ClearStore
  PROVE  ListInd'
<1>1. /\ access = "clear_store" /\ bitmap' = loaded \ {prio} /\ out' = out \union {node} /\ Done
      /\ UNCHANGED <<next, tail, abs>>
  BY DEF ClearStore
<1>2. \A q \in Priority : q \in bitmap' <=> Len(List(q)) > 0
  BY <1>1 DEF ListInd, Bits
<1> QED BY <1>1, <1>2, PopEnds DEF Done, ListInd, ListTypes

-----------------------------------------------------------------------------
(* The beginning of an operation, and what a handler does *)

\* A task that is appended comes last and is nowhere else.
LEMMA AppendedApart ==
  ASSUME ListInd, NEW p \in Priority, NEW t \in out, abs' = tasklist_append(abs, p, t),
         out' = out \ {t}
  PROVE  Apart' /\ \A u \in out' : Outside(u)'
<1> DEFINE n == Len(List(p))
<1>1. t \in Task /\ Outside(t) /\ n \in Nat
  BY ListTyped DEF ListInd, ListTypes, NodeKnown
<1>2. /\ \A q \in Priority \ {p} : List(q)' = List(q)
      /\ Len(List(p)') = n + 1
      /\ \A i \in 1 .. n : List(p)'[i] = List(p)[i]
      /\ List(p)'[n + 1] = t
  BY <1>1, Appended DEF ListInd
<1>3. \A i \in 1 .. n + 1 : i \in 1 .. n \/ i = n + 1
  BY <1>1
<1>4. ASSUME NEW q \in Priority, NEW i \in 1 .. Len(List(q)')
      PROVE  \/ i \in 1 .. Len(List(q)) /\ List(q)'[i] = List(q)[i]
             \/ q = p /\ i = n + 1 /\ List(q)'[i] = t
  BY <1>2, <1>3
<1>5. Apart'
  <2> SUFFICES ASSUME NEW q \in Priority, NEW r \in Priority,
                      NEW i \in 1 .. Len(List(q)'), NEW j \in 1 .. Len(List(r)'),
                      List(q)'[i] = List(r)'[j]
               PROVE  q = r /\ i = j
    BY DEF Apart
  <2>1. \/ i \in 1 .. Len(List(q)) /\ List(q)'[i] = List(q)[i]
        \/ q = p /\ i = n + 1 /\ List(q)'[i] = t
    BY <1>4
  <2>2. \/ j \in 1 .. Len(List(r)) /\ List(r)'[j] = List(r)[j]
        \/ r = p /\ j = n + 1 /\ List(r)'[j] = t
    BY <1>4
  <2>3. CASE i \in 1 .. Len(List(q)) /\ List(q)'[i] = List(q)[i]
    BY <1>1, <2>2, <2>3 DEF Outside, ListInd, Apart
  <2>4. CASE q = p /\ i = n + 1 /\ List(q)'[i] = t
    BY <1>1, <2>2, <2>4 DEF Outside
  <2> QED BY <2>1, <2>3, <2>4
<1>6. ASSUME NEW u \in out', NEW q \in Priority, NEW i \in 1 .. Len(List(q)')
      PROVE  List(q)'[i] # u
  <2>1. u \in out /\ u # t /\ Outside(u)
    BY DEF ListInd, NodeKnown
  <2> QED BY <1>4, <2>1 DEF Outside
<1> QED BY <1>5, <1>6 DEF Outside

LEMMA AppendStarts ==
  ASSUME ListInd, NEW t \in Task, StartAppend(t)
  PROVE  ListInd'
<1> DEFINE p == TaskPriority[t]
           n == Len(List(p))
<1>1. /\ access = "idle" /\ access' = "push_next" /\ t \in out /\ out' = out \ {t}
      /\ node' = t /\ prio' = p /\ abs' = tasklist_append(abs, p, t)
      /\ UNCHANGED <<next, tail, bitmap, loaded>>
  BY DEF StartAppend
<1>2. p \in Priority /\ n \in Nat
  BY Constants, ListTyped DEF ListInd
<1>3. /\ abs'.list \in [Priority -> Seq(Task)]
      /\ \A q \in Priority \ {p} : List(q)' = List(q)
      /\ Len(List(p)') = n + 1
      /\ \A i \in 1 .. n : List(p)'[i] = List(p)[i]
      /\ List(p)'[n + 1] = t
  BY <1>1, <1>2, Appended DEF ListInd
<1>4. Apart' /\ \A u \in out' : Outside(u)'
  BY <1>1, <1>2, AppendedApart
<1>5. NodeKnown'
  <2>1. prio' = p /\ Len(List(p)') > 0 /\ List(p)'[Len(List(p)')] = node'
    BY <1>1, <1>2, <1>3
  <2>2. List(prio)' = List(p)'
    BY <1>1 DEF List
  <2> QED BY <1>1, <1>4, <2>1, <2>2 DEF NodeKnown, Pushing, Popping
<1>6. ListTypes'
  BY <1>1, <1>2, <1>3 DEF ListInd, ListTypes, ListStep
<1>7. ASSUME NEW q \in Priority, q # prio' PROVE Whole(q)'
  <2>1. Whole(q)
    BY <1>1 DEF ListInd, Links
  <2>2. List(q)' = List(q)
    BY <1>1, <1>3, <1>7
  <2> QED BY <1>1, <2>1, <2>2, WholeStays
<1>8. Linked(p, n) /\ EndsAt(p, n)
  BY <1>1, <1>2 DEF ListInd, Links, Whole
<1>9. Len(List(prio)') - 1 = n /\ List(prio)' = List(p)'
  <2>1. List(prio)' = List(p)'
    BY <1>1 DEF List
  <2> QED BY <1>2, <1>3, <2>1
<1>10. Linked(prio, Len(List(prio)) - 1)' /\ EndsAt(prio, Len(List(prio)) - 1)'
  <2>1. \A i \in 1 .. n : i + 1 \in 1 .. n \/ i = n
    BY <1>2
  <2>2. next'[p] = IF n = 0 THEN NULL ELSE List(p)'[1]
    <3>1. n # 0 => 1 \in 1 .. n
      BY <1>2
    <3> QED BY <1>1, <1>3, <1>8, <3>1 DEF Linked, List
  <2>3. ASSUME NEW i \in 1 .. n
        PROVE  next'[List(p)'[i]] = IF i = n THEN NULL ELSE List(p)'[i + 1]
    <3>1. next[List(p)[i]] = IF i = n THEN NULL ELSE List(p)[i + 1]
      BY <1>8 DEF Linked, List
    <3> QED BY <1>1, <1>3, <2>1, <3>1
  <2>4. tail'[p] = IF n = 0 THEN p ELSE List(p)'[n]
    <3>1. n # 0 => n \in 1 .. n
      BY <1>2
    <3> QED BY <1>1, <1>3, <1>8, <3>1 DEF EndsAt, List
  <2> HIDE DEF n, p
  <2>5. prio' = p /\ abs'.list[prio'] = List(p)' /\ (Len(List(prio)) - 1)' = n
    BY <1>1, <1>9 DEF List
  <2> QED BY <2>2, <2>3, <2>4, <2>5 DEF Linked, EndsAt
<1>11. Links'
  BY <1>1, <1>7, <1>10 DEF Links, Half
<1>12. Bits'
  <2>1. ASSUME NEW q \in Priority, q # p PROVE q \in bitmap' <=> Len(List(q)') > 0
    BY <1>1, <1>3, <2>1 DEF ListInd, Bits
  <2> QED BY <1>1, <2>1 DEF Bits, List
<1> QED BY <1>4, <1>5, <1>6, <1>11, <1>12 DEF ListInd

LEMMA RemoveStarts ==
  ASSUME ListInd, NEW p \in Priority, StartRemove(p)
  PROVE  ListInd'
<1> DEFINE n == Len(List(p))
<1>1. /\ access = "idle" /\ access' = "pop_head" /\ ~list_empty(p)
      /\ node' = next[p] /\ prio' = p /\ abs' = tasklist_remove_front(abs, p)
      /\ UNCHANGED <<next, tail, bitmap, out, loaded>>
  BY DEF StartRemove
<1>2. Linked(p, n) /\ EndsAt(p, n)
  BY <1>1 DEF ListInd, Links, Whole
<1>3. n \in Nat /\ n > 0 /\ 1 \in 1 .. n /\ n \in 1 .. n
  <2>1. n \in Nat /\ n # 0
    BY <1>1, <1>2, EmptyTail, ListTyped DEF ListInd
  <2> QED BY <2>1
<1>4. /\ abs'.list \in [Priority -> Seq(Task)]
      /\ \A q \in Priority \ {p} : List(q)' = List(q)
      /\ Len(List(p)') = n - 1
      /\ \A i \in 1 .. n - 1 : List(p)'[i] = List(p)[i + 1]
  BY <1>1, <1>3, Removed DEF ListInd
<1>5. node' = List(p)[1] /\ node' \in Task
  <2>1. next[p] = List(p)[1]
    BY <1>2, <1>3 DEF Linked, List
  <2> QED BY <1>1, <1>3, <2>1, ListTyped DEF ListInd
<1>6. \A i \in 1 .. n - 1 : i + 1 \in 1 .. n /\ i + 1 # 1
  BY <1>3
\* What is in a list now was in it before, one place further behind.
<1>7. ASSUME NEW q \in Priority, NEW i \in 1 .. Len(List(q)')
      PROVE  \/ q # p /\ i \in 1 .. Len(List(q)) /\ List(q)'[i] = List(q)[i]
             \/ q = p /\ i \in 1 .. n - 1 /\ List(q)'[i] = List(p)[i + 1]
  BY <1>4
<1>8. Apart'
  <2> SUFFICES ASSUME NEW q \in Priority, NEW r \in Priority,
                      NEW i \in 1 .. Len(List(q)'), NEW j \in 1 .. Len(List(r)'),
                      List(q)'[i] = List(r)'[j]
               PROVE  q = r /\ i = j
    BY DEF Apart
  <2>1. \/ q # p /\ i \in 1 .. Len(List(q)) /\ List(q)'[i] = List(q)[i]
        \/ q = p /\ i \in 1 .. n - 1 /\ List(q)'[i] = List(p)[i + 1]
    BY <1>7
  <2>2. \/ r # p /\ j \in 1 .. Len(List(r)) /\ List(r)'[j] = List(r)[j]
        \/ r = p /\ j \in 1 .. n - 1 /\ List(r)'[j] = List(p)[j + 1]
    BY <1>7
  <2>3. CASE q # p /\ r # p
    BY <2>1, <2>2, <2>3 DEF ListInd, Apart
  <2>4. CASE q # p /\ r = p
    BY <1>6, <2>1, <2>2, <2>4 DEF ListInd, Apart
  <2>5. CASE q = p /\ r # p
    BY <1>6, <2>1, <2>2, <2>5 DEF ListInd, Apart
  <2>6. CASE q = p /\ r = p
    <3>1. i + 1 = j + 1
      BY <1>6, <2>1, <2>2, <2>6 DEF ListInd, Apart
    <3> QED BY <2>1, <2>2, <2>6, <3>1
  <2> QED BY <2>3, <2>4, <2>5, <2>6
<1>9. NodeKnown'
  <2>1. ASSUME NEW u \in out PROVE Outside(u)'
    <3>1. Outside(u)
      BY DEF ListInd, NodeKnown
    <3>2. ASSUME NEW q \in Priority, NEW i \in 1 .. Len(List(q)') PROVE List(q)'[i] # u
      BY <1>6, <1>7, <3>1 DEF Outside
    <3> QED BY <3>2 DEF Outside
  <2>2. node' \notin out
    BY <1>3, <1>5 DEF ListInd, NodeKnown, Outside
  <2>3. Outside(node)'
    <3>1. ASSUME NEW q \in Priority, NEW i \in 1 .. Len(List(q)') PROVE List(q)'[i] # node'
      BY <1>3, <1>5, <1>6, <1>7 DEF ListInd, Apart
    <3> QED BY <3>1 DEF Outside
  <2> QED BY <1>1, <1>5, <2>1, <2>2, <2>3 DEF NodeKnown, Pushing, Popping
<1>10. ListTypes'
  BY <1>1, <1>4, <1>5 DEF ListInd, ListTypes, ListStep
<1>11. ASSUME NEW q \in Priority, q # p PROVE Whole(q)'
  <2>1. Whole(q) /\ List(q)' = List(q)
    BY <1>1, <1>4, <1>11 DEF ListInd, Links
  <2> QED BY <1>1, <2>1, WholeStays
<1>12. List(prio)' = List(p)' /\ Len(List(prio)') = n - 1
  <2>1. List(prio)' = List(p)'
    BY <1>1 DEF List
  <2> QED BY <1>4, <2>1
<1>13. \A i \in 1 .. n : next[List(p)[i]] = IF i = n THEN NULL ELSE List(p)[i + 1]
  BY <1>2 DEF Linked, List
<1>14. FrontStill(prio)'
  <2>1. next'[prio'] = node'
    BY <1>1
  <2>2. next'[node'] = IF n - 1 = 0 THEN NULL ELSE List(p)'[1]
    <3>1. next'[node'] = IF 1 = n THEN NULL ELSE List(p)[1 + 1]
      BY <1>1, <1>3, <1>5, <1>13
    <3>2. n - 1 = 0 <=> 1 = n
      BY <1>3, LastButOne
    <3>3. n - 1 # 0 => 1 \in 1 .. n - 1
      BY <1>3, <3>2, LastButOne
    <3>4. n - 1 # 0 => List(p)'[1] = List(p)[1 + 1]
      BY <1>4, <3>3
    <3> QED BY <3>1, <3>2, <3>4
  <2>3. ASSUME NEW i \in 1 .. n - 1
        PROVE  next'[List(p)'[i]] = IF i = n - 1 THEN NULL ELSE List(p)'[i + 1]
    <3>1. next[List(p)[i + 1]] = IF i + 1 = n THEN NULL ELSE List(p)[i + 1 + 1]
      BY <1>6, <1>13
    <3>2. i + 1 = n <=> i = n - 1
      BY <1>3
    <3>3. i # n - 1 => i + 1 \in 1 .. n - 1
      BY <1>3
    <3> QED BY <1>1, <1>4, <3>1, <3>2, <3>3
  <2> HIDE DEF n
  <2> QED BY <1>12, <2>1, <2>2, <2>3 DEF FrontStill
<1>15. TailStill(prio)'
  <2>1. tail[p] = List(p)[n]
    BY <1>2, <1>3 DEF EndsAt, List
  <2>2. n - 1 = 0 => n = 1
    BY <1>3
  <2>3. n - 1 # 0 => n - 1 \in 1 .. n - 1 /\ n - 1 + 1 = n
    <3>1. n \in Nat /\ n > 0
      BY <1>3
    <3>2. (n - 1 = 0 <=> n = 1) /\ n - 1 + 1 = n
      BY <3>1, LastButOne
    <3>3. n # 1 => n - 1 \in 1 .. n - 1
      BY <3>1, LastButOne
    <3> QED BY <3>2, <3>3
  <2>4. tail'[prio'] = IF n - 1 = 0 THEN node' ELSE List(p)'[n - 1]
    <3>1. tail'[prio'] = List(p)[n]
      BY <1>1, <2>1
    <3>2. n - 1 = 0 => List(p)[n] = node'
      BY <1>5, <2>2
    <3>3. n - 1 # 0 => List(p)'[n - 1] = List(p)[n]
      BY <1>4, <2>3
    <3> QED BY <3>1, <3>2, <3>3
  <2> HIDE DEF n
  <2> QED BY <1>12, <2>4 DEF TailStill
<1>16. Links'
  BY <1>1, <1>11, <1>14, <1>15 DEF Links, Half
<1>17. Bits'
  <2>1. ASSUME NEW q \in Priority, q # p PROVE q \in bitmap' <=> Len(List(q)') > 0
    BY <1>1, <1>4, <2>1 DEF ListInd, Bits
  <2>2. p \in bitmap'
    BY <1>1, <1>3 DEF ListInd, Bits
  <2> QED BY <1>1, <2>1, <2>2 DEF Bits, List
<1> QED BY <1>8, <1>9, <1>10, <1>16, <1>17 DEF ListInd

\* A handler appends between two operations of the task.
LEMMA HandlerKeeps ==
  ASSUME ListInd, access = "idle", NEW t \in Task, HandlerAppend(t)
  PROVE  ListInd'
<1> DEFINE p == TaskPriority[t]
           n == Len(List(p))
           l == tail[p]
<1>1. /\ t \in out /\ out' = out \ {t} /\ next' = [next EXCEPT ![t] = NULL, ![l] = t]
      /\ tail' = [tail EXCEPT ![p] = t] /\ bitmap' = bitmap \union {p}
      /\ abs' = tasklist_append(abs, p, t) /\ UNCHANGED <<access, node, prio, loaded>>
  BY DEF HandlerAppend
<1>2. p \in Priority /\ n \in Nat /\ t \notin Priority /\ Outside(t)
  BY <1>1, Constants, ListTyped DEF ListInd, NodeKnown
<1>3. /\ abs'.list \in [Priority -> Seq(Task)]
      /\ \A q \in Priority \ {p} : List(q)' = List(q)
      /\ Len(List(p)') = n + 1
      /\ \A i \in 1 .. n : List(p)'[i] = List(p)[i]
      /\ List(p)'[n + 1] = t
  BY <1>1, <1>2, Appended DEF ListInd
<1>4. Apart' /\ \A u \in out' : Outside(u)'
  BY <1>1, <1>2, AppendedApart
<1>5. NodeKnown'
  BY <1>1, <1>4 DEF NodeKnown, Pushing, Popping
<1>6. Linked(p, n) /\ l = IF n = 0 THEN p ELSE List(p)[n]
  BY <1>1, <1>2 DEF ListInd, Links, Whole, EndsAt, List
<1>7. n # 0 => n \in 1 .. n /\ l \in Task
  <2>1. n # 0 => n \in 1 .. n
    BY <1>2
  <2> QED BY <1>2, <1>6, <2>1, ListTyped DEF ListInd
<1>8. l \in Link /\ t \in Link /\ l # t
  BY <1>1, <1>2, <1>6, <1>7 DEF Outside, Link
<1>9. /\ next' \in [Link -> Task \union {NULL}]
      /\ next'[l] = t /\ next'[t] = NULL /\ \A a \in Link \ {l, t} : next'[a] = next[a]
  BY <1>1, <1>8 DEF ListInd, ListTypes
<1>10. ListTypes'
  BY <1>1, <1>2, <1>3, <1>8, <1>9 DEF ListInd, ListTypes, ListStep
<1>11. ASSUME NEW q \in Priority, q # p PROVE Whole(q)'
  <2>1. Whole(q) /\ List(q)' = List(q) /\ tail'[q] = tail[q]
    BY <1>1, <1>3, <1>11 DEF ListInd, Links, ListTypes
  <2>2. q \in Link \ {l, t}
    BY <1>6, <1>7, <1>11, Constants DEF Link
  <2>3. ASSUME NEW i \in 1 .. Len(List(q)) PROVE List(q)[i] \in Link \ {l, t}
    <3>1. List(q)[i] \in Task /\ List(q)[i] # t
      BY <1>2, ListTyped DEF ListInd, Outside
    <3>2. CASE n = 0
      BY <1>2, <1>6, <3>1, <3>2, Constants DEF Link
    <3>3. CASE n # 0
      BY <1>2, <1>6, <1>7, <1>11, <3>1, <3>3 DEF ListInd, Apart, Link
    <3> QED BY <3>2, <3>3
  <2> QED BY <1>9, <2>1, <2>2, <2>3, WholeStays
<1>12. Whole(p)'
  <2>1. tail'[p] = t /\ n + 1 # 0
    BY <1>1, <1>2 DEF ListInd, ListTypes
  <2>2. next'[p] = List(p)'[1]
    <3>1. CASE n = 0
      BY <1>3, <1>6, <1>9, <3>1
    <3>2. CASE n # 0
      <4>1. 1 \in 1 .. n
        BY <1>2, <3>2
      <4>2. next[p] = List(p)[1]
        BY <1>6, <3>2 DEF Linked, List
      <4>3. p \in Link \ {l, t}
        BY <1>2, <1>7, <3>2, Constants DEF Link
      <4> QED BY <1>3, <1>9, <4>1, <4>2, <4>3
    <3> QED BY <3>1, <3>2
  <2>3. ASSUME NEW i \in 1 .. n PROVE next'[List(p)'[i]] = List(p)'[i + 1] /\ i # n + 1
    <3>1. List(p)[i] \in Task /\ List(p)[i] # t /\ n # 0 /\ i # n + 1 /\ i + 1 \in 1 .. n + 1
      BY <1>2, ListTyped DEF ListInd, Outside
    <3>2. CASE i = n
      BY <1>3, <1>6, <1>9, <3>1, <3>2
    <3>3. CASE i # n
      <4>1. i + 1 \in 1 .. n
        BY <1>2, <3>3
      <4>2. next[List(p)[i]] = List(p)[i + 1]
        BY <1>6, <3>3 DEF Linked, List
      <4>3. List(p)[i] # l
        BY <1>2, <1>6, <1>7, <3>1, <3>3 DEF ListInd, Apart
      <4> QED BY <1>3, <1>9, <3>1, <4>1, <4>2, <4>3 DEF Link
    <3> QED BY <3>1, <3>2, <3>3
  <2>4. ASSUME NEW i \in 1 .. n + 1
        PROVE  next'[List(p)'[i]] = IF i = n + 1 THEN NULL ELSE List(p)'[i + 1]
    <3>1. i \in 1 .. n \/ i = n + 1
      BY <1>2
    <3> QED BY <1>3, <1>9, <2>3, <3>1
  <2>5. Len(List(p))' = n + 1 /\ p' = p
    BY <1>3
  <2> HIDE DEF n, p
  <2> QED BY <1>3, <2>1, <2>2, <2>4, <2>5 DEF Whole, Linked, EndsAt, List
<1>13. Links'
  BY <1>1, <1>11, <1>12 DEF Links
<1>14. Bits'
  <2>1. Len(List(p)') > 0
    BY <1>2, <1>3
  <2>2. ASSUME NEW q \in Priority, q # p PROVE q \in bitmap' <=> Len(List(q)') > 0
    BY <1>1, <1>3, <2>2 DEF ListInd, Bits
  <2> QED BY <1>1, <2>1, <2>2 DEF Bits
<1> QED BY <1>4, <1>5, <1>10, <1>13, <1>14 DEF ListInd

-----------------------------------------------------------------------------

LEMMA ListsStart == ListInit => ListInd
<1> SUFFICES ASSUME ListInit PROVE ListInd
  OBVIOUS
<1>1. \A p \in Priority : List(p) = <<>>
  BY DEF ListInit, EmptyReady, List
<1>2. abs.list \in [Priority -> Seq(Task)]
  BY DEF ListInit, EmptyReady
<1>3. ListTypes
  BY <1>2, Constants DEF ListInit, ListTypes, Link, ListStep
<1>4. Apart /\ NodeKnown /\ Bits
  BY <1>1 DEF Apart, NodeKnown, Outside, Bits, ListInit, Pushing, Popping
<1>5. Links
  BY <1>1 DEF Links, Whole, Linked, EndsAt, ListInit, Link, List
<1> QED BY <1>3, <1>4, <1>5 DEF ListInd

LEMMA AccessKeeps == ListInd /\ ListAccess => ListInd'
BY PushNextKeeps, PushLinkKeeps, PushTailKeeps, LoadsKeep, SetStoreKeeps, PopHeadKeeps,
   PopTailKeeps, PopNextKeeps, CheckEmptyKeeps, ClearStoreKeeps, AppendStarts, RemoveStarts
   DEF ListAccess

\* The invariant is more than what is asked for between two operations.
LEMMA ListsFollow == ListInd => ListTypeOK /\ ReadyCoherent
<1> SUFFICES ASSUME ListInd PROVE ListTypeOK /\ ReadyCoherent
  OBVIOUS
<1>1. ListTypeOK
  BY DEF ListInd, ListTypes, ListTypeOK
<1>2. ListsCoherent
  BY DEF ListInd, Links, Whole, ListsCoherent, List
<1>3. BitmapCoherent
  <2> SUFFICES ASSUME access = "idle" PROVE bitmap = {p \in Priority : ~list_empty(p)}
    BY DEF BitmapCoherent
  <2>1. ASSUME NEW p \in Priority PROVE p \in bitmap <=> ~list_empty(p)
    <3>1. list_empty(p) <=> Len(List(p)) = 0
      BY EmptyTail DEF ListInd, Links, Whole
    <3>2. p \in bitmap <=> Len(List(p)) > 0
      BY DEF ListInd, Bits
    <3>3. Len(List(p)) \in Nat
      BY ListTyped DEF ListInd
    <3> QED BY <3>1, <3>2, <3>3
  <2> QED BY <2>1 DEF ListInd, ListTypes
<1> QED BY <1>1, <1>2, <1>3 DEF ReadyCoherent

-----------------------------------------------------------------------------
(* The contexts *)

M == ShieldableMax

\* The contexts below c have left b in BASEPRI and k in the count; at the step it is
\* at, c has made bp and n of them.  A handler has one block, and one that BASEPRI holds
\* back has found it at 0.
At(c, b, k, bp, n) ==
  /\ bp = IF irq_pc[c] \in {"out", "mrs"} \/ (irq_pc[c] = "msr" /\ depth[c] = 0) THEN b ELSE M
  /\ n = k + depth[c] + IF irq_pc[c] = "dec_store" THEN 1 ELSE 0
  /\ irq_pc[c] \in {"inc_store", "dec_store"} => tmp[c] = n
  /\ irq_pc[c] # "mrs" => prev[c] = b
  /\ irq_pc[c] = "in" => depth[c] > 0
  /\ irq_pc[c] \in {"out", "mrs", "restore"} => depth[c] = 0
  /\ c = "task" => irq_pc[c] # "mrs" /\ b = 0 /\ k = 0
  /\ c # "task" => irq_pc[c] # "out" /\ depth[c] = IF irq_pc[c] = "in" THEN 1 ELSE 0
  /\ c # "task" /\ HeldBack(c) => b = 0

AtTask(bp, n) == At("task", 0, 0, bp, n)

\* Something is counted only while BASEPRI is that of irq_disable.
Sane(b, k) == b \in {0, M} /\ k \in Nat /\ (k > 0 => b = M)

Off(h) == irq_pc[h] = "out" /\ depth[h] = 0

\* The contexts on the core, a more urgent one before a less urgent one.
Alone ==
  /\ core = <<"task">> /\ AtTask(basepri, nesting)
  /\ \A h \in Handler : Off(h)

OneHandler(h, b, k) ==
  /\ core = <<h, "task">>
  /\ AtTask(b, k) /\ At(h, b, k, basepri, nesting)
  /\ \A g \in Handler \ {h} : Off(g)

TwoHandlers(g, h, b, k, c, m) ==
  /\ PriorityOf(g) < PriorityOf(h) /\ core = <<g, h, "task">>
  /\ AtTask(b, k) /\ At(h, b, k, c, m) /\ At(g, c, m, basepri, nesting)

OnCore ==
  \/ Alone
  \/ \E h \in Handler, b \in Int, k \in Int : OneHandler(h, b, k)
  \/ \E g, h \in Handler, b, k, c, m \in Int : TwoHandlers(g, h, b, k, c, m)

Types ==
  /\ config \in Configs
  /\ irq_pc \in [IrqContext -> IrqStep]
  /\ depth \in [IrqContext -> Nat]
  /\ tmp \in [IrqContext -> Nat]
  /\ prev \in [IrqContext -> {0, M}]

Ind == Types /\ OnCore

-----------------------------------------------------------------------------

LEMMA Priorities ==
  ASSUME config \in Configs
  PROVE  M \in Int /\ \A c \in IrqContext : PriorityOf(c) \in Int
<1>1. /\ config.SHIELDABLE_MAX \in Int /\ config.KERNEL_PRIORITY \in Int
      /\ config.device \in Int /\ config.granule \in Int /\ config.granule > 0
  BY IrqAssumption
<1>2. ASSUME NEW p \in Int PROVE Implemented(p) \in Int
  BY <1>1 DEF Implemented
<1> QED BY <1>1, <1>2 DEF M, ShieldableMax, PriorityOf

\* What a context leaves is sane if what it found was.
LEMMA LeavesSane ==
  ASSUME Types, NEW c \in IrqContext, NEW b, NEW k, NEW bp, NEW n,
         Sane(b, k), At(c, b, k, bp, n)
  PROVE  Sane(bp, n)
<1>1. depth[c] \in Nat
  BY DEF Types
<1> QED BY <1>1 DEF Sane, At

LEMMA TaskSane ==
  ASSUME Types, NEW bp, NEW n, AtTask(bp, n)
  PROVE  Sane(bp, n)
<1>1. Sane(0, 0) /\ "task" \in IrqContext
  BY DEF Sane, IrqContext
<1> QED BY <1>1, LeavesSane DEF AtTask

LEMMA SaneInt ==
  ASSUME config \in Configs, NEW b, NEW k, Sane(b, k)
  PROVE  b \in Int /\ k \in Int
BY Priorities DEF Sane

LEMMA IrqStarts == IrqInit => Ind
<1> SUFFICES ASSUME IrqInit PROVE Ind
  OBVIOUS
<1>1. Types
  BY DEF IrqInit, Types, IrqStep
<1>2. Alone
  BY DEF IrqInit, Alone, AtTask, At, Off, IrqContext, Handler
<1> QED BY <1>1, <1>2 DEF Ind, OnCore

\* What a step does to the other contexts than its own.
Others(c) ==
  /\ config' = config
  /\ \A d \in IrqContext \ {c} :
       irq_pc'[d] = irq_pc[d] /\ depth'[d] = depth[d] /\ tmp'[d] = tmp[d] /\ prev'[d] = prev[d]

LEMMA OthersStay ==
  ASSUME NEW c, Others(c), NEW d \in IrqContext \ {c}
  PROVE  /\ \A b, k, bp, n : At(d, b, k, bp, n) => At(d, b, k, bp, n)'
         /\ Off(d) => Off(d)'
<1>1. M' = M /\ HeldBack(d)' = HeldBack(d)
  BY DEF Others, M, ShieldableMax, HeldBack, PriorityOf, Implemented
<1> QED BY <1>1 DEF Others, At, Off

LEMMA PriorityStays ==
  ASSUME config' = config
  PROVE  M' = M /\ \A c : PriorityOf(c)' = PriorityOf(c) /\ (HeldBack(c)' <=> HeldBack(c))
BY DEF M, ShieldableMax, HeldBack, PriorityOf, Implemented

\* The context that runs makes a step, and goes on.
LEMMA GoesOn ==
  ASSUME Ind, NEW c \in IrqContext, Head(core) = c, core' = core, Types', Others(c),
         \A b, k \in Int : Sane(b, k) /\ At(c, b, k, basepri, nesting)
                             => At(c, b, k, basepri, nesting)'
  PROVE  Ind'
<1> USE DEF Ind
<1>1. Handler \subseteq IrqContext /\ "task" \in IrqContext /\ "task" \notin Handler
  BY DEF IrqContext, Handler
<1>2. CASE Alone
  <2>1. c = "task" /\ At(c, 0, 0, basepri, nesting)
    BY <1>2 DEF Alone, AtTask
  <2>2. At(c, 0, 0, basepri, nesting)'
    BY <2>1 DEF Sane
  <2>3. \A h \in Handler : Off(h)'
    BY <1>1, <1>2, <2>1, OthersStay DEF Alone
  <2>4. Alone'
    BY <1>2, <2>1, <2>2, <2>3 DEF Alone, AtTask
  <2> QED BY <2>4 DEF OnCore
<1>3. ASSUME NEW h \in Handler, NEW b \in Int, NEW k \in Int, OneHandler(h, b, k)
      PROVE  Ind'
  <2>1. c = h /\ At(c, b, k, basepri, nesting) /\ Sane(b, k)
    BY <1>3, TaskSane DEF OneHandler
  <2>2. At(c, b, k, basepri, nesting)'
    BY <2>1
  <2>3. AtTask(b, k)'
    BY <1>1, <1>3, <2>1, OthersStay DEF OneHandler, AtTask
  <2>4. \A g \in Handler \ {h} : Off(g)'
    BY <1>1, <1>3, <2>1, OthersStay DEF OneHandler
  <2>5. OneHandler(h, b, k)'
    BY <1>3, <2>1, <2>2, <2>3, <2>4 DEF OneHandler
  <2> QED BY <2>5 DEF OnCore
<1>4. ASSUME NEW g \in Handler, NEW h \in Handler,
             NEW b \in Int, NEW k \in Int, NEW v \in Int, NEW m \in Int,
             TwoHandlers(g, h, b, k, v, m)
      PROVE  Ind'
  <2>1. c = g /\ At(c, v, m, basepri, nesting) /\ PriorityOf(g) < PriorityOf(h)
    BY <1>4 DEF TwoHandlers
  <2>2. g # h
    BY <1>1, <2>1, Priorities DEF Types
  <2>3. Sane(v, m)
    BY <1>1, <1>4, TaskSane, LeavesSane DEF TwoHandlers
  <2>4. At(c, v, m, basepri, nesting)'
    BY <2>1, <2>3
  <2>5. AtTask(b, k)' /\ At(h, b, k, v, m)'
    BY <1>1, <1>4, <2>1, <2>2, OthersStay DEF TwoHandlers, AtTask
  <2>6. TwoHandlers(g, h, b, k, v, m)'
    BY <1>4, <2>1, <2>4, <2>5, PriorityStays DEF TwoHandlers, Others
  <2> QED BY <2>6 DEF OnCore
<1> QED BY <1>2, <1>3, <1>4 DEF OnCore

\* A handler ends, and has left everything as it found it.
LEMMA Ends ==
  ASSUME Ind, NEW c \in Handler, Head(core) = c, core' = Tail(core), Types', Others(c),
         Off(c)',
         \A b, k \in Int : Sane(b, k) /\ At(c, b, k, basepri, nesting)
                             => basepri' = b /\ nesting' = k
  PROVE  Ind'
<1> USE DEF Ind
<1>1. Handler \subseteq IrqContext /\ "task" \in IrqContext /\ "task" \notin Handler
  BY DEF IrqContext, Handler
<1>2. CASE Alone
  BY <1>1, <1>2 DEF Alone
<1>3. ASSUME NEW h \in Handler, NEW b \in Int, NEW k \in Int, OneHandler(h, b, k)
      PROVE  Ind'
  <2>1. c = h /\ At(c, b, k, basepri, nesting) /\ Sane(b, k) /\ core' = <<"task">>
    BY <1>3, TaskSane DEF OneHandler
  <2>2. basepri' = b /\ nesting' = k
    BY <2>1
  <2>3. AtTask(b, k)'
    BY <1>1, <1>3, <2>1, OthersStay DEF OneHandler, AtTask
  <2>4. \A g \in Handler : Off(g)'
    BY <1>1, <1>3, <2>1, OthersStay DEF OneHandler
  <2>5. Alone'
    BY <2>1, <2>2, <2>3, <2>4 DEF Alone, AtTask, At
  <2> QED BY <2>5 DEF OnCore
<1>4. ASSUME NEW g \in Handler, NEW h \in Handler,
             NEW b \in Int, NEW k \in Int, NEW v \in Int, NEW m \in Int,
             TwoHandlers(g, h, b, k, v, m)
      PROVE  Ind'
  <2>1. /\ c = g /\ At(c, v, m, basepri, nesting) /\ PriorityOf(g) < PriorityOf(h)
        /\ core' = <<h, "task">>
    BY <1>4 DEF TwoHandlers
  <2>2. g # h
    BY <1>1, <2>1, Priorities DEF Types
  <2>3. Sane(v, m)
    BY <1>1, <1>4, TaskSane, LeavesSane DEF TwoHandlers
  <2>4. basepri' = v /\ nesting' = m
    BY <2>1, <2>3
  <2>5. AtTask(b, k)' /\ At(h, b, k, v, m)'
    BY <1>1, <1>4, <2>1, <2>2, OthersStay DEF TwoHandlers, AtTask
  <2>6. \A f \in Handler \ {h} : Off(f)'
    BY <2>1, <2>2 DEF Handler
  <2>7. OneHandler(h, b, k)'
    BY <2>1, <2>4, <2>5, <2>6 DEF OneHandler, At
  <2> QED BY <2>7 DEF OnCore
<1> QED BY <1>2, <1>3, <1>4 DEF OnCore

LEMMA Pushed ==
  ASSUME NEW S, NEW h \in S
  PROVE  /\ \A a \in S : <<h>> \o <<a>> = <<h, a>>
         /\ \A a, b \in S : <<h>> \o <<a, b>> = <<h, a, b>>
<1>1. ASSUME NEW a \in S PROVE <<h>> \o <<a>> = <<h, a>>
  <2> DEFINE s == <<h>> \o <<a>>
             u == <<h, a>>
  <2>1. s \in Seq(S) /\ u \in Seq(S) /\ Len(s) = 2 /\ Len(u) = 2
    OBVIOUS
  <2>2. s[1] = u[1] /\ s[2] = u[2]
    OBVIOUS
  <2> HIDE DEF s, u
  <2>3. s = u
    BY <2>1, <2>2, SeqEqual
  <2> QED BY <2>3 DEF s, u
<1>2. ASSUME NEW a \in S, NEW b \in S PROVE <<h>> \o <<a, b>> = <<h, a, b>>
  <2> DEFINE s == <<h>> \o <<a, b>>
             u == <<h, a, b>>
  <2>1. s \in Seq(S) /\ u \in Seq(S) /\ Len(s) = 3 /\ Len(u) = 3
    OBVIOUS
  <2>2. s[1] = u[1] /\ s[2] = u[2] /\ s[3] = u[3]
    OBVIOUS
  <2> HIDE DEF s, u
  <2>3. s = u
    BY <2>1, <2>2, SeqEqual
  <2> QED BY <2>3 DEF s, u
<1> QED BY <1>1, <1>2

\* An interrupt comes at any step of the context that runs, in a block or not.
LEMMA Interrupts ==
  ASSUME Ind, NEW h \in Handler, TakeInterrupt(h), config' = config
  PROVE  Ind'
<1> USE DEF Ind
<1>1. /\ PriorityOf(h) < PriorityOf(Head(core)) /\ (basepri = 0 \/ PriorityOf(h) < basepri)
      /\ core' = <<h>> \o core /\ UNCHANGED <<basepri, nesting, depth, tmp, prev>>
  BY DEF TakeInterrupt
<1>2. Handler \subseteq IrqContext /\ "task" \in IrqContext /\ "task" \notin Handler
  BY DEF IrqContext, Handler
<1>3. /\ irq_pc'[h] = "mrs" /\ \A d \in IrqContext \ {h} : irq_pc'[d] = irq_pc[d]
      /\ irq_pc' \in [IrqContext -> IrqStep]
  BY <1>2 DEF TakeInterrupt, Goto, Types, IrqStep
<1>4. Others(h) /\ Types'
  BY <1>1, <1>3, PriorityStays DEF Others, Types
<1>5. ASSUME Sane(basepri, nesting), Off(h)
      PROVE  At(h, basepri, nesting, basepri, nesting)'
  <2>1. HeldBack(h) => basepri = 0
    <3>1. M \in Int /\ PriorityOf(h) \in Int
      BY <1>2, Priorities DEF Types
    <3> QED BY <1>1, <1>5, <3>1 DEF HeldBack, Sane, M
  <2>2. depth[h] = 0 /\ nesting \in Nat
    BY <1>5 DEF Off, Sane
  <2> QED BY <1>1, <1>2, <1>3, <2>1, <2>2, PriorityStays DEF At
<1>6. CASE Alone
  <2>1. Sane(basepri, nesting) /\ Off(h) /\ core' = <<h, "task">>
    BY <1>1, <1>2, <1>6, Pushed, TaskSane DEF Alone
  <2>2. AtTask(basepri, nesting)'
    BY <1>1, <1>2, <1>4, <1>6, OthersStay DEF Alone, AtTask, At
  <2>3. \A g \in Handler \ {h} : Off(g)'
    BY <1>2, <1>4, <1>6, OthersStay DEF Alone
  <2>4. basepri \in Int /\ nesting \in Int
    BY <2>1, SaneInt DEF Types
  <2>5. AtTask(basepri, nesting)' /\ At(h, basepri, nesting, basepri, nesting)'
    BY <1>5, <2>1, <2>2
  <2>6. PICK b \in Int, k \in Int : b = basepri /\ k = nesting
    BY <2>4
  <2>7. AtTask(b, k)' /\ At(h, b, k, basepri, nesting)'
    BY <1>1, <2>5, <2>6 DEF AtTask, At
  <2>8. OneHandler(h, b, k)'
    BY <2>1, <2>3, <2>7 DEF OneHandler
  <2> QED BY <1>4, <2>8 DEF OnCore
<1>7. ASSUME NEW g \in Handler, NEW b \in Int, NEW k \in Int, OneHandler(g, b, k)
      PROVE  Ind'
  <2>1. Head(core) = g /\ core' = <<h, g, "task">>
    <3>1. <<h>> \o <<g, "task">> = <<h, g, "task">>
      BY <1>2, Pushed
    <3> QED BY <1>1, <1>7, <3>1 DEF OneHandler
  <2>2. h # g /\ PriorityOf(h) < PriorityOf(g) /\ PriorityOf(h)' < PriorityOf(g)'
    BY <1>1, <1>2, <2>1, Priorities, PriorityStays DEF Types
  <2>3. Sane(basepri, nesting) /\ Off(h)
    BY <1>2, <1>7, <2>2, TaskSane, LeavesSane DEF OneHandler
  <2>4. basepri \in Int /\ nesting \in Int
    BY <2>3, SaneInt DEF Types
  <2>5. PICK v \in Int, m \in Int : v = basepri /\ m = nesting
    BY <2>4
  <2>6. AtTask(b, k)' /\ At(g, b, k, v, m)'
    BY <1>2, <1>4, <1>7, <2>2, <2>5, OthersStay DEF OneHandler, AtTask
  <2>7. At(h, v, m, basepri, nesting)'
    BY <1>1, <1>5, <2>3, <2>5 DEF At
  <2>8. TwoHandlers(h, g, b, k, v, m)'
    BY <2>1, <2>2, <2>6, <2>7 DEF TwoHandlers
  <2> QED BY <1>4, <2>8 DEF OnCore
<1>8. ASSUME NEW f \in Handler, NEW g \in Handler,
             NEW b \in Int, NEW k \in Int, NEW v \in Int, NEW m \in Int,
             TwoHandlers(f, g, b, k, v, m)
      PROVE  FALSE
  <2>1. Head(core) = f /\ PriorityOf(f) < PriorityOf(g)
    BY <1>8 DEF TwoHandlers
  <2>2. h # f /\ h # g /\ f # g
    BY <1>1, <1>2, <2>1, Priorities DEF Types
  <2> QED BY <2>2 DEF Handler
<1> QED BY <1>6, <1>7, <1>8 DEF OnCore

-----------------------------------------------------------------------------
(* The steps of the context that runs *)

\* What the steps have in common.
LEMMA Typed ==
  ASSUME Types, NEW c \in IrqContext, NEW step \in IrqStep, Goto(c, step)
  PROVE  /\ irq_pc' \in [IrqContext -> IrqStep] /\ irq_pc'[c] = step
         /\ \A d \in IrqContext \ {c} : irq_pc'[d] = irq_pc[d]
BY DEF Types, Goto

LEMMA Sets ==
  ASSUME Ind, NEW c \in IrqContext, SetBasepri(c), config' = config
  PROVE  Ind'
<1>1. /\ Head(core) = c /\ core' = core /\ irq_pc[c] = "msr" /\ basepri' = M
      /\ Goto(c, "inc_load") /\ UNCHANGED <<nesting, depth, tmp, prev>>
  BY DEF SetBasepri, AtStep, M
<1>2. /\ irq_pc' \in [IrqContext -> IrqStep] /\ irq_pc'[c] = "inc_load" /\ M' = M
      /\ \A d \in IrqContext \ {c} : irq_pc'[d] = irq_pc[d]
  BY <1>1, Typed, PriorityStays DEF Ind, IrqStep
<1>3. Types' /\ Others(c)
  BY <1>1, <1>2 DEF Ind, Types, Others
<1>4. ASSUME NEW b \in Int, NEW k \in Int, Sane(b, k), At(c, b, k, basepri, nesting)
      PROVE  At(c, b, k, basepri, nesting)'
  BY <1>1, <1>2, <1>4, PriorityStays DEF At
<1> QED BY <1>1, <1>3, <1>4, GoesOn

\* A task begins a block, inside another one or not.
LEMMA Begins ==
  ASSUME Ind, StartDisable, config' = config
  PROVE  Ind'
<1> DEFINE c == "task"
<1>0. c \in IrqContext
  BY DEF IrqContext
<1>1. /\ Head(core) = c /\ core' = core /\ irq_pc[c] \in {"out", "in"}
      /\ Goto(c, "msr") /\ UNCHANGED <<basepri, nesting, depth, tmp, prev>>
  BY DEF StartDisable, AtStep
<1>2. /\ irq_pc' \in [IrqContext -> IrqStep] /\ irq_pc'[c] = "msr" /\ M' = M
      /\ \A d \in IrqContext \ {c} : irq_pc'[d] = irq_pc[d]
  BY <1>0, <1>1, Typed, PriorityStays DEF Ind, IrqStep
<1>3. Types' /\ Others(c)
  BY <1>1, <1>2 DEF Ind, Types, Others
<1>4. ASSUME NEW b \in Int, NEW k \in Int, Sane(b, k), At(c, b, k, basepri, nesting)
      PROVE  At(c, b, k, basepri, nesting)'
  BY <1>1, <1>2, <1>4 DEF At
<1> HIDE DEF c
<1> QED BY <1>0, <1>1, <1>3, <1>4, GoesOn

LEMMA SavesBasepri ==
  ASSUME Ind, NEW c \in Handler, SaveBasepri(c), config' = config
  PROVE  Ind'
<1>0. c \in IrqContext /\ c # "task"
  BY DEF IrqContext, Handler
<1>1. /\ Head(core) = c /\ core' = core /\ irq_pc[c] = "mrs"
      /\ Goto(c, "msr") /\ UNCHANGED <<basepri, nesting, depth, tmp>>
      /\ prev' = [prev EXCEPT ![c] = basepri]
  BY DEF SaveBasepri, AtStep
<1>2. /\ irq_pc' \in [IrqContext -> IrqStep] /\ irq_pc'[c] = "msr" /\ M' = M
      /\ \A d \in IrqContext \ {c} : irq_pc'[d] = irq_pc[d]
  BY <1>0, <1>1, Typed, PriorityStays DEF Ind, IrqStep
<1>3. prev'[c] = basepri /\ \A d \in IrqContext \ {c} : prev'[d] = prev[d]
  BY <1>0, <1>1 DEF Ind, Types
<1>4. basepri \in {0, M}
  <2>1. Handler \subseteq IrqContext /\ "task" \in IrqContext
    BY DEF IrqContext
  <2>2. Sane(basepri, nesting)
    BY <2>1, TaskSane, LeavesSane DEF Ind, OnCore, Alone, OneHandler, TwoHandlers
  <2> QED BY <2>2 DEF Sane
<1>5. Types' /\ Others(c)
  BY <1>0, <1>1, <1>2, <1>3, <1>4 DEF Ind, Types, Others
<1>6. ASSUME NEW b \in Int, NEW k \in Int, Sane(b, k), At(c, b, k, basepri, nesting)
      PROVE  At(c, b, k, basepri, nesting)'
  BY <1>0, <1>1, <1>2, <1>3, <1>6, PriorityStays DEF At
<1> QED BY <1>0, <1>1, <1>5, <1>6, GoesOn

\* The two loads of the count.
LEMMA Loads ==
  ASSUME Ind, NEW c \in IrqContext, IncLoad(c) \/ DecLoad(c), config' = config
  PROVE  Ind'
<1>1. /\ Head(core) = c /\ core' = core /\ UNCHANGED <<basepri, nesting, prev>>
      /\ tmp' = [tmp EXCEPT ![c] = nesting]
      /\ \/ irq_pc[c] = "inc_load" /\ Goto(c, "inc_store") /\ depth' = depth
         \/ irq_pc[c] = "in" /\ Goto(c, "dec_store") /\ depth' = [depth EXCEPT ![c] = @ - 1]
  BY DEF IncLoad, DecLoad, AtStep
<1>2. /\ irq_pc' \in [IrqContext -> IrqStep] /\ M' = M
      /\ \A d \in IrqContext \ {c} : irq_pc'[d] = irq_pc[d]
      /\ \/ irq_pc[c] = "inc_load" /\ irq_pc'[c] = "inc_store" /\ depth'[c] = depth[c]
         \/ irq_pc[c] = "in" /\ irq_pc'[c] = "dec_store" /\ depth'[c] = depth[c] - 1
  <2>1. \A step : Goto(c, step) => irq_pc' = [irq_pc EXCEPT ![c] = step]
    BY DEF Goto
  <2> QED BY <1>1, <2>1, PriorityStays DEF Ind, Types, IrqStep
<1>3. nesting \in Nat /\ (irq_pc[c] = "in" => depth[c] > 0)
  <2>1. Handler \subseteq IrqContext /\ "task" \in IrqContext
    BY DEF IrqContext
  <2>2. Sane(basepri, nesting)
    BY <2>1, TaskSane, LeavesSane DEF Ind, OnCore, Alone, OneHandler, TwoHandlers
  <2>3. \E b, k : At(c, b, k, basepri, nesting)
    BY <1>1 DEF Ind, OnCore, Alone, OneHandler, TwoHandlers, AtTask
  <2> QED BY <2>2, <2>3 DEF Sane, At
<1>4. /\ depth' \in [IrqContext -> Nat] /\ \A d \in IrqContext \ {c} : depth'[d] = depth[d]
  <2>1. CASE depth' = depth
    BY <2>1 DEF Ind, Types
  <2>2. CASE irq_pc[c] = "in" /\ depth' = [depth EXCEPT ![c] = @ - 1]
    <3>1. depth[c] \in Nat /\ depth[c] > 0
      BY <1>3, <2>2 DEF Ind, Types
    <3> QED BY <2>2, <3>1 DEF Ind, Types
  <2> QED BY <1>1, <2>1, <2>2
<1>5. Types' /\ Others(c) /\ tmp'[c] = nesting
  BY <1>1, <1>2, <1>3, <1>4 DEF Ind, Types, Others
<1>6. ASSUME NEW b \in Int, NEW k \in Int, Sane(b, k), At(c, b, k, basepri, nesting)
      PROVE  At(c, b, k, basepri, nesting)'
  <2>1. depth[c] \in Nat
    BY DEF Ind, Types
  <2> QED BY <1>1, <1>2, <1>5, <1>6, <2>1, PriorityStays DEF At
<1> QED BY <1>1, <1>5, <1>6, GoesOn

\* And the two stores.
LEMMA Stores ==
  ASSUME Ind, NEW c \in IrqContext, IncStore(c) \/ DecStore(c), config' = config
  PROVE  Ind'
<1>1. /\ Head(core) = c /\ core' = core /\ UNCHANGED <<basepri, prev>>
      /\ tmp' = [tmp EXCEPT ![c] = 0]
      /\ \/ /\ irq_pc[c] = "inc_store" /\ Goto(c, "in")
            /\ nesting' = tmp[c] + 1 /\ depth' = [depth EXCEPT ![c] = @ + 1]
         \/ /\ irq_pc[c] = "dec_store" /\ Goto(c, "test")
            /\ nesting' = tmp[c] - 1 /\ depth' = depth
  BY DEF IncStore, DecStore, AtStep
<1>2. /\ irq_pc' \in [IrqContext -> IrqStep] /\ M' = M
      /\ \A d \in IrqContext \ {c} : irq_pc'[d] = irq_pc[d]
      /\ \/ irq_pc[c] = "inc_store" /\ irq_pc'[c] = "in" /\ depth'[c] = depth[c] + 1
         \/ irq_pc[c] = "dec_store" /\ irq_pc'[c] = "test" /\ depth'[c] = depth[c]
  <2>1. \A step : Goto(c, step) => irq_pc' = [irq_pc EXCEPT ![c] = step]
    BY DEF Goto
  <2> QED BY <1>1, <2>1, PriorityStays DEF Ind, Types, IrqStep
<1>3. /\ depth' \in [IrqContext -> Nat] /\ \A d \in IrqContext \ {c} : depth'[d] = depth[d]
  BY <1>1 DEF Ind, Types
<1>4. Types' /\ Others(c)
  BY <1>1, <1>2, <1>3 DEF Ind, Types, Others
<1>5. ASSUME NEW b \in Int, NEW k \in Int, Sane(b, k), At(c, b, k, basepri, nesting)
      PROVE  At(c, b, k, basepri, nesting)'
  <2>1. depth[c] \in Nat /\ tmp[c] = nesting
    BY <1>1, <1>5 DEF Ind, Types, At
  <2> QED BY <1>1, <1>2, <1>5, <2>1, PriorityStays DEF At
<1> QED BY <1>1, <1>4, <1>5, GoesOn

\* A handler that returns is off the core again.
LEMMA Returns ==
  ASSUME Ind, NEW c \in Handler, Head(core) = c, Leave(c), depth[c] = 0, config' = config,
         UNCHANGED <<depth, tmp>>,
         \A b, k \in Int : Sane(b, k) /\ At(c, b, k, basepri, nesting)
                             => basepri' = b /\ nesting' = k
  PROVE  Ind'
<1>1. c \in IrqContext /\ c # "task"
  BY DEF IrqContext, Handler
<1>2. core' = Tail(core) /\ prev' = [prev EXCEPT ![c] = 0] /\ Goto(c, "out")
  BY <1>1 DEF Leave
<1>3. /\ irq_pc' \in [IrqContext -> IrqStep] /\ irq_pc'[c] = "out" /\ M' = M
      /\ \A d \in IrqContext \ {c} : irq_pc'[d] = irq_pc[d]
  BY <1>1, <1>2, Typed, PriorityStays DEF Ind, IrqStep
<1>4. Types' /\ Others(c) /\ Off(c)'
  BY <1>1, <1>2, <1>3 DEF Ind, Types, Others, Off
<1> QED BY <1>2, <1>4, Ends

\* And a task goes on, inside the outer block or in none.
LEMMA TaskLeaves ==
  ASSUME Ind, Head(core) = "task", Leave("task"), config' = config,
         UNCHANGED <<nesting, depth, tmp>>,
         basepri' = IF depth["task"] = 0 THEN 0 ELSE M,
         irq_pc["task"] \in {"test", "restore"}
  PROVE  Ind'
<1> DEFINE c == "task"
<1>0. c \in IrqContext
  BY DEF IrqContext
<1>1. /\ core' = core /\ prev' = [prev EXCEPT ![c] = 0]
      /\ Goto(c, IF depth[c] = 0 THEN "out" ELSE "in")
  BY DEF Leave
<1>2. /\ irq_pc' \in [IrqContext -> IrqStep] /\ irq_pc'[c] = (IF depth[c] = 0 THEN "out" ELSE "in")
      /\ M' = M /\ \A d \in IrqContext \ {c} : irq_pc'[d] = irq_pc[d]
  BY <1>0, <1>1, Typed, PriorityStays DEF Ind, IrqStep
<1>3. Types' /\ Others(c) /\ depth[c] \in Nat
  BY <1>0, <1>1, <1>2 DEF Ind, Types, Others
<1>4. ASSUME NEW b \in Int, NEW k \in Int, Sane(b, k), At(c, b, k, basepri, nesting)
      PROVE  At(c, b, k, basepri, nesting)'
  <2>1. prev'[c] = 0 /\ b = 0 /\ k = 0
    BY <1>0, <1>1, <1>4 DEF Ind, Types, At
  <2> QED BY <1>2, <1>3, <1>4, <2>1 DEF At
<1> HIDE DEF c
<1> QED BY <1>0, <1>1, <1>3, <1>4, GoesOn DEF c

\* The test of the count after the decrement: 0 when the block was the only one of all
\* the contexts.
LEMMA Tests ==
  ASSUME Ind, NEW c \in IrqContext, TestNesting(c), config' = config
  PROVE  Ind'
<1>1. /\ Head(core) = c /\ irq_pc[c] = "test" /\ UNCHANGED <<basepri, nesting, depth, tmp>>
      /\ depth[c] \in Nat
  BY DEF TestNesting, AtStep, Ind, Types
<1>2. CASE nesting = 0
  <2>1. Goto(c, "restore") /\ UNCHANGED <<core, prev>>
    BY <1>2 DEF TestNesting, restores
  <2>2. /\ irq_pc' \in [IrqContext -> IrqStep] /\ irq_pc'[c] = "restore" /\ M' = M
        /\ \A d \in IrqContext \ {c} : irq_pc'[d] = irq_pc[d]
    BY <2>1, Typed, PriorityStays DEF Ind, IrqStep
  <2>3. Types' /\ Others(c)
    BY <1>1, <2>1, <2>2 DEF Ind, Types, Others
  <2>4. ASSUME NEW b \in Int, NEW k \in Int, Sane(b, k), At(c, b, k, basepri, nesting)
        PROVE  At(c, b, k, basepri, nesting)'
    <3>1. depth[c] = 0
      BY <1>1, <1>2, <2>4 DEF At, Sane
    <3> QED BY <1>1, <2>1, <2>2, <2>4, <3>1, PriorityStays DEF At
  <2> QED BY <1>1, <2>1, <2>3, <2>4, GoesOn
<1>3. CASE nesting # 0 /\ c = "task"
  <2>1. Leave(c) /\ Alone
    BY <1>1, <1>3 DEF TestNesting, restores, Ind, OnCore, Alone, OneHandler, TwoHandlers, Handler
  <2>2. depth[c] # 0 /\ basepri = M
    BY <1>1, <1>3, <2>1 DEF Alone, AtTask, At
  <2> QED BY <1>1, <1>3, <2>1, <2>2, TaskLeaves
<1>4. CASE nesting # 0 /\ c # "task"
  <2>1. Leave(c) /\ c \in Handler
    BY <1>4 DEF TestNesting, restores, IrqContext
  <2>2. ASSUME NEW b \in Int, NEW k \in Int, Sane(b, k), At(c, b, k, basepri, nesting)
        PROVE  basepri' = b /\ nesting' = k /\ depth[c] = 0
    BY <1>1, <1>4, <2>2 DEF At, Sane
  <2>3. depth[c] = 0
    BY <1>1, <1>4 DEF Ind, OnCore, Alone, OneHandler, TwoHandlers, At
  <2> QED BY <1>1, <2>1, <2>2, <2>3, Returns
<1> QED BY <1>2, <1>3, <1>4

LEMMA Restores ==
  ASSUME Ind, NEW c \in IrqContext, RestoreBasepri(c), config' = config
  PROVE  Ind'
<1>1. /\ Head(core) = c /\ irq_pc[c] = "restore" /\ basepri' = prev[c] /\ Leave(c)
      /\ UNCHANGED <<nesting, depth, tmp>>
  BY DEF RestoreBasepri, AtStep
<1>2. CASE c = "task"
  <2>1. Alone
    BY <1>1, <1>2 DEF Ind, OnCore, Alone, OneHandler, TwoHandlers, Handler
  <2>2. depth[c] = 0 /\ basepri' = 0
    BY <1>1, <1>2, <2>1 DEF Alone, AtTask, At
  <2> QED BY <1>1, <1>2, <2>2, TaskLeaves
<1>3. CASE c # "task"
  <2>1. c \in Handler
    BY <1>3 DEF IrqContext
  <2>2. depth[c] = 0
    BY <1>1, <1>3 DEF Ind, OnCore, Alone, OneHandler, TwoHandlers, At
  <2>3. ASSUME NEW b \in Int, NEW k \in Int, Sane(b, k), At(c, b, k, basepri, nesting)
        PROVE  basepri' = b /\ nesting' = k
    BY <1>1, <2>2, <2>3 DEF At
  <2> QED BY <1>1, <2>1, <2>2, <2>3, Returns
<1> QED BY <1>2, <1>3

-----------------------------------------------------------------------------

LEMMA IrqKeeps == Ind /\ [AtomicNext]_atomicVars => Ind'
<1> SUFFICES ASSUME Ind, [AtomicNext]_atomicVars PROVE Ind'
  OBVIOUS
<1>0. config' = config
  BY DEF AtomicNext, atomicVars
<1>1. CASE UNCHANGED irqVars
  <2>1. Types'
    BY <1>0, <1>1, PriorityStays DEF irqVars, Ind, Types
  <2>2. /\ \A c, b, k, bp, n : At(c, b, k, bp, n)' = At(c, b, k, bp, n)
        /\ \A c : Off(c)' = Off(c) /\ PriorityOf(c)' = PriorityOf(c)
    BY <1>0, <1>1, PriorityStays DEF irqVars, At, Off
  <2>3. /\ \A bp, n : AtTask(bp, n)' = AtTask(bp, n)
        /\ core' = core /\ basepri' = basepri /\ nesting' = nesting
    BY <1>1, <2>2 DEF irqVars, AtTask
  <2>4. Alone' <=> Alone
    BY <2>2, <2>3 DEF Alone, AtTask
  <2>5. \A h, b, k : OneHandler(h, b, k)' <=> OneHandler(h, b, k)
    BY <2>2, <2>3 DEF OneHandler
  <2>6. \A g, h, b, k, c, m : TwoHandlers(g, h, b, k, c, m)' <=> TwoHandlers(g, h, b, k, c, m)
    BY <2>2, <2>3 DEF TwoHandlers
  <2> QED BY <2>1, <2>4, <2>5, <2>6 DEF Ind, OnCore
<1>2. CASE StartDisable
  BY <1>0, <1>2, Begins
<1>3. ASSUME NEW c \in IrqContext, DecLoad(c) PROVE Ind'
  BY <1>0, <1>3, Loads
<1>4. ASSUME NEW h \in Handler, TakeInterrupt(h) \/ SaveBasepri(h) PROVE Ind'
  BY <1>0, <1>4, Interrupts, SavesBasepri
<1>5. ASSUME NEW c \in IrqContext, ContextStep(c) PROVE Ind'
  BY <1>0, <1>5, Sets, Loads, Stores, Tests, Restores DEF ContextStep
<1>6. "task" \in IrqContext /\ Handler \subseteq IrqContext /\ "systick" \in IrqContext
  BY DEF IrqContext, Handler
<1>7. CASE AtomicNext
  BY <1>1, <1>2, <1>3, <1>4, <1>5, <1>6, <1>7 DEF AtomicNext, TaskAccess, TaskMasking, SysTickWakes,
     DeviceWakes, OtherIrqStep
<1>8. CASE UNCHANGED atomicVars
  BY <1>1, <1>8 DEF atomicVars, irqVars
<1> QED BY <1>7, <1>8

LEMMA IrqInvariance == AtomicSpec => []Ind
<1>1. AtomicInit => Ind
  BY IrqStarts DEF AtomicInit
<1> QED BY <1>1, IrqKeeps, PTL DEF AtomicSpec

\* What has been preempted by a handler that BASEPRI holds back is in no block.
LEMMA BelowHeldBack ==
  ASSUME M # 0, NEW c \in IrqContext, NEW b, NEW k, NEW n, At(c, b, k, 0, n)
  PROVE  b = 0 /\ depth[c] = 0
BY DEF At

\* No handler that BASEPRI should hold back runs its block while what it interrupted is
\* inside one, whatever the priorities of the system are: this is what atomic promises
\* as far as the masks go.
THEOREM MaskedBlocksExclude == AtomicSpec => []MaskedExclusion
<1>1. Ind => MaskedExclusion
  <2>1. SUFFICES ASSUME Ind, NEW c \in IrqContext, NEW d \in IrqContext,
                        c = "task" \/ HeldBack(c), d = "task" \/ HeldBack(d),
                        depth[c] > 0, depth[d] > 0
                 PROVE  c = d
    BY DEF MaskedExclusion
  <2>2. /\ "task" \in IrqContext /\ "task" \notin Handler /\ Handler \subseteq IrqContext
        /\ c \in Handler \union {"task"} /\ d \in Handler \union {"task"}
        /\ \A h \in Handler : HeldBack(h) => M # 0
    BY DEF IrqContext, Handler, HeldBack, M
  <2>3. CASE Alone
    BY <2>1, <2>2, <2>3 DEF Alone, Off
  <2>4. ASSUME NEW h \in Handler, NEW b \in Int, NEW k \in Int, OneHandler(h, b, k)
        PROVE  c = d
    <3>1. \A e \in IrqContext : depth[e] > 0 => e \in {h, "task"}
      BY <2>2, <2>4 DEF OneHandler, Off, IrqContext
    <3>2. HeldBack(h) => depth["task"] = 0
      <4>1. HeldBack(h) => b = 0 /\ M # 0
        BY <2>2, <2>4 DEF OneHandler, At
      <4> QED BY <2>2, <2>4, <4>1, BelowHeldBack DEF OneHandler, AtTask
    <3> QED BY <2>1, <2>2, <3>1, <3>2
  <2>5. ASSUME NEW g \in Handler, NEW h \in Handler,
               NEW b \in Int, NEW k \in Int, NEW v \in Int, NEW m \in Int,
               TwoHandlers(g, h, b, k, v, m)
        PROVE  c = d
    <3>1. HeldBack(g) => v = 0 /\ M # 0
      BY <2>2, <2>5 DEF TwoHandlers, At
    <3>2. HeldBack(h) => b = 0 /\ M # 0
      BY <2>2, <2>5 DEF TwoHandlers, At
    <3>3. HeldBack(g) => b = 0 /\ depth[h] = 0
      BY <2>2, <2>5, <3>1, BelowHeldBack DEF TwoHandlers
    <3>4. HeldBack(g) \/ HeldBack(h) => depth["task"] = 0
      BY <2>2, <2>5, <3>1, <3>2, <3>3, BelowHeldBack DEF TwoHandlers, AtTask
    <3>5. g # h
      BY <2>1, <2>2, <2>5, Priorities DEF TwoHandlers, Ind, Types
    <3>6. \A e \in IrqContext : e \in {g, h, "task"}
      BY <3>5 DEF IrqContext, Handler
    <3> QED BY <2>1, <2>2, <3>3, <3>4, <3>6
  <2> QED BY <2>1, <2>3, <2>4, <2>5 DEF Ind, OnCore
<1> QED BY <1>1, IrqInvariance, PTL

\* The counts of the contexts on the core add up.
LEMMA CountFollows == Ind => NestingExact /\ Unmasked
<1> SUFFICES ASSUME Ind PROVE NestingExact /\ Unmasked
  OBVIOUS
<1>0. /\ IrqContext = {"task", "systick", "device"} /\ Handler = {"systick", "device"}
      /\ \A c \in IrqContext : depth[c] \in Nat
      /\ Handler \subseteq IrqContext /\ "task" \in IrqContext /\ "task" \notin Handler
  BY DEF IrqContext, Handler, Ind, Types
<1>1. NestingExact
  <2> SUFFICES ASSUME \A c \in IrqContext : irq_pc[c] \in {"out", "mrs", "msr", "in", "restore"}
               PROVE  nesting = depth["task"] + depth["systick"] + depth["device"]
    BY DEF NestingExact
  <2>1. ASSUME NEW c \in IrqContext, NEW b, NEW k, NEW bp, NEW n, At(c, b, k, bp, n), k \in Nat
        PROVE  n = k + depth[c] /\ n \in Nat
    <3>1. irq_pc[c] # "dec_store" /\ depth[c] \in Nat
      BY <1>0
    <3> QED BY <2>1, <3>1 DEF At
  <2>2. CASE Alone
    BY <1>0, <2>1, <2>2 DEF Alone, AtTask, Off
  <2>3. ASSUME NEW h \in Handler, NEW b \in Int, NEW k \in Int, OneHandler(h, b, k)
        PROVE  nesting = depth["task"] + depth["systick"] + depth["device"]
    <3>1. k = depth["task"] /\ k \in Nat
      BY <1>0, <2>1, <2>3 DEF OneHandler, AtTask
    <3>2. nesting = k + depth[h]
      BY <1>0, <2>1, <2>3, <3>1 DEF OneHandler
    <3>3. \A g \in Handler \ {h} : depth[g] = 0
      BY <2>3 DEF OneHandler, Off
    <3> QED BY <1>0, <3>1, <3>2, <3>3
  <2>4. ASSUME NEW g \in Handler, NEW h \in Handler,
               NEW b \in Int, NEW k \in Int, NEW v \in Int, NEW m \in Int,
               TwoHandlers(g, h, b, k, v, m)
        PROVE  nesting = depth["task"] + depth["systick"] + depth["device"]
    <3>1. k = depth["task"] /\ k \in Nat
      BY <1>0, <2>1, <2>4 DEF TwoHandlers, AtTask
    <3>2. m = k + depth[h] /\ m \in Nat
      BY <1>0, <2>1, <2>4, <3>1 DEF TwoHandlers
    <3>3. nesting = m + depth[g]
      BY <1>0, <2>1, <2>4, <3>2 DEF TwoHandlers
    <3>4. g # h
      BY <1>0, <2>4, Priorities DEF TwoHandlers, Ind, Types
    <3> QED BY <1>0, <3>1, <3>2, <3>3, <3>4
  <2> QED BY <2>2, <2>3, <2>4 DEF Ind, OnCore
<1>2. Unmasked
  <2> SUFFICES ASSUME AtStep("task", "out") PROVE basepri = 0
    BY DEF Unmasked
  <2>1. Head(core) = "task" /\ irq_pc["task"] = "out"
    BY DEF AtStep
  <2>2. Alone
    BY <1>0, <2>1 DEF Ind, OnCore, OneHandler, TwoHandlers
  <2> QED BY <2>1, <2>2 DEF Alone, AtTask, At
<1> QED BY <1>1, <1>2

\* The handlers leave the nesting count as they found it, and outside of every
\* block the interrupts are enabled: for every pair of priorities, also when a handler
\* comes in the middle of the increment of a task.
THEOREM NestingAlwaysExact == AtomicSpec => [](NestingExact /\ Unmasked)
BY CountFollows, IrqInvariance, PTL

-----------------------------------------------------------------------------
(* The lists between the contexts *)

\* An operation of the task on the lists is inside its block.
Held == access # "idle" => irq_pc["task"] = "in"

DepthBounded ==
  /\ depth["task"] <= MaxDepth
  /\ irq_pc["task"] \in {"msr", "inc_load", "inc_store", "dec_store"} => depth["task"] < MaxDepth

\* The lists are in order as long as the handlers that changed them were held back.
ListsInOrder == undisturbed \in BOOLEAN /\ ListTypeOK /\ (undisturbed => ListInd)

TaskInd == Masked /\ Ind /\ ListsInOrder /\ Held /\ DepthBounded

LEMMA TaskStarts == Masked /\ AtomicInit => TaskInd
<1> SUFFICES ASSUME Masked, AtomicInit PROVE TaskInd
  OBVIOUS
<1>1. Ind /\ ListInd
  BY IrqStarts, ListsStart DEF AtomicInit
<1>2. Held
  BY DEF AtomicInit, ListInit, Held
<1>3. DepthBounded
  BY IrqAssumption DEF AtomicInit, IrqInit, DepthBounded, IrqContext
<1>4. ListsInOrder
  BY <1>1, ListsFollow DEF AtomicInit, ListsInOrder
<1> QED BY <1>1, <1>2, <1>3, <1>4 DEF TaskInd

\* A step of the task moves its irq_pc, and a step of a handler leaves it alone.
LEMMA HeldStays ==
  ASSUME TaskInd, access' = access, access = "idle" \/ irq_pc'["task"] = irq_pc["task"]
  PROVE  Held'
BY DEF TaskInd, Held

LEMMA ListsStay ==
  ASSUME ListInd, UNCHANGED listVars
  PROVE  ListInd'
<1>1. UNCHANGED <<next, tail, bitmap, out, access, node, prio, loaded, abs>>
  BY DEF listVars
<1>2. \A p \in Priority : List(p)' = List(p)
  BY <1>1 DEF List
<1>3. ListTypes'
  BY <1>1 DEF ListInd, ListTypes
<1>4. Apart' /\ \A t : Outside(t)' <=> Outside(t)
  BY <1>2 DEF ListInd, Apart, Outside
<1>5. NodeKnown'
  BY <1>1, <1>2, <1>4 DEF ListInd, NodeKnown, ListTypes, List
<1>6. \A p \in Priority : (Whole(p)' <=> Whole(p)) /\ (Half(p)' <=> Half(p))
  BY <1>1 DEF Whole, Half, FrontStill, TailStill, Linked, EndsAt, List
<1>7. Links'
  BY <1>1, <1>6 DEF ListInd, Links
<1>8. Bits'
  BY <1>1, <1>2 DEF ListInd, Bits, List
<1> QED BY <1>3, <1>4, <1>5, <1>7, <1>8 DEF ListInd

LEMMA OrderStays ==
  ASSUME ListsInOrder, UNCHANGED listVars, undisturbed' = undisturbed
  PROVE  ListsInOrder'
<1>1. ListTypeOK'
  BY DEF ListsInOrder, ListTypeOK, listVars
<1>2. undisturbed => ListInd'
  BY ListsStay DEF ListsInOrder
<1> QED BY <1>1, <1>2 DEF ListsInOrder

\* What is on the lists is the task's alone until its operation is over, as far as the
\* handlers go that BASEPRI holds back.
LEMMA HandlerFindsIdle ==
  ASSUME TaskInd, NEW h \in Handler, HeldBack(h), Head(core) = h
  PROVE  access = "idle"
<1>1. M # 0 /\ "task" \in IrqContext /\ "task" \notin Handler /\ Handler \subseteq IrqContext
  BY DEF HeldBack, M, IrqContext, Handler
<1>2. ASSUME NEW n, AtTask(0, n) PROVE irq_pc["task"] # "in"
  BY <1>1, <1>2 DEF AtTask, At
<1>3. ~Alone
  BY <1>1 DEF Alone
<1>4. ASSUME NEW g \in Handler, NEW b \in Int, NEW k \in Int, OneHandler(g, b, k)
      PROVE  irq_pc["task"] # "in"
  <2>1. g = h /\ b = 0
    BY <1>1, <1>4 DEF OneHandler, At
  <2> QED BY <1>2, <1>4, <2>1 DEF OneHandler
<1>5. ASSUME NEW g \in Handler, NEW e \in Handler,
             NEW b \in Int, NEW k \in Int, NEW v \in Int, NEW m \in Int,
             TwoHandlers(g, e, b, k, v, m)
      PROVE  irq_pc["task"] # "in"
  <2>1. g = h /\ v = 0
    BY <1>1, <1>5 DEF TwoHandlers, At
  <2>2. b = 0
    BY <1>1, <1>5, <2>1, BelowHeldBack DEF TwoHandlers
  <2> QED BY <1>2, <1>5, <2>2 DEF TwoHandlers
<1>6. irq_pc["task"] # "in"
  BY <1>3, <1>4, <1>5 DEF TaskInd, Ind, OnCore
<1> QED BY <1>6 DEF TaskInd, Held

\* What every access does to the step and to the depth of the task.
LEMMA DepthStays ==
  ASSUME TaskInd, [AtomicNext]_atomicVars
  PROVE  DepthBounded'
<1>1. /\ irq_pc \in [IrqContext -> IrqStep] /\ depth \in [IrqContext -> Nat] /\ DepthBounded
      /\ MaxDepth \in Nat \ {0} /\ "task" \in IrqContext
  BY IrqAssumption DEF TaskInd, Ind, Types, IrqContext
<1> USE <1>1 DEF DepthBounded, Goto, AtStep
<1>2. CASE UNCHANGED irqVars
  BY <1>2 DEF irqVars
<1>3. CASE StartDisable
  BY <1>3 DEF StartDisable
<1>4. ASSUME NEW c \in IrqContext, DecLoad(c) PROVE DepthBounded'
  BY <1>4 DEF DecLoad
<1>5. ASSUME NEW h \in Handler, TakeInterrupt(h) \/ SaveBasepri(h) PROVE DepthBounded'
  BY <1>5 DEF TakeInterrupt, SaveBasepri, Handler, IrqContext
<1>6. ASSUME NEW c \in IrqContext, SetBasepri(c) \/ IncLoad(c) \/ DecStore(c) \/ TestNesting(c)
      PROVE  DepthBounded'
  BY <1>6 DEF SetBasepri, IncLoad, DecStore, TestNesting, Leave
<1>7. ASSUME NEW c \in IrqContext, IncStore(c) PROVE DepthBounded'
  BY <1>7 DEF IncStore
<1>8. ASSUME NEW c \in IrqContext, RestoreBasepri(c) PROVE DepthBounded'
  BY <1>8 DEF RestoreBasepri, Leave
<1>9. Handler \subseteq IrqContext /\ "systick" \in IrqContext
  BY DEF IrqContext, Handler
<1>10. CASE AtomicNext
  BY <1>2, <1>3, <1>4, <1>5, <1>6, <1>7, <1>8, <1>9, <1>10 DEF AtomicNext, TaskAccess, TaskMasking,
     SysTickWakes, DeviceWakes, OtherIrqStep, ContextStep
<1>11. CASE UNCHANGED atomicVars
  BY <1>2, <1>11 DEF atomicVars, irqVars
<1> QED BY <1>10, <1>11

\* A handler finds the lists in order; if it is not held back they need no longer be.
LEMMA WakeKeeps ==
  ASSUME TaskInd, NEW h \in Handler, NEW t \in Task, Head(core) = h, HandlerWakes(h, t)
  PROVE  ListsInOrder'
<1>1. undisturbed /\ HandlerAppend(t) /\ ListInd
  BY DEF HandlerWakes, TaskInd, ListsInOrder
<1>2. undisturbed' => access = "idle"
  BY HandlerFindsIdle DEF HandlerWakes
<1>3. undisturbed' => ListInd'
  BY <1>1, <1>2, HandlerKeeps
<1>4. ListTypeOK'
  <2>1. /\ TaskPriority[t] \in Priority /\ t \in Link /\ tail[TaskPriority[t]] \in Link
        /\ ListTypes
    BY <1>1, Constants DEF ListInd, ListTypes, Link
  <2> QED BY <1>1, <2>1 DEF HandlerAppend, ListTypes, ListTypeOK
<1>5. undisturbed' \in BOOLEAN
  BY DEF HandlerWakes
<1> QED BY <1>3, <1>4, <1>5 DEF ListsInOrder

LEMMA ListsKeep ==
  ASSUME TaskInd, [AtomicNext]_atomicVars
  PROVE  ListsInOrder' /\ Held'
<1>1. /\ Masked /\ irq_pc \in [IrqContext -> IrqStep] /\ ListsInOrder
      /\ "task" \in IrqContext /\ "task" \notin Handler /\ Handler \subseteq IrqContext
  BY DEF TaskInd, Ind, Types, IrqContext, Handler
<1>2. CASE TaskAccess
  <2>1. irq_pc["task"] = "in" /\ ListAccess /\ irq_pc' = irq_pc /\ undisturbed /\ undisturbed' = undisturbed
    BY <1>1, <1>2 DEF TaskAccess, AtStep, irqVars
  <2>2. ListInd'
    BY <1>1, <2>1, AccessKeeps DEF ListsInOrder
  <2>3. ListTypeOK'
    BY <2>2 DEF ListInd, ListTypes, ListTypeOK
  <2> QED BY <1>1, <2>1, <2>2, <2>3 DEF Held, ListsInOrder
<1>3. CASE TaskMasking
  <2>1. access = "idle" /\ access' = access /\ UNCHANGED <<listVars, undisturbed>>
    BY <1>3 DEF TaskMasking, listVars
  <2> QED BY <1>1, <2>1, HeldStays, OrderStays
<1>4. ASSUME NEW t \in Task, SysTickWakes(t) \/ DeviceWakes(t) PROVE ListsInOrder' /\ Held'
  <2>1. PICK h \in Handler : Head(core) = h /\ HandlerWakes(h, t)
    BY <1>4 DEF SysTickWakes, DeviceWakes, DecLoad, AtStep, Handler
  <2>2. irq_pc'["task"] = irq_pc["task"] /\ access' = access
    <3>1. access' = access
      BY <2>1 DEF HandlerWakes, HandlerAppend
    <3>2. SysTickWakes(t) => irq_pc'["task"] = irq_pc["task"]
      BY <1>1 DEF SysTickWakes, DecLoad, Goto
    <3>3. DeviceWakes(t) => irq_pc'["task"] = irq_pc["task"]
      BY DEF DeviceWakes, irqVars
    <3> QED BY <1>4, <3>1, <3>2, <3>3
  <2> QED BY <2>1, <2>2, WakeKeeps, HeldStays
<1>5. CASE OtherIrqStep
  <2>1. UNCHANGED <<listVars, undisturbed>> /\ access' = access
    BY <1>5 DEF OtherIrqStep, listVars
  <2>2. ASSUME NEW h \in Handler, TakeInterrupt(h) \/ SaveBasepri(h) \/ DecLoad(h)
        PROVE  irq_pc'["task"] = irq_pc["task"]
    BY <1>1, <2>2 DEF TakeInterrupt, SaveBasepri, DecLoad, Goto
  <2>3. ASSUME NEW c \in IrqContext, ContextStep(c)
        PROVE  irq_pc[c] # "in" /\ \A d \in IrqContext \ {c} : irq_pc'[d] = irq_pc[d]
    BY <1>1, <2>3 DEF ContextStep, SetBasepri, IncLoad, IncStore, DecStore, TestNesting,
       RestoreBasepri, Leave, Goto, AtStep
  <2>4. access = "idle" \/ irq_pc'["task"] = irq_pc["task"]
    BY <1>1, <1>5, <2>2, <2>3 DEF OtherIrqStep, TaskInd, Held
  <2> QED BY <1>1, <2>1, <2>4, HeldStays, OrderStays
<1>6. CASE UNCHANGED atomicVars
  <2>1. UNCHANGED <<listVars, undisturbed>> /\ access' = access /\ irq_pc' = irq_pc
    BY <1>6 DEF atomicVars, listVars, irqVars
  <2> QED BY <1>1, <2>1, HeldStays, OrderStays
<1> QED BY <1>2, <1>3, <1>4, <1>5, <1>6 DEF AtomicNext

LEMMA TaskInductive == TaskInd /\ [AtomicNext]_atomicVars => TaskInd'
BY IrqKeeps, DepthStays, ListsKeep DEF TaskInd

\* At most the task and both handlers have added to the count.
LEMMA CountBounded ==
  ASSUME TaskInd
  PROVE  nesting \in 0 .. MaxDepth + 2
<1>0. /\ \A c \in IrqContext : depth[c] \in Nat
      /\ Handler \subseteq IrqContext /\ "task" \in IrqContext /\ "task" \notin Handler
      /\ MaxDepth \in Nat \ {0} /\ DepthBounded
  BY IrqAssumption DEF IrqContext, Handler, TaskInd, Ind, Types
<1>1. ASSUME NEW bp, NEW n, AtTask(bp, n) PROVE n \in 0 .. MaxDepth
  <2>1. n = depth["task"] + IF irq_pc["task"] = "dec_store" THEN 1 ELSE 0
    BY <1>0, <1>1 DEF AtTask, At
  <2>2. CASE irq_pc["task"] = "dec_store"
    BY <1>0, <2>1, <2>2 DEF DepthBounded
  <2>3. CASE irq_pc["task"] # "dec_store"
    BY <1>0, <2>1, <2>3 DEF DepthBounded
  <2> QED BY <2>2, <2>3
<1>2. ASSUME NEW h \in Handler, NEW b, NEW k \in Int, NEW bp, NEW n, At(h, b, k, bp, n)
      PROVE  n \in k .. k + 1
  <2>1. depth[h] = (IF irq_pc[h] = "in" THEN 1 ELSE 0)
        /\ n = k + depth[h] + (IF irq_pc[h] = "dec_store" THEN 1 ELSE 0)
    BY <1>0, <1>2 DEF At
  <2>2. CASE irq_pc[h] = "dec_store"
    BY <2>1, <2>2
  <2>3. CASE irq_pc[h] = "in"
    BY <2>1, <2>3
  <2>4. CASE irq_pc[h] # "dec_store" /\ irq_pc[h] # "in"
    BY <2>1, <2>4
  <2> QED BY <2>2, <2>3, <2>4
<1>3. CASE Alone
  BY <1>0, <1>1, <1>3 DEF Alone
<1>4. ASSUME NEW h \in Handler, NEW b \in Int, NEW k \in Int, OneHandler(h, b, k)
      PROVE  nesting \in 0 .. MaxDepth + 2
  BY <1>0, <1>1, <1>2, <1>4 DEF OneHandler
<1>5. ASSUME NEW g \in Handler, NEW h \in Handler,
             NEW b \in Int, NEW k \in Int, NEW v \in Int, NEW m \in Int,
             TwoHandlers(g, h, b, k, v, m)
      PROVE  nesting \in 0 .. MaxDepth + 2
  BY <1>0, <1>1, <1>2, <1>5 DEF TwoHandlers
<1> QED BY <1>3, <1>4, <1>5 DEF TaskInd, Ind, OnCore

LEMMA TypesFollow == TaskInd => AtomicTypeOK
<1> SUFFICES ASSUME TaskInd PROVE AtomicTypeOK
  OBVIOUS
<1>1. Ind /\ ListsInOrder
  BY DEF TaskInd
<1>2. "task" \in IrqContext /\ Handler \subseteq IrqContext
  BY DEF IrqContext
<1>3. core \in Seq(IrqContext)
  <2>1. \A g, h \in IrqContext : {<<"task">>, <<h, "task">>, <<g, h, "task">>} \subseteq Seq(IrqContext)
    BY <1>2
  <2> QED BY <1>1, <1>2, <2>1 DEF Ind, OnCore, Alone, OneHandler, TwoHandlers
<1>4. basepri \in {0, M}
  <2>1. ASSUME NEW c \in IrqContext, NEW b \in {0, M}, NEW k, NEW bp, NEW n, At(c, b, k, bp, n)
        PROVE  bp \in {0, M}
    BY <2>1 DEF At
  <2>2. ASSUME NEW bp, NEW n, AtTask(bp, n) PROVE bp \in {0, M}
    BY <1>2, <2>1, <2>2 DEF AtTask
  <2>3. CASE Alone
    BY <2>2, <2>3 DEF Alone
  <2>4. ASSUME NEW h \in Handler, NEW b \in Int, NEW k \in Int, OneHandler(h, b, k)
        PROVE  basepri \in {0, M}
    BY <1>2, <2>1, <2>2, <2>4 DEF OneHandler
  <2>5. ASSUME NEW g \in Handler, NEW h \in Handler,
               NEW b \in Int, NEW k \in Int, NEW v \in Int, NEW m \in Int,
               TwoHandlers(g, h, b, k, v, m)
        PROVE  basepri \in {0, M}
    <3>1. b \in {0, M} /\ v \in {0, M}
      BY <1>2, <2>1, <2>2, <2>5 DEF TwoHandlers
    <3> QED BY <1>2, <2>1, <2>5, <3>1 DEF TwoHandlers
  <2> QED BY <1>1, <2>3, <2>4, <2>5 DEF Ind, OnCore
<1>5. IrqTypeOK
  BY <1>1, <1>3, <1>4, CountBounded DEF Ind, Types, IrqTypeOK, M
<1> QED BY <1>1, <1>5 DEF AtomicTypeOK, ListsInOrder

\* The ready lists and the bitmap agree whenever the task is between two operations, for
\* every set of tasks and every configuration, if the operations are done inside atomic
\* blocks and no handler that BASEPRI does not hold back has come between their accesses.
THEOREM ReadyAlwaysKept == Masked => (AtomicSpec => []ReadyKept)
<1>1. TaskInd => ReadyKept
  BY ListsFollow DEF TaskInd, ListsInOrder, ReadyKept
<1> QED BY <1>1, TaskStarts, TaskInductive, PTL DEF AtomicSpec

\* The types, the nesting count and the unmasking, as they are checked.
THEOREM AtomicAlwaysHolds == Masked => (AtomicSpec => []AtomicInv)
<1>1. TaskInd => AtomicInv
  BY TypesFollow, CountFollows DEF TaskInd, AtomicInv
<1> QED BY <1>1, TaskStarts, TaskInductive, PTL DEF AtomicSpec

=============================================================================
