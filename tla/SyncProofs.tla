----------------------------- MODULE SyncProofs -----------------------------
(***************************************************************************)
(* What the tick, the context switch and the calls of the synchronisation  *)
(* objects do to the lists: every task stays in one of them, the tasks     *)
(* that wait for an object included, and the tasks at the front stay       *)
(* there.  For all tasks, attributes and lists.                            *)
(***************************************************************************)
EXTENDS Sync, KernelProofs

-----------------------------------------------------------------------------
(* The lists with those that wait *)

\* The tasks of the ready lists r have the priorities of their lists.
OwnPriority(r, a) == \A p \in Priority : \A t \in Range(r.list[p]) : a[t].priority = p

\* Every task is in one list: a ready list, a blocked list or the list w of those
\* that wait for an object; the ready ones in the list of their priority, and the
\* idle task is always ready.
Lists(r, curr, next, a, w) ==
  /\ r \in ReadyType /\ Exact(r)
  /\ curr \in Seq(Sleeper) /\ next \in Seq(Sleeper) /\ w \in Seq(Task)
  /\ a \in [Task -> Attribute]
  /\ Injective(PlacesOf(r, curr, next, w)) /\ In(PlacesOf(r, curr, next, w)) = Task
  /\ OwnPriority(r, a)
  /\ IdleTask \in Range(r.list[a[IdleTask].priority])

\* t is the front task of the list of its priority.
AtFront(r, a, t) ==
  r.list[a[t].priority] # <<>> /\ Head(r.list[a[t].priority]) = t

\* The tasks that are ready in r are ready in s, but for those in gone.
StayReady(r, s, gone) ==
  \A p \in Priority : Range(r.list[p]) \ gone \subseteq Range(s.list[p])

\* The front tasks are the same.
StayFront(r, s, a) == \A t \in Task : AtFront(r, a, t) => AtFront(s, a, t)

\* The idle task is a task, and all of them are finitely many.
LEMMA IdleIsTask == IdleTask \in Task /\ Len(Created) \in Nat /\ Len(Created) > 0
<1>1. Created \in Seq(Task) /\ Len(Created) > 0
  BY SyncAssumption
<1>2. Len(Created) \in Nat /\ Len(Created) \in 1 .. Len(Created)
  BY <1>1
<1>3. Created[Len(Created)] \in Task
  BY <1>1, <1>2
<1> QED BY <1>1, <1>2, <1>3 DEF IdleTask, Last

\* A task has a priority.
LEMMA HasPriority ==
  ASSUME NEW a \in [Task -> Attribute], NEW t \in Task
  PROVE  a[t].priority \in Priority
BY DEF Attribute

\* The tasks of a sequence.
LEMMA InRange ==
  ASSUME NEW s \in Seq(Task), NEW t
  PROVE  /\ t \in Range(s) <=> \E i \in 1 .. Len(s) : s[i] = t
         /\ s # <<>> => Head(s) \in Range(s) /\ Head(s) \in Task /\ Tail(s) \in Seq(Task)
<1>1. DOMAIN s = 1 .. Len(s) /\ Len(s) \in Nat
  OBVIOUS
<1>2. t \in Range(s) <=> \E i \in 1 .. Len(s) : s[i] = t
  BY <1>1 DEF Range
<1>3. s # <<>> => Head(s) \in Range(s) /\ Head(s) \in Task /\ Tail(s) \in Seq(Task)
  <2>1. SUFFICES ASSUME s # <<>> PROVE Head(s) \in Range(s) /\ Head(s) \in Task /\ Tail(s) \in Seq(Task)
    OBVIOUS
  <2>2. 1 \in 1 .. Len(s) /\ Head(s) = s[1]
    BY <1>1, <2>1
  <2> QED BY <1>1, <2>1, <2>2 DEF Range
<1> QED BY <1>2, <1>3

\* Appending to a list keeps its front and its tasks.
LEMMA AppendRange ==
  ASSUME NEW s \in Seq(Task), NEW x \in Task
  PROVE  /\ Range(Append(s, x)) = Range(s) \union {x}
         /\ Append(s, x) # <<>>
         /\ s # <<>> => Head(Append(s, x)) = Head(s)
<1>1. /\ DOMAIN s = 1 .. Len(s) /\ Len(s) \in Nat
      /\ DOMAIN Append(s, x) = 1 .. Len(s) + 1
      /\ \A i \in 1 .. Len(s) : Append(s, x)[i] = s[i]
      /\ Append(s, x)[Len(s) + 1] = x
  OBVIOUS
<1>2. \A i \in 1 .. Len(s) + 1 : i \in 1 .. Len(s) \/ i = Len(s) + 1
  BY <1>1
<1>3. Range(Append(s, x)) = Range(s) \union {x}
  BY <1>1, <1>2 DEF Range
<1>4. s # <<>> => Head(Append(s, x)) = Head(s)
  BY <1>1
<1> QED BY <1>3, <1>4

\* The front task leaves the others of its list.
LEMMA TailRangeOf ==
  ASSUME NEW s \in Seq(Task), s # <<>>
  PROVE  Range(s) \ {Head(s)} \subseteq Range(Tail(s)) /\ Range(Tail(s)) \subseteq Range(s)
<1>1. /\ DOMAIN s = 1 .. Len(s) /\ Len(s) \in Nat /\ Head(s) = s[1]
      /\ DOMAIN Tail(s) = 1 .. Len(s) - 1
      /\ \A i \in 1 .. Len(s) - 1 : Tail(s)[i] = s[i + 1]
  OBVIOUS
<1>2. ASSUME NEW t \in Range(s), t # Head(s) PROVE t \in Range(Tail(s))
  <2>1. PICK i \in 1 .. Len(s) : s[i] = t
    BY <1>1 DEF Range
  <2>2. i - 1 \in 1 .. Len(s) - 1 /\ (i - 1) + 1 = i
    BY <1>1, <1>2, <2>1
  <2> QED BY <1>1, <2>1, <2>2 DEF Range
<1>3. ASSUME NEW t \in Range(Tail(s)) PROVE t \in Range(s)
  <2>1. PICK i \in 1 .. Len(s) - 1 : Tail(s)[i] = t
    BY <1>1 DEF Range
  <2>2. i + 1 \in 1 .. Len(s)
    BY <1>1
  <2> QED BY <1>1, <2>1, <2>2 DEF Range
<1> QED BY <1>2, <1>3

\* A list is a place of the family, and its tasks are in no other one.
LEMMA PlaceFacts ==
  ASSUME NEW r, NEW curr, NEW next, NEW a, NEW w, Lists(r, curr, next, a, w),
         NEW F, F = PlacesOf(r, curr, next, w)
  PROVE  /\ IsPlaces(F, r, curr, next, w) /\ Injective(F) /\ In(F) = Task
         /\ \A p \in Priority : r.list[p] \in Seq(Task)
<1>1. /\ r \in ReadyType /\ curr \in Seq(Sleeper) /\ next \in Seq(Sleeper) /\ w \in Seq(Task)
      /\ Injective(F) /\ In(F) = Task
  BY DEF Lists
<1>2. \A p \in Priority : r.list[p] \in Seq(Task)
  BY <1>1 DEF ReadyType
<1> QED BY <1>1, <1>2, PlacesOfType

\* A task that waits is not ready.
LEMMA WaiterNotReady ==
  ASSUME NEW r, NEW curr, NEW next, NEW a, NEW w, Lists(r, curr, next, a, w),
         NEW t \in Range(w)
  PROVE  t \in Task /\ \A p \in Priority : t \notin Range(r.list[p])
<1>1. PICK F : F = PlacesOf(r, curr, next, w)
  OBVIOUS
<1>2. /\ F \in PlacesType /\ Injective(F) /\ EXTRA \in PlaceName /\ F[EXTRA] = w
      /\ \A p \in Priority : p \in PlaceName /\ F[p] = r.list[p]
  BY <1>1, PlaceFacts DEF IsPlaces
<1>3. ASSUME NEW p \in Priority PROVE t \notin Range(r.list[p])
  BY <1>2, OneList, PlaceNames
<1>4. t \in Task
  <2>1. w \in Seq(Task)
    BY DEF Lists
  <2>2. PICK i \in 1 .. Len(w) : w[i] = t
    BY <2>1, InRange
  <2> QED BY <2>1, <2>2
<1> QED BY <1>3, <1>4

\* A task is ready in the list of its priority.
LEMMA FrontIsReady ==
  ASSUME NEW r, NEW curr, NEW next, NEW a, NEW w, Lists(r, curr, next, a, w),
         NEW t \in Task, AtFront(r, a, t)
  PROVE  t \in Range(r.list[a[t].priority]) /\ t \notin Range(w)
<1>1. a[t].priority \in Priority
  BY HasPriority DEF Lists
<1>2. r.list[a[t].priority] \in Seq(Task)
  BY <1>1 DEF Lists, ReadyType
<1>3. t \in Range(r.list[a[t].priority])
  BY <1>2, InRange DEF AtFront
<1> QED BY <1>1, <1>3, WaiterNotReady

\* A list with fewer tasks has tasks of its own priority, too.
LEMMA FewerOwn ==
  ASSUME NEW r, NEW s, NEW a, OwnPriority(r, a), StayReady(s, r, {})
  PROVE  OwnPriority(s, a)
BY DEF OwnPriority, StayReady

\* A task that stays ready is in the list of the same priority.
LEMMA ReadyStill ==
  ASSUME NEW r, NEW s, NEW gone, StayReady(r, s, gone), NEW p \in Priority,
         NEW t \in Range(r.list[p]), t \notin gone
  PROVE  t \in Range(s.list[p])
BY DEF StayReady

\* The idle task is ready in a list of a priority.
LEMMA IdleStill ==
  ASSUME NEW r, NEW s, NEW a \in [Task -> Attribute], NEW gone, StayReady(r, s, gone),
         IdleTask \notin gone, IdleTask \in Range(r.list[a[IdleTask].priority])
  PROVE  IdleTask \in Range(s.list[a[IdleTask].priority])
<1>1. PICK p \in Priority : p = a[IdleTask].priority
  BY IdleIsTask, HasPriority
<1> QED BY <1>1, ReadyStill

-----------------------------------------------------------------------------
(* The moves of a task *)

\* The front task of a ready list is taken out of it: it is in no list then.
LEMMA TakeFront ==
  ASSUME NEW r, NEW curr, NEW next, NEW a, NEW w, Lists(r, curr, next, a, w),
         NEW t \in Task, AtFront(r, a, t),
         NEW s, s = tasklist_remove_front(r, a[t].priority),
         NEW G, G = PlacesOf(s, curr, next, w)
  PROVE  Injective(G) /\ In(G) = Task \ {t}
<1>1. PICK p \in Priority : p = a[t].priority
  BY HasPriority DEF Lists
<1>2. /\ r \in ReadyType /\ Exact(r) /\ r.list[p] # <<>> /\ Head(r.list[p]) = t
      /\ s = tasklist_remove_front(r, p)
  BY <1>1 DEF Lists, AtFront
<1>3. PICK F : F = PlacesOf(r, curr, next, w)
  OBVIOUS
<1>4. Injective(F) /\ In(F) = Task
  BY <1>3, PlaceFacts
<1>5. curr \in Seq(Sleeper) /\ next \in Seq(Sleeper) /\ w \in Seq(Task)
  BY DEF Lists
<1>6. Injective(G) /\ In(G) = In(F) \ {Head(r.list[p])}
  BY <1>2, <1>3, <1>4, <1>5, UnreadyPlace
<1> QED BY <1>2, <1>4, <1>6

\* The others stay ready.
LEMMA TakeReady ==
  ASSUME NEW r \in ReadyType, Exact(r), NEW a \in [Task -> Attribute],
         NEW t \in Task, AtFront(r, a, t),
         NEW s, s = tasklist_remove_front(r, a[t].priority)
  PROVE  /\ s \in ReadyType /\ Exact(s)
         /\ StayReady(r, s, {t}) /\ StayReady(s, r, {})
<1>1. PICK p \in Priority : p = a[t].priority
  BY HasPriority
<1>2. /\ r.list[p] # <<>> /\ Head(r.list[p]) = t /\ r.list[p] \in Seq(Task)
      /\ s = tasklist_remove_front(r, p)
  BY <1>1 DEF AtFront, ReadyType
<1>3. /\ s \in ReadyType /\ Exact(s) /\ s.list[p] = Tail(r.list[p])
      /\ \A q \in Priority \ {p} : s.list[q] = r.list[q]
  BY <1>2, RemoveReady
<1>4. ASSUME NEW q \in Priority
      PROVE  /\ Range(r.list[q]) \ {t} \subseteq Range(s.list[q])
             /\ Range(s.list[q]) \subseteq Range(r.list[q])
  <2>1. CASE q = p
    BY <1>2, <1>3, <2>1, TailRangeOf
  <2>2. CASE q # p
    BY <1>3, <2>2
  <2> QED BY <2>1, <2>2
<1> QED BY <1>3, <1>4 DEF StayReady

\* wait_front moves the current task to the list of those that wait, wherever in
\* it the object puts it.
LEMMA WaitLists ==
  ASSUME NEW r, NEW curr, NEW next, NEW a, NEW w, Lists(r, curr, next, a, w),
         NEW t \in User, AtFront(r, a, t),
         NEW s, s = tasklist_remove_front(r, a[t].priority),
         NEW new \in Seq(Task), NEW n \in 1 .. Len(w) + 1, IsInsert(new, w, n, t)
  PROVE  /\ Lists(s, curr, next, a, new)
         /\ StayReady(r, s, {t})
<1>0. t \in Task /\ t # IdleTask
  BY DEF User
<1>9. PICK F : F = PlacesOf(s, curr, next, w)
  OBVIOUS
<1>10. PICK G : G = PlacesOf(s, curr, next, new)
  OBVIOUS
<1>11. Injective(F) /\ In(F) = Task \ {t}
  BY <1>0, <1>9, TakeFront
<1>12. /\ s \in ReadyType /\ Exact(s)
       /\ StayReady(r, s, {t}) /\ StayReady(s, r, {})
  BY <1>0, TakeReady DEF Lists
<1>13. IdleTask \in Range(s.list[a[IdleTask].priority])
  BY <1>0, <1>12, IdleStill DEF Lists
<1>1. /\ s \in ReadyType /\ Exact(s)
      /\ Injective(F) /\ In(F) = Task \ {t}
      /\ StayReady(r, s, {t}) /\ StayReady(s, r, {})
      /\ IdleTask \in Range(s.list[a[IdleTask].priority])
  BY <1>11, <1>12, <1>13
<1>2. /\ curr \in Seq(Sleeper) /\ next \in Seq(Sleeper) /\ w \in Seq(Task)
      /\ a \in [Task -> Attribute] /\ t \in Task
  BY DEF Lists, User
<1>3. IsPlaces(F, s, curr, next, w) /\ IsPlaces(G, s, curr, next, new)
  BY <1>1, <1>2, <1>9, <1>10, PlacesOfType
<1>4. /\ F \in PlacesType /\ G \in PlacesType /\ EXTRA \in PlaceName
      /\ F[EXTRA] = w /\ G[EXTRA] = new
  BY <1>3 DEF IsPlaces
<1>5. SameBut(F, G, EXTRA)
  BY <1>3, PlaceNames DEF IsPlaces, SameBut
<1>6. Injective(G) /\ In(G) = In(F) \union {t}
  <2>1. n \in 1 .. Len(F[EXTRA]) + 1 /\ IsInsert(G[EXTRA], F[EXTRA], n, t) /\ t \notin In(F)
    BY <1>1, <1>4
  <2> QED BY <1>1, <1>2, <1>4, <1>5, <2>1, InsertPlace
<1>7. In(G) = Task
  BY <1>1, <1>2, <1>6
<1>8. OwnPriority(s, a)
  BY <1>1, FewerOwn DEF Lists
<1> QED BY <1>1, <1>2, <1>6, <1>7, <1>8, <1>10 DEF Lists

\* A task is put into the list of its priority: the fronts stay the fronts.
LEMMA ReadyLists ==
  ASSUME NEW r \in ReadyType, Exact(r), NEW a \in [Task -> Attribute],
         NEW x \in Task, NEW s, s = tasklist_append(r, a[x].priority, x),
         OwnPriority(r, a)
  PROVE  /\ s \in ReadyType /\ Exact(s)
         /\ StayReady(r, s, {})
         /\ OwnPriority(s, a)
         /\ x \in Range(s.list[a[x].priority])
         /\ StayFront(r, s, a)
<1>1. PICK h \in Priority : h = a[x].priority
  BY HasPriority
<1>2. /\ s \in ReadyType /\ Exact(s) /\ s.list[h] = Append(r.list[h], x)
      /\ \A q \in Priority \ {h} : s.list[q] = r.list[q]
  BY <1>1, AppendReady
<1>3. r.list[h] \in Seq(Task)
  BY DEF ReadyType
<1>4. /\ Range(s.list[h]) = Range(r.list[h]) \union {x} /\ s.list[h] # <<>>
      /\ r.list[h] # <<>> => Head(s.list[h]) = Head(r.list[h])
  BY <1>2, <1>3, AppendRange
<1>5. ASSUME NEW t \in Task, AtFront(r, a, t) PROVE AtFront(s, a, t)
  <2>1. PICK q \in Priority : q = a[t].priority
    BY HasPriority
  <2>2. r.list[q] # <<>> /\ Head(r.list[q]) = t
    BY <1>5, <2>1 DEF AtFront
  <2>3. s.list[q] # <<>> /\ Head(s.list[q]) = t
    BY <1>2, <1>4, <2>2
  <2> QED BY <2>1, <2>3 DEF AtFront
<1>6. OwnPriority(s, a)
  BY <1>1, <1>2, <1>4 DEF OwnPriority
<1>7. StayReady(r, s, {})
  BY <1>2, <1>4 DEF StayReady
<1>8. x \in Range(s.list[a[x].priority])
  BY <1>1, <1>4
<1>9. StayFront(r, s, a)
  BY <1>5 DEF StayFront
<1> QED BY <1>2, <1>6, <1>7, <1>8, <1>9

\* make_ready moves the first of the waiting tasks to its ready list.
LEMMA WakeLists ==
  ASSUME NEW r, NEW curr, NEW next, NEW a, NEW w, Lists(r, curr, next, a, w), w # <<>>,
         NEW s, s = tasklist_append(r, a[Head(w)].priority, Head(w))
  PROVE  /\ Lists(s, curr, next, a, Tail(w))
         /\ StayReady(r, s, {})
         /\ StayFront(r, s, a)
<1>1. /\ r \in ReadyType /\ Exact(r) /\ curr \in Seq(Sleeper) /\ next \in Seq(Sleeper)
      /\ w \in Seq(Task) /\ a \in [Task -> Attribute]
      /\ OwnPriority(r, a)
  BY DEF Lists
<1>2. PICK x \in Task : x = Head(w)
  BY <1>1, InRange
<1>3. PICK h \in Priority : h = a[x].priority
  BY <1>1, HasPriority
<1>4. Tail(w) \in Seq(Task)
  BY <1>1, InRange
<1>5. s = tasklist_append(r, a[x].priority, x)
  BY <1>2
<1>6. /\ s \in ReadyType /\ Exact(s)
      /\ StayReady(r, s, {})
      /\ OwnPriority(s, a)
      /\ StayFront(r, s, a)
  BY <1>1, <1>5, ReadyLists
<1>7. PICK F : F = PlacesOf(r, curr, next, w)
  OBVIOUS
<1>8. PICK G : G = PlacesOf(r, curr, next, Tail(w))
  OBVIOUS
<1>9. PICK H : H = PlacesOf(s, curr, next, Tail(w))
  OBVIOUS
<1>10. Injective(F) /\ In(F) = Task
  BY <1>7, PlaceFacts
<1>11. Injective(G) /\ In(G) = Task \ {x}
  BY <1>1, <1>2, <1>7, <1>8, <1>10, ReapPlace
<1>12. s = tasklist_append(r, h, x) /\ x \notin In(G)
  BY <1>3, <1>5, <1>11
<1>13. Injective(H) /\ In(H) = In(G) \union {x}
  <2>1. PICK d \in Seq(Task) : d = Tail(w)
    BY <1>4
  <2>2. G = PlacesOf(r, curr, next, d) /\ H = PlacesOf(s, curr, next, d)
    BY <1>8, <1>9, <2>1
  <2>3. /\ r \in ReadyType /\ Exact(r) /\ curr \in Seq(Sleeper) /\ next \in Seq(Sleeper)
        /\ Injective(G)
    BY <1>1, <1>11
  <2> QED BY <1>12, <2>2, <2>3, ReadyPlace
<1>14. In(H) = Task
  BY <1>11, <1>13
<1>15. IdleTask \in Range(s.list[a[IdleTask].priority])
  BY <1>1, <1>6, IdleStill DEF Lists
<1>16. Injective(PlacesOf(s, curr, next, Tail(w))) /\ In(PlacesOf(s, curr, next, Tail(w))) = Task
  BY <1>9, <1>13, <1>14
<1> QED BY <1>1, <1>4, <1>6, <1>15, <1>16 DEF Lists

-----------------------------------------------------------------------------
(* Two lists of waiting tasks, one after the other *)

\* What two lists one after the other are.
LEMMA ConcatAt ==
  ASSUME NEW u \in Seq(Task), NEW v \in Seq(Task), NEW m \in Nat, NEW n \in Nat,
         m = Len(u), n = Len(v), NEW w, w = u \o v
  PROVE  /\ w \in Seq(Task) /\ Len(w) = m + n
         /\ \A i \in 1 .. m + n : w[i] = IF i <= m THEN u[i] ELSE v[i - m]
BY ConcatProperties

\* The front of two lists is that of the first one.
LEMMA ConcatFront ==
  ASSUME NEW u \in Seq(Task), NEW v \in Seq(Task), u # <<>>
  PROVE  u \o v # <<>> /\ Head(u \o v) = Head(u) /\ Tail(u \o v) = Tail(u) \o v
<1>1. PICK m \in Nat, n \in Nat : m = Len(u) /\ n = Len(v) /\ m > 0
  <2>1. Len(u) \in Nat /\ Len(v) \in Nat /\ Len(u) # 0
    OBVIOUS
  <2> QED BY <2>1
<1>2. PICK x \in Seq(Task) : x = Tail(u)
  BY HeadTailProperties
<1>3. /\ Len(x) = m - 1 /\ \A i \in 1 .. m - 1 : x[i] = u[i + 1]
  BY <1>1, <1>2, HeadTailProperties
<1>4. PICK w \in Seq(Task) : w = u \o v
  BY ConcatProperties
<1>5. /\ Len(w) = m + n
      /\ \A i \in 1 .. m + n : w[i] = IF i <= m THEN u[i] ELSE v[i - m]
  BY <1>1, <1>4, ConcatAt
<1>6. PICK y \in Seq(Task) : y = x \o v
  BY ConcatProperties
<1>7. /\ Len(y) = m - 1 + n
      /\ \A i \in 1 .. m - 1 + n : y[i] = IF i <= m - 1 THEN x[i] ELSE v[i - (m - 1)]
  <2>1. m - 1 \in Nat /\ m - 1 = Len(x) /\ n = Len(v)
    BY <1>1, <1>3
  <2> QED BY <1>6, <2>1, ConcatAt
<1>8. w # <<>> /\ Head(w) = Head(u)
  <2>1. 1 \in 1 .. m + n /\ 1 <= m /\ Len(w) # 0
    BY <1>1, <1>5
  <2>2. w[1] = u[1] /\ w # <<>>
    BY <1>5, <2>1
  <2> QED BY <2>2
<1>9. Tail(w) = y
  <2>1. Tail(w) \in Seq(Task) /\ Len(Tail(w)) = m + n - 1
    BY <1>5, <1>8
  <2>2. \A i \in 1 .. m + n - 1 : Tail(w)[i] = w[i + 1]
    BY <1>5, <1>8
  <2>3. ASSUME NEW i \in 1 .. m + n - 1 PROVE Tail(w)[i] = y[i]
    <3>1. i + 1 \in 1 .. m + n /\ i \in 1 .. m - 1 + n /\ (i + 1) - m = i - (m - 1)
      OBVIOUS
    <3>2. w[i + 1] = IF i + 1 <= m THEN u[i + 1] ELSE v[(i + 1) - m]
      BY <1>5, <3>1
    <3>3. y[i] = IF i <= m - 1 THEN x[i] ELSE v[i - (m - 1)]
      BY <1>7, <3>1
    <3>4. CASE i + 1 <= m
      <4>1. i \in 1 .. m - 1 /\ i <= m - 1
        BY <3>4
      <4> QED BY <1>3, <2>2, <3>2, <3>3, <3>4, <4>1
    <3>5. CASE ~(i + 1 <= m)
      <4>1. ~(i <= m - 1)
        BY <3>5
      <4> QED BY <2>2, <3>1, <3>2, <3>3, <3>5, <4>1
    <3> QED BY <3>4, <3>5
  <2>4. Len(y) = m + n - 1
    BY <1>7
  <2> QED BY <2>1, <2>3, <2>4, SeqEqual
<1> QED BY <1>2, <1>4, <1>6, <1>8, <1>9

\* The tasks of two lists.
LEMMA ConcatRange ==
  ASSUME NEW u \in Seq(Task), NEW v \in Seq(Task)
  PROVE  u \o v \in Seq(Task) /\ Range(u \o v) = Range(u) \union Range(v)
BY RangeConcatenation, ConcatProperties

-----------------------------------------------------------------------------
(* Appending the tasks of a sequence *)

\* L has the ready lists after each of the first n tasks.
AppendedUpTo(L, r, order, a, n) ==
  L = [i \in 0 .. n |->
        IF i = 0 THEN r
                 ELSE tasklist_append(L[i - 1], a[order[i]].priority, order[i])]

LEMMA AppendsExist ==
  ASSUME NEW r, NEW order \in Seq(Task), NEW a
  PROVE  \A n \in 0 .. Len(order) : \E L : AppendedUpTo(L, r, order, a, n)
<1> DEFINE bad == {n \in 0 .. Len(order) : ~\E L : AppendedUpTo(L, r, order, a, n)}
<1>1. bad \in SUBSET Nat
  OBVIOUS
<1>2. ASSUME bad # {} PROVE FALSE
  <2> HIDE DEF bad
  <2>1. Min(bad) \in bad /\ \A j \in bad : Min(bad) <= j
    BY <1>1, <1>2, LeastExists
  <2>2. PICK m \in Nat : m = Min(bad)
    BY <1>1, <2>1
  <2>3. m \in 0 .. Len(order) /\ ~\E L : AppendedUpTo(L, r, order, a, m)
    BY <2>1, <2>2 DEF bad
  <2>4. CASE m = 0
    <3>1. AppendedUpTo([i \in 0 .. 0 |-> r], r, order, a, 0)
      BY DEF AppendedUpTo
    <3> QED BY <2>3, <2>4, <3>1
  <2>5. CASE m # 0
    <3>1. m - 1 \in 0 .. Len(order) /\ ~(m <= m - 1)
      BY <2>3, <2>5
    <3>2. m - 1 \notin bad
      BY <2>1, <2>2, <3>1
    <3>3. PICK L : AppendedUpTo(L, r, order, a, m - 1)
      BY <3>1, <3>2 DEF bad
    <3> DEFINE step(i, x) == tasklist_append(x, a[order[i]].priority, order[i])
               K == [i \in 0 .. m |-> IF i = m THEN step(m, L[m - 1]) ELSE L[i]]
    <3> HIDE DEF step
    <3>4. L = [i \in 0 .. m - 1 |-> IF i = 0 THEN r ELSE step(i, L[i - 1])]
      BY <3>3 DEF AppendedUpTo, step
    <3>5. ASSUME NEW i \in 0 .. m
          PROVE  K[i] = IF i = 0 THEN r ELSE step(i, K[i - 1])
      <4>1. CASE i = m
        <5>1. m - 1 \in 0 .. m /\ m - 1 # m
          BY <2>5
        <5>2. K[m] = step(m, L[m - 1]) /\ K[m - 1] = L[m - 1]
          BY <5>1
        <5> QED BY <2>5, <4>1, <5>2
      <4>2. CASE i # m
        <5>1. i \in 0 .. m - 1 /\ K[i] = L[i]
          BY <4>2
        <5>2. CASE i = 0
          BY <3>4, <5>1, <5>2
        <5>3. CASE i # 0
          <6>1. i - 1 \in 0 .. m /\ i - 1 # m
            BY <5>1, <5>3
          <6>2. K[i - 1] = L[i - 1]
            BY <6>1
          <6> QED BY <3>4, <5>1, <5>3, <6>2
        <5> QED BY <5>2, <5>3
      <4> QED BY <4>1, <4>2
    <3>6. K = [i \in 0 .. m |-> IF i = 0 THEN r ELSE step(i, K[i - 1])]
      BY <3>5
    <3>7. AppendedUpTo(K, r, order, a, m)
      BY <3>6 DEF AppendedUpTo, step
    <3> QED BY <2>3, <3>7
  <2> QED BY <2>4, <2>5
<1>3. bad = {}
  BY <1>2
<1> QED BY <1>3

\* The lists are those after each of the tasks.
LEMMA AppendedLists ==
  ASSUME NEW r, NEW order \in Seq(Task), NEW a,
         NEW L, L = appended_lists(r, order, a)
  PROVE  /\ L[0] = r
         /\ \A i \in 1 .. Len(order) :
              L[i] = tasklist_append(L[i - 1], a[order[i]].priority, order[i])
<1>1. Len(order) \in Nat /\ Len(order) \in 0 .. Len(order)
  BY LenProperties
<1>2. \E K : AppendedUpTo(K, r, order, a, Len(order))
  BY <1>1, AppendsExist
<1>3. AppendedUpTo(L, r, order, a, Len(order))
  BY <1>2 DEF AppendedUpTo, appended_lists
<1> DEFINE step(i, x) == tasklist_append(x, a[order[i]].priority, order[i])
<1> HIDE DEF step
<1>4. L = [i \in 0 .. Len(order) |-> IF i = 0 THEN r ELSE step(i, L[i - 1])]
  BY <1>3 DEF AppendedUpTo, step
<1>5. L[0] = r
  BY <1>1, <1>4
<1>6. \A i \in 1 .. Len(order) : i \in 0 .. Len(order) /\ i # 0
  BY <1>1
<1>7. \A i \in 1 .. Len(order) : L[i] = step(i, L[i - 1])
  BY <1>4, <1>6
<1> QED BY <1>5, <1>7 DEF step

\* The tasks of the first of two lists become ready.
LEMMA WakeFirstLists ==
  ASSUME NEW r, NEW curr, NEW next, NEW a, NEW w \in Seq(Task), NEW z \in Seq(Task),
         Lists(r, curr, next, a, w \o z),
         NEW s, s = appended_lists(r, w, a)[Len(w)]
  PROVE  /\ Lists(s, curr, next, a, z)
         /\ StayReady(r, s, {})
         /\ StayFront(r, s, a)
<1>1. w \in Seq(Task)
  OBVIOUS
<1>2. PICK m \in Nat : m = Len(w)
  BY <1>1
<1>3. PICK L : L = appended_lists(r, w, a)
  OBVIOUS
<1>4. /\ L[0] = r
      /\ \A i \in 1 .. m : L[i] = tasklist_append(L[i - 1], a[w[i]].priority, w[i])
  BY <1>1, <1>2, <1>3, AppendedLists
<1> DEFINE ok(n) == /\ Lists(L[n], curr, next, a, SubSeq(w, n + 1, m) \o z)
                    /\ StayReady(r, L[n], {}) /\ StayFront(r, L[n], a)
           bad == {n \in 0 .. m : ~ok(n)}
<1>5. SubSeq(w, 1, m) \o z = w \o z /\ SubSeq(w, m + 1, m) \o z = z
  <2>1. SubSeq(w, 1, m) = w /\ SubSeq(w, m + 1, m) = <<>>
    BY <1>1, <1>2
  <2> QED BY <2>1, ConcatEmptySeq
<1>6. ASSUME NEW n \in 1 .. m
      PROVE  /\ SubSeq(w, n, m) \o z # <<>> /\ Head(SubSeq(w, n, m) \o z) = w[n]
             /\ Tail(SubSeq(w, n, m) \o z) = SubSeq(w, n + 1, m) \o z
  <2>1. n \in 1 .. Len(w) /\ m \in n .. Len(w)
    BY <1>2
  <2>2. Head(SubSeq(w, n, m)) = w[n] /\ Tail(SubSeq(w, n, m)) = SubSeq(w, n + 1, m)
    BY <1>1, <2>1, HeadTailOfSubSeq
  <2>3. Len(SubSeq(w, n, m)) = m - n + 1 /\ m - n + 1 > 0
    <3>1. \A i \in n .. m : w[i] \in Task
      BY <1>1, <1>2
    <3>2. n \in Int /\ m \in Int /\ n <= m
      BY <1>2
    <3> QED BY <3>1, <3>2, SubSeqProperties
  <2>5. SubSeq(w, n, m) \in Seq(Task)
    <3>1. \A i \in n .. m : w[i] \in Task
      BY <1>1, <1>2
    <3>2. n \in Int /\ m \in Int
      BY <1>2
    <3> QED BY <3>1, <3>2, SubSeqProperties
  <2>4. SubSeq(w, n, m) # <<>>
    <3>1. PICK v : v = SubSeq(w, n, m)
      OBVIOUS
    <3>2. Len(v) > 0
      BY <2>3, <3>1
    <3>3. v # <<>>
      BY <3>2
    <3> QED BY <3>1, <3>3
  <2>6. PICK v \in Seq(Task) : v = SubSeq(w, n, m)
    BY <2>5
  <2>7. v # <<>> /\ Head(v) = w[n] /\ Tail(v) = SubSeq(w, n + 1, m)
    BY <2>2, <2>4, <2>6
  <2>8. v \o z # <<>> /\ Head(v \o z) = Head(v) /\ Tail(v \o z) = Tail(v) \o z
    BY <2>7, ConcatFront
  <2> QED BY <2>6, <2>7, <2>8
<1>7. bad \in SUBSET Nat
  OBVIOUS
<1>8. ASSUME bad # {} PROVE FALSE
  <2> HIDE DEF bad
  <2>1. Min(bad) \in bad /\ \A j \in bad : Min(bad) <= j
    BY <1>7, <1>8, LeastExists
  <2>2. PICK n \in Nat : n = Min(bad)
    BY <1>7, <2>1
  <2>3. n \in 0 .. m /\ ~ok(n)
    BY <2>1, <2>2 DEF bad
  <2>4. CASE n = 0
    <3>1. StayReady(r, r, {}) /\ StayFront(r, r, a)
      BY DEF StayReady, StayFront
    <3>2. 0 + 1 = 1
      OBVIOUS
    <3> QED BY <1>4, <1>5, <2>3, <2>4, <3>1, <3>2
  <2>5. CASE n # 0
    <3>1. n \in 1 .. m /\ n - 1 \in 0 .. m /\ ~(n <= n - 1) /\ (n - 1) + 1 = n
      BY <2>3, <2>5
    <3>2. n - 1 \notin bad
      BY <2>1, <2>2, <3>1
    <3>3. ok(n - 1)
      BY <3>1, <3>2 DEF bad
    <3>4. Lists(L[n - 1], curr, next, a, SubSeq(w, n, m) \o z)
      BY <3>1, <3>3
    <3>5. L[n] = tasklist_append(L[n - 1], a[w[n]].priority, w[n])
      BY <1>4, <3>1
    <3>6. /\ Lists(L[n], curr, next, a, SubSeq(w, n + 1, m) \o z)
          /\ StayReady(L[n - 1], L[n], {})
          /\ StayFront(L[n - 1], L[n], a)
      <4>1. PICK v : v = SubSeq(w, n, m) \o z
        OBVIOUS
      <4>2. v # <<>> /\ Head(v) = w[n] /\ Tail(v) = SubSeq(w, n + 1, m) \o z
        BY <1>6, <3>1, <4>1
      <4> QED BY <3>4, <3>5, <4>1, <4>2, WakeLists
    <3>7. StayReady(r, L[n], {}) /\ StayFront(r, L[n], a)
      BY <3>3, <3>6 DEF StayReady, StayFront
    <3> QED BY <2>3, <3>6, <3>7
  <2> QED BY <2>4, <2>5
<1>9. m \in 0 .. m /\ m \notin bad
  BY <1>8
<1>10. ok(m)
  BY <1>9
<1> QED BY <1>2, <1>3, <1>5, <1>10

\* All the tasks that wait become ready.
LEMMA WakeAllLists ==
  ASSUME NEW r, NEW curr, NEW next, NEW a, NEW w, Lists(r, curr, next, a, w),
         NEW s, s = appended_lists(r, w, a)[Len(w)]
  PROVE  /\ Lists(s, curr, next, a, <<>>)
         /\ StayReady(r, s, {})
         /\ StayFront(r, s, a)
<1>1. w \in Seq(Task)
  BY DEF Lists
<1>2. PICK z \in Seq(Task) : z = <<>>
  BY EmptySeq
<1>3. PICK x : x = w \o z
  OBVIOUS
<1>4. x = w
  BY <1>1, <1>2, <1>3, ConcatEmptySeq
<1>5. Lists(r, curr, next, a, w \o z)
  BY <1>3, <1>4
<1>6. /\ Lists(s, curr, next, a, z) /\ StayReady(r, s, {}) /\ StayFront(r, s, a)
  BY <1>1, <1>5, WakeFirstLists
<1> QED BY <1>2, <1>6

-----------------------------------------------------------------------------
(* The state in which the first task starts *)

\* After the first n creations those tasks are ready, and the first one created is
\* at the front.
CreatedOK(r, a, n) ==
  /\ r \in ReadyType /\ Exact(r)
  /\ Injective(PlacesOf(r, <<>>, <<>>, <<>>))
  /\ In(PlacesOf(r, <<>>, <<>>, <<>>)) = {Created[i] : i \in 1 .. n}
  /\ OwnPriority(r, a)
  /\ n > 0 => AtFront(r, a, Created[1])
  /\ \A i \in 1 .. n : Created[i] \in Range(r.list[a[Created[i]].priority])

\* Without tasks the lists are empty.
LEMMA NoneCreated ==
  ASSUME NEW a
  PROVE  CreatedOK(EmptyReady, a, 0)
<1>1. EmptyReady \in ReadyType /\ Exact(EmptyReady)
  BY EmptyExact
<1>2. \A p \in Priority : EmptyReady.list[p] = <<>> /\ Range(EmptyReady.list[p]) = {}
  BY DEF EmptyReady, Range
<1>3. PICK F : F = PlacesOf(EmptyReady, <<>>, <<>>, <<>>)
  OBVIOUS
<1>4. \A l \in PlaceName : F[l] = <<>>
  BY <1>2, <1>3, PlaceNames DEF PlacesOf, TasksOf
<1>5. \A l \in PlaceName : DOMAIN F[l] = {} /\ Range(F[l]) = {}
  BY <1>4 DEF Range
<1>6. Injective(F) /\ In(F) = {}
  BY <1>5 DEF Injective, In
<1>7. {Created[i] : i \in 1 .. 0} = {}
  OBVIOUS
<1>8. OwnPriority(EmptyReady, a)
  BY <1>2 DEF OwnPriority
<1> QED BY <1>1, <1>3, <1>6, <1>7, <1>8 DEF CreatedOK

\* One more task is created.
LEMMA OneMoreCreated ==
  ASSUME NEW a \in [Task -> Attribute], NEW n \in 1 .. Len(Created),
         NEW r, CreatedOK(r, a, n - 1),
         NEW s, s = tasklist_append(r, a[Created[n]].priority, Created[n])
  PROVE  CreatedOK(s, a, n)
<1>1. /\ Created \in Seq(Task) /\ DOMAIN Created = 1 .. Len(Created) /\ Len(Created) \in Nat
      /\ \A i, j \in 1 .. Len(Created) : Created[i] = Created[j] => i = j
  BY SyncAssumption DEF IsInjective
<1>2. PICK x \in Task : x = Created[n]
  BY <1>1
<1>3. /\ r \in ReadyType /\ Exact(r)
      /\ OwnPriority(r, a)
  BY DEF CreatedOK
<1>4. s = tasklist_append(r, a[x].priority, x)
  BY <1>2
<1>5. /\ s \in ReadyType /\ Exact(s)
      /\ StayReady(r, s, {})
      /\ OwnPriority(s, a)
      /\ StayFront(r, s, a)
  BY <1>3, <1>4, ReadyLists
<1>6. PICK h \in Priority : h = a[x].priority
  BY HasPriority
<1>7. /\ r.list[h] \in Seq(Task) /\ s.list[h] = Append(r.list[h], x)
  BY <1>3, <1>4, <1>6, AppendReady DEF ReadyType
<1>0. <<>> \in Seq(Task) /\ <<>> \in Seq(Sleeper)
  OBVIOUS
<1>8. PICK d \in Seq(Task) : d = <<>>
  BY <1>0
<1>9. PICK e \in Seq(Sleeper) : e = <<>>
  BY <1>0
<1>10. PICK F : F = PlacesOf(r, e, e, d)
  OBVIOUS
<1>11. PICK G : G = PlacesOf(s, e, e, d)
  OBVIOUS
<1>12. Injective(F) /\ In(F) = {Created[i] : i \in 1 .. n - 1}
  BY <1>8, <1>9, <1>10 DEF CreatedOK
<1>13. x \notin In(F)
  <2>1. \A i \in 1 .. n - 1 : i \in 1 .. Len(Created) /\ i # n
    BY <1>1
  <2>2. \A i \in 1 .. n - 1 : Created[i] # x
    BY <1>1, <1>2, <2>1
  <2> QED BY <1>12, <2>2
<1>14. Injective(G) /\ In(G) = In(F) \union {x}
  BY <1>3, <1>4, <1>6, <1>10, <1>11, <1>12, <1>13, ReadyPlace
<1>15. In(G) = {Created[i] : i \in 1 .. n}
  <2>1. \A i \in 1 .. n : i \in 1 .. n - 1 \/ i = n
    BY <1>1
  <2>2. \A i \in 1 .. n - 1 : i \in 1 .. n
    BY <1>1
  <2>3. n \in 1 .. n
    BY <1>1
  <2> QED BY <1>2, <1>12, <1>14, <2>1, <2>2, <2>3
<1>16. AtFront(s, a, Created[1])
  <2>1. CASE n = 1
    <3>1. r.list[h] = <<>>
      <4>1. SUFFICES ASSUME r.list[h] # <<>> PROVE FALSE
        OBVIOUS
      <4>2. Head(r.list[h]) \in Range(r.list[h])
        BY <1>7, <4>1, InRange
      <4>3. h \in PlaceName /\ F[h] = r.list[h]
        BY <1>3, <1>10, PlacesOfType DEF IsPlaces
      <4>4. Head(r.list[h]) \in In(F)
        BY <4>2, <4>3 DEF In
      <4>5. In(F) = {}
        BY <1>12, <2>1
      <4> QED BY <4>4, <4>5
    <3>2. s.list[h] # <<>> /\ Head(s.list[h]) = x
      BY <1>7, <3>1
    <3> QED BY <1>2, <1>6, <2>1, <3>2 DEF AtFront
  <2>2. CASE n # 1
    <3>1. n - 1 > 0 /\ 1 \in 1 .. Len(Created)
      BY <1>1, <2>2
    <3>2. Created[1] \in Task /\ AtFront(r, a, Created[1])
      BY <1>1, <3>1 DEF CreatedOK
    <3> QED BY <1>5, <3>2 DEF StayFront
  <2> QED BY <2>1, <2>2
<1>17. ASSUME NEW i \in 1 .. n PROVE Created[i] \in Range(s.list[a[Created[i]].priority])
  <2>1. CASE i = n
    <3>1. x \in Range(s.list[h])
      BY <1>7, AppendRange
    <3> QED BY <1>2, <1>6, <2>1, <3>1
  <2>2. CASE i # n
    <3>1. i \in 1 .. n - 1 /\ i \in 1 .. Len(Created)
      BY <1>1, <2>2
    <3>2. PICK q \in Priority : q = a[Created[i]].priority
      BY <1>1, <3>1, HasPriority
    <3>3. Created[i] \in Range(r.list[q])
      BY <3>1, <3>2 DEF CreatedOK
    <3>4. Created[i] \in Range(s.list[q])
      BY <1>5, <3>3 DEF StayReady
    <3> QED BY <3>2, <3>4
  <2> QED BY <2>1, <2>2
<1>18. G = PlacesOf(s, <<>>, <<>>, <<>>)
  BY <1>8, <1>9, <1>11
<1> QED BY <1>5, <1>14, <1>15, <1>16, <1>17, <1>18 DEF CreatedOK

\* When the first task starts every task is ready, and that one is at the front.
LEMMA StartedLists ==
  ASSUME NEW a \in [Task -> Attribute], KernelStarted(Created, a)
  PROVE  /\ Lists(ready, blocked_curr, blocked_next, attr, <<>>)
         /\ kernel_current_task \in Task /\ AtFront(ready, attr, kernel_current_task)
<1>1. /\ Created \in Seq(Task) /\ DOMAIN Created = 1 .. Len(Created) /\ Len(Created) \in Nat
      /\ Range(Created) = Task /\ Len(Created) > 0
  BY SyncAssumption
<1>2. PICK L : L = appended_lists(EmptyReady, Created, a)
  OBVIOUS
<1>3. /\ L[0] = EmptyReady
      /\ \A i \in 1 .. Len(Created) :
           L[i] = tasklist_append(L[i - 1], a[Created[i]].priority, Created[i])
  BY <1>1, <1>2, AppendedLists
<1> DEFINE bad == {n \in 0 .. Len(Created) : ~CreatedOK(L[n], a, n)}
<1>4. bad \in SUBSET Nat
  OBVIOUS
<1>5. ASSUME bad # {} PROVE FALSE
  <2> HIDE DEF bad
  <2>1. Min(bad) \in bad /\ \A j \in bad : Min(bad) <= j
    BY <1>4, <1>5, LeastExists
  <2>2. PICK m \in Nat : m = Min(bad)
    BY <1>4, <2>1
  <2>3. m \in 0 .. Len(Created) /\ ~CreatedOK(L[m], a, m)
    BY <2>1, <2>2 DEF bad
  <2>4. CASE m = 0
    BY <1>3, <2>3, <2>4, NoneCreated
  <2>5. CASE m # 0
    <3>1. m \in 1 .. Len(Created) /\ m - 1 \in 0 .. Len(Created) /\ ~(m <= m - 1)
      BY <1>1, <2>3, <2>5
    <3>2. m - 1 \notin bad
      BY <2>1, <2>2, <3>1
    <3>3. CreatedOK(L[m - 1], a, m - 1)
      BY <3>1, <3>2 DEF bad
    <3>4. CreatedOK(L[m], a, m)
      BY <1>3, <3>1, <3>3, OneMoreCreated
    <3> QED BY <2>3, <3>4
  <2> QED BY <2>4, <2>5
<1>6. CreatedOK(L[Len(Created)], a, Len(Created))
  BY <1>1, <1>5
<1>7. ready = L[Len(Created)] /\ attr = a /\ blocked_curr = <<>> /\ blocked_next = <<>>
  BY <1>2 DEF KernelStarted
<1>8. CreatedOK(ready, a, Len(Created))
  BY <1>6, <1>7
<1>9. kernel_current_task = Created[1] /\ Created[1] \in Task
  BY <1>1 DEF KernelStarted
<1>10. {Created[i] : i \in 1 .. Len(Created)} = Task
  BY <1>1 DEF Range
<1>11. IdleTask = Created[Len(Created)] /\ Len(Created) \in 1 .. Len(Created)
  BY <1>1 DEF IdleTask, Last
<1>12. IdleTask \in Range(ready.list[a[IdleTask].priority])
  BY <1>8, <1>11 DEF CreatedOK
<1>13. <<>> \in Seq(Task) /\ <<>> \in Seq(Sleeper)
  OBVIOUS
<1>14. Lists(ready, <<>>, <<>>, a, <<>>)
  BY <1>8, <1>10, <1>12, <1>13 DEF CreatedOK, Lists
<1>15. AtFront(ready, a, Created[1])
  BY <1>1, <1>8 DEF CreatedOK
<1> QED BY <1>7, <1>9, <1>14, <1>15

-----------------------------------------------------------------------------
(* The tick, the context switch and task_sleep *)

\* The front sleeper that has timed out becomes ready.
LEMMA TimedOutLists ==
  ASSUME NEW r, NEW curr, NEW next, NEW a, NEW w, Lists(r, curr, next, a, w), curr # <<>>,
         NEW x \in Task, x = Head(curr).task,
         NEW s, s = tasklist_append(r, a[x].priority, x)
  PROVE  Lists(s, Tail(curr), next, a, w)
<1>1. /\ r \in ReadyType /\ Exact(r) /\ curr \in Seq(Sleeper) /\ next \in Seq(Sleeper)
      /\ w \in Seq(Task) /\ a \in [Task -> Attribute]
      /\ OwnPriority(r, a)
  BY DEF Lists
<1>2. PICK c \in Seq(Sleeper) : c = Tail(curr)
  <2>1. Tail(curr) \in Seq(Sleeper)
    BY <1>1
  <2> QED BY <2>1
<1>3. PICK h \in Priority : h = a[x].priority
  BY <1>1, HasPriority
<1>4. /\ s \in ReadyType /\ Exact(s)
      /\ StayReady(r, s, {})
      /\ OwnPriority(s, a)
  BY <1>1, ReadyLists
<1>5. PICK F : F = PlacesOf(r, curr, next, w)
  OBVIOUS
<1>6. PICK G : G = PlacesOf(r, c, next, w)
  OBVIOUS
<1>7. PICK H : H = PlacesOf(s, c, next, w)
  OBVIOUS
<1>8. Injective(F) /\ In(F) = Task
  BY <1>5, PlaceFacts
<1>9. Injective(G) /\ In(G) = Task \ {x}
  BY <1>1, <1>2, <1>5, <1>6, <1>8, WakePlace
<1>10. s = tasklist_append(r, h, x) /\ x \notin In(G)
  BY <1>3, <1>9
<1>11. Injective(H) /\ In(H) = In(G) \union {x}
  BY <1>1, <1>6, <1>7, <1>9, <1>10, ReadyPlace
<1>12. In(H) = Task
  BY <1>9, <1>11
<1>13. IdleTask \in Range(s.list[a[IdleTask].priority])
  BY <1>1, <1>4, IdleStill DEF Lists
<1>14. Injective(PlacesOf(s, c, next, w)) /\ In(PlacesOf(s, c, next, w)) = Task
  BY <1>7, <1>11, <1>12
<1>15. Lists(s, c, next, a, w)
  BY <1>1, <1>4, <1>13, <1>14 DEF Lists
<1> QED BY <1>2, <1>15

\* The tick moves at most one sleeper: the ready tasks stay ready and the front ones
\* in front.
LEMMA TickLists ==
  ASSUME NEW w, Lists(ready, blocked_curr, blocked_next, attr, w), SysTick,
         kernel_current_task \in Task
  PROVE  /\ Lists(ready', blocked_curr', blocked_next', attr', w)
         /\ StayReady(ready, ready', {})
         /\ StayFront(ready, ready', attr)
<1>1. /\ ready \in ReadyType /\ Exact(ready)
      /\ blocked_curr \in Seq(Sleeper) /\ blocked_next \in Seq(Sleeper)
      /\ w \in Seq(Task) /\ attr \in [Task -> Attribute]
      /\ OwnPriority(ready, attr)
  BY DEF Lists
<1>2. /\ ready' = ready_after_tick /\ attr' = attr
      /\ \/ blocked_curr' = still_blocked /\ blocked_next' = blocked_next
         \/ blocked_curr' = blocked_next /\ blocked_next' = still_blocked
  BY DEF SysTick
<1>3. /\ Lists(ready', still_blocked, blocked_next, attr, w)
      /\ StayReady(ready, ready', {})
      /\ StayFront(ready, ready', attr)
  <2>1. CASE timed_out
    <3>1. /\ blocked_curr # <<>> /\ still_blocked = Tail(blocked_curr)
          /\ ready' = tasklist_append(ready, attr[Head(blocked_curr).task].priority,
                                      Head(blocked_curr).task)
      BY <1>2, <2>1 DEF timed_out, still_blocked, ready_after_tick
    <3>2. PICK x \in Task : x = Head(blocked_curr).task
      <4>1. Head(blocked_curr) \in Sleeper
        BY <1>1, <3>1
      <4>2. Head(blocked_curr).task \in Task
        BY <4>1 DEF Sleeper
      <4> QED BY <4>2
    <3>3. ready' = tasklist_append(ready, attr[x].priority, x)
      BY <3>1, <3>2
    <3>4. Lists(ready', still_blocked, blocked_next, attr, w)
      BY <3>1, <3>2, <3>3, TimedOutLists
    <3>5. /\ StayReady(ready, ready', {})
          /\ StayFront(ready, ready', attr)
      BY <1>1, <3>3, ReadyLists
    <3> QED BY <3>4, <3>5
  <2>2. CASE ~timed_out
    <3>1. still_blocked = blocked_curr /\ ready' = ready
      BY <1>2, <2>2 DEF still_blocked, ready_after_tick
    <3>2. StayReady(ready, ready', {}) /\ StayFront(ready, ready', attr)
      BY <3>1 DEF StayReady, StayFront
    <3>3. Lists(ready', still_blocked, blocked_next, attr, w)
      BY <3>1
    <3> QED BY <3>2, <3>3
  <2> QED BY <2>1, <2>2
<1>4. Lists(ready', blocked_next, still_blocked, attr, w)
  <2>1. PICK c : c = still_blocked
    OBVIOUS
  <2>2. /\ ready' \in ReadyType /\ c \in Seq(Sleeper) /\ blocked_next \in Seq(Sleeper)
        /\ w \in Seq(Task)
    BY <1>3, <2>1 DEF Lists
  <2>3. PICK F : F = PlacesOf(ready', c, blocked_next, w)
    OBVIOUS
  <2>4. PICK G : G = PlacesOf(ready', blocked_next, c, w)
    OBVIOUS
  <2>5. Injective(F) /\ In(F) = Task
    BY <1>3, <2>1, <2>3, PlaceFacts
  <2>6. Injective(G) /\ In(G) = In(F)
    BY <2>2, <2>3, <2>4, <2>5, CyclePlaces
  <2> QED BY <1>3, <2>1, <2>4, <2>5, <2>6 DEF Lists
<1> QED BY <1>2, <1>3, <1>4

\* The task that PendSV starts is at the front of the highest list with a task.
LEMMA SwitchLists ==
  ASSUME NEW w, Lists(ready, blocked_curr, blocked_next, attr, w), PendSV,
         kernel_current_task \in Task
  PROVE  /\ Lists(ready', blocked_curr', blocked_next', attr', w)
         /\ StayReady(ready, ready', {})
         /\ kernel_current_task' \in Task /\ AtFront(ready', attr', kernel_current_task')
         /\ \A p \in Priority : ready'.list[p] # <<>> => p <= attr'[kernel_current_task'].priority
<1>1. /\ ready \in ReadyType /\ Exact(ready)
      /\ blocked_curr \in Seq(Sleeper) /\ blocked_next \in Seq(Sleeper)
      /\ w \in Seq(Task) /\ attr \in [Task -> Attribute]
      /\ OwnPriority(ready, attr)
  BY DEF Lists
<1>2. /\ ready' = rotated /\ attr' = attr
      /\ blocked_curr' = blocked_curr /\ blocked_next' = blocked_next
      /\ kernel_current_task' =
           tasklist_get_front_task(ready', tasklist_get_highest_priority(ready'))
  BY DEF PendSV
<1>3. /\ Lists(ready', blocked_curr, blocked_next, attr, w)
      /\ StayReady(ready, ready', {})
  <2> DEFINE t == kernel_current_task
  <2>1. CASE tasklist_get_front_task(ready, CurrentPriority) = t
    <3>1. PICK s : s = tasklist_remove_front(ready, attr[t].priority)
      OBVIOUS
    <3>2. ready' = tasklist_append(s, attr[t].priority, t)
      BY <1>2, <2>1, <3>1 DEF rotated, CurrentPriority
    <3>3. AtFront(ready, attr, t)
      BY <2>1, NoTaskAssumption DEF tasklist_get_front_task, AtFront, CurrentPriority
    <3>4. PICK G : G = PlacesOf(s, blocked_curr, blocked_next, w)
      OBVIOUS
    <3>15. Injective(G) /\ In(G) = Task \ {t}
      BY <3>1, <3>3, <3>4, TakeFront
    <3>6. /\ s \in ReadyType /\ Exact(s)
          /\ StayReady(ready, s, {t}) /\ StayReady(s, ready, {})
      BY <1>1, <3>1, <3>3, TakeReady
    <3>5. /\ s \in ReadyType /\ Exact(s)
          /\ Injective(G) /\ In(G) = Task \ {t}
      BY <3>6, <3>15
    <3>7. OwnPriority(s, attr)
      BY <1>1, <3>6, FewerOwn
    <3>8. /\ ready' \in ReadyType /\ Exact(ready')
          /\ StayReady(s, ready', {})
          /\ OwnPriority(ready', attr)
          /\ t \in Range(ready'.list[attr[t].priority])
      BY <1>1, <3>2, <3>5, <3>7, ReadyLists
    <3>9. PICK h \in Priority : h = attr[t].priority
      BY <1>1, HasPriority
    <3>10. PICK H : H = PlacesOf(ready', blocked_curr, blocked_next, w)
      OBVIOUS
    <3>11. Injective(H) /\ In(H) = In(G) \union {t}
      <4>1. ready' = tasklist_append(s, h, t) /\ t \notin In(G)
        BY <3>2, <3>5, <3>9
      <4> QED BY <1>1, <3>4, <3>5, <3>10, <4>1, ReadyPlace
    <3>12. StayReady(ready, ready', {})
      <4>1. ASSUME NEW p \in Priority, NEW u \in Range(ready.list[p]) PROVE u \in Range(ready'.list[p])
        <5>1. CASE u = t
          <6>1. u \in Range(ready.list[attr[u].priority]) /\ p = attr[u].priority
            BY <1>1, <4>1 DEF OwnPriority
          <6> QED BY <3>8, <5>1, <6>1
        <5>2. CASE u # t
          <6>1. u \in Range(s.list[p])
            BY <3>6, <5>2, ReadyStill
          <6> QED BY <3>8, <6>1, ReadyStill
        <5> QED BY <5>1, <5>2
      <4> QED BY <4>1 DEF StayReady
    <3>13. IdleTask \in Range(ready'.list[attr[IdleTask].priority])
      BY <1>1, <3>12, IdleStill DEF Lists
    <3>14. In(H) = Task
      BY <3>5, <3>11
    <3> QED BY <1>1, <3>8, <3>10, <3>11, <3>12, <3>13, <3>14 DEF Lists
  <2>2. CASE tasklist_get_front_task(ready, CurrentPriority) # t
    <3>1. ready' = ready
      BY <1>2, <2>2 DEF rotated
    <3>2. StayReady(ready, ready', {})
      BY <3>1 DEF StayReady
    <3> QED BY <3>1, <3>2
  <2> QED BY <2>1, <2>2
<1>4. /\ ready' \in ReadyType /\ Exact(ready')
      /\ \A p \in Priority : ready'.list[p] \in Seq(Task)
      /\ OwnPriority(ready', attr)
      /\ IdleTask \in Range(ready'.list[attr[IdleTask].priority])
  BY <1>3 DEF Lists, ReadyType
<1>5. PICK i \in Priority : i = attr[IdleTask].priority /\ ready'.list[i] # <<>>
  <2>1. PICK i \in Priority : i = attr[IdleTask].priority
    BY <1>1, IdleIsTask, HasPriority
  <2>2. ready'.list[i] # <<>>
    BY <1>4, <2>1, InRange
  <2> QED BY <2>1, <2>2
<1>6. PICK h : h = tasklist_get_highest_priority(ready')
  OBVIOUS
<1>7. /\ h \in Priority /\ ready'.list[h] # <<>>
      /\ \A q \in Priority : ready'.list[q] # <<>> => q <= h
  BY <1>4, <1>5, <1>6, HighestPriority
<1>8. kernel_current_task' = Head(ready'.list[h])
  BY <1>2, <1>6, <1>7 DEF tasklist_get_front_task
<1>9. kernel_current_task' \in Task /\ kernel_current_task' \in Range(ready'.list[h])
  BY <1>4, <1>7, <1>8, InRange
<1>10. attr[kernel_current_task'].priority = h
  BY <1>4, <1>7, <1>9 DEF OwnPriority
<1>11. AtFront(ready', attr, kernel_current_task')
  BY <1>7, <1>8, <1>10 DEF AtFront
<1> QED BY <1>2, <1>3, <1>7, <1>9, <1>10, <1>11

\* The current task, at the front of its list, becomes a sleeper.
LEMMA SleepLists ==
  ASSUME NEW w, Lists(ready, blocked_curr, blocked_next, attr, w),
         kernel_current_task \in User, AtFront(ready, attr, kernel_current_task),
         NEW resume \in Tick, sleep_front(resume)
  PROVE  /\ Lists(ready', blocked_curr', blocked_next', attr, w)
         /\ StayReady(ready, ready', {kernel_current_task})
         /\ \A p \in Priority : kernel_current_task \notin Range(ready'.list[p])
<1> DEFINE t == kernel_current_task
<1>1. t \in Task /\ t # IdleTask
  BY DEF User
<1>2. /\ blocked_curr \in Seq(Sleeper) /\ blocked_next \in Seq(Sleeper)
      /\ w \in Seq(Task) /\ attr \in [Task -> Attribute]
      /\ OwnPriority(ready, attr)
  BY DEF Lists
<1>3. PICK e : e = [task |-> t, resume_time |-> resume]
  OBVIOUS
<1>4. e \in Sleeper /\ e.task = t
  BY <1>1, <1>3 DEF Sleeper
<1>5. tasklist_get_front_task(ready, CurrentPriority) = t /\ t # NoTask
  BY <1>1, NoTaskAssumption DEF tasklist_get_front_task, AtFront, CurrentPriority
<1>6. /\ ready' = tasklist_remove_front(ready, attr[t].priority)
      /\ \/ /\ blocked_next' = task_insert_blocked_list(blocked_next, e)
            /\ blocked_curr' = blocked_curr
         \/ /\ blocked_curr' = task_insert_blocked_list(blocked_curr, e)
            /\ blocked_next' = blocked_next
  BY <1>3, <1>5 DEF sleep_front, CurrentPriority
<1>7. PICK G : G = PlacesOf(ready', blocked_curr, blocked_next, w)
  OBVIOUS
<1>17. PICK s : s = ready'
  OBVIOUS
<1>18. Injective(G) /\ In(G) = Task \ {t}
  <2>1. s = tasklist_remove_front(ready, attr[t].priority) /\ G = PlacesOf(s, blocked_curr, blocked_next, w)
    BY <1>6, <1>7, <1>17
  <2> QED BY <1>1, <2>1, TakeFront
<1>19. /\ s \in ReadyType /\ Exact(s) /\ StayReady(ready, s, {t}) /\ StayReady(s, ready, {})
  <2>1. s = tasklist_remove_front(ready, attr[t].priority) /\ ready \in ReadyType /\ Exact(ready)
    BY <1>6, <1>17 DEF Lists
  <2> QED BY <1>1, <1>2, <2>1, TakeReady
<1>8. ready' \in ReadyType /\ Exact(ready') /\ Injective(G) /\ In(G) = Task \ {t}
  BY <1>17, <1>18, <1>19
<1>9. StayReady(ready, ready', {t}) /\ StayReady(ready', ready, {})
  BY <1>17, <1>19
<1>10. IdleTask \in Range(ready'.list[attr[IdleTask].priority])
  BY <1>1, <1>2, <1>9, IdleStill DEF Lists
<1>11. PICK H : H = PlacesOf(ready', blocked_curr', blocked_next', w)
  OBVIOUS
<1>12. blocked_curr' \in Seq(Sleeper) /\ blocked_next' \in Seq(Sleeper)
  BY <1>2, <1>4, <1>6, InsertBlocked
<1>13. Injective(H) /\ In(H) = In(G) \union {t}
  <2>1. e.task \notin In(G)
    BY <1>4, <1>8
  <2>2. CASE /\ blocked_next' = task_insert_blocked_list(blocked_next, e)
             /\ blocked_curr' = blocked_curr
    <3>1. H = PlacesOf(ready', blocked_curr, task_insert_blocked_list(blocked_next, e), w)
      BY <1>11, <2>2
    <3> QED BY <1>2, <1>4, <1>7, <1>8, <2>1, <3>1, SleepNextPlace
  <2>3. CASE /\ blocked_curr' = task_insert_blocked_list(blocked_curr, e)
             /\ blocked_next' = blocked_next
    <3>1. H = PlacesOf(ready', task_insert_blocked_list(blocked_curr, e), blocked_next, w)
      BY <1>11, <2>3
    <3> QED BY <1>2, <1>4, <1>7, <1>8, <2>1, <3>1, SleepCurrPlace
  <2> QED BY <1>6, <2>2, <2>3
<1>14. In(H) = Task
  BY <1>1, <1>8, <1>13
<1>15. OwnPriority(ready', attr)
  BY <1>2, <1>9, FewerOwn
<1>16. ASSUME NEW p \in Priority, t \in Range(ready'.list[p]) PROVE FALSE
  <2>1. p \in PlaceName /\ G[p] = ready'.list[p]
    BY <1>2, <1>7, <1>8, PlacesOfType DEF IsPlaces
  <2>2. t \in In(G)
    BY <1>16, <2>1 DEF In
  <2> QED BY <1>8, <2>2
<1> QED BY <1>2, <1>8, <1>9, <1>10, <1>11, <1>12, <1>13, <1>14, <1>15, <1>16 DEF Lists

-----------------------------------------------------------------------------
(* Where a task is, and a task that changes its priority *)

\* A task is ready in the list of its priority, sleeps or waits, and only one of
\* them.
LEMMA OnePlace ==
  ASSUME NEW r, NEW curr, NEW next, NEW a, NEW w, Lists(r, curr, next, a, w),
         NEW t \in Task, NEW asleep, asleep = SleepersOf(curr) \union SleepersOf(next)
  PROVE  \/ /\ t \in Range(r.list[a[t].priority]) /\ t \notin asleep /\ t \notin Range(w)
         \/ /\ t \in asleep /\ t \notin Range(w)
            /\ \A p \in Priority : t \notin Range(r.list[p])
         \/ /\ t \in Range(w) /\ t \notin asleep
            /\ \A p \in Priority : t \notin Range(r.list[p])
<1>1. PICK F : F = PlacesOf(r, curr, next, w)
  OBVIOUS
<1>2. /\ IsPlaces(F, r, curr, next, w) /\ Injective(F) /\ In(F) = Task
  BY <1>1, PlaceFacts
<1>3. /\ F \in PlacesType
      /\ \A p \in Priority : p \in PlaceName /\ F[p] = r.list[p]
      /\ CURR \in PlaceName /\ NEXT \in PlaceName /\ EXTRA \in PlaceName
      /\ F[EXTRA] = w /\ F[CURR] = TasksOf(curr) /\ F[NEXT] = TasksOf(next)
  BY <1>2 DEF IsPlaces
<1>4. SleepersOf(curr) = Range(F[CURR]) /\ SleepersOf(next) = Range(F[NEXT])
  <2>1. ASSUME NEW list PROVE SleepersOf(list) = Range(TasksOf(list))
    BY DEF SleepersOf, TasksOf, Range
  <2> QED BY <1>3, <2>1
<1> HIDE DEF CURR, NEXT, EXTRA
<1>5. PICK l \in PlaceName : t \in Range(F[l])
  BY <1>2 DEF In
<1>6. \A m \in PlaceName : t \in Range(F[m]) => m = l
  BY <1>2, <1>3, <1>5, OneList
<1>7. CASE l \in Priority
  <2>1. a[t].priority = l
    BY <1>3, <1>5, <1>7 DEF Lists, OwnPriority
  <2>2. l # CURR /\ l # NEXT /\ l # EXTRA
    BY <1>7, PlaceNames
  <2> QED BY <1>3, <1>4, <1>5, <1>6, <1>7, <2>1, <2>2
<1>8. CASE l \notin Priority
  <2>1. \A p \in Priority : t \notin Range(r.list[p])
    BY <1>3, <1>6, <1>8
  <2>2. l = CURR \/ l = NEXT \/ l = EXTRA
    BY <1>8, PlaceNames
  <2> QED BY <1>3, <1>4, <1>5, <1>6, <2>1, <2>2, PlaceNames
<1> QED BY <1>7, <1>8

\* The front task of a list changes its priority and goes to the list of the new
\* one, in which no other task is: it is the front task again.
LEMMA SwapLists ==
  ASSUME NEW r, NEW curr, NEW next, NEW a, NEW w, Lists(r, curr, next, a, w),
         NEW t \in User, AtFront(r, a, t), NEW p \in Priority, p = a[t].priority,
         NEW q \in Priority, Range(r.list[q]) \subseteq {t},
         NEW b \in [Task -> Attribute], b[t].priority = q, \A u \in Task \ {t} : b[u] = a[u],
         NEW s, s = tasklist_append(tasklist_remove_front(r, p), q, t)
  PROVE  Lists(s, curr, next, b, w) /\ AtFront(s, b, t)
<1>1. /\ r \in ReadyType /\ Exact(r) /\ curr \in Seq(Sleeper) /\ next \in Seq(Sleeper)
      /\ w \in Seq(Task) /\ a \in [Task -> Attribute] /\ OwnPriority(r, a)
      /\ IdleTask \in Range(r.list[a[IdleTask].priority])
  BY DEF Lists
<1>2. t \in Task /\ t # IdleTask
  BY DEF User
<1>3. p \in Priority /\ p = a[t].priority
  OBVIOUS
<1>4. PICK z : z = tasklist_remove_front(r, p)
  OBVIOUS
<1>5. s = tasklist_append(z, q, t)
  BY <1>3, <1>4
<1>6. /\ z \in ReadyType /\ Exact(z) /\ StayReady(r, z, {t}) /\ StayReady(z, r, {})
  BY <1>1, <1>2, <1>3, <1>4, TakeReady
<1>7. z.list[q] = <<>>
  <2>1. r.list[p] # <<>> /\ r.list[p] \in Seq(Task) /\ r.list[q] \in Seq(Task)
    BY <1>1, <1>3 DEF AtFront, ReadyType
  <2>2. z.list[p] = Tail(r.list[p]) /\ \A l \in Priority \ {p} : z.list[l] = r.list[l]
    BY <1>1, <1>3, <1>4, <2>1, RemoveReady
  <2>3. PICK x \in Seq(Task), y \in Seq(Task) : x = r.list[p] /\ y = r.list[q]
    BY <2>1
  <2>4. Range(y) \subseteq {t}
    BY <2>3
  <2>5. CASE p = q
    <3>1. PICK n \in Nat : n = Len(x)
      BY <2>3
    <3>2. \A i \in 1 .. n : x[i] = t
      <4>1. ASSUME NEW i \in 1 .. n PROVE x[i] \in Range(x)
        BY <3>1, InRange
      <4>2. Range(x) \subseteq {t}
        BY <2>3, <2>4, <2>5
      <4> QED BY <4>1, <4>2
    <3>3. \A i, j \in 1 .. n : i = j
      <4>1. PICK F : F = PlacesOf(r, curr, next, w)
        OBVIOUS
      <4>2. IsPlaces(F, r, curr, next, w) /\ Injective(F)
        BY <4>1, PlaceFacts
      <4>3. p \in PlaceName /\ F[p] = x
        BY <2>3, <4>2, PlaceNames DEF IsPlaces
      <4> QED BY <3>1, <3>2, <4>2, <4>3 DEF Injective
    <3>4. n # 0
      BY <2>1, <2>3, <3>1
    <3>5. ~(n > 1)
      <4>1. SUFFICES ASSUME n > 1 PROVE FALSE
        OBVIOUS
      <4>2. PICK i, j : i = 1 /\ j = 2
        OBVIOUS
      <4>3. i \in 1 .. n /\ j \in 1 .. n
        BY <4>1, <4>2
      <4>4. i = j
        BY <3>3, <4>3
      <4> QED BY <4>2, <4>4
    <3>6. n = 1
      BY <3>4, <3>5
    <3>7. Tail(x) \in Seq(Task) /\ Len(Tail(x)) = 0
      <4>1. x # <<>>
        BY <2>1, <2>3
      <4>2. Tail(x) \in Seq(Task) /\ Len(Tail(x)) = Len(x) - 1
        BY <4>1, HeadTailProperties, Zenon
      <4> QED BY <3>1, <3>6, <4>2
    <3>8. Tail(x) = <<>>
      <4>1. \A rest \in Seq(Task) : rest # <<>> => Len(rest) \in Nat \ {0}
        BY EmptySeq, Zenon
      <4> QED BY <3>7, <4>1
    <3> QED BY <2>2, <2>3, <2>5, <3>8
  <2>6. CASE p # q
    <3>1. ASSUME y # <<>> PROVE FALSE
      <4>1. Head(y) \in Range(y)
        BY <3>1, InRange
      <4>2. t \in Range(r.list[q])
        BY <2>3, <2>4, <4>1
      <4> QED BY <1>1, <1>3, <2>6, <4>2 DEF OwnPriority
    <3> QED BY <2>2, <2>3, <2>6, <3>1
  <2> QED BY <2>5, <2>6
<1>8. PICK G : G = PlacesOf(z, curr, next, w)
  OBVIOUS
<1>9. Injective(G) /\ In(G) = Task \ {t}
  BY <1>2, <1>3, <1>4, <1>8, TakeFront
<1>10. /\ s \in ReadyType /\ Exact(s) /\ s.list[q] = Append(<<>>, t)
       /\ \A l \in Priority \ {q} : s.list[l] = z.list[l]
  BY <1>2, <1>5, <1>6, <1>7, AppendReady
<1>11. PICK H : H = PlacesOf(s, curr, next, w)
  OBVIOUS
<1>12. Injective(H) /\ In(H) = In(G) \union {t}
  <2>1. t \notin In(G)
    BY <1>9
  <2> QED BY <1>1, <1>2, <1>5, <1>6, <1>8, <1>9, <1>11, <2>1, ReadyPlace
<1>13. In(H) = Task
  BY <1>2, <1>9, <1>12
<1>14. /\ b \in [Task -> Attribute] /\ b[t].priority = q
       /\ \A u \in Task \ {t} : b[u] = a[u]
  OBVIOUS
<1>15. Range(s.list[q]) = {t} /\ s.list[q] # <<>> /\ Head(s.list[q]) = t
  <2>1. <<>> \in Seq(Task) /\ Range(<<>>) = {}
    BY DEF Range
  <2>2. Range(Append(<<>>, t)) = {t}
    BY <1>2, <2>1, AppendRange
  <2> QED BY <1>2, <1>10, <2>2
<1>16. OwnPriority(s, b)
  <2>1. ASSUME NEW l \in Priority, NEW u \in Range(s.list[l]) PROVE b[u].priority = l
    <3>1. CASE l = q
      BY <1>14, <1>15, <2>1, <3>1
    <3>2. CASE l # q
      <4>1. u \in Range(z.list[l])
        BY <1>10, <2>1, <3>2
      <4>2. u \in In(G)
        <5>1. l \in PlaceName /\ G[l] = z.list[l]
          BY <1>1, <1>6, <1>8, PlacesOfType DEF IsPlaces
        <5> QED BY <4>1, <5>1 DEF In
      <4>3. u \in Task \ {t}
        BY <1>9, <4>2
      <4>4. a[u].priority = l
        BY <1>1, <1>6, <4>1 DEF OwnPriority, StayReady
      <4> QED BY <1>14, <4>3, <4>4
    <3> QED BY <3>1, <3>2
  <2> QED BY <2>1 DEF OwnPriority
<1>17. IdleTask \in Range(s.list[b[IdleTask].priority])
  <2>1. PICK i \in Priority : i = a[IdleTask].priority
    BY <1>1, IdleIsTask, HasPriority
  <2>2. IdleTask \in Range(z.list[i])
    BY <1>1, <1>2, <1>6, <2>1 DEF StayReady
  <2>3. i # q
    BY <1>7, <2>2 DEF Range
  <2>4. b[IdleTask].priority = i
    BY <1>2, <1>14, <2>1, IdleIsTask
  <2> QED BY <1>10, <2>2, <2>3, <2>4
<1>18. AtFront(s, b, t)
  BY <1>14, <1>15 DEF AtFront
<1> QED BY <1>1, <1>10, <1>11, <1>12, <1>13, <1>14, <1>16, <1>17, <1>18 DEF Lists
-----------------------------------------------------------------------------
(* Which of the waiting tasks is where *)

\* A list in which every task that waits is once may take the place of the other.
LEMMA SameWaiters ==
  ASSUME NEW r, NEW curr, NEW next, NEW a, NEW w, Lists(r, curr, next, a, w),
         NEW x \in Seq(Task), Range(x) = Range(w),
         \A i, j \in DOMAIN x : x[i] = x[j] => i = j
  PROVE  Lists(r, curr, next, a, x)
<1>1. /\ r \in ReadyType /\ curr \in Seq(Sleeper) /\ next \in Seq(Sleeper) /\ w \in Seq(Task)
  BY DEF Lists
<1>2. PICK F : F = PlacesOf(r, curr, next, w)
  OBVIOUS
<1>3. PICK G : G = PlacesOf(r, curr, next, x)
  OBVIOUS
<1>4. /\ IsPlaces(F, r, curr, next, w) /\ IsPlaces(G, r, curr, next, x)
      /\ Injective(F) /\ In(F) = Task
  BY <1>1, <1>2, <1>3, PlacesOfType, PlaceFacts
<1>5. /\ F \in PlacesType /\ G \in PlacesType /\ EXTRA \in PlaceName
      /\ F[EXTRA] = w /\ G[EXTRA] = x
  BY <1>4 DEF IsPlaces
<1>6. SameBut(F, G, EXTRA)
  BY <1>4, PlaceNames DEF IsPlaces, SameBut
<1> HIDE DEF EXTRA, PlaceName
<1>7. \A l \in PlaceName : Range(G[l]) = Range(F[l])
  BY <1>5, <1>6 DEF SameBut
<1>8. In(G) = Task
  BY <1>4, <1>7 DEF In
<1>9. ASSUME NEW l \in PlaceName, NEW m \in PlaceName,
             NEW i \in DOMAIN G[l], NEW j \in DOMAIN G[m], G[l][i] = G[m][j]
      PROVE  l = m /\ i = j
  <2>1. l = m
    <3>1. G[l][i] \in Range(F[l]) /\ G[l][i] \in Range(F[m])
      <4>1. G[l][i] \in Range(G[l]) /\ G[l][i] \in Range(G[m])
        BY <1>9 DEF Range
      <4> QED BY <1>7, <4>1
    <3> QED BY <1>4, <1>5, <3>1, OneList
  <2>2. CASE l = EXTRA
    BY <1>5, <1>9, <2>1, <2>2
  <2>3. CASE l # EXTRA
    <3>1. G[l] = F[l]
      BY <1>6, <2>3 DEF SameBut
    <3> QED BY <1>4, <1>9, <2>1, <3>1 DEF Injective
  <2> QED BY <2>1, <2>2, <2>3
<1>10. Injective(G)
  BY <1>9 DEF Injective
<1> QED BY <1>3, <1>8, <1>10 DEF Lists

\* No task waits twice.
LEMMA WaitersOnce ==
  ASSUME NEW r, NEW curr, NEW next, NEW a, NEW w, Lists(r, curr, next, a, w)
  PROVE  \A i, j \in DOMAIN w : w[i] = w[j] => i = j
<1>1. PICK F : F = PlacesOf(r, curr, next, w)
  OBVIOUS
<1>2. EXTRA \in PlaceName /\ F[EXTRA] = w /\ Injective(F)
  BY <1>1, PlaceFacts DEF IsPlaces
<1> QED BY <1>2 DEF Injective

\* Which of two lists is the first one does not matter.
LEMMA SwapWaiters ==
  ASSUME NEW r, NEW curr, NEW next, NEW a, NEW u \in Seq(Task), NEW v \in Seq(Task),
         Lists(r, curr, next, a, u \o v)
  PROVE  Lists(r, curr, next, a, v \o u)
<1>1. PICK w \in Seq(Task) : w = u \o v
  BY ConcatRange
<1>2. PICK x \in Seq(Task) : x = v \o u
  BY ConcatRange
<1>3. PICK m \in Nat, n \in Nat : m = Len(u) /\ n = Len(v)
  OBVIOUS
<1>4. /\ Len(w) = m + n
      /\ \A i \in 1 .. m + n : w[i] = IF i <= m THEN u[i] ELSE v[i - m]
  BY <1>1, <1>3, ConcatAt
<1>5. /\ Len(x) = n + m
      /\ \A i \in 1 .. n + m : x[i] = IF i <= n THEN v[i] ELSE u[i - n]
  BY <1>2, <1>3, ConcatAt
<1>6. Range(x) = Range(w)
  <2>1. Range(x) = Range(v) \union Range(u) /\ Range(w) = Range(u) \union Range(v)
    BY <1>1, <1>2, ConcatRange
  <2> QED BY <2>1
<1>7. Lists(r, curr, next, a, w)
  BY <1>1
<1>8. \A i, j \in 1 .. m + n : w[i] = w[j] => i = j
  <2>1. \A i, j \in DOMAIN w : w[i] = w[j] => i = j
    BY <1>7, WaitersOnce
  <2>2. DOMAIN w = 1 .. m + n
    BY <1>4
  <2> QED BY <2>1, <2>2
<1> DEFINE at(i) == IF i <= n THEN i + m ELSE i - n
<1>9. ASSUME NEW i \in 1 .. n + m PROVE at(i) \in 1 .. m + n /\ x[i] = w[at(i)]
  <2>1. CASE i <= n
    <3>1. at(i) = i + m /\ i + m \in 1 .. m + n /\ ~(i + m <= m) /\ (i + m) - m = i
      BY <2>1
    <3>2. w[i + m] = v[(i + m) - m]
      BY <1>4, <3>1
    <3> QED BY <1>5, <2>1, <3>1, <3>2
  <2>2. CASE ~(i <= n)
    <3>1. at(i) = i - n /\ i - n \in 1 .. m + n /\ i - n <= m
      BY <2>2
    <3> QED BY <1>4, <1>5, <2>2, <3>1
  <2> QED BY <2>1, <2>2
<1>10. ASSUME NEW i \in 1 .. n + m, NEW j \in 1 .. n + m, x[i] = x[j] PROVE i = j
  <2>1. at(i) = at(j)
    BY <1>8, <1>9, <1>10
  <2> QED BY <2>1
<1>11. \A i, j \in DOMAIN x : x[i] = x[j] => i = j
  <2>1. DOMAIN x = 1 .. n + m
    BY <1>5
  <2> QED BY <1>10, <2>1
<1>12. Lists(r, curr, next, a, x)
  BY <1>6, <1>7, <1>11, SameWaiters
<1> QED BY <1>2, <1>12

\* A task that is pushed joins those in the stack.
LEMMA PushRange ==
  ASSUME NEW w \in Seq(Task), NEW t \in Task
  PROVE  Range(<<t>> \o w) = Range(w) \union {t}
<1>1. PICK n \in Nat : n = Len(w) /\ w \in [1 .. n -> Task]
  OBVIOUS
<1>2. PICK new \in Seq(Task) : new = <<t>> \o w /\ IsInsert(new, w, 1, t)
  BY PushInserts
<1>3. /\ Len(new) = n + 1 /\ new[1] = t
      /\ \A i \in 1 .. n : new[i + 1] = w[i] /\ i + 1 \in 1 .. n + 1
  BY <1>1, <1>2 DEF IsInsert
<1>4. \A i \in 1 .. n + 1 : i = 1 \/ (i - 1 \in 1 .. n /\ i = (i - 1) + 1)
  OBVIOUS
<1>5. 1 \in 1 .. n + 1
  OBVIOUS
<1>6. ASSUME NEW x PROVE x \in Range(new) <=> x \in Range(w) \union {t}
  <2>1. x \in Range(new) <=> \E i \in 1 .. n + 1 : new[i] = x
    BY <1>3, InRange
  <2>2. x \in Range(w) <=> \E j \in 1 .. n : w[j] = x
    BY <1>1, InRange
  <2>3. ASSUME NEW i \in 1 .. n + 1, new[i] = x PROVE x \in Range(w) \union {t}
    <3>1. CASE i = 1
      BY <1>3, <2>3, <3>1
    <3>2. CASE i - 1 \in 1 .. n /\ i = (i - 1) + 1
      BY <1>3, <2>2, <2>3, <3>2
    <3> QED BY <1>4, <3>1, <3>2
  <2>4. x = t => x \in Range(new)
    BY <1>3, <1>5, <2>1
  <2>5. x \in Range(w) => x \in Range(new)
    <3>1. SUFFICES ASSUME NEW j \in 1 .. n, w[j] = x PROVE \E i \in 1 .. n + 1 : new[i] = x
      BY <2>1, <2>2
    <3> QED BY <1>3, <3>1
  <2> QED BY <2>1, <2>3, <2>4, <2>5
<1> QED BY <1>2, <1>6

=============================================================================
