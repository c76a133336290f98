---------------------------- MODULE KernelProofs ----------------------------
(***************************************************************************)
(* Lemmas about sequences, least numbers and remainders, which all the     *)
(* proofs rest on; what the operations on the ready and the blocked lists  *)
(* do, for every list and every width of the tick count; and how the moves *)
(* of a task from a list to another keep every task in one list.           *)
(***************************************************************************)
EXTENDS Kernel, FiniteSetTheorems, SequenceTheorems, TLAPS

-----------------------------------------------------------------------------
(* Numbers and sequences *)

\* A non-empty set of natural numbers has a least element.  The segments below
\* its elements are finite sets, and those are well-founded under inclusion.
LEMMA LeastExists ==
  ASSUME NEW S \in SUBSET Nat, S # {}
  PROVE  Min(S) \in S /\ \A j \in S : Min(S) <= j
<1> DEFINE seg(i) == 0 .. (i-1)
           R == StrictSubsetOrdering(Nat)
           T == {seg(i) : i \in S}
<1>1. IsWellFoundedOn(R, FiniteSubsetsOf(Nat))
  BY FS_StrictSubsetOrderingWellFounded
<1>2. T \in SUBSET FiniteSubsetsOf(Nat)
  <2>1. ASSUME NEW i \in S PROVE seg(i) \in SUBSET Nat /\ IsFiniteSet(seg(i))
    BY FS_Interval, i \in Int, i-1 \in Int, 0 \in Int
  <2> QED BY <2>1 DEF FiniteSubsetsOf
<1>3. T # {}
  OBVIOUS
<1> HIDE DEF R, T
<1>4. PICK x \in T : \A y \in T : ~ (<<y, x>> \in R)
  BY <1>1, <1>2, <1>3, WFMin
<1>5. PICK i \in S : x = seg(i)
  BY <1>4 DEF T
<1>6. ASSUME NEW j \in S, j < i PROVE FALSE
  <2>1. seg(j) \in T
    BY DEF T
  <2>2. seg(j) \subseteq seg(i) /\ seg(j) # seg(i)
    BY <1>6
  <2>3. <<seg(j), seg(i)>> \in R
    BY <2>2 DEF R, StrictSubsetOrdering
  <2> QED BY <2>1, <2>3, <1>4, <1>5
<1>7. \E m \in S : \A j \in S : m <= j
  BY <1>6
<1> QED BY <1>7 DEF Min

\* s with x put at position i.
IsInsert(s2, s, i, x) ==
  /\ Len(s2) = Len(s) + 1
  /\ \A k \in 1 .. Len(s2) :
       s2[k] = IF k < i THEN s[k] ELSE IF k = i THEN x ELSE s[k - 1]

\* Append puts its element after the last one.
LEMMA AppendInserts ==
  ASSUME NEW S, NEW s \in Seq(S), NEW x \in S
  PROVE  Append(s, x) \in Seq(S) /\ IsInsert(Append(s, x), s, Len(s) + 1, x)
BY DEF IsInsert

\* A push (stack_list_push) puts its element before the first one.
LEMMA PushInserts ==
  ASSUME NEW S, NEW s \in Seq(S), NEW x \in S
  PROVE  <<x>> \o s \in Seq(S) /\ IsInsert(<<x>> \o s, s, 1, x)
BY DEF IsInsert

\* InsertAt puts its element at the position asked for.
LEMMA InsertAtInserts ==
  ASSUME NEW S, NEW s \in Seq(S), NEW x \in S, NEW i \in 1 .. Len(s) + 1
  PROVE  InsertAt(s, i, x) \in Seq(S) /\ IsInsert(InsertAt(s, i, x), s, i, x)
<1> DEFINE a == SubSeq(s, 1, i - 1)
           b == SubSeq(s, i, Len(s))
<1>1. a \in Seq(S) /\ Len(a) = i - 1 /\ \A k \in 1 .. i - 1 : a[k] = s[k]
  BY SubSeqProperties
<1>2. b \in Seq(S) /\ Len(b) = Len(s) - i + 1 /\ \A k \in 1 .. Len(b) : b[k] = s[k + i - 1]
  BY SubSeqProperties
<1> HIDE DEF a, b
<1>3. a \o <<x>> \in Seq(S) /\ Len(a \o <<x>>) = i
      /\ \A k \in 1 .. i : (a \o <<x>>)[k] = IF k < i THEN s[k] ELSE x
  BY <1>1
<1>4. InsertAt(s, i, x) = (a \o <<x>>) \o b
  BY DEF InsertAt, a, b
<1> DEFINE c == a \o <<x>>
<1>5. c \in Seq(S) /\ Len(c) = i /\ \A k \in 1 .. i : c[k] = IF k < i THEN s[k] ELSE x
  BY <1>3
<1> HIDE DEF c
<1>6. /\ c \o b \in Seq(S)
      /\ Len(c \o b) = Len(c) + Len(b)
      /\ \A k \in 1 .. Len(c) + Len(b) :
           (c \o b)[k] = IF k <= Len(c) THEN c[k] ELSE b[k - Len(c)]
  BY <1>2, <1>5, ConcatProperties
<1>7. Len(c \o b) = Len(s) + 1
  BY <1>2, <1>5, <1>6
<1>8. ASSUME NEW k \in 1 .. Len(s) + 1
      PROVE (c \o b)[k] = IF k < i THEN s[k] ELSE IF k = i THEN x ELSE s[k - 1]
  <2>1. (c \o b)[k] = IF k <= i THEN c[k] ELSE b[k - i]
    BY <1>2, <1>5, <1>6
  <2>2. CASE k <= i
    BY <2>1, <2>2, <1>5
  <2>3. CASE k > i
    <3>1. k - i \in 1 .. Len(b) /\ (k - i) + i - 1 = k - 1
      BY <2>3, <1>2
    <3> QED BY <2>1, <2>3, <3>1, <1>2
  <2>4. k <= i \/ k > i
    BY LenProperties
  <2> QED BY <2>2, <2>3, <2>4
<1> QED BY <1>4, <1>6, <1>7, <1>8 DEF IsInsert, c

\* RemoveAt closes the gap behind the element it takes out.
LEMMA RemoveAtRemoves ==
  ASSUME NEW S, NEW s \in Seq(S), NEW i \in 1 .. Len(s)
  PROVE  /\ RemoveAt(s, i) \in Seq(S) /\ Len(RemoveAt(s, i)) = Len(s) - 1
         /\ \A k \in 1 .. Len(s) - 1 : RemoveAt(s, i)[k] = IF k < i THEN s[k] ELSE s[k + 1]
<1> DEFINE a == SubSeq(s, 1, i - 1)
           b == SubSeq(s, i + 1, Len(s))
<1>1. a \in Seq(S) /\ Len(a) = i - 1 /\ \A k \in 1 .. i - 1 : a[k] = s[k]
  BY SubSeqProperties
<1>2. b \in Seq(S) /\ Len(b) = Len(s) - i /\ \A k \in 1 .. Len(b) : b[k] = s[k + i]
  BY SubSeqProperties
<1>3. RemoveAt(s, i) = a \o b
  BY DEF RemoveAt
<1> HIDE DEF a, b
<1>4. /\ a \o b \in Seq(S)
      /\ Len(a \o b) = Len(a) + Len(b)
      /\ \A k \in 1 .. Len(a) + Len(b) :
           (a \o b)[k] = IF k <= Len(a) THEN a[k] ELSE b[k - Len(a)]
  BY <1>1, <1>2, ConcatProperties
<1>5. Len(a \o b) = Len(s) - 1
  BY <1>1, <1>2, <1>4
<1>6. ASSUME NEW k \in 1 .. Len(s) - 1
      PROVE  (a \o b)[k] = IF k < i THEN s[k] ELSE s[k + 1]
  <2>1. CASE k < i
    BY <1>1, <1>2, <1>4, <2>1
  <2>2. CASE k >= i
    <3>1. k - Len(a) \in 1 .. Len(b) /\ (k - Len(a)) + i = k + 1
      BY <1>1, <1>2, <2>2
    <3>2. k \in 1 .. Len(a) + Len(b) /\ ~(k <= Len(a))
      BY <1>1, <1>2, <2>2
    <3>3. (a \o b)[k] = b[k - Len(a)]
      BY <1>4, <3>2
    <3>4. b[k - Len(a)] = s[(k - Len(a)) + i]
      BY <1>2, <3>1
    <3>5. ~(k < i)
      BY <2>2
    <3> QED BY <3>1, <3>3, <3>4, <3>5
  <2>3. k < i \/ k >= i
    OBVIOUS
  <2> QED BY <2>1, <2>2, <2>3
<1> QED BY <1>3, <1>4, <1>5, <1>6

-----------------------------------------------------------------------------
(* Remainders *)

\* x is a multiple of M and its remainder.
LEMMA Divided ==
  ASSUME NEW M \in Nat \ {0}, NEW x \in Int
  PROVE  x % M \in 0 .. M - 1 /\ \E q \in Int : x = (q * M) + (x % M)
<1>1. /\ x \div M \in Int
      /\ x = (x \div M) * M + (x % M)
      /\ x % M \in 0 .. M - 1
  OBVIOUS
<1> QED BY <1>1

\* A multiple of M other than 0 is not nearer to 0 than M.
LEMMA Multiple ==
  ASSUME NEW M \in Nat \ {0}, NEW q \in Int
  PROVE  /\ q * M \in Int
         /\ q >= 1 => q * M >= M
         /\ q <= -1 => q * M <= -M
OBVIOUS

\* There is one remainder only.
LEMMA ModUnique ==
  ASSUME NEW M \in Nat \ {0}, NEW x \in Int, NEW q \in Int, NEW r \in 0 .. M - 1,
         x = (q * M) + r
  PROVE  x % M = r
<1>1. PICK p \in Int : x = (p * M) + (x % M)
  BY Divided
<1> DEFINE s == x % M
           w == (q - p) * M
<1>2. s \in 0 .. M - 1
  BY Divided
<1>3. q - p \in Int /\ w = (q * M) - (p * M)
  OBVIOUS
<1>4. w \in Int /\ (q - p >= 1 => w >= M) /\ (q - p <= -1 => w <= -M)
  BY <1>3, Multiple
<1>5. w = s - r
  BY <1>1, <1>2, <1>3, Multiple
<1> HIDE DEF s, w
<1>6. q - p = 0
  BY <1>2, <1>3, <1>4, <1>5
<1>7. w = 0
  BY <1>6 DEF w
<1> QED BY <1>2, <1>5, <1>7 DEF s

\* A difference may be reduced before or after it is taken.
LEMMA ModDiff ==
  ASSUME NEW M \in Nat \ {0}, NEW x \in Int, NEW y \in Int
  PROVE  /\ (x - (y % M)) % M = (x - y) % M
         /\ ((x % M) - y) % M = (x - y) % M
<1> DEFINE r == (x - y) % M
           u == x % M
           v == y % M
<1>0. x - y \in Int
  OBVIOUS
<1>1. PICK q \in Int : x - y = (q * M) + r
  BY <1>0, Divided
<1>2. PICK a \in Int : x = (a * M) + u
  BY Divided
<1>3. PICK b \in Int : y = (b * M) + v
  BY Divided
<1>4. r \in 0 .. M - 1 /\ u \in Int /\ v \in Int
  BY <1>0, Divided
<1>5. /\ q + b \in Int /\ (q + b) * M = (q * M) + (b * M)
      /\ q - a \in Int /\ (q - a) * M = (q * M) - (a * M)
      /\ q * M \in Int /\ b * M \in Int /\ a * M \in Int
  OBVIOUS
<1> HIDE DEF r, u, v
<1>6. /\ x - v = ((q + b) * M) + r
      /\ u - y = ((q - a) * M) + r
      /\ x - v \in Int /\ u - y \in Int /\ r \in Int
  BY <1>1, <1>2, <1>3, <1>4, <1>5
<1>7. (x - v) % M = r /\ (u - y) % M = r
  BY <1>4, <1>5, <1>6, ModUnique
<1> QED BY <1>7 DEF r, u, v

\* A number below M is its own remainder.
LEMMA ModSmall ==
  ASSUME NEW M \in Nat \ {0}, NEW r \in 0 .. M - 1
  PROVE  r % M = r
<1>1. r \in Int /\ r = (0 * M) + r
  OBVIOUS
<1> QED BY <1>1, ModUnique

\* A number is divisible when it is a multiple, and sums and differences of such
\* numbers are divisible.
LEMMA Divisible ==
  ASSUME NEW M \in Nat \ {0}, NEW x \in Int
  PROVE  x % M = 0 <=> \E q \in Int : x = q * M
<1>1. ASSUME x % M = 0 PROVE \E q \in Int : x = q * M
  <2>1. PICK q \in Int : x = (q * M) + (x % M)
    BY Divided
  <2>2. q * M \in Int
    BY Multiple
  <2> QED BY <1>1, <2>1, <2>2
<1>2. ASSUME NEW q \in Int, x = q * M PROVE x % M = 0
  <2>1. x = (q * M) + 0 /\ 0 \in 0 .. M - 1
    BY <1>2
  <2> QED BY <2>1, ModUnique
<1> QED BY <1>1, <1>2

LEMMA DivisibleSum ==
  ASSUME NEW M \in Nat \ {0}, NEW x \in Int, NEW y \in Int, x % M = 0, y % M = 0
  PROVE  (x + y) % M = 0 /\ (x - y) % M = 0
<1>1. PICK p \in Int : x = p * M
  BY Divisible
<1>2. PICK q \in Int : y = q * M
  BY Divisible
<1>3. p + q \in Int /\ x + y = (p + q) * M /\ p - q \in Int /\ x - y = (p - q) * M
  BY <1>1, <1>2
<1>4. x + y \in Int /\ x - y \in Int
  OBVIOUS
<1> QED BY <1>3, <1>4, Divisible

\* Alignment upwards, and that a divisible number is not above n when it is not
\* above what n is aligned down to.
LEMMA AlignedUp ==
  ASSUME NEW M \in Nat \ {0}, NEW n \in Int
  PROVE  /\ (-n) % M \in 0 .. M - 1
         /\ (n + ((-n) % M)) % M = 0
<1> DEFINE r == (-n) % M
<1>1. -n \in Int
  OBVIOUS
<1>2. r \in 0 .. M - 1 /\ \E q \in Int : -n = (q * M) + r
  BY <1>1, Divided
<1>3. PICK q \in Int : -n = (q * M) + r
  BY <1>2
<1> HIDE DEF r
<1>4. -q \in Int /\ (-q) * M = -(q * M) /\ q * M \in Int
  OBVIOUS
<1>5. n + r = (-q) * M /\ n + r \in Int
  BY <1>2, <1>3, <1>4
<1>6. (n + r) % M = 0
  BY <1>4, <1>5, Divisible
<1> QED BY <1>2, <1>6 DEF r

LEMMA AlignedDown ==
  ASSUME NEW M \in Nat \ {0}, NEW n \in Int, NEW x \in Int, x % M = 0, x <= n
  PROVE  x <= n - (n % M)
<1> DEFINE r == n % M
<1>1. PICK q \in Int : n = (q * M) + r
  BY Divided
<1>2. r \in 0 .. M - 1
  BY Divided
<1>3. PICK p \in Int : x = p * M
  BY Divisible
<1> HIDE DEF r
<1>4. q - p \in Int /\ (q - p) * M = (q * M) - (p * M) /\ q * M \in Int /\ p * M \in Int
  OBVIOUS
<1>5. q - p <= -1 => (q * M) - (p * M) <= -M
  BY <1>4, Multiple
<1>6. ~(q - p <= -1)
  BY <1>1, <1>2, <1>3, <1>4, <1>5
<1>7. q - p = 0 \/ q - p >= 1
  BY <1>4, <1>6
<1>8. (q * M) - (p * M) >= 0
  <2>1. CASE q - p = 0
    <3>1. (q - p) * M = 0
      BY <2>1
    <3> QED BY <1>4, <3>1
  <2>2. CASE q - p >= 1
    BY <1>4, <2>2, Multiple
  <2> QED BY <1>7, <2>1, <2>2
<1>9. n - r = q * M
  BY <1>1, <1>2, <1>4
<1>10. x <= n - r
  BY <1>3, <1>4, <1>8, <1>9
<1> QED BY <1>10 DEF r

-----------------------------------------------------------------------------
(* Ticks *)

\* An arithmetic result stored in a tick_t is a tick.
LEMMA ModTick ==
  ASSUME NEW x \in Int
  PROVE  x % TickMod \in Tick
BY TickModAssumption DEF Tick

-----------------------------------------------------------------------------
(* Ready lists *)

ReadyType == [list : [Priority -> Seq(Task)], bitmap : SUBSET Priority]

\* BitmapExact, of the lists r.
Exact(r) == r.bitmap = {p \in Priority : r.list[p] # <<>>}

\* The lists of a kernel without tasks are well-formed.
LEMMA EmptyExact == EmptyReady \in ReadyType /\ Exact(EmptyReady)
BY DEF EmptyReady, ReadyType, Exact

\* tasklist_append adds one task to the end of one list and keeps the bitmap exact.
LEMMA AppendReady ==
  ASSUME NEW r \in ReadyType, NEW p \in Priority, NEW t \in Task, Exact(r),
         NEW s, s = tasklist_append(r, p, t)
  PROVE  /\ s \in ReadyType /\ Exact(s)
         /\ s.list[p] = Append(r.list[p], t)
         /\ \A q \in Priority \ {p} : s.list[q] = r.list[q]
<1>1. r.list \in [Priority -> Seq(Task)] /\ r.bitmap \in SUBSET Priority
  BY DEF ReadyType
<1>2. /\ s.list = [r.list EXCEPT ![p] = Append(@, t)]
      /\ s.bitmap = r.bitmap \union {p}
      /\ s = [list |-> s.list, bitmap |-> s.bitmap]
  BY DEF tasklist_append
<1>3. r.list[p] \in Seq(Task) /\ Append(r.list[p], t) \in Seq(Task)
      /\ Append(r.list[p], t) # <<>>
  BY <1>1
<1>4. s.list[p] = Append(r.list[p], t) /\ \A q \in Priority \ {p} : s.list[q] = r.list[q]
  BY <1>1, <1>2
<1>5. s.list \in [Priority -> Seq(Task)]
  BY <1>1, <1>2, <1>3
<1>6. s \in ReadyType
  BY <1>1, <1>2, <1>5 DEF ReadyType
<1>7. Exact(s)
  BY <1>1, <1>2, <1>3, <1>4 DEF Exact
<1> QED BY <1>4, <1>6, <1>7

\* tasklist_remove_front takes the front task of one list and keeps the bitmap exact.
LEMMA RemoveReady ==
  ASSUME NEW r \in ReadyType, NEW p \in Priority, Exact(r), r.list[p] # <<>>,
         NEW s, s = tasklist_remove_front(r, p)
  PROVE  /\ s \in ReadyType /\ Exact(s)
         /\ s.list[p] = Tail(r.list[p])
         /\ \A q \in Priority \ {p} : s.list[q] = r.list[q]
<1>1. r.list \in [Priority -> Seq(Task)] /\ r.bitmap \in SUBSET Priority
  BY DEF ReadyType
<1>2. /\ s.list = [r.list EXCEPT ![p] = Tail(@)]
      /\ s.bitmap = IF Tail(r.list[p]) = <<>> THEN r.bitmap \ {p} ELSE r.bitmap
      /\ s = [list |-> s.list, bitmap |-> s.bitmap]
  BY DEF tasklist_remove_front
<1>3. r.list[p] \in Seq(Task) /\ Tail(r.list[p]) \in Seq(Task)
  BY <1>1
<1>4. s.list[p] = Tail(r.list[p]) /\ \A q \in Priority \ {p} : s.list[q] = r.list[q]
  BY <1>1, <1>2
<1>5. s.list \in [Priority -> Seq(Task)]
  BY <1>1, <1>2, <1>3
<1>6. s \in ReadyType
  BY <1>1, <1>2, <1>5 DEF ReadyType
<1>7. Exact(s)
  BY <1>1, <1>2, <1>4 DEF Exact
<1> QED BY <1>4, <1>6, <1>7

\* tasklist_get_highest_priority finds a list with a task, and none above it
\* has one.
LEMMA HighestPriority ==
  ASSUME NEW r \in ReadyType, Exact(r), NEW p \in Priority, r.list[p] # <<>>,
         NEW h, h = tasklist_get_highest_priority(r)
  PROVE  /\ h \in Priority /\ r.list[h] # <<>>
         /\ \A q \in Priority : r.list[q] # <<>> => q <= h
<1>1. r.bitmap \subseteq {0, 1, 2, 3} /\ r.bitmap # {}
  BY DEF ReadyType, Exact, Priority
<1>2. \E m \in r.bitmap : \A q \in r.bitmap : q <= m
  <2>1. CASE 3 \in r.bitmap
    BY <1>1, <2>1
  <2>2. CASE 3 \notin r.bitmap /\ 2 \in r.bitmap
    BY <1>1, <2>2
  <2>3. CASE 3 \notin r.bitmap /\ 2 \notin r.bitmap /\ 1 \in r.bitmap
    BY <1>1, <2>3
  <2>4. CASE r.bitmap = {0}
    BY <2>4
  <2> QED BY <1>1, <2>1, <2>2, <2>3, <2>4
<1>3. h \in r.bitmap /\ \A q \in r.bitmap : q <= h
  BY <1>2 DEF tasklist_get_highest_priority
<1> QED BY <1>3 DEF Exact

-----------------------------------------------------------------------------
(* Blocked lists *)

\* The insertion of a sleeper puts it at one position of the list and leaves
\* the order of the others as it was.
LEMMA InsertBlocked ==
  ASSUME NEW list \in Seq(Sleeper), NEW e \in Sleeper,
         NEW new, new = task_insert_blocked_list(list, e)
  PROVE  new \in Seq(Sleeper) /\ \E n \in 1 .. Len(list) + 1 : IsInsert(new, list, n, e)
<1> DEFINE later == Later(list, e.resume_time)
           n == IF later = {} THEN Len(list) + 1 ELSE Min(later)
<1>1. n \in 1 .. Len(list) + 1
  <2>1. Len(list) \in Nat /\ DOMAIN list = 1 .. Len(list)
    BY LenProperties
  <2>2. later \subseteq 1 .. Len(list)
    BY <2>1 DEF Later
  <2>3. CASE later = {}
    BY <2>1, <2>3
  <2>4. CASE later # {}
    <3>1. later \in SUBSET Nat
      BY <2>1, <2>2
    <3> HIDE DEF later
    <3>2. Min(later) \in later
      BY <2>4, <3>1, LeastExists
    <3>3. n = Min(later)
      BY <2>4
    <3>4. Min(later) \in 1 .. Len(list)
      BY <2>2, <3>2
    <3> HIDE DEF n
    <3> QED BY <2>1, <3>3, <3>4
  <2> QED BY <2>3, <2>4
<1>2. new = InsertAt(list, n, e)
  BY DEF task_insert_blocked_list
<1> HIDE DEF n
<1> QED BY <1>1, <1>2, InsertAtInserts

-----------------------------------------------------------------------------
(* Families of lists without repetitions *)

PlacesType == [PlaceName -> Seq(Task)]

\* G has the lists of F, but for a.
SameBut(F, G, a) == \A l \in PlaceName \ {a} : G[l] = F[l]

\* When the front of one list is removed, the others keep their place and the
\* task that was there is in no list any more.
LEMMA PopPlace ==
  ASSUME NEW F \in PlacesType, NEW G \in PlacesType, NEW a \in PlaceName,
         Injective(F), F[a] # <<>>,
         G[a] = Tail(F[a]), SameBut(F, G, a)
  PROVE  Injective(G) /\ In(G) = In(F) \ {Head(F[a])}
<1> USE DEF SameBut
<1>1. /\ Head(F[a]) = F[a][1] /\ 1 \in DOMAIN F[a]
      /\ DOMAIN G[a] = 1 .. Len(F[a]) - 1
      /\ \A i \in DOMAIN G[a] : i + 1 \in DOMAIN F[a] /\ G[a][i] = F[a][i + 1]
      /\ DOMAIN F[a] = 1 .. Len(F[a]) /\ Len(F[a]) \in Nat
  BY DEF PlacesType
<1>2. ASSUME NEW l \in PlaceName, NEW m \in PlaceName,
             NEW i \in DOMAIN G[l], NEW j \in DOMAIN G[m], G[l][i] = G[m][j]
      PROVE  l = m /\ i = j
  <2> DEFINE up(p, k) == IF p = a THEN k + 1 ELSE k
  <2>1. ASSUME NEW p \in PlaceName, NEW k \in DOMAIN G[p]
        PROVE  k \in Int /\ up(p, k) \in DOMAIN F[p] /\ G[p][k] = F[p][up(p, k)]
    <3>1. G[p] \in Seq(Task)
      BY DEF PlacesType
    <3>2. k \in Int
      BY <3>1
    <3> QED BY <1>1, <3>2
  <2>2. F[l][up(l, i)] = F[m][up(m, j)]
    BY <1>2, <2>1
  <2>3. l = m /\ up(l, i) = up(m, j)
    BY <2>1, <2>2 DEF Injective
  <2> QED BY <2>1, <2>3
<1>3. ASSUME NEW t \in In(G) PROVE t \in In(F) \ {Head(F[a])}
  <2>0. PICK l \in PlaceName : t \in Range(G[l])
    BY <1>3 DEF In, Range
  <2>1. PICK i \in DOMAIN G[l] : t = G[l][i]
    BY <2>0 DEF Range
  <2>2. CASE l = a
    <3>1. i + 1 \in DOMAIN F[a] /\ t = F[a][i + 1]
      BY <1>1, <2>1, <2>2
    <3>2. i \in 1 .. Len(F[a]) - 1 /\ i + 1 # 1
      <4>1. i \in 1 .. Len(F[a]) - 1
        BY <1>1, <2>1, <2>2
      <4> QED BY <1>1, <4>1
    <3>3. \A j \in DOMAIN F[a], k \in DOMAIN F[a] : F[a][j] = F[a][k] => j = k
      BY DEF Injective
    <3>4. F[a][i + 1] # F[a][1]
      BY <1>1, <3>1, <3>2, <3>3
    <3>5. t \in In(F)
      BY <3>1 DEF In, Range
    <3> QED BY <1>1, <3>1, <3>4, <3>5
  <2>3. CASE l # a
    <3>1. i \in DOMAIN F[l] /\ t = F[l][i]
      BY <2>1, <2>3
    <3>2. F[l][i] # F[a][1]
      BY <1>1, <2>3, <3>1 DEF Injective
    <3> QED BY <1>1, <3>1, <3>2 DEF In, Range
  <2> QED BY <2>2, <2>3
<1>4. ASSUME NEW t \in In(F), t # Head(F[a]) PROVE t \in In(G)
  <2>0. PICK l \in PlaceName : t \in Range(F[l])
    BY <1>4 DEF In, Range
  <2>1. PICK i \in DOMAIN F[l] : t = F[l][i]
    BY <2>0 DEF Range
  <2>2. CASE l = a
    <3>0. i \in DOMAIN F[a] /\ t = F[a][i] /\ i # 1
      BY <1>1, <1>4, <2>1, <2>2
    <3>1. i \in 1 .. Len(F[a]) /\ i - 1 \in 1 .. Len(F[a]) - 1 /\ (i - 1) + 1 = i
      <4>1. i \in 1 .. Len(F[a])
        BY <1>1, <3>0
      <4> QED BY <1>1, <3>0, <4>1
    <3>2. G[a][i - 1] = t
      BY <1>1, <3>0, <3>1
    <3>3. t \in Range(G[a])
      BY <1>1, <3>1, <3>2 DEF Range
    <3> QED BY <3>3 DEF In
  <2>3. CASE l # a
    BY <2>1, <2>3 DEF In, Range
  <2> QED BY <2>2, <2>3
<1> QED BY <1>2, <1>3, <1>4 DEF Injective

\* A task that is in no list may be inserted anywhere in one of them.
LEMMA InsertPlace ==
  ASSUME NEW F \in PlacesType, NEW G \in PlacesType, NEW a \in PlaceName,
         NEW n \in 1 .. Len(F[a]) + 1, NEW x \in Task,
         Injective(F), x \notin In(F),
         IsInsert(G[a], F[a], n, x), SameBut(F, G, a)
  PROVE  Injective(G) /\ In(G) = In(F) \union {x}
<1> USE DEF SameBut
<1>1. /\ Len(F[a]) \in Nat /\ n \in Int
      /\ DOMAIN F[a] = 1 .. Len(F[a])
      /\ DOMAIN G[a] = 1 .. Len(F[a]) + 1
      /\ \A k \in DOMAIN G[a] :
           G[a][k] = IF k < n THEN F[a][k] ELSE IF k = n THEN x ELSE F[a][k - 1]
  BY DEF PlacesType, IsInsert
<1> DEFINE dn(p, k) == IF p = a /\ k > n THEN k - 1 ELSE k
<1>2. ASSUME NEW p \in PlaceName, NEW k \in DOMAIN G[p]
      PROVE  k \in Int /\ \/ p = a /\ k = n /\ G[p][k] = x
                          \/ /\ ~(p = a /\ k = n)
                             /\ dn(p, k) \in DOMAIN F[p]
                             /\ G[p][k] = F[p][dn(p, k)]
  <2>1. G[p] \in Seq(Task)
    BY DEF PlacesType
  <2>2. k \in Int
    BY <2>1
  <2>3. CASE p = a
    BY <1>1, <2>2, <2>3
  <2>4. CASE p # a
    BY <2>2, <2>4
  <2> QED BY <2>3, <2>4
<1>3. ASSUME NEW p \in PlaceName, NEW k \in DOMAIN F[p] PROVE F[p][k] # x
  BY DEF In, Range
<1>4. ASSUME NEW l \in PlaceName, NEW m \in PlaceName,
             NEW i \in DOMAIN G[l], NEW j \in DOMAIN G[m], G[l][i] = G[m][j]
      PROVE  l = m /\ i = j
  <2>1. CASE l = a /\ i = n
    <3>1. G[m][j] = x
      BY <1>2, <1>4, <2>1
    <3>2. m = a /\ j = n
      BY <1>2, <1>3, <3>1
    <3> QED BY <2>1, <3>2
  <2>2. CASE m = a /\ j = n
    <3>1. G[l][i] = x
      BY <1>2, <1>4, <2>2
    <3>2. l = a /\ i = n
      BY <1>2, <1>3, <3>1
    <3> QED BY <2>2, <3>2
  <2>3. CASE ~(l = a /\ i = n) /\ ~(m = a /\ j = n)
    <3>1. /\ i \in Int /\ j \in Int
          /\ dn(l, i) \in DOMAIN F[l] /\ G[l][i] = F[l][dn(l, i)]
          /\ dn(m, j) \in DOMAIN F[m] /\ G[m][j] = F[m][dn(m, j)]
      BY <1>2, <2>3
    <3>2. F[l][dn(l, i)] = F[m][dn(m, j)]
      BY <1>4, <3>1
    <3>3. l = m /\ dn(l, i) = dn(m, j)
      BY <3>1, <3>2 DEF Injective
    <3> QED BY <1>1, <2>3, <3>1, <3>3
  <2> QED BY <2>1, <2>2, <2>3
<1>5. In(G) \subseteq In(F) \union {x}
  BY <1>2 DEF In, Range
<1>6. ASSUME NEW t \in In(F) PROVE t \in In(G)
  <2>0. PICK l \in PlaceName : t \in Range(F[l])
    BY <1>6 DEF In, Range
  <2>1. PICK i \in DOMAIN F[l] : t = F[l][i]
    BY <2>0 DEF Range
  <2>2. CASE l = a
    <3>1. i \in Int /\ i \in 1 .. Len(F[a])
      BY <1>1, <2>1, <2>2
    <3>2. CASE i < n
      <4>1. i \in DOMAIN G[a] /\ G[a][i] = t
        BY <1>1, <2>1, <2>2, <3>1, <3>2
      <4> QED BY <4>1 DEF In, Range
    <3>3. CASE i >= n
      <4>1. i + 1 \in DOMAIN G[a] /\ G[a][i + 1] = F[a][(i + 1) - 1] /\ (i + 1) - 1 = i
        BY <1>1, <3>1, <3>3
      <4>2. G[a][i + 1] = t
        BY <2>1, <2>2, <4>1
      <4> QED BY <4>1, <4>2 DEF In, Range
    <3> QED BY <1>1, <3>1, <3>2, <3>3
  <2>3. CASE l # a
    BY <2>1, <2>3 DEF In, Range
  <2> QED BY <2>2, <2>3
<1>7. x \in In(G)
  <2>1. n \in DOMAIN G[a] /\ G[a][n] = x
    BY <1>1
  <2> QED BY <2>1 DEF In, Range
<1> QED BY <1>4, <1>5, <1>6, <1>7 DEF Injective

\* Exchanging two lists moves no task into a second one.
LEMMA SwapPlaces ==
  ASSUME NEW F \in PlacesType, NEW G \in PlacesType,
         NEW a \in PlaceName, NEW b \in PlaceName,
         Injective(F), G[a] = F[b], G[b] = F[a],
         \A l \in PlaceName \ {a, b} : G[l] = F[l]
  PROVE  Injective(G) /\ In(G) = In(F)
<1> DEFINE swap(l) == IF l = a THEN b ELSE IF l = b THEN a ELSE l
<1>1. \A l \in PlaceName : swap(l) \in PlaceName /\ G[l] = F[swap(l)] /\ F[l] = G[swap(l)]
  OBVIOUS
<1>2. \A l, m \in PlaceName : swap(l) = swap(m) => l = m
  OBVIOUS
<1> HIDE DEF swap
<1>3. Injective(G)
  BY <1>1, <1>2 DEF Injective
<1>4. In(G) = In(F)
  BY <1>1 DEF In
<1> QED BY <1>3, <1>4

\* A task in a list is in no other list.
LEMMA OneList ==
  ASSUME NEW F \in PlacesType, Injective(F),
         NEW l \in PlaceName, NEW m \in PlaceName, NEW t,
         t \in Range(F[l]), t \in Range(F[m])
  PROVE  l = m
<1>1. PICK i \in DOMAIN F[l] : t = F[l][i]
  BY DEF Range
<1>2. PICK j \in DOMAIN F[m] : t = F[m][j]
  BY DEF Range
<1> QED BY <1>1, <1>2 DEF Injective

-----------------------------------------------------------------------------
(* The lists of the kernel as such a family *)

\* The tasks of a blocked list, in the order of its nodes.
LEMMA TasksOfType ==
  ASSUME NEW list \in Seq(Sleeper)
  PROVE  /\ TasksOf(list) \in Seq(Task)
         /\ Len(TasksOf(list)) = Len(list)
         /\ \A i \in 1 .. Len(list) : TasksOf(list)[i] = list[i].task
<1>1. DOMAIN list = 1 .. Len(list) /\ Len(list) \in Nat
  BY LenProperties
<1>2. \A i \in 1 .. Len(list) : list[i] \in Sleeper
  BY <1>1
<1>3. TasksOf(list) = [i \in 1 .. Len(list) |-> list[i].task]
  BY <1>1 DEF TasksOf
<1>4. \A i \in 1 .. Len(list) : list[i].task \in Task
  BY <1>2 DEF Sleeper
<1>5. TasksOf(list) \in [1 .. Len(list) -> Task]
  BY <1>3, <1>4
<1>6. TasksOf(list) \in Seq(Task)
  BY <1>1, <1>5, IsASeq
<1>7. Len(TasksOf(list)) = Len(list)
  BY <1>1, <1>5, <1>6, LenProperties
<1> QED BY <1>3, <1>6, <1>7

\* Removing the front node removes the front task.
LEMMA TasksOfTail ==
  ASSUME NEW list \in Seq(Sleeper), list # <<>>
  PROVE  /\ TasksOf(Tail(list)) = Tail(TasksOf(list))
         /\ TasksOf(list) # <<>>
         /\ Head(TasksOf(list)) = Head(list).task
<1>1. Tail(list) \in Seq(Sleeper) /\ Len(Tail(list)) = Len(list) - 1
      /\ \A i \in 1 .. Len(list) - 1 : Tail(list)[i] = list[i + 1]
      /\ Len(list) \in Nat /\ Len(list) > 0
  OBVIOUS
<1>2. /\ TasksOf(list) \in Seq(Task) /\ Len(TasksOf(list)) = Len(list)
      /\ \A i \in 1 .. Len(list) : TasksOf(list)[i] = list[i].task
  BY TasksOfType
<1>3. /\ TasksOf(Tail(list)) \in Seq(Task) /\ Len(TasksOf(Tail(list))) = Len(list) - 1
      /\ \A i \in 1 .. Len(list) - 1 : TasksOf(Tail(list))[i] = list[i + 1].task
  BY <1>1, TasksOfType
<1> DEFINE a == TasksOf(list)
           b == TasksOf(Tail(list))
<1> HIDE DEF a, b
<1>4. Tail(a) \in Seq(Task) /\ Len(Tail(a)) = Len(list) - 1
      /\ \A i \in 1 .. Len(list) - 1 : Tail(a)[i] = a[i + 1]
  BY <1>1, <1>2 DEF a
<1>5. \A i \in 1 .. Len(list) - 1 : Tail(a)[i] = b[i]
  BY <1>1, <1>2, <1>3, <1>4 DEF a, b
<1>6. Tail(a) = b
  BY <1>1, <1>3, <1>4, <1>5, SeqEqual DEF b
<1>7. a # <<>> /\ Head(a) = Head(list).task
  BY <1>1, <1>2 DEF a
<1> QED BY <1>6, <1>7 DEF a, b

\* Inserting a node inserts its task at the same position.
LEMMA TasksOfInsert ==
  ASSUME NEW list \in Seq(Sleeper), NEW new \in Seq(Sleeper), NEW e \in Sleeper,
         NEW n \in 1 .. Len(list) + 1, IsInsert(new, list, n, e)
  PROVE  IsInsert(TasksOf(new), TasksOf(list), n, e.task)
<1>1. Len(list) \in Nat /\ n \in Int /\ Len(new) = Len(list) + 1
  BY LenProperties DEF IsInsert
<1>2. /\ Len(TasksOf(list)) = Len(list)
      /\ \A i \in 1 .. Len(list) : TasksOf(list)[i] = list[i].task
  BY TasksOfType
<1>3. /\ Len(TasksOf(new)) = Len(new)
      /\ \A i \in 1 .. Len(new) : TasksOf(new)[i] = new[i].task
  BY TasksOfType
<1>4. ASSUME NEW k \in 1 .. Len(new)
      PROVE TasksOf(new)[k] = IF k < n THEN TasksOf(list)[k]
                              ELSE IF k = n THEN e.task ELSE TasksOf(list)[k - 1]
  <2>1. new[k] = IF k < n THEN list[k] ELSE IF k = n THEN e ELSE list[k - 1]
    BY DEF IsInsert
  <2>2. CASE k < n
    BY <1>1, <1>2, <1>3, <2>1, <2>2
  <2>3. CASE k = n
    BY <1>1, <1>2, <1>3, <2>1, <2>3
  <2>4. CASE k > n
    <3>1. k - 1 \in 1 .. Len(list)
      BY <1>1, <2>4
    <3> QED BY <1>1, <1>2, <1>3, <2>1, <2>4, <3>1
  <2>5. k < n \/ k = n \/ k > n
    BY <1>1
  <2> QED BY <2>2, <2>3, <2>4, <2>5
<1> QED BY <1>1, <1>2, <1>3, <1>4 DEF IsInsert

\* What is where in the family.
IsPlaces(F, r, curr, next, deleted) ==
  /\ F \in PlacesType
  /\ \A p \in Priority : p \in PlaceName /\ F[p] = r.list[p]
  /\ CURR \in PlaceName /\ F[CURR] = TasksOf(curr)
  /\ NEXT \in PlaceName /\ F[NEXT] = TasksOf(next)
  /\ EXTRA \in PlaceName /\ F[EXTRA] = deleted

\* PlacesOf gives the family of lists that IsPlaces describes.
LEMMA PlacesOfType ==
  ASSUME NEW r \in ReadyType, NEW curr \in Seq(Sleeper), NEW next \in Seq(Sleeper),
         NEW deleted \in Seq(Task),
         NEW F, F = PlacesOf(r, curr, next, deleted)
  PROVE  IsPlaces(F, r, curr, next, deleted)
<1>1. /\ CURR \in PlaceName /\ NEXT \in PlaceName /\ EXTRA \in PlaceName
      /\ CURR \notin Priority /\ NEXT \notin Priority /\ EXTRA \notin Priority
      /\ CURR # NEXT /\ NEXT # EXTRA /\ CURR # EXTRA
      /\ \A p \in Priority : p \in PlaceName
      /\ \A l \in PlaceName : l \in Priority \/ l = CURR \/ l = NEXT \/ l = EXTRA
  BY DEF CURR, NEXT, EXTRA, Priority, PlaceName
<1> HIDE DEF CURR, NEXT, EXTRA
<1>2. /\ \A p \in Priority : F[p] = r.list[p]
      /\ F[CURR] = TasksOf(curr) /\ F[NEXT] = TasksOf(next) /\ F[EXTRA] = deleted
  BY <1>1 DEF PlacesOf
<1>3. /\ TasksOf(curr) \in Seq(Task) /\ TasksOf(next) \in Seq(Task)
      /\ \A p \in Priority : r.list[p] \in Seq(Task)
  BY TasksOfType DEF ReadyType
<1>4. F \in PlacesType
  <2>1. \A l \in PlaceName : F[l] \in Seq(Task)
    BY <1>1, <1>2, <1>3
  <2> DEFINE body(l) == CASE l \in Priority -> r.list[l]
                          [] l = CURR -> TasksOf(curr)
                          [] l = NEXT -> TasksOf(next)
                          [] l = EXTRA -> deleted
  <2>2. F = [l \in PlaceName |-> body(l)]
    BY DEF PlacesOf
  <2> HIDE DEF body
  <2> QED BY <2>1, <2>2 DEF PlacesType
<1> QED BY <1>1, <1>2, <1>4 DEF IsPlaces

\* The names of the three lists that are not ready lists are no priorities.
LEMMA PlaceNames ==
  /\ \A l \in PlaceName : l \in Priority \/ l = CURR \/ l = NEXT \/ l = EXTRA
  /\ CURR \notin Priority /\ NEXT \notin Priority /\ EXTRA \notin Priority
  /\ CURR # NEXT /\ NEXT # EXTRA /\ CURR # EXTRA
BY DEF CURR, NEXT, EXTRA, Priority, PlaceName

-----------------------------------------------------------------------------
(* The moves of a task *)

\* A task that is in no list is appended to a ready list.
LEMMA ReadyPlace ==
  ASSUME NEW r \in ReadyType, NEW curr \in Seq(Sleeper), NEW next \in Seq(Sleeper),
         NEW d \in Seq(Task),
         NEW F, F = PlacesOf(r, curr, next, d), Injective(F),
         Exact(r), NEW p \in Priority, NEW x \in Task, x \notin In(F),
         NEW s, s = tasklist_append(r, p, x),
         NEW G, G = PlacesOf(s, curr, next, d)
  PROVE  Injective(G) /\ In(G) = In(F) \union {x}
<1>1. s \in ReadyType /\ s.list[p] = Append(r.list[p], x)
      /\ \A q \in Priority \ {p} : s.list[q] = r.list[q]
  BY AppendReady
<1>2. r.list[p] \in Seq(Task)
  BY DEF ReadyType
<1> DEFINE n == Len(r.list[p]) + 1
<1>3. IsInsert(s.list[p], r.list[p], n, x) /\ n \in 1 .. Len(r.list[p]) + 1
  BY <1>1, <1>2, AppendInserts, LenProperties
<1> HIDE DEF n
<1>0. IsPlaces(F, r, curr, next, d) /\ IsPlaces(G, s, curr, next, d)
  BY <1>1, PlacesOfType
<1>4. F \in PlacesType /\ G \in PlacesType /\ p \in PlaceName
      /\ F[p] = r.list[p] /\ G[p] = s.list[p]
  BY <1>0 DEF IsPlaces
<1>5. SameBut(F, G, p)
  BY <1>0, <1>1, PlaceNames DEF IsPlaces, SameBut
<1>6. n \in 1 .. Len(F[p]) + 1 /\ IsInsert(G[p], F[p], n, x)
  BY <1>3, <1>4
<1> QED BY <1>4, <1>5, <1>6, InsertPlace

\* The front task of a ready list is taken out of it.
LEMMA UnreadyPlace ==
  ASSUME NEW r \in ReadyType, NEW curr \in Seq(Sleeper), NEW next \in Seq(Sleeper),
         NEW d \in Seq(Task),
         NEW F, F = PlacesOf(r, curr, next, d), Injective(F),
         Exact(r), NEW p \in Priority, r.list[p] # <<>>,
         NEW s, s = tasklist_remove_front(r, p),
         NEW G, G = PlacesOf(s, curr, next, d)
  PROVE  Injective(G) /\ In(G) = In(F) \ {Head(r.list[p])}
<1>1. s \in ReadyType /\ s.list[p] = Tail(r.list[p])
      /\ \A q \in Priority \ {p} : s.list[q] = r.list[q]
  BY RemoveReady
<1>0. IsPlaces(F, r, curr, next, d) /\ IsPlaces(G, s, curr, next, d)
  BY <1>1, PlacesOfType
<1>2. F \in PlacesType /\ G \in PlacesType /\ p \in PlaceName
      /\ F[p] = r.list[p] /\ G[p] = s.list[p]
  BY <1>0 DEF IsPlaces
<1>3. SameBut(F, G, p)
  BY <1>0, <1>1, PlaceNames DEF IsPlaces, SameBut
<1>4. F[p] # <<>> /\ G[p] = Tail(F[p]) /\ Head(F[p]) = Head(r.list[p])
  BY <1>1, <1>2
<1>5. Injective(G) /\ In(G) = In(F) \ {Head(F[p])}
  BY <1>2, <1>3, <1>4, PopPlace
<1> QED BY <1>4, <1>5

\* A task that is in no list is put into the current blocked list.
LEMMA SleepCurrPlace ==
  ASSUME NEW r \in ReadyType, NEW curr \in Seq(Sleeper), NEW next \in Seq(Sleeper),
         NEW d \in Seq(Task),
         NEW F, F = PlacesOf(r, curr, next, d), Injective(F),
         NEW e \in Sleeper, e.task \notin In(F),
         NEW G, G = PlacesOf(r, task_insert_blocked_list(curr, e), next, d)
  PROVE  Injective(G) /\ In(G) = In(F) \union {e.task}
<1> DEFINE new == task_insert_blocked_list(curr, e)
<1>1. new \in Seq(Sleeper)
  BY InsertBlocked
<1>2. PICK n \in 1 .. Len(curr) + 1 : IsInsert(new, curr, n, e)
  BY InsertBlocked
<1> HIDE DEF new
<1>3. IsInsert(TasksOf(new), TasksOf(curr), n, e.task)
  BY <1>1, <1>2, TasksOfInsert
<1>0. IsPlaces(F, r, curr, next, d) /\ IsPlaces(G, r, task_insert_blocked_list(curr, e), next, d)
  BY <1>1, PlacesOfType DEF new
<1>4. F \in PlacesType /\ G \in PlacesType /\ CURR \in PlaceName
      /\ F[CURR] = TasksOf(curr) /\ G[CURR] = TasksOf(new)
  BY <1>0 DEF IsPlaces, new
<1>5. SameBut(F, G, CURR)
  BY <1>0, PlaceNames DEF IsPlaces, SameBut
<1>6. n \in 1 .. Len(F[CURR]) + 1 /\ e.task \in Task
      /\ IsInsert(G[CURR], F[CURR], n, e.task)
  BY <1>3, <1>4, TasksOfType DEF Sleeper
<1> QED BY <1>4, <1>5, <1>6, InsertPlace

\* The same for the blocked list of the next cycle.
LEMMA SleepNextPlace ==
  ASSUME NEW r \in ReadyType, NEW curr \in Seq(Sleeper), NEW next \in Seq(Sleeper),
         NEW d \in Seq(Task),
         NEW F, F = PlacesOf(r, curr, next, d), Injective(F),
         NEW e \in Sleeper, e.task \notin In(F),
         NEW G, G = PlacesOf(r, curr, task_insert_blocked_list(next, e), d)
  PROVE  Injective(G) /\ In(G) = In(F) \union {e.task}
<1> DEFINE new == task_insert_blocked_list(next, e)
<1>1. new \in Seq(Sleeper)
  BY InsertBlocked
<1>2. PICK n \in 1 .. Len(next) + 1 : IsInsert(new, next, n, e)
  BY InsertBlocked
<1> HIDE DEF new
<1>3. IsInsert(TasksOf(new), TasksOf(next), n, e.task)
  BY <1>1, <1>2, TasksOfInsert
<1>0. IsPlaces(F, r, curr, next, d) /\ IsPlaces(G, r, curr, task_insert_blocked_list(next, e), d)
  BY <1>1, PlacesOfType DEF new
<1>4. F \in PlacesType /\ G \in PlacesType /\ NEXT \in PlaceName
      /\ F[NEXT] = TasksOf(next) /\ G[NEXT] = TasksOf(new)
  BY <1>0 DEF IsPlaces, new
<1>5. SameBut(F, G, NEXT)
  BY <1>0, PlaceNames DEF IsPlaces, SameBut
<1>6. n \in 1 .. Len(F[NEXT]) + 1 /\ e.task \in Task
      /\ IsInsert(G[NEXT], F[NEXT], n, e.task)
  BY <1>3, <1>4, TasksOfType DEF Sleeper
<1> QED BY <1>4, <1>5, <1>6, InsertPlace

\* The front sleeper is taken out of the current blocked list.
LEMMA WakePlace ==
  ASSUME NEW r \in ReadyType, NEW curr \in Seq(Sleeper), NEW next \in Seq(Sleeper),
         NEW d \in Seq(Task),
         NEW F, F = PlacesOf(r, curr, next, d), Injective(F),
         curr # <<>>,
         NEW G, G = PlacesOf(r, Tail(curr), next, d)
  PROVE  Injective(G) /\ In(G) = In(F) \ {Head(curr).task}
<1>1. Tail(curr) \in Seq(Sleeper)
  OBVIOUS
<1>2. /\ TasksOf(Tail(curr)) = Tail(TasksOf(curr))
      /\ TasksOf(curr) # <<>>
      /\ Head(TasksOf(curr)) = Head(curr).task
  BY TasksOfTail
<1>0. IsPlaces(F, r, curr, next, d) /\ IsPlaces(G, r, Tail(curr), next, d)
  BY <1>1, PlacesOfType
<1>3. F \in PlacesType /\ G \in PlacesType /\ CURR \in PlaceName
      /\ F[CURR] = TasksOf(curr) /\ G[CURR] = TasksOf(Tail(curr))
  BY <1>0 DEF IsPlaces
<1>4. SameBut(F, G, CURR)
  BY <1>0, <1>1, PlaceNames DEF IsPlaces, SameBut
<1>5. F[CURR] # <<>> /\ G[CURR] = Tail(F[CURR]) /\ Head(F[CURR]) = Head(curr).task
  BY <1>2, <1>3
<1>6. Injective(G) /\ In(G) = In(F) \ {Head(F[CURR])}
  BY <1>3, <1>4, <1>5, PopPlace
<1> QED BY <1>5, <1>6

\* The two blocked lists change their roles.
LEMMA CyclePlaces ==
  ASSUME NEW r \in ReadyType, NEW curr \in Seq(Sleeper), NEW next \in Seq(Sleeper),
         NEW d \in Seq(Task),
         NEW F, F = PlacesOf(r, curr, next, d), Injective(F),
         NEW G, G = PlacesOf(r, next, curr, d)
  PROVE  Injective(G) /\ In(G) = In(F)
<1>0. IsPlaces(F, r, curr, next, d) /\ IsPlaces(G, r, next, curr, d)
  BY PlacesOfType
<1>1. F \in PlacesType /\ G \in PlacesType /\ CURR \in PlaceName /\ NEXT \in PlaceName
      /\ F[CURR] = G[NEXT] /\ G[CURR] = F[NEXT]
  BY <1>0 DEF IsPlaces
<1>2. \A l \in PlaceName \ {CURR, NEXT} : G[l] = F[l]
  BY <1>0, PlaceNames DEF IsPlaces
<1> QED BY <1>1, <1>2, SwapPlaces

\* A task that is in no list is pushed on the list of the tasks to delete.
LEMMA DeletePlace ==
  ASSUME NEW r \in ReadyType, NEW curr \in Seq(Sleeper), NEW next \in Seq(Sleeper),
         NEW d \in Seq(Task),
         NEW F, F = PlacesOf(r, curr, next, d), Injective(F),
         NEW x \in Task, x \notin In(F),
         NEW G, G = PlacesOf(r, curr, next, <<x>> \o d)
  PROVE  Injective(G) /\ In(G) = In(F) \union {x}
<1>1. <<x>> \o d \in Seq(Task) /\ IsInsert(<<x>> \o d, d, 1, x) /\ 1 \in 1 .. Len(d) + 1
  BY PushInserts, LenProperties
<1> DEFINE e == <<x>> \o d
<1> HIDE DEF e
<1>0. IsPlaces(F, r, curr, next, d) /\ IsPlaces(G, r, curr, next, <<x>> \o d)
  BY <1>1, PlacesOfType DEF e
<1>2. F \in PlacesType /\ G \in PlacesType /\ EXTRA \in PlaceName
      /\ F[EXTRA] = d /\ G[EXTRA] = e
  BY <1>0 DEF IsPlaces, e
<1>3. SameBut(F, G, EXTRA)
  BY <1>0, <1>1, PlaceNames DEF IsPlaces, SameBut
<1>4. 1 \in 1 .. Len(F[EXTRA]) + 1 /\ IsInsert(G[EXTRA], F[EXTRA], 1, x)
  BY <1>1, <1>2 DEF e
<1> QED BY <1>2, <1>3, <1>4, InsertPlace

\* The task deleted last leaves the list of the tasks to delete.
LEMMA ReapPlace ==
  ASSUME NEW r \in ReadyType, NEW curr \in Seq(Sleeper), NEW next \in Seq(Sleeper),
         NEW d \in Seq(Task),
         NEW F, F = PlacesOf(r, curr, next, d), Injective(F),
         d # <<>>,
         NEW G, G = PlacesOf(r, curr, next, Tail(d))
  PROVE  Injective(G) /\ In(G) = In(F) \ {Head(d)}
<1>1. Tail(d) \in Seq(Task)
  OBVIOUS
<1>0. IsPlaces(F, r, curr, next, d) /\ IsPlaces(G, r, curr, next, Tail(d))
  BY <1>1, PlacesOfType
<1>2. F \in PlacesType /\ G \in PlacesType /\ EXTRA \in PlaceName
      /\ F[EXTRA] = d /\ G[EXTRA] = Tail(d)
  BY <1>0 DEF IsPlaces
<1>3. SameBut(F, G, EXTRA)
  BY <1>0, <1>1, PlaceNames DEF IsPlaces, SameBut
<1>4. F[EXTRA] # <<>> /\ G[EXTRA] = Tail(F[EXTRA]) /\ Head(F[EXTRA]) = Head(d)
  BY <1>2
<1>5. Injective(G) /\ In(G) = In(F) \ {Head(F[EXTRA])}
  BY <1>2, <1>3, <1>4, PopPlace
<1> QED BY <1>4, <1>5

=============================================================================
