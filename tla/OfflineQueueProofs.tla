------------------------- MODULE OfflineQueueProofs -------------------------
(***************************************************************************)
(* Proofs about OfflineQueue, for any number of repositories, replays,       *)
(* operations, flights and faults: the lists keep their type and every       *)
(* operation its number; and while the connection does not drop during a     *)
(* replay, no operation is lost (Kept) or overtaken (InOrder).               *)
(***************************************************************************)
EXTENDS OfflineQueue, NaturalsInduction, WellFoundedInduction, TLAPS

Sorted(l) == \A i, j \in DOMAIN l : i < j => Before(l[i], l[j])

\* No two places of a list hold the same operation.
Distinct(l) == \A i, j \in DOMAIN l : l[i].n = l[j].n => i = j

-----------------------------------------------------------------------------
(* Sorting. *)

Less == {p \in Nat \X Nat : p[1] < p[2]}

LEMMA LeastNumber ==
  ASSUME NEW T \in SUBSET Nat, T # {}
  PROVE  \E m \in T : \A n \in T : m <= n
  <1>1. OpToRel(<, Nat) = Less
    BY Zenon DEF OpToRel, Less
  <1>2. IsWellFoundedOn(Less, Nat)
    BY <1>1, NatLessThanWellFounded, Zenon
  <1>3. PICK m \in T : \A n \in T : ~(<<n, m>> \in Less)
    BY <1>2, WFMin, Zenon
  <1>4. \A a, b \in Nat : <<a, b>> \in Less <=> a < b
    BY DEF Less
  <1>5. ASSUME NEW n \in T  PROVE m <= n
    <2>1. n \in Nat /\ m \in Nat /\ ~(n < m)
      BY <1>3, <1>4
    <2>2. QED
      BY <2>1
  <1>6. QED
    BY <1>5

LEMMA BeforeOrders ==
  ASSUME NEW o \in Operation, NEW p \in Operation
  PROVE  /\ ~Before(o, o)
         /\ o.n # p.n => Before(o, p) \/ Before(p, o)
         /\ \A q \in Operation : Before(o, p) /\ Before(p, q) => Before(o, q)
  BY QueueConstantsOK DEF Before, Operation

\* A list sorted so far, and one more operation put at its place.
LEMMA Inserts ==
  ASSUME NEW k \in Nat, NEW g \in [1..k -> Operation], Sorted(g), NEW x \in Operation,
         \A o \in ToSet(g) : o.n # x.n
  PROVE  \E h \in [1..(k + 1) -> Operation] : Sorted(h) /\ ToSet(h) = ToSet(g) \cup {x}
  <1>0. \A i \in 1..k : g[i].n # x.n
    BY DEF ToSet
  <1> DEFINE T == {i \in 1..(k + 1) : i = k + 1 \/ Before(x, g[i])}
  <1>1. PICK m \in T : \A i \in T : m <= i
    <2>1. T \in SUBSET Nat /\ k + 1 \in T
      OBVIOUS
    <2> HIDE DEF T
    <2>2. QED
      BY <2>1, LeastNumber
  <1>2. m \in 1..(k + 1) /\ (m <= k => Before(x, g[m]))
    OBVIOUS
  <1>3. \A i \in 1..k : i < m => Before(g[i], x)
    BY <1>0, <1>1, <1>2, BeforeOrders
  <1>4. \A i \in 1..k : m <= i => Before(x, g[i])
    BY <1>2, BeforeOrders DEF Sorted
  <1> DEFINE h == [i \in 1..(k + 1) |-> IF i < m THEN g[i] ELSE IF i = m THEN x ELSE g[i - 1]]
  <1>5. h \in [1..(k + 1) -> Operation]
    BY <1>2
  <1>6. h[m] = x
    BY <1>2
  <1>7. \A i \in 1..(k + 1) : i < m => i \in 1..k /\ h[i] = g[i]
    BY <1>2
  <1>8. \A i \in 1..(k + 1) : m < i => i - 1 \in 1..k /\ m <= i - 1 /\ h[i] = g[i - 1]
    BY <1>2
  <1>9. DOMAIN h = 1..(k + 1) /\ DOMAIN g = 1..k
    OBVIOUS
  <1> HIDE DEF h, T
  <1>10. Sorted(h)
    <2> SUFFICES ASSUME NEW i \in 1..(k + 1), NEW j \in 1..(k + 1), i < j
                 PROVE  Before(h[i], h[j])
      BY <1>9 DEF Sorted
    <2>1. CASE j < m
      BY <1>2, <1>7, <1>9, <2>1 DEF Sorted
    <2>2. CASE j = m
      BY <1>2, <1>3, <1>6, <1>7, <2>2
    <2>3. CASE m < j /\ i = m
      BY <1>2, <1>4, <1>6, <1>8, <2>3
    <2>4. CASE i < m /\ m < j
      <3>1. h[i] = g[i] /\ i \in 1..k /\ h[j] = g[j - 1] /\ j - 1 \in 1..k /\ i < j - 1
        BY <1>2, <1>7, <1>8, <2>4
      <3>2. QED
        BY <1>9, <3>1 DEF Sorted
    <2>5. CASE m < i
      <3>1. h[i] = g[i - 1] /\ i - 1 \in 1..k /\ h[j] = g[j - 1] /\ j - 1 \in 1..k /\ i - 1 < j - 1
        BY <1>2, <1>8, <2>5
      <3>2. QED
        BY <1>9, <3>1 DEF Sorted
    <2>6. QED
      BY <1>2, <2>1, <2>2, <2>3, <2>4, <2>5
  <1>11. \A i \in 1..(k + 1) : h[i] = x \/ \E j \in 1..k : h[i] = g[j]
    BY <1>2, <1>6, <1>7, <1>8
  <1>12. \A j \in 1..k : \E i \in 1..(k + 1) : h[i] = g[j]
    <2> SUFFICES ASSUME NEW j \in 1..k  PROVE \E i \in 1..(k + 1) : h[i] = g[j]
      OBVIOUS
    <2>1. CASE j < m
      BY <1>7, <2>1
    <2>2. CASE m <= j
      <3>1. j + 1 \in 1..(k + 1) /\ m < j + 1 /\ (j + 1) - 1 = j
        BY <1>2, <2>2
      <3>2. QED
        BY <1>8, <3>1
    <2>3. QED
      BY <1>2, <2>1, <2>2
  <1>13. ToSet(h) \subseteq ToSet(g) \cup {x}
    BY <1>9, <1>11 DEF ToSet
  <1>14. ToSet(g) \cup {x} \subseteq ToSet(h)
    BY <1>2, <1>6, <1>9, <1>12 DEF ToSet
  <1>15. QED
    BY <1>5, <1>10, <1>13, <1>14

\* Every list without repetition can be sorted: its first operations can, for each number of
\* them.
First(list, k) == {list[i] : i \in 1..k}

Sortable(list, k) == \E g \in [1..k -> Operation] : Sorted(g) /\ ToSet(g) = First(list, k)

LEMMA SortsOneMore ==
  ASSUME NEW list \in Seq(Operation), Distinct(list), NEW k \in Nat, k + 1 <= Len(list),
         Sortable(list, k)
  PROVE  Sortable(list, k + 1)
  <1>1. PICK g \in [1..k -> Operation] : Sorted(g) /\ ToSet(g) = First(list, k)
    BY DEF Sortable
  <1>2. k + 1 \in DOMAIN list /\ list[k + 1] \in Operation
    OBVIOUS
  <1>3. \A o \in ToSet(g) : o.n # list[k + 1].n
    <2>1. \A i \in 1..k : i \in DOMAIN list /\ i # k + 1
      OBVIOUS
    <2>2. \A i \in 1..k : list[i].n # list[k + 1].n
      BY <1>2, <2>1 DEF Distinct
    <2>3. QED
      BY <1>1, <2>2 DEF First
  <1>4. PICK h \in [1..(k + 1) -> Operation] : Sorted(h) /\ ToSet(h) = ToSet(g) \cup {list[k + 1]}
    BY <1>1, <1>2, <1>3, Inserts
  <1>5. First(list, k + 1) = First(list, k) \cup {list[k + 1]}
    <2>1. 1..(k + 1) = (1..k) \cup {k + 1}
      OBVIOUS
    <2>2. QED
      BY <2>1 DEF First
  <1>6. QED
    BY <1>1, <1>4, <1>5 DEF Sortable

LEMMA Sorts ==
  ASSUME NEW list \in Seq(Operation), Distinct(list)
  PROVE  \E l \in Same(list) : Sorted(l)
  <1> DEFINE T == {k \in Nat : k <= Len(list) /\ ~Sortable(list, k)}
  <1>1. ASSUME T # {}  PROVE FALSE
    <2>1. PICK k \in T : \A i \in T : k <= i
      <3>1. T \in SUBSET Nat
        OBVIOUS
      <3> HIDE DEF T
      <3>2. QED
        BY <1>1, <3>1, LeastNumber
    <2>2. k \in Nat /\ k <= Len(list) /\ ~Sortable(list, k)
      OBVIOUS
    <2>3. Sortable(list, 0)
      <3>1. <<>> \in [1..0 -> Operation] /\ Sorted(<<>>) /\ ToSet(<<>>) = {} /\ First(list, 0) = {}
        BY DEF Sorted, ToSet, First
      <3>2. QED
        BY <3>1 DEF Sortable
    <2>4. k - 1 \in Nat /\ (k - 1) + 1 = k /\ k - 1 <= Len(list)
      BY <2>2, <2>3
    <2>5. Sortable(list, k - 1)
      BY <2>1, <2>4
    <2>6. QED
      BY <2>2, <2>4, <2>5, SortsOneMore
  <1>2. Len(list) \in Nat /\ DOMAIN list = 1..Len(list)
    OBVIOUS
  <1>3. Sortable(list, Len(list))
    BY <1>1, <1>2
  <1>4. PICK g \in [1..Len(list) -> Operation] : Sorted(g) /\ ToSet(g) = First(list, Len(list))
    BY <1>3 DEF Sortable
  <1>5. First(list, Len(list)) = ToSet(list)
    BY <1>2 DEF First, ToSet
  <1>6. \A i \in 1..Len(list) : g[i] \in ToSet(g)
    BY <1>4 DEF ToSet
  <1>7. g \in [DOMAIN list -> ToSet(list)]
    BY <1>2, <1>4, <1>5, <1>6
  <1>8. QED
    BY <1>4, <1>5, <1>7 DEF Same

\* What _loadOperations returns: the operations of the list, each once, sorted.
LEMMA Loads ==
  ASSUME NEW list \in Seq(Operation), Distinct(list)
  PROVE  /\ Load(list) \in Seq(Operation) /\ ToSet(Load(list)) = ToSet(list)
         /\ Sorted(Load(list)) /\ Distinct(Load(list))
  <1> DEFINE l == Load(list)
  <1>1. l \in Same(list) /\ Sorted(l)
    BY Sorts, Zenon DEF Load, Sorted
  <1> HIDE DEF l
  <1>2. l \in [1..Len(list) -> Operation] /\ ToSet(l) = ToSet(list)
    <2>1. ToSet(list) \subseteq Operation /\ DOMAIN list = 1..Len(list)
      BY DEF ToSet
    <2>2. l \in [DOMAIN list -> ToSet(list)] /\ ToSet(l) = ToSet(list)
      BY <1>1 DEF Same
    <2>3. QED
      BY <2>1, <2>2
  <1>3. l \in Seq(Operation)
    BY <1>2
  <1>4. Distinct(l)
    <2> SUFFICES ASSUME NEW i \in DOMAIN l, NEW j \in DOMAIN l, l[i].n = l[j].n  PROVE i = j
      BY DEF Distinct
    <2>1. l[i] \in ToSet(list) /\ l[j] \in ToSet(list)
      BY <1>2 DEF ToSet
    <2>2. l[i] = l[j]
      BY <2>1 DEF Distinct, ToSet
    <2>3. ~Before(l[i], l[j]) /\ ~Before(l[j], l[i])
      BY <1>2, <2>2, BeforeOrders
    <2>4. QED
      BY <1>1, <1>2, <2>3 DEF Sorted
  <1>5. QED
    BY <1>1, <1>2, <1>3, <1>4 DEF l

\* What is left of a list once its first operation is sent.
LEMMA Rest ==
  ASSUME NEW l \in Seq(Operation), l # <<>>, Distinct(l), Sorted(l)
  PROVE  /\ Tail(l) \in Seq(Operation) /\ Distinct(Tail(l)) /\ Sorted(Tail(l))
         /\ Head(l) \in Operation /\ Head(l) \in ToSet(l)
         /\ ToSet(Tail(l)) \subseteq ToSet(l)
         /\ \A o \in ToSet(l) : o = Head(l) \/ (o \in ToSet(Tail(l)) /\ Before(Head(l), o))
  <1>1. Len(l) \in Nat /\ Len(l) # 0 /\ DOMAIN l = 1..Len(l)
    OBVIOUS
  <1>2. Tail(l) \in Seq(Operation) /\ Len(Tail(l)) = Len(l) - 1 /\ DOMAIN Tail(l) = 1..(Len(l) - 1)
    BY <1>1
  <1>3. \A i \in 1..(Len(l) - 1) : Tail(l)[i] = l[i + 1] /\ i + 1 \in DOMAIN l
    BY <1>1
  <1>4. Head(l) = l[1] /\ 1 \in DOMAIN l
    BY <1>1
  <1>5. Distinct(Tail(l))
    BY <1>1, <1>2, <1>3 DEF Distinct
  <1>6. Sorted(Tail(l))
    BY <1>1, <1>2, <1>3 DEF Sorted
  <1>7. ToSet(Tail(l)) \subseteq ToSet(l)
    BY <1>2, <1>3 DEF ToSet
  <1>8. ASSUME NEW i \in DOMAIN l, l[i] # Head(l)
        PROVE  l[i] \in ToSet(Tail(l)) /\ Before(Head(l), l[i])
    <2>1. i # 1 /\ i - 1 \in 1..(Len(l) - 1) /\ (i - 1) + 1 = i /\ 1 < i
      BY <1>1, <1>4, <1>8
    <2>2. Tail(l)[i - 1] = l[i]
      BY <1>3, <2>1
    <2>3. QED
      BY <1>2, <1>4, <2>1, <2>2 DEF ToSet, Sorted
  <1>9. QED
    BY <1>2, <1>4, <1>5, <1>6, <1>7, <1>8 DEF ToSet

-----------------------------------------------------------------------------
(* Every operation has one number, and every list holds it once. *)

\* What the box and the replays hold.
Ops == ToSet(store) \cup UNION {ToSet(todo[r]) : r \in Replays}

Listed ==
    /\ store \in Seq(Operation) /\ Distinct(store)
    /\ todo \in [Replays -> Seq(Operation)]
    /\ \A r \in Replays : Distinct(todo[r]) /\ Sorted(todo[r])

Numbered ==
    /\ \A o \in Ops : o.n <= enqueued /\ o.zone <= flights
    /\ \A o, p \in Ops : o.n = p.n => o = p
    /\ \A n \in 1..MaxOps : applied[n] > 0 => n <= enqueued

Counted ==
    /\ online \in BOOLEAN /\ opened \in BOOLEAN
    /\ registered \subseteq Repositories
    /\ enqueued \in 0..MaxOps
    /\ applied \in [1..MaxOps -> Nat]
    /\ discarded \subseteq 1..MaxOps
    /\ flights \in 0..MaxFlights /\ faults \in 0..MaxFaults

\* The loop takes up ops, or ends with them.
Goes(r, ops) ==
    \/ store' = store /\ todo' = [todo EXCEPT ![r] = ops]
    \/ store' = ops /\ todo' = [todo EXCEPT ![r] = <<>>]

Sends(r) == todo[r] # <<>> /\ Goes(r, Tail(todo[r]))

\* What a step does to the lists.
Writes(o) ==
    /\ store' = Append(Load(store), o) /\ UNCHANGED todo
    /\ o.n = enqueued + 1 /\ o.zone = flights /\ enqueued' = enqueued + 1

Replayed(r) ==
    \/ todo[r] = <<>> /\ Goes(r, Load(store))
    \/ Sends(r)
    \/ todo[r] # <<>> /\ Goes(r, todo[r])

ListsMove ==
    \/ UNCHANGED <<store, todo, enqueued>>
    \/ \E o \in Operation : Writes(o)
    \/ \E r \in Replays : Replayed(r) /\ UNCHANGED enqueued
    \/ store' = <<>> /\ UNCHANGED <<todo, enqueued>>
    \/ todo' = [r \in Replays |-> <<>>] /\ UNCHANGED <<store, enqueued>>

LEMMA StepMoves ==
  ASSUME Counted, [Next]_vars  PROVE ListsMove
  <1>1. ASSUME NEW p \in Repositories, Enqueue(p)  PROVE ListsMove
    <2> DEFINE o == [n |-> enqueued', repository |-> p, zone |-> flights]
    <2>1. enqueued' = enqueued + 1 /\ enqueued < MaxOps /\ enqueued \in Nat
      BY <1>1, QueueConstantsOK DEF Enqueue, Counted
    <2>2. o \in Operation /\ o.n = enqueued + 1 /\ o.zone = flights
      BY <2>1, QueueConstantsOK DEF Operation, Counted
    <2>3. store' = Append(Load(store), o) /\ UNCHANGED todo
      BY <1>1 DEF Enqueue
    <2> HIDE DEF o
    <2>4. QED
      BY <2>1, <2>2, <2>3 DEF ListsMove, Writes
  <1>2. ASSUME NEW r \in Replays, GoOnline(r)  PROVE ListsMove
    BY <1>2 DEF GoOnline, Continue, ListsMove, Replayed, Goes
  <1>3. ASSUME NEW r \in Replays, HandlerSucceeds(r)  PROVE ListsMove
    BY <1>3 DEF HandlerSucceeds, Continue, ListsMove, Replayed, Sends, Goes
  <1>4. ASSUME NEW r \in Replays, HandlerFails(r)  PROVE ListsMove
    BY <1>4 DEF HandlerFails, ListsMove, Replayed, Goes
  <1>5. QED
    BY <1>1, <1>2, <1>3, <1>4
       DEF Next, vars, ListsMove, Register, GoOffline, Logout, Kill, FlyWest

\* A sorted list of operations that are held already.
OfThose(l) == l \in Seq(Operation) /\ Distinct(l) /\ Sorted(l) /\ ToSet(l) \subseteq Ops

LEMMA GoesOn ==
  ASSUME Listed, NEW r \in Replays, NEW ops, OfThose(ops), Goes(r, ops)
  PROVE  Listed' /\ Ops' \subseteq Ops
  <1>1. <<>> \in Seq(Operation) /\ Distinct(<<>>) /\ Sorted(<<>>) /\ ToSet(<<>>) = {}
    BY DEF Distinct, Sorted, ToSet
  <1>2. CASE store' = store /\ todo' = [todo EXCEPT ![r] = ops]
    <2>1. \A q \in Replays : todo'[q] = ops \/ todo'[q] = todo[q]
      BY <1>2 DEF Listed
    <2>2. Listed'
      BY <1>2 DEF Listed, OfThose
    <2>3. QED
      BY <1>2, <2>1, <2>2 DEF Ops, OfThose
  <1>3. CASE store' = ops /\ todo' = [todo EXCEPT ![r] = <<>>]
    <2>1. \A q \in Replays : todo'[q] = <<>> \/ todo'[q] = todo[q]
      BY <1>3 DEF Listed
    <2>2. Listed'
      BY <1>1, <1>3 DEF Listed, OfThose
    <2>3. QED
      BY <1>1, <1>3, <2>1, <2>2 DEF Ops, OfThose
  <1>4. QED
    BY <1>2, <1>3 DEF Goes

LEMMA WritesOne ==
  ASSUME Listed, Numbered, Counted, NEW o \in Operation, Writes(o)
  PROVE  Listed' /\ Ops' = Ops \cup {o} /\ ToSet(store') = ToSet(store) \cup {o}
  <1> DEFINE l == Load(store)
  <1>1. l \in Seq(Operation) /\ ToSet(l) = ToSet(store) /\ Distinct(l)
    BY Loads DEF Listed
  <1>2. store' = Append(l, o) /\ todo' = todo
    BY DEF Writes
  <1> HIDE DEF l
  <1>3. Append(l, o) \in Seq(Operation) /\ Len(Append(l, o)) = Len(l) + 1
         /\ Append(l, o)[Len(l) + 1] = o /\ \A i \in 1..Len(l) : Append(l, o)[i] = l[i]
    BY <1>1
  <1>4. \A i \in 1..Len(l) : l[i].n # o.n
    <2>1. \A i \in 1..Len(l) : l[i] \in Ops /\ l[i] \in Operation
      BY <1>1 DEF ToSet, Ops
    <2>2. \A i \in 1..Len(l) : l[i].n <= enqueued /\ l[i].n \in Nat
      BY <2>1, QueueConstantsOK DEF Numbered, Operation
    <2>3. o.n = enqueued + 1 /\ enqueued \in Nat
      BY QueueConstantsOK DEF Writes, Counted
    <2>4. QED
      BY <2>2, <2>3
  <1>5. Distinct(store')
    BY <1>1, <1>2, <1>3, <1>4 DEF Distinct
  <1>6. ToSet(store') = ToSet(l) \cup {o}
    <2>1. DOMAIN Append(l, o) = (1..Len(l)) \cup {Len(l) + 1} /\ DOMAIN l = 1..Len(l)
      BY <1>1, <1>3
    <2>2. QED
      BY <1>2, <1>3, <2>1 DEF ToSet
  <1>7. QED
    BY <1>1, <1>2, <1>3, <1>5, <1>6 DEF Listed, Ops

\* The lists keep their type, and hold no operation they did not, but the new one.
LEMMA ListsStep ==
  ASSUME Listed, Numbered, Counted, ListsMove
  PROVE  Listed' /\ \/ Ops' \subseteq Ops /\ UNCHANGED enqueued
                    \/ \E o \in Operation : Ops' = Ops \cup {o} /\ Writes(o)
  <1>1. CASE UNCHANGED <<store, todo, enqueued>>
    BY <1>1 DEF Listed, Ops
  <1>2. ASSUME NEW o \in Operation, Writes(o)
        PROVE  Listed' /\ Ops' = Ops \cup {o}
    BY <1>2, WritesOne
  <1>3. ASSUME NEW r \in Replays, todo[r] = <<>>, Goes(r, Load(store))
        PROVE  Listed' /\ Ops' \subseteq Ops
    <2>1. OfThose(Load(store))
      BY Loads DEF Listed, OfThose, Ops
    <2>2. QED
      BY <1>3, <2>1, GoesOn
  <1>4. ASSUME NEW r \in Replays, Sends(r)
        PROVE  Listed' /\ Ops' \subseteq Ops
    <2>1. todo[r] \in Seq(Operation) /\ Distinct(todo[r]) /\ Sorted(todo[r]) /\ ToSet(todo[r]) \subseteq Ops
      BY DEF Listed, Ops
    <2>2. OfThose(Tail(todo[r]))
      BY <1>4, <2>1, Rest DEF OfThose, Sends
    <2>3. QED
      BY <1>4, <2>2, GoesOn DEF Sends
  <1>5. ASSUME NEW r \in Replays, Goes(r, todo[r])
        PROVE  Listed' /\ Ops' \subseteq Ops
    <2>1. OfThose(todo[r])
      BY DEF Listed, Ops, OfThose
    <2>2. QED
      BY <1>5, <2>1, GoesOn
  <1>6. <<>> \in Seq(Operation) /\ Distinct(<<>>) /\ Sorted(<<>>) /\ ToSet(<<>>) = {}
    BY DEF Distinct, Sorted, ToSet
  <1>7. CASE store' = <<>> /\ UNCHANGED <<todo, enqueued>>
    BY <1>6, <1>7 DEF Listed, Ops
  <1>8. CASE todo' = [r \in Replays |-> <<>>] /\ UNCHANGED <<store, enqueued>>
    BY <1>6, <1>8 DEF Listed, Ops
  <1>9. QED
    BY <1>1, <1>2, <1>3, <1>4, <1>5, <1>7, <1>8 DEF ListsMove, Replayed

LEMMA StoredNumbers ==
  ASSUME Listed  PROVE \A o \in ToSet(store) : o.n \in 1..MaxOps
  <1>1. \A o \in ToSet(store) : o \in Operation
    BY DEF Listed, ToSet
  <1>2. QED
    BY <1>1 DEF Operation

\* What the API is asked to do.
Takes(r) == todo[r] # <<>> /\ Applies(Head(todo[r]))

LEMMA AppliesMove ==
  ASSUME [Next]_vars  PROVE applied' = applied \/ \E r \in Replays : Takes(r)
  BY DEF Next, vars, Takes, Register, Enqueue, GoOnline, HandlerSucceeds, HandlerFails,
         GoOffline, Logout, Kill, FlyWest

LEMMA Taken ==
  ASSUME Listed, Counted, NEW r \in Replays, Takes(r)
  PROVE  /\ Head(todo[r]) \in ToSet(todo[r]) /\ Head(todo[r]) \in Ops
         /\ Head(todo[r]).n \in 1..MaxOps
         /\ applied' \in [1..MaxOps -> Nat]
         /\ applied'[Head(todo[r]).n] > 0
         /\ \A n \in 1..MaxOps : /\ applied[n] > 0 => applied'[n] > 0
                                 /\ n # Head(todo[r]).n => applied'[n] = applied[n]
  <1>1. todo[r] \in Seq(Operation) /\ Distinct(todo[r]) /\ Sorted(todo[r]) /\ todo[r] # <<>>
    BY DEF Listed, Takes
  <1>2. Head(todo[r]) \in ToSet(todo[r]) /\ Head(todo[r]) \in Operation
    BY <1>1, Rest
  <1> DEFINE h == Head(todo[r]).n
  <1>3. h \in 1..MaxOps /\ Head(todo[r]) \in Ops
    BY <1>2 DEF Operation, Ops
  <1>4. applied' = [applied EXCEPT ![h] = applied[h] + 1]
    BY DEF Takes, Applies
  <1> HIDE DEF h
  <1>5. applied' \in [1..MaxOps -> Nat] /\ applied'[h] = applied[h] + 1 /\ applied[h] \in Nat
    BY <1>3, <1>4 DEF Counted
  <1>6. \A n \in 1..MaxOps : n # h => applied'[n] = applied[n]
    BY <1>4 DEF Counted
  <1>7. applied'[h] > 0
    BY <1>5
  <1>8. QED
    BY <1>2, <1>3, <1>5, <1>6, <1>7 DEF h

LEMMA NumberedStep ==
  ASSUME Listed, Numbered, Counted, [Next]_vars  PROVE Numbered' /\ Listed'
  <1>0. enqueued \in Nat /\ flights \in Nat
    BY QueueConstantsOK DEF Counted
  <1>1. \A o \in Ops : o \in Operation /\ o.n \in Nat /\ o.zone \in Nat
    <2>1. \A o \in Ops : o \in Operation
      BY DEF Ops, Listed, ToSet
    <2>2. QED
      BY <2>1, QueueConstantsOK DEF Operation
  <1>2. flights' = flights \/ flights' = flights + 1
    BY DEF Next, vars, Register, Enqueue, GoOnline, HandlerSucceeds, HandlerFails,
         GoOffline, Logout, Kill, FlyWest
  <1>3. ListsMove
    BY StepMoves
  <1>4. Listed' /\ \/ Ops' \subseteq Ops /\ UNCHANGED enqueued
                   \/ \E o \in Operation : Ops' = Ops \cup {o} /\ Writes(o)
    BY <1>3, ListsStep
  <1>5. ASSUME NEW n \in 1..MaxOps, applied'[n] > 0  PROVE n <= enqueued
    <2>1. CASE applied' = applied
      BY <1>5, <2>1 DEF Numbered
    <2>2. ASSUME NEW r \in Replays, Takes(r)  PROVE n <= enqueued
      BY <1>5, <2>2, Taken DEF Numbered
    <2>3. QED
      BY <2>1, <2>2, AppliesMove
  <1>6. CASE Ops' \subseteq Ops /\ UNCHANGED enqueued
    <2>1. \A o \in Ops' : o.n <= enqueued' /\ o.zone <= flights'
      BY <1>0, <1>1, <1>2, <1>6 DEF Numbered
    <2>2. \A o, p \in Ops' : o.n = p.n => o = p
      BY <1>6 DEF Numbered
    <2>3. QED
      BY <1>4, <1>5, <1>6, <2>1, <2>2 DEF Numbered
  <1>7. ASSUME NEW o \in Operation, Ops' = Ops \cup {o}, Writes(o)  PROVE Numbered'
    <2>1. o.n = enqueued + 1 /\ o.zone = flights /\ enqueued' = enqueued + 1
      BY <1>7 DEF Writes
    <2>2. \A q \in Ops : q.n <= enqueued /\ q.n # o.n
      BY <1>0, <1>1, <2>1 DEF Numbered
    <2>3. \A q \in Ops' : q.n <= enqueued' /\ q.zone <= flights'
      BY <1>0, <1>1, <1>2, <1>7, <2>1 DEF Numbered
    <2>4. \A p, q \in Ops' : p.n = q.n => p = q
      BY <1>7, <2>2 DEF Numbered
    <2>5. \A n \in 1..MaxOps : applied'[n] > 0 => n <= enqueued'
      BY <1>0, <1>5, <2>1
    <2>6. QED
      BY <2>3, <2>4, <2>5 DEF Numbered
  <1>8. QED
    BY <1>4, <1>6, <1>7

LEMMA CountedStep ==
  ASSUME Listed, Numbered, Counted, [Next]_vars  PROVE Counted'
  <1>1. registered' \subseteq Repositories
    BY DEF Counted, Next, vars, Register, Enqueue, GoOnline, HandlerSucceeds, HandlerFails,
         GoOffline, Logout, Kill, FlyWest
  <1>2. online' \in BOOLEAN /\ opened' \in BOOLEAN
    BY DEF Counted, Next, vars, Register, Enqueue, GoOnline, HandlerSucceeds, HandlerFails,
         GoOffline, Logout, Kill, FlyWest
  <1>3. enqueued' \in 0..MaxOps /\ flights' \in 0..MaxFlights /\ faults' \in 0..MaxFaults
    <2>1. enqueued' = enqueued \/ (enqueued < MaxOps /\ enqueued' = enqueued + 1)
      BY DEF Next, vars, Register, Enqueue, GoOnline, HandlerSucceeds, HandlerFails,
           GoOffline, Logout, Kill, FlyWest
    <2>2. flights' = flights \/ (flights < MaxFlights /\ flights' = flights + 1)
      BY DEF Next, vars, Register, Enqueue, GoOnline, HandlerSucceeds, HandlerFails,
           GoOffline, Logout, Kill, FlyWest
    <2>3. faults' = faults \/ (faults < MaxFaults /\ faults' = faults + 1)
      BY DEF Next, vars, Register, Enqueue, GoOnline, HandlerSucceeds, HandlerFails,
           GoOffline, Logout, Kill, FlyWest
    <2>4. QED
      BY <2>1, <2>2, <2>3, QueueConstantsOK DEF Counted
  <1>4. applied' \in [1..MaxOps -> Nat]
    BY Taken, AppliesMove DEF Counted
  <1>5. discarded' \subseteq 1..MaxOps
    <2>1. discarded' = discarded \/ discarded' = discarded \cup {op.n : op \in ToSet(store)}
      BY DEF Next, vars, Register, Enqueue, GoOnline, HandlerSucceeds, HandlerFails,
           GoOffline, Logout, Kill, FlyWest
    <2>2. {op.n : op \in ToSet(store)} \subseteq 1..MaxOps
      BY StoredNumbers
    <2>3. discarded \subseteq 1..MaxOps
      BY DEF Counted
    <2>4. QED
      BY <2>1, <2>2, <2>3
  <1>6. QED
    BY <1>1, <1>2, <1>3, <1>4, <1>5 DEF Counted

IInv == Listed /\ Numbered /\ Counted

LEMMA Inductive == Spec => []IInv
  <1>1. Init => IInv
    <2> SUFFICES ASSUME Init  PROVE IInv
      OBVIOUS
    <2>1. <<>> \in Seq(Operation) /\ Distinct(<<>>) /\ Sorted(<<>>) /\ ToSet(<<>>) = {}
      BY DEF Distinct, Sorted, ToSet
    <2>2. Listed
      BY <2>1 DEF Init, Listed
    <2>3. Ops = {}
      BY <2>1 DEF Init, Ops
    <2>4. Numbered
      BY <2>3 DEF Numbered, Init
    <2>5. applied \in [1..MaxOps -> Nat] /\ discarded \subseteq 1..MaxOps
      BY DEF Init
    <2>6. enqueued \in 0..MaxOps /\ flights \in 0..MaxFlights /\ faults \in 0..MaxFaults
      BY QueueConstantsOK DEF Init
    <2>7. registered \subseteq Repositories /\ online \in BOOLEAN /\ opened \in BOOLEAN
      BY DEF Init
    <2>8. QED
      BY <2>2, <2>4, <2>5, <2>6, <2>7 DEF IInv, Counted
  <1>2. IInv /\ [Next]_vars => IInv'
    BY NumberedStep, CountedStep DEF IInv
  <1>3. QED
    BY <1>1, <1>2, PTL DEF Spec

\* The lists of the box and of the replays hold operations, in the box none of them twice,
\* whatever replays overlap and whatever is written over.
THEOREM TypeCorrect == Spec => []TypeOK
  <1>1. IInv => TypeOK
    <2> SUFFICES ASSUME IInv  PROVE TypeOK
      OBVIOUS
    <2>1. IsInjective(store)
      BY DEF IInv, Listed, Distinct, IsInjective
    <2>2. QED
      BY <2>1 DEF IInv, Listed, Counted, TypeOK
  <1>2. QED
    BY <1>1, Inductive, PTL

-----------------------------------------------------------------------------
(* While the connection does not drop during a replay. *)

\* A replay is online and alone; the operation in the box and not in its list have been
\* applied, those of its list are in the box, or were when the user logged out.
Alone == \A r, q \in Replays : todo[r] # <<>> => online /\ (todo[q] # <<>> => q = r)

Mirrors(r) ==
    /\ \A o \in ToSet(store) : o \in ToSet(todo[r]) \/ applied[o.n] > 0
    /\ \A o \in ToSet(todo[r]) : o \in ToSet(store) \/ o.n \in discarded

Mirrored == \A r \in Replays : todo[r] # <<>> => Mirrors(r)

LEMMA AloneStep ==
  ASSUME IInv, Calm, Alone, [Next]_vars  PROVE Alone'
  <1>1. ASSUME NEW r \in Replays, GoOnline(r)  PROVE Alone'
    <2>1. \A q \in Replays : todo[q] = <<>>
      BY <1>1 DEF GoOnline, Alone
    <2>2. \A q \in Replays : q # r => todo'[q] = <<>>
      BY <1>1, <2>1 DEF GoOnline, Continue, IInv, Listed
    <2>3. QED
      BY <1>1, <2>2 DEF GoOnline, Alone
  <1>2. ASSUME NEW r \in Replays, HandlerSucceeds(r) \/ HandlerFails(r)  PROVE Alone'
    <2>1. \A q \in Replays : q # r => todo'[q] = todo[q]
      BY <1>2 DEF HandlerSucceeds, HandlerFails, Continue, IInv, Listed
    <2>2. online' = online /\ todo[r] # <<>>
      BY <1>2 DEF HandlerSucceeds, HandlerFails
    <2>3. QED
      BY <2>1, <2>2 DEF Alone
  <1>3. CASE GoOffline
    BY <1>3 DEF GoOffline, Alone, Replaying
  <1>4. CASE Kill
    BY <1>4 DEF Kill, Alone
  <1>5. ASSUME UNCHANGED <<online, todo>>  PROVE Alone'
    BY <1>5 DEF Alone
  <1>6. QED
    BY <1>1, <1>2, <1>3, <1>4, <1>5 DEF Next, vars, Register, Enqueue, Logout, FlyWest

LEMMA MirroredStep ==
  ASSUME IInv, Calm, Alone, Mirrored, [Next]_vars  PROVE Mirrored'
  <1>0. Listed /\ Counted /\ ToSet(<<>>) = {}
    BY DEF IInv, ToSet
  <1>1. ASSUME NEW p \in Repositories, Enqueue(p)  PROVE Mirrored'
    BY <1>1 DEF Enqueue, Alone, Mirrored
  <1>2. ASSUME NEW r \in Replays, GoOnline(r)  PROVE Mirrored'
    <2>1. \A q \in Replays : todo[q] = <<>>
      BY <1>2 DEF GoOnline, Alone
    <2>2. CASE todo' = [todo EXCEPT ![r] = Load(store)] /\ store' = store
      <3>1. \A q \in Replays : q # r => todo'[q] = <<>>
        BY <2>1, <2>2, <1>0 DEF Listed
      <3>2. ToSet(todo'[r]) = ToSet(store')
        BY <1>0, <2>2, Loads DEF Listed
      <3>3. QED
        BY <3>1, <3>2 DEF Mirrored, Mirrors
    <2>3. CASE todo' = [todo EXCEPT ![r] = <<>>]
      BY <2>1, <2>3, <1>0 DEF Mirrored, Listed
    <2>4. QED
      BY <1>2, <2>2, <2>3 DEF GoOnline, Continue
  <1>3. ASSUME NEW r \in Replays, HandlerSucceeds(r)  PROVE Mirrored'
    <2>1. Takes(r) /\ \A q \in Replays : q # r => todo[q] = <<>>
      BY <1>3 DEF HandlerSucceeds, Takes, Alone
    <2>2. CASE todo' = [todo EXCEPT ![r] = Tail(todo[r])] /\ store' = store
      <3>1. \A q \in Replays : q # r => todo'[q] = <<>>
        BY <1>0, <2>1, <2>2 DEF Listed
      <3>2. todo[r] \in Seq(Operation) /\ Distinct(todo[r]) /\ Sorted(todo[r]) /\ todo[r] # <<>>
        BY <1>0, <2>1 DEF Listed, Takes
      <3>3. \A o \in ToSet(todo[r]) : o = Head(todo[r]) \/ o \in ToSet(todo'[r])
        BY <1>0, <2>2, <3>2, Rest DEF Listed
      <3>4. ToSet(todo'[r]) \subseteq ToSet(todo[r])
        BY <1>0, <2>2, <3>2, Rest DEF Listed
      <3>5. \A o \in ToSet(store) : o.n \in 1..MaxOps
        BY <1>0, StoredNumbers
      <3>6. Mirrors(r) /\ discarded' = discarded
        BY <1>3, <2>1 DEF Mirrored, Takes, HandlerSucceeds
      <3>7. \A o \in ToSet(store) : o \in ToSet(todo'[r]) \/ applied'[o.n] > 0
        BY <1>0, <2>1, <3>3, <3>5, <3>6, Taken DEF Mirrors
      <3>8. Mirrors(r)'
        BY <2>2, <3>4, <3>6, <3>7 DEF Mirrors
      <3>9. QED
        BY <3>1, <3>8 DEF Mirrored
    <2>3. CASE todo' = [todo EXCEPT ![r] = <<>>]
      BY <1>0, <2>1, <2>3 DEF Mirrored, Listed
    <2>4. QED
      BY <1>3, <2>2, <2>3 DEF HandlerSucceeds, Continue
  <1>4. ASSUME NEW r \in Replays, HandlerFails(r)  PROVE Mirrored'
    <2>1. \A q \in Replays : q # r => todo[q] = <<>>
      BY <1>4 DEF HandlerFails, Alone
    <2>2. QED
      BY <1>0, <1>4, <2>1 DEF HandlerFails, Mirrored, Listed
  <1>5. CASE Logout
    <2>1. \A o \in ToSet(store) : o.n \in discarded'
      BY <1>5 DEF Logout
    <2>2. \A r \in Replays : todo[r] # <<>> => Mirrors(r)'
      BY <1>0, <1>5, <2>1 DEF Logout, Mirrored, Mirrors
    <2>3. QED
      BY <1>5, <2>2 DEF Logout, Mirrored
  <1>6. CASE Kill
    BY <1>6 DEF Kill, Mirrored
  <1>7. QED
    BY <1>1, <1>2, <1>3, <1>4, <1>5, <1>6
       DEF Next, vars, Mirrored, Mirrors, Register, GoOffline, FlyWest

\* No operation is lost: what is neither applied nor held has been discarded by a logout.
LEMMA KeptStep ==
  ASSUME IInv, IInv', Calm, Alone, Mirrored, Kept, [Next]_vars  PROVE Kept'
  <1> DEFINE Fine(n) == applied[n] > 0 \/ (\E o \in Ops : o.n = n) \/ n \in discarded
  <1>0. Listed /\ Counted /\ enqueued' \in 0..MaxOps
    BY DEF IInv, Counted
  <1>1. /\ Kept <=> \A n \in 1..enqueued : Fine(n)
        /\ Kept' <=> \A n \in 1..enqueued' : Fine(n)'
    BY DEF Kept, Held, Ops
  <1>2. \A n \in 1..MaxOps : applied[n] > 0 => applied'[n] > 0
    BY <1>0, AppliesMove, Taken
  <1>3. \A n \in discarded : n \in discarded'
    BY DEF Next, vars, Register, Enqueue, GoOnline, HandlerSucceeds, HandlerFails, GoOffline,
         Logout, Kill, FlyWest
  <1>4. ASSUME enqueued' = enqueued,
               \A o \in Ops : o \in Ops' \/ applied'[o.n] > 0 \/ o.n \in discarded'
        PROVE  Kept'
    <2>1. \A n \in 1..enqueued : n \in 1..MaxOps
      BY <1>0, QueueConstantsOK DEF Counted
    <2>2. QED
      BY <1>1, <1>2, <1>3, <1>4, <2>1
  <1>5. ASSUME NEW p \in Repositories, Enqueue(p)  PROVE Kept'
    <2>1. PICK o \in Operation : Ops' = Ops \cup {o} /\ o.n = enqueued + 1
      <3>1. enqueued' = enqueued + 1 /\ enqueued \in Nat
        BY <1>0, <1>5, QueueConstantsOK DEF Enqueue, Counted
      <3>2. enqueued' # enqueued
        BY <3>1
      <3>3. QED
        BY <1>0, <3>2, StepMoves, ListsStep DEF IInv, Writes
    <2>2. enqueued' = enqueued + 1 /\ enqueued \in Nat
      BY <1>0, <1>5, QueueConstantsOK DEF Enqueue, Counted
    <2>3. \A n \in 1..enqueued' : n \in 1..enqueued \/ n = o.n
      BY <2>1, <2>2
    <2>4. applied' = applied /\ discarded' = discarded
      BY <1>5 DEF Enqueue
    <2>5. QED
      BY <1>1, <2>1, <2>3, <2>4
  <1>6. ASSUME NEW r \in Replays, GoOnline(r)  PROVE Kept'
    <2>1. ToSet(Load(store)) = ToSet(store) /\ Load(store) \in Seq(Operation)
      BY <1>0, Loads DEF Listed
    <2>2. ToSet(<<>>) = {} /\ todo[r] = <<>>
      BY <1>6 DEF GoOnline, ToSet
    <2>3. ToSet(store') = ToSet(store)
      BY <1>6, <2>1 DEF GoOnline, Continue
    <2>4. \A q \in Replays : ToSet(todo[q]) \subseteq ToSet(todo'[q])
      BY <1>0, <1>6, <2>2 DEF GoOnline, Continue, Listed
    <2>5. Ops \subseteq Ops'
      BY <2>3, <2>4 DEF Ops
    <2>6. QED
      BY <1>4, <1>6, <2>5 DEF GoOnline
  <1>7. ASSUME NEW r \in Replays, HandlerSucceeds(r)  PROVE Kept'
    <2>1. Takes(r) /\ enqueued' = enqueued /\ Mirrors(r) /\ \A q \in Replays : q # r => ToSet(todo[q]) = {}
      BY <1>7 DEF HandlerSucceeds, Takes, Alone, Mirrored, ToSet
    <2>2. todo[r] \in Seq(Operation) /\ Distinct(todo[r]) /\ Sorted(todo[r]) /\ todo[r] # <<>>
      BY <1>0, <2>1 DEF Listed, Takes
    <2>3. \A o \in ToSet(todo[r]) : o = Head(todo[r]) \/ o \in ToSet(Tail(todo[r]))
      BY <2>2, Rest
    <2>4. applied'[Head(todo[r]).n] > 0
      BY <1>0, <2>1, Taken
    <2>5. \A o \in Ops : o \in ToSet(store) \/ o \in ToSet(todo[r])
      BY <2>1 DEF Ops
    <2>6. CASE todo' = [todo EXCEPT ![r] = Tail(todo[r])] /\ store' = store
      <3>1. ToSet(store) \subseteq Ops' /\ ToSet(Tail(todo[r])) \subseteq Ops'
        BY <1>0, <2>6 DEF Ops, Listed
      <3>2. QED
        BY <1>4, <2>1, <2>3, <2>4, <2>5, <3>1
    <2>7. CASE store' = Tail(todo[r])
      <3>1. ToSet(Tail(todo[r])) \subseteq Ops'
        BY <2>7 DEF Ops
      <3>2. \A o \in ToSet(store) : o \in ToSet(todo[r]) \/ applied'[o.n] > 0
        BY <1>0, <1>2, <2>1, StoredNumbers DEF Mirrors
      <3>3. QED
        BY <1>4, <2>1, <2>3, <2>4, <2>5, <3>1, <3>2
    <2>8. QED
      BY <1>7, <2>6, <2>7 DEF HandlerSucceeds, Continue
  <1>8. ASSUME NEW r \in Replays, HandlerFails(r)  PROVE Kept'
    <2>1. Mirrors(r) /\ enqueued' = enqueued /\ store' = todo[r] /\ \A q \in Replays : q # r => ToSet(todo[q]) = {}
      BY <1>8 DEF HandlerFails, Alone, Mirrored, ToSet
    <2>2. ToSet(todo[r]) \subseteq Ops'
      BY <2>1 DEF Ops
    <2>3. \A o \in Ops : o \in ToSet(store) \/ o \in ToSet(todo[r])
      BY <2>1 DEF Ops
    <2>4. \A o \in ToSet(store) : o \in ToSet(todo[r]) \/ applied'[o.n] > 0
      BY <1>0, <1>2, <2>1, StoredNumbers DEF Mirrors
    <2>5. QED
      BY <1>4, <2>1, <2>2, <2>3, <2>4
  <1>9. CASE Logout
    <2>1. \A o \in ToSet(store) : o.n \in discarded'
      BY <1>9 DEF Logout
    <2>2. \A o \in Ops : o \in ToSet(store) \/ o \in Ops'
      BY <1>9 DEF Logout, Ops
    <2>3. QED
      BY <1>4, <1>9, <2>1, <2>2 DEF Logout
  <1>10. CASE Kill
    <2>1. \A o \in Ops : o \in ToSet(store) \/ o.n \in discarded
      <3>1. \A r \in Replays : todo[r] = <<>> => ToSet(todo[r]) = {}
        BY DEF ToSet
      <3>2. QED
        BY <3>1 DEF Mirrored, Mirrors, Ops
    <2>2. ToSet(store) \subseteq Ops' /\ discarded' = discarded /\ enqueued' = enqueued
      BY <1>10 DEF Kill, Ops
    <2>3. QED
      BY <1>4, <2>1, <2>2
  <1>11. CASE UNCHANGED <<store, todo, enqueued, applied, discarded>>
    <2>1. Ops' = Ops
      BY <1>11 DEF Ops
    <2>2. QED
      BY <1>4, <1>11, <2>1
  <1>12. QED
    BY <1>5, <1>6, <1>7, <1>8, <1>9, <1>10, <1>11
       DEF Next, vars, Register, GoOffline, FlyWest

\* An operation is not overtaken by a later one: the head of a sorted list is the first.
LEMMA InOrderStep ==
  ASSUME IInv, IInv', Alone, Mirrored, InOrder, [Next]_vars  PROVE InOrder'
  <1> SUFFICES ASSUME flights' = 0, NEW m \in 1..MaxOps, NEW n \in 1..MaxOps, m < n,
                      applied'[n] > 0, m \in Held'
               PROVE  applied'[m] > 0
    BY DEF InOrder
  <1>0. Listed /\ Numbered /\ Counted
    BY DEF IInv
  <1>1. flights = 0
    <2>1. flights' = flights \/ flights' = flights + 1
      BY DEF Next, vars, Register, Enqueue, GoOnline, HandlerSucceeds, HandlerFails,
           GoOffline, Logout, Kill, FlyWest
    <2>2. QED
      BY <1>0, <2>1, QueueConstantsOK DEF Counted
  <1>2. PICK o \in Ops' : o.n = m
    BY DEF Held, Ops
  <1>3. CASE applied' = applied
    <2>1. n <= enqueued
      BY <1>0, <1>3 DEF Numbered
    <2>2. o \in Ops
      <3>1. ASSUME NEW p \in Operation, Ops' = Ops \cup {p}, Writes(p)  PROVE o \in Ops
        <4>1. p.n = enqueued + 1 /\ enqueued \in Nat
          BY <1>0, <3>1, QueueConstantsOK DEF Writes, Counted
        <4>2. o # p
          BY <1>2, <2>1, <4>1
        <4>3. QED
          BY <3>1, <4>2
      <3>2. QED
        BY <1>0, <3>1, StepMoves, ListsStep
    <2>3. m \in Held
      BY <1>2, <2>2 DEF Held, Ops
    <2>4. QED
      BY <1>1, <1>3, <2>3 DEF InOrder
  <1>4. ASSUME NEW r \in Replays, Takes(r)  PROVE applied'[m] > 0
    <2>1. o \in Ops
      <3>1. \A p \in Operation : ~Writes(p)
        <4>1. enqueued' # enqueued => applied' = applied
          BY DEF Next, vars, Register, Enqueue, GoOnline, HandlerSucceeds, HandlerFails,
               GoOffline, Logout, Kill, FlyWest
        <4>2. applied' # applied
          <5>1. Head(todo[r]).n \in 1..MaxOps /\ applied \in [1..MaxOps -> Nat]
            BY <1>0, <1>4, Taken DEF Counted
          <5>2. applied' = [applied EXCEPT ![Head(todo[r]).n] = applied[Head(todo[r]).n] + 1]
            BY <1>4 DEF Takes, Applies
          <5>3. applied'[Head(todo[r]).n] = applied[Head(todo[r]).n] + 1
            BY <5>1, <5>2
          <5>4. applied[Head(todo[r]).n] \in Nat
            BY <5>1
          <5>5. QED
            BY <5>3, <5>4
        <4>3. QED
          BY <1>0, <4>1, <4>2, QueueConstantsOK DEF Writes, Counted
      <3>2. QED
        BY <1>0, <3>1, StepMoves, ListsStep
    <2>2. CASE applied[n] > 0
      <3>1. m \in Held
        BY <1>2, <2>1 DEF Held, Ops
      <3>2. applied[m] > 0
        BY <1>1, <2>2, <3>1 DEF InOrder
      <3>3. QED
        BY <1>0, <1>4, <3>2, Taken
    <2>3. CASE ~(applied[n] > 0)
      <3> DEFINE h == Head(todo[r])
      <3>1. n = h.n
        BY <1>0, <1>4, <2>3, Taken
      <3>2. \A q \in Replays : q # r => ToSet(todo[q]) = {}
        BY <1>4 DEF Takes, Alone, ToSet
      <3>3. o \in ToSet(todo[r]) \/ applied[m] > 0
        BY <1>2, <1>4, <2>1, <3>2 DEF Ops, Mirrored, Mirrors, Takes
      <3>4. ASSUME o \in ToSet(todo[r])  PROVE FALSE
        <4>1. todo[r] \in Seq(Operation) /\ Distinct(todo[r]) /\ Sorted(todo[r]) /\ todo[r] # <<>>
          BY <1>0, <1>4 DEF Listed, Takes
        <4>2. h \in Operation /\ h \in Ops
          BY <1>0, <1>4, <4>1, Taken, Rest
        <4>3. o \in Operation
          BY <3>4, <4>1 DEF ToSet
        <4>4. o # h
          BY <1>2, <3>1
        <4>5. Before(h, o)
          BY <3>4, <4>1, <4>4, Rest
        <4>6. h.zone <= 0 /\ o.zone <= 0
          BY <1>0, <1>1, <2>1, <4>2 DEF Numbered
        <4>7. h.zone \in Nat /\ o.zone \in Nat
          BY <4>2, <4>3, QueueConstantsOK DEF Operation
        <4> HIDE DEF h
        <4>8. QED
          BY <1>2, <3>1, <4>5, <4>6, <4>7 DEF Before
      <3>5. QED
        BY <1>0, <1>4, <3>3, <3>4, Taken
    <2>4. QED
      BY <2>2, <2>3
  <1>5. QED
    BY <1>3, <1>4, AppliesMove

\* While the connection does not drop during a replay, an operation the user was told is
\* queued takes effect, or is still held, or was in the box at a logout: whatever is refused,
\* killed or written over.
THEOREM NothingLost == Calm => (Spec => []Kept)
  <1> SUFFICES ASSUME Calm  PROVE Spec => []Kept
    OBVIOUS
  <1>1. Init => Alone /\ Mirrored /\ Kept
    BY QueueConstantsOK DEF Init, Alone, Mirrored, Kept
  <1>2. IInv /\ IInv' /\ Alone /\ Mirrored /\ Kept /\ [Next]_vars => Alone' /\ Mirrored' /\ Kept'
    BY AloneStep, MirroredStep, KeptStep
  <1>3. QED
    BY <1>1, <1>2, Inductive, PTL DEF Spec

\* And, unless the wall clock goes back, it takes effect before every later one.
THEOREM NoneOvertaken == Calm => (Spec => []InOrder)
  <1> SUFFICES ASSUME Calm  PROVE Spec => []InOrder
    OBVIOUS
  <1>1. Init => Alone /\ Mirrored /\ InOrder
    BY DEF Init, Alone, Mirrored, InOrder
  <1>2. IInv /\ IInv' /\ Alone /\ Mirrored /\ InOrder /\ [Next]_vars => Alone' /\ Mirrored' /\ InOrder'
    BY AloneStep, MirroredStep, InOrderStep
  <1>3. QED
    BY <1>1, <1>2, Inductive, PTL DEF Spec

=============================================================================
