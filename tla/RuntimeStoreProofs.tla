------------------------- MODULE RuntimeStoreProofs -------------------------
(***************************************************************************)
(* Proofs about RuntimeStore, for any processes, keys, fields and values,  *)
(* and any finite set of events' keys.                                     *)
(***************************************************************************)
EXTENDS RuntimeStore, FiniteSetTheorems, FunctionTheorems, TLAPS

-----------------------------------------------------------------------------
(* Before orders events, and a finite set of them can be sorted *)

LEMMA EventIs ==
    ASSUME NEW e \in Event
    PROVE  /\ "id" \in DOMAIN e /\ DOMAIN e \subseteq {"id"} \cup Fields
           /\ e.id \in Ids /\ e.id \in Nat
           /\ \A f \in DOMAIN e : e[f] \in Ids \cup Values
           /\ e = [f \in DOMAIN e |-> e[f]]
           /\ EventTime(e) \in Nat
<1>1. PICK said \in SUBSET Fields : e \in [{"id"} \cup said -> Ids \cup Values]
  BY DEF Event
<1>2. DOMAIN e = {"id"} \cup said /\ e = [f \in DOMAIN e |-> e[f]]
  BY <1>1
<1>3. e.id \in Ids /\ \A f \in DOMAIN e : e[f] \in Ids \cup Values
  BY <1>1 DEF Event
<1>4. \A f \in DOMAIN e : e[f] \in Nat
  BY <1>3, RuntimeAssumption
<1> QED
  BY <1>2, <1>3, <1>4 DEF EventTime

LEMMA BeforeOrders ==
    ASSUME NEW a \in Event, NEW b \in Event, NEW c \in Event
    PROVE  /\ ~Before(a, a)
           /\ Before(a, b) /\ Before(b, c) => Before(a, c)
           /\ a.id = b.id \/ Before(a, b) \/ Before(b, a)
           /\ ~(Before(a, b) /\ Before(b, a))
<1>1. \A e \in Event : e.id \in Nat /\ EventTime(e) \in Nat
  BY EventIs
<1> QED
  BY <1>1 DEF Before

\* One entry for each event.
Single(S) == \A e, f \in S : e.id = f.id => e = f

Earlier(S, e) == {x \in S : Before(x, e)}

\* An event has more before it the later it comes.
LEMMA EarlierGrows ==
    ASSUME NEW S \in SUBSET Event, IsFiniteSet(S), NEW a \in S, NEW b \in S, Before(a, b)
    PROVE  /\ Cardinality(Earlier(S, a)) \in Nat
           /\ Cardinality(Earlier(S, b)) \in Nat
           /\ Cardinality(Earlier(S, a)) < Cardinality(Earlier(S, b))
<1>1. Earlier(S, a) \in SUBSET Earlier(S, b)
  BY BeforeOrders DEF Earlier
<1>2. a \in Earlier(S, b) /\ a \notin Earlier(S, a)
  BY BeforeOrders DEF Earlier
<1>3. IsFiniteSet(Earlier(S, b))
  BY FS_Subset DEF Earlier
<1>4. /\ IsFiniteSet(Earlier(S, a))
      /\ Cardinality(Earlier(S, a)) <= Cardinality(Earlier(S, b))
      /\ Cardinality(Earlier(S, a)) # Cardinality(Earlier(S, b))
  BY <1>1, <1>2, <1>3, FS_Subset
<1> QED
  BY <1>3, <1>4, FS_CardinalityType

LEMMA EarlierFew ==
    ASSUME NEW S \in SUBSET Event, IsFiniteSet(S), NEW a \in S
    PROVE  /\ Cardinality(Earlier(S, a)) \in Nat
           /\ Cardinality(Earlier(S, a)) < Cardinality(S)
<1>1. Earlier(S, a) \in SUBSET S /\ a \notin Earlier(S, a)
  BY BeforeOrders DEF Earlier
<1>2. /\ IsFiniteSet(Earlier(S, a))
      /\ Cardinality(Earlier(S, a)) <= Cardinality(S)
      /\ Cardinality(Earlier(S, a)) # Cardinality(S)
  BY <1>1, FS_Subset
<1> QED
  BY <1>2, FS_CardinalityType

\* The place of each event in the order.
LEMMA Places ==
    ASSUME NEW S \in SUBSET Event, IsFiniteSet(S), Single(S)
    PROVE  [e \in S |-> Cardinality(Earlier(S, e)) + 1] \in Bijection(S, 1..Cardinality(S))
<1> DEFINE n == Cardinality(S)
           f == [e \in S |-> Cardinality(Earlier(S, e)) + 1]
<1>1. n \in Nat
  BY FS_CardinalityType
<1>2. f \in [S -> 1..n]
  BY <1>1, EarlierFew
<1>3. \A a, b \in S : f[a] = f[b] => a = b
  <2> SUFFICES ASSUME NEW a \in S, NEW b \in S, f[a] = f[b], a # b PROVE FALSE
    OBVIOUS
  <2>1. Before(a, b) \/ Before(b, a)
    BY BeforeOrders DEF Single
  <2>2. Cardinality(Earlier(S, a)) + 1 = Cardinality(Earlier(S, b)) + 1
    OBVIOUS
  <2>3. CASE Before(a, b)
    BY <2>2, <2>3, EarlierGrows
  <2>4. CASE Before(b, a)
    BY <2>2, <2>4, EarlierGrows
  <2> QED
    BY <2>1, <2>3, <2>4
<1>4. f \in Injection(S, 1..n)
  BY <1>2, <1>3, Fun_IsInj
<1>5. IsFiniteSet(1..n) /\ Cardinality(1..n) = n
  BY <1>1, FS_Interval
<1>6. f \in Surjection(S, 1..n)
  BY <1>4, <1>5, FS_Injection
<1> QED
  BY <1>4, <1>6 DEF Bijection

\* There is a sorted sequence of the set.
LEMMA SortedExists ==
    ASSUME NEW S \in SUBSET Event, IsFiniteSet(S), Single(S)
    PROVE  \E s \in [1..Cardinality(S) -> S] : NewestFirst(s)
<1> DEFINE n == Cardinality(S)
<1>1. n \in Nat
  BY FS_CardinalityType
<1>2. PICK f \in Bijection(S, 1..n) : \A e \in S : f[e] = Cardinality(Earlier(S, e)) + 1
  BY Places
<1>3. PICK s : s = Inverse(f, S, 1..n)
  OBVIOUS
<1>4. s \in [1..n -> S]
  <2>1. s \in Bijection(1..n, S)
    BY <1>3, Fun_BijInverse
  <2> QED
    BY <2>1, Fun_BijectionProperties
<1>5. \A i \in 1..n : f[s[i]] = i
  <2>1. f \in [S -> 1..n] /\ f \in Surjection(S, 1..n)
    BY Fun_BijectionProperties
  <2>2. Range(f) = 1..n
    BY <2>1, Fun_SurjectionProperties
  <2> QED
    BY <1>3, <2>1, <2>2, Fun_InverseProperties
<1>6. NewestFirst(s)
  <2>1. Len(s) = n
    BY <1>1, <1>4
  <2> SUFFICES ASSUME NEW i \in 1..n, NEW j \in 1..n, i < j PROVE Before(s[i], s[j])
    BY <2>1 DEF NewestFirst
  <2>2. s[i] \in S /\ s[j] \in S /\ f[s[i]] = i /\ f[s[j]] = j
    BY <1>4, <1>5
  <2>3. /\ f[s[i]] = Cardinality(Earlier(S, s[i])) + 1
        /\ f[s[j]] = Cardinality(Earlier(S, s[j])) + 1
    BY <1>2, <2>2
  <2>4. s[i] # s[j]
    BY <2>2
  <2>5. ~Before(s[j], s[i])
    BY <1>1, <2>2, <2>3, EarlierGrows
  <2> QED
    BY <2>2, <2>4, <2>5, BeforeOrders DEF Single
<1> QED
  BY <1>4, <1>6

LEMMA SortedIs ==
    ASSUME NEW S \in SUBSET Event, IsFiniteSet(S), Single(S)
    PROVE  /\ Sorted(S) \in Seq(Event)
           /\ Len(Sorted(S)) = Cardinality(S)
           /\ NewestFirst(Sorted(S))
           /\ ToSet(Sorted(S)) = S
<1>1. Sorted(S) \in [1..Cardinality(S) -> S] /\ NewestFirst(Sorted(S))
  BY SortedExists DEF Sorted
<1>2. PICK s : s = Sorted(S)
  OBVIOUS
<1>3. PICK n \in Nat : n = Cardinality(S)
  BY FS_CardinalityType
<1>4. s \in [1..n -> S] /\ s \in Seq(Event) /\ Len(s) = n
  BY <1>1, <1>2, <1>3
<1>5. \A i, j \in 1..n : s[i] = s[j] => i = j
  <2> SUFFICES ASSUME NEW i \in 1..n, NEW j \in 1..n, i < j, s[i] = s[j] PROVE FALSE
    OBVIOUS
  <2>1. Before(s[i], s[j])
    BY <1>1, <1>2, <1>4 DEF NewestFirst
  <2> QED
    BY <2>1, <1>4, BeforeOrders
<1>6. s \in Injection(1..n, S)
  BY <1>4, <1>5, Fun_IsInj
<1>7. IsFiniteSet(1..n) /\ Cardinality(1..n) = n
  BY FS_Interval
<1>8. s \in Surjection(1..n, S)
  BY <1>3, <1>6, <1>7, FS_Injection
<1>9. \A e \in S : \E i \in 1..n : s[i] = e
  BY <1>8, Fun_SurjectionProperties
<1>10. ToSet(s) = S
  BY <1>4, <1>9 DEF ToSet
<1> QED
  BY <1>1, <1>2, <1>3, <1>4, <1>10

-----------------------------------------------------------------------------
(* Lists of events, one entry for each *)

Distinct(events) ==
    \A i, j \in DOMAIN events : events[i].id = events[j].id => i = j

DistinctLists == {s \in Seq(Event) : Distinct(s)}

LEMMA ListCount ==
    ASSUME NEW s \in Seq(Event)
    PROVE  /\ IsFiniteSet(ToSet(s))
           /\ IsFiniteSet(IdsOf(s))
           /\ Cardinality(IdsOf(s)) = Len(s) <=> Distinct(s)
<1> DEFINE n == Len(s)
           f == [i \in 1..n |-> s[i].id]
<1>1. n \in Nat /\ DOMAIN s = 1..n /\ IsFiniteSet(1..n) /\ Cardinality(1..n) = n
  <2>1. n \in Nat /\ DOMAIN s = 1..n
    OBVIOUS
  <2> HIDE DEF n
  <2> QED
    BY <2>1, FS_Interval
<1>2. s \in Surjection(1..n, ToSet(s))
  <2>1. s \in [1..n -> ToSet(s)]
    BY <1>1 DEF ToSet
  <2>2. \A e \in ToSet(s) : \E i \in 1..n : s[i] = e
    BY <1>1 DEF ToSet
  <2> QED
    BY <2>1, <2>2, Fun_IsSurj
<1>3. IsFiniteSet(ToSet(s))
  BY <1>1, <1>2, FS_Surjection
<1>4. f \in [1..n -> IdsOf(s)] /\ \A x \in IdsOf(s) : \E i \in 1..n : f[i] = x
  BY <1>1 DEF IdsOf
<1>5. f \in Surjection(1..n, IdsOf(s))
  BY <1>4, Fun_IsSurj
<1>6. /\ IsFiniteSet(IdsOf(s))
      /\ Cardinality(IdsOf(s)) = n <=> f \in Injection(1..n, IdsOf(s))
  BY <1>1, <1>5, FS_Surjection
<1>7. f \in Injection(1..n, IdsOf(s)) <=> Distinct(s)
  <2>1. Distinct(s) <=> \A i, j \in 1..n : f[i] = f[j] => i = j
    BY <1>1 DEF Distinct
  <2>2. (\A i, j \in 1..n : f[i] = f[j] => i = j) => f \in Injection(1..n, IdsOf(s))
    BY <1>4, Fun_IsInj
  <2>3. f \in Injection(1..n, IdsOf(s)) => \A i, j \in 1..n : f[i] = f[j] => i = j
    BY Fun_InjectionProperties
  <2> QED
    BY <2>1, <2>2, <2>3
<1> QED
  BY <1>3, <1>6, <1>7

LEMMA ListIs ==
    ASSUME NEW s \in DistinctLists
    PROVE  /\ ToSet(s) \in SUBSET Event
           /\ IsFiniteSet(ToSet(s))
           /\ Single(ToSet(s))
           /\ \A x : x \in IdsOf(s) <=> \E e \in ToSet(s) : e.id = x
<1>1. s \in Seq(Event) /\ Distinct(s)
  BY DEF DistinctLists
<1>2. ToSet(s) \in SUBSET Event /\ IsFiniteSet(ToSet(s))
  <2>1. ToSet(s) \in SUBSET Event
    BY <1>1 DEF ToSet
  <2> QED
    BY <1>1, <2>1, ListCount
<1>3. Single(ToSet(s))
  BY DEF DistinctLists, Distinct, ToSet, Single
<1>4. \A x : x \in IdsOf(s) <=> \E e \in ToSet(s) : e.id = x
  BY DEF IdsOf, ToSet
<1> QED
  BY <1>2, <1>3, <1>4

\* One event over another: it keeps the fields of both, and its own say.
LEMMA OverIs ==
    ASSUME NEW e \in Event, NEW o \in Event, e.id = o.id
    PROVE  /\ Over(e, o) \in Event
           /\ DOMAIN Over(e, o) = DOMAIN e \cup DOMAIN o
           /\ Over(e, o).id = e.id
           /\ \A f \in DOMAIN e : Over(e, o)[f] = e[f]
           /\ \A f \in DOMAIN o \ DOMAIN e : Over(e, o)[f] = o[f]
<1>1. /\ "id" \in DOMAIN e /\ DOMAIN e \subseteq {"id"} \cup Fields
      /\ "id" \in DOMAIN o /\ DOMAIN o \subseteq {"id"} \cup Fields
  BY EventIs
<1>2. PICK u : u = Over(e, o)
  OBVIOUS
<1>3. u = [f \in DOMAIN e \cup DOMAIN o |-> IF f \in DOMAIN e THEN e[f] ELSE o[f]]
  BY <1>2 DEF Over
<1>4. /\ DOMAIN u = DOMAIN e \cup DOMAIN o
      /\ \A f \in DOMAIN e : u[f] = e[f]
      /\ \A f \in DOMAIN o \ DOMAIN e : u[f] = o[f]
  BY <1>3
<1>5. u.id = e.id
  BY <1>1, <1>4
<1>6. u \in Event
  <2>1. \A f \in DOMAIN u : u[f] \in Ids \cup Values
    BY <1>4, EventIs
  <2>2. PICK said \in SUBSET Fields : DOMAIN u = {"id"} \cup said
    <3>1. DOMAIN u = {"id"} \cup (DOMAIN u \ {"id"}) /\ DOMAIN u \ {"id"} \in SUBSET Fields
      BY <1>1, <1>4
    <3> QED
      BY <3>1
  <2>3. u \in [{"id"} \cup said -> Ids \cup Values]
    BY <1>3, <1>4, <2>1, <2>2
  <2>4. u.id \in Ids
    BY <1>5, EventIs
  <2>5. \A f \in DOMAIN u \ {"id"} : u[f] \in Values
    BY <1>4 DEF Event
  <2> QED
    BY <2>2, <2>3, <2>4, <2>5 DEF Event
<1> QED
  BY <1>2, <1>4, <1>5, <1>6

LEMMA UpdatedIs ==
    ASSUME NEW old \in DistinctLists, NEW e \in Event
    PROVE  /\ Updated(old, e) \in Event
           /\ Updated(old, e).id = e.id
           /\ \A o \in ToSet(old) : o.id = e.id => Updated(old, e) = Over(e, o)
           /\ e.id \notin IdsOf(old) => Updated(old, e) = e
<1>1. CASE e.id \notin IdsOf(old)
  BY <1>1, ListIs DEF Updated
<1>2. CASE e.id \in IdsOf(old)
  <2>1. PICK o \in ToSet(old) : o.id = e.id
    BY <1>2, ListIs
  <2>2. (CHOOSE x \in ToSet(old) : x.id = e.id) = o
    BY <2>1, ListIs DEF Single
  <2>3. Updated(old, e) = Over(e, o)
    BY <1>2, <2>2 DEF Updated
  <2>4. o \in Event
    BY ListIs
  <2>5. \A x \in ToSet(old) : x.id = e.id => x = o
    BY <2>1, ListIs DEF Single
  <2>6. Over(e, o) \in Event /\ Over(e, o).id = e.id
    BY <2>1, <2>4, OverIs
  <2> QED
    BY <1>2, <2>3, <2>5, <2>6
<1> QED
  BY <1>1, <1>2

\* What is joined are events, each once, of the ids that either list has.
LEMMA JoinedIs ==
    ASSUME NEW old \in DistinctLists, NEW new \in DistinctLists
    PROVE  LET S == Joined(old, new) IN
           /\ S \in SUBSET Event
           /\ IsFiniteSet(S)
           /\ Single(S)
           /\ {e.id : e \in S} = IdsOf(new) \cup IdsOf(old)
<1> DEFINE N == {Updated(old, e) : e \in ToSet(new)}
           O == {e \in ToSet(old) : e.id \notin IdsOf(new)}
<1>1. ToSet(old) \in SUBSET Event /\ ToSet(new) \in SUBSET Event
  BY ListIs
<1>2. Joined(old, new) = N \cup O
  BY DEF Joined
<1>3. IsFiniteSet(N \cup O)
  <2>1. IsFiniteSet(N)
    <3> DEFINE f == [e \in ToSet(new) |-> Updated(old, e)]
    <3>1. f \in Surjection(ToSet(new), N)
      <4>1. f \in [ToSet(new) -> N] /\ \A u \in N : \E e \in ToSet(new) : f[e] = u
        OBVIOUS
      <4> HIDE DEF f, N
      <4> QED
        BY <4>1, Fun_IsSurj
    <3> HIDE DEF f, N
    <3> QED
      BY <3>1, ListIs, FS_Surjection
  <2>2. O \in SUBSET ToSet(old)
    OBVIOUS
  <2>3. IsFiniteSet(O)
    <3> HIDE DEF O
    <3> QED
      BY <2>2, ListIs, FS_Subset
  <2> HIDE DEF N, O
  <2> QED
    BY <2>1, <2>3, FS_Union
<1>4. \A u \in N : u \in Event /\ \E e \in ToSet(new) : u = Updated(old, e) /\ u.id = e.id
  BY <1>1, UpdatedIs
<1>5. \A u \in N : u.id \in IdsOf(new)
  BY <1>4, ListIs
<1>6. Single(N \cup O)
  <2>1. \A u, v \in N : u.id = v.id => u = v
    BY <1>4, ListIs DEF Single
  <2>2. \A u, v \in O : u.id = v.id => u = v
    BY ListIs DEF Single
  <2>3. \A u \in N, v \in O : u.id # v.id
    BY <1>5
  <2> HIDE DEF N, O
  <2> QED
    BY <2>1, <2>2, <2>3 DEF Single
<1>7. N \cup O \subseteq Event
  BY <1>1, <1>4
<1>8. {e.id : e \in N \cup O} = IdsOf(new) \cup IdsOf(old)
  <2>1. \A x \in IdsOf(new) : \E u \in N : u.id = x
    <3> SUFFICES ASSUME NEW x \in IdsOf(new) PROVE \E u \in N : u.id = x
      OBVIOUS
    <3>1. PICK e \in ToSet(new) : e.id = x
      BY ListIs
    <3>2. Updated(old, e) \in N /\ Updated(old, e).id = x
      BY <1>1, <3>1, UpdatedIs
    <3> QED
      BY <3>2
  <2>2. \A x \in IdsOf(old) \ IdsOf(new) : \E u \in O : u.id = x
    BY ListIs
  <2>3. \A u \in O : u.id \in IdsOf(old)
    BY ListIs
  <2> HIDE DEF N, O
  <2> QED
    BY <1>5, <2>1, <2>2, <2>3
<1> HIDE DEF N, O
<1> QED
  BY <1>2, <1>3, <1>6, <1>7, <1>8

LEMMA SortedJoined ==
    ASSUME NEW old \in DistinctLists, NEW new \in DistinctLists
    PROVE  LET s == Sorted(Joined(old, new)) IN
           /\ s \in DistinctLists
           /\ ToSet(s) = Joined(old, new)
           /\ IdsOf(s) = IdsOf(new) \cup IdsOf(old)
<1>1. PICK s : s = Sorted(Joined(old, new))
  OBVIOUS
<1>2. s \in Seq(Event) /\ ToSet(s) = Joined(old, new) /\ NewestFirst(s)
  BY <1>1, JoinedIs, SortedIs
<1>3. IdsOf(s) = {e.id : e \in ToSet(s)}
  BY DEF IdsOf, ToSet
<1>4. Distinct(s)
  <2> SUFFICES ASSUME NEW i \in 1..Len(s), NEW j \in 1..Len(s), i < j, s[i].id = s[j].id
               PROVE  FALSE
    BY <1>2 DEF Distinct
  <2>1. s[i] \in ToSet(s) /\ s[j] \in ToSet(s)
    BY <1>2 DEF ToSet
  <2>2. s[i] = s[j]
    BY <1>2, <2>1, JoinedIs DEF Single
  <2>3. Before(s[i], s[j])
    BY <1>2 DEF NewestFirst
  <2> QED
    BY <1>2, <2>2, <2>3, BeforeOrders
<1> QED
  BY <1>1, <1>2, <1>3, <1>4, JoinedIs DEF DistinctLists

-----------------------------------------------------------------------------
(* What lists of events say, field by field *)

Fact == [of : Ids, field : {"id"} \cup Fields, value : Ids \cup Values]

FactsOf(S) ==
    {q \in Fact : \E e \in S : e.id = q.of /\ q.field \in DOMAIN e /\ e[q.field] = q.value}

\* An event of S says something of the field f of the event x.
Tells(S, x, f) == \E e \in S : e.id = x /\ f \in DOMAIN e

\* What an event says is a fact.
LEMMA EventFact ==
    ASSUME NEW S \in SUBSET Event, NEW e \in S, NEW f \in DOMAIN e
    PROVE  [of |-> e.id, field |-> f, value |-> e[f]] \in FactsOf(S)
<1>1. PICK q \in Fact : q.of = e.id /\ q.field = f /\ q.value = e[f]
                       /\ q = [of |-> e.id, field |-> f, value |-> e[f]]
  <2>1. e.id \in Ids /\ f \in {"id"} \cup Fields /\ e[f] \in Ids \cup Values
    BY EventIs
  <2> QED
    BY <2>1 DEF Fact
<1> QED
  BY <1>1 DEF FactsOf

LEMMA TellsFacts ==
    ASSUME NEW S \in SUBSET Event, NEW x, NEW f
    PROVE  Tells(S, x, f) <=> \E q \in FactsOf(S) : q.of = x /\ q.field = f
<1>1. ASSUME NEW e \in S, e.id = x, f \in DOMAIN e
      PROVE  \E q \in FactsOf(S) : q.of = x /\ q.field = f
  <2>1. [of |-> e.id, field |-> f, value |-> e[f]] \in FactsOf(S)
    BY <1>1, EventFact
  <2> QED
    BY <1>1, <2>1
<1> QED
  BY <1>1 DEF Tells, FactsOf

LEMMA FactsWithin ==
    ASSUME NEW S \in SUBSET Event, NEW T \in SUBSET Event, Single(T),
           FactsOf(S) \subseteq FactsOf(T), NEW e \in S
    PROVE  \E t \in T : t.id = e.id /\ Repeats(t, e)
<1>1. "id" \in DOMAIN e
  BY EventIs
<1>2. \A f \in DOMAIN e : \E t \in T : t.id = e.id /\ f \in DOMAIN t /\ t[f] = e[f]
  <2> SUFFICES ASSUME NEW f \in DOMAIN e
               PROVE  \E t \in T : t.id = e.id /\ f \in DOMAIN t /\ t[f] = e[f]
    OBVIOUS
  <2>1. PICK q \in FactsOf(T) : q.of = e.id /\ q.field = f /\ q.value = e[f]
    <3>1. [of |-> e.id, field |-> f, value |-> e[f]] \in FactsOf(T)
      BY EventFact
    <3> QED
      BY <3>1
  <2> QED
    BY <2>1 DEF FactsOf
<1>3. PICK t \in T : t.id = e.id
  BY <1>1, <1>2
<1>4. \A f \in DOMAIN e : f \in DOMAIN t /\ t[f] = e[f]
  BY <1>2, <1>3 DEF Single
<1> QED
  BY <1>3, <1>4 DEF Repeats

\* Sets that have each event once and say the same have the same events.
LEMMA FactsTell ==
    ASSUME NEW S \in SUBSET Event, NEW T \in SUBSET Event, Single(S), Single(T),
           FactsOf(S) = FactsOf(T)
    PROVE  S = T
<1>1. ASSUME NEW U \in SUBSET Event, NEW V \in SUBSET Event, Single(U), Single(V),
             FactsOf(U) = FactsOf(V), NEW e \in U
      PROVE  e \in V
  <2>1. PICK t \in V : t.id = e.id /\ Repeats(t, e)
    BY <1>1, FactsWithin
  <2>2. PICK u \in U : u.id = t.id /\ Repeats(u, t)
    BY <1>1, FactsWithin
  <2>3. u = e
    BY <1>1, <2>1, <2>2 DEF Single
  <2>4. DOMAIN t = DOMAIN e /\ \A f \in DOMAIN e : t[f] = e[f]
    BY <2>1, <2>2, <2>3 DEF Repeats
  <2>5. t = [f \in DOMAIN t |-> t[f]] /\ e = [f \in DOMAIN e |-> e[f]]
    BY <1>1, EventIs
  <2>6. t = e
    BY <2>4, <2>5
  <2> QED
    BY <2>6
<1> QED
  BY <1>1

\* A join says what the new list says, and of what that does not speak of, what the
\* old one said.
LEMMA FactsJoined ==
    ASSUME NEW old \in DistinctLists, NEW new \in DistinctLists
    PROVE  FactsOf(Joined(old, new)) =
              FactsOf(ToSet(new)) \cup
              {q \in FactsOf(ToSet(old)) : ~Tells(ToSet(new), q.of, q.field)}
<1> DEFINE J == Joined(old, new)
           N == ToSet(new)
           O == ToSet(old)
           says(S, q) == \E e \in S : e.id = q.of /\ q.field \in DOMAIN e
                                      /\ e[q.field] = q.value
<1>1. N \subseteq Event /\ O \subseteq Event
  BY ListIs
<1>10. \A x : x \in IdsOf(new) <=> \E e \in N : e.id = x
  BY ListIs
<1>2. \A e \in N : Updated(old, e) \in J
  BY DEF Joined
<1>3. \A o \in O : (~\E e \in N : e.id = o.id) => o \in J
  BY <1>10 DEF Joined
<1>4. ASSUME NEW u \in J
      PROVE  \/ \E e \in N : u = Updated(old, e)
             \/ u \in O /\ ~\E e \in N : e.id = u.id
  <2>1. u \in {Updated(old, e) : e \in N} \/ (u \in O /\ u.id \notin IdsOf(new))
    BY DEF Joined
  <2> QED
    BY <1>10, <2>1
<1>5. ASSUME NEW e \in N, NEW o \in O, o.id = e.id
      PROVE  /\ Updated(old, e).id = e.id
             /\ DOMAIN Updated(old, e) = DOMAIN e \cup DOMAIN o
             /\ \A f \in DOMAIN e : Updated(old, e)[f] = e[f]
             /\ \A f \in DOMAIN o \ DOMAIN e : Updated(old, e)[f] = o[f]
  <2>1. e \in Event /\ o \in Event /\ o \in ToSet(old)
    BY <1>1
  <2>2. Updated(old, e) = Over(e, o)
    BY <1>5, <2>1, UpdatedIs
  <2>3. /\ Over(e, o).id = e.id
        /\ DOMAIN Over(e, o) = DOMAIN e \cup DOMAIN o
        /\ \A f \in DOMAIN e : Over(e, o)[f] = e[f]
        /\ \A f \in DOMAIN o \ DOMAIN e : Over(e, o)[f] = o[f]
    BY <1>5, <2>1, OverIs
  <2> QED
    BY <2>2, <2>3
<1>6. ASSUME NEW e \in N, ~\E o \in O : o.id = e.id
      PROVE  Updated(old, e) = e
  BY <1>1, <1>6, UpdatedIs, ListIs
<1>7. Single(N) /\ Single(O)
  BY ListIs
<1> HIDE DEF J, N, O
<1>8. ASSUME NEW q \in Fact
      PROVE  says(J, q) <=> says(N, q) \/ (says(O, q) /\ ~Tells(N, q.of, q.field))
  <2>1. ASSUME NEW u \in J, u.id = q.of, q.field \in DOMAIN u, u[q.field] = q.value
        PROVE  says(N, q) \/ (says(O, q) /\ ~Tells(N, q.of, q.field))
    <3>1. CASE u \in O /\ ~\E e \in N : e.id = u.id
      BY <2>1, <3>1 DEF Tells
    <3>2. ASSUME NEW e \in N, u = Updated(old, e) PROVE says(N, q) \/ (says(O, q) /\ ~Tells(N, q.of, q.field))
      <4>1. CASE ~\E o \in O : o.id = e.id
        BY <1>6, <2>1, <3>2, <4>1
      <4>2. ASSUME NEW o \in O, o.id = e.id PROVE says(N, q) \/ (says(O, q) /\ ~Tells(N, q.of, q.field))
        <5>1. e.id = q.of
          BY <1>5, <2>1, <3>2, <4>2
        <5>2. CASE q.field \in DOMAIN e
          BY <1>5, <2>1, <3>2, <4>2, <5>1, <5>2
        <5>3. CASE q.field \notin DOMAIN e
          <6>1. q.field \in DOMAIN o /\ o[q.field] = q.value
            BY <1>5, <2>1, <3>2, <4>2, <5>3
          <6>2. ~Tells(N, q.of, q.field)
            BY <1>7, <5>1, <5>3 DEF Tells, Single
          <6> QED
            BY <4>2, <5>1, <6>1, <6>2
        <5> QED
          BY <5>2, <5>3
      <4> QED
        BY <4>1, <4>2
    <3> QED
      BY <1>4, <3>1, <3>2
  <2>2. ASSUME NEW e \in N, e.id = q.of, q.field \in DOMAIN e, e[q.field] = q.value
        PROVE  says(J, q)
    <3>1. CASE ~\E o \in O : o.id = e.id
      BY <1>2, <1>6, <2>2, <3>1
    <3>2. ASSUME NEW o \in O, o.id = e.id PROVE says(J, q)
      BY <1>2, <1>5, <2>2, <3>2
    <3> QED
      BY <3>1, <3>2
  <2>3. ASSUME NEW o \in O, o.id = q.of, q.field \in DOMAIN o, o[q.field] = q.value,
               ~Tells(N, q.of, q.field)
        PROVE  says(J, q)
    <3>1. CASE ~\E e \in N : e.id = o.id
      BY <1>3, <2>3, <3>1
    <3>2. ASSUME NEW e \in N, e.id = o.id PROVE says(J, q)
      <4>1. q.field \notin DOMAIN e
        BY <2>3, <3>2 DEF Tells
      <4>2. PICK u \in J : u = Updated(old, e)
        BY <1>2, <3>2
      <4>3. u.id = e.id /\ q.field \in DOMAIN u /\ u[q.field] = o[q.field]
        <5>1. o.id = e.id /\ q.field \in DOMAIN o \ DOMAIN e
          BY <2>3, <3>2, <4>1
        <5>2. /\ Updated(old, e).id = e.id
              /\ DOMAIN Updated(old, e) = DOMAIN e \cup DOMAIN o
              /\ Updated(old, e)[q.field] = o[q.field]
          BY <1>5, <5>1
        <5> QED
          BY <4>2, <5>1, <5>2
      <4> QED
        BY <2>3, <3>2, <4>2, <4>3
    <3> QED
      BY <3>1, <3>2
  <2> QED
    BY <2>1, <2>2, <2>3
<1>9. \A q : q \in FactsOf(J) <=>
              q \in FactsOf(N) \/ (q \in FactsOf(O) /\ ~Tells(N, q.of, q.field))
  BY <1>8 DEF FactsOf
<1> QED
  BY <1>9 DEF J, N, O

-----------------------------------------------------------------------------
(* Merging *)

\* Retained projections, and those observed, list every event once.
Kept == Projections(DistinctLists)

LEMMA ObservedKept == Projection \subseteq Kept
<1>1. Lists \subseteq DistinctLists
  <2> SUFFICES ASSUME NEW n \in 0..Cardinality(Ids), NEW s \in [1..n -> Event],
                      \A i, j \in 1..n : i # j => s[i].id # s[j].id
               PROVE  s \in DistinctLists
    BY DEF Lists
  <2>1. Cardinality(Ids) \in Nat
    BY RuntimeAssumption, FS_CardinalityType
  <2>2. n \in Nat /\ s \in Seq(Event) /\ DOMAIN s = 1..n
    BY <2>1
  <2> QED
    BY <2>2 DEF DistinctLists, Distinct
<1> QED
  BY <1>1 DEF Projection, Kept, Projections

LEMMA EmptyList == <<>> \in DistinctLists /\ ToSet(<<>>) = {} /\ IdsOf(<<>>) = {}
BY DEF DistinctLists, Distinct, ToSet, IdsOf

LEMMA KeptShape ==
    ASSUME NEW r \in Kept
    PROVE  /\ r # None
           /\ r.events \in DistinctLists
           /\ r.lists \in BOOLEAN /\ r.replaces \in BOOLEAN /\ r.rest \in Rests
           /\ ~r.lists => r.events = <<>> /\ ~r.replaces
           /\ r = [lists |-> r.lists, events |-> r.events, replaces |-> r.replaces,
                   rest |-> r.rest]
<1>1. "lists" \in DOMAIN r /\ "lists" \notin DOMAIN None
  BY DEF Kept, Projections, None
<1> QED
  BY <1>1, EmptyList DEF Kept, Projections

\* What a merge with a part of the set comes to.
LEMMA PartialMerge ==
    ASSUME NEW old \in Kept, NEW new \in Kept, new.lists, ~new.replaces
    PROVE  /\ Merge(old, new) \in Kept
           /\ Merge(old, new).rest = new.rest
           /\ Merge(old, new).lists /\ ~Merge(old, new).replaces
           /\ Merge(old, new).events = Sorted(Joined(old.events, new.events))
           /\ ToSet(Merge(old, new).events) = Joined(old.events, new.events)
           /\ IdsOf(Merge(old, new).events) = IdsOf(new.events) \cup IdsOf(old.events)
<1>1. old # None /\ old.events \in DistinctLists /\ new.events \in DistinctLists
  BY KeptShape
<1>2. PICK s : s = Sorted(Joined(old.events, new.events))
  OBVIOUS
<1>3. /\ s \in DistinctLists
      /\ ToSet(s) = Joined(old.events, new.events)
      /\ IdsOf(s) = IdsOf(new.events) \cup IdsOf(old.events)
  BY <1>1, <1>2, SortedJoined
<1>4. PICK e \in DistinctLists, t \in Rests :
        new = [lists |-> TRUE, events |-> e, replaces |-> FALSE, rest |-> t]
  BY DEF Kept, Projections
<1>5. Merge(old, new) = [lists |-> TRUE, events |-> s, replaces |-> FALSE, rest |-> t]
  <2>1. Merge(old, new) = [new EXCEPT !.events = s]
    BY <1>1, <1>2 DEF Merge
  <2> QED
    BY <1>4, <2>1
<1>6. [lists |-> TRUE, events |-> s, replaces |-> FALSE, rest |-> t] \in Kept
  BY <1>3 DEF Kept, Projections
<1>7. /\ Merge(old, new).rest = t /\ new.rest = t
      /\ Merge(old, new).lists = TRUE /\ Merge(old, new).replaces = FALSE
      /\ Merge(old, new).events = s
  BY <1>4, <1>5
<1> QED
  BY <1>2, <1>3, <1>5, <1>6, <1>7

\* Any other observation replaces what was retained.
LEMMA OtherMerge ==
    ASSUME NEW old, NEW new, old = None \/ new.replaces \/ ~new.lists
    PROVE  Merge(old, new) = new
BY DEF Merge

LEMMA MergeIs ==
    ASSUME NEW old \in Kept \cup {None}, NEW new \in Kept
    PROVE  Merge(old, new) \in Kept /\ Merge(old, new).rest = new.rest
<1>1. CASE old = None \/ new.replaces \/ ~new.lists
  BY <1>1, OtherMerge
<1>2. CASE ~(old = None \/ new.replaces \/ ~new.lists)
  BY <1>2, PartialMerge
<1> QED
  BY <1>1, <1>2

LEMMA StoredIs ==
    ASSUME NEW p, NEW k, NEW new \in Kept, mine[p].projections[k] \in Kept \cup {None}
    PROVE  /\ Stored(p, k, new) \in Kept
           /\ Stored(p, k, new) = Merge(mine[p].projections[k], new)
           /\ Stored(p, k, new).rest = new.rest
           /\ Changes(p, k, new) <=> Stored(p, k, new) # mine[p].projections[k]
BY MergeIs DEF Stored, Changes, SemanticallyEqual

-----------------------------------------------------------------------------
(* Type correctness, and every event once *)

KeptState == [projections : [Keys -> Kept \cup {None}],
              descriptors : [Services -> Gateways \cup {Unknown}],
              relays      : SUBSET Relays]

\* The type invariant with lists that have each event once.
StoreInv ==
    /\ TypeOK
    /\ file \in KeptState
    /\ mine \in [Procs -> KeptState]

LEMMA KeptStateIsState == KeptState \subseteq State
<1>1. DistinctLists \subseteq Seq(Event)
  BY DEF DistinctLists
<1>2. Kept \subseteq Projections(Seq(Event))
  BY <1>1 DEF Kept, Projections
<1> QED
  BY <1>2 DEF KeptState, State

LEMMA EmptyIsKept == Empty \in KeptState
BY DEF Empty, KeptState

LEMMA InitStore == Init => StoreInv
BY EmptyIsKept, KeptStateIsState DEF Init, StoreInv, TypeOK

LEMMA OpenStore == ASSUME StoreInv, NEW p \in Procs, Open(p) PROVE StoreInv'
BY DEF StoreInv, TypeOK, Open

LEMMA RememberStore ==
    ASSUME StoreInv, NEW p \in Procs, NEW s \in Services, NEW g \in Gateways,
           RememberDescriptor(p, s, g)
    PROVE  StoreInv'
<1>1. mine[p] \in KeptState
  BY DEF StoreInv
<1>2. [mine[p] EXCEPT !.descriptors[s] = g] \in KeptState
  BY <1>1 DEF KeptState
<1>3. mine' = [mine EXCEPT ![p] = [mine[p] EXCEPT !.descriptors[s] = g]]
  BY DEF RememberDescriptor
<1>4. mine' \in [Procs -> KeptState]
  BY <1>2, <1>3 DEF StoreInv
<1> QED
  BY <1>4, KeptStateIsState DEF StoreInv, TypeOK, RememberDescriptor

LEMMA ProjectionStore ==
    ASSUME StoreInv, NEW p \in Procs, NEW k \in Keys, NEW new \in Projection,
           StoreProjection(p, k, new)
    PROVE  /\ StoreInv'
           /\ mine' = [mine EXCEPT ![p] =
                [mine[p] EXCEPT !.projections =
                    [mine[p].projections EXCEPT ![k] = Stored(p, k, new)]]]
<1>1. mine[p] \in KeptState /\ new \in Kept
  BY ObservedKept DEF StoreInv
<1>2. mine[p].projections[k] \in Kept \cup {None}
  BY <1>1 DEF KeptState
<1>3. PICK v \in Kept : v = Stored(p, k, new)
  BY <1>1, <1>2, StoredIs
<1>4. mine' = [mine EXCEPT ![p] =
         [mine[p] EXCEPT !.projections = [mine[p].projections EXCEPT ![k] = v]]]
  BY <1>3 DEF StoreProjection
<1>5. [mine[p] EXCEPT !.projections = [mine[p].projections EXCEPT ![k] = v]] \in KeptState
  BY <1>1 DEF KeptState
<1>6. mine' \in [Procs -> KeptState]
  BY <1>4, <1>5 DEF StoreInv
<1>7. replaced' \in [Procs -> SUBSET Keys]
  BY DEF StoreInv, TypeOK, StoreProjection
<1> QED
  BY <1>3, <1>4, <1>6, <1>7, KeptStateIsState DEF StoreInv, TypeOK, StoreProjection

LEMMA EndStore ==
    ASSUME StoreInv, NEW p \in Procs, NEW left \in KeptState, NEW cut \in BOOLEAN,
           End(p, left, cut)
    PROVE  StoreInv'
<1>1. mine' \in [Procs -> KeptState] /\ file' \in KeptState
  BY EmptyIsKept DEF End, StoreInv
<1>2. missed' \in [Procs -> SUBSET Keys]
  BY DEF End, StoreInv, TypeOK
<1> QED
  BY <1>1, <1>2, KeptStateIsState DEF StoreInv, TypeOK, End

LEMMA EndsStore ==
    ASSUME StoreInv, NEW p \in Procs, Save(p) \/ Fails(p) \/ Tears(p)
    PROVE  StoreInv'
BY EndStore, EmptyIsKept DEF Save, Fails, Tears, StoreInv, TypeOK

LEMMA StoreInvAlways == Spec => []StoreInv
<1>1. StoreInv /\ [Next]_vars => StoreInv'
  <2> SUFFICES ASSUME StoreInv, [Next]_vars PROVE StoreInv'
    OBVIOUS
  <2>1. CASE UNCHANGED vars
    BY <2>1 DEF vars, StoreInv, TypeOK
  <2>2. CASE Next
    BY <2>2, OpenStore, EndsStore, ProjectionStore DEF Next
  <2> QED
    BY <2>1, <2>2
<1> QED
  BY <1>1, InitStore, PTL DEF Spec

\* Files and copies keep to their types through every sequence of commands.
THEOREM StoreTypeCorrect == Spec => []TypeOK
<1>1. StoreInv => TypeOK
  BY DEF StoreInv
<1> QED
  BY <1>1, StoreInvAlways, PTL

LEMMA KeptOnce == StoreInv => OneEntryPerEvent
<1> SUFFICES ASSUME StoreInv, NEW p \in Procs, NEW k \in Keys,
                    mine[p].projections[k] # None
             PROVE  Cardinality(IdsOf(mine[p].projections[k].events))
                      = Len(mine[p].projections[k].events)
  BY DEF OneEntryPerEvent
<1>1. mine[p].projections[k] \in Kept
  BY DEF StoreInv, KeptState
<1> QED
  BY <1>1, KeptShape, ListCount DEF DistinctLists

\* However often and in whatever order services send their events, a retained
\* projection lists each once.
THEOREM EventsOnce == Spec => []OneEntryPerEvent
BY KeptOnce, StoreInvAlways, PTL

-----------------------------------------------------------------------------
(* What a merge keeps, and what the observer hears of it *)

\* A join keeps every old event, with the fields it had.
LEMMA JoinedKeeps ==
    ASSUME NEW old \in DistinctLists, NEW new \in DistinctLists, NEW o \in ToSet(old)
    PROVE  \E e \in Joined(old, new) : e.id = o.id /\ DOMAIN o \subseteq DOMAIN e
<1>1. o \in Event /\ ToSet(new) \subseteq Event
  BY ListIs
<1>2. CASE o.id \notin IdsOf(new)
  BY <1>2 DEF Joined
<1>3. CASE o.id \in IdsOf(new)
  <2>1. PICK e \in ToSet(new) : e.id = o.id
    BY <1>3, ListIs
  <2>2. Updated(old, e) = Over(e, o) /\ Updated(old, e) \in Joined(old, new)
    BY <1>1, <2>1, UpdatedIs DEF Joined
  <2>3. Over(e, o).id = o.id /\ DOMAIN o \subseteq DOMAIN Over(e, o)
    BY <1>1, <2>1, OverIs
  <2> QED
    BY <2>2, <2>3
<1> QED
  BY <1>2, <1>3

\* A stored projection that does not claim to be the whole set drops no event, nor a
\* field of one.
LEMMA PartialStored ==
    ASSUME StoreInv, NEW q \in Procs, NEW l \in Keys, NEW new \in Projection,
           StoreProjection(q, l, new),
           NEW p \in Procs, NEW k \in Keys, Stores(p, k), mine[p].projections[k] # None,
           mine'[p].projections[k].lists, ~mine'[p].projections[k].replaces
    PROVE  KeepsEvents(mine[p].projections[k].events, mine'[p].projections[k].events)
<1> DEFINE old == mine[p].projections[k]
<1>1. old \in Kept /\ mine \in [Procs -> KeptState]
  BY DEF StoreInv, KeptState
<1>2. mine' = [mine EXCEPT ![q] = [mine[q] EXCEPT !.projections =
                  [mine[q].projections EXCEPT ![l] = Stored(q, l, new)]]]
  BY ProjectionStore
<1>3. q = p /\ l = k /\ mine'[p].projections[k] = Stored(p, k, new)
  BY <1>1, <1>2 DEF Stores, KeptState
<1>4. new \in Kept
  BY ObservedKept
<1>5. Stored(p, k, new) = Merge(old, new)
  BY <1>1, <1>4, StoredIs
<1>6. Merge(old, new).lists /\ ~Merge(old, new).replaces
  BY <1>3, <1>5
<1>7. new.lists /\ ~new.replaces
  BY <1>6, OtherMerge
<1>8. ToSet(Merge(old, new).events) = Joined(old.events, new.events)
  BY <1>1, <1>4, <1>7, PartialMerge
<1>9. KeepsEvents(old.events, Merge(old, new).events)
  BY <1>1, <1>4, <1>8, KeptShape, JoinedKeeps DEF KeepsEvents
<1> QED
  BY <1>3, <1>5, <1>9

LEMMA PartialStep ==
    ASSUME StoreInv, [Next]_vars, NEW p \in Procs, NEW k \in Keys, Stores(p, k),
           mine[p].projections[k] # None,
           mine'[p].projections[k].lists, ~mine'[p].projections[k].replaces
    PROVE  KeepsEvents(mine[p].projections[k].events, mine'[p].projections[k].events)
<1>1. PICK q \in Procs, l \in Keys, new \in Projection : StoreProjection(q, l, new)
  BY DEF Stores, Next, vars, Open, Save, Fails, Tears, End, StoreInv, TypeOK
<1> QED
  BY <1>1, PartialStored

\* For any projections: a part of the set takes no event, and no field of one, from
\* what is retained.
THEOREM PartialSound == Spec => PartialKeepsEvents
<1>1. StoreInv /\ [Next]_vars =>
        [\A p \in Procs, k \in Keys :
            LET old == mine[p].projections[k]
                new == mine'[p].projections[k]
            IN  Stores(p, k) /\ old # None /\ new.lists /\ ~new.replaces
                => KeepsEvents(old.events, new.events)]_vars
  BY PartialStep
<1> QED
  BY <1>1, StoreInvAlways, PTL DEF Spec, PartialKeepsEvents

\* What the update counts, against the events that are new in what is retained.
CountsNew(old, new) ==
    LET told  == ChangedCount(old, new)
        known == IF old = None THEN {} ELSE IdsOf(old.events)
        now   == IdsOf(Merge(old, new).events)
    IN
    (old # None => old.lists) /\ new.lists =>
        /\ told <= Cardinality(now \ known)
        /\ known \subseteq now => told = Cardinality(now \ known)

LEMMA CountIs ==
    ASSUME NEW old \in Kept \cup {None}, NEW new \in Kept
    PROVE  CountsNew(old, new)
<1> SUFFICES ASSUME old # None => old.lists, new.lists,
                    NEW known, known = IF old = None THEN {} ELSE IdsOf(old.events),
                    NEW now, now = IdsOf(Merge(old, new).events)
             PROVE  /\ ChangedCount(old, new) <= Cardinality(now \ known)
                    /\ known \subseteq now
                         => ChangedCount(old, new) = Cardinality(now \ known)
  BY DEF CountsNew
<1>1. PICK m \in Kept : m = Merge(old, new)
  BY MergeIs
<1>2. m.lists
  <2>1. CASE old = None \/ new.replaces
    BY <1>1, <2>1, OtherMerge
  <2>2. CASE ~(old = None \/ new.replaces)
    BY <1>1, <2>2, PartialMerge
  <2> QED
    BY <2>1, <2>2
<1>3. IsFiniteSet(now) /\ Cardinality(now) = PayloadCount(m)
  <2>1. m.events \in Seq(Event) /\ Distinct(m.events)
    BY KeptShape DEF DistinctLists
  <2> QED
    BY <1>1, <1>2, <2>1, ListCount DEF PayloadCount
<1>4. PICK before : before = IF old = None THEN 0 ELSE PayloadCount(old)
  OBVIOUS
<1>5. IsFiniteSet(known) /\ Cardinality(known) = before
  <2>1. CASE old = None
    BY <1>4, <2>1, FS_EmptySet
  <2>2. CASE old # None
    <3>1. old.events \in Seq(Event) /\ Distinct(old.events) /\ old.lists
      BY <2>2, KeptShape DEF DistinctLists
    <3> QED
      BY <1>4, <2>2, <3>1, ListCount DEF PayloadCount
  <2> QED
    BY <2>1, <2>2
<1>6. PICK told : told = ChangedCount(old, new)
  OBVIOUS
<1>7. told = IF Cardinality(now) > Cardinality(known)
             THEN Cardinality(now) - Cardinality(known) ELSE 0
  BY <1>1, <1>3, <1>4, <1>5, <1>6 DEF ChangedCount
<1>8. /\ Cardinality(now \ known) = Cardinality(now) - Cardinality(now \cap known)
      /\ IsFiniteSet(now \ known)
  BY <1>3, FS_Difference
<1>9. /\ IsFiniteSet(now \cap known)
      /\ Cardinality(now \cap known) <= Cardinality(known)
  <2>1. now \cap known \in SUBSET known
    OBVIOUS
  <2> QED
    BY <1>5, <2>1, FS_Subset
<1>10. /\ Cardinality(now) \in Nat /\ Cardinality(known) \in Nat
       /\ Cardinality(now \cap known) \in Nat /\ Cardinality(now \ known) \in Nat
  BY <1>3, <1>5, <1>8, <1>9, FS_CardinalityType
<1>11. told <= Cardinality(now \ known)
  BY <1>7, <1>8, <1>9, <1>10
<1>12. ASSUME known \subseteq now PROVE told = Cardinality(now \ known)
  <2>1. now \cap known = known
    BY <1>12
  <2>2. Cardinality(now \ known) = Cardinality(now) - Cardinality(known)
    BY <1>8, <2>1
  <2>3. ASSUME NEW a \in Nat, NEW b \in Nat, NEW c \in Nat, c = a - b
        PROVE  (IF a > b THEN a - b ELSE 0) = c
    BY <2>3
  <2> QED
    BY <1>7, <1>10, <2>2, <2>3
<1> QED
  BY <1>6, <1>11, <1>12

LEMMA KeptCount == StoreInv => UpdateCountsNewEvents
<1> SUFFICES ASSUME StoreInv, NEW p \in Procs, NEW k \in Keys, NEW new \in Projection
             PROVE  CountsNew(mine[p].projections[k], new)
  BY DEF UpdateCountsNewEvents, CountsNew
<1>1. mine[p].projections[k] \in Kept \cup {None} /\ new \in Kept
  BY ObservedKept DEF StoreInv, KeptState
<1> QED
  BY <1>1, CountIs

\* For any projections, those that replace the set too: the observer is never told of
\* more events than are new, and of exactly those where none was dropped.
THEOREM CountSound == Spec => []UpdateCountsNewEvents
BY KeptCount, StoreInvAlways, PTL

-----------------------------------------------------------------------------
(* What is taken for a refresh *)

\* As many come before the i-th of a sorted sequence as stand before it.
LEMMA PlaceInSequence ==
    ASSUME NEW s \in Seq(Event), NewestFirst(s), NEW i \in 1..Len(s)
    PROVE  Cardinality(Earlier(ToSet(s), s[i])) = i - 1
<1> DEFINE n == i - 1
           E == Earlier(ToSet(s), s[i])
           f == [j \in 1..n |-> s[j]]
<1>1. n \in Nat /\ \A j \in 1..n : j \in 1..Len(s) /\ j < i /\ s[j] \in Event
  OBVIOUS
<1>2. \A j, k \in 1..Len(s) : j < k => Before(s[j], s[k])
  BY DEF NewestFirst
<1>3. \A j \in 1..n : s[j] \in E
  BY <1>1, <1>2 DEF Earlier, ToSet
<1>4. \A e \in E : \E j \in 1..n : s[j] = e
  <2> SUFFICES ASSUME NEW e \in E PROVE \E j \in 1..n : s[j] = e
    OBVIOUS
  <2>1. PICK j \in 1..Len(s) : s[j] = e
    BY DEF Earlier, ToSet
  <2>2. Before(s[j], s[i])
    BY <2>1 DEF Earlier
  <2>3. s[j] \in Event /\ s[i] \in Event
    BY <2>1
  <2>4. ~(i < j) /\ j # i
    BY <1>2, <2>2, <2>3, BeforeOrders
  <2>5. j \in 1..n
    BY <2>4
  <2> QED
    BY <2>1, <2>5
<1>5. \A j, k \in 1..n : s[j] = s[k] => j = k
  <2> SUFFICES ASSUME NEW j \in 1..n, NEW k \in 1..n, s[j] = s[k], j < k PROVE FALSE
    OBVIOUS
  <2>1. Before(s[j], s[k]) /\ s[j] \in Event
    BY <1>1, <1>2
  <2> QED
    BY <2>1, BeforeOrders
<1>6. f \in Bijection(1..n, E)
  <2> HIDE DEF n, E
  <2>1. f \in [1..n -> E] /\ \A j \in 1..n : f[j] = s[j]
    BY <1>3
  <2> QED
    BY <2>1, <1>4, <1>5, Fun_IsBij
<1>7. IsFiniteSet(1..n) /\ Cardinality(1..n) = n
  <2> HIDE DEF n
  <2> QED
    BY <1>1, FS_Interval
<1> QED
  <2>1. ExistsBijection(1..n, E)
    BY <1>6 DEF ExistsBijection
  <2>2. Cardinality(E) = Cardinality(1..n)
    BY <1>7, <2>1, FS_Bijection
  <2> QED
    BY <1>7, <2>2

\* A sequence that is sorted is what sorting its events makes.
LEMMA SortedUnique ==
    ASSUME NEW s \in DistinctLists, NewestFirst(s)
    PROVE  Sorted(ToSet(s)) = s
<1> DEFINE S == ToSet(s)
<1>1. S \in SUBSET Event /\ IsFiniteSet(S) /\ Single(S) /\ s \in Seq(Event)
  BY ListIs DEF DistinctLists
<1>2. PICK t \in Seq(Event) : t = Sorted(S) /\ NewestFirst(t) /\ ToSet(t) = S
  BY <1>1, SortedIs
<1>3. \A u, v \in Seq(Event) :
        NewestFirst(u) /\ NewestFirst(v) /\ ToSet(u) = ToSet(v)
        => \A i \in 1..Len(u) : i \in 1..Len(v) /\ u[i] = v[i]
  <2> SUFFICES ASSUME NEW u \in Seq(Event), NEW v \in Seq(Event),
                      NewestFirst(u), NewestFirst(v), ToSet(u) = ToSet(v),
                      NEW i \in 1..Len(u)
               PROVE  i \in 1..Len(v) /\ u[i] = v[i]
    OBVIOUS
  <2>1. PICK j \in 1..Len(v) : v[j] = u[i]
    <3>1. u[i] \in ToSet(u)
      BY DEF ToSet
    <3>2. u[i] \in ToSet(v)
      BY <3>1
    <3> QED
      BY <3>2 DEF ToSet
  <2>2. i - 1 = Cardinality(Earlier(ToSet(u), u[i]))
    BY PlaceInSequence
  <2>3. j - 1 = Cardinality(Earlier(ToSet(v), v[j]))
    BY PlaceInSequence
  <2>4. i = j
    BY <2>1, <2>2, <2>3
  <2> QED
    BY <2>1, <2>4
<1>4. \A i \in 1..Len(s) : i \in 1..Len(t) /\ s[i] = t[i]
  BY <1>1, <1>2, <1>3
<1>5. \A i \in 1..Len(t) : i \in 1..Len(s)
  BY <1>1, <1>2, <1>3
<1>6. Len(s) = Len(t)
  BY <1>1, <1>4, <1>5
<1> QED
  BY <1>1, <1>2, <1>4, <1>6

\* All that new says is said in old.
AllKnown(old, new) == \A e \in ToSet(new) : \E o \in ToSet(old) : Repeats(o, e)

LEMMA KnownJoined ==
    ASSUME NEW old \in DistinctLists, NEW new \in DistinctLists, AllKnown(old, new)
    PROVE  Joined(old, new) = ToSet(old)
<1>1. ToSet(old) \subseteq Event /\ ToSet(new) \subseteq Event
  BY ListIs
<1>2. ASSUME NEW e \in ToSet(new), NEW o \in ToSet(old), o.id = e.id
      PROVE  Updated(old, e) = o
  <2>1. PICK x \in ToSet(old) : Repeats(x, e)
    BY <1>2 DEF AllKnown
  <2>2. x.id = e.id
    BY <1>1, <2>1, EventIs DEF Repeats
  <2>3. x = o
    BY <1>2, <2>2, ListIs DEF Single
  <2>4. DOMAIN e \subseteq DOMAIN o /\ \A f \in DOMAIN e : e[f] = o[f]
    BY <2>1, <2>3 DEF Repeats
  <2>5. Over(e, o) = [f \in DOMAIN o |-> o[f]]
    BY <2>4 DEF Over
  <2> QED
    BY <1>1, <1>2, <2>5, EventIs, UpdatedIs
<1>3. \A e \in ToSet(new) : \E o \in ToSet(old) : o.id = e.id
  BY <1>1, EventIs DEF AllKnown, Repeats
<1>4. \A o \in ToSet(old) : o.id \in IdsOf(new) => \E e \in ToSet(new) : Updated(old, e) = o
  BY <1>2, ListIs
<1> QED
  BY <1>2, <1>3, <1>4 DEF Joined

\* What new says is said in the join.
LEMMA JoinedSays ==
    ASSUME NEW old \in DistinctLists, NEW new \in DistinctLists, NEW e \in ToSet(new)
    PROVE  \E u \in Joined(old, new) : Repeats(u, e)
<1>1. e \in Event /\ ToSet(old) \subseteq Event
  BY ListIs
<1>2. Updated(old, e) \in Joined(old, new)
  BY DEF Joined
<1>3. Repeats(Updated(old, e), e)
  <2>1. CASE e.id \notin IdsOf(old)
    BY <1>1, <2>1, UpdatedIs DEF Repeats
  <2>2. CASE e.id \in IdsOf(old)
    <3>1. PICK o \in ToSet(old) : o.id = e.id
      BY <2>2, ListIs
    <3>2. Updated(old, e) = Over(e, o)
      BY <1>1, <3>1, UpdatedIs
    <3>3. Repeats(Over(e, o), e)
      BY <1>1, <3>1, OverIs DEF Repeats
    <3> QED
      BY <3>2, <3>3
  <2> QED
    BY <2>1, <2>2
<1> QED
  BY <1>2, <1>3

\* What is silently taken for known is known.
LEMMA SilentIsKnown ==
    ASSUME NEW old \in Kept, NEW new \in Kept, new.lists, old = Merge(old, new)
    PROVE  old.rest = new.rest /\ AllKnown(old.events, new.events)
<1>1. CASE new.replaces
  BY <1>1, OtherMerge DEF AllKnown, Repeats
<1>2. CASE ~new.replaces
  <2>1. ToSet(old.events) = Joined(old.events, new.events) /\ old.rest = new.rest
    BY <1>2, PartialMerge
  <2> QED
    BY <2>1, KeptShape, JoinedSays DEF AllKnown
<1> QED
  BY <1>1, <1>2

\* What repeats a sorted part of the set is silently taken for known.
LEMMA KnownIsSilent ==
    ASSUME NEW old \in Kept, NEW new \in Kept, old.lists, new.lists,
           ~old.replaces, ~new.replaces, old.rest = new.rest,
           AllKnown(old.events, new.events), NewestFirst(old.events)
    PROVE  old = Merge(old, new)
<1>1. old.events \in DistinctLists /\ new.events \in DistinctLists
  BY KeptShape
<1>2. Sorted(Joined(old.events, new.events)) = old.events
  BY <1>1, KnownJoined, SortedUnique
<1>3. PICK m \in Kept : m = Merge(old, new) /\ m.lists /\ ~m.replaces
                          /\ m.rest = new.rest /\ m.events = old.events
  BY <1>2, PartialMerge
<1>4. m.lists = old.lists /\ m.replaces = old.replaces
  BY <1>3, KeptShape
<1>5. /\ m = [lists |-> m.lists, events |-> m.events, replaces |-> m.replaces, rest |-> m.rest]
      /\ old = [lists |-> old.lists, events |-> old.events, replaces |-> old.replaces,
                 rest |-> old.rest]
  BY KeptShape
<1> QED
  BY <1>3, <1>4, <1>5

LEMMA KeptRefresh == StoreInv => RefreshIsSilentAndOnlyRefresh
<1> SUFFICES ASSUME StoreInv, NEW p \in Procs, NEW k \in Keys, NEW new \in Projection,
                    NEW old, old = mine[p].projections[k], old # None, old.lists, new.lists
             PROVE  /\ old = Merge(old, new)
                       => old.rest = new.rest /\ AllKnown(old.events, new.events)
                    /\ /\ old.rest = new.rest
                       /\ AllKnown(old.events, new.events)
                       /\ NewestFirst(old.events) /\ ~old.replaces /\ ~new.replaces
                       => old = Merge(old, new)
  BY DEF RefreshIsSilentAndOnlyRefresh, SemanticallyEqual, AllKnown
<1>1. old \in Kept /\ new \in Kept
  BY ObservedKept DEF StoreInv, KeptState
<1> QED
  BY <1>1, SilentIsKnown, KnownIsSilent

\* For any projections: silence and knowing go together, once a list is sorted.
THEOREM RefreshSound == Spec => []RefreshIsSilentAndOnlyRefresh
BY KeptRefresh, StoreInvAlways, PTL

-----------------------------------------------------------------------------
(* Answers received twice, and in another order *)

\* What a merge made of lists is sorted.
LEMMA MergeSorts ==
    ASSUME NEW old \in Kept, NEW new \in Kept, new.lists, ~new.replaces
    PROVE  NewestFirst(Merge(old, new).events)
<1>1. old.events \in DistinctLists /\ new.events \in DistinctLists
  BY KeptShape
<1>2. NewestFirst(Sorted(Joined(old.events, new.events)))
  BY <1>1, JoinedIs, SortedIs
<1> QED
  BY <1>2, PartialMerge

\* For any retained projection: an answer received a second time changes nothing
\* that is retained, and so (Stored, Changes) passes for a refresh.  The first
\* answer of all is retained as it came; received again it changes nothing when it
\* came sorted, or is no part of a set.
THEOREM MergeAgain ==
    ASSUME NEW old \in Kept \cup {None}, NEW new \in Kept,
           old = None /\ new.lists /\ ~new.replaces => NewestFirst(new.events)
    PROVE  Merge(Merge(old, new), new) = Merge(old, new)
<1>1. CASE new.replaces \/ ~new.lists
  BY <1>1, OtherMerge
<1>2. CASE new.lists /\ ~new.replaces
  <2>1. PICK m \in Kept : /\ m = Merge(old, new)
                          /\ m.lists /\ ~m.replaces /\ m.rest = new.rest
                          /\ AllKnown(m.events, new.events)
                          /\ NewestFirst(m.events)
    <3>1. CASE old = None
      BY <1>2, <3>1, OtherMerge DEF AllKnown, Repeats
    <3>2. CASE old # None
      <4>1. old \in Kept
        BY <3>2
      <4>2. ToSet(Merge(old, new).events) = Joined(old.events, new.events)
        BY <1>2, <4>1, PartialMerge
      <4>3. AllKnown(Merge(old, new).events, new.events)
        BY <4>1, <4>2, KeptShape, JoinedSays DEF AllKnown
      <4> QED
        BY <1>2, <4>1, <4>3, PartialMerge, MergeSorts
    <3> QED
      BY <3>1, <3>2
  <2> QED
    BY <1>2, <2>1, KnownIsSilent
<1> QED
  BY <1>1, <1>2, KeptShape

\* No first answer under k that comes as an unsorted part of a set.
Settled(p, k, new) ==
    mine[p].projections[k] = None /\ new.lists /\ ~new.replaces => NewestFirst(new.events)

LEMMA StoredTwice ==
    ASSUME StoreInv, NEW p \in Procs, NEW k \in Keys, NEW new \in Projection,
           StoreProjection(p, k, new), Settled(p, k, new)
    PROVE  ~Changes(p, k, new)'
<1>1. /\ new \in Kept
      /\ mine \in [Procs -> KeptState]
      /\ mine[p].projections[k] \in Kept \cup {None}
  <2>1. mine[p] \in KeptState /\ mine \in [Procs -> KeptState]
    BY DEF StoreInv
  <2> QED
    BY <2>1, ObservedKept DEF KeptState
<1>2. mine'[p].projections[k] = Stored(p, k, new)
  <2>1. mine[p] \in KeptState
    BY <1>1
  <2> QED
    BY <1>1, <2>1, ProjectionStore DEF KeptState
<1>3. mine'[p].projections[k] = Merge(mine[p].projections[k], new)
  BY <1>1, <1>2, StoredIs
<1>4. Merge(mine'[p].projections[k], new) = mine'[p].projections[k]
  BY <1>1, <1>3, MergeAgain DEF Settled
<1> QED
  BY <1>4 DEF Changes, SemanticallyEqual

\* What the theorem below says of a step.
RedeliveryIsSilent ==
    \A p \in Procs, k \in Keys, new \in Projection :
        StoreProjection(p, k, new) /\ Settled(p, k, new) => ~Changes(p, k, new)'

\* However commands run: an answer a command has stored, and is sent again, it takes
\* for a refresh and its observer hears nothing of it.
THEOREM RedeliverySound == Spec => [][RedeliveryIsSilent]_vars
<1>1. StoreInv => [RedeliveryIsSilent]_vars
  BY StoredTwice DEF RedeliveryIsSilent
<1> QED
  BY <1>1, StoreInvAlways, PTL DEF Spec

\* Two lists that say the same of every field that both speak of.
Consistent(a, b) ==
    \A e \in ToSet(a), f \in ToSet(b) :
        e.id = f.id => \A x \in DOMAIN e \cap DOMAIN f : e[x] = f[x]

\* What the old list says of what neither other speaks of.
Older(old, a, b) ==
    {q \in FactsOf(ToSet(old)) :
        ~Tells(ToSet(a), q.of, q.field) /\ ~Tells(ToSet(b), q.of, q.field)}

LEMMA JoinedToNone ==
    ASSUME NEW a \in DistinctLists
    PROVE  Joined(<<>>, a) = ToSet(a)
<1>1. \A e \in ToSet(a) : Updated(<<>>, e) = e
  BY EmptyList DEF Updated
<1> QED
  BY <1>1, EmptyList DEF Joined

LEMMA JoinedTwiceIs ==
    ASSUME NEW old \in DistinctLists, NEW a \in DistinctLists, NEW b \in DistinctLists,
           Consistent(a, b), NEW s \in DistinctLists, ToSet(s) = Joined(old, a)
    PROVE  FactsOf(Joined(s, b)) =
              FactsOf(ToSet(a)) \cup FactsOf(ToSet(b)) \cup Older(old, a, b)
<1>1. \A q \in FactsOf(ToSet(a)) : Tells(ToSet(b), q.of, q.field) => q \in FactsOf(ToSet(b))
  BY DEF FactsOf, Tells, Consistent
<1>2. FactsOf(Joined(s, b)) = FactsOf(ToSet(b)) \cup
         {q \in FactsOf(Joined(old, a)) : ~Tells(ToSet(b), q.of, q.field)}
  BY FactsJoined
<1>3. FactsOf(Joined(old, a)) = FactsOf(ToSet(a)) \cup
         {q \in FactsOf(ToSet(old)) : ~Tells(ToSet(a), q.of, q.field)}
  BY FactsJoined
<1> QED
  BY <1>1, <1>2, <1>3 DEF Older

LEMMA JoinedEitherWay ==
    ASSUME NEW old \in DistinctLists, NEW a \in DistinctLists, NEW b \in DistinctLists,
           Consistent(a, b),
           NEW s \in DistinctLists, ToSet(s) = Joined(old, a),
           NEW t \in DistinctLists, ToSet(t) = Joined(old, b)
    PROVE  Joined(s, b) = Joined(t, a)
<1>1. Consistent(b, a)
  BY DEF Consistent
<1>2. FactsOf(Joined(s, b)) = FactsOf(ToSet(a)) \cup FactsOf(ToSet(b)) \cup Older(old, a, b)
  BY JoinedTwiceIs
<1>3. FactsOf(Joined(t, a)) = FactsOf(ToSet(b)) \cup FactsOf(ToSet(a)) \cup Older(old, b, a)
  BY <1>1, JoinedTwiceIs
<1>4. Older(old, a, b) = Older(old, b, a)
  BY DEF Older
<1>5. FactsOf(Joined(s, b)) = FactsOf(Joined(t, a))
  BY <1>2, <1>3, <1>4
<1> QED
  BY <1>5, JoinedIs, FactsTell

\* For any retained projection: two answers that are parts of one set, and say the
\* same of every field that both speak of, leave the same events in whichever order
\* they are received.
THEOREM MergesCommute ==
    ASSUME NEW old \in Kept \cup {None}, NEW a \in Kept, NEW b \in Kept,
           a.lists, ~a.replaces, b.lists, ~b.replaces, Consistent(a.events, b.events)
    PROVE  Merge(Merge(old, a), b).events = Merge(Merge(old, b), a).events
<1>1. a.events \in DistinctLists /\ b.events \in DistinctLists
  BY KeptShape
<1>2. CASE old = None
  <2>1. Merge(old, a) = a /\ Merge(old, b) = b
    BY <1>2, OtherMerge
  <2>2. ToSet(a.events) = Joined(<<>>, a.events) /\ ToSet(b.events) = Joined(<<>>, b.events)
    BY <1>1, JoinedToNone
  <2>3. Joined(a.events, b.events) = Joined(b.events, a.events)
    BY <1>1, <2>2, EmptyList, JoinedEitherWay
  <2> QED
    BY <2>1, <2>3, PartialMerge
<1>3. CASE old # None
  <2>1. old \in Kept /\ old.events \in DistinctLists
    BY <1>3, KeptShape
  <2>2. PICK m \in Kept : /\ m = Merge(old, a) /\ m.events \in DistinctLists
                          /\ ToSet(m.events) = Joined(old.events, a.events)
    BY <2>1, PartialMerge, KeptShape
  <2>3. PICK n \in Kept : /\ n = Merge(old, b) /\ n.events \in DistinctLists
                          /\ ToSet(n.events) = Joined(old.events, b.events)
    BY <2>1, PartialMerge, KeptShape
  <2>4. Joined(m.events, b.events) = Joined(n.events, a.events)
    BY <1>1, <2>1, <2>2, <2>3, JoinedEitherWay
  <2> QED
    BY <2>2, <2>3, <2>4, PartialMerge
<1> QED
  BY <1>2, <1>3

-----------------------------------------------------------------------------
(* What a save can undo *)

HasEvents(state, other, k) ==
    /\ state.projections[k] # None
    /\ IdsOf(other.projections[k].events) \subseteq IdsOf(state.projections[k].events)

\* Of what no other command has rewritten meanwhile and no answer has replaced,
\* an open copy has every event the file has.
CopyCovers ==
    \A p \in Procs, k \in Keys :
        pc[p] = "open" /\ k \notin replaced[p] \cup missed[p] /\ file.projections[k] # None
        => HasEvents(mine[p], file, k)

LEMMA OpenCovers ==
    ASSUME StoreInv, CopyCovers, NEW p \in Procs, Open(p) PROVE CopyCovers'
<1> SUFFICES ASSUME NEW q \in Procs, NEW k \in Keys,
                    pc'[q] = "open", k \notin replaced'[q] \cup missed'[q],
                    file'.projections[k] # None
             PROVE  HasEvents(mine'[q], file', k)
  BY DEF CopyCovers
<1>1. CASE q = p
  BY <1>1 DEF Open, StoreInv, HasEvents
<1>2. CASE q # p
  BY <1>2 DEF Open, StoreInv, TypeOK, CopyCovers
<1> QED
  BY <1>1, <1>2

LEMMA ProjectionCovers ==
    ASSUME StoreInv, CopyCovers, NEW p \in Procs, NEW l \in Keys, NEW new \in Projection,
           StoreProjection(p, l, new)
    PROVE  CopyCovers'
<1> SUFFICES ASSUME NEW q \in Procs, NEW k \in Keys,
                    pc'[q] = "open", k \notin replaced'[q] \cup missed'[q],
                    file'.projections[k] # None
             PROVE  HasEvents(mine'[q], file', k)
  BY DEF CopyCovers
<1>1. mine' = [mine EXCEPT ![p] = [mine[p] EXCEPT !.projections =
                  [mine[p].projections EXCEPT ![l] = Stored(p, l, new)]]]
  BY ProjectionStore
<1>2. /\ file' = file /\ pc' = pc /\ missed' = missed
      /\ replaced[q] \subseteq replaced'[q]
  BY DEF StoreProjection, StoreInv, TypeOK
<1>3. HasEvents(mine[q], file, k)
  BY <1>2 DEF CopyCovers
<1>4. CASE q # p \/ k # l
  <2>1. mine'[q].projections[k] = mine[q].projections[k]
    BY <1>1, <1>4 DEF StoreInv, KeptState
  <2> QED
    BY <1>2, <1>3, <2>1 DEF HasEvents
<1>5. CASE q = p /\ k = l
  <2>1. new \in Kept /\ mine[p].projections[k] \in Kept \cup {None}
    BY ObservedKept DEF StoreInv, KeptState
  <2>2. ~new.replaces /\ new.lists
    BY <1>5 DEF StoreProjection, StoreInv, TypeOK
  <2>3. mine[p].projections[k] # None
    BY <1>3, <1>5 DEF HasEvents
  <2>4. mine'[p].projections[k] = Merge(mine[p].projections[k], new)
    BY <1>1, <1>5, <2>1, StoredIs DEF StoreInv, KeptState
  <2>5. /\ Merge(mine[p].projections[k], new) # None
        /\ IdsOf(Merge(mine[p].projections[k], new).events) =
              IdsOf(new.events) \cup IdsOf(mine[p].projections[k].events)
    BY <2>1, <2>2, <2>3, PartialMerge, KeptShape
  <2> QED
    BY <1>2, <1>3, <1>5, <2>4, <2>5 DEF HasEvents
<1> QED
  BY <1>4, <1>5

LEMMA EndCovers ==
    ASSUME StoreInv, CopyCovers, NEW p \in Procs, NEW left \in KeptState, NEW cut,
           End(p, left, cut)
    PROVE  CopyCovers'
<1> SUFFICES ASSUME NEW q \in Procs, NEW k \in Keys,
                    pc'[q] = "open", k \notin replaced'[q] \cup missed'[q],
                    file'.projections[k] # None
             PROVE  HasEvents(mine'[q], file', k)
  BY DEF CopyCovers
<1>1. q # p /\ pc[q] = "open" /\ mine'[q] = mine[q] /\ replaced'[q] = replaced[q]
  BY DEF End, StoreInv, TypeOK
<1>2. missed'[q] = missed[q] \cup {l \in Keys : left.projections[l] # file.projections[l]}
  BY <1>1 DEF End
<1>3. file' = left /\ left.projections[k] = file.projections[k]
  BY <1>2 DEF End
<1>4. HasEvents(mine[q], file, k)
  BY <1>1, <1>2, <1>3 DEF CopyCovers
<1> QED
  BY <1>1, <1>3, <1>4 DEF HasEvents

LEMMA EndsCover ==
    ASSUME StoreInv, CopyCovers, NEW p \in Procs, Save(p) \/ Fails(p) \/ Tears(p)
    PROVE  CopyCovers'
BY EndCovers, EmptyIsKept DEF Save, Fails, Tears, StoreInv

LEMMA CopyCoversAlways == Spec => []CopyCovers
<1>1. Init => CopyCovers
  BY DEF Init, CopyCovers
<1>2. StoreInv /\ CopyCovers /\ [Next]_vars => CopyCovers'
  <2> SUFFICES ASSUME StoreInv, CopyCovers, [Next]_vars PROVE CopyCovers'
    OBVIOUS
  <2>1. CASE UNCHANGED vars
    BY <2>1 DEF vars, CopyCovers, HasEvents
  <2>2. CASE Next
    BY <2>2, OpenCovers, EndsCover, ProjectionCovers DEF Next
  <2> QED
    BY <2>1, <2>2
<1> QED
  BY <1>1, <1>2, StoreInvAlways, PTL DEF Spec

\* However commands overlap, fail or are killed, a save undoes only what others
\* have saved since the command opened the file.
THEOREM SaveSound == Spec => SaveUndoesOnlyWhatItMissed
<1>1. StoreInv /\ CopyCovers /\ [Next]_vars =>
        [\A p \in Procs, k \in Keys :
            /\ pc[p] = "open" /\ pc'[p] = "idle" /\ ~torn'
            /\ k \notin replaced[p] \cup missed[p]
            /\ file.projections[k] # None
            => /\ file'.projections[k] # None
               /\ IdsOf(file.projections[k].events)
                    \subseteq IdsOf(file'.projections[k].events)]_vars
  <2> SUFFICES ASSUME StoreInv, CopyCovers, Next, NEW p \in Procs, NEW k \in Keys,
                      pc[p] = "open", pc'[p] = "idle", ~torn',
                      k \notin replaced[p] \cup missed[p],
                      file.projections[k] # None
               PROVE  /\ file'.projections[k] # None
                      /\ IdsOf(file.projections[k].events)
                            \subseteq IdsOf(file'.projections[k].events)
    OBVIOUS
  <2>1. HasEvents(mine[p], file, k)
    BY DEF CopyCovers
  <2>2. Save(p) \/ Fails(p)
    BY DEF Next, Open, Save, Fails, Tears, End, StoreProjection, StoreInv, TypeOK
  <2>3. file' = mine[p] \/ file' = file
    BY <2>2 DEF Save, Fails, End
  <2> QED
    BY <2>1, <2>3 DEF HasEvents
<1> QED
  BY <1>1, StoreInvAlways, CopyCoversAlways, PTL DEF Spec, SaveUndoesOnlyWhatItMissed
=============================================================================
