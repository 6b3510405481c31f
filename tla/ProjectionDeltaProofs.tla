----------------------- MODULE ProjectionDeltaProofs -----------------------
(***************************************************************************)
(* Theorems about the operations of ProjectionDelta: each of them does     *)
(* what Does says, and any delta made of them does one after the other,    *)
(* for all sets of names and leaves and for documents and deltas of every  *)
(* size.  That a document stays one is the invariant this rests on.        *)
(***************************************************************************)
EXTENDS ProjectionDelta, FiniteSetTheorems, SequenceTheorems, WellFoundedInduction, TLAPS

USE DeltaAssumption DEF Containers

-----------------------------------------------------------------------------
(* Induction over the naturals, with a set in the place of a predicate *)

\* A set that holds 0 and, with every natural, the next one, holds them all.
LEMMA SetInduction ==
  ASSUME NEW S, 0 \in S, \A n \in Nat : n \in S => n + 1 \in S
  PROVE  Nat \subseteq S
<1> DEFINE R == OpToRel(<, Nat)
           T == Nat \ S
<1>1. SUFFICES ASSUME T # {} PROVE FALSE
  OBVIOUS
<1>2. IsWellFoundedOn(R, Nat)
  BY NatLessThanWellFounded, Zenon
<1>3. \E x \in T : \A y \in T : ~ (<<y, x>> \in R)
  <2>1. T \subseteq Nat
    OBVIOUS
  <2> HIDE DEF T, R
  <2> QED BY <1>1, <1>2, <2>1, WFMin
<1>4. PICK x \in T : \A y \in T : ~ (<<y, x>> \in R)
  BY <1>3
<1>5. x \in Nat /\ x \notin S /\ x # 0
  OBVIOUS
<1>6. x - 1 \in Nat /\ x - 1 < x /\ (x - 1) + 1 = x
  BY <1>5
<1>7. <<x - 1, x>> \in R
  <2>1. <<x - 1, x>> \in Nat \X Nat
    BY <1>5, <1>6
  <2> QED BY <1>6, <2>1, Zenon DEF OpToRel
<1>8. x - 1 \in S
  <2> HIDE DEF R
  <2> QED BY <1>4, <1>6, <1>7
<1> HIDE DEF R, T
<1> QED
  BY <1>5, <1>6, <1>8

-----------------------------------------------------------------------------
(* What the fold of Apply computes *)

\* One step of the fold of Apply over the operations whose indexes are in s: the
\* last of them is applied to what the others made.
FoldStep(iter, doc, ops, s) ==
    IF s = {} THEN Becomes(doc)
    ELSE ApplyNext(iter[s \ {Max(s)}], ops[Max(s)])

\* A finite set of naturals that is not empty has a greatest element.
LEMMA MaxNat ==
  ASSUME NEW n \in Nat, NEW s \in SUBSET (1..n), s # {}
  PROVE  Max(s) \in s /\ \A y \in s : Max(s) >= y
<1> DEFINE B == {b \in Nat : \A t \in SUBSET (1..b) : t # {} => \E x \in t : \A y \in t : x >= y}
<1>1. 0 \in B
  <2>1. 1..0 = {}
    OBVIOUS
  <2> QED BY <2>1
<1>2. ASSUME NEW b \in Nat, b \in B PROVE b + 1 \in B
  <2> SUFFICES ASSUME NEW t \in SUBSET (1..(b + 1)), t # {}
               PROVE  \E x \in t : \A y \in t : x >= y
    OBVIOUS
  <2>1. CASE b + 1 \in t
    BY <2>1
  <2>2. CASE b + 1 \notin t
    <3>1. t \in SUBSET (1..b)
      BY <2>2
    <3> QED BY <1>2, <3>1
  <2> QED BY <2>1, <2>2
<1>3. n \in B
  <2> HIDE DEF B
  <2> QED BY <1>1, <1>2, SetInduction
<1>4. \E x \in s : \A y \in s : x >= y
  BY <1>3
<1> QED
  BY <1>4 DEF Max

LEMMA MaxInterval ==
  ASSUME NEW k \in Nat \ {0}
  PROVE  Max(1..k) = k /\ (1..k) \ {k} = 1..(k - 1)
<1>1. k \in 1..k /\ \A y \in 1..k : k >= y
  OBVIOUS
<1>2. \A x \in 1..k : (\A y \in 1..k : x >= y) => x = k
  OBVIOUS
<1> QED
  BY <1>1, <1>2 DEF Max

HasFold(doc, ops, n) == \E f : f = [s \in SUBSET (1..n) |-> FoldStep(f, doc, ops, s)]

\* The recursive function of the fold exists.
LEMMA FoldExists ==
  ASSUME NEW doc, NEW n \in Nat, NEW ops
  PROVE  HasFold(doc, ops, n)
<1> DEFINE K == {k \in Nat :
                   \E f : f = [s \in SUBSET (1..k) |-> FoldStep(f, doc, ops, s)]}
<1>1. 0 \in K
  <2> DEFINE f == [s \in {{}} |-> Becomes(doc)]
  <2>1. SUBSET (1..0) = {{}}
    <3>1. 1..0 = {}
      OBVIOUS
    <3> QED BY <3>1
  <2>2. f = [s \in SUBSET (1..0) |-> FoldStep(f, doc, ops, s)]
    BY <2>1 DEF FoldStep
  <2> QED BY <2>2
<1>2. ASSUME NEW k \in Nat, k \in K PROVE k + 1 \in K
  <2>1. PICK f : f = [s \in SUBSET (1..k) |-> FoldStep(f, doc, ops, s)]
    BY <1>2
  <2> DEFINE g == [s \in SUBSET (1..(k + 1)) |-> FoldStep(f, doc, ops, s)]
  <2>2. \A s \in SUBSET (1..k) : s \in SUBSET (1..(k + 1)) /\ g[s] = f[s]
    <3>1. 1..k \subseteq 1..(k + 1)
      OBVIOUS
    <3> QED BY <2>1, <3>1
  <2>3. ASSUME NEW s \in SUBSET (1..(k + 1)), s # {}
        PROVE  s \ {Max(s)} \in SUBSET (1..k)
    <3>1. k + 1 \in Nat
      OBVIOUS
    <3>2. Max(s) \in s /\ \A y \in s : Max(s) >= y
      BY <2>3, <3>1, MaxNat
    <3>3. SUFFICES ASSUME NEW y \in s, y # Max(s) PROVE y \in 1..k
      OBVIOUS
    <3>4. y \in 1..(k + 1) /\ Max(s) \in 1..(k + 1) /\ Max(s) >= y
      BY <3>2
    <3> QED BY <3>3, <3>4
  <2>4. ASSUME NEW s \in SUBSET (1..(k + 1))
        PROVE  FoldStep(f, doc, ops, s) = FoldStep(g, doc, ops, s)
    <3> HIDE DEF g
    <3> QED BY <2>2, <2>3 DEF FoldStep
  <2>5. g = [s \in SUBSET (1..(k + 1)) |-> FoldStep(g, doc, ops, s)]
    BY <2>4
  <2>6. \E h : h = [s \in SUBSET (1..(k + 1)) |-> FoldStep(h, doc, ops, s)]
    <3> HIDE DEF g
    <3> QED BY <2>5
  <2> QED BY <2>6
<1>3. n \in K
  <2> HIDE DEF K
  <2> QED BY <1>1, <1>2, SetInduction
<1> QED
  BY <1>3 DEF HasFold

\* The fold of Apply, unfolded into a function over the sets of indexes.
LEMMA FoldUnfolds ==
  ASSUME NEW doc, NEW ops \in Seq(Operation)
  PROVE  \E f : /\ \A s \in SUBSET (1..Len(ops)) : f[s] = FoldStep(f, doc, ops, s)
                /\ FoldLeft(ApplyNext, Becomes(doc), ops) = f[1..Len(ops)]
<1> DEFINE D == DOMAIN ops
           F == CHOOSE f : f = [s \in SUBSET D |->
                    IF s = {} THEN Becomes(doc) ELSE ApplyNext(f[s \ {Max(s)}], ops[Max(s)])]
<1>1. D = 1..Len(ops) /\ Len(ops) \in Nat
  OBVIOUS
<1>2. FoldLeft(ApplyNext, Becomes(doc), ops) = F[D]
  BY DEF FoldLeft, MapThenFoldSet
<1>3. F = [s \in SUBSET D |-> FoldStep(F, doc, ops, s)]
  <2>1. \E f : f = [s \in SUBSET D |-> FoldStep(f, doc, ops, s)]
    <3>1. HasFold(doc, ops, Len(ops))
      BY <1>1, FoldExists
    <3> QED BY <1>1, <3>1 DEF HasFold
  <2>2. F = CHOOSE f : f = [s \in SUBSET D |-> FoldStep(f, doc, ops, s)]
    BY DEF FoldStep
  <2> HIDE DEF F, D
  <2> QED BY <2>1, <2>2
<1> HIDE DEF F
<1> QED
  BY <1>1, <1>2, <1>3

-----------------------------------------------------------------------------
(* Paths *)

LEMMA FrontOfPath ==
  ASSUME NEW p \in Path, p # <<>>
  PROVE  /\ Len(p) \in Nat \ {0}
         /\ Front(p) \in Path
         /\ Len(Front(p)) = Len(p) - 1
         /\ \A i \in 1..(Len(p) - 1) : Front(p)[i] = p[i]
         /\ Last(p) = p[Len(p)]
         /\ Last(p) \in Names \cup Nat
<1> DEFINE n == Len(p)
<1>1. n \in Nat \ {0} /\ n - 1 \in Nat /\ p \in Seq(Names \cup Nat)
  BY DEF Path
<1>2. p[n] \in Names \cup Nat
  BY <1>1
<1>3. /\ SubSeq(p, 1, n - 1) \in Seq(Names \cup Nat)
      /\ Len(SubSeq(p, 1, n - 1)) = n - 1
      /\ \A i \in 1..(n - 1) : SubSeq(p, 1, n - 1)[i] = p[i]
  <2>1. \A i \in 1..(n - 1) : p[i] \in Names \cup Nat
    BY <1>1
  <2> DEFINE S == Names \cup Nat
             m == n - 1
             r == SubSeq(p, 1, m)
  <2>2. /\ r \in Seq(S)
        /\ Len(r) = IF 1 <= m THEN m - 1 + 1 ELSE 0
        /\ \A i \in 1..(m - 1 + 1) : r[i] = p[1 + i - 1]
    <3>1. 1 \in Int /\ m \in Int /\ \A i \in 1..m : p[i] \in S
      BY <1>1, <2>1
    <3> HIDE DEF S, m
    <3> QED BY <3>1, SubSeqProperties
  <2>3. r \in Seq(S) /\ Len(r) = m /\ \A i \in 1..m : r[i] = p[i]
    <3>0. m \in Nat
      BY <1>1
    <3> HIDE DEF r, S, m, n
    <3>1. m \in Nat /\ Len(r) = m
      <4>1. CASE 1 <= m
        BY <2>2, <3>0, <4>1
      <4>2. CASE m = 0
        BY <2>2, <3>0, <4>2
      <4> QED BY <3>0, <4>1, <4>2
    <3>2. ASSUME NEW i \in 1..m PROVE r[i] = p[i]
      <4>1. i \in 1..(m - 1 + 1) /\ 1 + i - 1 = i
        BY <3>1
      <4> QED BY <2>2, <4>1
    <3> QED BY <2>2, <3>1, <3>2
  <2> QED BY <2>3
<1> QED
  BY <1>1, <1>2, <1>3 DEF Path, Front, Last

LEMMA SamePath ==
  ASSUME NEW p \in Path, NEW q \in Path, Len(p) = Len(q), \A i \in 1..Len(p) : p[i] = q[i]
  PROVE  p = q
BY DEF Path

\* A path is given by its parent's and its last step.
LEMMA FrontAndLast ==
  ASSUME NEW p \in Path, NEW q \in Path, p # <<>>, q # <<>>,
         Front(p) = Front(q), Last(p) = Last(q)
  PROVE  p = q
<1>1. Len(p) = Len(q) /\ Len(p) \in Nat \ {0}
  <2>1. Len(p) - 1 = Len(q) - 1 /\ Len(p) \in Nat \ {0} /\ Len(q) \in Nat \ {0}
    BY FrontOfPath
  <2> QED BY <2>1
<1>2. ASSUME NEW i \in 1..Len(p) PROVE p[i] = q[i]
  <2>1. CASE i = Len(p)
    BY <1>1, <2>1, FrontOfPath
  <2>2. CASE i \in 1..(Len(p) - 1)
    BY <1>1, <2>2, FrontOfPath
  <2> QED BY <1>1, <2>1, <2>2
<1> QED
  BY <1>1, <1>2, SamePath

LEMMA AppendToPath ==
  ASSUME NEW p \in Path, NEW x \in Names \cup Nat
  PROVE  /\ Append(p, x) \in Path
         /\ Append(p, x) # <<>>
         /\ Front(Append(p, x)) = p
         /\ Last(Append(p, x)) = x
         /\ Len(Append(p, x)) = Len(p) + 1
<1>1. /\ Append(p, x) \in Path
      /\ Append(p, x) # <<>>
      /\ Last(Append(p, x)) = x
      /\ Len(Append(p, x)) = Len(p) + 1
      /\ Len(p) \in Nat
  BY DEF Path, Last
<1>2. \A i \in 1..Len(p) : Append(p, x)[i] = p[i]
  BY DEF Path
<1> DEFINE r == Append(p, x)
<1> HIDE DEF r
<1>3. Front(r) = p
  <2>1. r \in Path /\ r # <<>> /\ Len(r) = Len(p) + 1 /\ \A i \in 1..Len(p) : r[i] = p[i]
    BY <1>1, <1>2 DEF r
  <2>2. Front(r) \in Path /\ Len(Front(r)) = Len(p)
    BY <1>1, <2>1, FrontOfPath
  <2>3. \A i \in 1..Len(p) : Front(r)[i] = p[i]
    <3>1. \A i \in 1..(Len(r) - 1) : Front(r)[i] = r[i]
      BY <2>1, FrontOfPath
    <3> QED BY <1>1, <2>1, <3>1
  <2> QED BY <2>2, <2>3, SamePath
<1> QED
  BY <1>1, <1>3 DEF r

LEMMA PrefixOfPath ==
  ASSUME NEW p \in Path, NEW q \in Path
  PROVE  IsPrefix(p, q) <=> Len(p) <= Len(q) /\ \A i \in 1..Len(p) : p[i] = q[i]
<1>1. CASE Len(p) <= Len(q)
  <2>1. /\ SubSeq(q, 1, Len(p)) \in Path
        /\ Len(SubSeq(q, 1, Len(p))) = Len(p)
        /\ \A i \in 1..Len(p) : SubSeq(q, 1, Len(p))[i] = q[i]
    BY <1>1 DEF Path
  <2>2. SubSeq(p, 1, Len(p)) = p
    BY DEF Path
  <2>3. SubSeq(q, 1, Len(p)) = p <=> \A i \in 1..Len(p) : p[i] = q[i]
    <3> DEFINE r == SubSeq(q, 1, Len(p))
    <3> HIDE DEF r
    <3>1. r \in Path /\ Len(r) = Len(p) /\ \A i \in 1..Len(p) : r[i] = q[i]
      BY <2>1 DEF r
    <3>2. r = p <=> \A i \in 1..Len(p) : p[i] = q[i]
      BY <3>1, SamePath
    <3> QED BY <3>2 DEF r
  <2> QED BY <1>1, <2>2, <2>3 DEF IsPrefix
<1>2. CASE ~ (Len(p) <= Len(q))
  BY <1>2 DEF IsPrefix
<1> QED
  BY <1>1, <1>2

LEMMA EmptyPath ==
  /\ <<>> \in Path
  /\ \A p \in Path : IsPrefix(<<>>, p) /\ (IsPrefix(p, <<>>) => p = <<>>)
<1>1. <<>> \in Path /\ Len(<<>>) = 0
  BY DEF Path
<1>2. ASSUME NEW p \in Path PROVE IsPrefix(<<>>, p)
  <2>1. Len(p) \in Nat
    BY DEF Path
  <2> QED BY <1>1, <2>1, PrefixOfPath
<1>3. ASSUME NEW p \in Path, IsPrefix(p, <<>>) PROVE p = <<>>
  <2>1. Len(p) <= 0
    BY <1>1, <1>3, PrefixOfPath
  <2> QED BY <2>1, FrontOfPath
<1> QED
  BY <1>1, <1>2, <1>3

\* What is under a path: the path itself, and what has its parent under it.
LEMMA PrefixOfFront ==
  ASSUME NEW p \in Path, NEW q \in Path, q # <<>>
  PROVE  /\ IsPrefix(p, q) <=> p = q \/ IsPrefix(p, Front(q))
         /\ ~ IsPrefix(q, Front(q))
<1>1. /\ Len(q) \in Nat \ {0} /\ Front(q) \in Path /\ Len(Front(q)) = Len(q) - 1
      /\ \A i \in 1..(Len(q) - 1) : Front(q)[i] = q[i]
  BY FrontOfPath
<1>2. Len(p) \in Nat
  BY DEF Path
<1>3. /\ IsPrefix(p, q) <=> Len(p) <= Len(q) /\ \A i \in 1..Len(p) : p[i] = q[i]
      /\ IsPrefix(p, Front(q)) <=>
            Len(p) <= Len(q) - 1 /\ \A i \in 1..Len(p) : p[i] = Front(q)[i]
  BY <1>1, PrefixOfPath
<1>4. IsPrefix(p, Front(q)) <=> Len(p) <= Len(q) - 1 /\ \A i \in 1..Len(p) : p[i] = q[i]
  BY <1>1, <1>2, <1>3
<1>5. p = q <=> Len(p) = Len(q) /\ \A i \in 1..Len(p) : p[i] = q[i]
  BY SamePath
<1>6. ~ IsPrefix(q, Front(q))
  <2>1. IsPrefix(q, Front(q)) => Len(q) <= Len(q) - 1
    BY <1>1, PrefixOfPath
  <2> QED BY <1>1, <2>1
<1> QED
  BY <1>1, <1>2, <1>3, <1>4, <1>5, <1>6

-----------------------------------------------------------------------------
(* Documents *)

\* Whatever is not under a path has the children it had, but for the path itself.
LEMMA KeptChildren ==
  ASSUME NEW doc, Shaped(doc), NEW p \in Path, NEW q \in DOMAIN doc \ Under(doc, p)
  PROVE  /\ Children(doc, q) \ Under(doc, p) = Children(doc, q) \ {p}
         /\ q # <<>> => Front(q) \in DOMAIN doc \ Under(doc, p)
<1>1. DOMAIN doc \subseteq Path
  BY DEF Shaped
<1>2. ASSUME NEW c \in Children(doc, q) PROVE c \in Under(doc, p) <=> c = p
  <2>1. c \in Path /\ c \in DOMAIN doc /\ c # <<>> /\ Front(c) = q
    BY <1>1 DEF Children
  <2>2. IsPrefix(p, c) <=> p = c \/ IsPrefix(p, q)
    BY <2>1, PrefixOfFront
  <2> QED BY <2>1, <2>2 DEF Under
<1>3. ASSUME q # <<>> PROVE Front(q) \in DOMAIN doc \ Under(doc, p)
  <2>1. IsPrefix(p, q) <=> p = q \/ IsPrefix(p, Front(q))
    BY <1>1, <1>3, PrefixOfFront
  <2>2. Front(q) \in DOMAIN doc
    BY <1>3 DEF Shaped
  <2> QED BY <2>1, <2>2 DEF Under
<1> QED
  BY <1>2, <1>3

\* What stands unchanged over the same children still holds what it can hold.
LEMMA StillHolds ==
  ASSUME NEW doc, NEW new, NEW q, new[q] = doc[q], Children(new, q) = Children(doc, q),
         Holds(doc, q)
  PROVE  Holds(new, q)
BY DEF Holds, Steps

\* A path that fits a document is of a child of one of its values.
LEMMA FittingPath ==
  ASSUME NEW doc, Shaped(doc), NEW p \in Path, Fits(doc, p)
  PROVE  /\ p # <<>> /\ Front(p) \in DOMAIN doc \ Under(doc, p)
         /\ <<>> \in DOMAIN doc \ Under(doc, p)
         /\ doc[Front(p)] \in Containers
         /\ p \in DOMAIN doc => p \in Children(doc, Front(p))
<1>1. p # <<>> /\ Front(p) \in DOMAIN doc /\ doc[Front(p)] \in Containers
  BY DEF Fits
<1>2. ~ IsPrefix(p, Front(p))
  BY <1>1, PrefixOfFront
<1>3. ~ IsPrefix(p, <<>>)
  BY <1>1, EmptyPath
<1> QED
  BY <1>1, <1>2, <1>3 DEF Under, Children, Shaped

\* Where an item of an array is to be written or removed there is one.
LEMMA OverwrittenItem ==
  ASSUME NEW doc, Shaped(doc), NEW p \in Path, Fits(doc, p), ~ NoItem(doc, p)
  PROVE  \/ doc[Front(p)] = "object" /\ Last(p) \in Names
         \/ doc[Front(p)] = "array" /\ p \in DOMAIN doc
BY DEF Fits, NoItem

\* WritePath: nothing is left under the path, and the parent has it as a child.
LEMMA WriteKeepsShape ==
  ASSUME NEW doc, Shaped(doc), NEW p \in Path, NEW leaf \in Leaves,
         WritePath(doc, p, leaf).ok
  PROVE  Shaped(WritePath(doc, p, leaf).doc)
<1> DEFINE kept == DOMAIN doc \ Under(doc, p)
           new  == [q \in kept \cup {p} |-> IF q = p THEN leaf ELSE doc[q]]
<1>1. Fits(doc, p) /\ ~ NoItem(doc, p)
  BY DEF WritePath, Error
<1>2. WritePath(doc, p, leaf).doc = new
  BY <1>1 DEF WritePath, Becomes
<1>3. /\ p # <<>> /\ Front(p) \in kept /\ <<>> \in kept
      /\ p \in DOMAIN doc => p \in Children(doc, Front(p))
  BY <1>1, FittingPath
<1>4. p \notin kept
  <2>1. IsPrefix(p, p)
    BY <1>3, PrefixOfFront
  <2> QED BY <2>1 DEF Under
<1>5. DOMAIN new \subseteq Path /\ IsFiniteSet(DOMAIN new) /\ <<>> \in DOMAIN new
  <2>1. IsFiniteSet(kept)
    BY FS_Subset DEF Shaped
  <2>2. IsFiniteSet(kept \cup {p})
    BY <2>1, FS_AddElement
  <2> QED BY <1>3, <2>2 DEF Shaped
<1>6. ASSUME NEW q \in DOMAIN new, q # <<>> PROVE Front(q) \in DOMAIN new
  BY <1>3, <1>6, KeptChildren
<1>7. ASSUME NEW q \in kept, q # Front(p) PROVE Holds(new, q)
  <2>1. Children(doc, q) \ Under(doc, p) = Children(doc, q) \ {p}
    BY KeptChildren
  <2>2. p \notin Children(doc, q)
    BY <1>7 DEF Children
  <2>3. Children(new, q) = Children(doc, q)
    BY <1>7, <2>1, <2>2 DEF Children
  <2>4. new[q] = doc[q] /\ Holds(doc, q)
    BY <1>4 DEF Shaped
  <2> HIDE DEF new
  <2> QED BY <2>3, <2>4, StillHolds
<1>8. Holds(new, Front(p))
  <2>1. Children(doc, Front(p)) \ Under(doc, p) = Children(doc, Front(p)) \ {p}
    BY <1>3, KeptChildren
  <2>2. Children(new, Front(p)) = Children(doc, Front(p)) \cup {p}
    BY <1>3, <2>1 DEF Children
  <2>3. new[Front(p)] = doc[Front(p)] /\ Holds(doc, Front(p))
    BY <1>3, <1>4 DEF Shaped
  <2> HIDE DEF new
  <2>4. CASE doc[Front(p)] = "array" /\ p \in DOMAIN doc
    <3>1. Children(new, Front(p)) = Children(doc, Front(p))
      BY <1>3, <2>2, <2>4
    <3> QED BY <2>3, <3>1, StillHolds
  <2>5. CASE doc[Front(p)] = "object" /\ Last(p) \in Names
    <3>1. Steps(new, Front(p)) = Steps(doc, Front(p)) \cup {Last(p)}
      BY <2>2 DEF Steps
    <3> QED BY <2>3, <2>5, <3>1 DEF Holds
  <2> QED BY <1>1, <2>4, <2>5, OverwrittenItem
<1>9. Holds(new, p)
  <2>1. Children(new, p) = {}
    <3> SUFFICES ASSUME NEW c \in DOMAIN new, c # <<>>, Front(c) = p PROVE FALSE
      BY DEF Children
    <3>1. CASE c = p
      BY <1>3, <1>4, <3>1
    <3>2. CASE c \in kept
      <4>1. p \in kept
        BY <3>2, KeptChildren
      <4> QED BY <1>4, <4>1
    <3> QED BY <3>1, <3>2
  <2>2. new[p] = leaf
    OBVIOUS
  <2> HIDE DEF new
  <2> QED BY <2>1, <2>2 DEF Holds, Steps
<1>10. ASSUME NEW q \in DOMAIN new PROVE Holds(new, q)
  <2>1. q = p \/ q \in kept
    OBVIOUS
  <2> HIDE DEF new
  <2> QED BY <1>7, <1>8, <1>9, <2>1
<1> HIDE DEF new
<1> QED
  BY <1>2, <1>5, <1>6, <1>10 DEF Shaped

\* RemovePath from an object: the children of the parent are still named.
LEMMA RemoveKeyKeepsShape ==
  ASSUME NEW doc, Shaped(doc), NEW p \in Path, Fits(doc, p), doc[Front(p)] = "object"
  PROVE  Shaped(Restricted(doc, DOMAIN doc \ Under(doc, p)))
<1> DEFINE kept == DOMAIN doc \ Under(doc, p)
           new  == Restricted(doc, kept)
<1>1. DOMAIN new = kept /\ \A q \in kept : new[q] = doc[q]
  BY DEF Restricted
<1>2. <<>> \in kept /\ Front(p) \in kept
  BY FittingPath
<1>3. IsFiniteSet(kept) /\ kept \subseteq Path
  BY FS_Subset DEF Shaped
<1> HIDE DEF new
<1>4. ASSUME NEW q \in kept PROVE Holds(new, q)
  <2>1. Children(doc, q) \ Under(doc, p) = Children(doc, q) \ {p}
    BY KeptChildren
  <2>2. Children(new, q) = Children(doc, q) \ {p}
    BY <1>1, <2>1 DEF Children
  <2>3. new[q] = doc[q] /\ Holds(doc, q)
    BY <1>1 DEF Shaped
  <2>4. CASE q = Front(p)
    <3>1. Steps(new, q) \subseteq Steps(doc, q)
      BY <2>2 DEF Steps
    <3> QED BY <2>3, <2>4, <3>1 DEF Holds
  <2>5. CASE q # Front(p)
    <3>1. p \notin Children(doc, q)
      BY <2>5 DEF Children
    <3>2. Children(new, q) = Children(doc, q)
      BY <2>2, <3>1
    <3> QED BY <2>3, <3>2, StillHolds
  <2> QED BY <2>4, <2>5
<1>5. ASSUME NEW q \in kept, q # <<>> PROVE Front(q) \in kept
  BY <1>5, KeptChildren
<1>6. Shaped(new)
  BY <1>1, <1>2, <1>3, <1>4, <1>5 DEF Shaped
<1> QED
  BY <1>6 DEF new

\* The children of an array are as many as its indexes.
LEMMA ArrayLength ==
  ASSUME NEW doc, Shaped(doc), NEW q \in DOMAIN doc, doc[q] = "array"
  PROVE  /\ Cardinality(Children(doc, q)) \in Nat
         /\ Steps(doc, q) = 0..(Cardinality(Children(doc, q)) - 1)
<1> DEFINE C == Children(doc, q)
           T == Steps(doc, q)
           f == [c \in C |-> Last(c)]
<1>1. IsFiniteSet(C) /\ C \subseteq Path /\ \A c \in C : c # <<>> /\ Front(c) = q
  BY FS_Subset DEF Children, Shaped
<1>2. f \in Surjection(C, T)
  BY DEF Surjection, Steps
<1>3. f \in Injection(C, T)
  <2>1. ASSUME NEW c \in C, NEW d \in C, f[c] = f[d] PROVE c = d
    <3>1. Last(c) = Last(d)
      BY <2>1
    <3> QED BY <1>1, <3>1, FrontAndLast
  <2>2. f \in [C -> T] /\ DOMAIN f = C
    BY DEF Steps
  <2> HIDE DEF f
  <2> QED BY <2>1, <2>2 DEF Injection, IsInjective
<1>4. Cardinality(T) = Cardinality(C)
  <2> HIDE DEF f, C, T
  <2> QED BY <1>1, <1>2, <1>3, FS_Surjection
<1>5. Cardinality(C) \in Nat
  BY <1>1, FS_CardinalityType
<1>6. T = 0..(Cardinality(T) - 1)
  BY DEF Shaped, Holds
<1> QED
  BY <1>4, <1>5, <1>6

\* AppendUnique: the item put in has the index after the last.
LEMMA AppendKeepsShape ==
  ASSUME NEW doc, Shaped(doc), NEW p \in Path, NEW leaf \in Leaves,
         AppendUnique(doc, p, leaf).ok
  PROVE  Shaped(AppendUnique(doc, p, leaf).doc)
<1> DEFINE n   == Cardinality(Children(doc, p))
           end == Append(p, n)
           new == [q \in DOMAIN doc \cup {end} |-> IF q = end THEN leaf ELSE doc[q]]
<1>1. p \in DOMAIN doc /\ doc[p] = "array"
  BY DEF AppendUnique, Error
<1>2. \/ AppendUnique(doc, p, leaf).doc = doc
      \/ AppendUnique(doc, p, leaf).doc = new
  BY <1>1 DEF AppendUnique, Becomes
<1>3. n \in Nat /\ Steps(doc, p) = 0..(n - 1)
  BY <1>1, ArrayLength
<1> HIDE DEF n
<1>4. end \in Path /\ end # <<>> /\ Front(end) = p /\ Last(end) = n
  BY <1>3, AppendToPath
<1> HIDE DEF end
<1>5. end \notin DOMAIN doc
  <2>1. ASSUME end \in DOMAIN doc PROVE n \in Steps(doc, p)
    BY <1>4, <2>1 DEF Steps, Children
  <2> QED BY <1>3, <2>1
<1>6. DOMAIN new \subseteq Path /\ IsFiniteSet(DOMAIN new) /\ <<>> \in DOMAIN new
  <2>1. IsFiniteSet(DOMAIN doc \cup {end})
    BY FS_AddElement DEF Shaped
  <2> QED BY <1>4, <2>1 DEF Shaped
<1>7. ASSUME NEW q \in DOMAIN new, q # <<>> PROVE Front(q) \in DOMAIN new
  BY <1>1, <1>4, <1>7 DEF Shaped
<1>8. ASSUME NEW q \in DOMAIN doc, q # p PROVE Holds(new, q)
  <2>1. Children(new, q) = Children(doc, q)
    BY <1>4, <1>8 DEF Children
  <2>2. new[q] = doc[q] /\ Holds(doc, q)
    BY <1>5 DEF Shaped
  <2> HIDE DEF new
  <2> QED BY <2>1, <2>2, StillHolds
<1>9. Holds(new, p)
  <2>1. Children(new, p) = Children(doc, p) \cup {end}
    BY <1>4 DEF Children
  <2>2. new[p] = "array"
    BY <1>1, <1>5
  <2> HIDE DEF new
  <2>3. Steps(new, p) = Steps(doc, p) \cup {n}
    BY <1>4, <2>1 DEF Steps
  <2>4. Steps(new, p) = 0..n
    BY <1>3, <2>3
  <2>5. Cardinality(0..n) = n + 1
    BY <1>3, FS_Interval
  <2> QED BY <1>3, <2>2, <2>4, <2>5 DEF Holds
<1>10. Holds(new, end)
  <2>1. Children(new, end) = {}
    <3> SUFFICES ASSUME NEW c \in DOMAIN new, c # <<>>, Front(c) = end PROVE FALSE
      BY DEF Children
    <3>1. CASE c = end
      BY <1>1, <1>4, <1>5, <3>1
    <3>2. CASE c \in DOMAIN doc
      BY <1>5, <3>2 DEF Shaped
    <3> QED BY <3>1, <3>2
  <2>2. new[end] = leaf
    OBVIOUS
  <2> HIDE DEF new
  <2> QED BY <2>1, <2>2 DEF Holds, Steps
<1>11. ASSUME NEW q \in DOMAIN new PROVE Holds(new, q)
  <2>1. q = end \/ q \in DOMAIN doc
    OBVIOUS
  <2> HIDE DEF new
  <2> QED BY <1>8, <1>9, <1>10, <2>1
<1> HIDE DEF new
<1> QED
  BY <1>2, <1>6, <1>7, <1>11 DEF Shaped

-----------------------------------------------------------------------------
(* An item taken out of an array *)

\* A path under another starts with the steps of that one; the value of a document
\* that stands where they end is in the document too.
LEMMA PrefixInDocument ==
  ASSUME NEW doc, Shaped(doc), NEW q \in DOMAIN doc, NEW n \in Nat, n <= Len(q)
  PROVE  \E r \in DOMAIN doc : Len(r) = n /\ \A i \in 1..n : r[i] = q[i]
<1> DEFINE K == {k \in Nat : \A s \in DOMAIN doc :
                   Len(s) = n + k => \E r \in DOMAIN doc :
                                       Len(r) = n /\ \A i \in 1..n : r[i] = s[i]}
<1>1. 0 \in K
  OBVIOUS
<1>2. ASSUME NEW k \in Nat, k \in K PROVE k + 1 \in K
  <2> SUFFICES ASSUME NEW s \in DOMAIN doc, Len(s) = n + (k + 1)
               PROVE  \E r \in DOMAIN doc : Len(r) = n /\ \A i \in 1..n : r[i] = s[i]
    OBVIOUS
  <2>1. s \in Path /\ s # <<>>
    <3>1. Len(<<>>) = 0
      OBVIOUS
    <3> QED BY <3>1 DEF Shaped
  <2>2. Front(s) \in DOMAIN doc
    BY <2>1 DEF Shaped
  <2>3. Len(Front(s)) = n + k /\ \A i \in 1..n : Front(s)[i] = s[i]
    <3>1. Len(Front(s)) = Len(s) - 1 /\ \A i \in 1..(Len(s) - 1) : Front(s)[i] = s[i]
      BY <2>1, FrontOfPath
    <3> QED BY <3>1
  <2>4. PICK r \in DOMAIN doc : Len(r) = n /\ \A i \in 1..n : r[i] = Front(s)[i]
    BY <1>2, <2>2, <2>3
  <2> QED BY <2>3, <2>4
<1>3. Len(q) - n \in K
  <2>1. Len(q) - n \in Nat
    BY DEF Shaped, Path
  <2> HIDE DEF K
  <2> QED BY <1>1, <1>2, <2>1, SetInduction
<1>4. Len(q) = n + (Len(q) - n)
  BY DEF Shaped, Path
<1> QED
  BY <1>3, <1>4

\* The paths of an array's items and of what is in them.
Below(p, q) == IsStrictPrefix(Front(p), q)

LEMMA BelowParent ==
  ASSUME NEW p \in Path, p # <<>>, NEW q \in Path
  PROVE  Below(p, q) <=> Len(q) >= Len(p) /\ \A i \in 1..(Len(p) - 1) : q[i] = p[i]
<1> DEFINE a == Front(p)
<1>1. /\ Len(p) \in Nat \ {0} /\ a \in Path /\ Len(a) = Len(p) - 1
      /\ \A i \in 1..(Len(p) - 1) : a[i] = p[i]
  BY FrontOfPath
<1>2. Len(q) \in Nat
  BY DEF Path
<1> HIDE DEF a
<1>3. IsPrefix(a, q) <=> Len(p) - 1 <= Len(q) /\ \A i \in 1..(Len(p) - 1) : q[i] = p[i]
  <2>1. IsPrefix(a, q) <=> Len(a) <= Len(q) /\ \A i \in 1..Len(a) : a[i] = q[i]
    BY <1>1, PrefixOfPath
  <2> QED BY <1>1, <2>1
<1>4. IsPrefix(a, q) => (a = q <=> Len(q) = Len(p) - 1)
  <2>1. ASSUME IsPrefix(a, q), Len(q) = Len(p) - 1 PROVE a = q
    <3>1. \A i \in 1..Len(a) : a[i] = q[i]
      BY <1>1, <2>1, PrefixOfPath
    <3> QED BY <1>1, <2>1, <3>1, SamePath
  <2> QED BY <1>1, <2>1
<1>5. Below(p, q) <=> IsPrefix(a, q) /\ a # q
  BY DEF Below, IsStrictPrefix, a
<1> QED
  BY <1>1, <1>2, <1>3, <1>4, <1>5

\* Under an array, the step after its path is an index.
LEMMA ItemIndex ==
  ASSUME NEW doc, Shaped(doc), NEW p \in Path, p # <<>>, Front(p) \in DOMAIN doc,
         doc[Front(p)] = "array", NEW q \in DOMAIN doc, Below(p, q)
  PROVE  q[Len(p)] \in Steps(doc, Front(p))
<1> DEFINE n == Len(p)
<1>1. n \in Nat \ {0} /\ q \in Path /\ Len(q) >= n /\ \A i \in 1..(n - 1) : q[i] = p[i]
  BY BelowParent, FrontOfPath DEF Shaped
<1>2. PICK r \in DOMAIN doc : Len(r) = n /\ \A i \in 1..n : r[i] = q[i]
  <2>1. n <= Len(q) /\ n \in Nat
    BY <1>1 DEF Path
  <2> HIDE DEF n
  <2> QED BY <2>1, PrefixInDocument
<1>3. r \in Path /\ r # <<>>
  <2>1. Len(<<>>) = 0
    OBVIOUS
  <2> QED BY <1>1, <1>2, <2>1 DEF Shaped
<1>4. Front(r) = Front(p)
  <2>1. /\ Front(r) \in Path /\ Len(Front(r)) = n - 1
        /\ \A i \in 1..(n - 1) : Front(r)[i] = r[i]
    <3>1. /\ Front(r) \in Path /\ Len(Front(r)) = Len(r) - 1
          /\ \A i \in 1..(Len(r) - 1) : Front(r)[i] = r[i]
      BY <1>3, FrontOfPath
    <3> QED BY <1>2, <3>1
  <2>2. /\ Front(p) \in Path /\ Len(Front(p)) = n - 1
        /\ \A i \in 1..(n - 1) : Front(p)[i] = p[i]
    BY FrontOfPath
  <2>3. \A i \in 1..(n - 1) : Front(r)[i] = Front(p)[i]
    BY <1>1, <1>2, <2>1, <2>2
  <2> HIDE DEF n
  <2> QED BY <2>1, <2>2, <2>3, SamePath
<1>5. Last(r) = q[n]
  BY <1>1, <1>2 DEF Last
<1> QED
  BY <1>2, <1>3, <1>4, <1>5 DEF Steps, Children

\* Paths that stay when p is taken out of its array.
Stays(p, q) == q \in Path /\ (Below(p, q) => q[Len(p)] \in Nat \ {Last(p)})

LEMMA MovedPath ==
  ASSUME NEW p \in Path, p # <<>>, Last(p) \in Nat, NEW q, Stays(p, q)
  PROVE  /\ MovedDown(p, q) \in Path
         /\ Len(MovedDown(p, q)) = Len(q)
         /\ \A i \in 1..Len(q) :
              MovedDown(p, q)[i] = IF i = Len(p) /\ Below(p, q) /\ q[i] > Last(p)
                                   THEN q[i] - 1 ELSE q[i]
<1> DEFINE n == Len(p)
           S == Names \cup Nat
<1>1. q \in Seq(S) /\ n \in Nat \ {0} /\ Len(q) \in Nat
  BY FrontOfPath DEF Stays, Path
<1>2. CASE Below(p, q) /\ q[n] > Last(p)
  <2>1. n \in 1..Len(q) /\ q[n] \in Nat
    <3>1. Len(q) >= n
      BY <1>2, BelowParent DEF Stays
    <3> QED BY <1>1, <1>2, <3>1 DEF Stays
  <2>2. q[n] - 1 \in Nat
    BY <1>2, <2>1
  <2> DEFINE r == [q EXCEPT ![n] = q[n] - 1]
  <2>3. MovedDown(p, q) = r
    BY <1>2 DEF MovedDown, Below
  <2>4. r \in Seq(S) /\ Len(r) = Len(q) /\ \A i \in 1..Len(q) : r[i] = IF i = n THEN q[i] - 1 ELSE q[i]
    <3>1. q[n] - 1 \in S
      BY <2>2
    <3> HIDE DEF S, n
    <3> QED BY <1>1, <2>1, <3>1
  <2> HIDE DEF r
  <2> QED BY <1>2, <2>3, <2>4 DEF Path
<1>3. CASE ~ (Below(p, q) /\ q[n] > Last(p))
  <2>1. MovedDown(p, q) = q
    BY <1>3 DEF MovedDown, Below
  <2> QED BY <1>3, <2>1 DEF Stays
<1> QED
  BY <1>2, <1>3

\* A path that moves stays under the array.
LEMMA MovedBelow ==
  ASSUME NEW p \in Path, p # <<>>, Last(p) \in Nat, NEW q, Stays(p, q)
  PROVE  Below(p, MovedDown(p, q)) <=> Below(p, q)
<1> DEFINE r == MovedDown(p, q)
<1>1. /\ r \in Path /\ Len(r) = Len(q)
      /\ \A i \in 1..Len(q) : r[i] = IF i = Len(p) /\ Below(p, q) /\ q[i] > Last(p)
                                      THEN q[i] - 1 ELSE q[i]
  BY MovedPath
<1> HIDE DEF r
<1>2. q \in Path /\ Len(p) \in Nat \ {0} /\ Len(q) \in Nat
  BY FrontOfPath DEF Stays, Path
<1>3. Below(p, r) <=> Len(r) >= Len(p) /\ \A i \in 1..(Len(p) - 1) : r[i] = p[i]
  BY <1>1, BelowParent
<1>4. Below(p, q) <=> Len(q) >= Len(p) /\ \A i \in 1..(Len(p) - 1) : q[i] = p[i]
  BY <1>2, BelowParent
<1>5. Len(q) >= Len(p) => \A i \in 1..(Len(p) - 1) : r[i] = q[i]
  BY <1>1, <1>2
<1>6. Below(p, r) <=> Below(p, q)
  BY <1>1, <1>3, <1>4, <1>5
<1> QED
  BY <1>6 DEF r

\* No two paths move to one place.
LEMMA MovedApart ==
  ASSUME NEW p \in Path, p # <<>>, Last(p) \in Nat, NEW q, Stays(p, q), NEW r, Stays(p, r),
         MovedDown(p, q) = MovedDown(p, r)
  PROVE  q = r
<1> DEFINE m == MovedDown(p, q)
<1>1. /\ m \in Path /\ Len(m) = Len(q)
      /\ \A i \in 1..Len(q) : m[i] = IF i = Len(p) /\ Below(p, q) /\ q[i] > Last(p)
                                      THEN q[i] - 1 ELSE q[i]
  BY MovedPath
<1>2. /\ Len(m) = Len(r)
      /\ \A i \in 1..Len(r) : m[i] = IF i = Len(p) /\ Below(p, r) /\ r[i] > Last(p)
                                      THEN r[i] - 1 ELSE r[i]
  BY MovedPath
<1>3. Below(p, q) <=> Below(p, r)
  BY MovedBelow
<1> HIDE DEF m
<1>4. ASSUME NEW i \in 1..Len(q) PROVE q[i] = r[i]
  <2>1. CASE i = Len(p) /\ Below(p, q)
    <3>1. /\ q[i] \in Nat \ {Last(p)} /\ r[i] \in Nat \ {Last(p)}
      BY <1>3, <2>1 DEF Stays
    <3>2. /\ m[i] = IF q[i] > Last(p) THEN q[i] - 1 ELSE q[i]
          /\ m[i] = IF r[i] > Last(p) THEN r[i] - 1 ELSE r[i]
      BY <1>1, <1>2, <1>3, <2>1
    <3> QED BY <3>1, <3>2
  <2>2. CASE ~ (i = Len(p) /\ Below(p, q))
    BY <1>1, <1>2, <1>3, <2>2
  <2> QED BY <2>1, <2>2
<1> QED
  BY <1>1, <1>2, <1>4, SamePath DEF Stays

\* The parent of what moved is where the parent moved; only the items of the array
\* themselves have another index.
LEMMA MovedFront ==
  ASSUME NEW p \in Path, p # <<>>, Last(p) \in Nat, NEW q, Stays(p, q), q # <<>>,
         Stays(p, Front(q))
  PROVE  /\ MovedDown(p, q) # <<>>
         /\ Front(MovedDown(p, q)) = MovedDown(p, Front(q))
         /\ Last(MovedDown(p, q)) =
              IF Front(q) = Front(p) /\ Last(q) > Last(p) THEN Last(q) - 1 ELSE Last(q)
<1> DEFINE r == MovedDown(p, q)
           a == Front(q)
           s == MovedDown(p, a)
           n == Len(p)
<1>1. /\ r \in Path /\ Len(r) = Len(q)
      /\ \A i \in 1..Len(q) : r[i] = IF i = n /\ Below(p, q) /\ q[i] > Last(p)
                                      THEN q[i] - 1 ELSE q[i]
  BY MovedPath
<1>2. /\ s \in Path /\ Len(s) = Len(a)
      /\ \A i \in 1..Len(a) : s[i] = IF i = n /\ Below(p, a) /\ a[i] > Last(p)
                                      THEN a[i] - 1 ELSE a[i]
  BY MovedPath
<1>3. /\ Len(q) \in Nat \ {0} /\ a \in Path /\ Len(a) = Len(q) - 1 /\ Last(q) = q[Len(q)]
      /\ \A i \in 1..(Len(q) - 1) : a[i] = q[i]
  BY FrontOfPath DEF Stays
<1>4. n \in Nat \ {0} /\ q \in Path
  BY FrontOfPath DEF Stays
<1>5. Below(p, q) <=> Len(q) >= n /\ \A i \in 1..(n - 1) : q[i] = p[i]
  BY <1>4, BelowParent
<1>6. Below(p, a) <=> Len(a) >= n /\ \A i \in 1..(n - 1) : a[i] = p[i]
  BY <1>3, BelowParent
<1>7. a = Front(p) <=> Len(q) = n /\ \A i \in 1..(n - 1) : a[i] = p[i]
  <2> DEFINE b == Front(p)
  <2>1. b \in Path /\ Len(b) = n - 1 /\ \A i \in 1..(n - 1) : b[i] = p[i]
    BY FrontOfPath
  <2> HIDE DEF a, b, n
  <2>2. a = b <=> Len(a) = Len(b) /\ \A i \in 1..Len(b) : a[i] = b[i]
    BY <1>3, <2>1, SamePath
  <2>3. a = b <=> Len(q) = n /\ \A i \in 1..(n - 1) : a[i] = p[i]
    BY <1>3, <1>4, <2>1, <2>2
  <2> QED BY <2>3 DEF a, b
<1> HIDE DEF r, s, a, n
<1>8. r # <<>>
  <2>1. Len(<<>>) = 0
    OBVIOUS
  <2> QED BY <1>1, <1>3, <2>1
<1>9. Front(r) = s
  <2>1. /\ Front(r) \in Path /\ Len(Front(r)) = Len(r) - 1
        /\ \A i \in 1..(Len(r) - 1) : Front(r)[i] = r[i]
    BY <1>1, <1>8, FrontOfPath
  <2>2. Below(p, a) <=> Below(p, q) /\ Len(q) # n
    BY <1>3, <1>4, <1>5, <1>6
  <2>3. ASSUME NEW i \in 1..(Len(q) - 1) PROVE r[i] = s[i]
    BY <1>1, <1>2, <1>3, <2>2, <2>3
  <2> QED BY <1>1, <1>2, <1>3, <2>1, <2>3, SamePath
<1>10. Last(r) = IF a = Front(p) /\ Last(q) > Last(p) THEN Last(q) - 1 ELSE Last(q)
  <2>1. Last(r) = r[Len(r)]
    BY <1>1, <1>8, FrontOfPath
  <2>2. Len(q) = n => (Below(p, q) <=> a = Front(p))
    BY <1>3, <1>4, <1>5, <1>7
  <2> QED BY <1>1, <1>3, <1>7, <2>1, <2>2
<1> QED
  BY <1>8, <1>9, <1>10 DEF r, s, a

Elsewhere(doc, p) == DOMAIN doc \ Under(doc, p)

\* RemovePath from an array: its items have the indexes from 0 on again, and each
\* keeps what is in it.
LEMMA RemoveItemKeepsShape ==
  ASSUME NEW doc, Shaped(doc), NEW p \in Path, Fits(doc, p), doc[Front(p)] = "array",
         p \in DOMAIN doc
  PROVE  /\ Shaped(CloseGap(doc, p))
         /\ \A q \in Elsewhere(doc, p) : Stays(p, q)
         /\ DOMAIN CloseGap(doc, p) = {MovedDown(p, q) : q \in Elsewhere(doc, p)}
         /\ \A q \in Elsewhere(doc, p) : CloseGap(doc, p)[MovedDown(p, q)] = doc[q]
         /\ Steps(CloseGap(doc, p), Front(p)) = 0..(Cardinality(Children(doc, Front(p))) - 2)
<1> DEFINE kept == DOMAIN doc \ Under(doc, p)
           M(q) == MovedDown(p, q)
           new  == CloseGap(doc, p)
           A    == Front(p)
           k    == Last(p)
           n    == Cardinality(Children(doc, A))
<1>1. /\ p # <<>> /\ k \in Nat /\ A \in kept /\ <<>> \in kept
      /\ p \in Children(doc, A)
  BY FittingPath DEF Fits
<1>2. n \in Nat /\ Steps(doc, A) = 0..(n - 1) /\ k \in Steps(doc, A)
  <2>1. k \in Steps(doc, A)
    BY <1>1 DEF Steps
  <2> QED BY <1>1, <2>1, ArrayLength
<1>3. ASSUME NEW q \in kept PROVE Stays(p, q)
  <2>1. q \in Path /\ q \in DOMAIN doc
    BY DEF Shaped
  <2>2. ASSUME Below(p, q) PROVE q[Len(p)] \in Nat
    <3>1. q[Len(p)] \in Steps(doc, Front(p))
      BY <1>1, <2>1, <2>2, ItemIndex
    <3> QED BY <1>2, <3>1
  <2>3. ASSUME Below(p, q), q[Len(p)] = k PROVE FALSE
    <3>1. Len(q) >= Len(p) /\ \A i \in 1..(Len(p) - 1) : q[i] = p[i]
      BY <1>1, <2>1, <2>3, BelowParent
    <3>2. p[Len(p)] = k /\ Len(p) \in Nat \ {0} /\ Len(q) \in Nat
      BY <1>1, <2>1, FrontOfPath DEF Path
    <3>3. \A i \in 1..Len(p) : p[i] = q[i]
      BY <2>3, <3>1, <3>2
    <3>4. IsPrefix(p, q)
      BY <2>1, <3>1, <3>2, <3>3, PrefixOfPath
    <3> QED BY <3>4 DEF Under
  <2> QED BY <2>1, <2>2, <2>3 DEF Stays
<1>4. ASSUME NEW q \in kept, NEW r \in kept, M(q) = M(r) PROVE q = r
  BY <1>1, <1>3, <1>4, MovedApart
<1>5. /\ DOMAIN new = {M(q) : q \in kept}
      /\ \A q \in kept : new[M(q)] = doc[q]
  <2>1. new = [x \in {M(q) : q \in kept} |-> doc[CHOOSE r \in kept : M(r) = x]]
    BY DEF CloseGap
  <2> HIDE DEF new, M, kept
  <2>2. ASSUME NEW q \in kept PROVE (CHOOSE r \in kept : M(r) = M(q)) = q
    BY <1>4
  <2> QED BY <2>1, <2>2
<1>6. /\ DOMAIN new \subseteq Path
      /\ \A q \in kept : M(q) \in Path /\ Len(M(q)) = Len(q)
  BY <1>1, <1>3, <1>5, MovedPath
<1>7. M(<<>>) = <<>>
  <2>1. Len(M(<<>>)) = Len(<<>>) /\ Len(<<>>) = 0 /\ M(<<>>) \in Path
    BY <1>1, <1>6
  <2> HIDE DEF M
  <2> QED BY <2>1, FrontOfPath
<1>8. IsFiniteSet(DOMAIN new)
  <2> DEFINE f == [q \in kept |-> M(q)]
             T == {M(q) : q \in kept}
  <2>1. IsFiniteSet(kept)
    BY FS_Subset DEF Shaped
  <2>2. f \in Surjection(kept, T)
    BY DEF Surjection
  <2>3. IsFiniteSet(T)
    <3> HIDE DEF f, T, kept
    <3> QED BY <2>1, <2>2, FS_Surjection
  <2> QED BY <1>5, <2>3
<1>9. ASSUME NEW q \in kept, q # <<>>
      PROVE  /\ Front(q) \in kept /\ M(q) # <<>> /\ Front(M(q)) = M(Front(q))
             /\ Last(M(q)) = IF Front(q) = A /\ Last(q) > k THEN Last(q) - 1 ELSE Last(q)
  <2>1. Front(q) \in kept
    BY <1>9, KeptChildren
  <2>2. Stays(p, q) /\ Stays(p, Front(q))
    BY <1>3, <2>1
  <2> QED BY <1>1, <1>9, <2>1, <2>2, MovedFront
<1>10. ASSUME NEW q \in kept
       PROVE  Children(new, M(q)) = {M(c) : c \in Children(doc, q) \ {p}}
  <2>1. Children(doc, q) \ Under(doc, p) = Children(doc, q) \ {p}
    BY KeptChildren
  <2>2. ASSUME NEW c \in Children(doc, q) \ {p} PROVE M(c) \in Children(new, M(q))
    <3>1. c \in kept /\ c # <<>> /\ Front(c) = q
      BY <2>1 DEF Children
    <3>2. M(c) \in DOMAIN new /\ M(c) # <<>> /\ Front(M(c)) = M(q)
      BY <1>5, <1>9, <3>1
    <3> QED BY <3>2 DEF Children
  <2>3. ASSUME NEW x \in Children(new, M(q))
        PROVE  \E c \in Children(doc, q) \ {p} : x = M(c)
    <3>1. x \in DOMAIN new /\ x # <<>> /\ Front(x) = M(q)
      BY DEF Children
    <3>2. PICK c \in kept : x = M(c)
      BY <1>5, <3>1
    <3>3. c # <<>>
      BY <1>7, <3>1, <3>2
    <3>4. Front(c) = q
      BY <1>4, <1>9, <3>1, <3>2, <3>3
    <3>5. c \in Children(doc, q) \ Under(doc, p)
      BY <3>3, <3>4 DEF Children
    <3> QED BY <2>1, <3>2, <3>5
  <2> HIDE DEF M, new
  <2> QED BY <2>2, <2>3
<1> HIDE DEF M, new
<1>11. ASSUME NEW q \in kept, NEW c \in Children(doc, q) \ {p}
       PROVE  Last(M(c)) = IF q = A /\ Last(c) > k THEN Last(c) - 1 ELSE Last(c)
  <2>1. Children(doc, q) \ Under(doc, p) = Children(doc, q) \ {p}
    BY KeptChildren
  <2>2. c \in kept /\ c # <<>> /\ Front(c) = q
    BY <2>1 DEF Children
  <2> QED BY <1>9, <2>2
<1>12. ASSUME NEW q \in kept, q # A PROVE Holds(new, M(q))
  <2>1. p \notin Children(doc, q)
    BY <1>12 DEF Children
  <2>2. Steps(new, M(q)) = {Last(x) : x \in {M(c) : c \in Children(doc, q)}}
    BY <1>10, <2>1 DEF Steps
  <2>3. \A c \in Children(doc, q) : Last(M(c)) = Last(c)
    BY <1>11, <1>12, <2>1
  <2>4. Steps(new, M(q)) = Steps(doc, q)
    BY <2>2, <2>3 DEF Steps
  <2>5. new[M(q)] = doc[q] /\ Holds(doc, q)
    BY <1>5 DEF Shaped
  <2> QED BY <2>4, <2>5 DEF Holds
<1>13. Holds(new, M(A)) /\ Steps(new, M(A)) = 0..(n - 2)
  <2>1. new[M(A)] = "array"
    BY <1>1, <1>5
  <2>2. Steps(new, M(A)) = {Last(M(c)) : c \in Children(doc, A) \ {p}}
    <3>1. Children(new, M(A)) = {M(c) : c \in Children(doc, A) \ {p}}
      BY <1>1, <1>10
    <3> QED BY <3>1 DEF Steps
  <2>3. ASSUME NEW c \in Children(doc, A) \ {p}
        PROVE  /\ Last(c) \in 0..(n - 1) /\ Last(c) # k
               /\ Last(M(c)) = IF Last(c) > k THEN Last(c) - 1 ELSE Last(c)
    <3>1. Last(c) \in Steps(doc, A)
      BY DEF Steps
    <3>2. c \in Path /\ c # <<>> /\ Front(c) = A
      BY DEF Children, Shaped
    <3>3. Last(c) # k
      BY <1>1, <3>2, FrontAndLast
    <3> QED BY <1>1, <1>2, <1>11, <3>1, <3>3
  <2>4. Steps(new, M(A)) \subseteq 0..(n - 2)
    <3> SUFFICES ASSUME NEW c \in Children(doc, A) \ {p} PROVE Last(M(c)) \in 0..(n - 2)
      BY <2>2
    <3> QED BY <1>2, <2>3
  <2>5. ASSUME NEW i \in 0..(n - 2) PROVE i \in Steps(new, M(A))
    <3> DEFINE j == IF i < k THEN i ELSE i + 1
    <3>1. j \in 0..(n - 1) /\ j # k /\ i = IF j > k THEN j - 1 ELSE j
      BY <1>1, <1>2
    <3>2. PICK c \in Children(doc, A) : Last(c) = j
      BY <1>2, <3>1 DEF Steps
    <3>3. c # p
      BY <3>1, <3>2
    <3>4. Last(M(c)) = i
      BY <2>3, <3>1, <3>2, <3>3
    <3> QED BY <2>2, <3>3, <3>4
  <2>6. Steps(new, M(A)) = 0..(n - 2)
    BY <2>4, <2>5
  <2>7. n >= 1 /\ Cardinality(0..(n - 2)) = n - 1
    <3>1. n >= 1
      BY <1>2
    <3>2. Cardinality(0..(n - 2)) = IF 0 > n - 2 THEN 0 ELSE n - 2 - 0 + 1
      <4>1. 0 \in Int /\ n - 2 \in Int
        BY <1>2
      <4> QED BY <4>1, FS_Interval
    <3> QED BY <1>2, <3>1, <3>2
  <2>8. Holds(new, M(A))
    BY <1>2, <2>1, <2>6, <2>7 DEF Holds
  <2> QED BY <2>6, <2>8
<1>14. ASSUME NEW x \in DOMAIN new
       PROVE  (x # <<>> => Front(x) \in DOMAIN new) /\ Holds(new, x)
  <2>1. PICK q \in kept : x = M(q)
    BY <1>5
  <2>2. ASSUME x # <<>> PROVE Front(x) \in DOMAIN new
    <3>1. q # <<>>
      BY <1>7, <2>1, <2>2
    <3> QED BY <1>5, <1>9, <2>1, <3>1
  <2> QED BY <1>12, <1>13, <2>1, <2>2
<1>15. Shaped(new)
  BY <1>1, <1>5, <1>6, <1>7, <1>8, <1>14 DEF Shaped
<1>16. M(A) = A
  <2>1. ~ Below(p, A)
    BY DEF Below, IsStrictPrefix
  <2> QED BY <2>1 DEF M, MovedDown, Below
<1>17. Steps(new, A) = 0..(n - 2)
  BY <1>13, <1>16
<1>18. /\ \A q \in kept : Stays(p, q)
       /\ DOMAIN new = {MovedDown(p, q) : q \in kept}
       /\ \A q \in kept : new[MovedDown(p, q)] = doc[q]
  BY <1>3, <1>5 DEF M
<1> QED
  BY <1>15, <1>17, <1>18 DEF new, Elsewhere

-----------------------------------------------------------------------------
(* Operations and deltas *)

\* RemovePath, of a key or of an item.
LEMMA RemoveKeepsShape ==
  ASSUME NEW doc, Shaped(doc), NEW p \in Path, RemovePath(doc, p).ok
  PROVE  Shaped(RemovePath(doc, p).doc)
<1>1. Fits(doc, p) /\ ~ NoItem(doc, p)
  BY DEF RemovePath, Error
<1>2. CASE doc[Front(p)] = "array"
  <2>1. p \in DOMAIN doc
    BY <1>1, <1>2 DEF NoItem
  <2>2. RemovePath(doc, p).doc = CloseGap(doc, p)
    BY <1>1, <1>2 DEF RemovePath, Becomes
  <2> QED BY <1>1, <1>2, <2>1, <2>2, RemoveItemKeepsShape
<1>3. CASE doc[Front(p)] # "array"
  <2>1. doc[Front(p)] = "object"
    BY <1>1, <1>3 DEF Fits
  <2>2. RemovePath(doc, p).doc = Restricted(doc, DOMAIN doc \ Under(doc, p))
    BY <1>1, <1>3 DEF RemovePath, Becomes
  <2> QED BY <1>1, <2>1, <2>2, RemoveKeyKeepsShape
<1> QED
  BY <1>2, <1>3

\* apply_projection_delta, operation by operation: whatever the operation does to a
\* document it does not fail on, what it leaves is a document.
LEMMA OperationKeepsShape ==
  ASSUME NEW doc, Shaped(doc), NEW op \in Operation, ApplyOp(doc, op).ok
  PROVE  Shaped(ApplyOp(doc, op).doc)
<1>1. op.op \in {"set", "remove", "appendUnique"} /\ op.path \in Path /\ op.leaf \in Leaves
  BY DEF Operation
<1>2. CASE op.op = "set"
  <2>1. ApplyOp(doc, op) = WritePath(doc, op.path, op.leaf)
    BY <1>2 DEF ApplyOp
  <2> QED BY <1>1, <2>1, WriteKeepsShape
<1>3. CASE op.op = "remove"
  <2>1. ApplyOp(doc, op) = RemovePath(doc, op.path)
    BY <1>3 DEF ApplyOp
  <2> QED BY <1>1, <2>1, RemoveKeepsShape
<1>4. CASE op.op = "appendUnique"
  <2>1. ApplyOp(doc, op) = AppendUnique(doc, op.path, op.leaf)
    BY <1>4 DEF ApplyOp
  <2> QED BY <1>1, <2>1, AppendKeepsShape
<1> QED
  BY <1>1, <1>2, <1>3, <1>4

LEMMA PrefixInside ==
  ASSUME NEW n \in Nat, NEW k \in Nat, k + 1 <= n
  PROVE  1..(k + 1) \in SUBSET (1..n) /\ 1..(k + 1) # {}
<1>1. \A i \in 1..(k + 1) : i \in 1..n
  OBVIOUS
<1>2. k + 1 \in 1..(k + 1)
  OBVIOUS
<1> QED BY <1>1, <1>2

-----------------------------------------------------------------------------
(* What the operations do *)

Rest(p, q) == SubSeq(q, Len(p) + 1, Len(q))

LEMMA RestIs ==
  ASSUME NEW p \in Path, NEW q \in Path, IsPrefix(p, q)
  PROVE  /\ Rest(p, q) \in Path
         /\ Len(Rest(p, q)) = Len(q) - Len(p)
         /\ \A i \in 1..(Len(q) - Len(p)) : Rest(p, q)[i] = q[Len(p) + i]
<1> DEFINE S == Names \cup Nat
           m == Len(p) + 1
           n == Len(q)
           r == SubSeq(q, m, n)
<1>1. q \in Seq(S) /\ m \in Nat \ {0} /\ n \in Nat /\ m <= n + 1 /\ Len(p) = m - 1
  BY PrefixOfPath DEF Path
<1>2. \A i \in m..n : q[i] \in S
  BY <1>1
<1>3. /\ r \in Seq(S)
      /\ Len(r) = IF m <= n THEN n - m + 1 ELSE 0
      /\ \A i \in 1..(n - m + 1) : r[i] = q[m + i - 1]
  <2>1. m \in Int /\ n \in Int
    BY <1>1
  <2> HIDE DEF S, m, n
  <2> QED BY <1>2, <2>1, SubSeqProperties
<1> HIDE DEF S, r, m, n
<1>4. Len(r) = n - (m - 1)
  BY <1>1, <1>3
<1>5. ASSUME NEW i \in 1..(n - (m - 1)) PROVE r[i] = q[m - 1 + i]
  <2>1. i \in 1..(n - m + 1) /\ m + i - 1 = m - 1 + i
    BY <1>1
  <2> QED BY <1>3, <2>1
<1> QED
  BY <1>1, <1>3, <1>4, <1>5 DEF Rest, Path, S, r, m, n

LEMMA ItselfUnder ==
  ASSUME NEW p \in Path
  PROVE  IsPrefix(p, p) /\ Rest(p, p) = <<>>
<1>1. IsPrefix(p, p)
  BY PrefixOfPath DEF Path
<1>2. Rest(p, p) \in Path /\ Len(Rest(p, p)) = 0
  <2>1. Len(p) - Len(p) = 0
    BY DEF Path
  <2> QED BY <1>1, <2>1, RestIs
<1> QED
  BY <1>1, <1>2, FrontOfPath

\* A value with nothing in it.
LEMMA Alone ==
  ASSUME NEW doc, NEW p \in Path, Under(doc, p) = {p}
  PROVE  Value(doc, p) = Leaf(doc[p])
<1>1. SubSeq(p, Len(p) + 1, Len(p)) = <<>>
  BY ItselfUnder DEF Rest
<1> QED
  BY <1>1 DEF Value, Leaf

\* What is the same under two paths is one value.
LEMMA SameValue ==
  ASSUME NEW doc, NEW new, NEW p, NEW q,
         \A x \in Under(doc, p) :
            \E y \in Under(new, q) : Rest(p, x) = Rest(q, y) /\ doc[x] = new[y],
         \A y \in Under(new, q) :
            \E x \in Under(doc, p) : Rest(p, x) = Rest(q, y) /\ doc[x] = new[y]
  PROVE  Value(doc, p) = Value(new, q)
<1>1. Value(doc, p) = {<<Rest(p, x), doc[x]>> : x \in Under(doc, p)}
  BY DEF Value, Rest
<1>2. Value(new, q) = {<<Rest(q, y), new[y]>> : y \in Under(new, q)}
  BY DEF Value, Rest
<1>3. \A x \in Under(doc, p) : <<Rest(p, x), doc[x]>> \in {<<Rest(q, y), new[y]>> : y \in Under(new, q)}
  OBVIOUS
<1>4. \A y \in Under(new, q) : <<Rest(q, y), new[y]>> \in {<<Rest(p, x), doc[x]>> : x \in Under(doc, p)}
  OBVIOUS
<1> QED
  BY <1>1, <1>2, <1>3, <1>4

LEMMA SetDoes ==
  ASSUME NEW doc, Shaped(doc), NEW p \in Path, NEW leaf \in Leaves,
         WritePath(doc, p, leaf).ok
  PROVE  SetAt(doc, WritePath(doc, p, leaf).doc, p, leaf)
<1> DEFINE kept == DOMAIN doc \ Under(doc, p)
           new  == [q \in kept \cup {p} |-> IF q = p THEN leaf ELSE doc[q]]
<1>1. WritePath(doc, p, leaf).doc = new
  BY DEF WritePath, Becomes, Error
<1>2. IsPrefix(p, p)
  BY ItselfUnder
<1>3. Under(new, p) = {p} /\ DOMAIN new \ Under(new, p) = kept
  BY <1>2 DEF Under
<1>4. new[p] = leaf /\ \A q \in kept : new[q] = doc[q]
  BY <1>2 DEF Under
<1> HIDE DEF new
<1>5. SameAside(doc, new, p)
  BY <1>3, <1>4 DEF SameAside, Restricted
<1>6. Value(new, p) = Leaf(leaf)
  BY <1>3, <1>4, Alone
<1> QED
  BY <1>1, <1>5, <1>6 DEF SetAt

LEMMA RemoveKeyDoes ==
  ASSUME NEW doc, NEW p \in Path
  PROVE  KeyRemoved(doc, Restricted(doc, DOMAIN doc \ Under(doc, p)), p)
<1> DEFINE new == Restricted(doc, DOMAIN doc \ Under(doc, p))
<1>1. /\ DOMAIN new = DOMAIN doc \ Under(doc, p) /\ Under(new, p) = {}
      /\ \A q \in DOMAIN new : new[q] = doc[q]
  BY DEF Restricted, Under
<1> HIDE DEF new
<1>2. SameAside(doc, new, p)
  BY <1>1 DEF SameAside, Restricted
<1>3. Value(new, p) = {}
  BY <1>1 DEF Value
<1> QED
  BY <1>2, <1>3 DEF KeyRemoved, new

\* What is under a path that is not in the document: nothing.
LEMMA NothingUnder ==
  ASSUME NEW doc, Shaped(doc), NEW p \in Path, p \notin DOMAIN doc
  PROVE  Under(doc, p) = {}
<1> SUFFICES ASSUME NEW q \in DOMAIN doc, IsPrefix(p, q) PROVE FALSE
  BY DEF Under
<1>1. q \in Path /\ Len(p) \in Nat /\ Len(p) <= Len(q) /\ \A i \in 1..Len(p) : p[i] = q[i]
  BY PrefixOfPath DEF Shaped, Path
<1>2. PICK r \in DOMAIN doc : Len(r) = Len(p) /\ \A i \in 1..Len(p) : r[i] = q[i]
  BY <1>1, PrefixInDocument
<1>3. r = p
  BY <1>1, <1>2, SamePath DEF Shaped
<1> QED
  BY <1>3

\* A value that holds no others is alone under its path.
LEMMA LeafAlone ==
  ASSUME NEW doc, Shaped(doc), NEW c \in DOMAIN doc, doc[c] \notin Containers
  PROVE  Under(doc, c) = {c}
<1>1. c \in Path /\ IsPrefix(c, c)
  BY ItselfUnder DEF Shaped
<1>2. Children(doc, c) = {}
  BY DEF Shaped, Holds, Steps, Containers
<1>3. ASSUME NEW q \in DOMAIN doc, IsPrefix(c, q), q # c PROVE FALSE
  <2>1. q \in Path /\ Len(c) \in Nat /\ Len(c) <= Len(q) /\ \A i \in 1..Len(c) : c[i] = q[i]
    <3>1. q \in Path
      BY DEF Shaped
    <3>2. Len(c) <= Len(q) /\ \A i \in 1..Len(c) : c[i] = q[i]
      BY <1>1, <1>3, <3>1, PrefixOfPath
    <3> QED BY <1>1, <3>1, <3>2 DEF Path
  <2>2. Len(q) \in Nat /\ Len(q) # Len(c)
    BY <1>1, <1>3, <2>1, SamePath DEF Path
  <2>3. PICK r \in DOMAIN doc : Len(r) = Len(c) + 1 /\ \A i \in 1..(Len(c) + 1) : r[i] = q[i]
    <3>1. Len(c) + 1 \in Nat /\ Len(c) + 1 <= Len(q)
      BY <2>1, <2>2
    <3> QED BY <3>1, PrefixInDocument
  <2>4. r \in Path /\ r # <<>>
    <3>1. Len(<<>>) = 0
      OBVIOUS
    <3> QED BY <2>1, <2>3, <3>1 DEF Shaped
  <2>5. /\ Front(r) \in Path /\ Len(Front(r)) = Len(r) - 1
        /\ \A i \in 1..(Len(r) - 1) : Front(r)[i] = r[i]
    BY <2>4, FrontOfPath
  <2>6. Front(r) = c
    <3>1. Len(Front(r)) = Len(c) /\ \A i \in 1..Len(c) : Front(r)[i] = c[i]
      BY <2>1, <2>3, <2>5
    <3> QED BY <1>1, <2>5, <3>1, SamePath
  <2> QED BY <1>2, <2>4, <2>6 DEF Children
<1> QED
  BY <1>1, <1>3 DEF Under

LEMMA ValueIsLeaf ==
  ASSUME NEW doc, Shaped(doc), NEW c \in DOMAIN doc, NEW leaf \in Leaves
  PROVE  Value(doc, c) = Leaf(leaf) <=> doc[c] = leaf
<1>1. ASSUME Value(doc, c) = Leaf(leaf) PROVE doc[c] = leaf
  <2>1. c \in Path /\ c \in Under(doc, c) /\ SubSeq(c, Len(c) + 1, Len(c)) = <<>>
    BY ItselfUnder DEF Under, Shaped, Rest
  <2>2. << <<>>, doc[c] >> \in Value(doc, c)
    BY <2>1 DEF Value
  <2> QED BY <1>1, <2>2 DEF Leaf
<1>2. ASSUME doc[c] = leaf PROVE Value(doc, c) = Leaf(leaf)
  <2>1. Under(doc, c) = {c}
    BY <1>2, LeafAlone, DeltaAssumption
  <2> QED BY <1>2, <2>1, Alone DEF Shaped
<1> QED
  BY <1>1, <1>2

\* The items of an array, by their indexes.
LEMMA ItemsAre ==
  ASSUME NEW doc, Shaped(doc), NEW q \in DOMAIN doc, doc[q] = "array"
  PROVE  /\ \A j \in 0..(Cardinality(Children(doc, q)) - 1) : Append(q, j) \in Children(doc, q)
         /\ \A c \in Children(doc, q) :
              \E j \in 0..(Cardinality(Children(doc, q)) - 1) : c = Append(q, j)
<1> DEFINE n == Cardinality(Children(doc, q))
<1>1. n \in Nat /\ Steps(doc, q) = 0..(n - 1)
  BY ArrayLength
<1>2. q \in Path /\ \A c \in Children(doc, q) : c \in Path /\ c # <<>> /\ Front(c) = q
  BY DEF Children, Shaped
<1>3. ASSUME NEW c \in Children(doc, q), NEW j \in 0..(n - 1), Last(c) = j
      PROVE  c = Append(q, j)
  <2>1. j \in Names \cup Nat
    BY <1>1
  <2>2. Append(q, j) \in Path /\ Append(q, j) # <<>> /\ Front(Append(q, j)) = q /\ Last(Append(q, j)) = j
    BY <1>2, <2>1, AppendToPath
  <2> QED BY <1>2, <1>3, <2>2, FrontAndLast
<1>4. ASSUME NEW j \in 0..(n - 1) PROVE Append(q, j) \in Children(doc, q)
  <2>1. PICK c \in Children(doc, q) : Last(c) = j
    BY <1>1 DEF Steps
  <2> QED BY <1>3, <2>1
<1>5. ASSUME NEW c \in Children(doc, q) PROVE \E j \in 0..(n - 1) : c = Append(q, j)
  <2>1. Last(c) \in 0..(n - 1)
    BY <1>1 DEF Steps
  <2> QED BY <1>3, <2>1
<1> QED
  BY <1>4, <1>5

LEMMA AppendDoes ==
  ASSUME NEW doc, Shaped(doc), NEW p \in Path, NEW leaf \in Leaves,
         AppendUnique(doc, p, leaf).ok
  PROVE  ItemsBecome(doc, AppendUnique(doc, p, leaf).doc, p,
            IF \E i \in DOMAIN Items(doc, p) : Items(doc, p)[i] = Leaf(leaf)
            THEN Items(doc, p) ELSE Append(Items(doc, p), Leaf(leaf)))
<1> DEFINE n   == Cardinality(Children(doc, p))
           last == Append(p, n)
           new == [q \in DOMAIN doc \cup {last} |-> IF q = last THEN leaf ELSE doc[q]]
           there == \E c \in Children(doc, p) : doc[c] = leaf
           listed == \E i \in DOMAIN Items(doc, p) : Items(doc, p)[i] = Leaf(leaf)
<1>1. p \in DOMAIN doc /\ doc[p] = "array"
  BY DEF AppendUnique, Error
<1>2. AppendUnique(doc, p, leaf).doc = IF there THEN doc ELSE new
  BY <1>1 DEF AppendUnique, Becomes
<1>3. n \in Nat /\ Steps(doc, p) = 0..(n - 1)
  BY <1>1, ArrayLength
<1>4. DOMAIN Items(doc, p) = 1..n /\ \A i \in 1..n : Items(doc, p)[i] = Value(doc, Append(p, i - 1))
  BY DEF Items
<1>5. listed <=> there
  <2>1. ASSUME NEW i \in 1..n, Items(doc, p)[i] = Leaf(leaf) PROVE there
    <3>1. Append(p, i - 1) \in Children(doc, p)
      <4>1. i - 1 \in 0..(n - 1)
        BY <1>3
      <4> QED BY <1>1, <4>1, ItemsAre
    <3>2. doc[Append(p, i - 1)] = leaf
      <4>1. Append(p, i - 1) \in DOMAIN doc
        BY <3>1 DEF Children
      <4> QED BY <1>4, <2>1, <4>1, ValueIsLeaf
    <3> QED BY <3>1, <3>2
  <2>2. ASSUME NEW c \in Children(doc, p), doc[c] = leaf PROVE listed
    <3>1. PICK j \in 0..(n - 1) : c = Append(p, j)
      BY <1>1, ItemsAre
    <3>2. j + 1 \in 1..n /\ j + 1 - 1 = j
      BY <1>3
    <3>3. Value(doc, c) = Leaf(leaf)
      <4>1. c \in DOMAIN doc
        BY DEF Children
      <4> QED BY <2>2, <4>1, ValueIsLeaf
    <3>4. Items(doc, p)[j + 1] = Leaf(leaf)
      BY <1>4, <3>1, <3>2, <3>3
    <3> QED BY <1>4, <3>2, <3>4
  <2> QED BY <1>4, <2>1, <2>2
<1>6. CASE there
  <2>1. ItemsBecome(doc, doc, p, Items(doc, p))
    BY <1>1 DEF ItemsBecome, SameAside
  <2> HIDE DEF there, listed, new
  <2> QED BY <1>2, <1>5, <1>6, <2>1 DEF listed
<1>7. CASE ~ there
  <2>1. /\ last \in Path /\ last # <<>> /\ Front(last) = p /\ Last(last) = n
        /\ ~ IsPrefix(last, p)
    <3>1. n \in Names \cup Nat
      BY <1>3
    <3> HIDE DEF n
    <3>2. last \in Path /\ last # <<>> /\ Front(last) = p /\ Last(last) = n
      BY <3>1, AppendToPath
    <3> QED BY <3>2, PrefixOfFront
  <2>2. last \notin DOMAIN doc
    <3>1. ASSUME last \in DOMAIN doc PROVE n \in Steps(doc, p)
      BY <2>1, <3>1 DEF Steps, Children
    <3> QED BY <1>3, <3>1
  <2>3. IsPrefix(p, last) /\ IsPrefix(last, last) /\ IsPrefix(p, p)
    <3> HIDE DEF last
    <3> QED BY <2>1, PrefixOfFront, ItselfUnder
  <2>4. Children(new, p) = Children(doc, p) \cup {last}
    BY <2>1 DEF Children
  <2>5. Cardinality(Children(new, p)) = n + 1
    <3>1. IsFiniteSet(Children(doc, p))
      BY FS_Subset DEF Children, Shaped
    <3>2. last \notin Children(doc, p)
      BY <2>2 DEF Children
    <3> HIDE DEF last, new
    <3> QED BY <2>4, <3>1, <3>2, FS_AddElement
  <2>6. /\ DOMAIN new = DOMAIN doc \cup {last} /\ new[last] = leaf
        /\ \A q \in DOMAIN doc : new[q] = doc[q]
    BY <2>2
  <2> HIDE DEF new, last
  <2>7. Value(new, last) = Leaf(leaf)
    <3>1. Under(doc, last) = {}
      BY <2>1, <2>2, NothingUnder
    <3>2. Under(new, last) = {last}
      BY <2>3, <2>6, <3>1 DEF Under
    <3> QED BY <2>1, <2>6, <3>2, Alone
  <2>8. ASSUME NEW i \in 1..n PROVE Value(new, Append(p, i - 1)) = Value(doc, Append(p, i - 1))
    <3> DEFINE x == Append(p, i - 1)
    <3>1. x \in Path /\ x # <<>> /\ Front(x) = p /\ Last(x) = i - 1
      <4>1. i - 1 \in Names \cup Nat
        BY <1>3
      <4> QED BY <4>1, AppendToPath
    <3>2. x # last
      <4>1. i - 1 # n
        <5> HIDE DEF n
        <5> QED BY <1>3
      <4> QED BY <2>1, <3>1, <4>1
    <3> HIDE DEF x
    <3>3. ~ IsPrefix(x, p)
      BY <3>1, PrefixOfFront
    <3>4. ~ IsPrefix(x, last)
      BY <2>1, <3>1, <3>2, <3>3, PrefixOfFront
    <3>5. Under(new, x) = Under(doc, x)
      BY <2>6, <3>4 DEF Under
    <3>6. \A q \in Under(doc, x) : new[q] = doc[q]
      BY <2>6 DEF Under
    <3>7. Value(new, x) = Value(doc, x)
      BY <3>5, <3>6, SameValue
    <3> QED BY <3>7 DEF x
  <2>9. SameAside(doc, new, p)
    <3>1. Under(new, p) = Under(doc, p) \cup {last}
      BY <2>3, <2>6 DEF Under
    <3>2. DOMAIN new \ Under(new, p) = DOMAIN doc \ Under(doc, p)
      BY <2>2, <2>6, <3>1
    <3> QED BY <2>6, <3>2 DEF SameAside, Restricted
  <2>10. Items(new, p) = Append(Items(doc, p), Leaf(leaf))
    <3> DEFINE S == {Value(doc, Append(p, i - 1)) : i \in 1..n} \cup {Leaf(leaf)}
               old == Items(doc, p)
               l == Leaf(leaf)
    <3>1. old \in Seq(S) /\ Len(old) = n
      <4>1. old = [i \in 1..n |-> Value(doc, Append(p, i - 1))] /\ old \in [1..n -> S]
        BY DEF Items
      <4> HIDE DEF old, S, n
      <4> QED BY <1>3, <4>1
    <3>2. l \in S
      OBVIOUS
    <3>3. DOMAIN Items(new, p) = 1..(n + 1)
      BY <2>5 DEF Items
    <3>4. \A i \in 1..(n + 1) : Items(new, p)[i] = Value(new, Append(p, i - 1))
      BY <2>5 DEF Items
    <3>5. ASSUME NEW i \in 1..n PROVE Items(new, p)[i] = old[i]
      BY <1>3, <1>4, <2>8, <3>4
    <3>6. Items(new, p)[n + 1] = l
      <4>1. n + 1 \in 1..(n + 1) /\ n + 1 - 1 = n
        BY <1>3
      <4>2. Items(new, p)[n + 1] = Value(new, Append(p, n))
        <5> HIDE DEF n
        <5> DEFINE m == n + 1
        <5>1. m \in 1..(n + 1)
          BY <4>1
        <5> HIDE DEF m
        <5>2. Items(new, p)[m] = Value(new, Append(p, m - 1))
          BY <3>4, <5>1
        <5>3. m = n + 1 /\ m - 1 = n
          BY <1>3 DEF m
        <5> QED BY <5>2, <5>3
      <4>3. Value(new, Append(p, n)) = Leaf(leaf)
        BY <2>7 DEF last
      <4> QED BY <4>2, <4>3
    <3>7. Items(new, p) = [i \in 1..(n + 1) |-> Items(new, p)[i]]
      BY <2>5 DEF Items
    <3> HIDE DEF S, old, l, n
    <3>8. /\ Append(old, l) \in Seq(S) /\ Len(Append(old, l)) = n + 1
          /\ \A i \in 1..n : Append(old, l)[i] = old[i]
          /\ Append(old, l)[n + 1] = l
      BY <1>3, <3>1, <3>2
    <3>9. Append(old, l) = [i \in 1..(n + 1) |-> Append(old, l)[i]]
      <4> DEFINE r == Append(old, l)
      <4>1. r \in Seq(S) /\ Len(r) = n + 1
        BY <3>8
      <4> HIDE DEF r
      <4>2. r \in [1..(n + 1) -> S]
        BY <4>1
      <4>3. r = [i \in 1..(n + 1) |-> r[i]]
        BY <4>2
      <4> QED BY <4>3 DEF r
    <3>10. ASSUME NEW i \in 1..(n + 1) PROVE Items(new, p)[i] = Append(old, l)[i]
      <4>1. i \in 1..n \/ i = n + 1
        BY <1>3
      <4> QED BY <3>5, <3>6, <3>8, <4>1
    <3>11. Items(new, p) = Append(old, l)
      BY <3>7, <3>9, <3>10
    <3> QED BY <3>11 DEF old, l
  <2>11. p \in DOMAIN new /\ new[p] = "array"
    BY <1>1, <2>6
  <2>12. ItemsBecome(doc, new, p, Append(Items(doc, p), Leaf(leaf)))
    BY <2>9, <2>10, <2>11 DEF ItemsBecome
  <2> HIDE DEF there, listed
  <2> QED BY <1>2, <1>5, <1>7, <2>12 DEF listed, new, last
<1> QED
  BY <1>6, <1>7

LEMMA RemoveAtIs ==
  ASSUME NEW S, NEW s \in Seq(S), NEW i \in 1..Len(s)
  PROVE  /\ RemoveAt(s, i) \in Seq(S)
         /\ Len(RemoveAt(s, i)) = Len(s) - 1
         /\ \A j \in 1..(Len(s) - 1) : RemoveAt(s, i)[j] = IF j < i THEN s[j] ELSE s[j + 1]
<1> DEFINE a == SubSeq(s, 1, i - 1)
           b == SubSeq(s, i + 1, Len(s))
<1>1. a \in Seq(S) /\ Len(a) = i - 1 /\ \A j \in 1..(i - 1) : a[j] = s[j]
  OBVIOUS
<1>2. b \in Seq(S) /\ Len(b) = Len(s) - i /\ \A j \in 1..(Len(s) - i) : b[j] = s[i + j]
  OBVIOUS
<1>3. RemoveAt(s, i) = a \o b
  BY DEF RemoveAt
<1> HIDE DEF a, b
<1>4. /\ a \o b \in Seq(S)
      /\ Len(a \o b) = Len(a) + Len(b)
      /\ \A j \in 1..(Len(a) + Len(b)) : (a \o b)[j] = IF j <= Len(a) THEN a[j] ELSE b[j - Len(a)]
  BY <1>1, <1>2, ConcatProperties
<1>5. Len(a) + Len(b) = Len(s) - 1
  BY <1>1, <1>2
<1>6. ASSUME NEW j \in 1..(Len(s) - 1)
      PROVE  (a \o b)[j] = IF j < i THEN s[j] ELSE s[j + 1]
  <2>1. CASE j < i
    BY <1>1, <1>4, <1>5, <2>1
  <2>2. CASE ~ (j < i)
    <3>1. j - (i - 1) \in 1..(Len(s) - i) /\ i + (j - (i - 1)) = j + 1
      BY <2>2
    <3>2. (a \o b)[j] = b[j - (i - 1)]
      BY <1>1, <1>4, <1>5, <2>2
    <3> QED BY <1>2, <2>2, <3>1, <3>2
  <2> QED BY <2>1, <2>2
<1> QED
  BY <1>3, <1>4, <1>5, <1>6

\* The paths of one item of the array in which p is.
LEMMA InItem ==
  ASSUME NEW p \in Path, p # <<>>, NEW j \in Nat, NEW q \in Path
  PROVE  /\ IsPrefix(Append(Front(p), j), q) <=> Below(p, q) /\ q[Len(p)] = j
         /\ Len(Append(Front(p), j)) = Len(p)
         /\ Append(Front(p), j) \in Path
<1> DEFINE a == Append(Front(p), j)
<1>1. /\ Len(p) \in Nat \ {0} /\ Front(p) \in Path /\ Len(Front(p)) = Len(p) - 1
      /\ \A i \in 1..(Len(p) - 1) : Front(p)[i] = p[i]
  BY FrontOfPath
<1>2. a \in Path /\ a # <<>> /\ Front(a) = Front(p) /\ Last(a) = j /\ Len(a) = Len(p)
  <2>1. Len(Front(p)) + 1 = Len(p) /\ j \in Names \cup Nat
    BY <1>1
  <2> QED BY <1>1, <2>1, AppendToPath
<1> HIDE DEF a
<1>3. a[Len(p)] = j /\ \A i \in 1..(Len(p) - 1) : a[i] = p[i]
  <2>1. Last(a) = a[Len(a)] /\ \A i \in 1..(Len(a) - 1) : Front(a)[i] = a[i]
    BY <1>2, FrontOfPath
  <2> QED BY <1>1, <1>2, <2>1
<1>4. IsPrefix(a, q) <=> Len(p) <= Len(q) /\ \A i \in 1..Len(p) : a[i] = q[i]
  BY <1>2, PrefixOfPath
<1>5. Below(p, q) <=> Len(q) >= Len(p) /\ \A i \in 1..(Len(p) - 1) : q[i] = p[i]
  BY BelowParent
<1>6. (\A i \in 1..Len(p) : a[i] = q[i])
        <=> q[Len(p)] = j /\ \A i \in 1..(Len(p) - 1) : q[i] = p[i]
  <2>1. \A i \in 1..Len(p) : i = Len(p) \/ i \in 1..(Len(p) - 1)
    BY <1>1
  <2>2. Len(p) \in 1..Len(p) /\ \A i \in 1..(Len(p) - 1) : i \in 1..Len(p)
    BY <1>1
  <2> QED BY <1>3, <2>1, <2>2
<1>7. Len(q) \in Nat
  BY DEF Path
<1> QED
  BY <1>1, <1>2, <1>4, <1>5, <1>6, <1>7 DEF a

\* Where what is in an item goes, and that it goes there whole.
LEMMA MovedItem ==
  ASSUME NEW p \in Path, p # <<>>, Last(p) \in Nat, NEW q, Stays(p, q), NEW j \in Nat,
         NEW from, from = IF j < Last(p) THEN j ELSE j + 1
  PROVE  /\ IsPrefix(Append(Front(p), j), MovedDown(p, q))
              <=> IsPrefix(Append(Front(p), from), q)
         /\ IsPrefix(Append(Front(p), from), q) =>
              Rest(Append(Front(p), j), MovedDown(p, q)) = Rest(Append(Front(p), from), q)
<1> DEFINE m == MovedDown(p, q)
           l == Len(p)
           a == Append(Front(p), j)
           b == Append(Front(p), from)
<1>1. /\ m \in Path /\ Len(m) = Len(q) /\ (Below(p, m) <=> Below(p, q))
      /\ \A i \in 1..Len(q) : m[i] = IF i = l /\ Below(p, q) /\ q[i] > Last(p)
                                     THEN q[i] - 1 ELSE q[i]
  BY MovedPath, MovedBelow
<1>2. q \in Path /\ Len(q) \in Nat /\ l \in Nat \ {0} /\ from \in Nat
  BY FrontOfPath DEF Stays, Path
<1>3. /\ IsPrefix(a, m) <=> Below(p, m) /\ m[l] = j
      /\ IsPrefix(b, q) <=> Below(p, q) /\ q[l] = from
      /\ a \in Path /\ b \in Path /\ Len(a) = l /\ Len(b) = l
  BY <1>1, <1>2, InItem
<1> HIDE DEF m, a, b
<1>4. ASSUME Below(p, q) PROVE m[l] = j <=> q[l] = from
  <2>1. q[l] \in Nat \ {Last(p)} /\ l \in 1..Len(q)
    <3>1. Len(q) >= l
      BY <1>2, <1>4, BelowParent
    <3> QED BY <1>2, <1>4, <3>1 DEF Stays
  <2>2. m[l] = IF q[l] > Last(p) THEN q[l] - 1 ELSE q[l]
    BY <1>1, <1>4, <2>1
  <2> HIDE DEF l
  <2> QED BY <2>1, <2>2
<1>5. IsPrefix(a, m) <=> IsPrefix(b, q)
  BY <1>1, <1>3, <1>4
<1>6. ASSUME IsPrefix(b, q) PROVE Rest(a, m) = Rest(b, q)
  <2>1. /\ Rest(a, m) \in Path /\ Len(Rest(a, m)) = Len(m) - l
        /\ \A i \in 1..(Len(m) - l) : Rest(a, m)[i] = m[l + i]
    <3>1. /\ Rest(a, m) \in Path /\ Len(Rest(a, m)) = Len(m) - Len(a)
          /\ \A i \in 1..(Len(m) - Len(a)) : Rest(a, m)[i] = m[Len(a) + i]
      BY <1>1, <1>3, <1>5, <1>6, RestIs
    <3> QED BY <1>3, <3>1
  <2>2. /\ Rest(b, q) \in Path /\ Len(Rest(b, q)) = Len(q) - l
        /\ \A i \in 1..(Len(q) - l) : Rest(b, q)[i] = q[l + i]
    <3>1. /\ Rest(b, q) \in Path /\ Len(Rest(b, q)) = Len(q) - Len(b)
          /\ \A i \in 1..(Len(q) - Len(b)) : Rest(b, q)[i] = q[Len(b) + i]
      BY <1>2, <1>3, <1>6, RestIs
    <3> QED BY <1>3, <3>1
  <2> HIDE DEF l
  <2>3. ASSUME NEW i \in 1..(Len(q) - l) PROVE m[l + i] = q[l + i]
    <3>1. l + i \in 1..Len(q) /\ l + i # l
      BY <1>2
    <3> QED BY <1>1, <3>1
  <2>4. \A i \in 1..(Len(q) - l) : Rest(a, m)[i] = Rest(b, q)[i]
    BY <1>1, <2>1, <2>2, <2>3
  <2> QED BY <1>1, <2>1, <2>2, <2>4, SamePath
<1> QED
  BY <1>5, <1>6 DEF m, a, b

LEMMA RemoveItemDoes ==
  ASSUME NEW doc, Shaped(doc), NEW p \in Path, Fits(doc, p), doc[Front(p)] = "array",
         p \in DOMAIN doc
  PROVE  ItemsBecome(doc, CloseGap(doc, p), Front(p),
            RemoveAt(Items(doc, Front(p)), Last(p) + 1))
<1> DEFINE kept == Elsewhere(doc, p)
           M(q) == MovedDown(p, q)
           new  == CloseGap(doc, p)
           A    == Front(p)
           k    == Last(p)
           n    == Cardinality(Children(doc, A))
<1>1. /\ p # <<>> /\ k \in Nat /\ A \in kept /\ A \in Path
      /\ p \in Children(doc, A)
  BY FittingPath DEF Fits, Elsewhere, Shaped
<1>2. n \in Nat /\ Steps(doc, A) = 0..(n - 1) /\ k \in 0..(n - 1)
  <2>1. k \in Steps(doc, A)
    BY <1>1 DEF Steps
  <2> QED BY <1>1, <2>1, ArrayLength DEF Elsewhere
<1>3. /\ Shaped(new)
      /\ \A q \in kept : Stays(p, q)
      /\ DOMAIN new = {M(q) : q \in kept}
      /\ \A q \in kept : new[M(q)] = doc[q]
      /\ Steps(new, A) = 0..(n - 2)
  BY RemoveItemKeepsShape
<1>4. ASSUME NEW q \in DOMAIN doc
      PROVE  /\ IsPrefix(A, q) <=> q = A \/ Below(p, q)
             /\ ~ IsPrefix(A, q) => q \in kept
  <2>1. IsPrefix(A, A)
    BY <1>1, ItselfUnder
  <2>2. IsPrefix(p, q) => IsPrefix(A, q)
    <3>1. q \in Path /\ Len(q) \in Nat
      BY DEF Shaped, Path
    <3>2. Len(p) \in Nat \ {0} /\ Len(A) = Len(p) - 1 /\ \A i \in 1..(Len(p) - 1) : A[i] = p[i]
      BY <1>1, FrontOfPath
    <3>3. IsPrefix(p, q) <=> Len(p) <= Len(q) /\ \A i \in 1..Len(p) : p[i] = q[i]
      BY <3>1, PrefixOfPath
    <3>4. IsPrefix(A, q) <=> Len(A) <= Len(q) /\ \A i \in 1..Len(A) : A[i] = q[i]
      BY <1>1, <3>1, PrefixOfPath
    <3> QED BY <3>1, <3>2, <3>3, <3>4
  <2> QED BY <2>1, <2>2 DEF Below, IsStrictPrefix, Elsewhere, Under
<1>5. ASSUME NEW q \in kept, ~ Below(p, q) PROVE M(q) = q
  BY <1>5 DEF MovedDown, Below
<1>6. M(A) = A
  BY <1>1, <1>5 DEF Below, IsStrictPrefix
<1>7. A \in DOMAIN new /\ new[A] = "array"
  BY <1>1, <1>3, <1>6
<1>8. Cardinality(Children(new, A)) = n - 1
  <2> DEFINE c == Cardinality(Children(new, A))
  <2>1. c \in Nat /\ Steps(new, A) = 0..(c - 1)
    BY <1>3, <1>7, ArrayLength
  <2>2. c \in Nat /\ 0..(c - 1) = 0..(n - 2)
    BY <1>3, <2>1
  <2>3. n \in Nat /\ n >= 1
    BY <1>2
  <2> HIDE DEF c, n, new
  <2>4. \A i \in Int : i \in 0..(c - 1) <=> i \in 0..(n - 2)
    BY <2>2
  <2>5. c - 1 \in Int /\ n - 2 \in Int
    BY <2>2, <2>3
  <2>6. c = n - 1
    BY <2>2, <2>3, <2>4, <2>5
  <2> QED BY <2>6 DEF c
<1> HIDE DEF new, M
<1>9. ASSUME NEW q \in kept
      PROVE  /\ IsPrefix(A, M(q)) <=> IsPrefix(A, q)
             /\ ~ IsPrefix(A, q) => M(q) = q
  <2>1. Below(p, M(q)) <=> Below(p, q)
    BY <1>1, <1>3, MovedBelow DEF M
  <2>2. IsPrefix(A, M(q)) <=> M(q) = A \/ Below(p, M(q))
    <3>1. IsPrefix(A, A)
      BY <1>1, ItselfUnder
    <3> QED BY <3>1 DEF Below, IsStrictPrefix
  <2>3. M(q) = A => q = A
    BY <1>1, <1>3, <1>6, MovedApart DEF M
  <2>4. q \in DOMAIN doc
    BY DEF Elsewhere
  <2> QED BY <1>4, <1>5, <1>6, <2>1, <2>2, <2>3, <2>4
<1>10. SameAside(doc, new, A)
  <2>1. ASSUME NEW x \in DOMAIN new, ~ IsPrefix(A, x)
        PROVE  x \in DOMAIN doc /\ new[x] = doc[x]
    <3>1. PICK q \in kept : x = M(q)
      BY <1>3
    <3>2. x = q
      BY <1>9, <2>1, <3>1
    <3> QED BY <1>3, <3>1, <3>2 DEF Elsewhere
  <2>2. ASSUME NEW x \in DOMAIN doc, ~ IsPrefix(A, x) PROVE x \in DOMAIN new
    <3>1. x \in kept /\ M(x) = x
      BY <1>4, <1>9, <2>2
    <3> QED BY <1>3, <3>1
  <2>3. DOMAIN new \ Under(new, A) = DOMAIN doc \ Under(doc, A)
    BY <2>1, <2>2 DEF Under
  <2>4. \A x \in DOMAIN new \ Under(new, A) : new[x] = doc[x]
    BY <2>1 DEF Under
  <2> QED BY <2>3, <2>4 DEF SameAside, Restricted
<1>11. ASSUME NEW j \in 0..(n - 2), NEW from, from = IF j < k THEN j ELSE j + 1
       PROVE  Value(new, Append(A, j)) = Value(doc, Append(A, from))
  <2> DEFINE a == Append(A, j)
             b == Append(A, from)
  <2>1. j \in Nat /\ from \in Nat /\ from # k
    BY <1>1, <1>11
  <2>2. ASSUME NEW q \in kept
        PROVE  /\ IsPrefix(a, M(q)) <=> IsPrefix(b, q)
               /\ IsPrefix(b, q) => Rest(a, M(q)) = Rest(b, q)
    BY <1>1, <1>3, <1>11, <2>1, MovedItem DEF M
  <2>3. ASSUME NEW q \in DOMAIN doc, IsPrefix(b, q) PROVE q \in kept
    <3>1. q \in Path
      BY DEF Shaped
    <3>2. q[Len(p)] = from
      BY <1>1, <2>1, <2>3, <3>1, InItem
    <3>3. p[Len(p)] = k /\ Len(p) \in Nat \ {0}
      BY <1>1, FrontOfPath
    <3>4. ~ IsPrefix(p, q)
      <4>1. IsPrefix(p, q) => \A i \in 1..Len(p) : p[i] = q[i]
        BY <3>1, PrefixOfPath
      <4> QED BY <2>1, <3>2, <3>3, <4>1
    <3> QED BY <3>4 DEF Elsewhere, Under
  <2> HIDE DEF a, b
  <2>4. ASSUME NEW x \in Under(new, a)
        PROVE  \E y \in Under(doc, b) : Rest(a, x) = Rest(b, y) /\ new[x] = doc[y]
    <3>1. x \in DOMAIN new /\ IsPrefix(a, x)
      BY DEF Under
    <3>2. PICK q \in kept : x = M(q)
      BY <1>3, <3>1
    <3>3. q \in Under(doc, b) /\ Rest(a, x) = Rest(b, q)
      BY <2>2, <3>1, <3>2 DEF Under, Elsewhere
    <3> QED BY <1>3, <3>2, <3>3
  <2>5. ASSUME NEW y \in Under(doc, b)
        PROVE  \E x \in Under(new, a) : Rest(a, x) = Rest(b, y) /\ new[x] = doc[y]
    <3>1. y \in kept /\ IsPrefix(b, y)
      BY <2>3 DEF Under
    <3>2. M(y) \in Under(new, a) /\ Rest(a, M(y)) = Rest(b, y) /\ new[M(y)] = doc[y]
      BY <1>3, <2>2, <3>1 DEF Under
    <3> QED BY <3>2
  <2>6. Value(new, a) = Value(doc, b)
    BY <2>4, <2>5, SameValue
  <2> QED BY <2>6 DEF a, b
<1>12. Items(new, A) = RemoveAt(Items(doc, A), k + 1)
  <2> DEFINE old == Items(doc, A)
             S == {Value(doc, Append(A, i - 1)) : i \in 1..n}
             r == RemoveAt(old, k + 1)
  <2>1. old \in Seq(S) /\ Len(old) = n
    <3>1. old = [i \in 1..n |-> Value(doc, Append(A, i - 1))] /\ old \in [1..n -> S]
      BY DEF Items
    <3> HIDE DEF old, S, n
    <3> QED BY <1>2, <3>1
  <2>2. \A i \in 1..n : old[i] = Value(doc, Append(A, i - 1))
    BY DEF Items
  <2>3. /\ DOMAIN Items(new, A) = 1..(n - 1)
        /\ \A i \in 1..(n - 1) : Items(new, A)[i] = Value(new, Append(A, i - 1))
        /\ Items(new, A) = [i \in 1..(n - 1) |-> Items(new, A)[i]]
    BY <1>8 DEF Items
  <2> HIDE DEF old, S, n, k, A
  <2>4. /\ r \in Seq(S) /\ Len(r) = n - 1
        /\ \A i \in 1..(n - 1) : r[i] = IF i < k + 1 THEN old[i] ELSE old[i + 1]
    <3>1. k + 1 \in 1..Len(old)
      BY <1>2, <2>1
    <3> QED BY <2>1, <3>1, RemoveAtIs
  <2> HIDE DEF r
  <2>5. ASSUME NEW i \in 1..(n - 1) PROVE Items(new, A)[i] = r[i]
    <3> DEFINE j == i - 1
               from == IF j < k THEN j ELSE j + 1
    <3>1. j \in 0..(n - 2) /\ from \in Nat /\ from + 1 \in 1..n
      BY <1>2
    <3>2. from + 1 = IF i < k + 1 THEN i ELSE i + 1
      BY <1>2
    <3>3. Items(new, A)[i] = Value(new, Append(A, j))
      BY <2>3
    <3>4. from = IF j < k THEN j ELSE j + 1
      OBVIOUS
    <3> HIDE DEF from, j
    <3>5. Value(new, Append(A, j)) = Value(doc, Append(A, from))
      BY <1>11, <3>1, <3>4
    <3>6. old[from + 1] = Value(doc, Append(A, from))
      <4> DEFINE m == from + 1
      <4>1. m \in 1..n /\ m - 1 = from
        BY <3>1
      <4> HIDE DEF m
      <4>2. old[m] = Value(doc, Append(A, from))
        BY <2>2, <4>1
      <4> QED BY <4>2 DEF m
    <3>7. r[i] = old[from + 1]
      BY <2>4, <3>2
    <3> QED BY <3>3, <3>5, <3>6, <3>7
  <2>6. r = [i \in 1..(n - 1) |-> r[i]]
    <3>1. n - 1 \in Nat
      BY <1>2
    <3>2. r \in [1..(n - 1) -> S]
      BY <2>4, <3>1
    <3> QED BY <3>2
  <2>7. Items(new, A) = r
    BY <2>3, <2>5, <2>6
  <2> QED BY <2>7 DEF r, old
<1>13. ItemsBecome(doc, new, A, RemoveAt(Items(doc, A), k + 1))
  BY <1>7, <1>10, <1>12 DEF ItemsBecome
<1> QED
  BY <1>13 DEF new

LEMMA RemoveDoes ==
  ASSUME NEW doc, Shaped(doc), NEW p \in Path, RemovePath(doc, p).ok
  PROVE  IF doc[Front(p)] = "array"
         THEN ItemsBecome(doc, RemovePath(doc, p).doc, Front(p),
                RemoveAt(Items(doc, Front(p)), Last(p) + 1))
         ELSE KeyRemoved(doc, RemovePath(doc, p).doc, p)
<1>1. Fits(doc, p) /\ ~ NoItem(doc, p)
  BY DEF RemovePath, Error
<1>2. CASE doc[Front(p)] = "array"
  <2>1. p \in DOMAIN doc
    BY <1>1, <1>2 DEF NoItem
  <2>2. RemovePath(doc, p).doc = CloseGap(doc, p)
    BY <1>1, <1>2 DEF RemovePath, Becomes
  <2> QED BY <1>1, <1>2, <2>1, <2>2, RemoveItemDoes
<1>3. CASE doc[Front(p)] # "array"
  <2>1. RemovePath(doc, p).doc = Restricted(doc, DOMAIN doc \ Under(doc, p))
    BY <1>1, <1>3 DEF RemovePath, Becomes
  <2> QED BY <1>3, <2>1, RemoveKeyDoes
<1> QED
  BY <1>2, <1>3

\* apply_projection_delta, operation by operation, for any document: what a path
\* names is set or removed and nothing else changes; an item removed leaves the
\* others of its array in their order, each with all that is in it; one appended
\* comes last, unless it is there.
THEOREM OperationDoes ==
  ASSUME NEW doc, Shaped(doc), NEW op \in Operation, ApplyOp(doc, op).ok
  PROVE  Does(doc, op, ApplyOp(doc, op).doc)
<1>1. op.op \in {"set", "remove", "appendUnique"} /\ op.path \in Path /\ op.leaf \in Leaves
  BY DEF Operation
<1>2. CASE op.op = "set"
  <2>1. ApplyOp(doc, op) = WritePath(doc, op.path, op.leaf)
    BY <1>2 DEF ApplyOp
  <2> QED BY <1>1, <1>2, <2>1, SetDoes DEF Does
<1>3. CASE op.op = "remove"
  <2>1. ApplyOp(doc, op) = RemovePath(doc, op.path)
    BY <1>3 DEF ApplyOp
  <2>2. IF doc[Front(op.path)] = "array"
        THEN ItemsBecome(doc, ApplyOp(doc, op).doc, Front(op.path),
               RemoveAt(Items(doc, Front(op.path)), Last(op.path) + 1))
        ELSE KeyRemoved(doc, ApplyOp(doc, op).doc, op.path)
    BY <1>1, <2>1, RemoveDoes
  <2> QED BY <1>3, <2>2 DEF Does
<1>4. CASE op.op = "appendUnique"
  <2>1. ApplyOp(doc, op) = AppendUnique(doc, op.path, op.leaf)
    BY <1>4 DEF ApplyOp
  <2> QED BY <1>1, <1>4, <2>1, AppendDoes DEF Does
<1> QED
  BY <1>1, <1>2, <1>3, <1>4

\* The fold over a delta's first n operations, for every n.
LEMMA FoldOfPrefix ==
  ASSUME NEW doc, NEW ops \in Seq(Operation)
  PROVE  /\ FoldLeft(ApplyNext, Becomes(doc), SubSeq(ops, 1, 0)) = Becomes(doc)
         /\ \A n \in 1..Len(ops) :
              FoldLeft(ApplyNext, Becomes(doc), SubSeq(ops, 1, n))
                = ApplyNext(FoldLeft(ApplyNext, Becomes(doc), SubSeq(ops, 1, n - 1)), ops[n])
<1> DEFINE N == Len(ops)
           At(n) == FoldLeft(ApplyNext, Becomes(doc), SubSeq(ops, 1, n))
<1>1. PICK f : /\ \A s \in SUBSET (1..N) : f[s] = FoldStep(f, doc, ops, s)
               /\ FoldLeft(ApplyNext, Becomes(doc), ops) = f[1..N]
  BY FoldUnfolds
<1>2. f[1..0] = Becomes(doc)
  <2>1. 1..0 = {}
    OBVIOUS
  <2> QED BY <1>1, <2>1 DEF FoldStep
<1>3. ASSUME NEW k \in Nat, k + 1 <= N
      PROVE  f[1..(k + 1)] = ApplyNext(f[1..k], ops[k + 1])
  <2>1. 1..(k + 1) \in SUBSET (1..N) /\ 1..(k + 1) # {}
    <3>1. N \in Nat /\ k + 1 <= N
      BY <1>3
    <3> HIDE DEF N
    <3> QED BY <3>1, PrefixInside
  <2>2. Max(1..(k + 1)) = k + 1 /\ (1..(k + 1)) \ {k + 1} = 1..k
    <3>1. k + 1 \in Nat \ {0} /\ k + 1 - 1 = k
      OBVIOUS
    <3> QED BY <3>1, MaxInterval
  <2> QED BY <1>1, <2>1, <2>2 DEF FoldStep
<1>4. ASSUME NEW n \in 0..N PROVE At(n) = f[1..n]
  <2> DEFINE pre == SubSeq(ops, 1, n)
  <2>1. pre \in Seq(Operation) /\ Len(pre) = n /\ \A i \in 1..n : pre[i] = ops[i]
    OBVIOUS
  <2> HIDE DEF pre
  <2>2. PICK g : /\ \A s \in SUBSET (1..n) : g[s] = FoldStep(g, doc, pre, s)
                 /\ FoldLeft(ApplyNext, Becomes(doc), pre) = g[1..n]
    BY <2>1, FoldUnfolds
  <2> DEFINE K == {k \in Nat : k <= n => g[1..k] = f[1..k]}
  <2>3. 0 \in K
    <3>1. 1..0 = {}
      OBVIOUS
    <3> QED BY <1>2, <2>2, <3>1 DEF FoldStep
  <2>4. ASSUME NEW k \in Nat, k \in K PROVE k + 1 \in K
    <3> SUFFICES ASSUME k + 1 <= n PROVE g[1..(k + 1)] = f[1..(k + 1)]
      OBVIOUS
    <3>1. n \in Nat /\ k + 1 <= N /\ k + 1 \in 1..n
      OBVIOUS
    <3>2. 1..(k + 1) \in SUBSET (1..n) /\ 1..(k + 1) # {}
      BY <3>1, PrefixInside
    <3>3. Max(1..(k + 1)) = k + 1 /\ (1..(k + 1)) \ {k + 1} = 1..k
      <4>1. k + 1 \in Nat \ {0} /\ k + 1 - 1 = k
        OBVIOUS
      <4> QED BY <4>1, MaxInterval
    <3>4. g[1..(k + 1)] = ApplyNext(g[1..k], pre[k + 1])
      BY <2>2, <3>2, <3>3 DEF FoldStep
    <3>5. g[1..k] = f[1..k]
      BY <2>4, <3>1
    <3>6. pre[k + 1] = ops[k + 1]
      BY <2>1, <3>1
    <3> QED BY <1>3, <3>1, <3>4, <3>5, <3>6
  <2>5. n \in K
    <3>1. n \in Nat
      OBVIOUS
    <3> HIDE DEF K
    <3> QED BY <2>3, <2>4, <3>1, SetInduction
  <2> QED BY <2>2, <2>5 DEF pre
<1>5. At(0) = Becomes(doc)
  <2>1. 0 \in 0..N
    OBVIOUS
  <2> HIDE DEF At
  <2> QED BY <1>2, <1>4, <2>1
<1>6. ASSUME NEW n \in 1..N PROVE At(n) = ApplyNext(At(n - 1), ops[n])
  <2>1. n - 1 \in Nat /\ n - 1 + 1 = n /\ n <= N /\ n \in 0..N /\ n - 1 \in 0..N
    OBVIOUS
  <2>2. f[1..n] = ApplyNext(f[1..(n - 1)], ops[n])
    BY <1>3, <2>1
  <2>3. At(n) = f[1..n] /\ At(n - 1) = f[1..(n - 1)]
    <3> HIDE DEF At, N
    <3> QED BY <1>4, <2>1
  <2> QED BY <2>2, <2>3
<1> QED
  BY <1>5, <1>6

\* apply_projection_delta, for any document and however many operations: each is
\* done to the document the one before it left, by that one's indexes, and none
\* after one that failed.
THEOREM DeltaDoes ==
  ASSUME NEW doc, NEW delta \in [base : Nat, ops : Seq(Operation)]
  PROVE  DoneInTurn(doc, delta)
<1> DEFINE ops == delta.ops
           N == Len(ops)
           At(n) == FoldLeft(ApplyNext, Becomes(doc), SubSeq(ops, 1, n))
<1>1. N \in Nat /\ ops \in Seq(Operation)
  OBVIOUS
<1>2. ASSUME NEW n PROVE Apply(doc, UpTo(delta, n), delta.base) = At(n)
  <2>1. UpTo(delta, n).base = delta.base /\ UpTo(delta, n).ops = SubSeq(ops, 1, n)
    BY DEF UpTo
  <2> QED BY <2>1 DEF Apply
<1> HIDE DEF ops, At
<1> SUFFICES ASSUME Shaped(doc)
             PROVE  \A n \in 1..N : At(n).ok =>
                        At(n - 1).ok /\ Does(At(n - 1).doc, ops[n], At(n).doc)
  BY <1>2 DEF DoneInTurn, ops
<1>3. At(0) = Becomes(doc) /\ \A n \in 1..N : At(n) = ApplyNext(At(n - 1), ops[n])
  BY <1>1, FoldOfPrefix DEF At
<1>4. ASSUME NEW n \in 1..N, At(n).ok
      PROVE  At(n - 1).ok /\ At(n) = ApplyOp(At(n - 1).doc, ops[n]) /\ ops[n] \in Operation
  BY <1>1, <1>3, <1>4 DEF ApplyNext
<1> DEFINE K == {k \in Nat : k <= N /\ At(k).ok => Shaped(At(k).doc)}
<1>5. 0 \in K
  BY <1>3 DEF Becomes
<1>6. ASSUME NEW k \in Nat, k \in K PROVE k + 1 \in K
  <2> SUFFICES ASSUME k + 1 <= N, At(k + 1).ok PROVE Shaped(At(k + 1).doc)
    OBVIOUS
  <2>1. k + 1 \in 1..N /\ k + 1 - 1 = k /\ k <= N
    BY <1>1
  <2>2. At(k).ok /\ At(k + 1) = ApplyOp(At(k).doc, ops[k + 1]) /\ ops[k + 1] \in Operation
    BY <1>4, <2>1
  <2>3. Shaped(At(k).doc)
    BY <1>6, <2>1, <2>2
  <2> QED BY <2>2, <2>3, OperationKeepsShape
<1>7. ASSUME NEW k \in Nat PROVE k \in K
  <2> HIDE DEF K
  <2> QED BY <1>5, <1>6, SetInduction
<1>8. ASSUME NEW n \in 1..N, At(n).ok
      PROVE  At(n - 1).ok /\ Does(At(n - 1).doc, ops[n], At(n).doc)
  <2>1. At(n - 1).ok /\ At(n) = ApplyOp(At(n - 1).doc, ops[n]) /\ ops[n] \in Operation
    BY <1>4, <1>8
  <2>2. n - 1 \in Nat /\ n - 1 <= N
    BY <1>1
  <2>3. Shaped(At(n - 1).doc)
    BY <1>7, <2>1, <2>2
  <2> QED BY <1>8, <2>1, <2>3, OperationDoes
<1> QED
  BY <1>8
=============================================================================
