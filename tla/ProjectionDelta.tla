-------------------------- MODULE ProjectionDelta --------------------------
(***************************************************************************)
(* apply_projection_delta of src/src/swarm_ops.rs: a delta's operations    *)
(* applied one after the other to a JSON document.  Of the program's own   *)
(* commands the doctor applies one, to a sample.                           *)
(*                                                                         *)
(* A document is a function from the paths of its values to what stands    *)
(* there: "object", "array" or a leaf.  A path is a sequence of keys and   *)
(* of indexes, which start at 0; the root's is empty.                      *)
(***************************************************************************)
EXTENDS Naturals, Sequences, FiniteSets, SequencesExt

CONSTANTS
    Names,      \* keys of objects
    Leaves      \* values that hold no others

Containers == {"object", "array"}

ASSUME DeltaAssumption == Leaves \cap Containers = {}

Path == Seq(Names \cup Nat)

Children(doc, path) == {q \in DOMAIN doc : q # <<>> /\ Front(q) = path}

Under(doc, path) == {q \in DOMAIN doc : IsPrefix(path, q)}

Restricted(doc, paths) == [q \in paths |-> doc[q]]

Steps(doc, path) == {Last(c) : c \in Children(doc, path)}

\* What is at path has the children that such a value can have.
Holds(doc, path) ==
    LET steps == Steps(doc, path) IN
    IF doc[path] = "array" THEN steps = 0..(Cardinality(steps) - 1)
    ELSE IF doc[path] = "object" THEN steps \subseteq Names
    ELSE steps = {}

Shaped(doc) ==
    /\ DOMAIN doc \subseteq Path
    /\ IsFiniteSet(DOMAIN doc)
    /\ <<>> \in DOMAIN doc
    /\ \A q \in DOMAIN doc :
        /\ q # <<>> => Front(q) \in DOMAIN doc
        /\ Holds(doc, q)

Operation == [op : {"set", "remove", "appendUnique"}, path : Path, leaf : Leaves]

-----------------------------------------------------------------------------
Error == [ok |-> FALSE]
Becomes(doc) == [ok |-> TRUE, doc |-> doc]

\* A key fits an object, an index an array; there is no other way into a parent.
Fits(doc, path) ==
    /\ path # <<>>
    /\ Front(path) \in DOMAIN doc
    /\ \/ doc[Front(path)] = "object" /\ Last(path) \in Names
       \/ doc[Front(path)] = "array" /\ Last(path) \in Nat

NoItem(doc, path) == doc[Front(path)] = "array" /\ path \notin DOMAIN doc

\* Set and Replace: a new key is put in, a new index is an error.
WritePath(doc, path, leaf) ==
    IF ~Fits(doc, path) \/ NoItem(doc, path)
    THEN Error
    ELSE Becomes([q \in (DOMAIN doc \ Under(doc, path)) \cup {path} |->
                    IF q = path THEN leaf ELSE doc[q]])

\* Mutant: the last item is put in the gap, as swap_remove does.
CloseGapSwapped(doc, path) ==
    LET array == Front(path)
        end   == Append(array, Cardinality(Children(doc, array)) - 1)
        kept  == DOMAIN doc \ Under(doc, path)
        To(q) == IF q \in Under(doc, end) THEN [q EXCEPT ![Len(path)] = Last(path)] ELSE q
    IN  [q \in {To(r) : r \in kept} |-> doc[CHOOSE r \in kept : To(r) = q]]

\* The items after the one removed move down by one, with all that is in them.
MovedDown(path, q) ==
    IF IsStrictPrefix(Front(path), q) /\ q[Len(path)] > Last(path)
    THEN [q EXCEPT ![Len(path)] = @ - 1]
    ELSE q

CloseGap(doc, path) ==
    LET kept == DOMAIN doc \ Under(doc, path) IN
    [q \in {MovedDown(path, r) : r \in kept} |->
        doc[CHOOSE r \in kept : MovedDown(path, r) = q]]

\* A key that is not there is no error, an index is.
RemovePath(doc, path) ==
    IF ~Fits(doc, path) \/ NoItem(doc, path)
    THEN Error
    ELSE IF doc[Front(path)] = "array"
    THEN Becomes(CloseGap(doc, path))
    ELSE Becomes(Restricted(doc, DOMAIN doc \ Under(doc, path)))

\* The root can be appended to: its path is empty.
AppendUnique(doc, path, leaf) ==
    IF path \notin DOMAIN doc \/ doc[path] # "array"
    THEN Error
    ELSE IF \E c \in Children(doc, path) : doc[c] = leaf
    THEN Becomes(doc)
    ELSE LET end == Append(path, Cardinality(Children(doc, path))) IN
         Becomes([q \in DOMAIN doc \cup {end} |-> IF q = end THEN leaf ELSE doc[q]])

ApplyOp(doc, op) ==
    CASE op.op = "set"          -> WritePath(doc, op.path, op.leaf)
      [] op.op = "remove"       -> RemovePath(doc, op.path)
      [] op.op = "appendUnique" -> AppendUnique(doc, op.path, op.leaf)

\* Nothing is applied after an operation that failed.
ApplyNext(so_far, op) == IF so_far.ok THEN ApplyOp(so_far.doc, op) ELSE so_far

\* A delta for another revision is not applied, nor one of which any operation
\* fails: the document it changed is dropped.
Apply(doc, delta, revision) ==
    IF delta.base = revision THEN FoldLeft(ApplyNext, Becomes(doc), delta.ops) ELSE Error

-----------------------------------------------------------------------------
(* Properties *)

\* The value at a path, wherever in its document it stands.
Value(doc, path) == {<<SubSeq(q, Len(path) + 1, Len(q)), doc[q]>> : q \in Under(doc, path)}

Leaf(leaf) == {<< <<>>, leaf >>}

Items(doc, path) ==
    [i \in 1..Cardinality(Children(doc, path)) |-> Value(doc, Append(path, i - 1))]

\* Nothing but the value at the path is another.
SameAside(doc, new, path) ==
    Restricted(new, DOMAIN new \ Under(new, path))
        = Restricted(doc, DOMAIN doc \ Under(doc, path))

SetAt(doc, new, path, leaf) ==
    SameAside(doc, new, path) /\ Value(new, path) = Leaf(leaf)

KeyRemoved(doc, new, path) ==
    SameAside(doc, new, path) /\ Value(new, path) = {}

ItemsBecome(doc, new, path, items) ==
    /\ SameAside(doc, new, path)
    /\ path \in DOMAIN new /\ new[path] = "array"
    /\ Items(new, path) = items

\* What an operation makes of a document, said of its values and not of their paths:
\* of an array, an item taken out of the sequence of its items or put at the end.
Does(doc, op, new) ==
    CASE op.op = "set" ->
            SetAt(doc, new, op.path, op.leaf)
      [] op.op = "remove" /\ doc[Front(op.path)] # "array" ->
            KeyRemoved(doc, new, op.path)
      [] op.op = "remove" /\ doc[Front(op.path)] = "array" ->
            ItemsBecome(doc, new, Front(op.path),
                RemoveAt(Items(doc, Front(op.path)), Last(op.path) + 1))
      [] op.op = "appendUnique" ->
            LET items == Items(doc, op.path) IN
            ItemsBecome(doc, new, op.path,
                IF \E i \in DOMAIN items : items[i] = Leaf(op.leaf)
                THEN items ELSE Append(items, Leaf(op.leaf)))

\* A delta up to its nth operation.
UpTo(delta, n) == [delta EXCEPT !.ops = SubSeq(@, 1, n)]

\* Each operation of a delta does what it says to the document the one before it
\* left, by the indexes the items have in that one, and nothing else; none is done
\* after one that failed.
DoneInTurn(doc, delta) ==
    LET Result(n) == Apply(doc, UpTo(delta, n), delta.base) IN
    Shaped(doc) =>
        \A n \in 1..Len(delta.ops) :
            Result(n).ok => /\ Result(n - 1).ok
                            /\ Does(Result(n - 1).doc, delta.ops[n], Result(n).doc)
=============================================================================
