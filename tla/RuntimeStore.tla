---------------------------- MODULE RuntimeStore ----------------------------
(***************************************************************************)
(* The retained projections of a profile: RuntimeStore of                  *)
(* src/src/runtime.rs, and how the service commands of src/src/app.rs use  *)
(* it.  A command reads the whole file, stores the projections it          *)
(* observes in its copy, and writes the whole copy back at its end, unless *)
(* it fails on the way.  Commands are processes; nothing locks the file.   *)
(*                                                                         *)
(* A projection is what projection_semantic_shape leaves of it: its times  *)
(* of refresh do not count.  `rest` is all of it but its events.           *)
(*                                                                         *)
(* Next stores projections only: what else a command remembers in the file *)
(* no command reads back, and ServiceCommand has those steps.              *)
(***************************************************************************)
EXTENDS Naturals, Sequences, FiniteSets, SequencesExt

CONSTANTS
    Procs,      \* processes that may run at once
    Keys,       \* projection_store_key values
    Ids,        \* stable keys of events, numbers in their order
    Fields,     \* what else an event can say; "at" is its time
    Values,     \* values of these
    Rests,      \* the rest of a projection
    Services,   \* names of services
    Gateways,   \* gateways that host them
    Relays      \* relays of the profile

ASSUME RuntimeAssumption ==
    Ids \subseteq Nat /\ IsFiniteSet(Ids) /\ Values \subseteq Nat /\ "id" \notin Fields

VARIABLES
    file,       \* state.json
    torn,       \* its last write was cut short
    pc,         \* of each process: "idle", "open"
    mine,       \* its copy of the file
    \* history
    replaced,   \* keys whose events the process has seen replaced as a set
    missed      \* keys another has rewritten since the process opened the file

vars == <<file, torn, pc, mine, replaced, missed>>

-----------------------------------------------------------------------------
\* A JSON object that has some of the fields.
Event ==
    {e \in UNION {[{"id"} \cup said -> Ids \cup Values] : said \in SUBSET Fields} :
        e.id \in Ids /\ \A f \in DOMAIN e \ {"id"} : e[f] \in Values}

None == [retained |-> FALSE]

IdsOf(events) == {events[i].id : i \in DOMAIN events}

\* Event lists as services send them: one entry for each event, in any order.
Lists == UNION {{s \in [1..n -> Event] : \A i, j \in 1..n : i # j => s[i].id # s[j].id} :
                n \in 0..Cardinality(Ids)}

\* lists: the payload has an events array.  replaces: it has, and the payload or
\* the scope names a policy or a coverage.
Projections(eventLists) ==
    [lists : {TRUE}, events : eventLists, replaces : BOOLEAN, rest : Rests]
        \cup [lists : {FALSE}, events : {<<>>}, replaces : {FALSE}, rest : Rests]

Projection == Projections(Lists)

Unknown == "unknown"

\* What else the file has (gateway hints, policies) no command ever writes.
State == [projections : [Keys -> Projections(Seq(Event)) \cup {None}],
          descriptors : [Services -> Gateways \cup {Unknown}],
          relays      : SUBSET Relays]

TypeOK ==
    /\ file \in State
    /\ torn \in BOOLEAN
    /\ pc \in [Procs -> {"idle", "open"}]
    /\ mine \in [Procs -> State]
    /\ replaced \in [Procs -> SUBSET Keys]
    /\ missed \in [Procs -> SUBSET Keys]

Empty == [projections |-> [k \in Keys |-> None],
          descriptors |-> [s \in Services |-> Unknown],
          relays      |-> {}]

Init ==
    /\ file = Empty
    /\ torn = FALSE
    /\ pc = [p \in Procs |-> "idle"]
    /\ mine = [p \in Procs |-> Empty]
    /\ replaced = [p \in Procs |-> {}]
    /\ missed = [p \in Procs |-> {}]

-----------------------------------------------------------------------------
(* merge_projection_record *)

EventTime(e) == IF "at" \in DOMAIN e THEN e.at ELSE 0

\* Newest first, events of one time in the order of their keys.
Before(a, b) ==
    EventTime(a) > EventTime(b) \/ (EventTime(a) = EventTime(b) /\ a.id < b.id)

NewestFirst(events) ==
    \A i, j \in 1..Len(events) : i < j => Before(events[i], events[j])

\* The events of a finite set, sorted.
Sorted(events) ==
    CHOOSE s \in [1..Cardinality(events) -> events] : NewestFirst(s)

\* Mutants: a known event is not looked up; it is replaced as a whole.
JoinedTwice(old, new) == ToSet(old) \cup ToSet(new)
JoinedWhole(old, new) == ToSet(new) \cup {e \in ToSet(old) : e.id \notin IdsOf(new)}

\* merge_json_objects: what e says, and what only o does.
Over(e, o) == [f \in DOMAIN e \cup DOMAIN o |-> IF f \in DOMAIN e THEN e[f] ELSE o[f]]

Updated(old, e) ==
    IF e.id \in IdsOf(old) THEN Over(e, CHOOSE o \in ToSet(old) : o.id = e.id) ELSE e

\* The events both have, updated, and those only the old list has.
Joined(old, new) ==
    {Updated(old, e) : e \in ToSet(new)} \cup {e \in ToSet(old) : e.id \notin IdsOf(new)}

\* Mutant: events outlive the list they were in.
MergeListless(old, new) ==
    IF old = None \/ new.replaces
    THEN new
    ELSE [new EXCEPT !.events =
            Sorted(Joined(old.events, new.events))]

Merge(old, new) ==
    IF old = None \/ new.replaces \/ ~new.lists
    THEN new
    ELSE [new EXCEPT !.events =
            Sorted(Joined(old.events, new.events))]

\* Mutant: two projections with as many events are taken for the same.
SameCount(old, new) ==
    /\ old # None
    /\ old.lists /\ new.lists
    /\ Len(old.events) = Len(new.events)

SemanticallyEqual(old, new) == old = new

\* projection_payload_count: an object without a list counts for one item.
PayloadCount(projection) ==
    IF projection.lists THEN Len(projection.events) ELSE 1

\* Mutant: what the answer lists is counted, whether it was known or not.
ChangedCountOfAnswer(old, new) == PayloadCount(new)

\* The changed_count of the observer update for new: the subtraction saturates.
ChangedCount(old, new) ==
    LET before == IF old = None THEN 0 ELSE PayloadCount(old)
        after  == PayloadCount(Merge(old, new))
    IN  IF after > before THEN after - before ELSE 0

-----------------------------------------------------------------------------
(* Commands *)

\* Mutant: the file is not read.
OpenFresh(p) ==
    /\ pc[p] = "idle"
    /\ ~torn
    /\ pc' = [pc EXCEPT ![p] = "open"]
    /\ mine' = [mine EXCEPT ![p] = Empty]
    /\ UNCHANGED <<file, torn, replaced, missed>>

\* A file that does not parse fails the command; no file is an empty state.
Open(p) ==
    /\ pc[p] = "idle"
    /\ ~torn
    /\ pc' = [pc EXCEPT ![p] = "open"]
    /\ mine' = [mine EXCEPT ![p] = file]
    /\ UNCHANGED <<file, torn, replaced, missed>>

\* What the copy of p holds under key k once new was observed, and whether the
\* observer is to hear of it: one that is equal is a refresh.
Stored(p, k, new) ==
    LET old    == mine[p].projections[k]
        merged == Merge(old, new)
    IN  IF SemanticallyEqual(old, merged) THEN old ELSE merged

Changes(p, k, new) ==
    ~SemanticallyEqual(mine[p].projections[k], Merge(mine[p].projections[k], new))

\* A projection observed under key k, of the surface or of a node.
StoreProjection(p, k, new) ==
    /\ pc[p] = "open"
    /\ mine' = [mine EXCEPT ![p].projections[k] = Stored(p, k, new)]
    /\ replaced' = IF new.replaces \/ ~new.lists
                   THEN [replaced EXCEPT ![p] = @ \cup {k}] ELSE replaced
    /\ UNCHANGED <<file, torn, pc, missed>>

\* The descriptors are kept by the name of the service alone: of two services of
\* one name at two gateways the later one stands.
RememberDescriptor(p, service, gateway) ==
    /\ pc[p] = "open"
    /\ mine' = [mine EXCEPT ![p].descriptors[service] = gateway]
    /\ UNCHANGED <<file, torn, pc, replaced, missed>>

\* The process is done with the file, which now says left.
End(p, left, cut) ==
    /\ pc[p] = "open"
    /\ pc' = [pc EXCEPT ![p] = "idle"]
    /\ mine' = [mine EXCEPT ![p] = Empty]
    /\ file' = left
    /\ torn' = cut
    /\ replaced' = [replaced EXCEPT ![p] = {}]
    /\ LET rewritten == {k \in Keys : left.projections[k] # file.projections[k]} IN
       missed' = [q \in Procs |->
          IF q # p /\ pc[q] = "open" THEN missed[q] \cup rewritten ELSE {}]

Save(p) == End(p, mine[p], FALSE)

\* The node is not found, the surface is invalid, the gateway refuses the
\* frame, the file cannot be written: what was observed is not saved.
Fails(p) == End(p, file, torn)

\* The process is killed while it writes, or the file system fails it there: the
\* file is cut short.
Tears(p) == End(p, Empty, TRUE)

Next ==
    \E p \in Procs :
        \/ Open(p) \/ Save(p) \/ Fails(p) \/ Tears(p)
        \/ \E k \in Keys, new \in Projection : StoreProjection(p, k, new)

Spec == Init /\ [][Next]_vars

-----------------------------------------------------------------------------
(* Properties *)

Stores(p, k) == pc[p] = "open" /\ pc'[p] = "open" /\ mine'[p].projections[k] # mine[p].projections[k]

\* A retained projection never lists an event twice, however often and in
\* whatever form services send it again.
OneEntryPerEvent ==
    \A p \in Procs, k \in Keys :
        LET kept == mine[p].projections[k] IN
        kept # None =>
            Cardinality(IdsOf(kept.events)) = Len(kept.events)

\* Every event of old is in new, with whatever fields it had.
KeepsEvents(old, new) ==
    \A o \in ToSet(old) : \E e \in ToSet(new) : e.id = o.id /\ DOMAIN o \subseteq DOMAIN e

\* A projection that does not claim to be the whole set (no policy, no
\* coverage) adds and updates events; it never drops one that was retained, nor
\* a field of one, however little of the event it repeats.
PartialKeepsEvents ==
    [][\A p \in Procs, k \in Keys :
        LET old == mine[p].projections[k]
            new == mine'[p].projections[k]
        IN
        Stores(p, k) /\ old # None /\ new.lists /\ ~new.replaces
        => KeepsEvents(old.events, new.events)]_vars

\* The event o says all that e says.
Repeats(o, e) == \A f \in DOMAIN e : f \in DOMAIN o /\ o[f] = e[f]

\* What passes for a mere refresh (no observer event, nothing stored) brings
\* nothing new; and once a retained list is in order, a partial projection that
\* repeats some of what it already says, in any order, is a mere refresh.
RefreshIsSilentAndOnlyRefresh ==
    \A p \in Procs, k \in Keys, new \in Projection :
        LET old    == mine[p].projections[k]
            silent == SemanticallyEqual(old, Merge(old, new))
            lists  == old # None /\ old.lists /\ new.lists
            known  == lists /\ old.rest = new.rest
                        /\ \A e \in ToSet(new.events) :
                              \E o \in ToSet(old.events) : Repeats(o, e)
        IN
        /\ silent /\ lists => known
        /\ known /\ NewestFirst(old.events) /\ ~old.replaces /\ ~new.replaces => silent

\* From list to list, the observer is never told of more events than are new in
\* what is retained, and of exactly those unless the answer dropped some that
\* were: only an answer that replaces the set can, and then it is told of fewer.
UpdateCountsNewEvents ==
    \A p \in Procs, k \in Keys, new \in Projection :
        LET old   == mine[p].projections[k]
            told  == ChangedCount(old, new)
            known == IF old = None THEN {} ELSE IdsOf(old.events)
            now   == IdsOf(Merge(old, new).events)
        IN
        (old # None => old.lists) /\ new.lists =>
            /\ told <= Cardinality(now \ known)
            /\ known \subseteq now => told = Cardinality(now \ known)

\* However commands overlap, a save undoes only what others have saved since the
\* command opened the file: of everything older an event is lost only to a
\* projection that replaced the set.
SaveUndoesOnlyWhatItMissed ==
    [][\A p \in Procs, k \in Keys :
        /\ pc[p] = "open" /\ pc'[p] = "idle" /\ ~torn'
        /\ k \notin replaced[p] \cup missed[p]
        /\ file.projections[k] # None
        => /\ file'.projections[k] # None
           /\ IdsOf(file.projections[k].events) \subseteq IdsOf(file'.projections[k].events)]_vars
=============================================================================
