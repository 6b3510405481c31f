---------------------------- MODULE ServiceLookup ----------------------------
(***************************************************************************)
(* How a service command finds its service: discover_descriptors of        *)
(* src/src/transport.rs, with one observer thread per relay for at most    *)
(* five seconds, then resolve_service_path of src/src/app.rs on what was   *)
(* heard.                                                                  *)
(*                                                                         *)
(* Names, places, nodes and the words of a path are tokens: what           *)
(* normalize_lookup makes of a text.  Relays and the gateways that         *)
(* announce services are not under src/.                                   *)
(***************************************************************************)
EXTENDS Naturals, Sequences, FiniteSets

CONSTANTS
    Relays,
    Descriptors,    \* descriptors that gateways announce
    Paths,          \* paths asked for
    Filters,        \* values of the profile's gateway_pk
    NoFilter,       \* it is not set
    MaxQueue        \* descriptors in the channel (bound)

\* A descriptor's names are its service, service_pk, display label and aliases;
\* its places the gateway, the location's label and its id.
ASSUME LookupAssumption ==
    /\ MaxQueue \in Nat
    /\ IsFiniteSet(Descriptors)
    /\ \A path \in Paths : path # <<>>
    /\ \A d \in Descriptors :
        DOMAIN d = {"pk", "by", "gateway", "names", "places", "nodes"}

VARIABLES
    pc,         \* "idle", "head" of the loop, inside "recv", "done"
    path, filter,
    late,       \* the deadline has passed
    observer,   \* thread of each relay
    queue,      \* the channel
    known,      \* descriptors, by service_pk
    answer,     \* what the path resolved to
    \* history
    sent,       \* service keys the observers have sent
    drained     \* the loop ended because every observer had

loop == <<pc, path, filter, late, observer, queue, known, answer>>
vars == <<loop, sent, drained>>

-----------------------------------------------------------------------------
Pks     == {d.pk : d \in Descriptors}
None    == [pk |-> {}]
Threads == {"off", "reading", "stopped"}

Values(f) == {f[pk] : pk \in DOMAIN f} \ {None}

Failures == {"none", "noDescriptors", "notFound", "ambiguous"}
Failure(why) == [found |-> FALSE, why |-> why]

Init ==
    /\ pc = "idle"
    /\ path \in Paths
    /\ filter \in Filters \cup {NoFilter}
    /\ late = FALSE
    /\ observer = [r \in Relays |-> "off"]
    /\ queue = <<>>
    /\ known = [pk \in Pks |-> None]
    /\ answer = Failure("none")
    /\ sent = {}
    /\ drained = FALSE

-----------------------------------------------------------------------------
(* resolve_service_path *)

Named(ds, token) == {d \in ds : token \in d.names}
At(ds, token)    == {d \in ds : token \in d.places}

\* The first word names a service, and the second one of its nodes.
Plausible(ds, p) == \E d \in Named(ds, p[1]) : p[2] \in d.nodes

\* Mutant: a first word that is a location is always taken for one.
LocationAlways(ds, p) == Len(p) >= 2 /\ At(ds, p[1]) # {}

LocationFirst(ds, p) ==
    /\ Len(p) >= 2
    /\ At(ds, p[1]) # {}
    /\ ~Plausible(ds, p)

\* Mutant: the first match is taken.
FirstMatch(matches, rest) ==
    IF matches = {} THEN Failure("notFound")
    ELSE [found |-> TRUE, service |-> CHOOSE d \in matches : TRUE, node |-> rest]

OnlyMatch(matches, rest) ==
    IF matches = {} THEN Failure("notFound")
    ELSE IF Cardinality(matches) > 1 THEN Failure("ambiguous")
    ELSE [found |-> TRUE, service |-> CHOOSE d \in matches : TRUE, node |-> rest]

\* The test made first for a name known at several locations is the same as
\* that for several matches.
Resolve(ds, p) ==
    IF LocationFirst(ds, p)
    THEN OnlyMatch(Named(At(ds, p[1]), p[2]), SubSeq(p, 3, Len(p)))
    ELSE OnlyMatch(Named(ds, p[1]), Tail(p))

-----------------------------------------------------------------------------
(* observe_descriptor_relay *)

Start ==
    /\ pc = "idle"
    /\ Relays # {}
    /\ pc' = "head"
    /\ observer' = [r \in Relays |-> "reading"]
    /\ UNCHANGED <<path, filter, late, queue, known, answer, sent, drained>>

Wanted(d) == filter = NoFilter \/ d.by = filter

\* A relay sends any announcement, as often and in whatever order it likes.
Observe(r) ==
    /\ observer[r] = "reading"
    /\ pc # "done"
    /\ Len(queue) < MaxQueue
    /\ \E d \in Descriptors :
        /\ Wanted(d)
        /\ queue' = Append(queue, d)
        /\ sent' = sent \cup {d.pk}
    /\ UNCHANGED <<pc, path, filter, late, observer, known, answer, drained>>

\* connect or read fails, or a frame or an event does not parse.
ObserverStops(r) ==
    /\ observer[r] = "reading"
    /\ observer' = [observer EXCEPT ![r] = "stopped"]
    /\ UNCHANGED <<pc, path, filter, late, queue, known, answer, sent, drained>>

-----------------------------------------------------------------------------
(* The loop of discover_descriptors *)

Proceed ==
    /\ pc = "head"
    /\ ~late
    /\ pc' = "recv"
    /\ UNCHANGED <<path, filter, late, observer, queue, known, answer, sent, drained>>

Answer(ds) == IF ds = {} THEN Failure("noDescriptors") ELSE Resolve(ds, path)

\* descriptor_list returns, and the path is resolved.
Finish ==
    /\ pc' = "done"
    /\ answer' = Answer(Values(known))
    /\ UNCHANGED <<path, filter, late, observer, queue, known, sent>>

TimeOut ==
    /\ pc = "head"
    /\ late
    /\ Finish
    /\ UNCHANGED drained

\* Mutant: recv() in place of recv_timeout().
RecvNeverTimesOut == FALSE /\ UNCHANGED vars

\* recv_timeout gives up after half a second or at the deadline.
RecvTimesOut ==
    /\ pc = "recv"
    /\ queue = <<>>
    /\ pc' = "head"
    /\ UNCHANGED <<path, filter, late, observer, queue, known, answer, sent, drained>>

\* Mutant: the threads are joined before the channel is drained.
RecvJoins ==
    /\ pc = "recv"
    /\ \A r \in Relays : observer[r] = "stopped"
    /\ Finish
    /\ drained' = TRUE

\* Every sender is gone and the channel is drained.
RecvDisconnected ==
    /\ pc = "recv"
    /\ queue = <<>>
    /\ \A r \in Relays : observer[r] = "stopped"
    /\ Finish
    /\ drained' = TRUE

\* Mutant: descriptors are kept under their gateway.
RecvByGateway ==
    /\ pc = "recv"
    /\ queue # <<>>
    /\ known' = [pk \in Pks \cup {Head(queue).gateway} |->
                    IF pk = Head(queue).gateway THEN Head(queue) ELSE known[pk]]
    /\ queue' = Tail(queue)
    /\ pc' = "head"
    /\ UNCHANGED <<path, filter, late, observer, answer, sent, drained>>

\* The last descriptor heard of a service stands.
RecvDescriptor ==
    /\ pc = "recv"
    /\ queue # <<>>
    /\ known' = [known EXCEPT ![Head(queue).pk] = Head(queue)]
    /\ queue' = Tail(queue)
    /\ pc' = "head"
    /\ UNCHANGED <<path, filter, late, observer, answer, sent, drained>>

DeadlinePasses ==
    /\ pc \in {"head", "recv"}
    /\ ~late
    /\ late' = TRUE
    /\ UNCHANGED <<pc, path, filter, observer, queue, known, answer, sent, drained>>

-----------------------------------------------------------------------------
Loop == Proceed \/ TimeOut \/ RecvTimesOut \/ RecvDisconnected \/ RecvDescriptor

Next ==
    \/ Start
    \/ \E r \in Relays : Observe(r) \/ ObserverStops(r)
    \/ Loop
    \/ DeadlinePasses

Spec == Init /\ [][Next]_vars

\* The command runs on and its clock advances; nothing is assumed of the relays.
FairSpec == Spec /\ WF_vars(Loop) /\ WF_vars(DeadlinePasses)

-----------------------------------------------------------------------------
(* Properties *)

\* Every variable of a lookup ranges over what the code can give it, and a
\* service is known under its own key.
TypeOK ==
    /\ pc \in {"idle", "head", "recv", "done"}
    /\ path \in Paths
    /\ filter \in Filters \cup {NoFilter}
    /\ late \in BOOLEAN
    /\ observer \in [Relays -> Threads]
    /\ queue \in Seq(Descriptors)
    /\ known \in [Pks -> Descriptors \cup {None}]
    /\ \A pk \in Pks : known[pk] # None => known[pk].pk = pk
    /\ answer.found \/ answer.why \in Failures
    /\ answer.found => answer.service \in Descriptors
    /\ sent \subseteq Pks
    /\ drained \in BOOLEAN

\* A discovery that ends because every relay has failed has taken in every
\* service any of them had announced.
DrainedKnowsAll == drained => \A pk \in sent : known[pk] # None

\* A path is answered with a service only if no other service heard answers to
\* it in the same reading: as a service by its name, or as a location and then
\* a service.
NeverGuesses ==
    answer.found =>
        LET ds == Values(known) IN
        \/ /\ Named(ds, path[1]) = {answer.service}
           /\ answer.node = Tail(path)
        \/ /\ Len(path) >= 2
           /\ Named(At(ds, path[1]), path[2]) = {answer.service}
           /\ answer.node = SubSeq(path, 3, Len(path))

\* A name alone, or a name with one of the service's own nodes, means the same
\* service however many more services are heard of before the deadline: at
\* worst it becomes ambiguous.  (A location is no such name: see README.)
HearingMoreNeverRedirects ==
    LET ds == Values(known) IN
    \A p \in Paths, d \in Descriptors :
        LET before == Resolve(ds, p)
            after  == Resolve(ds \cup {d}, p)
        IN
        before.found /\ known[d.pk] = None
            /\ (Len(p) = 1 \/ Plausible(ds, p))
        => after = before \/ after = Failure("ambiguous")

\* A lookup ends, with relays that flood it and relays that are silent.
LookupEnds == pc = "head" ~> pc = "done"

\* A lookup under way never comes to stand: whatever is in the channel and
\* whichever observers have stopped, the loop has a next step, and the clock one
\* until the deadline.
NeverStuck ==
    pc \in {"head", "recv"} =>
        /\ ENABLED <<Loop>>_vars
        /\ ~late => ENABLED <<DeadlinePasses>>_vars

-----------------------------------------------------------------------------
(* Why they hold *)

\* What an observer has sent is known, or is still in the channel.
SentKnownOrQueued ==
    \A pk \in sent : known[pk] # None \/ \E i \in DOMAIN queue : queue[i].pk = pk

\* The answer is given once, of what is known when the loop ends.
AnsweredAtTheEnd ==
    /\ pc # "done" => answer = Failure("none") /\ ~drained
    /\ pc = "done" => answer = Answer(Values(known))

LookupInv ==
    /\ TypeOK
    /\ SentKnownOrQueued
    /\ AnsweredAtTheEnd
    /\ DrainedKnowsAll
=============================================================================
