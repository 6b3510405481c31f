------------------------------ MODULE MCDoctor ------------------------------
(***************************************************************************)
(* Two commands of any kind about a logging service with an events node,   *)
(* for which another service may answer, and what a gateway may answer     *)
(* when the doctor asks for its directory: the storage service of the      *)
(* fixtures with two entries, under an advertisement of either or both     *)
(* that expire one after the other.                                        *)
(***************************************************************************)
EXTENDS Doctor

CONSTANTS S1, S2, S3, Logging, Other, Surface, Events, Archive, KeyA, RawRef, Cameras, Status

MCKeys == {<<Logging, Surface>>, <<Logging, Archive>>, <<Other, Surface>>}

\* The events node has a channel, none, or is not described.
MCBacking == S1 :> (Events :> Archive) @@ S2 :> (Events :> "") @@ S3 :> <<>>

\* Either process may be the doctor.
Perms == Permutations(Procs)

Described(s) == [lists |-> FALSE, events |-> <<>>, replaces |-> FALSE, rest |-> s]

Listed(s, events) == [lists |-> TRUE, events |-> events, replaces |-> FALSE, rest |-> s]

\* The service's own surface comes with a list of events beside it; another service
\* names its channel alike, and what it says of the node is otherwise.
MCAnswers ==
    <<Logging, Surface>> :> {Listed(S1, <<[id |-> 1]>>)}
        @@ <<Other, Surface>> :> {Described(S2)}
        @@ <<Logging, Archive>> :> {Listed(S1, <<[id |-> 1]>>)}

MCMemberKeys == {KeyA}
MCOpaqueRefs == {RawRef}

Entry(channel, service, member) ==
    [capability |-> StoragePin, channel |-> channel, service |-> service, member |-> member]

Ad(channels, service, member, expires) ==
    [capability |-> StoragePin, channels |-> channels, service |-> service,
     member |-> member, expires |-> expires]

MCDirectories ==
    { [definitions |-> defs, advertisements |-> ads, entries |-> entries,
       channels |-> {"pins"}] :
        defs \in SUBSET {StoragePin},
        ads \in SUBSET {Ad({"pins", "archive"}, RawRef, KeyA, 2), Ad({"pins"}, Unnamed, KeyA, 3),
                        Ad({"other"}, RawRef, Unnamed, 3)},
        entries \in SUBSET {Entry("pins", RawRef, KeyA), Entry("archive", RawRef, Unnamed),
                            Entry("pins", KeyA, RawRef)} }

MCTimes == 0..3

\* The sample of the doctor, with up to two cameras, each a status or an object.
Camera == {"down", "object"}

Document(cameras) ==
    LET n == Len(cameras)
        items    == {<<Cameras, i>> : i \in 0..(n - 1)}
        statuses == {<<Cameras, i, Status>> : i \in {j \in 0..(n - 1) : cameras[j + 1] = "object"}}
    IN  [q \in {<<>>, <<Cameras>>} \cup items \cup statuses |->
            IF q = <<>> THEN "object"
            ELSE IF q = <<Cameras>> THEN "array"
            ELSE IF q \in items THEN cameras[q[2] + 1]
            ELSE "up"]

MCDocuments == {Document(c) : c \in UNION {[1..n -> Camera] : n \in 0..2}}

MCNames == {Cameras, Status}
MCLeaves == {"up", "down"}

MCOperations ==
    [op : {"set", "remove", "appendUnique"}, leaf : MCLeaves,
     path : {<<>>, <<Cameras>>, <<Cameras, 0>>, <<Cameras, 1>>, <<Cameras, 0, Status>>,
             <<Cameras, 1, Status>>, <<Status>>}]

MCDeltas == [base : {0}, ops : UNION {[1..n -> MCOperations] : n \in 1..2}]
=============================================================================
