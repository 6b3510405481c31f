--------------------------- MODULE ServiceCommand ---------------------------
(***************************************************************************)
(* The service commands (run_service and run_service_catalog of            *)
(* src/src/app.rs): what each asks of a service and when it touches the    *)
(* state file, whose operations are those of RuntimeStore.                 *)
(*                                                                         *)
(* A command about a node observes the service's surface first, finds the  *)
(* node and its channel on it, sends the request or observes the channel,  *)
(* and saves its copy of the file; an observing command tells its observer *)
(* after that.  Requests and answers go through the session layer, which   *)
(* EdgeSession models; here each has one of the outcomes that has.  The    *)
(* services found are those of ServiceLookup.                              *)
(***************************************************************************)
EXTENDS RuntimeStore

CONSTANTS
    Asked,          \* the service asked for, in Services
    SurfaceChannel, \* the channel of its surface
    Nodes,          \* names of nodes
    Surfaces,       \* what a surface can say, in Rests
    Backing,        \* of each surface: the channel of each node it describes
    Blank,          \* the channel of a node that has none
    Answers         \* of each key: the projections that are answered, or sent
                    \* unasked, under it

\* A key is a service and a channel: of the record, not of the request.  Of the two
\* only the channel is checked.
On(channel) == {k \in Keys : k[2] = channel}

ChannelsOf(s) == {Backing[s][n] : n \in DOMAIN Backing[s]} \ {Blank}

ASSUME ServiceAssumption ==
    /\ Asked \in Services
    /\ Surfaces \subseteq Rests
    /\ \A s \in Surfaces : DOMAIN Backing[s] \subseteq Nodes
    /\ Answers \in [Keys -> SUBSET Projection]

VARIABLES
    at,         \* of each process: where its command stands
    command,    \* what it was asked to do
    surface,    \* the surface it goes by
    output,     \* the projection it will show, whether the observer is told
    sent,       \* the channel its set request went to
    \* history
    answered,   \* the surface the service answered this command with
    news        \* whether its save changed what the file says of its output

commandVars == <<command, surface, output, sent>>
serviceVars == <<vars, at, commandVars, answered, news>>

-----------------------------------------------------------------------------
Commands == [what : {"detail", "read", "watch", "set"}, node : Nodes]

NoCommand == [what |-> "none"]
NoSurface == "none"
NoOutput  == [shows |-> FALSE]

Outputs ==
    [shows : {TRUE}, key : Keys, projection : Projections(Seq(Event)), told : BOOLEAN]
        \cup {NoOutput}

ServiceStages ==
    {"none", "catalog", "remembered", "opened", "resolved", "surfaced",
     "published", "watching", "observed", "saved"}

InitService ==
    /\ Init
    /\ at = [p \in Procs |-> "none"]
    /\ command = [p \in Procs |-> NoCommand]
    /\ surface = [p \in Procs |-> NoSurface]
    /\ output = [p \in Procs |-> NoOutput]
    /\ sent = [p \in Procs |-> Blank]
    /\ answered = [p \in Procs |-> NoSurface]
    /\ news = [p \in Procs |-> "none"]

GoesTo(p, from, to) == at[p] = from /\ at' = [at EXCEPT ![p] = to]

\* The command ends, with an answer or an error; nothing of it remains but what
\* it saved.
Ends(p) ==
    /\ at' = [at EXCEPT ![p] = "none"]
    /\ command' = [command EXCEPT ![p] = NoCommand]
    /\ surface' = [surface EXCEPT ![p] = NoSurface]
    /\ output' = [output EXCEPT ![p] = NoOutput]
    /\ sent' = [sent EXCEPT ![p] = Blank]
    /\ answered' = [answered EXCEPT ![p] = NoSurface]
    /\ news' = [news EXCEPT ![p] = "none"]

-----------------------------------------------------------------------------
(* The catalog: every service found, and the profile's relays *)

CatalogOpens(p) ==
    /\ GoesTo(p, "none", "catalog")
    /\ Open(p)
    /\ UNCHANGED <<commandVars, answered, news>>

\* One descriptor that is not valid ends the command: CommandFails.  Without a
\* readable profile there are no relays to remember.
CatalogRemembers(p) ==
    /\ GoesTo(p, "catalog", "remembered")
    /\ \E found \in [Services -> Gateways \cup {Unknown}], profile \in BOOLEAN :
        mine' = [mine EXCEPT
            ![p].descriptors = [s \in Services |->
                IF found[s] = Unknown THEN @[s] ELSE found[s]],
            ![p].relays = IF profile THEN @ \cup Relays ELSE @]
    /\ UNCHANGED <<file, torn, pc, replaced, missed, commandVars, answered, news>>

CatalogSaves(p) == at[p] = "remembered" /\ Save(p) /\ Ends(p)

-----------------------------------------------------------------------------
(* A command about one service *)

ServiceOpens(p) ==
    /\ GoesTo(p, "none", "opened")
    /\ Open(p)
    /\ \E c \in Commands : command' = [command EXCEPT ![p] = c]
    /\ UNCHANGED <<surface, output, sent, answered, news>>

\* The path is found to mean the service, hosted by some gateway.
Resolves(p) ==
    /\ GoesTo(p, "opened", "resolved")
    /\ \E g \in Gateways : RememberDescriptor(p, Asked, g)
    /\ UNCHANGED <<commandVars, answered, news>>

\* Mutant: the surface an earlier command retained under the name asked for is
\* gone by, as long as there is one.
SurfaceRetained(p, k, new) ==
    LET old == mine[p].projections[<<Asked, SurfaceChannel>>] IN
    IF old = None THEN new.rest ELSE old.rest

\* fetch_service_surface reads the surface out of what was stored, not out of
\* the answer.
SurfaceRead(p, k, new) == Stored(p, k, new).rest

\* An answer that is no valid record of the surface's channel, or holds no valid
\* surface, ends the command: CommandFails.  A record of another service that
\* names its surface's channel alike will do, with a list of events or without.
\* Every transport's answer has a projection: the one without is never returned.
ObservesSurface(p) ==
    /\ GoesTo(p, "resolved", "surfaced")
    /\ \E k \in On(SurfaceChannel) : \E new \in Answers[k] :
        /\ new.rest \in Surfaces
        /\ StoreProjection(p, k, new)
        /\ surface' = [surface EXCEPT ![p] = SurfaceRead(p, k, new)]
        /\ answered' = [answered EXCEPT ![p] = new.rest]
    /\ UNCHANGED <<command, output, sent, news>>

ShowsDetail(p) ==
    /\ at[p] = "surfaced"
    /\ command[p].what = "detail"
    /\ Save(p)
    /\ Ends(p)

\* The node, when the surface describes it.
NodeFound(p) ==
    /\ command[p].what # "detail"
    /\ command[p].node \in DOMAIN Backing[surface[p]]

NodeChannel(p) == Backing[surface[p]][command[p].node]

\* A request for a node without a channel has no frame: CommandFails, as when it
\* does not fit the surface or the gateway refuses it.
Publishes(p) ==
    /\ GoesTo(p, "surfaced", "published")
    /\ NodeFound(p)
    /\ command[p].what = "set"
    /\ NodeChannel(p) # Blank
    /\ sent' = [sent EXCEPT ![p] = NodeChannel(p)]
    /\ UNCHANGED <<vars, command, surface, output, answered, news>>

\* Mutant: a set is done when it is published.
PublishIsAll(p) == at[p] = "published" /\ Ends(p) /\ UNCHANGED vars

SavesAfterPublish(p) == at[p] = "published" /\ Save(p) /\ Ends(p)

\* The observer is told that nothing is retained, whatever the copy holds.
AnnouncesWatch(p) ==
    /\ GoesTo(p, "surfaced", "watching")
    /\ NodeFound(p)
    /\ command[p].what = "watch"
    /\ NodeChannel(p) # Blank
    /\ UNCHANGED <<vars, commandVars, answered, news>>

Observing(p) ==
    \/ at[p] = "watching"
    \/ at[p] = "surfaced" /\ NodeFound(p) /\ command[p].what = "read"
                          /\ NodeChannel(p) # Blank

\* Mutant: the observer is told of whatever was observed.
ObservesNodeAlwaysTells(p) ==
    /\ Observing(p)
    /\ at' = [at EXCEPT ![p] = "observed"]
    /\ \E k \in Keys : \E new \in Answers[k] :
        /\ k[2] \in ChannelsOf(surface[p]) \cup {SurfaceChannel}
        /\ StoreProjection(p, k, new)
        /\ output' = [output EXCEPT ![p] =
              [shows |-> TRUE, key |-> k, projection |-> Stored(p, k, new), told |-> TRUE]]
    /\ UNCHANGED <<command, surface, sent, answered, news>>

\* The first projection that arrives is the answer: a record of the node's
\* channel, of another node's, of the surface again, or of another service that
\* names a channel alike.
ObservesNode(p) ==
    /\ Observing(p)
    /\ at' = [at EXCEPT ![p] = "observed"]
    /\ \E k \in Keys : \E new \in Answers[k] :
        /\ k[2] \in ChannelsOf(surface[p]) \cup {SurfaceChannel}
        /\ StoreProjection(p, k, new)
        /\ output' = [output EXCEPT ![p] =
              [shows |-> TRUE, key |-> k, projection |-> Stored(p, k, new),
               told |-> Changes(p, k, new)]]
    /\ UNCHANGED <<command, surface, sent, answered, news>>

\* What is not observed is printed at once; the observer is told in a step after.
SavesRead(p) ==
    /\ at[p] = "observed"
    /\ Save(p)
    /\ IF command[p].what = "watch"
       THEN /\ at' = [at EXCEPT ![p] = "saved"]
            /\ LET k == output[p].key IN
               news' = [news EXCEPT ![p] =
                   IF k[2] = SurfaceChannel \/ k \in missed[p] THEN "none"
                   ELSE IF file'.projections[k] # file.projections[k] THEN "some"
                   ELSE "no"]
            /\ UNCHANGED <<commandVars, answered>>
       ELSE Ends(p)

\* The observer update, if there is one, and the snapshot.  A command that is
\* killed here, or cannot print, has saved what its observer never hears of.
TellsObserver(p) ==
    /\ at[p] = "saved"
    /\ Ends(p)
    /\ UNCHANGED vars

-----------------------------------------------------------------------------
HoldsFile(p) == at[p] \in ServiceStages \ {"none", "saved"}

\* Any of the calls fails, or the save does without touching the file; or the
\* process is killed.
CommandFails(p) == HoldsFile(p) /\ Fails(p) /\ Ends(p)

CommandTears(p) == HoldsFile(p) /\ Tears(p) /\ Ends(p)

ServiceStep(p) ==
    \/ CatalogOpens(p) \/ CatalogRemembers(p) \/ CatalogSaves(p)
    \/ ServiceOpens(p) \/ Resolves(p) \/ ObservesSurface(p) \/ ShowsDetail(p)
    \/ Publishes(p) \/ SavesAfterPublish(p)
    \/ AnnouncesWatch(p) \/ ObservesNode(p) \/ SavesRead(p) \/ TellsObserver(p)
    \/ CommandFails(p) \/ CommandTears(p)

-----------------------------------------------------------------------------
(* Properties *)

\* A set request goes to the channel that the surface answered to this very
\* command gives the node, whatever surface is retained from earlier commands or
\* being saved by others, and though it is read out of what the answer was merged
\* with.
SetFollowsAnsweredSurface ==
    \A p \in Procs :
        at[p] = "published" => sent[p] = Backing[answered[p]][command[p].node]

\* A watch tells its observer exactly of what its save changed: nothing that is
\* new in the file stays untold, and what others saw before it is not told as
\* new.  Not compared: what another command saved meanwhile, and records of the
\* surface's channel, of which the command stored one before.
ObserverHearsTheNews ==
    \A p \in Procs : at[p] = "saved" =>
        /\ news[p] = "some" => output[p].told
        /\ news[p] = "no" => ~output[p].told
=============================================================================
