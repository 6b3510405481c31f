----------------------------- MODULE DoctorProofs -----------------------------
(***************************************************************************)
(* Proofs about the service commands and the doctor (ServiceCommand and    *)
(* Doctor): what holds of the store alone (RuntimeStoreProofs) holds under *)
(* the commands too, and what they promise follows.                        *)
(***************************************************************************)
EXTENDS Doctor, RuntimeStoreProofs, ProjectionDeltaProofs

-----------------------------------------------------------------------------
(* Every step of a command does to the store what the store allows *)

Remembers(p, found, relays) ==
    /\ pc[p] = "open"
    /\ mine' = [mine EXCEPT ![p].descriptors = found, ![p].relays = relays]
    /\ UNCHANGED <<file, torn, pc, replaced, missed>>

StoreMove(p) ==
    \/ UNCHANGED vars
    \/ Open(p)
    \/ Save(p) \/ Fails(p) \/ Tears(p)
    \/ \E s \in Services, g \in Gateways : RememberDescriptor(p, s, g)
    \/ \E f \in [Services -> Gateways \cup {Unknown}], r \in SUBSET Relays : Remembers(p, f, r)
    \/ \E k \in Keys, new \in Projection : StoreProjection(p, k, new)

LEMMA RemembersStore ==
    ASSUME StoreInv, NEW p \in Procs, NEW f \in [Services -> Gateways \cup {Unknown}],
           NEW r \in SUBSET Relays, Remembers(p, f, r)
    PROVE  StoreInv'
<1>1. mine[p] \in KeptState
  BY DEF StoreInv
<1>2. [mine[p] EXCEPT !.descriptors = f, !.relays = r] \in KeptState
  BY <1>1 DEF KeptState
<1>3. mine' = [mine EXCEPT ![p] = [mine[p] EXCEPT !.descriptors = f, !.relays = r]]
  BY DEF Remembers
<1>4. mine' \in [Procs -> KeptState]
  BY <1>2, <1>3 DEF StoreInv
<1> QED
  BY <1>4, KeptStateIsState DEF StoreInv, TypeOK, Remembers

LEMMA MoveStore == ASSUME StoreInv, NEW p \in Procs, StoreMove(p) PROVE StoreInv'
<1>1. CASE UNCHANGED vars
  BY <1>1 DEF vars, StoreInv, TypeOK
<1>2. CASE ~(UNCHANGED vars)
  BY <1>2, OpenStore, EndsStore, RememberStore, RemembersStore, ProjectionStore DEF StoreMove
<1> QED
  BY <1>1, <1>2

LEMMA AnswersAreProjections ==
    ASSUME NEW k \in Keys, NEW new \in Answers[k]
    PROVE  new \in Projection
BY ServiceAssumption

AllAnswers == UNION {Answers[k] : k \in Keys}

\* What p does, its own copy aside, leaves the others' copies; and of the file
\* only what they then count as missed.
Aside(p) ==
    \A q \in Procs \ {p} :
        /\ pc'[q] = pc[q] /\ mine'[q] = mine[q]
        /\ pc[q] = "open" => \A k \in Keys \ missed'[q] :
               k \notin missed[q] /\ file'.projections[k] = file.projections[k]

LEMMA MoveAside == ASSUME StoreInv, NEW p \in Procs, StoreMove(p) PROVE Aside(p)
<1>1. ASSUME NEW left \in KeptState, NEW cut, End(p, left, cut) PROVE Aside(p)
  BY <1>1 DEF Aside, End, StoreInv, TypeOK
<1>2. CASE Save(p) \/ Fails(p) \/ Tears(p)
  BY <1>1, <1>2, EmptyIsKept DEF Save, Fails, Tears, StoreInv
<1>3. CASE UNCHANGED vars
  BY <1>3 DEF vars, Aside
<1>4. CASE Open(p)
  BY <1>4 DEF Open, Aside, StoreInv, TypeOK
<1>5. ASSUME NEW s \in Services, NEW g \in Gateways, RememberDescriptor(p, s, g)
      PROVE  Aside(p)
  BY <1>5 DEF RememberDescriptor, Aside, StoreInv, TypeOK
<1>6. ASSUME NEW f, NEW r, Remembers(p, f, r) PROVE Aside(p)
  BY <1>6 DEF Remembers, Aside, StoreInv, TypeOK
<1>7. ASSUME NEW k \in Keys, NEW new \in Projection, StoreProjection(p, k, new)
      PROVE  Aside(p)
  BY <1>7 DEF StoreProjection, Aside, StoreInv, TypeOK
<1> QED
  BY <1>2, <1>3, <1>4, <1>5, <1>6, <1>7 DEF StoreMove

-----------------------------------------------------------------------------
(* Type correctness of the commands *)

\* What CommandsTypeOK says of the commands' own variables.
LocalsOK ==
    /\ at \in [Procs -> ServiceStages \cup StoreStages \cup CheckStages]
    /\ command \in [Procs -> Commands \cup {NoCommand}]
    /\ surface \in [Procs -> Surfaces \cup {NoSurface}]
    /\ output \in [Procs -> Outputs]
    /\ sent \in [Procs -> {Blank} \cup UNION {ChannelsOf(s) : s \in Surfaces}]
    /\ answered \in [Procs -> Surfaces \cup {NoSurface}]
    /\ news \in [Procs -> {"none", "some", "no"}]
    /\ worst \in [Procs -> Statuses]
    /\ record \in [Procs -> [key : Keys, new : AllAnswers] \cup {NoRecord}]
    /\ kept \in [Procs -> BOOLEAN]

\* A process holds a copy where its command stands in the midst of the file.
HoldsRightly(p) == pc[p] = "open" <=> HoldsFile(p) \/ at[p] \in StoreStages

\* What a command knows where it stands.
Knows(p) ==
    /\ at[p] \in {"opened", "resolved", "surfaced", "published", "watching", "observed", "saved"}
       => command[p] \in Commands
    /\ at[p] \in {"surfaced", "published", "watching", "observed", "saved"}
       => surface[p] \in Surfaces /\ surface[p] = answered[p]
    /\ at[p] = "published" => sent[p] = Backing[answered[p]][command[p].node]
    /\ at[p] \in {"observed", "saved"} => output[p] # NoOutput
    /\ at[p] \in {"answered", "holding", "noted", "retained"} => record[p] # NoRecord

CommandInv ==
    /\ StoreInv
    /\ LocalsOK
    /\ \A p \in Procs : HoldsRightly(p) /\ Knows(p)

\* The others' commands stand where they stood.
LocalsAside(p) ==
    \A q \in Procs \ {p} :
        /\ at'[q] = at[q] /\ command'[q] = command[q] /\ surface'[q] = surface[q]
        /\ output'[q] = output[q] /\ sent'[q] = sent[q] /\ answered'[q] = answered[q]
        /\ news'[q] = news[q] /\ worst'[q] = worst[q] /\ record'[q] = record[q]
        /\ kept'[q] = kept[q]

\* What a step of p is shown to do.
Sound(p) ==
    /\ StoreMove(p)
    /\ LocalsOK'
    /\ LocalsAside(p)
    /\ HoldsRightly(p)' /\ Knows(p)'

LEMMA StringsDiffer ==
    /\ ServiceStages \cap (StoreStages \cup CheckStages) = {}
    /\ StoreStages \cap CheckStages = {}
BY DEF ServiceStages, StoreStages, CheckStages

\* What is common to the ends of a service command.
LEMMA EndsLocals ==
    ASSUME LocalsOK, NEW p \in Procs, Ends(p), UNCHANGED doctorVars
    PROVE  LocalsOK' /\ LocalsAside(p) /\ at'[p] = "none" /\ Knows(p)'
<1>1. "none" \in ServiceStages /\ NoOutput \in Outputs
  BY DEF ServiceStages, Outputs
<1>2. LocalsOK'
  BY <1>1 DEF Ends, doctorVars, LocalsOK
<1>3. LocalsAside(p)
  BY DEF Ends, doctorVars, LocalsOK, LocalsAside
<1>4. at'[p] = "none"
  BY DEF Ends, LocalsOK
<1> QED
  BY <1>2, <1>3, <1>4 DEF Knows

LEMMA DoctorEndsLocals ==
    ASSUME LocalsOK, NEW p \in Procs, DoctorEnds(p)
    PROVE  LocalsOK' /\ LocalsAside(p) /\ at'[p] = "none" /\ Knows(p)'
<1>1. "none" \in ServiceStages /\ NoOutput \in Outputs /\ "pass" \in Statuses
  BY DEF ServiceStages, Outputs, Statuses, Gravity
<1>2. LocalsOK'
  BY <1>1 DEF DoctorEnds, Ends, LocalsOK
<1>3. LocalsAside(p)
  BY DEF DoctorEnds, Ends, LocalsOK, LocalsAside
<1>4. at'[p] = "none"
  BY DEF DoctorEnds, Ends, LocalsOK
<1> QED
  BY <1>2, <1>3, <1>4 DEF Knows

\* The copy is given up, or there was none, and the command is at its end.
LEMMA EndIsSound ==
    ASSUME CommandInv, NEW p \in Procs,
           Save(p) \/ Fails(p) \/ Tears(p) \/ (UNCHANGED vars /\ pc[p] # "open"),
           LocalsOK', LocalsAside(p), at'[p] = "none", Knows(p)'
    PROVE  Sound(p)
<1>1. pc'[p] # "open"
  BY DEF Save, Fails, Tears, End, vars, CommandInv, StoreInv, TypeOK
<1>2. HoldsRightly(p)'
  BY <1>1 DEF HoldsRightly, HoldsFile, StoreStages
<1>3. StoreMove(p)
  BY DEF StoreMove
<1> QED
  BY <1>2, <1>3 DEF Sound

LEMMA ServiceEndsSound ==
    ASSUME CommandInv, NEW p \in Procs, UNCHANGED doctorVars,
           \/ CatalogSaves(p) \/ ShowsDetail(p) \/ SavesAfterPublish(p) \/ TellsObserver(p)
           \/ CommandFails(p) \/ CommandTears(p)
    PROVE  Sound(p)
<1>1. Ends(p)
  BY DEF CatalogSaves, ShowsDetail, SavesAfterPublish, TellsObserver, CommandFails, CommandTears
<1>2. LocalsOK' /\ LocalsAside(p) /\ at'[p] = "none" /\ Knows(p)'
  BY <1>1, EndsLocals DEF CommandInv
<1>3. TellsObserver(p) => pc[p] # "open"
  BY DEF TellsObserver, CommandInv, HoldsRightly, HoldsFile, StoreStages
<1>4. Save(p) \/ Fails(p) \/ Tears(p) \/ (UNCHANGED vars /\ pc[p] # "open")
  BY <1>3 DEF CatalogSaves, ShowsDetail, SavesAfterPublish, TellsObserver, CommandFails,
              CommandTears
<1> QED
  BY <1>2, <1>4, EndIsSound

LEMMA DoctorEndsSound ==
    ASSUME CommandInv, NEW p \in Procs, Reports(p) \/ DoctorKilled(p)
    PROVE  Sound(p)
<1>1. DoctorEnds(p)
  BY DEF Reports, DoctorKilled
<1>2. LocalsOK' /\ LocalsAside(p) /\ at'[p] = "none" /\ Knows(p)'
  BY <1>1, DoctorEndsLocals DEF CommandInv
<1>3. at[p] \in CheckStages => pc[p] # "open"
  BY StringsDiffer DEF CommandInv, HoldsRightly, HoldsFile
<1>4. "report" \in CheckStages
  BY DEF CheckStages
<1>5. Save(p) \/ Fails(p) \/ Tears(p) \/ (UNCHANGED vars /\ pc[p] # "open")
  BY <1>3, <1>4 DEF Reports, DoctorKilled
<1> QED
  BY <1>2, <1>5, EndIsSound

-----------------------------------------------------------------------------
(* The service commands, step by step *)

LEMMA OpeningSound ==
    ASSUME CommandInv, NEW p \in Procs, UNCHANGED doctorVars, CatalogOpens(p) \/ ServiceOpens(p)
    PROVE  Sound(p)
<1>1. StoreMove(p) /\ pc'[p] = "open"
  BY DEF CatalogOpens, ServiceOpens, StoreMove, Open, CommandInv, StoreInv, TypeOK
<1>2. LocalsOK' /\ LocalsAside(p)
  BY DEF CatalogOpens, ServiceOpens, CommandInv, LocalsOK, LocalsAside, GoesTo, doctorVars,
         commandVars, ServiceStages
<1>3. HoldsRightly(p)' /\ Knows(p)'
  BY <1>1 DEF CatalogOpens, ServiceOpens, CommandInv, LocalsOK, GoesTo, HoldsRightly,
              HoldsFile, Knows, ServiceStages, StoreStages
<1> QED
  BY <1>1, <1>2, <1>3 DEF Sound

LEMMA CatalogRemembersSound ==
    ASSUME CommandInv, NEW p \in Procs, UNCHANGED doctorVars, CatalogRemembers(p)
    PROVE  Sound(p)
<1>1. mine[p] \in KeptState /\ pc[p] = "open"
  BY DEF CatalogRemembers, GoesTo, CommandInv, StoreInv, HoldsRightly, HoldsFile, ServiceStages
<1>2. PICK found \in [Services -> Gateways \cup {Unknown}], profile \in BOOLEAN :
        mine' = [mine EXCEPT
            ![p].descriptors = [s \in Services |->
                IF found[s] = Unknown THEN @[s] ELSE found[s]],
            ![p].relays = IF profile THEN @ \cup Relays ELSE @]
  BY DEF CatalogRemembers
<1> DEFINE f == [s \in Services |->
                   IF found[s] = Unknown THEN mine[p].descriptors[s] ELSE found[s]]
           r == IF profile THEN mine[p].relays \cup Relays ELSE mine[p].relays
<1>3. f \in [Services -> Gateways \cup {Unknown}] /\ r \in SUBSET Relays
  BY <1>1 DEF KeptState
<1>4. Remembers(p, f, r)
  BY <1>1, <1>2 DEF Remembers, CatalogRemembers, CommandInv, StoreInv
<1>5. StoreMove(p) /\ pc'[p] = "open"
  BY <1>1, <1>3, <1>4 DEF StoreMove, Remembers
<1>6. LocalsOK' /\ LocalsAside(p)
  BY DEF CatalogRemembers, CommandInv, LocalsOK, LocalsAside, GoesTo, doctorVars,
         commandVars, ServiceStages
<1>7. HoldsRightly(p)' /\ Knows(p)'
  BY <1>5 DEF CatalogRemembers, CommandInv, LocalsOK, GoesTo, HoldsRightly, HoldsFile, Knows,
              ServiceStages, StoreStages
<1> QED
  BY <1>5, <1>6, <1>7 DEF Sound

LEMMA ResolvesSound ==
    ASSUME CommandInv, NEW p \in Procs, UNCHANGED doctorVars, Resolves(p)
    PROVE  Sound(p)
<1>1. StoreMove(p) /\ pc'[p] = "open"
  BY ServiceAssumption DEF Resolves, StoreMove, RememberDescriptor
<1>2. LocalsOK' /\ LocalsAside(p)
  BY DEF Resolves, CommandInv, LocalsOK, LocalsAside, GoesTo, doctorVars, commandVars,
         ServiceStages
<1>3. HoldsRightly(p)' /\ Knows(p)'
  BY <1>1 DEF Resolves, CommandInv, LocalsOK, GoesTo, HoldsRightly, HoldsFile, Knows,
              ServiceStages, StoreStages, commandVars
<1> QED
  BY <1>1, <1>2, <1>3 DEF Sound

\* Whatever an answer is merged with, the surface in it is read back.
LEMMA SurfaceReadIs ==
    ASSUME StoreInv, NEW p \in Procs, NEW k \in Keys, NEW new \in Answers[k]
    PROVE  SurfaceRead(p, k, new) = new.rest
<1>1. new \in Kept
  BY AnswersAreProjections, ObservedKept
<1>2. mine[p].projections[k] \in Kept \cup {None}
  BY DEF StoreInv, KeptState
<1> QED
  BY <1>1, <1>2, StoredIs DEF SurfaceRead

LEMMA ObservesSurfaceSound ==
    ASSUME CommandInv, NEW p \in Procs, UNCHANGED doctorVars, ObservesSurface(p)
    PROVE  Sound(p)
<1>0. PICK k \in Keys : \E new \in Answers[k] :
        /\ new.rest \in Surfaces
        /\ StoreProjection(p, k, new)
        /\ surface' = [surface EXCEPT ![p] = SurfaceRead(p, k, new)]
        /\ answered' = [answered EXCEPT ![p] = new.rest]
  BY DEF ObservesSurface, On
<1>1. PICK new \in Answers[k] :
        /\ new.rest \in Surfaces
        /\ StoreProjection(p, k, new)
        /\ surface' = [surface EXCEPT ![p] = SurfaceRead(p, k, new)]
        /\ answered' = [answered EXCEPT ![p] = new.rest]
  BY <1>0
<1>2. StoreMove(p) /\ pc'[p] = "open"
  BY <1>1, AnswersAreProjections DEF StoreMove, StoreProjection
<1>3. SurfaceRead(p, k, new) = new.rest
  BY SurfaceReadIs DEF CommandInv
<1>4. LocalsOK' /\ LocalsAside(p)
  BY <1>1, <1>3 DEF ObservesSurface, CommandInv, LocalsOK, LocalsAside, GoesTo, doctorVars,
                    ServiceStages
<1>5. HoldsRightly(p)' /\ Knows(p)'
  BY <1>1, <1>2, <1>3 DEF ObservesSurface, CommandInv, LocalsOK, GoesTo, HoldsRightly,
                          HoldsFile, Knows, ServiceStages, StoreStages
<1> QED
  BY <1>2, <1>4, <1>5 DEF Sound

LEMMA PublishesSound ==
    ASSUME CommandInv, NEW p \in Procs, UNCHANGED doctorVars, Publishes(p)
    PROVE  Sound(p)
<1>1. StoreMove(p)
  BY DEF Publishes, StoreMove
<1>2. /\ surface[p] \in Surfaces /\ surface[p] = answered[p] /\ command[p] \in Commands
      /\ pc[p] = "open" /\ pc' = pc
  BY DEF Publishes, GoesTo, CommandInv, Knows, HoldsRightly, HoldsFile, ServiceStages, vars
<1>3. NodeChannel(p) \in ChannelsOf(surface[p])
  BY DEF Publishes, NodeFound, NodeChannel, ChannelsOf
<1>4. LocalsOK' /\ LocalsAside(p)
  BY <1>2, <1>3 DEF Publishes, CommandInv, LocalsOK, LocalsAside, GoesTo, doctorVars,
                    ServiceStages
<1>5. sent'[p] = Backing[answered[p]][command[p].node]
  BY <1>2 DEF Publishes, NodeChannel, CommandInv, LocalsOK
<1>6. HoldsRightly(p)' /\ Knows(p)'
  BY <1>2, <1>5 DEF Publishes, CommandInv, LocalsOK, GoesTo, HoldsRightly, HoldsFile, Knows,
                    ServiceStages, StoreStages
<1> QED
  BY <1>1, <1>4, <1>6 DEF Sound

LEMMA AnnouncesWatchSound ==
    ASSUME CommandInv, NEW p \in Procs, UNCHANGED doctorVars, AnnouncesWatch(p)
    PROVE  Sound(p)
<1>1. StoreMove(p)
  BY DEF AnnouncesWatch, StoreMove
<1>2. LocalsOK' /\ LocalsAside(p)
  BY DEF AnnouncesWatch, CommandInv, LocalsOK, LocalsAside, GoesTo, doctorVars, commandVars,
         ServiceStages
<1>3. HoldsRightly(p)' /\ Knows(p)'
  BY DEF AnnouncesWatch, CommandInv, LocalsOK, GoesTo, HoldsRightly, HoldsFile, Knows,
         ServiceStages, StoreStages, commandVars, vars
<1> QED
  BY <1>1, <1>2, <1>3 DEF Sound

LEMMA ObservesNodeSound ==
    ASSUME CommandInv, NEW p \in Procs, UNCHANGED doctorVars, ObservesNode(p)
    PROVE  Sound(p)
<1>0. PICK k \in Keys : \E new \in Answers[k] :
        /\ StoreProjection(p, k, new)
        /\ output' = [output EXCEPT ![p] =
              [shows |-> TRUE, key |-> k, projection |-> Stored(p, k, new),
               told |-> Changes(p, k, new)]]
  BY DEF ObservesNode
<1>1. PICK new \in Answers[k] :
        /\ StoreProjection(p, k, new)
        /\ output' = [output EXCEPT ![p] =
              [shows |-> TRUE, key |-> k, projection |-> Stored(p, k, new),
               told |-> Changes(p, k, new)]]
  BY <1>0
<1>2. new \in Projection
  BY AnswersAreProjections
<1>3. StoreMove(p) /\ pc'[p] = "open"
  BY <1>1, <1>2 DEF StoreMove, StoreProjection
<1>4. Stored(p, k, new) \in Projections(Seq(Event))
  <2>1. new \in Kept /\ mine[p].projections[k] \in Kept \cup {None}
    BY <1>2, ObservedKept DEF CommandInv, StoreInv, KeptState
  <2>2. Stored(p, k, new) \in Kept
    BY <2>1, StoredIs
  <2>3. DistinctLists \subseteq Seq(Event)
    BY DEF DistinctLists
  <2> QED
    BY <2>2, <2>3 DEF Kept, Projections
<1>5. Changes(p, k, new) \in BOOLEAN
  BY DEF Changes, SemanticallyEqual
<1> DEFINE shown == [shows |-> TRUE, key |-> k, projection |-> Stored(p, k, new),
                     told |-> Changes(p, k, new)]
<1>6. shown \in Outputs /\ shown # NoOutput
  <2>1. shown \in Outputs
    BY <1>4, <1>5 DEF Outputs
  <2>2. "key" \in DOMAIN shown /\ "key" \notin DOMAIN NoOutput
    BY DEF NoOutput
  <2> QED
    BY <2>1, <2>2
<1>7. output' = [output EXCEPT ![p] = shown]
  BY <1>1
<1> HIDE DEF shown
<1>8. LocalsOK' /\ LocalsAside(p)
  BY <1>6, <1>7 DEF ObservesNode, CommandInv, LocalsOK, LocalsAside, doctorVars, ServiceStages
<1>9. HoldsRightly(p)' /\ Knows(p)'
  BY <1>3, <1>6, <1>7 DEF ObservesNode, Observing, CommandInv, LocalsOK, HoldsRightly,
                          HoldsFile, Knows, ServiceStages, StoreStages
<1> QED
  BY <1>3, <1>8, <1>9 DEF Sound

LEMMA SavesReadSound ==
    ASSUME CommandInv, NEW p \in Procs, UNCHANGED doctorVars, SavesRead(p)
    PROVE  Sound(p)
<1>1. CASE command[p].what # "watch"
  <2>1. Save(p) /\ Ends(p)
    BY <1>1 DEF SavesRead
  <2>2. LocalsOK' /\ LocalsAside(p) /\ at'[p] = "none" /\ Knows(p)'
    BY <2>1, EndsLocals DEF CommandInv
  <2> QED
    BY <2>1, <2>2, EndIsSound
<1>2. CASE command[p].what = "watch"
  <2>1. /\ at[p] = "observed" /\ Save(p) /\ at' = [at EXCEPT ![p] = "saved"]
        /\ UNCHANGED <<commandVars, answered>>
    BY <1>2 DEF SavesRead
  <2>2. \E x \in {"none", "some", "no"} : news' = [news EXCEPT ![p] = x]
    BY <1>2 DEF SavesRead
  <2>3. StoreMove(p) /\ pc'[p] = "idle"
    BY <2>1 DEF StoreMove, Save, End, CommandInv, StoreInv, TypeOK
  <2>4. LocalsOK' /\ LocalsAside(p)
    BY <2>1, <2>2 DEF CommandInv, LocalsOK, LocalsAside, doctorVars, commandVars, ServiceStages
  <2>5. HoldsRightly(p)' /\ Knows(p)'
    BY <2>1, <2>3 DEF CommandInv, LocalsOK, HoldsRightly, HoldsFile, Knows, StoreStages,
                      commandVars
  <2> QED
    BY <2>3, <2>4, <2>5 DEF Sound
<1> QED
  BY <1>1, <1>2

LEMMA ServiceSound ==
    ASSUME CommandInv, NEW p \in Procs, ServiceStep(p), UNCHANGED doctorVars
    PROVE  Sound(p)
BY ServiceEndsSound, OpeningSound, CatalogRemembersSound, ResolvesSound, ObservesSurfaceSound,
   PublishesSound, AnnouncesWatchSound, ObservesNodeSound, SavesReadSound DEF ServiceStep

-----------------------------------------------------------------------------
(* The doctor, step by step *)

LEMMA CheckedIs ==
    ASSUME LocalsOK, NEW p \in Procs, NEW statuses \in SUBSET Statuses, Checked(p, statuses)
    PROVE  /\ worst' \in [Procs -> Statuses]
           /\ \A q \in Procs \ {p} : worst'[q] = worst[q]
           /\ worst[p] = "fail" => worst'[p] = "fail"
           /\ statuses = {"fail"} => worst'[p] = "fail"
<1>1. PICK s \in statuses : worst' = [worst EXCEPT ![p] = Graver(worst[p], s)]
  BY DEF Checked
<1>2. worst \in [Procs -> Statuses] /\ worst[p] \in Statuses /\ s \in Statuses
  BY DEF LocalsOK
<1>3. \A a, b \in Statuses : /\ Graver(a, b) \in Statuses
                             /\ Graver("fail", b) = "fail" /\ Graver(a, "fail") = "fail"
  BY DEF Graver, Statuses, Gravity
<1> QED
  BY <1>1, <1>2, <1>3

LEMMA ChecksSound ==
    ASSUME CommandInv, NEW p \in Procs, NEW from \in CheckStages,
           NEW to \in CheckStages \ {"answered"}, NEW statuses \in SUBSET Statuses,
           Checks(p, from, to, statuses)
    PROVE  Sound(p)
<1>1. StoreMove(p) /\ pc'[p] = pc[p]
  BY DEF Checks, StoreMove, vars
<1>2. /\ worst' \in [Procs -> Statuses]
      /\ \A q \in Procs \ {p} : worst'[q] = worst[q]
  BY CheckedIs DEF Checks, CommandInv
<1>3. LocalsOK' /\ LocalsAside(p)
  BY <1>2 DEF Checks, CommandInv, LocalsOK, LocalsAside, GoesTo, commandVars
<1>4. at[p] = from /\ at'[p] = to
  BY DEF Checks, GoesTo, CommandInv, LocalsOK
<1>5. pc[p] # "open"
  BY <1>4, StringsDiffer DEF CommandInv, HoldsRightly, HoldsFile
<1>6. HoldsRightly(p)'
  BY <1>1, <1>4, <1>5, StringsDiffer DEF HoldsRightly, HoldsFile
<1>7. Knows(p)'
  BY <1>4 DEF Knows, CheckStages
<1> QED
  BY <1>1, <1>3, <1>6, <1>7 DEF Sound

\* All of the checks that touch nothing, and what they lead to.
PlainCheck(p) ==
    \E from \in CheckStages, to \in CheckStages \ {"answered"}, statuses \in SUBSET Statuses :
        /\ Checks(p, from, to, statuses)
        /\ to \in {"watch", "diagnose", "report"} =>
              statuses = {"fail"} \/ from \in {"watch", "diagnose"}

LEMMA PlainChecks ==
    ASSUME NEW p \in Procs,
           \/ ProfileUnusable(p) \/ ProfileUsable(p)
           \/ DescriptorsUnavailable(p) \/ DescriptorsListed(p)
           \/ SamplesChecked(p) \/ SamplesUnreadable(p)
           \/ DirectoryUnavailable(p) \/ DirectoryAnswered(p)
           \/ EventsUnresolved(p) \/ EventsMissing(p) \/ StoreUnreadable(p)
           \/ Watches(p) \/ Diagnoses(p)
    PROVE  PlainCheck(p)
<1>1. /\ {"profile", "described", "checked", "sampled", "surveyed", "logging", "answered",
          "watch", "diagnose", "report"} = CheckStages
      /\ Statuses = {"pass", "warn", "fail"}
  BY DEF CheckStages, Statuses, Gravity
<1>2. CASE ProfileUnusable(p) \/ ProfileUsable(p)
  BY <1>1, <1>2 DEF PlainCheck, ProfileUnusable, ProfileUsable
<1>3. CASE DescriptorsUnavailable(p) \/ DescriptorsListed(p)
  BY <1>1, <1>3 DEF PlainCheck, DescriptorsUnavailable, DescriptorsListed
<1>4. CASE SamplesChecked(p) \/ SamplesUnreadable(p)
  BY <1>1, <1>4 DEF PlainCheck, SamplesChecked, SamplesUnreadable
<1>5. CASE DirectoryUnavailable(p)
  BY <1>1, <1>5 DEF PlainCheck, DirectoryUnavailable
<1>6. CASE DirectoryAnswered(p)
  <2>1. PICK s \in {"pass", "fail"} : Checks(p, "sampled", "surveyed", {s})
    BY <1>6 DEF DirectoryAnswered
  <2> QED
    BY <1>1, <2>1 DEF PlainCheck
<1>7. CASE EventsUnresolved(p) \/ EventsMissing(p)
  BY <1>1, <1>7 DEF PlainCheck, EventsUnresolved, EventsMissing
<1>8. CASE StoreUnreadable(p)
  BY <1>1, <1>8 DEF PlainCheck, StoreUnreadable
<1>9. CASE Watches(p) \/ Diagnoses(p)
  BY <1>1, <1>9 DEF PlainCheck, Watches, Diagnoses
<1> QED
  BY <1>2, <1>3, <1>4, <1>5, <1>6, <1>7, <1>8, <1>9

LEMMA StartsSound ==
    ASSUME CommandInv, NEW p \in Procs, DoctorStarts(p)
    PROVE  Sound(p)
<1>1. StoreMove(p)
  BY DEF DoctorStarts, StoreMove
<1>2. LocalsOK' /\ LocalsAside(p)
  BY DEF DoctorStarts, CommandInv, LocalsOK, LocalsAside, GoesTo, commandVars, doctorVars,
         CheckStages
<1>3. HoldsRightly(p)' /\ Knows(p)'
  BY DEF DoctorStarts, CommandInv, LocalsOK, GoesTo, HoldsRightly, HoldsFile, Knows, vars,
         ServiceStages, StoreStages
<1> QED
  BY <1>1, <1>2, <1>3 DEF Sound

LEMMA EventsSound ==
    ASSUME CommandInv, NEW p \in Procs, EventsResolved(p) \/ EventsAnswered(p)
    PROVE  Sound(p)
<1>1. StoreMove(p) /\ pc' = pc
  BY DEF EventsResolved, EventsAnswered, StoreMove, vars
<1>2. CASE EventsResolved(p)
  <2>1. LocalsOK' /\ LocalsAside(p)
    BY <1>2 DEF EventsResolved, CommandInv, LocalsOK, LocalsAside, GoesTo, doctorVars, CheckStages
  <2>2. HoldsRightly(p)' /\ Knows(p)'
    BY <1>1, <1>2 DEF EventsResolved, CommandInv, LocalsOK, GoesTo, HoldsRightly, HoldsFile,
                      Knows, ServiceStages, StoreStages
  <2> QED
    BY <1>1, <2>1, <2>2 DEF Sound
<1>3. CASE EventsAnswered(p)
  <2>1. PICK r \in [key : Keys, new : AllAnswers] : record' = [record EXCEPT ![p] = r]
    <3>1. PICK k \in Keys : \E new \in Answers[k] :
            record' = [record EXCEPT ![p] = [key |-> k, new |-> new]]
      BY <1>3 DEF EventsAnswered
    <3>2. PICK new \in Answers[k] : record' = [record EXCEPT ![p] = [key |-> k, new |-> new]]
      BY <3>1
    <3>3. [key |-> k, new |-> new] \in [key : Keys, new : AllAnswers]
      BY DEF AllAnswers
    <3> QED BY <3>2, <3>3
  <2>2. r # NoRecord
    <3>1. "new" \in DOMAIN r /\ "new" \notin DOMAIN NoRecord
      BY DEF NoRecord
    <3> QED
      BY <3>1
  <2>3. LocalsOK' /\ LocalsAside(p)
    BY <1>3, <2>1 DEF EventsAnswered, CommandInv, LocalsOK, LocalsAside, GoesTo, commandVars,
                      CheckStages
  <2>4. HoldsRightly(p)' /\ Knows(p)'
    BY <1>1, <1>3, <2>1, <2>2 DEF EventsAnswered, CommandInv, LocalsOK, GoesTo, HoldsRightly,
                             HoldsFile, Knows, ServiceStages, StoreStages
  <2> QED
    BY <1>1, <2>3, <2>4 DEF Sound
<1> QED
  BY <1>2, <1>3

\* What the doctor stores is what it was answered with.
LEMMA RecordIs ==
    ASSUME CommandInv, NEW p \in Procs,
           at[p] \in {"answered", "holding", "noted", "retained"}
    PROVE  record[p].key \in Keys /\ record[p].new \in Projection
<1>1. record[p] \in [key : Keys, new : AllAnswers]
  BY DEF CommandInv, LocalsOK, Knows
<1> QED
  BY <1>1, AnswersAreProjections DEF AllAnswers

LEMMA HoldingSound ==
    ASSUME CommandInv, NEW p \in Procs,
           DoctorOpens(p) \/ DoctorRemembers(p) \/ DoctorStores(p)
    PROVE  Sound(p)
<1>1. StoreMove(p) /\ pc'[p] = "open"
  <2>1. CASE DoctorOpens(p)
    BY <2>1 DEF DoctorOpens, StoreMove, Open, CommandInv, StoreInv, TypeOK
  <2>2. CASE DoctorRemembers(p)
    BY <2>2, ServiceAssumption DEF DoctorRemembers, StoreMove, RememberDescriptor
  <2>3. CASE DoctorStores(p)
    BY <2>3, RecordIs DEF DoctorStores, GoesTo, StoreMove, StoreProjection
  <2> QED
    BY <2>1, <2>2, <2>3
<1>2. LocalsOK' /\ LocalsAside(p)
  BY DEF DoctorOpens, DoctorRemembers, DoctorStores, CommandInv, LocalsOK, LocalsAside, GoesTo,
         commandVars, doctorVars, StoreStages
<1>3. HoldsRightly(p)' /\ Knows(p)'
  BY <1>1 DEF DoctorOpens, DoctorRemembers, DoctorStores, CommandInv, LocalsOK, GoesTo,
              HoldsRightly, HoldsFile, Knows, ServiceStages, StoreStages, commandVars, doctorVars
<1> QED
  BY <1>1, <1>2, <1>3 DEF Sound

LEMMA SavingSound ==
    ASSUME CommandInv, NEW p \in Procs,
           DoctorStoreFails(p) \/ DoctorSaves(p) \/ DoctorSaveFails(p)
    PROVE  Sound(p)
<1>1. StoreMove(p) /\ pc'[p] = "idle"
  BY DEF DoctorStoreFails, DoctorSaves, DoctorSaveFails, StoreMove, Save, Fails, Tears, End,
         CommandInv, StoreInv, TypeOK
<1>2. /\ worst' \in [Procs -> Statuses]
      /\ \A q \in Procs \ {p} : worst'[q] = worst[q]
  <2>1. {"fail"} \in SUBSET Statuses
    BY DEF Statuses, Gravity
  <2> QED
    BY <2>1, CheckedIs DEF DoctorStoreFails, DoctorSaves, DoctorSaveFails, CommandInv, LocalsOK
<1>3. /\ kept' \in [Procs -> BOOLEAN]
      /\ \A q \in Procs \ {p} : kept'[q] = kept[q]
  <2>1. Keeps(file', record[p]) \in BOOLEAN
    BY DEF Keeps
  <2> QED
    BY <2>1 DEF DoctorStoreFails, DoctorSaves, DoctorSaveFails, CommandInv, LocalsOK
<1>4. at[p] \in StoreStages /\ at' = [at EXCEPT ![p] = "watch"] /\ "watch" \in CheckStages
  BY DEF DoctorStoreFails, DoctorSaves, DoctorSaveFails, GoesTo, StoreStages, CheckStages
<1>5. LocalsOK' /\ LocalsAside(p)
  BY <1>2, <1>3, <1>4 DEF DoctorStoreFails, DoctorSaves, DoctorSaveFails, CommandInv,
       LocalsOK, LocalsAside, commandVars
<1>6. at'[p] = "watch"
  BY <1>4 DEF CommandInv, LocalsOK
<1>7. HoldsRightly(p)' /\ Knows(p)'
  BY <1>1, <1>4, <1>6 DEF HoldsRightly, HoldsFile, Knows, ServiceStages, StoreStages
<1> QED
  BY <1>1, <1>5, <1>7 DEF Sound

LEMMA DoctorSound ==
    ASSUME CommandInv, NEW p \in Procs, DoctorStep(p)
    PROVE  Sound(p)
BY DoctorEndsSound, PlainChecks, ChecksSound, StartsSound, EventsSound, HoldingSound, SavingSound
   DEF DoctorStep, PlainCheck

-----------------------------------------------------------------------------
(* Type correctness *)

LEMMA SoundKeeps ==
    ASSUME CommandInv, NEW p \in Procs, Sound(p)
    PROVE  CommandInv' /\ Aside(p)
<1>1. StoreInv' /\ Aside(p)
  BY MoveStore, MoveAside DEF Sound, CommandInv
<1>2. \A q \in Procs \ {p} : HoldsRightly(q)' /\ Knows(q)'
  BY <1>1 DEF Sound, LocalsAside, Aside, CommandInv, HoldsRightly, HoldsFile, Knows
<1> QED
  BY <1>1, <1>2 DEF Sound, CommandInv

LEMMA StutterKeeps == ASSUME CommandInv, UNCHANGED allVars PROVE CommandInv'
<1>1. StoreInv'
  BY DEF CommandInv, StoreInv, TypeOK, allVars, serviceVars, vars
<1> QED
  BY <1>1 DEF CommandInv, LocalsOK, HoldsRightly, HoldsFile, Knows, allVars, serviceVars, vars,
              commandVars, doctorVars

LEMMA InitCommand == InitDoctor => CommandInv
<1> SUFFICES ASSUME InitDoctor PROVE CommandInv
  OBVIOUS
<1>1. StoreInv
  BY InitStore DEF InitDoctor, InitService
<1>2. "none" \in ServiceStages /\ NoOutput \in Outputs /\ "pass" \in Statuses
  BY DEF ServiceStages, Outputs, Statuses, Gravity
<1>3. LocalsOK
  BY <1>2 DEF InitDoctor, InitService, LocalsOK
<1>4. ASSUME NEW p \in Procs PROVE HoldsRightly(p) /\ Knows(p)
  BY DEF InitDoctor, InitService, Init, HoldsRightly, HoldsFile, Knows, StoreStages
<1> QED
  BY <1>1, <1>3, <1>4 DEF CommandInv

\* A step of p, of either kind.
StepOf(p) == (ServiceStep(p) /\ UNCHANGED doctorVars) \/ DoctorStep(p)

LEMMA StepSound ==
    ASSUME CommandInv, NEW p \in Procs, StepOf(p)
    PROVE  Sound(p) /\ Aside(p) /\ CommandInv'
<1>1. Sound(p)
  BY ServiceSound, DoctorSound DEF StepOf
<1> QED
  BY <1>1, SoundKeeps

LEMMA CommandInvAlways == CommandSpec => []CommandInv
<1>1. CommandInv /\ [NextCommand]_allVars => CommandInv'
  <2> SUFFICES ASSUME CommandInv, [NextCommand]_allVars PROVE CommandInv'
    OBVIOUS
  <2>1. CASE UNCHANGED allVars
    BY <2>1, StutterKeeps
  <2>2. CASE NextCommand
    <3>1. PICK p \in Procs : StepOf(p)
      BY <2>2 DEF NextCommand, StepOf
    <3> QED
      BY <3>1, StepSound
  <2> QED
    BY <2>1, <2>2
<1> QED
  BY <1>1, InitCommand, PTL DEF CommandSpec

\* Whatever commands run beside each other, fail, or are killed, their variables
\* keep to their types, and a copy of the file is held exactly where a command is
\* in the midst of it.
THEOREM CommandsTypeCorrect == CommandSpec => []CommandsTypeOK
<1>1. CommandInv => CommandsTypeOK
  BY DEF CommandInv, StoreInv, LocalsOK, HoldsRightly, CommandsTypeOK, AllAnswers
<1> QED
  BY <1>1, CommandInvAlways, PTL

\* A set request goes where the surface answered in this very command says.
THEOREM SetSound == CommandSpec => []SetFollowsAnsweredSurface
<1>1. CommandInv => SetFollowsAnsweredSurface
  BY DEF CommandInv, Knows, SetFollowsAnsweredSurface
<1> QED
  BY <1>1, CommandInvAlways, PTL

-----------------------------------------------------------------------------
(* What an observer hears *)

\* Until a command observes its node, of what others have not rewritten since its
\* copy and the file say the same; what it is to tell is then what differs.
News(p) ==
    /\ at[p] \in {"opened", "resolved", "surfaced", "watching"} =>
         \A k \in Keys \ (missed[p] \cup On(SurfaceChannel)) :
            mine[p].projections[k] = file.projections[k]
    /\ at[p] = "observed" =>
         LET k == output[p].key IN
         k \in Keys \ (missed[p] \cup On(SurfaceChannel))
         => (output[p].told <=> mine[p].projections[k] # file.projections[k])
    /\ at[p] = "saved" =>
         /\ news[p] = "some" => output[p].told
         /\ news[p] = "no" => ~output[p].told

LEMMA NewsAside ==
    ASSUME CommandInv, NEW p \in Procs, Sound(p), Aside(p), NEW q \in Procs \ {p}, News(q)
    PROVE  News(q)'
<1>1. /\ at'[q] = at[q] /\ output'[q] = output[q] /\ news'[q] = news[q]
      /\ mine'[q] = mine[q]
  BY DEF Sound, LocalsAside, Aside
<1>2. at[q] \in {"opened", "resolved", "surfaced", "watching", "observed"} => pc[q] = "open"
  BY DEF CommandInv, HoldsRightly, HoldsFile, ServiceStages
<1>3. pc[q] = "open" => \A k \in Keys \ missed'[q] :
         k \notin missed[q] /\ file'.projections[k] = file.projections[k]
  BY DEF Aside
<1> QED
  BY <1>1, <1>2, <1>3 DEF News

LEMMA NewsOpening ==
    ASSUME CommandInv, NEW p \in Procs, ServiceOpens(p)
    PROVE  News(p)'
BY DEF ServiceOpens, Open, GoesTo, CommandInv, StoreInv, LocalsOK, News

LEMMA NewsResolves ==
    ASSUME CommandInv, NEW p \in Procs, News(p), Resolves(p)
    PROVE  News(p)'
<1>1. at[p] = "opened" /\ at'[p] = "resolved" /\ file' = file /\ missed' = missed
  BY DEF Resolves, GoesTo, RememberDescriptor, CommandInv, LocalsOK
<1>2. mine'[p].projections = mine[p].projections
  BY DEF Resolves, RememberDescriptor, CommandInv, StoreInv, KeptState
<1> QED
  BY <1>1, <1>2 DEF News

\* What StoreProjection leaves as it was.
LEMMA ProjectionFrame ==
    ASSUME StoreInv, NEW p \in Procs, NEW k \in Keys, NEW new \in Projection,
           StoreProjection(p, k, new)
    PROVE  /\ file' = file /\ missed' = missed
           /\ mine'[p].projections[k] = Stored(p, k, new)
           /\ \A l \in Keys \ {k} : mine'[p].projections[l] = mine[p].projections[l]
<1>1. mine' = [mine EXCEPT ![p] = [mine[p] EXCEPT !.projections =
                  [mine[p].projections EXCEPT ![k] = Stored(p, k, new)]]]
  BY ProjectionStore
<1>2. mine \in [Procs -> KeptState]
  BY DEF StoreInv
<1> QED
  BY <1>1, <1>2 DEF KeptState, StoreProjection

LEMMA NewsSurface ==
    ASSUME CommandInv, NEW p \in Procs, News(p), ObservesSurface(p)
    PROVE  News(p)'
<1>0. PICK k \in On(SurfaceChannel) : \E new \in Answers[k] : StoreProjection(p, k, new)
  BY DEF ObservesSurface
<1>1. k \in Keys /\ \E new \in Projection : StoreProjection(p, k, new)
  BY <1>0, AnswersAreProjections DEF On
<1>2. /\ file' = file /\ missed' = missed
      /\ \A l \in Keys \ On(SurfaceChannel) : mine'[p].projections[l] = mine[p].projections[l]
  BY <1>1, ProjectionFrame DEF CommandInv
<1>3. at[p] = "resolved" /\ at'[p] = "surfaced"
  BY DEF ObservesSurface, GoesTo, CommandInv, LocalsOK
<1> QED
  BY <1>2, <1>3 DEF News

LEMMA NewsWatching ==
    ASSUME CommandInv, NEW p \in Procs, News(p), AnnouncesWatch(p)
    PROVE  News(p)'
BY DEF AnnouncesWatch, GoesTo, CommandInv, LocalsOK, vars, News

LEMMA NewsObserves ==
    ASSUME CommandInv, NEW p \in Procs, News(p), ObservesNode(p)
    PROVE  News(p)'
<1>0. PICK k \in Keys : \E new \in Answers[k] :
        /\ StoreProjection(p, k, new)
        /\ output' = [output EXCEPT ![p] =
              [shows |-> TRUE, key |-> k, projection |-> Stored(p, k, new),
               told |-> Changes(p, k, new)]]
  BY DEF ObservesNode
<1>1. PICK new \in Answers[k] :
        /\ StoreProjection(p, k, new)
        /\ output' = [output EXCEPT ![p] =
              [shows |-> TRUE, key |-> k, projection |-> Stored(p, k, new),
               told |-> Changes(p, k, new)]]
  BY <1>0
<1>2. new \in Projection /\ new \in Kept
  BY AnswersAreProjections, ObservedKept
<1>3. /\ file' = file /\ missed' = missed
      /\ mine'[p].projections[k] = Stored(p, k, new)
  BY <1>1, <1>2, ProjectionFrame DEF CommandInv
<1>4. Changes(p, k, new) <=> Stored(p, k, new) # mine[p].projections[k]
  BY <1>2, StoredIs DEF CommandInv, StoreInv, KeptState
<1>5. output'[p].key = k /\ output'[p].told = Changes(p, k, new)
  BY <1>1 DEF CommandInv, LocalsOK
<1>6. at[p] \in {"surfaced", "watching"} /\ at'[p] = "observed"
  BY DEF ObservesNode, Observing, CommandInv, LocalsOK
<1>7. k \notin missed[p] \cup On(SurfaceChannel) => mine[p].projections[k] = file.projections[k]
  BY <1>6 DEF News
<1> QED
  BY <1>3, <1>4, <1>5, <1>6, <1>7 DEF News

LEMMA NewsSaves ==
    ASSUME CommandInv, NEW p \in Procs, News(p), SavesRead(p)
    PROVE  News(p)'
<1>1. CASE command[p].what # "watch"
  BY <1>1 DEF SavesRead, Ends, CommandInv, LocalsOK, News
<1>2. CASE command[p].what = "watch"
  <2>1. /\ at[p] = "observed" /\ at'[p] = "saved" /\ file' = mine[p]
        /\ output' = output
    BY <1>2 DEF SavesRead, Save, End, CommandInv, LocalsOK, commandVars
  <2>2. output[p].key \in Keys
    BY <2>1 DEF CommandInv, LocalsOK, Knows, Outputs
  <2>3. news'[p] = IF output[p].key \in missed[p] \cup On(SurfaceChannel) THEN "none"
                   ELSE IF file'.projections[output[p].key] # file.projections[output[p].key]
                   THEN "some" ELSE "no"
    BY <1>2, <2>2 DEF SavesRead, CommandInv, LocalsOK, On
  <2> QED
    BY <2>1, <2>2, <2>3 DEF News
<1> QED
  BY <1>1, <1>2

\* All other steps lead to where nothing is said of the observer.
LEMMA NewsElsewhere ==
    ASSUME CommandInv, NEW p \in Procs,
           \/ CatalogOpens(p) \/ CatalogRemembers(p) \/ CatalogSaves(p) \/ ShowsDetail(p)
           \/ Publishes(p) \/ SavesAfterPublish(p) \/ TellsObserver(p)
           \/ CommandFails(p) \/ CommandTears(p)
    PROVE  News(p)'
<1>1. at'[p] \in {"none", "catalog", "remembered", "published"}
  BY DEF CatalogOpens, CatalogRemembers, CatalogSaves, ShowsDetail, Publishes,
         SavesAfterPublish, TellsObserver, CommandFails, CommandTears, GoesTo, Ends,
         CommandInv, LocalsOK
<1> QED
  BY <1>1 DEF News

\* Where a step of the doctor leads.
LEMMA DoctorGoes ==
    ASSUME CommandInv, NEW p \in Procs, DoctorStep(p)
    PROVE  at'[p] \in CheckStages \cup StoreStages \cup {"none"}
<1>1. ASSUME PlainCheck(p) PROVE at'[p] \in CheckStages
  BY <1>1 DEF PlainCheck, Checks, GoesTo, CommandInv, LocalsOK
<1>2. CASE DoctorStarts(p) \/ EventsResolved(p) \/ EventsAnswered(p) \/ DoctorOpens(p)
            \/ DoctorRemembers(p) \/ DoctorStores(p) \/ DoctorStoreFails(p)
            \/ DoctorSaves(p) \/ DoctorSaveFails(p)
  BY <1>2 DEF DoctorStarts, EventsResolved, EventsAnswered, DoctorOpens, DoctorRemembers,
       DoctorStores, DoctorStoreFails, DoctorSaves, DoctorSaveFails, GoesTo, CommandInv,
       LocalsOK, CheckStages, StoreStages
<1>3. CASE Reports(p) \/ DoctorKilled(p)
  BY <1>3 DEF Reports, DoctorKilled, DoctorEnds, Ends, CommandInv, LocalsOK
<1> QED
  BY <1>1, <1>2, <1>3, PlainChecks DEF DoctorStep

LEMMA NewsAlways == CommandSpec => [](\A p \in Procs : News(p))
<1>1. InitDoctor => \A p \in Procs : News(p)
  BY DEF InitDoctor, InitService, News
<1>2. CommandInv /\ (\A p \in Procs : News(p)) /\ [NextCommand]_allVars
      => (\A p \in Procs : News(p))'
  <2> SUFFICES ASSUME CommandInv, \A q \in Procs : News(q), [NextCommand]_allVars
               PROVE  (\A q \in Procs : News(q))'
    OBVIOUS
  <2>1. CASE UNCHANGED allVars
    BY <2>1 DEF News, allVars, serviceVars, vars, commandVars
  <2>2. CASE NextCommand
    <3>1. PICK p \in Procs : StepOf(p)
      BY <2>2 DEF NextCommand, StepOf
    <3>2. Sound(p) /\ Aside(p)
      BY <3>1, StepSound
    <3>3. ASSUME ServiceStep(p) PROVE News(p)'
      BY <3>3, NewsOpening, NewsResolves, NewsSurface, NewsWatching, NewsObserves, NewsSaves,
         NewsElsewhere DEF ServiceStep
    <3>4. ASSUME DoctorStep(p) PROVE News(p)'
      BY <3>4, DoctorGoes DEF News, CheckStages, StoreStages
    <3>5. News(p)'
      BY <3>1, <3>3, <3>4 DEF StepOf
    <3>6. \A q \in Procs \ {p} : News(q)'
      BY <3>2, NewsAside
    <3> QED
      BY <3>5, <3>6
  <2> QED
    BY <2>1, <2>2
<1> QED
  BY <1>1, <1>2, CommandInvAlways, PTL DEF CommandSpec

\* A watch tells its observer of what its save changed, and of nothing else.
THEOREM ObserverSound == CommandSpec => []ObserverHearsTheNews
<1>1. (\A p \in Procs : News(p)) => ObserverHearsTheNews
  BY DEF News, ObserverHearsTheNews
<1> QED
  BY <1>1, NewsAlways, PTL

-----------------------------------------------------------------------------
(* What the doctor's report says of the store *)

\* Before it saves, the doctor's copy has the events it was answered with; from
\* then on either its save left them in the file or a step of its has failed.
Retains(p) ==
    /\ at[p] = "retained" => Keeps(mine[p], record[p])
    /\ at[p] \in {"watch", "diagnose", "report"} => worst[p] = "fail" \/ kept[p]

\* A merge has all the events of what it merges.
LEMMA MergeHas ==
    ASSUME NEW old \in Kept \cup {None}, NEW new \in Kept
    PROVE  Merge(old, new) # None /\ IdsOf(new.events) \subseteq IdsOf(Merge(old, new).events)
<1>1. CASE old = None \/ new.replaces \/ ~new.lists
  BY <1>1, OtherMerge, KeptShape
<1>2. CASE ~(old = None \/ new.replaces \/ ~new.lists)
  <2>1. /\ Merge(old, new) \in Kept
        /\ IdsOf(Merge(old, new).events) = IdsOf(new.events) \cup IdsOf(old.events)
    BY <1>2, PartialMerge
  <2> QED
    BY <2>1, KeptShape
<1> QED
  BY <1>1, <1>2

LEMMA RetainsAside ==
    ASSUME CommandInv, NEW p \in Procs, Sound(p), Aside(p), NEW q \in Procs \ {p}, Retains(q)
    PROVE  Retains(q)'
<1>1. /\ at'[q] = at[q] /\ worst'[q] = worst[q] /\ kept'[q] = kept[q]
      /\ record'[q] = record[q] /\ mine'[q] = mine[q]
  BY DEF Sound, LocalsAside, Aside
<1>2. Keeps(mine'[q], record'[q]) <=> Keeps(mine[q], record[q])
  BY <1>1
<1> QED
  BY <1>1, <1>2 DEF Retains

LEMMA RetainsChecked ==
    ASSUME CommandInv, NEW p \in Procs, Retains(p), PlainCheck(p)
    PROVE  Retains(p)'
<1>1. PICK from \in CheckStages, to \in CheckStages \ {"answered"},
           statuses \in SUBSET Statuses :
        /\ Checks(p, from, to, statuses)
        /\ to \in {"watch", "diagnose", "report"} =>
              statuses = {"fail"} \/ from \in {"watch", "diagnose"}
  BY DEF PlainCheck
<1>2. at[p] = from /\ at'[p] = to /\ kept' = kept
  BY <1>1 DEF Checks, GoesTo, CommandInv, LocalsOK
<1>3. /\ worst[p] = "fail" => worst'[p] = "fail"
      /\ statuses = {"fail"} => worst'[p] = "fail"
  BY <1>1, CheckedIs DEF Checks, CommandInv
<1>4. to # "retained"
  BY DEF CheckStages
<1> QED
  BY <1>1, <1>2, <1>3, <1>4 DEF Retains

LEMMA RetainsStores ==
    ASSUME CommandInv, NEW p \in Procs, DoctorStores(p)
    PROVE  Retains(p)'
<1> DEFINE k == record[p].key
           new == record[p].new
<1>1. at[p] = "noted" /\ at'[p] = "retained" /\ record' = record
  BY DEF DoctorStores, GoesTo, doctorVars, CommandInv, LocalsOK
<1>2. k \in Keys /\ new \in Projection /\ new \in Kept
  BY <1>1, RecordIs, ObservedKept
<1>3. mine[p].projections[k] \in Kept \cup {None}
  BY <1>2 DEF CommandInv, StoreInv, KeptState
<1>4. mine'[p].projections[k] = Merge(mine[p].projections[k], new)
  BY <1>2, <1>3, ProjectionFrame, StoredIs DEF DoctorStores, CommandInv
<1>5. Keeps(mine'[p], record[p])
  BY <1>2, <1>3, <1>4, MergeHas DEF Keeps
<1> QED
  BY <1>1, <1>5 DEF Retains

LEMMA RetainsSaves ==
    ASSUME CommandInv, NEW p \in Procs, Retains(p),
           DoctorStoreFails(p) \/ DoctorSaves(p) \/ DoctorSaveFails(p)
    PROVE  Retains(p)'
<1>1. at'[p] = "watch"
  BY DEF DoctorStoreFails, DoctorSaves, DoctorSaveFails, GoesTo, CommandInv, LocalsOK
<1>2. CASE DoctorStoreFails(p) \/ DoctorSaveFails(p)
  <2>1. {"fail"} \in SUBSET Statuses
    BY DEF Statuses, Gravity
  <2>2. worst'[p] = "fail"
    BY <1>2, <2>1, CheckedIs DEF DoctorStoreFails, DoctorSaveFails, CommandInv
  <2> QED
    BY <1>1, <2>2 DEF Retains
<1>3. CASE DoctorSaves(p)
  <2>1. at[p] = "retained" /\ file' = mine[p]
    BY <1>3 DEF DoctorSaves, GoesTo, Save, End
  <2>2. kept'[p] = Keeps(file', record[p])
    BY <1>3 DEF DoctorSaves, CommandInv, LocalsOK
  <2> QED
    BY <1>1, <2>1, <2>2 DEF Retains
<1> QED
  BY <1>2, <1>3

LEMMA RetainsElsewhere ==
    ASSUME CommandInv, NEW p \in Procs,
           \/ ServiceStep(p)
           \/ DoctorStarts(p) \/ EventsResolved(p) \/ EventsAnswered(p) \/ DoctorOpens(p)
           \/ DoctorRemembers(p) \/ Reports(p) \/ DoctorKilled(p)
    PROVE  Retains(p)'
<1>1. CASE ServiceStep(p)
  <2>1. at'[p] \in ServiceStages
    BY <1>1 DEF ServiceStep, CatalogOpens, CatalogRemembers, CatalogSaves, ServiceOpens,
       Resolves, ObservesSurface, ShowsDetail, Publishes, SavesAfterPublish, AnnouncesWatch,
       ObservesNode, SavesRead, TellsObserver, CommandFails, CommandTears, GoesTo, Ends,
       ServiceStages, CommandInv, LocalsOK
  <2> QED
    BY <2>1 DEF Retains, ServiceStages
<1>2. CASE ~ServiceStep(p)
  <2>1. at'[p] \in {"profile", "logging", "answered", "holding", "noted", "none"}
    BY <1>2 DEF DoctorStarts, EventsResolved, EventsAnswered, DoctorOpens, DoctorRemembers,
       Reports, DoctorKilled, DoctorEnds, GoesTo, Ends, CommandInv, LocalsOK
  <2> QED
    BY <2>1 DEF Retains
<1> QED
  BY <1>1, <1>2

LEMMA RetainsAlways == CommandSpec => [](\A p \in Procs : Retains(p))
<1>1. InitDoctor => \A p \in Procs : Retains(p)
  BY DEF InitDoctor, InitService, Retains
<1>2. CommandInv /\ (\A p \in Procs : Retains(p)) /\ [NextCommand]_allVars
      => (\A p \in Procs : Retains(p))'
  <2> SUFFICES ASSUME CommandInv, \A q \in Procs : Retains(q), [NextCommand]_allVars
               PROVE  (\A q \in Procs : Retains(q))'
    OBVIOUS
  <2>1. CASE UNCHANGED allVars
    BY <2>1 DEF Retains, Keeps, allVars, serviceVars, vars, doctorVars
  <2>2. CASE NextCommand
    <3>1. PICK p \in Procs : StepOf(p)
      BY <2>2 DEF NextCommand, StepOf
    <3>2. Sound(p) /\ Aside(p)
      BY <3>1, StepSound
    <3>3. Retains(p)'
      BY <3>1, PlainChecks, RetainsChecked, RetainsStores, RetainsSaves, RetainsElsewhere
         DEF StepOf, DoctorStep
    <3>4. \A q \in Procs \ {p} : Retains(q)'
      BY <3>2, RetainsAside
    <3> QED
      BY <3>3, <3>4
  <2> QED
    BY <2>1, <2>2
<1> QED
  BY <1>1, <1>2, CommandInvAlways, PTL DEF CommandSpec

\* A doctor that reports no failure has left the events it was answered with in
\* the state file, whatever ran beside it.
THEOREM DoctorReportSound == CommandSpec => []DoctorPassMeansRetained
<1>1. (\A p \in Procs : Retains(p)) => DoctorPassMeansRetained
  BY DEF Retains, DoctorPassMeansRetained
<1> QED
  BY <1>1, RetainsAlways, PTL

-----------------------------------------------------------------------------
(* What the directory answers as time passes *)

LEMMA NarrowsAlways ==
    ASSUME NEW d \in Directories, NEW t1 \in Times, NEW t2 \in Times
    PROVE  Dir!Narrows(d, StoragePin, t1, t2)
<1> DEFINE Ads(t) == Dir!ActiveAds(d, StoragePin, t)
           Entries(t) == Dir!EntriesFor(d, StoragePin, t)
<1> SUFFICES ASSUME t1 <= t2, Ads(t2) # {}
             PROVE  /\ Entries(t2) \subseteq Entries(t1)
                    /\ Dir!ChannelsFor(d, Entries(t2)) \subseteq Dir!ChannelsFor(d, Entries(t1))
  BY DEF Dir!Narrows
<1>1. t1 \in Nat /\ t2 \in Nat /\ \A ad \in d.advertisements : ad.expires \in Nat
  BY DoctorAssumption
<1>2. Ads(t2) \subseteq Ads(t1)
  BY <1>1 DEF Dir!ActiveAds, Dir!Active
<1>3. Entries(t2) \subseteq Entries(t1)
  BY <1>2 DEF Dir!EntriesFor
<1>4. Dir!ChannelsFor(d, Entries(t2)) \subseteq Dir!ChannelsFor(d, Entries(t1))
  <2> HIDE DEF Entries
  <2> QED
    BY <1>3 DEF Dir!ChannelsFor
<1> QED
  BY <1>3, <1>4

\* For any directories and times: while one advertisement is active, what others
\* covered does not come back when they expire.
THEOREM DirectorySound == CommandSpec => []DirectoryNarrows
<1>1. DirectoryNarrows
  BY NarrowsAlways DEF DirectoryNarrows, AllNarrow
<1> QED
  BY <1>1, PTL

\* For any documents, deltas, names and leaves: a delta that applies has done each of
\* its operations, in turn, to what the one before it left.
THEOREM DeltaSound == CommandSpec => []DeltaDoneInTurn
<1>1. AllDone
  BY DoctorAssumption, DeltaDoes DEF AllDone
<1>2. DeltaDoneInTurn
  BY <1>1 DEF DeltaDoneInTurn
<1> QED
  BY <1>2, PTL

-----------------------------------------------------------------------------
(* The store under the commands *)

\* The commands' steps keep what RuntimeStoreProofs shows of a save.
LEMMA MoveCovers ==
    ASSUME StoreInv, CopyCovers, NEW p \in Procs, StoreMove(p) PROVE CopyCovers'
<1>1. CASE UNCHANGED vars
  BY <1>1 DEF vars, CopyCovers, HasEvents
<1>2. ASSUME mine'[p].projections = mine[p].projections,
             \A q \in Procs \ {p} : mine'[q] = mine[q],
             UNCHANGED <<file, torn, pc, replaced, missed>>
      PROVE  CopyCovers'
  BY <1>2 DEF CopyCovers, HasEvents
<1>3. ASSUME NEW s \in Services, NEW g \in Gateways, RememberDescriptor(p, s, g)
      PROVE  CopyCovers'
  BY <1>2, <1>3 DEF RememberDescriptor, StoreInv, KeptState
<1>4. ASSUME NEW f, NEW r, Remembers(p, f, r) PROVE CopyCovers'
  BY <1>2, <1>4 DEF Remembers, StoreInv, KeptState
<1> QED
  BY <1>1, <1>3, <1>4, OpenCovers, EndsCover, ProjectionCovers DEF StoreMove

LEMMA CommandsCover == CommandSpec => []CopyCovers
<1>1. InitDoctor => CopyCovers
  BY DEF InitDoctor, InitService, Init, CopyCovers
<1>2. CommandInv /\ CopyCovers /\ [NextCommand]_allVars => CopyCovers'
  <2> SUFFICES ASSUME CommandInv, CopyCovers, [NextCommand]_allVars PROVE CopyCovers'
    OBVIOUS
  <2>1. CASE UNCHANGED allVars
    BY <2>1 DEF CopyCovers, HasEvents, allVars, serviceVars, vars
  <2>2. CASE NextCommand
    <3>1. PICK p \in Procs : StepOf(p)
      BY <2>2 DEF NextCommand, StepOf
    <3>2. StoreMove(p)
      BY <3>1, StepSound DEF Sound
    <3> QED
      BY <3>2, MoveCovers DEF CommandInv
  <2> QED
    BY <2>1, <2>2
<1> QED
  BY <1>1, <1>2, CommandInvAlways, PTL DEF CommandSpec

\* However service commands and doctors overlap, fail or are killed, a save
\* undoes only what others have saved since the command opened the file.
THEOREM CommandSaveSound == CommandSpec => SaveUndoesOnlyWhatItMissed
<1>1. CommandInv /\ CopyCovers /\ [NextCommand]_allVars =>
        [\A p \in Procs, k \in Keys :
            /\ pc[p] = "open" /\ pc'[p] = "idle" /\ ~torn'
            /\ k \notin replaced[p] \cup missed[p]
            /\ file.projections[k] # None
            => /\ file'.projections[k] # None
               /\ IdsOf(file.projections[k].events)
                    \subseteq IdsOf(file'.projections[k].events)]_vars
  <2> SUFFICES ASSUME CommandInv, CopyCovers, [NextCommand]_allVars,
                      NEW p \in Procs, NEW k \in Keys,
                      pc[p] = "open", pc'[p] = "idle", ~torn',
                      k \notin replaced[p] \cup missed[p],
                      file.projections[k] # None
               PROVE  /\ file'.projections[k] # None
                      /\ IdsOf(file.projections[k].events)
                            \subseteq IdsOf(file'.projections[k].events)
    OBVIOUS
  <2>1. HasEvents(mine[p], file, k)
    BY DEF CopyCovers
  <2>2. NextCommand
    BY DEF allVars, serviceVars, vars
  <2>3. PICK q \in Procs : StepOf(q)
    BY <2>2 DEF NextCommand, StepOf
  <2>4. StoreMove(q) /\ Aside(q)
    BY <2>3, StepSound DEF Sound
  <2>5. q = p
    BY <2>4 DEF Aside
  <2>6. Save(p) \/ Fails(p)
    BY <2>4, <2>5 DEF StoreMove, vars, Open, Tears, End, RememberDescriptor, Remembers,
                      StoreProjection, CommandInv, StoreInv, TypeOK
  <2>7. file' = mine[p] \/ file' = file
    BY <2>6 DEF Save, Fails, End
  <2> QED
    BY <2>1, <2>7 DEF HasEvents
<1> QED
  BY <1>1, CommandInvAlways, CommandsCover, PTL DEF CommandSpec, SaveUndoesOnlyWhatItMissed

\* Whatever service commands and doctors store, an event is in a list once.
THEOREM CommandEventsOnce == CommandSpec => []OneEntryPerEvent
<1>1. CommandInv => StoreInv
  BY DEF CommandInv
<1> QED
  BY <1>1, KeptOnce, CommandInvAlways, PTL

\* Whatever they store, an observer is told how many events are new to it.
THEOREM CommandCounts == CommandSpec => []UpdateCountsNewEvents
<1>1. CommandInv => StoreInv
  BY DEF CommandInv
<1> QED
  BY <1>1, KeptCount, CommandInvAlways, PTL

\* Whatever they store, what passes for a refresh brings nothing new, and what
\* brings nothing new to a sorted list passes for a refresh.
THEOREM CommandRefresh == CommandSpec => []RefreshIsSilentAndOnlyRefresh
<1>1. CommandInv => StoreInv
  BY DEF CommandInv
<1> QED
  BY <1>1, KeptRefresh, CommandInvAlways, PTL

\* Nothing a service command or a doctor does drops an event from a retained list
\* but a projection that replaces it.
THEOREM CommandPartial == CommandSpec => PartialKeepsEvents
<1>1. ASSUME StoreInv, NEW q \in Procs, StoreMove(q),
             NEW p \in Procs, NEW k \in Keys, Stores(p, k)
      PROVE  \E l \in Keys, new \in Projection : StoreProjection(q, l, new)
  <2>1. mine \in [Procs -> KeptState] /\ mine[p] \in KeptState /\ mine[q] \in KeptState
    BY <1>1 DEF StoreInv
  <2>2. mine'[p].projections # mine[p].projections /\ pc[p] = "open" /\ pc'[p] = "open"
    BY <1>1 DEF Stores
  <2>3. ~(UNCHANGED vars)
    BY <2>2 DEF vars
  <2>4. ~Open(q)
    BY <1>1, <2>1, <2>2 DEF Open, StoreInv, TypeOK
  <2>5. ~(Save(q) \/ Fails(q) \/ Tears(q))
    BY <1>1, <2>1, <2>2 DEF Save, Fails, Tears, End, StoreInv, TypeOK
  <2>6. ASSUME NEW s \in Services, NEW g \in Gateways, RememberDescriptor(q, s, g)
        PROVE  FALSE
    BY <2>1, <2>2, <2>6 DEF RememberDescriptor, KeptState
  <2>7. ASSUME NEW f, NEW r, Remembers(q, f, r) PROVE FALSE
    BY <2>1, <2>2, <2>7 DEF Remembers, KeptState
  <2> QED
    BY <1>1, <2>3, <2>4, <2>5, <2>6, <2>7 DEF StoreMove
<1>2. CommandInv /\ [NextCommand]_allVars =>
        [\A p \in Procs, k \in Keys :
            LET old == mine[p].projections[k]
                new == mine'[p].projections[k]
            IN  Stores(p, k) /\ old # None /\ new.lists /\ ~new.replaces
                => KeepsEvents(old.events, new.events)]_vars
  <2> SUFFICES ASSUME CommandInv, [NextCommand]_allVars,
                      NEW p \in Procs, NEW k \in Keys, Stores(p, k),
                      mine[p].projections[k] # None,
                      mine'[p].projections[k].lists, ~mine'[p].projections[k].replaces
               PROVE  KeepsEvents(mine[p].projections[k].events,
                                  mine'[p].projections[k].events)
    OBVIOUS
  <2>1. NextCommand
    BY DEF Stores, allVars, serviceVars, vars
  <2>2. PICK q \in Procs : StepOf(q)
    BY <2>1 DEF NextCommand, StepOf
  <2>3. StoreMove(q) /\ StoreInv
    BY <2>2, StepSound DEF Sound, CommandInv
  <2>4. PICK l \in Keys, new \in Projection : StoreProjection(q, l, new)
    BY <1>1, <2>3
  <2> QED
    BY <2>3, <2>4, PartialStored
<1> QED
  BY <1>2, CommandInvAlways, PTL DEF CommandSpec, PartialKeepsEvents

\* A projection that a command or a doctor has stored, and is sent again, passes
\* for a refresh.
THEOREM CommandRedelivery == CommandSpec => [][RedeliveryIsSilent]_vars
<1>1. CommandInv => [RedeliveryIsSilent]_vars
  BY StoredTwice DEF CommandInv, RedeliveryIsSilent
<1> QED
  BY <1>1, CommandInvAlways, PTL DEF CommandSpec

\* The store of the commands is the store as RuntimeStore has it: the commands
\* begin where it does, and whatever they do is, to the store, one of its
\* operations, the two that remember what no command reads back, or nothing.
THEOREM CommandsUseStore == CommandSpec => Init /\ [][\E p \in Procs : StoreMove(p)]_vars
<1>1. InitDoctor => Init
  BY DEF InitDoctor, InitService
<1>2. CommandInv /\ [NextCommand]_allVars => [\E p \in Procs : StoreMove(p)]_vars
  <2> SUFFICES ASSUME CommandInv, [NextCommand]_allVars, ~(UNCHANGED vars)
               PROVE  \E p \in Procs : StoreMove(p)
    OBVIOUS
  <2>1. NextCommand
    BY DEF allVars, serviceVars
  <2>2. PICK p \in Procs : StepOf(p)
    BY <2>1 DEF NextCommand, StepOf
  <2> QED
    BY <2>2, StepSound DEF Sound
<1> QED
  BY <1>1, <1>2, CommandInvAlways, PTL DEF CommandSpec
-----------------------------------------------------------------------------
(* The commands implement the store *)

BareMine == [p \in Procs |-> Bare(mine[p])]

\* The store's operators mean the same of a state without what is remembered.
LEMMA SameOperators ==
    /\ Store!None = None
    /\ Store!Empty = Empty
    /\ Store!Projection = Projection
    /\ \A old, new : Store!Merge(old, new) = Merge(old, new)
<1>1. Store!None = None
  BY DEF Store!None, None
<1>2. Store!Empty = Empty
  BY <1>1 DEF Store!Empty, Empty, Store!Unknown, Unknown
<1>3. \A S : Store!Cardinality(S) = Cardinality(S)
  BY DEF Store!Cardinality, Cardinality
<1>4. Store!Projection = Projection
  <2>1. Store!Lists = Lists
    BY <1>3 DEF Store!Lists, Lists, Store!Event, Event
  <2> QED
    BY <2>1 DEF Store!Projection, Projection, Store!Projections, Projections
<1>5. \A S : Store!Sorted(S) = Sorted(S)
  <2>1. \A s : Store!NewestFirst(s) <=> NewestFirst(s)
    BY DEF Store!NewestFirst, NewestFirst, Store!Before, Before,
           Store!EventTime, EventTime
  <2> QED
    BY <1>3, <2>1 DEF Store!Sorted, Sorted
<1>6. \A old, new : Store!Joined(old, new) = Joined(old, new)
  BY DEF Store!Joined, Joined, Store!Updated, Updated, Store!Over, Over,
         Store!IdsOf, IdsOf, Store!ToSet, ToSet
<1>7. ASSUME NEW old, NEW new PROVE Store!Merge(old, new) = Merge(old, new)
  BY <1>1, <1>5, <1>6 DEF Store!Merge, Merge
<1> QED
  BY <1>1, <1>2, <1>4, <1>7

LEMMA BareIs ==
    /\ \A s, t : s.projections = t.projections => Bare(s) = Bare(t)
    /\ \A s : Bare(s).projections = s.projections
    /\ \A s, v : [Bare(s) EXCEPT !.projections = v] = [Empty EXCEPT !.projections = v]
    /\ Bare(Empty) = Empty
<1> DEFINE none == [s \in Services |-> Unknown]
           empty == [k \in Keys |-> None]
           with(v) == [projections |-> v, descriptors |-> none, relays |-> {}]
<1>1. Empty = with(empty)
  BY DEF Empty
<1> HIDE DEF none, empty
<1>2. \A u, v : [with(u) EXCEPT !.projections = v] = with(v)
  OBVIOUS
<1>3. \A v : with(v).projections = v
  OBVIOUS
<1> HIDE DEF with
<1>4. \A s : Bare(s) = with(s.projections)
  BY <1>1, <1>2 DEF Bare
<1> QED
  BY <1>1, <1>2, <1>3, <1>4

\* An end of p in the commands is one in the store, with what the file is left
\* to say.
LEMMA EndImplements ==
    ASSUME StoreInv, NEW p \in Procs, NEW left \in KeptState, NEW cut, End(p, left, cut)
    PROVE  Store!End(p, Bare(left), cut)
<1>1. file \in KeptState /\ mine \in [Procs -> KeptState]
  BY DEF StoreInv
<1>2. BareMine' = [BareMine EXCEPT ![p] = Store!Empty]
  BY <1>1, BareIs, SameOperators DEF BareMine, End
<1>3. {k \in Keys : Bare(left).projections[k] # Bare(file).projections[k]}
        = {k \in Keys : left.projections[k] # file.projections[k]}
  BY <1>1, BareIs
<1> QED
  BY <1>2, <1>3 DEF End, Store!End, BareMine

LEMMA StoreImplements ==
    ASSUME StoreInv, NEW p \in Procs, NEW k \in Keys, NEW new \in Projection,
           StoreProjection(p, k, new)
    PROVE  Store!StoreProjection(p, k, new)
<1>1. mine[p] \in KeptState /\ mine \in [Procs -> KeptState]
  BY DEF StoreInv
<1> DEFINE v == [mine[p].projections EXCEPT ![k] = Stored(p, k, new)]
<1>2. mine' = [mine EXCEPT ![p] = [mine[p] EXCEPT !.projections = v]]
  BY ProjectionStore
<1>3. mine'[p].projections = v /\ \A q \in Procs \ {p} : mine'[q] = mine[q]
  <2> HIDE DEF v
  <2> QED
    BY <1>1, <1>2 DEF KeptState
<1>4. Bare(mine'[p]) = [Bare(mine[p]) EXCEPT !.projections = v]
  <2> HIDE DEF v
  <2>1. Bare(mine'[p]) = [Empty EXCEPT !.projections = v]
    BY <1>3 DEF Bare
  <2>2. [Bare(mine[p]) EXCEPT !.projections = v] = [Empty EXCEPT !.projections = v]
    BY BareIs
  <2> QED
    BY <2>1, <2>2
<1>5. Bare(mine[p]).projections = mine[p].projections
  BY BareIs
<1>6. Store!Stored(p, k, new) = Stored(p, k, new)
  BY <1>5, SameOperators DEF Store!Stored, Stored, Store!SemanticallyEqual, SemanticallyEqual
<1>7. BareMine' = [BareMine EXCEPT ![p] = [Bare(mine[p]) EXCEPT !.projections = v]]
  <2> HIDE DEF v
  <2> QED
    BY <1>3, <1>4 DEF BareMine
<1>8. BareMine' = [BareMine EXCEPT ![p].projections[k] = Store!Stored(p, k, new)]
  BY <1>5, <1>6, <1>7 DEF BareMine
<1> QED
  BY <1>8 DEF StoreProjection, Store!StoreProjection, BareMine

LEMMA MoveImplements ==
    ASSUME StoreInv, NEW p \in Procs, StoreMove(p)
    PROVE  [Store!Next]_(Store!vars)
<1>1. file \in KeptState /\ mine \in [Procs -> KeptState] /\ mine[p] \in KeptState
  BY DEF StoreInv
<1>2. ASSUME \A q \in Procs : Bare(mine'[q]) = Bare(mine[q]),
             UNCHANGED <<file, torn, pc, replaced, missed>>
      PROVE  UNCHANGED Store!vars
  BY <1>2 DEF Store!vars
<1>3. CASE UNCHANGED vars
  BY <1>2, <1>3 DEF vars
<1>4. CASE Open(p)
  <2>1. BareMine' = [BareMine EXCEPT ![p] = Bare(file)]
    BY <1>1, <1>4 DEF BareMine, Open
  <2>2. Store!Open(p)
    BY <1>4, <2>1 DEF Open, Store!Open, BareMine
  <2> QED
    BY <2>2 DEF Store!Next
<1>5. CASE Save(p)
  <2>1. Store!Save(p)
    BY <1>1, <1>5, EndImplements DEF Save, Store!Save
  <2> QED
    BY <2>1 DEF Store!Next
<1>6. CASE Fails(p)
  <2>1. Store!Fails(p)
    BY <1>1, <1>6, EndImplements DEF Fails, Store!Fails
  <2> QED
    BY <2>1 DEF Store!Next
<1>7. CASE Tears(p)
  <2>1. Store!Tears(p)
    <3>1. Store!End(p, Bare(Empty), TRUE)
      BY <1>7, EndImplements, EmptyIsKept DEF Tears
    <3>2. Bare(Empty) = Store!Empty
      BY BareIs, SameOperators
    <3> QED
      BY <3>1, <3>2 DEF Store!Tears
  <2> QED
    BY <2>1 DEF Store!Next
<1>8. ASSUME NEW s \in Services, NEW g \in Gateways, RememberDescriptor(p, s, g)
      PROVE  UNCHANGED Store!vars
  <2>1. mine' = [mine EXCEPT ![p] = [mine[p] EXCEPT
                    !.descriptors = [mine[p].descriptors EXCEPT ![s] = g]]]
    BY <1>8 DEF RememberDescriptor
  <2>2. Bare(mine'[p]) = Bare(mine[p])
    <3>1. mine'[p].projections = mine[p].projections
      BY <1>1, <2>1 DEF KeptState
    <3> QED
      BY <3>1, BareIs
  <2> QED
    BY <1>1, <1>2, <1>8, <2>1, <2>2 DEF RememberDescriptor
<1>9. ASSUME NEW f, NEW r, Remembers(p, f, r) PROVE UNCHANGED Store!vars
  <2>1. mine' = [mine EXCEPT ![p] = [mine[p] EXCEPT !.descriptors = f, !.relays = r]]
    BY <1>9 DEF Remembers
  <2>2. Bare(mine'[p]) = Bare(mine[p])
    <3>1. mine'[p].projections = mine[p].projections
      BY <1>1, <2>1 DEF KeptState
    <3> QED
      BY <3>1, BareIs
  <2> QED
    BY <1>1, <1>2, <1>9, <2>1, <2>2 DEF Remembers
<1>10. ASSUME NEW k \in Keys, NEW new \in Projection, StoreProjection(p, k, new)
       PROVE  Store!Next
  BY <1>10, StoreImplements, SameOperators DEF Store!Next
<1> QED
  BY <1>3, <1>2, <1>4, <1>5, <1>6, <1>7, <1>8, <1>9, <1>10 DEF StoreMove, vars

\* However service commands and doctors overlap: to the retained projections they
\* are processes that open, store and save as RuntimeStore says, and what is shown
\* of those holds of them.
THEOREM CommandsImplementStore == CommandSpec => ImplementsStore
<1>1. InitDoctor => Store!Init
  <2> SUFFICES ASSUME InitDoctor PROVE Store!Init
    OBVIOUS
  <2>1. Bare(file) = Empty /\ [p \in Procs |-> Bare(mine[p])] = [p \in Procs |-> Empty]
    BY BareIs DEF InitDoctor, InitService, Init
  <2> QED
    BY <2>1, SameOperators DEF InitDoctor, InitService, Init, Store!Init
<1>2. CommandInv /\ [NextCommand]_allVars => [Store!Next]_(Store!vars)
  <2> SUFFICES ASSUME CommandInv, [NextCommand]_allVars PROVE [Store!Next]_(Store!vars)
    OBVIOUS
  <2>1. CASE UNCHANGED allVars
    BY <2>1 DEF allVars, serviceVars, vars, Store!vars
  <2>2. CASE NextCommand
    <3>1. PICK p \in Procs : StepOf(p)
      BY <2>2 DEF NextCommand, StepOf
    <3> QED
      BY <3>1, StepSound, MoveImplements DEF Sound, CommandInv
  <2> QED
    BY <2>1, <2>2
<1> QED
  BY <1>1, <1>2, CommandInvAlways, PTL DEF CommandSpec, ImplementsStore, Store!Spec

-----------------------------------------------------------------------------
(* What any number of answers leaves retained *)

Partial(new) == new.lists /\ ~new.replaces

\* What retained events say, field by field.
FactsHeld(old) == IF old = None THEN {} ELSE FactsOf(ToSet(old.events))

\* The answer leaves this fact as it is: it does not replace the set, and says nothing
\* of this field of this event.
Spares(new, q) == Partial(new) /\ ~Tells(ToSet(new.events), q.of, q.field)

\* held[n] is what is retained after n of the answers, one after the other.
Successive(held, answers) ==
    /\ DOMAIN held = 0..Len(answers)
    /\ held[0] \in Kept \cup {None}
    /\ \A n \in 1..Len(answers) : held[n] = Merge(held[n - 1], answers[n])

\* All the answers from the i-th to the n-th leave this fact as it is.
Spared(answers, i, n, q) == \A j \in i..n : Spares(answers[j], q)

\* The last words after n answers: what one of the answers said of a field of an
\* event, or what was retained before them all, stands until a later answer speaks of
\* that field of that event or replaces the set.
LastWord(held, answers, n) ==
    {q \in Fact :
        \/ \E i \in 1..n : q \in FactsOf(ToSet(answers[i].events)) /\ Spared(answers, i + 1, n, q)
        \/ q \in FactsHeld(held[0]) /\ Spared(answers, 1, n, q)}

\* The facts that one more answer leaves.
After(facts, new) == FactsOf(ToSet(new.events)) \cup {q \in facts : Spares(new, q)}

LEMMA FactsAreFacts ==
    /\ \A S : FactsOf(S) \subseteq Fact
    /\ \A old : FactsHeld(old) \subseteq Fact
<1>1. \A S : FactsOf(S) \subseteq Fact
  BY DEF FactsOf
<1> QED
  BY <1>1 DEF FactsHeld

\* What one more answer leaves of what was retained.
LEMMA MergedFacts ==
    ASSUME NEW old \in Kept \cup {None}, NEW new \in Kept
    PROVE  FactsHeld(Merge(old, new)) = After(FactsHeld(old), new)
<1>1. /\ Merge(old, new) # None
      /\ FactsHeld(Merge(old, new)) = FactsOf(ToSet(Merge(old, new).events))
  <2>1. Merge(old, new) \in Kept
    BY MergeIs
  <2> QED
    BY <2>1, KeptShape DEF FactsHeld
<1>2. CASE old = None
  BY <1>1, <1>2, OtherMerge DEF FactsHeld, After
<1>3. CASE old # None /\ ~Partial(new)
  BY <1>1, <1>3, OtherMerge DEF Partial, After, Spares
<1>4. CASE old # None /\ Partial(new)
  <2>1. ToSet(Merge(old, new).events) = Joined(old.events, new.events)
    BY <1>4, PartialMerge DEF Partial
  <2>2. old.events \in DistinctLists /\ new.events \in DistinctLists
    BY <1>4, KeptShape
  <2>3. FactsOf(Joined(old.events, new.events)) =
            FactsOf(ToSet(new.events)) \cup
            {q \in FactsOf(ToSet(old.events)) : ~Tells(ToSet(new.events), q.of, q.field)}
    BY <2>2, FactsJoined
  <2>4. FactsHeld(old) = FactsOf(ToSet(old.events))
    BY <1>4 DEF FactsHeld
  <2> QED
    BY <1>1, <1>4, <2>1, <2>3, <2>4 DEF After, Spares
<1> QED
  BY <1>2, <1>3, <1>4

\* One more answer moves the last words on in the same way.
LEMMA LastWordStep ==
    ASSUME NEW answers \in Seq(Kept), NEW held, NEW n \in Nat,
           NEW new \in Kept, new = answers[n + 1]
    PROVE  LastWord(held, answers, n + 1) = After(LastWord(held, answers, n), new)
<1>1. FactsOf(ToSet(new.events)) \subseteq Fact
  BY FactsAreFacts
<1>2. \A q : Spared(answers, n + 2, n + 1, q)
  BY DEF Spared
<1>3. ASSUME NEW i \in 1..(n + 1), NEW q
      PROVE  Spared(answers, i, n + 1, q) <=> Spared(answers, i, n, q) /\ Spares(new, q)
  <2>1. i..(n + 1) = (i..n) \cup {n + 1}
    OBVIOUS
  <2> QED
    BY <2>1 DEF Spared
<1>4. ASSUME NEW q \in Fact
      PROVE  q \in LastWord(held, answers, n + 1) <=>
                \/ q \in FactsOf(ToSet(new.events))
                \/ q \in LastWord(held, answers, n) /\ Spares(new, q)
  <2> DEFINE left == Spares(new, q)
             said(i) == q \in FactsOf(ToSet(answers[i].events))
  <2>1. (\E i \in 1..(n + 1) : said(i) /\ Spared(answers, i + 1, n + 1, q)) <=>
           \/ q \in FactsOf(ToSet(new.events))
           \/ left /\ \E i \in 1..n : said(i) /\ Spared(answers, i + 1, n, q)
    <3>1. 1..(n + 1) = (1..n) \cup {n + 1} /\ n + 1 + 1 = n + 2
      OBVIOUS
    <3>2. \A i \in 1..n : i + 1 \in 1..(n + 1)
      OBVIOUS
    <3>3. \A i \in 1..n : Spared(answers, i + 1, n + 1, q) <=>
                Spared(answers, i + 1, n, q) /\ left
      BY <1>3, <3>2
    <3>4. said(n + 1) <=> q \in FactsOf(ToSet(new.events))
      OBVIOUS
    <3> HIDE DEF left, said
    <3> QED
      BY <1>2, <3>1, <3>3, <3>4
  <2>2. Spared(answers, 1, n + 1, q) <=> Spared(answers, 1, n, q) /\ left
    <3>1. 1 \in 1..(n + 1)
      OBVIOUS
    <3> QED
      BY <1>3, <3>1
  <2> QED
    BY <2>1, <2>2 DEF LastWord
<1>5. LastWord(held, answers, n + 1) \subseteq Fact /\ LastWord(held, answers, n) \subseteq Fact
  BY DEF LastWord
<1> QED
  BY <1>1, <1>4, <1>5 DEF After

\* For any number of answers under one key, of whatever form and in whatever order:
\* of every field of every event the last word stands.  Nothing that an answer said is
\* lost but to a later one that speaks of that field of that event or replaces the
\* set, nothing that was replaced comes back, and nothing is retained that no answer
\* said; a field that only an earlier answer had stands beside the later ones' fields.
THEOREM LastWordStands ==
    ASSUME NEW answers \in Seq(Kept), NEW held, Successive(held, answers)
    PROVE  \A n \in 0..Len(answers) :
              /\ held[n] \in Kept \cup {None}
              /\ FactsHeld(held[n]) = LastWord(held, answers, n)
<1> DEFINE K == {n \in Nat : n <= Len(answers) =>
                    /\ held[n] \in Kept \cup {None}
                    /\ FactsHeld(held[n]) = LastWord(held, answers, n)}
<1>1. held[0] \in Kept \cup {None}
  BY DEF Successive
<1>2. 0 \in K
  <2>1. \A q : Spared(answers, 1, 0, q)
    BY DEF Spared
  <2>2. FactsHeld(held[0]) \subseteq Fact
    BY FactsAreFacts
  <2>3. FactsHeld(held[0]) = LastWord(held, answers, 0)
    BY <2>1, <2>2 DEF LastWord
  <2> QED
    BY <1>1, <2>3
<1>3. ASSUME NEW n \in Nat, n \in K PROVE n + 1 \in K
  <2> SUFFICES ASSUME n + 1 <= Len(answers)
               PROVE  /\ held[n + 1] \in Kept \cup {None}
                      /\ FactsHeld(held[n + 1]) = LastWord(held, answers, n + 1)
    OBVIOUS
  <2>1. n + 1 \in 1..Len(answers) /\ n + 1 - 1 = n /\ n <= Len(answers)
    OBVIOUS
  <2>2. PICK new \in Kept : new = answers[n + 1]
    BY <2>1
  <2>3. held[n + 1] = Merge(held[n], new)
    BY <2>1, <2>2 DEF Successive
  <2>4. held[n] \in Kept \cup {None} /\ FactsHeld(held[n]) = LastWord(held, answers, n)
    BY <1>3, <2>1
  <2>5. held[n + 1] \in Kept
    BY <2>3, <2>4, MergeIs
  <2>6. FactsHeld(held[n + 1]) = After(LastWord(held, answers, n), new)
    BY <2>3, <2>4, MergedFacts
  <2>7. LastWord(held, answers, n + 1) = After(LastWord(held, answers, n), new)
    BY <2>2, LastWordStep
  <2> QED
    BY <2>5, <2>6, <2>7
<1>4. Nat \subseteq K
  <2> HIDE DEF K
  <2> QED
    BY <1>2, <1>3, SetInduction
<1> QED
  BY <1>4

Reported(answers) == UNION {FactsOf(ToSet(answers[i].events)) : i \in 1..Len(answers)}

\* The facts of q's field of q's event that the answers report.
Spoken(answers, q) == \E r \in Reported(answers) : r.of = q.of /\ r.field = q.field

\* Parts of one set that say the same of the fields they share.
Agreeing(answers) ==
    \A i, j \in 1..Len(answers) :
        Partial(answers[i]) /\ Consistent(answers[i].events, answers[j].events)

\* Of answers that agree no word is ever the last: all they report stands.
LEMMA AgreedWords ==
    ASSUME NEW answers \in Seq(Kept), Agreeing(answers), NEW held, held[0] \in Kept \cup {None}
    PROVE  LastWord(held, answers, Len(answers)) =
              Reported(answers) \cup {q \in FactsHeld(held[0]) : ~Spoken(answers, q)}
<1> DEFINE n == Len(answers)
           says(j) == FactsOf(ToSet(answers[j].events))
           tells(j, q) == Tells(ToSet(answers[j].events), q.of, q.field)
           tellers(q) == {j \in 1..n : tells(j, q)}
<1>1. n \in Nat /\ \A j \in 1..n : answers[j] \in Kept
  OBVIOUS
<1> HIDE DEF n
<1>2. \A j \in 1..n : Partial(answers[j])
  BY DEF Agreeing, n
<1>3. ASSUME NEW j \in 1..n, NEW q
      PROVE  tells(j, q) <=> \E r \in says(j) : r.of = q.of /\ r.field = q.field
  <2>1. ToSet(answers[j].events) \in SUBSET Event
    BY <1>1, KeptShape, ListIs
  <2> QED
    BY <2>1, TellsFacts
<1>4. \A q : q \in Reported(answers) <=> \E j \in 1..n : q \in says(j)
  BY DEF Reported, n
<1>5. ASSUME NEW q PROVE Spoken(answers, q) <=> \E j \in 1..n : tells(j, q)
  <2> HIDE DEF tells, says
  <2> QED
    BY <1>3, <1>4 DEF Spoken
<1>6. ASSUME NEW i \in 1..n, NEW m \in 1..n, NEW q \in says(i), tells(m, q)
      PROVE  q \in says(m)
  BY <1>6 DEF FactsOf, Tells, Agreeing, Consistent, n
<1>7. ASSUME NEW q \in Reported(answers)
      PROVE  \E i \in 1..n : q \in says(i) /\ Spared(answers, i + 1, n, q)
  <2>1. PICK i \in 1..n : q \in says(i)
    BY <1>4
  <2>2. tellers(q) \in SUBSET (1..n) /\ i \in tellers(q)
    BY <1>3, <2>1
  <2>3. PICK m \in 1..n : m \in tellers(q) /\ \A j \in tellers(q) : m >= j
    <3> HIDE DEF tellers
    <3>1. Max(tellers(q)) \in tellers(q) /\ \A j \in tellers(q) : Max(tellers(q)) >= j
      BY <1>1, <2>2, MaxNat
    <3> QED
      BY <2>2, <3>1
  <2>4. q \in says(m)
    BY <1>6, <2>1, <2>3
  <2>5. Spared(answers, m + 1, n, q)
    <3>1. \A j \in (m + 1)..n : j \in 1..n /\ ~(m >= j)
      BY <1>1
    <3> QED
      BY <1>2, <2>3, <3>1 DEF Spared, Spares
  <2> QED
    BY <2>4, <2>5
<1>8. ASSUME NEW q PROVE Spared(answers, 1, n, q) <=> ~Spoken(answers, q)
  BY <1>2, <1>5 DEF Spared, Spares
<1>9. ASSUME NEW q \in Fact
      PROVE  q \in LastWord(held, answers, n) <=>
                \/ q \in Reported(answers)
                \/ q \in FactsHeld(held[0]) /\ ~Spoken(answers, q)
  BY <1>4, <1>7, <1>8 DEF LastWord
<1>10. LastWord(held, answers, n) \subseteq Fact
  BY DEF LastWord
<1>11. Reported(answers) \cup FactsHeld(held[0]) \subseteq Fact
  BY <1>4, FactsAreFacts
<1> QED
  BY <1>9, <1>10, <1>11 DEF n

\* Once it is merged, what is retained of answers that agree is in order.
LEMMA SuccessiveSorts ==
    ASSUME NEW answers \in Seq(Kept), Agreeing(answers), answers # <<>>,
           NEW held, Successive(held, answers), held[0] = None => Len(answers) > 1
    PROVE  /\ held[Len(answers)] \in Kept
           /\ NewestFirst(held[Len(answers)].events)
<1>1. PICK n \in Nat : n + 1 = Len(answers)
  <2>1. Len(answers) \in Nat /\ Len(answers) # 0
    OBVIOUS
  <2>2. Len(answers) - 1 \in Nat /\ Len(answers) - 1 + 1 = Len(answers)
    BY <2>1
  <2> QED
    BY <2>2
<1>2. PICK new \in Kept : new = answers[n + 1]
  BY <1>1
<1>3. held[n + 1] = Merge(held[n], new)
  <2>1. n + 1 \in 1..Len(answers) /\ n + 1 - 1 = n
    BY <1>1
  <2> QED
    BY <1>2, <2>1 DEF Successive
<1>4. \A m \in 0..Len(answers) : held[m] \in Kept \cup {None}
  BY LastWordStands
<1>5. held[n] \in Kept
  <2>1. CASE n = 0
    <3>1. Len(answers) = 1 /\ 0 \in 0..Len(answers)
      BY <1>1, <2>1
    <3>2. held[0] # None
      BY <3>1
    <3> QED
      BY <1>4, <2>1, <3>1, <3>2
  <2>2. CASE n # 0
    <3>1. n - 1 \in 0..Len(answers) /\ n \in 1..Len(answers)
      BY <1>1, <2>2
    <3>2. held[n] = Merge(held[n - 1], answers[n]) /\ answers[n] \in Kept
      BY <3>1 DEF Successive
    <3> QED
      BY <1>4, <3>1, <3>2, MergeIs
  <2> QED
    BY <2>1, <2>2
<1>6. new.lists /\ ~new.replaces
  <2>1. n + 1 \in 1..Len(answers)
    BY <1>1
  <2> QED
    BY <1>2, <2>1 DEF Agreeing, Partial
<1>7. held[n + 1] \in Kept /\ NewestFirst(held[n + 1].events)
  BY <1>2, <1>3, <1>5, <1>6, MergeIs, MergeSorts
<1> QED
  BY <1>1, <1>7

\* For any two deliveries of answers that agree and together say the same, however the
\* events, and the fields of each, are split into answers, in whichever order the
\* answers come and however often each of them does: the same events are retained, in
\* the same order.
\* (A single first answer is retained in the order it came in, so that with nothing
\* retained before there have to be two.)
THEOREM AnswersConverge ==
    ASSUME NEW answers \in Seq(Kept), NEW held, Successive(held, answers),
           NEW others \in Seq(Kept), NEW seen, Successive(seen, others),
           Agreeing(answers), Agreeing(others), Reported(answers) = Reported(others),
           held[0] = seen[0], answers # <<>>, others # <<>>,
           held[0] = None => Len(answers) > 1 /\ Len(others) > 1
    PROVE  held[Len(answers)].events = seen[Len(others)].events
<1>1. /\ held[Len(answers)] \in Kept /\ NewestFirst(held[Len(answers)].events)
      /\ seen[Len(others)] \in Kept /\ NewestFirst(seen[Len(others)].events)
  BY SuccessiveSorts
<1>2. held[0] \in Kept \cup {None} /\ seen[0] \in Kept \cup {None}
  BY DEF Successive
<1>3. LastWord(held, answers, Len(answers)) = LastWord(seen, others, Len(others))
  <2>1. \A q : Spoken(answers, q) <=> Spoken(others, q)
    BY DEF Spoken
  <2>2. LastWord(held, answers, Len(answers)) =
          Reported(answers) \cup {q \in FactsHeld(held[0]) : ~Spoken(answers, q)}
    BY <1>2, AgreedWords
  <2>3. LastWord(seen, others, Len(others)) =
          Reported(others) \cup {q \in FactsHeld(seen[0]) : ~Spoken(others, q)}
    BY <1>2, AgreedWords
  <2>4. {q \in FactsHeld(held[0]) : ~Spoken(answers, q)} =
          {q \in FactsHeld(seen[0]) : ~Spoken(others, q)}
    BY <2>1
  <2> QED
    BY <2>2, <2>3, <2>4
<1>4. /\ FactsHeld(held[Len(answers)]) = LastWord(held, answers, Len(answers))
      /\ FactsHeld(seen[Len(others)]) = LastWord(seen, others, Len(others))
  BY LastWordStands
<1>5. PICK a \in DistinctLists, b \in DistinctLists :
        a = held[Len(answers)].events /\ b = seen[Len(others)].events
  BY <1>1, KeptShape
<1>6. ToSet(a) = ToSet(b)
  <2>1. /\ FactsOf(ToSet(a)) = FactsHeld(held[Len(answers)])
        /\ FactsOf(ToSet(b)) = FactsHeld(seen[Len(others)])
    BY <1>1, <1>5, KeptShape DEF FactsHeld
  <2>2. FactsOf(ToSet(a)) = FactsOf(ToSet(b))
    BY <1>3, <1>4, <2>1
  <2> QED
    BY <2>2, ListIs, FactsTell
<1>7. Sorted(ToSet(a)) = a /\ Sorted(ToSet(b)) = b
  BY <1>1, <1>5, SortedUnique DEF DistinctLists
<1> QED
  BY <1>5, <1>6, <1>7

-----------------------------------------------------------------------------
(* Commands that run one after the other *)

\* At most one command has the file open.
OneAtATime == \A p, q \in Procs : pc[p] = "open" /\ pc[q] = "open" => p = q

NoneMissed == \A p \in Procs : missed[p] = {}

LEMMA MoveMissesNone ==
    ASSUME StoreInv, OneAtATime, NoneMissed, NEW p \in Procs, StoreMove(p)
    PROVE  NoneMissed'
<1>1. CASE missed' = missed
  BY <1>1 DEF NoneMissed
<1>2. ASSUME NEW left, NEW cut, End(p, left, cut) PROVE NoneMissed'
  BY <1>2 DEF End, OneAtATime, NoneMissed
<1> QED
  BY <1>1, <1>2 DEF StoreMove, vars, Open, Save, Fails, Tears, RememberDescriptor,
                    Remembers, StoreProjection

\* What the theorem below says of a step: a command that ends, and does not leave the
\* file cut short, leaves in it every event the file had but for the projections it
\* saw replaced.
SavesKeepEvents ==
    \A p \in Procs, k \in Keys :
        /\ pc[p] = "open" /\ pc'[p] = "idle" /\ ~torn'
        /\ k \notin replaced[p]
        /\ file.projections[k] # None
        => /\ file'.projections[k] # None
           /\ IdsOf(file.projections[k].events) \subseteq IdsOf(file'.projections[k].events)

\* Of service commands and doctors that run one after the other, whatever each of
\* them stores and however it ends, none undoes what another has saved: the
\* overlapping of commands is all that SaveUndoesOnlyWhatItMissed makes room for.
THEOREM AloneLosesNothing == CommandSpec /\ []OneAtATime => [][SavesKeepEvents]_vars
<1>1. InitDoctor => NoneMissed
  BY DEF InitDoctor, InitService, Init, NoneMissed
<1>2. CommandInv /\ OneAtATime /\ NoneMissed /\ [NextCommand]_allVars => NoneMissed'
  <2> SUFFICES ASSUME CommandInv, OneAtATime, NoneMissed, [NextCommand]_allVars
               PROVE  NoneMissed'
    OBVIOUS
  <2>1. CASE UNCHANGED allVars
    BY <2>1 DEF NoneMissed, allVars, serviceVars, vars
  <2>2. CASE NextCommand
    <3>1. PICK p \in Procs : StepOf(p)
      BY <2>2 DEF NextCommand, StepOf
    <3> QED
      BY <3>1, StepSound, MoveMissesNone DEF Sound, CommandInv
  <2> QED
    BY <2>1, <2>2
<1>3. NoneMissed /\ [\A p \in Procs, k \in Keys :
            /\ pc[p] = "open" /\ pc'[p] = "idle" /\ ~torn'
            /\ k \notin replaced[p] \cup missed[p]
            /\ file.projections[k] # None
            => /\ file'.projections[k] # None
               /\ IdsOf(file.projections[k].events)
                    \subseteq IdsOf(file'.projections[k].events)]_vars
        => [SavesKeepEvents]_vars
  BY DEF NoneMissed, SavesKeepEvents
<1>4. CommandSpec => [][\A p \in Procs, k \in Keys :
            /\ pc[p] = "open" /\ pc'[p] = "idle" /\ ~torn'
            /\ k \notin replaced[p] \cup missed[p]
            /\ file.projections[k] # None
            => /\ file'.projections[k] # None
               /\ IdsOf(file.projections[k].events)
                    \subseteq IdsOf(file'.projections[k].events)]_vars
  BY CommandSaveSound DEF SaveUndoesOnlyWhatItMissed
<1> QED
  BY <1>1, <1>2, <1>3, <1>4, CommandInvAlways, PTL DEF CommandSpec
=============================================================================
