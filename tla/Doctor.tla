------------------------------- MODULE Doctor -------------------------------
(***************************************************************************)
(* The doctor command (run_doctor of src/src/doctor.rs) beside the service *)
(* commands of ServiceCommand.  It goes through its checks in one order,   *)
(* each of which passes, warns or fails; some end it at once, others let   *)
(* it go on with what it has.  It opens the state file only once it holds  *)
(* an events projection, and saves its copy before it goes on.             *)
(*                                                                         *)
(* `worst` is the gravest status so far, which is all the report's own     *)
(* status depends on.  What the checks look at is outside, but for the     *)
(* directory (SwarmDirectory), the store and the surface.                  *)
(***************************************************************************)
EXTENDS ServiceCommand, ProjectionDelta

CONSTANTS
    EventsNode,     \* the node `events`; the service asked for is `logging`
    Directories,    \* directories a gateway can answer with
    StoragePin,     \* the capability the doctor looks up
    Times,          \* of the lookups, and after
    MemberKeys, OpaqueRefs, Unnamed,    \* of SwarmDirectory
    Documents,      \* states a sample delta can be applied to
    Deltas          \* deltas

Dir == INSTANCE SwarmDirectory

ASSUME DoctorAssumption ==
    /\ EventsNode \in Nodes
    /\ Times \subseteq Nat
    /\ \A d \in Directories : \A ad \in d.advertisements : ad.expires \in Nat /\ Dir!Loads(ad)
    /\ \A doc \in Documents : Shaped(doc)
    /\ Deltas \subseteq [base : Nat, ops : Seq(Operation)]

VARIABLES
    worst,      \* of each process: the gravest status of its doctor's steps
    record,     \* the events projection it was answered with
    \* history
    kept        \* whether its save left that projection's events in the file

doctorVars == <<worst, record, kept>>
allVars == <<serviceVars, doctorVars>>

-----------------------------------------------------------------------------
Gravity == [pass |-> 0, warn |-> 1, fail |-> 2]
Statuses == DOMAIN Gravity

Graver(a, b) == IF Gravity[a] >= Gravity[b] THEN a ELSE b

NoRecord == [key |-> "none"]

\* Those in which the doctor holds a copy of the state file, and the others.
StoreStages == {"holding", "noted", "retained"}
CheckStages ==
    {"profile", "described", "checked", "sampled", "surveyed", "logging", "answered",
     "watch", "diagnose", "report"}

InitDoctor ==
    /\ InitService
    /\ worst = [p \in Procs |-> "pass"]
    /\ record = [p \in Procs |-> NoRecord]
    /\ kept = [p \in Procs |-> FALSE]

\* The next check comes out with one of these.
Checked(p, statuses) ==
    \E s \in statuses : worst' = [worst EXCEPT ![p] = Graver(@, s)]

\* A check that touches neither the file nor what the doctor goes by.
Checks(p, from, to, statuses) ==
    /\ GoesTo(p, from, to)
    /\ Checked(p, statuses)
    /\ UNCHANGED <<vars, commandVars, answered, news, record, kept>>

DoctorEnds(p) ==
    /\ Ends(p)
    /\ worst' = [worst EXCEPT ![p] = "pass"]
    /\ record' = [record EXCEPT ![p] = NoRecord]
    /\ kept' = [kept EXCEPT ![p] = FALSE]

-----------------------------------------------------------------------------
(* Before any service *)

DoctorStarts(p) ==
    /\ GoesTo(p, "none", "profile")
    /\ UNCHANGED <<vars, commandVars, answered, news, doctorVars>>

\* Without a readable profile, or its key, there is nothing more to check.
ProfileUnusable(p) == Checks(p, "profile", "report", {"fail"})

\* A profile without an account is a warning.
ProfileUsable(p) == Checks(p, "profile", "described", {"pass", "warn"})

DescriptorsUnavailable(p) == Checks(p, "described", "report", {"fail"})

\* A descriptor that is not valid fails and is used all the same; a forbidden
\* route fails too.  The check of the relay hints cannot warn: it asks of those
\* that start with bootstrap.relay:// whether they contain ://.
DescriptorsListed(p) == Checks(p, "described", "checked", {"pass", "fail"})

\* The sample frame, delta, repair, convergence records and envelope.
SamplesChecked(p) == Checks(p, "checked", "sampled", {"pass", "fail"})

\* Samples that do not parse end these checks, the directory's with them.
SamplesUnreadable(p) == Checks(p, "checked", "surveyed", {"fail"})

DirectoryUnavailable(p) == Checks(p, "sampled", "surveyed", {"warn"})

DirectoryAnswered(p) ==
    \E d \in Directories :
        Checks(p, "sampled", "surveyed",
            {IF Dir!Found(d, StoragePin) /\ Dir!UsesBoundaryRefs(d)
             THEN "pass" ELSE "fail"})

-----------------------------------------------------------------------------
(* The logging service *)

\* No logging service, no valid surface of it, or none with an events node: the
\* doctor neither observes nor watches.
EventsUnresolved(p) == Checks(p, "surveyed", "diagnose", {"fail"})

\* The doctor goes by the surface it was answered with and stores none of it.
EventsResolved(p) ==
    /\ GoesTo(p, "surveyed", "logging")
    /\ \E s \in Surfaces :
        /\ EventsNode \in DOMAIN Backing[s]
        /\ surface' = [surface EXCEPT ![p] = s]
        /\ answered' = [answered EXCEPT ![p] = s]
    /\ UNCHANGED <<vars, command, output, sent, news, doctorVars>>

\* No channel, no answer, or one that is no valid record of a node's channel.
EventsMissing(p) == Checks(p, "logging", "watch", {"fail"})

\* As for a service command, a record of any node's channel will do; but not one
\* of the surface's.
EventsAnswered(p) ==
    /\ GoesTo(p, "logging", "answered")
    /\ Backing[surface[p]][EventsNode] # Blank
    /\ \E k \in Keys : \E new \in Answers[k] :
        /\ k[2] \in ChannelsOf(surface[p])
        /\ record' = [record EXCEPT ![p] = [key |-> k, new |-> new]]
    /\ UNCHANGED <<vars, commandVars, answered, news, worst, kept>>

\* The file does not parse: the doctor does not watch either.
StoreUnreadable(p) == torn /\ Checks(p, "answered", "diagnose", {"fail"})

DoctorOpens(p) ==
    /\ GoesTo(p, "answered", "holding")
    /\ Open(p)
    /\ UNCHANGED <<commandVars, answered, news, doctorVars>>

\* This has no failure of its own: a descriptor that was read can be written.
DoctorRemembers(p) ==
    /\ GoesTo(p, "holding", "noted")
    /\ \E g \in Gateways : RememberDescriptor(p, Asked, g)
    /\ UNCHANGED <<commandVars, answered, news, doctorVars>>

\* The projection's step passes here, before anything is saved.
DoctorStores(p) ==
    /\ GoesTo(p, "noted", "retained")
    /\ StoreProjection(p, record[p].key, record[p].new)
    /\ UNCHANGED <<commandVars, answered, news, doctorVars>>

\* The observer update is not valid: nothing is saved.
DoctorStoreFails(p) ==
    /\ GoesTo(p, "noted", "watch")
    /\ Fails(p)
    /\ Checked(p, {"fail"})
    /\ UNCHANGED <<commandVars, answered, news, record, kept>>

Keeps(state, r) ==
    LET at_key == state.projections[r.key] IN
    at_key # None /\ IdsOf(r.new.events) \subseteq IdsOf(at_key.events)

DoctorSaves(p) ==
    /\ GoesTo(p, "retained", "watch")
    /\ Save(p)
    /\ kept' = [kept EXCEPT ![p] = Keeps(file', record[p])]
    /\ UNCHANGED <<commandVars, answered, news, worst, record>>

\* Mutant: the status of the save is not among the steps.
DoctorSaveFailsUnnoted(p) ==
    /\ GoesTo(p, "retained", "watch")
    /\ Fails(p) \/ Tears(p)
    /\ UNCHANGED <<commandVars, answered, news, doctorVars>>

\* The file cannot be written, or only the first of it.
DoctorSaveFails(p) ==
    /\ GoesTo(p, "retained", "watch")
    /\ Fails(p) \/ Tears(p)
    /\ Checked(p, {"fail"})
    /\ UNCHANGED <<commandVars, answered, news, record, kept>>

\* A watch is an observation whose answer is only counted.
Watches(p) == Checks(p, "watch", "diagnose", {"pass", "fail"})

\* Asked for with --full: they pass or, unavailable or incomplete, warn.
Diagnoses(p) == Checks(p, "diagnose", "report", {"pass", "warn"})

Reports(p) == at[p] = "report" /\ DoctorEnds(p) /\ UNCHANGED vars

\* Killed, outside the store and in it.
DoctorKilled(p) ==
    /\ DoctorEnds(p)
    /\ \/ at[p] \in CheckStages \ {"report"} /\ UNCHANGED vars
       \/ at[p] \in StoreStages /\ (Fails(p) \/ Tears(p))

-----------------------------------------------------------------------------
DoctorStep(p) ==
    \/ DoctorStarts(p) \/ ProfileUnusable(p) \/ ProfileUsable(p)
    \/ DescriptorsUnavailable(p) \/ DescriptorsListed(p)
    \/ SamplesChecked(p) \/ SamplesUnreadable(p)
    \/ DirectoryUnavailable(p) \/ DirectoryAnswered(p)
    \/ EventsUnresolved(p) \/ EventsResolved(p) \/ EventsMissing(p) \/ EventsAnswered(p)
    \/ StoreUnreadable(p) \/ DoctorOpens(p) \/ DoctorRemembers(p) \/ DoctorStores(p)
    \/ DoctorStoreFails(p) \/ DoctorSaves(p) \/ DoctorSaveFails(p)
    \/ Watches(p) \/ Diagnoses(p) \/ Reports(p) \/ DoctorKilled(p)

NextCommand ==
    \E p \in Procs :
        \/ ServiceStep(p) /\ UNCHANGED doctorVars
        \/ DoctorStep(p)

CommandSpec == InitDoctor /\ [][NextCommand]_allVars

-----------------------------------------------------------------------------
(* Properties *)

\* The state file without what the commands remember and none reads back.
Bare(state) == [Empty EXCEPT !.projections = state.projections]

Store == INSTANCE RuntimeStore WITH file <- Bare(file), mine <- [p \in Procs |-> Bare(mine[p])]

\* To the retained projections, whatever commands and doctors do is what
\* RuntimeStore says of processes that only open, store and save.
ImplementsStore == Store!Spec

\* The files, the commands' progress and the doctors' keep to their types; and a
\* copy of the state file is held exactly where a command is in the midst of it:
\* none ends, or goes on to something else, with its copy unsaved.
CommandsTypeOK ==
    /\ TypeOK
    /\ \A p \in Procs : pc[p] = "open" <=> HoldsFile(p) \/ at[p] \in StoreStages
    /\ at \in [Procs -> ServiceStages \cup StoreStages \cup CheckStages]
    /\ command \in [Procs -> Commands \cup {NoCommand}]
    /\ surface \in [Procs -> Surfaces \cup {NoSurface}]
    /\ output \in [Procs -> Outputs]
    /\ sent \in [Procs -> {Blank} \cup UNION {ChannelsOf(s) : s \in Surfaces}]
    /\ answered \in [Procs -> Surfaces \cup {NoSurface}]
    /\ news \in [Procs -> {"none", "some", "no"}]
    /\ worst \in [Procs -> Statuses]
    /\ record \in [Procs -> [key : Keys, new : UNION {Answers[k] : k \in Keys}] \cup {NoRecord}]
    /\ kept \in [Procs -> BOOLEAN]

AllNarrow == \A d \in Directories, t1, t2 \in Times : Dir!Narrows(d, StoragePin, t1, t2)

\* The directory the doctor is about to look at answers with fewer entries and
\* channels as its advertisements expire, until the last of them has: see
\* Narrows of SwarmDirectory.
DirectoryNarrows == \A p \in Procs : at[p] = "sampled" => AllNarrow

AllDone == \A doc \in Documents, delta \in Deltas : DoneInTurn(doc, delta)

\* The delta the doctor is about to try on a document does there what its
\* operations say, one after the other, and nothing else: see DoneInTurn of
\* ProjectionDelta.
DeltaDoneInTurn == \A p \in Procs : at[p] = "checked" => AllDone

\* The doctor never reports pass or warn unless the events it was answered with
\* were in the state file when it had saved: whichever early end, failed check
\* or failed write it met on the way, it says fail.
DoctorPassMeansRetained ==
    \A p \in Procs : at[p] = "report" /\ worst[p] # "fail" => kept[p]
=============================================================================
