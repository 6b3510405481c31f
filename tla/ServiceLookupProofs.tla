------------------------ MODULE ServiceLookupProofs ------------------------
(***************************************************************************)
(* Proofs about ServiceLookup, for every set of relays, every finite set   *)
(* of descriptors, every path and every length of the channel.             *)
(***************************************************************************)
EXTENDS ServiceLookup, FiniteSetTheorems, TLAPS

USE LookupAssumption

-----------------------------------------------------------------------------
(* resolve_service_path *)

LEMMA NoneIsNoDescriptor == None \notin Descriptors
<1>1. DOMAIN None = {"pk"}
  BY DEF None
<1>2. \A d \in Descriptors : "nodes" \in DOMAIN d
  BY LookupAssumption
<1> QED
  BY <1>1, <1>2

LEMMA FailureNotFound == \A why : ~Failure(why).found
BY DEF Failure

\* Two different members are more than one.
LEMMA TwoAreMany ==
    ASSUME NEW S, IsFiniteSet(S), NEW d \in S, NEW e \in S, d # e
    PROVE  Cardinality(S) > 1
<1>1. IsFiniteSet({d}) /\ Cardinality({d}) = 1
  BY FS_Singleton
<1>2. {d} \in SUBSET S /\ {d} # S
  OBVIOUS
<1>3. Cardinality({d}) <= Cardinality(S) /\ Cardinality(S) # Cardinality({d})
  BY <1>2, FS_Subset
<1>4. Cardinality(S) \in Nat
  BY FS_CardinalityType
<1> QED
  BY <1>1, <1>3, <1>4

\* A match that is found is the only one.
LEMMA OnlyMatchSound ==
    ASSUME NEW S, IsFiniteSet(S), NEW rest, OnlyMatch(S, rest).found
    PROVE  /\ S = {OnlyMatch(S, rest).service}
           /\ OnlyMatch(S, rest).node = rest
<1>1. S # {} /\ ~(Cardinality(S) > 1)
  BY FailureNotFound DEF OnlyMatch
<1>2. OnlyMatch(S, rest) = [found |-> TRUE, service |-> CHOOSE d \in S : TRUE, node |-> rest]
  BY <1>1 DEF OnlyMatch
<1>3. (CHOOSE d \in S : TRUE) \in S
  BY <1>1
<1>4. \A d, e \in S : d = e
  BY <1>1, TwoAreMany
<1>5. S = {CHOOSE d \in S : TRUE}
  BY <1>3, <1>4
<1> QED
  BY <1>2, <1>5

\* A service more among the matches of one that was found makes them ambiguous.
LEMMA OneMoreIsAmbiguous ==
    ASSUME NEW S, IsFiniteSet(S), NEW rest, OnlyMatch(S, rest).found, NEW d, d \notin S
    PROVE  OnlyMatch(S \cup {d}, rest) = Failure("ambiguous")
<1>1. PICK s : S = {s}
  BY OnlyMatchSound
<1>2. IsFiniteSet(S \cup {d})
  BY FS_AddElement
<1>3. s \in S \cup {d} /\ d \in S \cup {d} /\ s # d
  BY <1>1
<1>4. Cardinality(S \cup {d}) > 1
  BY <1>2, <1>3, TwoAreMany
<1> QED
  BY <1>3, <1>4 DEF OnlyMatch

LEMMA NamedFinite ==
    ASSUME NEW ds \in SUBSET Descriptors, NEW token, NEW place
    PROVE  /\ IsFiniteSet(Named(ds, token))
           /\ IsFiniteSet(Named(At(ds, place), token))
<1>1. /\ Named(ds, token) \in SUBSET Descriptors
      /\ Named(At(ds, place), token) \in SUBSET Descriptors
  BY DEF Named, At
<1> QED
  BY <1>1, FS_Subset

\* A path that is resolved is resolved to the only service of one reading.
LEMMA ResolveSound ==
    ASSUME NEW ds \in SUBSET Descriptors, NEW p, Resolve(ds, p).found
    PROVE  /\ Resolve(ds, p).service \in ds
           /\ \/ /\ Named(ds, p[1]) = {Resolve(ds, p).service}
                 /\ Resolve(ds, p).node = Tail(p)
              \/ /\ Len(p) >= 2
                 /\ Named(At(ds, p[1]), p[2]) = {Resolve(ds, p).service}
                 /\ Resolve(ds, p).node = SubSeq(p, 3, Len(p))
<1> DEFINE answered == Resolve(ds, p)
<1>1. CASE LocationFirst(ds, p)
  <2> DEFINE matches == Named(At(ds, p[1]), p[2])
             rest    == SubSeq(p, 3, Len(p))
  <2>1. answered = OnlyMatch(matches, rest)
    BY <1>1 DEF Resolve
  <2>2. IsFiniteSet(matches)
    BY NamedFinite
  <2>3. answered.found
    OBVIOUS
  <2> HIDE DEF matches, rest, answered
  <2>4. matches = {answered.service} /\ answered.node = rest
    BY <2>1, <2>2, <2>3, OnlyMatchSound
  <2>5. matches \subseteq ds
    BY DEF matches, Named, At
  <2> QED
    BY <1>1, <2>4, <2>5 DEF LocationFirst, matches, rest, answered
<1>2. CASE ~LocationFirst(ds, p)
  <2> DEFINE matches == Named(ds, p[1])
             rest    == Tail(p)
  <2>1. answered = OnlyMatch(matches, rest)
    BY <1>2 DEF Resolve
  <2>2. IsFiniteSet(matches)
    BY NamedFinite
  <2>3. answered.found
    OBVIOUS
  <2> HIDE DEF matches, rest, answered
  <2>4. matches = {answered.service} /\ answered.node = rest
    BY <2>1, <2>2, <2>3, OnlyMatchSound
  <2>5. matches \subseteq ds
    BY DEF matches, Named
  <2> QED
    BY <2>4, <2>5 DEF matches, rest, answered
<1> QED
  BY <1>1, <1>2

\* A name, alone or with one of the service's nodes, is not redirected by one
\* more service.
LEMMA ResolveStable ==
    ASSUME NEW ds \in SUBSET Descriptors, NEW d \in Descriptors, NEW p,
           Resolve(ds, p).found, Len(p) = 1 \/ Plausible(ds, p)
    PROVE  Resolve(ds \cup {d}, p) \in {Resolve(ds, p), Failure("ambiguous")}
<1> DEFINE matches == Named(ds, p[1])
           more    == Named(ds \cup {d}, p[1])
<1>1. Plausible(ds, p) => Plausible(ds \cup {d}, p)
  BY DEF Plausible, Named
<1>2. ~LocationFirst(ds, p) /\ ~LocationFirst(ds \cup {d}, p)
  BY <1>1 DEF LocationFirst
<1>3. /\ Resolve(ds, p) = OnlyMatch(matches, Tail(p))
      /\ Resolve(ds \cup {d}, p) = OnlyMatch(more, Tail(p))
  BY <1>2 DEF Resolve
<1>4. more = matches \/ (more = matches \cup {d} /\ d \notin matches)
  BY DEF Named
<1>5. IsFiniteSet(matches)
  BY NamedFinite
<1>6. CASE more = matches
  BY <1>3, <1>6
<1>7. CASE more = matches \cup {d} /\ d \notin matches
  <2>1. OnlyMatch(matches \cup {d}, Tail(p)) = Failure("ambiguous")
    BY <1>3, <1>5, <1>7, OneMoreIsAmbiguous
  <2> QED
    BY <1>3, <1>7, <2>1
<1> QED
  BY <1>4, <1>6, <1>7

-----------------------------------------------------------------------------
(* Types *)

LEMMA ValuesAreDescriptors == TypeOK => Values(known) \in SUBSET Descriptors
BY DEF TypeOK, Values

\* What is answered is a failure or names a descriptor.
LEMMA AnswerType ==
    ASSUME NEW ds \in SUBSET Descriptors
    PROVE  /\ Answer(ds).found \/ Answer(ds).why \in Failures
           /\ Answer(ds).found => Answer(ds).service \in Descriptors
<1> DEFINE given == Answer(ds)
<1>1. \A why : Failure(why) = [found |-> FALSE, why |-> why]
  BY DEF Failure
<1>2. CASE ds = {}
  BY <1>1, <1>2 DEF Answer, Failures
<1>3. CASE ds # {}
  <2>1. given = Resolve(ds, path)
    BY <1>3 DEF Answer
  <2>2. \A S, rest : OnlyMatch(S, rest).found \/ OnlyMatch(S, rest).why \in Failures
    BY <1>1 DEF OnlyMatch, Failures
  <2>3. given.found \/ given.why \in Failures
    BY <2>1, <2>2 DEF Resolve
  <2>4. given.found => given.service \in Descriptors
    BY <2>1, ResolveSound
  <2> QED
    BY <2>3, <2>4
<1> QED
  BY <1>2, <1>3

\* A message goes to the end of the channel and is taken from its head.
LEMMA Channel ==
    ASSUME NEW M, NEW q \in Seq(M)
    PROVE  /\ q # <<>> => /\ Head(q) \in M /\ Tail(q) \in Seq(M) /\ Head(q) = q[1]
                          /\ \A i \in DOMAIN q : i # 1 =>
                                i - 1 \in DOMAIN Tail(q) /\ Tail(q)[i - 1] = q[i]
           /\ \A e \in M : /\ Append(q, e) \in Seq(M)
                           /\ Len(q) + 1 \in DOMAIN Append(q, e)
                           /\ Append(q, e)[Len(q) + 1] = e
                           /\ \A i \in DOMAIN q : /\ i \in DOMAIN Append(q, e)
                                                  /\ Append(q, e)[i] = q[i]
OBVIOUS

-----------------------------------------------------------------------------
(* The invariant *)

LEMMA InitInv == Init => LookupInv
<1> SUFFICES ASSUME Init PROVE LookupInv
  OBVIOUS
<1>1. late \in BOOLEAN /\ drained \in BOOLEAN
  BY DEF Init
<1>2. answer.why \in Failures /\ ~answer.found
  BY DEF Init, Failure, Failures
<1>3. TypeOK
  BY <1>1, <1>2 DEF Init, TypeOK, Threads
<1>4. SentKnownOrQueued /\ AnsweredAtTheEnd /\ DrainedKnowsAll
  BY DEF Init, SentKnownOrQueued, AnsweredAtTheEnd, DrainedKnowsAll
<1> QED
  BY <1>3, <1>4 DEF LookupInv

\* Starting, failing observers and the clock leave what is known alone.
LEMMA QuietStep ==
    ASSUME LookupInv,
           UNCHANGED <<path, filter, queue, known, answer, sent, drained>>,
           pc' \in {"idle", "head", "recv", "done"}, (pc = "done") = (pc' = "done"),
           late' \in BOOLEAN, observer' \in [Relays -> Threads]
    PROVE  LookupInv'
<1>1. TypeOK'
  BY DEF LookupInv, TypeOK
<1>2. SentKnownOrQueued' /\ DrainedKnowsAll'
  BY DEF LookupInv, SentKnownOrQueued, DrainedKnowsAll
<1>3. AnsweredAtTheEnd'
  BY DEF LookupInv, AnsweredAtTheEnd, Answer
<1> QED
  BY <1>1, <1>2, <1>3 DEF LookupInv

\* The loop ends with what is known.
LEMMA FinishStep ==
    ASSUME LookupInv, Finish, drained' \in BOOLEAN, pc # "done",
           drained' => drained \/ queue = <<>>
    PROVE  LookupInv'
<1> USE DEF LookupInv
<1>1. ~drained
  BY DEF AnsweredAtTheEnd
<1>2. Values(known) \in SUBSET Descriptors
  BY ValuesAreDescriptors
<1>3. TypeOK'
  <2>1. answer' = Answer(Values(known))
    BY DEF Finish
  <2>2. /\ answer'.found \/ answer'.why \in Failures
        /\ answer'.found => answer'.service \in Descriptors
    BY <1>2, <2>1, AnswerType
  <2> QED
    BY <2>2 DEF Finish, TypeOK
<1>4. SentKnownOrQueued'
  BY DEF Finish, SentKnownOrQueued
<1>5. AnsweredAtTheEnd'
  BY DEF Finish, AnsweredAtTheEnd, Answer
<1>6. DrainedKnowsAll'
  <2>1. queue = <<>> => \A pk \in sent : known[pk] # None
    BY DEF SentKnownOrQueued
  <2> QED
    BY <1>1, <2>1 DEF Finish, DrainedKnowsAll
<1> QED
  BY <1>3, <1>4, <1>5, <1>6

\* An observer sends a descriptor on.
LEMMA ObserveStep ==
    ASSUME LookupInv, NEW r \in Relays, Observe(r)
    PROVE  LookupInv'
<1> USE DEF LookupInv
<1>1. PICK d \in Descriptors : queue' = Append(queue, d) /\ sent' = sent \cup {d.pk}
  BY DEF Observe
<1>2. d.pk \in Pks
  BY DEF Pks
<1>3. queue \in Seq(Descriptors)
  BY DEF TypeOK
<1>4. TypeOK'
  <2>1. queue' \in Seq(Descriptors)
    BY <1>1, <1>3, Channel
  <2> QED
    BY <1>1, <1>2, <2>1 DEF Observe, TypeOK
<1>5. SentKnownOrQueued'
  <2> SUFFICES ASSUME NEW pk \in sent'
               PROVE  known'[pk] # None \/ \E i \in DOMAIN queue' : queue'[i].pk = pk
    BY DEF SentKnownOrQueued
  <2>1. known' = known
    BY DEF Observe
  <2>2. CASE pk = d.pk
    BY <1>1, <1>3, <2>2, Channel
  <2>3. CASE pk \in sent
    <3>1. known[pk] # None \/ \E i \in DOMAIN queue : queue[i].pk = pk
      BY <2>3 DEF SentKnownOrQueued
    <3> QED
      BY <1>1, <1>3, <2>1, <3>1, Channel
  <2> QED
    BY <1>1, <2>2, <2>3
<1>6. AnsweredAtTheEnd' /\ DrainedKnowsAll'
  BY DEF Observe, AnsweredAtTheEnd, DrainedKnowsAll
<1> QED
  BY <1>4, <1>5, <1>6

\* A descriptor moves from the channel to what is known.
LEMMA RecvStep == LookupInv /\ RecvDescriptor => LookupInv'
<1> SUFFICES ASSUME LookupInv, RecvDescriptor PROVE LookupInv'
  OBVIOUS
<1> USE DEF LookupInv
<1> DEFINE d == Head(queue)
<1>1. queue \in Seq(Descriptors) /\ queue # <<>>
  BY DEF RecvDescriptor, TypeOK
<1>2. d \in Descriptors /\ d = queue[1] /\ Tail(queue) \in Seq(Descriptors)
  BY <1>1, Channel
<1>3. d.pk \in Pks /\ d # None
  BY <1>2, NoneIsNoDescriptor DEF Pks
<1>4. known' = [known EXCEPT ![d.pk] = d] /\ queue' = Tail(queue)
  BY DEF RecvDescriptor
<1> HIDE DEF d
<1>5. TypeOK'
  BY <1>2, <1>3, <1>4 DEF RecvDescriptor, TypeOK
<1>6. SentKnownOrQueued'
  <2> SUFFICES ASSUME NEW pk \in sent
               PROVE  known'[pk] # None \/ \E i \in DOMAIN queue' : queue'[i].pk = pk
    BY DEF SentKnownOrQueued, RecvDescriptor
  <2>1. pk \in Pks /\ known \in [Pks -> Descriptors \cup {None}]
    BY DEF TypeOK
  <2>2. CASE pk = d.pk
    BY <1>3, <1>4, <2>1, <2>2
  <2>3. CASE pk # d.pk /\ known[pk] # None
    BY <1>4, <2>1, <2>3
  <2>4. CASE pk # d.pk /\ \E i \in DOMAIN queue : queue[i].pk = pk
    <3>1. PICK i \in DOMAIN queue : queue[i].pk = pk
      BY <2>4
    <3>2. i # 1
      BY <1>2, <2>4, <3>1
    <3>3. i - 1 \in DOMAIN queue' /\ queue'[i - 1] = queue[i]
      BY <1>1, <1>4, <3>2, Channel
    <3> QED
      BY <3>1, <3>3
  <2> QED
    BY <2>2, <2>3, <2>4 DEF SentKnownOrQueued
<1>7. AnsweredAtTheEnd' /\ DrainedKnowsAll'
  BY DEF RecvDescriptor, AnsweredAtTheEnd, DrainedKnowsAll
<1> QED
  BY <1>5, <1>6, <1>7

LEMMA InvStep == LookupInv /\ [Next]_vars => LookupInv'
<1> SUFFICES ASSUME LookupInv, [Next]_vars PROVE LookupInv'
  OBVIOUS
<1>1. TypeOK
  BY DEF LookupInv
<1>2. CASE Start
  BY <1>1, <1>2, QuietStep DEF Start, TypeOK, Threads
<1>3. ASSUME NEW r \in Relays, Observe(r) PROVE LookupInv'
  BY <1>3, ObserveStep
<1>4. ASSUME NEW r \in Relays, ObserverStops(r) PROVE LookupInv'
  BY <1>1, <1>4, QuietStep DEF ObserverStops, TypeOK, Threads
<1>5. CASE Proceed
  BY <1>1, <1>5, QuietStep DEF Proceed, TypeOK
<1>6. CASE TimeOut
  BY <1>1, <1>6, FinishStep DEF TimeOut, TypeOK
<1>7. CASE RecvTimesOut
  BY <1>1, <1>7, QuietStep DEF RecvTimesOut, TypeOK
<1>8. CASE RecvDisconnected
  BY <1>8, FinishStep DEF RecvDisconnected
<1>9. CASE RecvDescriptor
  BY <1>9, RecvStep
<1>10. CASE DeadlinePasses
  BY <1>1, <1>10, QuietStep DEF DeadlinePasses, TypeOK
<1>11. CASE UNCHANGED vars
  BY <1>1, <1>11, QuietStep DEF vars, loop, TypeOK
<1> QED
  BY <1>2, <1>3, <1>4, <1>5, <1>6, <1>7, <1>8, <1>9, <1>10, <1>11 DEF Next, Loop

-----------------------------------------------------------------------------
(* The theorems *)

LEMMA Invariance == Spec => []LookupInv
BY InitInv, InvStep, PTL DEF Spec

\* The variables of a lookup keep to their types, whatever relays send.
THEOREM TypeCorrect == Spec => []TypeOK
<1>1. LookupInv => TypeOK
  BY DEF LookupInv
<1> QED
  BY <1>1, Invariance, PTL

\* A discovery that ends because every relay has failed has lost no service
\* that one of them announced: the channel is drained before it ends.
THEOREM DrainedSound == Spec => []DrainedKnowsAll
<1>1. LookupInv => DrainedKnowsAll
  BY DEF LookupInv
<1> QED
  BY <1>1, Invariance, PTL

\* resolve_service_path never picks one of several services that answer to the
\* path in the reading it takes.
THEOREM GuessFree == Spec => []NeverGuesses
<1>1. LookupInv => NeverGuesses
  <2> SUFFICES ASSUME LookupInv, answer.found PROVE NeverGuesses
    BY DEF NeverGuesses
  <2>1. Values(known) \in SUBSET Descriptors
    BY ValuesAreDescriptors DEF LookupInv
  <2>2. answer = Answer(Values(known))
    BY FailureNotFound DEF LookupInv, TypeOK, AnsweredAtTheEnd
  <2>3. answer = Resolve(Values(known), path)
    BY <2>2, FailureNotFound DEF Answer
  <2> QED
    BY <2>1, <2>3, ResolveSound DEF NeverGuesses
<1> QED
  BY <1>1, Invariance, PTL

\* A name keeps its meaning, or becomes ambiguous, when one more service is
\* heard of.
THEOREM NamesStable == Spec => []HearingMoreNeverRedirects
<1>1. LookupInv => HearingMoreNeverRedirects
  <2> SUFFICES ASSUME LookupInv PROVE HearingMoreNeverRedirects
    OBVIOUS
  <2>1. Values(known) \in SUBSET Descriptors
    BY ValuesAreDescriptors DEF LookupInv
  <2> DEFINE ds == Values(known)
  <2>2. \A p \in Paths, d \in Descriptors :
            Resolve(ds, p).found /\ (Len(p) = 1 \/ Plausible(ds, p))
            => Resolve(ds \cup {d}, p) \in {Resolve(ds, p), Failure("ambiguous")}
    BY <2>1, ResolveStable
  <2> QED
    BY <2>2 DEF HearingMoreNeverRedirects
<1> QED
  BY <1>1, Invariance, PTL

-----------------------------------------------------------------------------
(* The end of a lookup *)

Underway == pc \in {"head", "recv"}

\* The deadline is final, and a lookup goes from the head of the loop to a
\* receive and back until it is done.
LEMMA LookupGoesOn ==
  ASSUME Underway, [Next]_vars
  PROVE  /\ Underway' \/ (pc = "done")'
         /\ late => late' \/ (pc = "done")'
         /\ late /\ pc = "head" => (late /\ pc = "head")' \/ (pc = "done")'
<1>1. CASE Start
  BY <1>1 DEF Start, Underway
<1>2. CASE \E r \in Relays : Observe(r) \/ ObserverStops(r)
  BY <1>2 DEF Observe, ObserverStops, Underway
<1>3. CASE Loop
  BY <1>3 DEF Loop, Proceed, TimeOut, RecvTimesOut, RecvDisconnected, RecvDescriptor, Finish, Underway
<1>4. CASE DeadlinePasses
  BY <1>4 DEF DeadlinePasses, Underway
<1>5. CASE UNCHANGED vars
  BY <1>5 DEF vars, loop, Underway
<1> QED
  BY <1>1, <1>2, <1>3, <1>4, <1>5 DEF Next

\* Past the deadline a round of the loop takes a lookup to the head, and the next
\* one ends it.
LEMMA LookupRound ==
  ASSUME Underway, late, <<Loop>>_vars
  PROVE  /\ pc = "head" => (pc = "done")'
         /\ pc = "recv" => (late /\ pc = "head")' \/ (pc = "done")'
BY DEF Loop, Proceed, TimeOut, RecvTimesOut, RecvDisconnected, RecvDescriptor, Finish, Underway

\* A lookup ends however the relays behave, for any relays, descriptors and paths:
\* if it never stands still, the deadline comes, and at most two rounds of the
\* loop later it is done.
THEOREM LookupEndsInTime == FairSpec /\ []NeverStuck => LookupEnds
<1>1. Underway /\ [Next]_vars => Underway' \/ (pc = "done")'
  BY LookupGoesOn
<1>2. Underway /\ late /\ [Next]_vars => late' \/ (pc = "done")'
  BY LookupGoesOn
<1>3. Underway /\ late /\ pc = "head" /\ [Next]_vars => (pc = "head")' \/ (pc = "done")'
  BY LookupGoesOn
<1>4. Underway /\ <<DeadlinePasses>>_vars => late'
  BY DEF DeadlinePasses
<1>5. Underway /\ late /\ pc = "head" /\ <<Loop>>_vars => (pc = "done")'
  BY LookupRound
<1>6. Underway /\ late /\ pc = "recv" /\ <<Loop>>_vars => (pc = "head")' \/ (pc = "done")'
  BY LookupRound
<1>7. (pc = "head" => Underway) /\ (Underway => pc = "head" \/ pc = "recv")
  BY DEF Underway
<1>8. NeverStuck =>
        /\ Underway => ENABLED <<Loop>>_vars
        /\ Underway /\ ~late => ENABLED <<DeadlinePasses>>_vars
  BY DEF NeverStuck, Underway
<1> QED
  BY <1>1, <1>2, <1>3, <1>4, <1>5, <1>6, <1>7, <1>8, PTL DEF FairSpec, Spec, LookupEnds

-----------------------------------------------------------------------------
(* A name's meaning until the end of the lookup *)

\* A path of a name alone, or of a name and one of the service's own nodes.
IsName(ds, p) == Len(p) = 1 \/ Plausible(ds, p)

LEMMA AmbiguousIsMany ==
    ASSUME NEW S, NEW rest, OnlyMatch(S, rest) = Failure("ambiguous")
    PROVE  S # {} /\ Cardinality(S) > 1
<1>1. Failure("notFound") # Failure("ambiguous")
  <2>1. Failure("notFound").why = "notFound" /\ Failure("ambiguous").why = "ambiguous"
    BY DEF Failure
  <2> QED
    BY <2>1
<1>2. ~OnlyMatch(S, rest).found
  BY FailureNotFound
<1> QED
  BY <1>1, <1>2 DEF OnlyMatch

\* Among more services that answer to a name it means the same one, or is ambiguous.
LEMMA MoreMatches ==
    ASSUME NEW S, NEW T, IsFiniteSet(T), S \subseteq T, NEW rest,
           OnlyMatch(S, rest).found \/ OnlyMatch(S, rest) = Failure("ambiguous")
    PROVE  OnlyMatch(T, rest) \in {OnlyMatch(S, rest), Failure("ambiguous")}
<1>1. IsFiniteSet(S) /\ Cardinality(S) <= Cardinality(T)
  BY FS_Subset
<1>2. Cardinality(S) \in Nat /\ Cardinality(T) \in Nat
  BY <1>1, FS_CardinalityType
<1>3. CASE S = T
  BY <1>3
<1>4. CASE S # T /\ OnlyMatch(S, rest).found
  <2>1. PICK s : S = {s}
    BY <1>1, <1>4, OnlyMatchSound
  <2>2. PICK t \in T : t # s
    BY <1>4, <2>1
  <2>3. Cardinality(T) > 1
    BY <2>1, <2>2, TwoAreMany
  <2> QED
    BY <2>2, <2>3 DEF OnlyMatch
<1>5. CASE S # T /\ OnlyMatch(S, rest) = Failure("ambiguous")
  <2>1. S # {} /\ Cardinality(S) > 1
    BY <1>5, AmbiguousIsMany
  <2>2. T # {} /\ Cardinality(T) > 1
    BY <1>1, <1>2, <2>1
  <2> QED
    BY <2>2 DEF OnlyMatch
<1> QED
  BY <1>3, <1>4, <1>5

LEMMA MeaningKept ==
    ASSUME NEW more \in SUBSET Descriptors, NEW ds \in SUBSET more, NEW p, IsName(ds, p),
           Resolve(ds, p).found \/ Resolve(ds, p) = Failure("ambiguous")
    PROVE  /\ IsName(more, p)
           /\ Resolve(more, p) \in {Resolve(ds, p), Failure("ambiguous")}
<1>1. IsName(more, p)
  BY DEF IsName, Plausible, Named
<1>2. ~LocationFirst(ds, p) /\ ~LocationFirst(more, p)
  <2>1. ASSUME NEW S, IsName(S, p) PROVE ~LocationFirst(S, p)
    <3>1. Len(p) = 1 \/ Plausible(S, p)
      BY <2>1 DEF IsName
    <3>2. Len(p) = 1 => ~(Len(p) >= 2)
      OBVIOUS
    <3> QED
      BY <3>1, <3>2 DEF LocationFirst
  <2> QED
    BY <1>1, <2>1
<1>3. /\ Resolve(ds, p) = OnlyMatch(Named(ds, p[1]), Tail(p))
      /\ Resolve(more, p) = OnlyMatch(Named(more, p[1]), Tail(p))
  BY <1>2 DEF Resolve
<1>4. IsFiniteSet(Named(more, p[1])) /\ Named(ds, p[1]) \subseteq Named(more, p[1])
  <2>1. Named(ds, p[1]) \subseteq Named(more, p[1])
    BY DEF Named
  <2> QED
    BY <2>1, NamedFinite
<1> QED
  BY <1>1, <1>3, <1>4, MoreMatches

\* A service is heard of for the first time, or again as it was.
OnlyNewServices == \A pk \in Pks : known[pk] # None => known'[pk] = known[pk]

\* The path is a name, and what is known resolves it to x.
Means(x) == IsName(Values(known), path) /\ Resolve(Values(known), path) = x

MeansOrAmbiguous(x) ==
    /\ IsName(Values(known), path)
    /\ Resolve(Values(known), path) \in {x, Failure("ambiguous")}

LEMMA MeaningStep ==
    ASSUME LookupInv, LookupInv', [Next]_vars, [OnlyNewServices]_vars,
           NEW x, x.found, MeansOrAmbiguous(x)
    PROVE  MeansOrAmbiguous(x)'
<1>1. path' = path
  BY DEF Next, Start, Observe, ObserverStops, Loop, Proceed, TimeOut, Finish, RecvTimesOut,
         RecvDisconnected, RecvDescriptor, DeadlinePasses, vars, loop
<1>2. Values(known) \subseteq Values(known')
  <2>1. \A pk \in Pks : known[pk] # None => known'[pk] = known[pk]
    BY DEF OnlyNewServices, vars, loop
  <2>2. DOMAIN known = Pks /\ DOMAIN known' = Pks
    BY DEF LookupInv, TypeOK
  <2> QED
    BY <2>1, <2>2 DEF Values
<1>3. Values(known') \in SUBSET Descriptors
  BY DEF LookupInv, TypeOK, Values
<1>4. PICK ds \in SUBSET Values(known') : ds = Values(known)
  BY <1>2
<1>5. /\ IsName(ds, path)
      /\ Resolve(ds, path) \in {x, Failure("ambiguous")}
      /\ Resolve(ds, path).found \/ Resolve(ds, path) = Failure("ambiguous")
  BY <1>4 DEF MeansOrAmbiguous
<1>6. /\ IsName(Values(known'), path)
      /\ Resolve(Values(known'), path) \in {Resolve(ds, path), Failure("ambiguous")}
  BY <1>3, <1>5, MeaningKept
<1> QED
  BY <1>1, <1>5, <1>6 DEF MeansOrAmbiguous

LEMMA MeaningAnswered ==
    ASSUME LookupInv, NEW x, x.found, MeansOrAmbiguous(x), pc = "done"
    PROVE  answer \in {x, Failure("ambiguous")}
<1>1. answer = Answer(Values(known))
  BY DEF LookupInv, AnsweredAtTheEnd
<1>2. Values(known) # {}
  <2> SUFFICES ASSUME Values(known) = {} PROVE FALSE
    OBVIOUS
  <2>1. Named({}, path[1]) = {} /\ Named(At({}, path[1]), path[2]) = {}
    BY DEF Named, At
  <2>2. Resolve({}, path) = Failure("notFound")
    BY <2>1 DEF Resolve, OnlyMatch
  <2>3. Failure("notFound") # Failure("ambiguous") /\ Failure("notFound") # x
    <3>1. Failure("notFound").why = "notFound" /\ Failure("ambiguous").why = "ambiguous"
      BY DEF Failure
    <3> QED
      BY <3>1, FailureNotFound
  <2> QED
    BY <2>2, <2>3 DEF MeansOrAmbiguous
<1> QED
  BY <1>1, <1>2 DEF Answer, MeansOrAmbiguous

\* Once what was heard gives a name a meaning, a lookup that goes on listening, however
\* many more services it hears of and however it ends, answers with that very service
\* or with none: as ambiguous.  It is so as long as no service is announced anew in
\* another form meanwhile, which would take the place of what was heard of it.
THEOREM MeaningStands ==
    ASSUME NEW x, x.found
    PROVE  Spec /\ [][OnlyNewServices]_vars
              => [](Means(x) => [](pc = "done" => answer \in {x, Failure("ambiguous")}))
<1>1. LookupInv /\ LookupInv' /\ [Next]_vars /\ [OnlyNewServices]_vars /\ MeansOrAmbiguous(x)
        => MeansOrAmbiguous(x)'
  BY MeaningStep
<1>2. Means(x) => MeansOrAmbiguous(x)
  BY DEF Means, MeansOrAmbiguous
<1>3. LookupInv /\ MeansOrAmbiguous(x)
        => (pc = "done" => answer \in {x, Failure("ambiguous")})
  BY MeaningAnswered
<1> QED
  BY <1>1, <1>2, <1>3, Invariance, PTL DEF Spec
=============================================================================
