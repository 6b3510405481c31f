--------------------------- MODULE PairingProofs ---------------------------
(***************************************************************************)
(* Proofs about Pairing, for every number of relays, claims and waits and  *)
(* every length of the channel.                                            *)
(***************************************************************************)
EXTENDS Pairing, TLAPS

USE PairingAssumption

-----------------------------------------------------------------------------
(* The channel *)

\* What is received, and what stays behind.
LEMMA Receiving ==
    ASSUME NEW M, NEW q \in Seq(M), q # <<>>
    PROVE  /\ Head(q) \in M /\ Tail(q) \in Seq(M)
           /\ 1 \in DOMAIN q /\ Head(q) = q[1]
           /\ \A i \in DOMAIN Tail(q) : i + 1 \in DOMAIN q /\ Tail(q)[i] = q[i + 1]
           /\ \A i \in DOMAIN q : i # 1 =>
                i - 1 \in DOMAIN Tail(q) /\ Tail(q)[i - 1] = q[i]
OBVIOUS

\* What is sent goes to the end.
LEMMA Sending ==
    ASSUME NEW M, NEW q \in Seq(M), NEW e \in M
    PROVE  /\ Append(q, e) \in Seq(M)
           /\ Len(q) + 1 \in DOMAIN Append(q, e)
           /\ Append(q, e)[Len(q) + 1] = e
           /\ \A i \in DOMAIN q : i \in DOMAIN Append(q, e) /\ Append(q, e)[i] = q[i]
           /\ \A i \in DOMAIN Append(q, e) : i \in DOMAIN q \/ i = Len(q) + 1
OBVIOUS

-----------------------------------------------------------------------------
(* Types *)

LEMMA InitType == Init => TypeOK
<1> SUFFICES ASSUME Init PROVE TypeOK
  OBVIOUS
<1>1. /\ late \in BOOLEAN /\ expired \in BOOLEAN /\ heard \in BOOLEAN /\ lapsed \in BOOLEAN
      /\ reached \in BOOLEAN
  BY DEF Init
<1>2. /\ pc \in {"idle", "head", "recv", "publish"} /\ result \in Results
      /\ answering \subseteq Claims
      /\ published \subseteq Claims /\ observer \in [Relays -> Threads]
      /\ queue \in Seq(Event) /\ waits \in 0..MaxWaits /\ requests \in [Claims -> Nat]
  BY DEF Init, Results, Threads
<1> QED
  BY <1>1, <1>2 DEF TypeOK

\* Every step keeps the types.
LEMMA TypeStep == TypeOK /\ [Next]_vars => TypeOK'
<1> SUFFICES ASSUME TypeOK, [Next]_vars PROVE TypeOK'
  OBVIOUS
<1> USE DEF TypeOK
<1>1. CASE StartWait
  <2>1. /\ late' \in BOOLEAN /\ expired' \in BOOLEAN /\ heard' \in BOOLEAN /\ lapsed' \in BOOLEAN
        /\ answering' = answering /\ reached' = reached
    BY <1>1 DEF StartWait, sending
  <2>2. /\ pc' \in {"idle", "head", "recv", "publish"} /\ result' \in Results
        /\ published' \subseteq Claims /\ observer' \in [Relays -> Threads]
        /\ queue' \in Seq(Event) /\ waits' \in 0..MaxWaits /\ requests' \in [Claims -> Nat]
    BY <1>1 DEF StartWait, Results, Threads
  <2> QED
    BY <2>1, <2>2
<1>2. CASE StartExpired
  BY <1>2 DEF StartExpired, past, sending, Results
<1>3. ASSUME NEW r \in Relays, Observe(r) PROVE TypeOK'
  <2>1. PICK e \in Event : /\ queue' = Append(queue, e)
                           /\ heard' = (heard \/ (e.type = "pair_approve" /\ e.ours))
    BY <1>3 DEF Observe
  <2>2. heard' \in BOOLEAN
    BY <2>1
  <2> QED
    BY <1>3, <2>1, <2>2, Sending DEF Observe, sending
<1>4. ASSUME NEW r \in Relays, ObserverStops(r) PROVE TypeOK'
  BY <1>4 DEF ObserverStops, past, sending, Threads
<1>5. CASE Proceed \/ TimeOut \/ RecvTimesOut \/ RecvDisconnected
  BY <1>5 DEF Proceed, TimeOut, RecvTimesOut, RecvDisconnected, Return, past, sending, Results, Threads
<1>6. ASSUME NEW type, Received(type) PROVE Head(queue) \in Event /\ queue' \in Seq(Event)
  BY <1>6, Receiving DEF Received
<1>7. Received("pair_claim") => Head(queue).claim \in Claims
  BY <1>6 DEF Event, Received
<1>8. CASE RecvKnownClaim
  BY <1>6, <1>8 DEF RecvKnownClaim, past, sending
<1>9. CASE RecvNewClaim
  BY <1>6, <1>7, <1>9 DEF RecvNewClaim, Publish, past
<1>10. CASE RelayTakes
  <2>1. reached' \in BOOLEAN /\ lapsed' \in BOOLEAN
    BY <1>10 DEF RelayTakes
  <2>2. requests' \in [Claims -> Nat]
    BY <1>10 DEF RelayTakes
  <2> QED
    BY <1>10, <2>1, <2>2 DEF RelayTakes
<1>15. CASE PublishReturns
  BY <1>15 DEF PublishReturns, PublishDelivered, PublishUndelivered, Published, Return, past,
               Results, Threads
<1>11. CASE RecvApproval
  BY <1>6, <1>11 DEF RecvApproval, Return, past, sending, Results, Threads
<1>12. CASE DeadlinePasses
  BY <1>12 DEF DeadlinePasses, past, sending
<1>13. CASE CodeExpires
  BY <1>13 DEF CodeExpires, wait, past, sending
<1>14. CASE UNCHANGED vars
  BY <1>14 DEF vars, wait, past, sending
<1> QED
  BY <1>1, <1>2, <1>3, <1>4, <1>5, <1>8, <1>9, <1>10, <1>11, <1>12, <1>13, <1>14,
     <1>15 DEF Next, Loop

\* Every variable of a wait keeps to its type.
THEOREM TypeCorrect == Spec => []TypeOK
<1> QED
  BY InitType, TypeStep, PTL DEF Spec

-----------------------------------------------------------------------------
(* The invariant *)

LEMMA InitInv == Init => PairInv
<1> SUFFICES ASSUME Init PROVE PairInv
  OBVIOUS
<1>1. TypeOK
  BY InitType
<1>2. RequestsRemembered /\ ObserversOff /\ SendingInPublish
  BY DEF Init, RequestsRemembered, ObserversOff, SendingInPublish
<1>5. NoResultYet
  BY DEF Init, NoResultYet
<1>3. QueueHeard /\ HeardQueued
  BY DEF Init, QueueHeard, HeardQueued
<1>4. StoppedMeansNoneHeard /\ WaitIgnoresOthers
  BY DEF Init, StoppedMeansNoneHeard, WaitIgnoresOthers
<1> QED
  BY <1>1, <1>2, <1>3, <1>4, <1>5 DEF PairInv

\* The steps that touch the claims answered.
Answers == StartWait \/ RecvNewClaim \/ RelayTakes \/ PublishReturns

LEMMA OthersLeaveRequests ==
    ASSUME [Next]_vars, ~Answers
    PROVE  /\ UNCHANGED <<published, requests, answering, reached>>
           /\ pc' = "publish" => pc = "publish"
           /\ pc = "publish" => pc' = "publish"
BY DEF Answers, Next, Loop, StartExpired, Observe, ObserverStops, Proceed, TimeOut, RecvTimesOut,
       RecvDisconnected, RecvKnownClaim, RecvApproval, Received, DeadlinePasses, CodeExpires,
       Return, vars, wait, past, sending

\* A claim is answered only if it is not remembered, and then it is; no relay is
\* shown a request outside publish_pair_request.
LEMMA RequestsStep == PairInv /\ [Next]_vars => (RequestsRemembered /\ SendingInPublish)'
<1> SUFFICES ASSUME PairInv, [Next]_vars PROVE (RequestsRemembered /\ SendingInPublish)'
  OBVIOUS
<1> USE DEF PairInv, TypeOK, RequestsRemembered, SendingInPublish
<1>1. CASE StartWait
  BY <1>1 DEF StartWait, sending
<1>2. CASE RecvNewClaim
  BY <1>2 DEF RecvNewClaim, Publish, Received, past
<1>3. CASE RelayTakes
  BY <1>3 DEF RelayTakes
<1>4. CASE PublishReturns
  BY <1>4 DEF PublishReturns, PublishDelivered, PublishUndelivered, Published, Return, past
<1>5. CASE ~Answers
  BY <1>5, OthersLeaveRequests
<1> QED
  BY <1>1, <1>2, <1>3, <1>4, <1>5 DEF Answers

\* Observers start with a wait and stop with it.
LEMMA ObserversStep == PairInv /\ [Next]_vars => ObserversOff'
<1> SUFFICES ASSUME PairInv, [Next]_vars PROVE ObserversOff'
  OBVIOUS
<1> USE DEF PairInv, TypeOK, ObserversOff
<1>1. CASE StartWait
  BY <1>1 DEF StartWait
<1>2. ASSUME NEW r \in Relays, ObserverStops(r) PROVE ObserversOff'
  BY <1>2 DEF ObserverStops
<1>3. CASE TimeOut \/ RecvDisconnected \/ PublishUndelivered \/ RecvApproval
  BY <1>3 DEF TimeOut, RecvDisconnected, PublishUndelivered, RecvApproval, Return
<1>4. CASE observer' = observer /\ (pc' = pc \/ pc' # "idle")
  BY <1>4
<1>5. StartWait \/ (\E r \in Relays : ObserverStops(r)) \/ TimeOut \/ RecvDisconnected
        \/ PublishUndelivered \/ RecvApproval
        \/ (observer' = observer /\ (pc' = pc \/ pc' # "idle"))
  BY DEF Next, Loop, StartExpired, Observe, Proceed, RecvTimesOut, RecvKnownClaim,
         RecvNewClaim, Publish, RelayTakes, PublishReturns, PublishDelivered, DeadlinePasses,
         CodeExpires, vars, wait, past
<1> QED
  BY <1>1, <1>2, <1>3, <1>4, <1>5

-----------------------------------------------------------------------------
\* The steps that touch the channel, or what has been heard.
Touches ==
    \/ StartWait
    \/ \E r \in Relays : Observe(r)
    \/ RecvKnownClaim \/ RecvNewClaim \/ RecvApproval

LEMMA OthersLeaveChannel ==
    ASSUME [Next]_vars, ~Touches
    PROVE  UNCHANGED <<queue, heard>>
BY DEF Touches, Next, Loop, StartExpired, ObserverStops, Proceed, TimeOut, RecvTimesOut,
       RecvDisconnected, RelayTakes, PublishReturns, PublishDelivered, PublishUndelivered,
       DeadlinePasses, CodeExpires, Return, vars, wait, past

\* Only what concerns this device is in the channel, and what was in it stays
\* there until it is received.
LEMMA QueueStep == PairInv /\ [Next]_vars => QueueHeard'
<1> SUFFICES ASSUME PairInv, [Next]_vars PROVE QueueHeard'
  OBVIOUS
<1> USE DEF PairInv, TypeOK, QueueHeard
<1>1. CASE StartWait
  BY <1>1 DEF StartWait
<1>2. ASSUME NEW r \in Relays, Observe(r) PROVE QueueHeard'
  <2>1. PICK e \in Event : /\ e.ours
                           /\ queue' = Append(queue, e)
                           /\ heard' = (heard \/ (e.type = "pair_approve" /\ e.ours))
    BY <1>2 DEF Observe, Concerns
  <2>2. \A i \in DOMAIN queue' :
            (i \in DOMAIN queue /\ queue'[i] = queue[i]) \/ queue'[i] = e
    BY <2>1, Sending
  <2> QED
    BY <2>1, <2>2
<1>3. CASE RecvKnownClaim \/ RecvNewClaim \/ RecvApproval
  <2>1. queue # <<>> /\ queue' = Tail(queue) /\ heard' = heard
    BY <1>3 DEF RecvKnownClaim, RecvNewClaim, Publish, RecvApproval, Received, past
  <2> QED
    BY <2>1, Receiving
<1>4. CASE ~Touches
  BY <1>4, OthersLeaveChannel
<1> QED
  BY <1>1, <1>2, <1>3, <1>4 DEF Touches

\* An approval leaves the channel only by ending the wait.
LEMMA HeardStep == PairInv /\ [Next]_vars => HeardQueued'
<1> SUFFICES ASSUME PairInv, [Next]_vars, pc' # "idle", heard'
             PROVE  \E i \in DOMAIN queue' : queue'[i].type = "pair_approve"
  BY DEF HeardQueued
<1> USE DEF PairInv, TypeOK
<1>1. ~StartWait
  BY DEF StartWait
<1>2. ~RecvApproval
  BY DEF RecvApproval, Return
<1>3. pc # "idle" \/ (\E r \in Relays : Observe(r)) \/ UNCHANGED <<pc, queue, heard>>
  BY <1>1 DEF Next, Loop, StartExpired, ObserverStops, Proceed, TimeOut, RecvTimesOut,
     RecvDisconnected, RecvKnownClaim, RecvNewClaim, Publish, RecvApproval, RelayTakes,
     PublishReturns, PublishDelivered, PublishUndelivered, Published, Received, DeadlinePasses, CodeExpires, Return, vars, wait, past
<1>4. ASSUME NEW r \in Relays, Observe(r)
      PROVE  \E i \in DOMAIN queue' : queue'[i].type = "pair_approve"
  <2>1. PICK e \in Event : /\ queue' = Append(queue, e)
                           /\ heard' = (heard \/ (e.type = "pair_approve" /\ e.ours))
    BY <1>4 DEF Observe
  <2>2. pc # "idle"
    BY <1>4 DEF ObserversOff, Observe
  <2>3. CASE heard
    <3>1. PICK i \in DOMAIN queue : queue[i].type = "pair_approve"
      BY <2>2, <2>3 DEF HeardQueued
    <3> QED
      BY <2>1, <3>1, Sending
  <2>4. CASE e.type = "pair_approve"
    BY <2>1, <2>4, Sending
  <2> QED
    BY <2>1, <2>3, <2>4
<1>5. CASE RecvKnownClaim \/ RecvNewClaim
  <2>1. /\ pc = "recv" /\ queue # <<>> /\ queue' = Tail(queue) /\ heard' = heard
        /\ Head(queue).type = "pair_claim"
    BY <1>5 DEF RecvKnownClaim, RecvNewClaim, Publish, Received, past
  <2>2. PICK i \in DOMAIN queue : queue[i].type = "pair_approve"
    BY <2>1 DEF HeardQueued
  <2>3. i # 1
    BY <2>1, <2>2, Receiving
  <2>4. i - 1 \in DOMAIN Tail(queue) /\ Tail(queue)[i - 1] = queue[i]
    BY <2>1, <2>3, Receiving
  <2> QED
    BY <2>1, <2>2, <2>4
<1>6. CASE ~Touches
  BY <1>3, <1>6, OthersLeaveChannel DEF HeardQueued, Touches
<1> QED
  BY <1>1, <1>2, <1>4, <1>5, <1>6 DEF Touches

-----------------------------------------------------------------------------
\* A result stands only while no wait runs.
LEMMA ResultStep == PairInv /\ [Next]_vars => NoResultYet'
<1> SUFFICES ASSUME PairInv, [Next]_vars PROVE NoResultYet'
  OBVIOUS
<1> USE DEF PairInv, NoResultYet
<1>1. CASE StartWait
  BY <1>1 DEF StartWait
<1>2. CASE StartExpired
  BY <1>2 DEF StartExpired
<1>3. CASE pc' = "idle"
  BY <1>3
<1>4. CASE result' = result /\ (pc' = "idle" \/ pc # "idle")
  BY <1>4
<1>5. StartWait \/ StartExpired \/ pc' = "idle" \/ (result' = result /\ (pc' = "idle" \/ pc # "idle"))
  BY DEF Next, Loop, Observe, ObserverStops, Proceed, TimeOut, RecvTimesOut, Received,
         RecvDisconnected, RecvKnownClaim, RecvNewClaim, Publish, RecvApproval, RelayTakes,
         PublishReturns, PublishDelivered, PublishUndelivered, Published, DeadlinePasses,
         CodeExpires, Return, vars, wait, past
<1> QED
  BY <1>1, <1>2, <1>3, <1>4, <1>5

\* What is told agrees with what has been heard, when it is told and after.
LEMMA ToldStep == PairInv /\ [Next]_vars => (StoppedMeansNoneHeard /\ WaitIgnoresOthers)'
<1> SUFFICES ASSUME PairInv, [Next]_vars
             PROVE  (StoppedMeansNoneHeard /\ WaitIgnoresOthers)'
  OBVIOUS
<1> USE DEF PairInv, TypeOK, StoppedMeansNoneHeard, WaitIgnoresOthers
<1>1. CASE StartWait \/ StartExpired \/ TimeOut \/ PublishUndelivered
  <2>1. result' \notin {"observersStopped", "approved", "badApproval"}
    BY <1>1 DEF StartWait, StartExpired, TimeOut, PublishUndelivered, Return
  <2> QED
    BY <2>1
<1>2. ASSUME NEW r \in Relays, Observe(r)
      PROVE  (StoppedMeansNoneHeard /\ WaitIgnoresOthers)'
  <2>1. result = "none" /\ result' = result
    BY <1>2 DEF Observe, ObserversOff, NoResultYet
  <2> QED
    BY <2>1
<1>3. CASE RecvDisconnected
  <2>1. pc = "recv" /\ DOMAIN queue = {} /\ heard' = heard /\ result' = "observersStopped"
    BY <1>3 DEF RecvDisconnected, Return, past
  <2>2. ~heard
    BY <2>1 DEF HeardQueued
  <2> QED
    BY <2>1, <2>2
<1>4. CASE RecvApproval
  <2>1. /\ queue # <<>> /\ Head(queue).type = "pair_approve"
        /\ heard' = heard /\ result' # "observersStopped"
    BY <1>4 DEF RecvApproval, Received, Return, past
  <2>2. heard
    BY <2>1, Receiving DEF QueueHeard
  <2> QED
    BY <2>1, <2>2
<1>5. CASE UNCHANGED <<result, heard>>
  BY <1>5
<1>6. StartWait \/ StartExpired \/ TimeOut \/ PublishUndelivered \/ RecvDisconnected
        \/ RecvApproval \/ (\E r \in Relays : Observe(r)) \/ UNCHANGED <<result, heard>>
  BY DEF Next, Loop, ObserverStops, Proceed, RecvTimesOut, RecvKnownClaim, RecvNewClaim,
         Publish, RelayTakes, PublishReturns, PublishDelivered, DeadlinePasses, CodeExpires, vars,
         wait, past
<1> QED
  BY <1>1, <1>2, <1>3, <1>4, <1>5, <1>6

LEMMA PairInvAlways == Spec => []PairInv
<1>1. PairInv /\ [Next]_vars => PairInv'
  <2>1. PairInv => TypeOK
    BY DEF PairInv
  <2> QED
    BY <2>1, TypeStep, RequestsStep, ObserversStep, ResultStep, QueueStep, HeardStep, ToldStep
       DEF PairInv
<1> QED
  BY <1>1, InitInv, PTL DEF Spec

-----------------------------------------------------------------------------
(* What a wait keeps to *)

\* Whatever the relays repeat and in whatever order, one wait sends at most one
\* pair request for a claim.
THEOREM RequestOnce == Spec => []RequestOncePerClaim
<1>1. PairInv => RequestOncePerClaim
  BY DEF PairInv, RequestsRemembered, RequestOncePerClaim
<1> QED
  BY <1>1, PairInvAlways, PTL

\* No approval that any observer has sent on is lost to the failure of the
\* observers.
THEOREM StoppedSound == Spec => []StoppedMeansNoneHeard
<1>1. PairInv => StoppedMeansNoneHeard
  BY DEF PairInv
<1> QED
  BY <1>1, PairInvAlways, PTL

\* A wait ends with an approval, good or bad, only if one was made for this
\* device.
THEOREM OthersIgnored == Spec => []WaitIgnoresOthers
<1>1. PairInv => WaitIgnoresOthers
  BY DEF PairInv
<1> QED
  BY <1>1, PairInvAlways, PTL

-----------------------------------------------------------------------------
(* The end of a wait *)

Underway == pc \in {"head", "recv", "publish"}
InLoop   == pc \in {"head", "recv"}
Clocked  == pc # "idle" /\ ~late

\* The deadline of a wait is final, and a wait goes from the head of the loop to a
\* receive, from there to a publishing, and back until it ends.
LEMMA WaitGoesOn ==
  ASSUME Underway, [Next]_vars
  PROVE  /\ Underway' \/ (pc = "idle")'
         /\ late => late' \/ (pc = "idle")'
         /\ late /\ pc = "head" => (pc = "head")' \/ (pc = "idle")'
         /\ pc = "publish" => (pc \in {"publish", "head", "idle"})'
<1> USE DEF Underway
<1>1. CASE StartWait \/ StartExpired
  BY <1>1 DEF StartWait, StartExpired
<1>2. CASE \E r \in Relays : Observe(r) \/ ObserverStops(r)
  BY <1>2 DEF Observe, ObserverStops
<1>3. CASE Loop
  BY <1>3 DEF Loop, Proceed, TimeOut, RecvTimesOut, RecvDisconnected, RecvKnownClaim, RecvNewClaim,
              Publish, RecvApproval, Received, Return
<1>4. CASE RelayTakes \/ PublishReturns
  BY <1>4 DEF RelayTakes, PublishReturns, PublishDelivered, PublishUndelivered, Published, Return
<1>5. CASE DeadlinePasses \/ CodeExpires
  BY <1>5 DEF DeadlinePasses, CodeExpires, wait
<1>6. CASE UNCHANGED vars
  BY <1>6 DEF vars, wait
<1> QED
  BY <1>1, <1>2, <1>3, <1>4, <1>5, <1>6 DEF Next

\* Past the deadline a round of the loop ends the wait, takes it to the head, or
\* goes into a publishing; a publishing that comes back is at the head too.
LEMMA WaitRound ==
  ASSUME late
  PROVE  /\ pc = "head" /\ <<Loop>>_vars => (pc = "idle")'
         /\ pc = "recv" /\ <<Loop>>_vars => (pc \in {"publish", "head", "idle"})'
         /\ <<PublishReturns>>_vars => (pc = "head")' \/ (pc = "idle")'
<1>1. Loop => /\ pc = "head" => (pc = "idle")'
              /\ pc = "recv" => (pc \in {"publish", "head", "idle"})'
  BY DEF Loop, Proceed, TimeOut, RecvTimesOut, RecvDisconnected, RecvKnownClaim, RecvNewClaim,
         Publish, RecvApproval, Received, Return
<1>2. PublishReturns => (pc = "head")' \/ (pc = "idle")'
  BY DEF PublishReturns, PublishDelivered, PublishUndelivered, Return
<1> QED
  BY <1>1, <1>2

\* Fairness with what its ENABLED says written out, ENABLED being beyond the provers:
\* WaitSteps for ProgramGoesOn, PublishSteps for RelaysLetGo.
WaitSteps ==
    /\ []<>~InLoop \/ []<><<Loop>>_vars
    /\ []<>~Clocked \/ []<><<DeadlinePasses>>_vars

PublishSteps == []<>~(pc = "publish") \/ []<><<PublishReturns>>_vars

\* A wait ends however the observers' relays behave, for any relays, claims and
\* waits: the deadline comes, and past it the loop ends after what was received
\* last.  Not so if the publishing of a request never comes back: that it does
\* is assumed, the code setting connect no timeout.
THEOREM WaitEndsInTime == Spec /\ WaitSteps /\ PublishSteps => WaitEnds
<1>1. Underway /\ [Next]_vars => Underway' \/ (pc = "idle")'
  BY WaitGoesOn
<1>2. Underway /\ late /\ [Next]_vars => late' \/ (pc = "idle")'
  BY WaitGoesOn
<1>3. pc = "head" /\ late /\ [Next]_vars => (pc = "head")' \/ (pc = "idle")'
  BY WaitGoesOn DEF Underway
<1>4. pc = "publish" /\ [Next]_vars => (pc = "publish")' \/ (pc = "head")' \/ (pc = "idle")'
  BY WaitGoesOn DEF Underway
<1>5. <<DeadlinePasses>>_vars => late'
  BY DEF DeadlinePasses
<1>6. pc = "head" /\ late /\ <<Loop>>_vars => (pc = "idle")'
  BY WaitRound
<1>7. pc = "recv" /\ late /\ <<Loop>>_vars => (pc = "publish")' \/ (pc = "head")' \/ (pc = "idle")'
  BY WaitRound
<1>8. late /\ <<PublishReturns>>_vars => (pc = "head")' \/ (pc = "idle")'
  BY WaitRound
<1>9. TypeOK =>
        /\ pc # "idle" <=> Underway
        /\ pc # "idle" <=> ~(pc = "idle")
        /\ Underway <=> pc = "head" \/ pc = "recv" \/ pc = "publish"
        /\ InLoop <=> pc = "head" \/ pc = "recv"
        /\ Underway /\ ~late => Clocked
  BY DEF TypeOK, Underway, InLoop, Clocked
<1> QED
  BY <1>1, <1>2, <1>3, <1>4, <1>5, <1>6, <1>7, <1>8, <1>9, TypeCorrect, PTL
     DEF Spec, WaitSteps, PublishSteps, WaitEnds

-----------------------------------------------------------------------------
(* When a request can go out late *)

\* The code outlives each wait that was begun with it.
ExpiresBetweenWaits == CodeExpires => pc = "idle"

\* A wait under way has a code that stands.
WaitsInTime ==
    /\ pc # "idle" => ~expired
    /\ ~lapsed

LEMMA WaitsInTimeStep ==
    ASSUME TypeOK, WaitsInTime, [Next]_vars, [ExpiresBetweenWaits]_vars
    PROVE  WaitsInTime'
<1> USE PairingAssumption DEF WaitsInTime
<1>1. CASE UNCHANGED vars
  BY <1>1 DEF vars, wait, past
<1>2. CASE StartWait
  BY <1>2 DEF StartWait
<1>3. CASE StartExpired
  BY <1>3 DEF StartExpired, past
<1>4. ASSUME NEW r \in Relays, Observe(r) PROVE WaitsInTime'
  BY <1>4 DEF Observe
<1>5. ASSUME NEW r \in Relays, ObserverStops(r) PROVE WaitsInTime'
  BY <1>5 DEF ObserverStops, past
<1>6. CASE Loop
  <2>1. CASE Proceed
    BY <2>1 DEF Proceed, past
  <2>2. CASE TimeOut
    BY <2>2 DEF TimeOut, Return, past
  <2>3. CASE RecvTimesOut
    BY <2>3 DEF RecvTimesOut, past
  <2>4. CASE RecvDisconnected
    BY <2>4 DEF RecvDisconnected, Return, past
  <2>5. CASE RecvKnownClaim
    BY <2>5 DEF RecvKnownClaim, Received, past
  <2>6. CASE RecvNewClaim
    BY <2>6 DEF RecvNewClaim, Publish, Received, past
  <2>8. CASE RecvApproval
    BY <2>8 DEF RecvApproval, Return, past
  <2>9. QED
    BY <1>6, <2>1, <2>2, <2>3, <2>4, <2>5, <2>6, <2>8 DEF Loop
<1>10. CASE RelayTakes
  BY <1>10 DEF RelayTakes
<1>11. CASE PublishReturns
  BY <1>11 DEF PublishReturns, PublishDelivered, PublishUndelivered, Published, Return, past
<1>7. CASE DeadlinePasses
  BY <1>7 DEF DeadlinePasses, past
<1>8. CASE CodeExpires
  <2>1. vars' # vars
    BY <1>8 DEF CodeExpires, vars, wait, past
  <2>2. pc = "idle"
    BY <1>8, <2>1 DEF ExpiresBetweenWaits
  <2>3. QED
    BY <1>8, <2>2 DEF CodeExpires, wait, past
<1>9. QED
  BY <1>1, <1>2, <1>3, <1>4, <1>5, <1>6, <1>7, <1>8, <1>10, <1>11
     DEF Next

\* wait_for_pairing looks at expires_at once, before its loop.  That is enough
\* exactly as long as no code expires during a wait: then, whatever the relays
\* send and however often the wait is repeated, no pair request goes out for a
\* code that has expired.  An expiry during a wait is thus the only way to the
\* late request which the run pairing_expiry exhibits.
THEOREM LateByExpiryInWait ==
    Spec /\ [][ExpiresBetweenWaits]_vars => []ExpiredCodeUnused
<1>1. Init => WaitsInTime
  BY DEF Init, WaitsInTime
<1>2. TypeOK /\ WaitsInTime /\ [Next]_vars /\ [ExpiresBetweenWaits]_vars => WaitsInTime'
  BY WaitsInTimeStep
<1>3. PairInv => TypeOK
  BY DEF PairInv
<1>4. WaitsInTime => ExpiredCodeUnused
  BY DEF WaitsInTime, ExpiredCodeUnused
<1>5. QED
  BY <1>1, <1>2, <1>3, <1>4, PairInvAlways, PTL DEF Spec
=============================================================================
