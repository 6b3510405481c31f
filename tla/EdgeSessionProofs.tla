------------------------- MODULE EdgeSessionProofs -------------------------
(***************************************************************************)
(* Proofs about EdgeSession, for every number of calls, channels, pushes   *)
(* and revisions: the types, the invariant EdgeInv and what follows from   *)
(* it; that calls implement FrameFate and, when the socket holds none of   *)
(* them, are all answered; that a gateway which does not rewind moves the  *)
(* cursor forward only; and what an attach that is answered first implies. *)
(***************************************************************************)
EXTENDS EdgeSession, TLAPS

USE EdgeAssumption DEF NoSession, NoFrame, NoRev

-----------------------------------------------------------------------------
(* Types *)

\* The initial state is well typed.
LEMMA InitType == Init => TypeOK
<1> SUFFICES ASSUME Init PROVE TypeOK
  OBVIOUS
<1> USE DEF Init
<1>1. StateOK
  BY DEF StateOK, Cursors, Revisions
<1>2. CallOK
  <2>1. late \in BOOLEAN /\ blocked \in BOOLEAN
    OBVIOUS
  <2>2. pc \in Steps /\ wait \in Waits /\ trip \in 0..MaxTrips
    BY DEF Steps, Waits
  <2> QED
    BY <2>1, <2>2 DEF CallOK
<1>3. ReportOK
  BY DEF ReportOK, Results
<1>4. SocketOK
  <2>1. up \in BOOLEAN
    OBVIOUS
  <2> QED
    BY <2>1 DEF SocketOK
<1>5. GatewayOK
  BY DEF GatewayOK, Cursors, Revisions
<1> QED
  BY <1>1, <1>2, <1>3, <1>4, <1>5 DEF TypeOK

\* A group of variables that a step leaves alone stays well typed.
LEMMA StateSame == StateOK /\ UNCHANGED state => StateOK'
BY DEF StateOK, state

LEMMA ReportSame == ReportOK /\ UNCHANGED report => ReportOK'
BY DEF ReportOK, report

LEMMA GatewaySame == GatewayOK /\ UNCHANGED gateway => GatewayOK'
BY DEF GatewayOK, gateway

LEMMA CallSame == CallOK /\ UNCHANGED call => CallOK'
BY DEF CallOK, call

LEMMA SocketSame == SocketOK /\ UNCHANGED socket => SocketOK'
BY DEF SocketOK, socket

\* The head of a nonempty queue is a message of the queue's type, and the rest
\* is still such a queue.
LEMMA QueueType ==
    ASSUME NEW M, NEW q \in Seq(M), q # <<>>
    PROVE  Head(q) \in M /\ Tail(q) \in Seq(M) /\ Len(q) \in Nat /\ Len(q) > 0
OBVIOUS

\* Return ends the call with a well-typed call and socket.
LEMMA ReturnType ==
    ASSUME CallOK, SocketOK, NEW r \in Results, Return(r)
    PROVE  CallOK' /\ SocketOK' /\ result' \in Results
<1>1. CallOK'
  <2>1. late' \in BOOLEAN /\ blocked' \in BOOLEAN
    BY DEF Return
  <2>2. pc' \in Steps
    BY DEF Return, Steps
  <2>3. /\ wait' \in Waits /\ trip' \in 0..MaxTrips
        /\ attached' \in {NoSession} \cup Sessions
    BY DEF Return, CallOK
  <2> QED
    BY <2>1, <2>2, <2>3 DEF CallOK
<1>2. SocketOK'
  <2>1. up' \in BOOLEAN
    BY DEF Return
  <2>2. toGateway' \in Seq(ClientMsg) /\ toClient' \in Seq(GatewayMsg)
    BY DEF Return, SocketOK
  <2> QED
    BY <2>1, <2>2 DEF SocketOK
<1> QED
  BY <1>1, <1>2 DEF Return
\* Enter starts a read loop of a well-typed call.
LEMMA EnterType ==
    ASSUME CallOK, NEW s \in Steps, Enter(s),
           attached' \in {NoSession} \cup Sessions
    PROVE  CallOK'
<1>1. late' \in BOOLEAN /\ blocked' \in BOOLEAN
  BY DEF Enter
<1>2. pc' \in Steps /\ wait' \in Waits /\ trip' \in 0..MaxTrips
  BY DEF Enter, CallOK
<1> QED
  BY <1>1, <1>2 DEF CallOK

\* A message sent or answered is queued among messages of its type.
LEMMA SendType ==
    ASSUME SocketOK, NEW m \in ClientMsg, Send(m), UNCHANGED <<up, toClient>>
    PROVE  SocketOK'
<1>1. toGateway' \in Seq(ClientMsg) /\ toClient' \in Seq(GatewayMsg)
  BY DEF Send, SocketOK
<1> QED
  BY <1>1 DEF SocketOK

LEMMA ReplyType ==
    ASSUME SocketOK, NEW m \in GatewayMsg, Reply(m)
    PROVE  toClient' \in Seq(GatewayMsg)
BY DEF Reply, SocketOK

\* What the CLI reads is a gateway message, and reading it leaves the socket
\* well typed.
LEMMA GotType ==
    ASSUME SocketOK, NEW s, NEW types, Got(s, types)
    PROVE  Head(toClient) \in GatewayMsg /\ Head(toClient).type \in types
BY QueueType DEF SocketOK, Got

LEMMA ConsumeType ==
    ASSUME SocketOK, toClient # <<>>, Consume, UNCHANGED <<up, toGateway>>
    PROVE  SocketOK'
<1>1. toClient' \in Seq(GatewayMsg)
  BY QueueType DEF SocketOK, Consume
<1>2. toGateway' \in Seq(ClientMsg)
  BY DEF SocketOK
<1> QED
  BY <1>1, <1>2 DEF SocketOK

\* The progress an attach claims is within the types of Claims.
LEMMA ProgressType == StateOK => Progress \in Claims
BY DEF StateOK, Progress, Claims

\* The notes taken of a gateway message leave the kept state well typed.
LEMMA NoteAcceptType ==
    ASSUME NEW m \in GatewayMsg, m.type = "accept", NoteAccept(m)
    PROVE  StateOK' /\ m.session \in Sessions
<1>1. m \in [type : {"accept"}, session : Sessions, claims : Claims]
  BY DEF GatewayMsg, PlainRecord
<1> QED
  BY <1>1 DEF NoteAccept, StateOK, Claims

LEMMA NoteAckType ==
    ASSUME StateOK, NEW m \in GatewayMsg, m.type = "ack", NoteAck(m)
    PROVE  StateOK' /\ m.frame \in Frames
<1>1. m \in [type : {"ack"}, frame : Frames, target : {NoFrame} \cup Frames,
           correlation : {NoFrame} \cup Frames]
  BY DEF GatewayMsg, PlainRecord
<1> QED
  BY <1>1 DEF NoteAck, AckNames, StateOK

LEMMA NoteProjectionType ==
    ASSUME StateOK, NEW m \in GatewayMsg, m.type = "projection", NoteProjection(m)
    PROVE  StateOK'
<1>1. m \in [type : {"projection"}, channel : Channels, rev : Revisions]
  BY DEF GatewayMsg, PlainRecord
<1>2. [revs EXCEPT ![m.channel] = m.rev] \in Cursors
  BY <1>1 DEF StateOK, Cursors
<1> QED
  BY <1>1, <1>2 DEF NoteProjection, StateOK

\* Whatever follows an outcome of the await loop is well typed.
LEMMA AfterOutcomeType ==
    ASSUME CallOK, SocketOK, ReportOK, toClient # <<>>,
           NEW a \in {NoFrame} \cup Frames,
           NEW ev \in SUBSET Evidence, NEW dg \in SUBSET Diags,
           AfterOutcome(a, ev, dg)
    PROVE  CallOK' /\ SocketOK' /\ ReportOK'
<1>1. ack' \in {NoFrame} \cup Frames /\ evidence' \subseteq Evidence
  BY DEF AfterOutcome
<1>2. diags' \subseteq Diags
  BY DEF AfterOutcome, Diags
<1>3. CASE \E r \in Results : Return(r)
  BY <1>1, <1>2, <1>3, ReturnType DEF ReportOK
<1>4. CASE ~ \E r \in Results : Return(r)
  <2>1. ~Return("publish") /\ ~Return("ack") /\ ~Return("error")
    BY <1>4 DEF Results
  <2>2. /\ blocked' = FALSE /\ Consume
        /\ UNCHANGED <<pc, wait, trip, attached, late, result, up, toGateway>>
    BY <2>1 DEF AfterOutcome
  <2>3. late' \in BOOLEAN /\ blocked' \in BOOLEAN
    BY <2>2 DEF CallOK
  <2>4. /\ pc' \in Steps /\ wait' \in Waits /\ trip' \in 0..MaxTrips
        /\ attached' \in {NoSession} \cup Sessions
    BY <2>2 DEF CallOK
  <2>5. CallOK'
    BY <2>3, <2>4 DEF CallOK
  <2>6. SocketOK'
    BY <2>2, ConsumeType
  <2> QED
    BY <1>1, <1>2, <2>2, <2>5, <2>6 DEF ReportOK
<1> QED
  BY <1>3, <1>4
\* A failing read, and a failing call, end it well typed.
LEMMA FailType ==
    ASSUME CallOK, SocketOK, ReportOK, Fail
    PROVE  CallOK' /\ SocketOK' /\ ReportOK'
<1>1. CallOK' /\ SocketOK' /\ result' \in Results
  BY ReturnType DEF Fail, Results
<1> QED
  BY <1>1 DEF Fail, ReportOK

LEMMA ReadErrorType ==
    ASSUME CallOK, SocketOK, ReportOK, ReadError
    PROVE  CallOK' /\ SocketOK' /\ ReportOK'
<1>1. CASE Fail
  BY <1>1, FailType
<1>2. CASE ~Fail
  <2>1. /\ diags' = diags \cup {"readClosed"}
        /\ Return("publish")
        /\ UNCHANGED <<ack, evidence>>
    BY <1>2 DEF ReadError
  <2>2. CallOK' /\ SocketOK' /\ result' \in Results
    BY <2>1, ReturnType DEF Results
  <2> QED
    BY <2>1, <2>2 DEF ReportOK, Diags
<1> QED
  BY <1>1, <1>2

\* Types are inductive together with Underway, which says that the frame number
\* and the session a frame message is built from are there to be sent.
TypeInv == TypeOK /\ Underway

\* The steps that begin a call and open the socket and the session keep every
\* type.
LEMMA ConnectType ==
    ASSUME TypeOK, (\E w \in Waits : Call(w)) \/ Dials
    PROVE  TypeOK'
<1> USE DEF TypeOK
<1>1. ASSUME NEW w \in Waits, Call(w) PROVE TypeOK'
  <2>1. trip' \in 0..MaxTrips
    BY <1>1 DEF Call, CallOK
  <2>2. StateOK' /\ retired' \subseteq Sessions
    BY <1>1, StateSame DEF Call
  <2>3. late' \in BOOLEAN /\ blocked' \in BOOLEAN /\ up' \in BOOLEAN
    BY <1>1 DEF Call, CallOK, SocketOK
  <2>4. pc' \in Steps /\ wait' \in Waits /\ attached' \in {NoSession} \cup Sessions
    BY <1>1 DEF Call, Steps
  <2>5. CallOK'
    BY <2>1, <2>3, <2>4 DEF CallOK
  <2>6. ReportOK'
    BY <1>1 DEF Call, ReportOK, Results
  <2>7. SocketOK'
    <3>1. toGateway' \in Seq(ClientMsg) /\ toClient' \in Seq(GatewayMsg)
      BY <1>1 DEF Call, SocketOK
    <3> QED
      BY <2>3, <3>1 DEF SocketOK
  <2>8. GatewayOK'
    BY <1>1 DEF Call, GatewayOK
  <2> QED
    BY <2>2, <2>5, <2>6, <2>7, <2>8
<1>2. CASE Connect
  <2>1. late' \in BOOLEAN /\ blocked' \in BOOLEAN /\ up' \in BOOLEAN
    BY <1>2 DEF Connect, CallOK
  <2>2. /\ pc' \in Steps /\ wait' \in Waits /\ trip' \in 0..MaxTrips
        /\ attached' \in {NoSession} \cup Sessions
    BY <1>2 DEF Connect, Steps, CallOK
  <2>3. CallOK'
    BY <2>1, <2>2 DEF CallOK
  <2>4. SocketOK'
    <3>1. toGateway' \in Seq(ClientMsg) /\ toClient' \in Seq(GatewayMsg)
      BY <1>2 DEF Connect, SocketOK
    <3> QED
      BY <2>1, <3>1 DEF SocketOK
  <2> QED
    BY <1>2, <2>3, <2>4, StateSame, ReportSame, GatewaySame DEF Connect
<1>3. CASE ConnectFails
  <2>1. CallOK' /\ SocketOK' /\ ReportOK'
    BY <1>3, FailType DEF ConnectFails
  <2> QED
    BY <1>3, <2>1, StateSame, GatewaySame DEF ConnectFails
<1> QED
  BY <1>1, <1>2, <1>3 DEF Dials

LEMMA OpensType == TypeInv /\ Opens => TypeOK'
<1> SUFFICES ASSUME TypeInv, Opens PROVE TypeOK'
  OBVIOUS
<1> USE DEF TypeOK, TypeInv
<1>1. CASE SendResume
  <2>1. [type |-> "resume", session |-> sid, claims |-> Progress, frame |-> trip]
          \in ClientMsg
    BY <1>1, ProgressType DEF SendResume, ClientMsg, StateOK, Underway
  <2>2. SocketOK'
    BY <1>1, <2>1, SendType DEF SendResume
  <2>3. CallOK'
    BY <1>1, EnterType DEF SendResume, Steps, CallOK
  <2> QED
    BY <1>1, <2>2, <2>3, StateSame, ReportSame, GatewaySame DEF SendResume
<1>2. CASE SendHello
  <2>1. [type |-> "hello", claims |-> Progress, frame |-> trip] \in ClientMsg
    BY <1>2, ProgressType DEF SendHello, ClientMsg, Underway
  <2>2. SocketOK'
    BY <1>2, <2>1, SendType DEF SendHello
  <2>3. CallOK'
    BY <1>2, EnterType DEF SendHello, Steps, CallOK
  <2> QED
    BY <1>2, <2>2, <2>3, StateSame, ReportSame, GatewaySame DEF SendHello
<1>4. CASE SendFails
  <2>1. CallOK' /\ SocketOK' /\ ReportOK'
    BY <1>4, FailType DEF SendFails
  <2> QED
    BY <1>4, <2>1, StateSame, GatewaySame DEF SendFails
<1>3. CASE SendFrame
  <2>1. [type |-> "frame", session |-> attached, frame |-> trip] \in ClientMsg
    BY <1>3 DEF SendFrame, ClientMsg, Underway
  <2>2. SocketOK'
    BY <1>3, <2>1, SendType DEF SendFrame
  <2>3. CallOK'
    BY <1>3, EnterType DEF SendFrame, Steps, CallOK
  <2> QED
    BY <1>3, <2>2, <2>3, StateSame, ReportSame, GatewaySame DEF SendFrame
<1> QED
  BY <1>1, <1>2, <1>3, <1>4 DEF Opens
\* So do the steps that read.
LEMMA ReadsType == TypeOK /\ Reads => TypeOK'
<1> SUFFICES ASSUME TypeOK, Reads PROVE TypeOK'
  OBVIOUS
<1> USE DEF TypeOK
<1> DEFINE m == Head(toClient)
<1>1. CASE StartRead
  <2>1. CallOK'
    <3>1. late' \in BOOLEAN /\ blocked' \in BOOLEAN
      BY <1>1 DEF StartRead, CallOK
    <3>2. /\ pc' \in Steps /\ wait' \in Waits /\ trip' \in 0..MaxTrips
          /\ attached' \in {NoSession} \cup Sessions
      BY <1>1 DEF StartRead, CallOK
    <3> QED
      BY <3>1, <3>2 DEF CallOK
  <2> QED
    BY <1>1, <2>1, StateSame, ReportSame, SocketSame, GatewaySame DEF StartRead
<1>2. CASE ReadTooLate \/ ReadBroken \/ ReadBad
  <2>1. ReadError /\ UNCHANGED <<state, gateway, retired>>
    BY <1>2 DEF ReadTooLate, ReadBroken, ReadBad
  <2>2. CallOK' /\ SocketOK' /\ ReportOK'
    BY <2>1, ReadErrorType
  <2> QED
    BY <2>1, <2>2, StateSame, GatewaySame
<1>3. CASE Accepted
  <2>1. m \in GatewayMsg /\ m.type = "accept"
    BY <1>3, GotType DEF Accepted
  <2>2. StateOK' /\ attached' \in Sessions
    BY <1>3, <2>1, NoteAcceptType DEF Accepted
  <2>3. CallOK'
    BY <1>3, <2>2, EnterType DEF Accepted, Steps
  <2>4. SocketOK'
    BY <1>3, ConsumeType DEF Accepted, Got
  <2> QED
    BY <1>3, <2>2, <2>3, <2>4, ReportSame, GatewaySame DEF Accepted
<1>4. CASE ResumeRejected
  <2>1. StateOK'
    BY <1>4 DEF ResumeRejected, ClearSession, StateOK
  <2>2. CallOK'
    BY <1>4, EnterType DEF ResumeRejected, Steps, CallOK
  <2>3. SocketOK'
    BY <1>4, ConsumeType DEF ResumeRejected, Got
  <2>4. retired' \subseteq Sessions
    BY <1>4 DEF ResumeRejected, Retire
  <2> QED
    BY <1>4, <2>1, <2>2, <2>3, <2>4, ReportSame, GatewaySame DEF ResumeRejected
<1>5. CASE ResumeUnanswered
  <2>1. CallOK'
    BY <1>5, EnterType DEF ResumeUnanswered, Steps, CallOK
  <2>2. SocketOK'
    BY <1>5, ConsumeType DEF ResumeUnanswered, Got
  <2> QED
    BY <1>5, <2>1, <2>2, StateSame, ReportSame, GatewaySame DEF ResumeUnanswered
<1>6. CASE HelloRejected
  <2>1. CallOK' /\ SocketOK' /\ ReportOK'
    BY <1>6, ReturnType DEF HelloRejected, ReportOK, Results
  <2>2. retired' \subseteq Sessions
    BY <1>6 DEF HelloRejected, Retire
  <2> QED
    BY <1>6, <2>1, <2>2, StateSame, GatewaySame DEF HelloRejected
<1>7. CASE HelloIgnores
  <2>1. late' \in BOOLEAN /\ blocked' \in BOOLEAN
    BY <1>7 DEF HelloIgnores, CallOK
  <2>2. /\ pc' \in Steps /\ wait' \in Waits /\ trip' \in 0..MaxTrips
        /\ attached' \in {NoSession} \cup Sessions
    BY <1>7 DEF HelloIgnores, CallOK
  <2>3. SocketOK'
    BY <1>7, ConsumeType DEF HelloIgnores, Got
  <2>4. CallOK'
    BY <2>1, <2>2 DEF CallOK
  <2> QED
    BY <1>7, <2>3, <2>4, StateSame, ReportSame, GatewaySame DEF HelloIgnores
<1>8. CASE AwaitAck
  <2>1. m \in GatewayMsg /\ m.type = "ack" /\ toClient # <<>>
    BY <1>8, GotType DEF AwaitAck, Got
  <2>2. StateOK' /\ m.frame \in Frames
    BY <1>8, <2>1, NoteAckType DEF AwaitAck
  <2>3. CallOK' /\ SocketOK' /\ ReportOK'
    BY <1>8, <2>1, <2>2, AfterOutcomeType DEF AwaitAck, ReportOK
  <2> QED
    BY <1>8, <2>2, <2>3, GatewaySame DEF AwaitAck
<1>9. CASE AwaitReject
  <2>1. CallOK' /\ SocketOK' /\ result' \in Results
    BY <1>9, ReturnType DEF AwaitReject, Results
  <2>2. ReportOK'
    BY <1>9, <2>1 DEF AwaitReject, ReportOK
  <2> QED
    BY <1>9, <2>1, <2>2, StateSame, GatewaySame DEF AwaitReject
<1>10. CASE AwaitProjection
  <2>1. m \in GatewayMsg /\ m.type = "projection" /\ toClient # <<>>
    BY <1>10, GotType DEF AwaitProjection, Got
  <2>2. StateOK'
    BY <1>10, <2>1, NoteProjectionType DEF AwaitProjection
  <2>3. CASE wait = "projection"
    <3>1. CallOK' /\ SocketOK' /\ result' \in Results
      BY <1>10, <2>3, ReturnType DEF AwaitProjection, Results
    <3>2. ReportOK'
      BY <1>10, <2>3, <3>1 DEF AwaitProjection, ReportOK
    <3> QED
      BY <1>10, <2>2, <3>1, <3>2, GatewaySame DEF AwaitProjection
  <2>4. CASE wait # "projection"
    <3> DEFINE ev == IF wait = "publish" THEN evidence \cup {"projection"} ELSE evidence
    <3>1. AfterOutcome(ack, ev, diags)
      BY <1>10, <2>4 DEF AwaitProjection
    <3>2. ev \in SUBSET Evidence /\ ack \in {NoFrame} \cup Frames /\ diags \in SUBSET Diags
      BY DEF ReportOK, Evidence
    <3>3. CallOK' /\ SocketOK' /\ ReportOK'
      BY <2>1, <3>1, <3>2, AfterOutcomeType
    <3> QED
      BY <1>10, <2>2, <3>3, GatewaySame DEF AwaitProjection
  <2> QED
    BY <2>3, <2>4
<1>11. CASE AwaitDirectory
  <2>1. CASE wait = "directory"
    <3>1. CallOK' /\ SocketOK' /\ result' \in Results
      BY <1>11, <2>1, ReturnType DEF AwaitDirectory, Results
    <3>2. ReportOK'
      BY <1>11, <2>1, <3>1 DEF AwaitDirectory, ReportOK
    <3> QED
      BY <1>11, <3>1, <3>2, StateSame, GatewaySame DEF AwaitDirectory
  <2>2. CASE wait # "directory"
    <3>1. AfterOutcome(ack, evidence, diags) /\ toClient # <<>>
      BY <1>11, <2>2 DEF AwaitDirectory, Got
    <3>2. CallOK' /\ SocketOK' /\ ReportOK'
      BY <3>1, AfterOutcomeType DEF ReportOK
    <3> QED
      BY <1>11, <3>2, StateSame, GatewaySame DEF AwaitDirectory
  <2> QED
    BY <2>1, <2>2
<1>12. CASE AwaitRecord
  <2> DEFINE ev == IF wait = "publish" THEN evidence \cup {m.type} ELSE evidence
  <2>1. AfterOutcome(ack, ev, diags) /\ toClient # <<>>
    BY <1>12 DEF AwaitRecord, Got
  <2>2. m.type \in {"route", "service", "plan"}
    BY <1>12 DEF AwaitRecord, Got
  <2>3. ev \in SUBSET Evidence
    BY <2>2 DEF ReportOK, Evidence
  <2>4. CallOK' /\ SocketOK' /\ ReportOK'
    BY <2>1, <2>3, AfterOutcomeType DEF ReportOK
  <2> QED
    BY <1>12, <2>4, StateSame, GatewaySame DEF AwaitRecord
<1>13. CASE AwaitSealed
  <2> DEFINE dg == IF wait = "publish" THEN diags \cup {"sealed"} ELSE diags
  <2>1. AfterOutcome(ack, evidence, dg) /\ toClient # <<>>
    BY <1>13 DEF AwaitSealed, Got
  <2>2. dg \in SUBSET Diags
    BY DEF ReportOK, Diags
  <2>3. CallOK' /\ SocketOK' /\ ReportOK'
    BY <2>1, <2>2, AfterOutcomeType DEF ReportOK
  <2> QED
    BY <1>13, <2>3, StateSame, GatewaySame DEF AwaitSealed
<1>14. CASE AwaitIgnored
  <2>1. AfterOutcome(ack, evidence, diags) /\ toClient # <<>>
    BY <1>14 DEF AwaitIgnored, Got
  <2>2. CallOK' /\ SocketOK' /\ ReportOK'
    BY <2>1, AfterOutcomeType DEF ReportOK
  <2> QED
    BY <1>14, <2>2, StateSame, GatewaySame DEF AwaitIgnored
<1> QED
  BY <1>1, <1>2, <1>3, <1>4, <1>5, <1>6, <1>7, <1>8, <1>9, <1>10, <1>11,
     <1>12, <1>13, <1>14 DEF Reads, ReadsOn

\* And the steps of the gateway.
\* What the gateway may send of a channel are revisions of it.
LEMMA SendableType ==
    ASSUME TypeOK, NEW c \in Channels
    PROVE  Sendable(c) \subseteq Revisions
<1>1. published[c] \in Revisions
  BY DEF TypeOK, GatewayOK, Cursors
<1> QED
  BY <1>1 DEF Sendable, Revisions

LEMMA GatewayType == TypeOK /\ Gateway => TypeOK'
<1> SUFFICES ASSUME TypeOK, Gateway PROVE TypeOK'
  OBVIOUS
<1> USE DEF TypeOK
<1> DEFINE m == Head(toGateway)
<1>1. ASSUME NEW type, GatewayReads(type),
             toClient' \in Seq(GatewayMsg), GatewayOK'
      PROVE  TypeOK'
  <2>1. toGateway' \in Seq(ClientMsg)
    BY <1>1, QueueType DEF GatewayReads, SocketOK
  <2>2. SocketOK'
    BY <1>1, <2>1 DEF GatewayReads, SocketOK
  <2> QED
    BY <1>1, <2>2, StateSame, CallSame, ReportSame DEF GatewayReads
<1>2. ASSUME NEW type, GatewayReads(type)
      PROVE  m \in ClientMsg /\ m.type = type
  BY <1>2, QueueType DEF GatewayReads, SocketOK
<1>3. CASE GatewayAnswersResume
  <2>1. GatewayReads("resume")
    BY <1>3 DEF GatewayAnswersResume
  <2>2. m \in [type : {"resume"}, session : Sessions, claims : Claims, frame : Frames]
    BY <1>2, <2>1 DEF ClientMsg
  <2>3. ASSUME NEW c \in Echoes(m.claims)
        PROVE  [type |-> "accept", session |-> m.session, claims |-> c] \in GatewayMsg
    BY <2>2, <2>3 DEF GatewayMsg, Echoes
  <2>4. [type |-> "reject", of |-> "resume"] \in GatewayMsg
    BY DEF GatewayMsg
  <2>5. toClient' \in Seq(GatewayMsg)
    BY <1>3, <2>3, <2>4, ReplyType DEF GatewayAnswersResume
  <2>6. GatewayOK'
    BY <1>3, <2>2 DEF GatewayAnswersResume, GatewayOK
  <2> QED
    BY <1>1, <2>1, <2>5, <2>6
<1>4. CASE GatewayAnswersHello
  <2>1. GatewayReads("hello")
    BY <1>4 DEF GatewayAnswersHello
  <2>2. m \in [type : {"hello"}, claims : Claims, frame : Frames]
    BY <1>2, <2>1 DEF ClientMsg
  <2>3. ASSUME minted + 1 \in Sessions, NEW c \in Echoes(m.claims)
        PROVE  [type |-> "accept", session |-> minted + 1, claims |-> c] \in GatewayMsg
    BY <2>2, <2>3 DEF GatewayMsg, Echoes
  <2>4. [type |-> "reject", of |-> "hello"] \in GatewayMsg
    BY DEF GatewayMsg
  <2>5. toClient' \in Seq(GatewayMsg)
    BY <1>4, <2>3, <2>4, ReplyType DEF GatewayAnswersHello
  <2>6. GatewayOK'
    <3>1. CASE UNCHANGED <<minted, issued, granted>>
      BY <1>4, <2>2, <3>1 DEF GatewayAnswersHello, GatewayOK
    <3>2. CASE /\ minted + 1 \in Sessions
               /\ minted' = minted + 1
               /\ issued' = issued \cup {minted + 1}
               /\ granted' = granted \cup {minted + 1}
      <4>1. minted' \in 0..MaxTrips
        BY <3>2 DEF Sessions
      <4> QED
        BY <1>4, <2>2, <3>2, <4>1 DEF GatewayAnswersHello, GatewayOK
    <3> QED
      BY <1>4, <3>1, <3>2 DEF GatewayAnswersHello
  <2> QED
    BY <1>1, <2>1, <2>5, <2>6
<1>5. CASE GatewayAnswersFrame
  <2>1. GatewayReads("frame")
    BY <1>5 DEF GatewayAnswersFrame
  <2>2. m \in [type : {"frame"}, session : Sessions, frame : Frames]
    BY <1>2, <2>1 DEF ClientMsg
  <2>3. ASSUME NEW target \in {NoFrame, m.frame}, NEW correlation \in {NoFrame, m.frame}
        PROVE  [type |-> "ack", frame |-> m.frame, target |-> target,
                correlation |-> correlation] \in GatewayMsg
    BY <2>2, <2>3 DEF GatewayMsg
  <2>4. [type |-> "reject", of |-> "frame"] \in GatewayMsg
    BY DEF GatewayMsg
  <2>5. toClient' \in Seq(GatewayMsg)
    BY <1>5, <2>3, <2>4, ReplyType DEF GatewayAnswersFrame
  <2>6. GatewayOK'
    BY <1>5, <2>2 DEF GatewayAnswersFrame, GatewayOK
  <2> QED
    BY <1>1, <2>1, <2>5, <2>6
<1>6. ASSUME UNCHANGED <<state, call, report, up, toGateway, retired>>,
             toClient' \in Seq(GatewayMsg), GatewayOK'
      PROVE  TypeOK'
  <2>1. SocketOK'
    BY <1>6 DEF SocketOK
  <2> QED
    BY <1>6, <2>1, StateSame, CallSame, ReportSame
<1>7. CASE GatewayRefusesTaken
  <2>1. [type |-> "reject", of |-> "frame"] \in GatewayMsg
    BY DEF GatewayMsg
  <2>2. toClient' \in Seq(GatewayMsg)
    BY <1>7, <2>1, ReplyType DEF GatewayRefusesTaken
  <2>3. GatewayOK'
    BY <1>7 DEF GatewayRefusesTaken, GatewayOK
  <2> QED
    BY <1>6, <1>7, <2>2, <2>3 DEF GatewayRefusesTaken
<1>8. CASE GatewayPushes
  <2>1. ASSUME NEW r \in Pushed PROVE [type |-> r] \in GatewayMsg
    BY <2>1 DEF GatewayMsg, PlainRecord
  <2>2. toClient' \in Seq(GatewayMsg)
    BY <1>8, <2>1, ReplyType DEF GatewayPushes
  <2>3. GatewayOK'
    BY <1>8 DEF GatewayPushes, GatewayMayPush, GatewayOK
  <2> QED
    BY <1>6, <1>8, <2>2, <2>3 DEF GatewayPushes, GatewayMayPush
<1>9. CASE GatewayPushesProjection
  <2>1. PICK c \in Channels, r \in Revisions :
          /\ Reply([type |-> "projection", channel |-> c, rev |-> r])
          /\ published' = IF r > published[c] THEN [published EXCEPT ![c] = r]
                          ELSE published
    BY <1>9, SendableType DEF GatewayPushesProjection
  <2>2. [type |-> "projection", channel |-> c, rev |-> r] \in GatewayMsg
    BY DEF GatewayMsg
  <2>3. toClient' \in Seq(GatewayMsg)
    BY <2>1, <2>2, ReplyType
  <2>4. published' \in Cursors
    BY <2>1 DEF GatewayOK, Cursors
  <2>5. GatewayOK'
    BY <1>9, <2>4 DEF GatewayPushesProjection, GatewayMayPush, GatewayOK
  <2> QED
    BY <1>6, <1>9, <2>3, <2>5 DEF GatewayPushesProjection, GatewayMayPush
<1>10. CASE GatewayCloses \/ GatewayRestarts
  <2>1. up' \in BOOLEAN
    BY <1>10 DEF GatewayCloses, GatewayRestarts
  <2>2. toGateway' = <<>> /\ toClient' = toClient
    BY <1>10 DEF GatewayCloses, GatewayRestarts
  <2>3. SocketOK'
    BY <2>1, <2>2 DEF SocketOK
  <2>4. GatewayOK'
    BY <1>10 DEF GatewayCloses, GatewayRestarts, GatewayOK, gateway
  <2> QED
    BY <1>10, <2>3, <2>4, StateSame, CallSame, ReportSame
    DEF GatewayCloses, GatewayRestarts
<1> QED
  BY <1>3, <1>4, <1>5, <1>7, <1>8, <1>9, <1>10 DEF Gateway

\* The two steps that are not grouped above.
LEMMA ClockType == TypeOK /\ (ReadNonText \/ DeadlinePasses) => TypeOK'
<1> SUFFICES ASSUME TypeOK, ReadNonText \/ DeadlinePasses PROVE TypeOK'
  OBVIOUS
<1> USE DEF TypeOK, ReadNonText, DeadlinePasses
<1>1. late' \in BOOLEAN /\ blocked' \in BOOLEAN
  BY DEF CallOK
<1>2. /\ pc' \in Steps /\ wait' \in Waits /\ trip' \in 0..MaxTrips
      /\ attached' \in {NoSession} \cup Sessions
  BY DEF CallOK
<1>3. CallOK'
  BY <1>1, <1>2 DEF CallOK
<1> QED
  BY <1>3, StateSame, ReportSame, SocketSame, GatewaySame

\* How a step moves the call: it returns, connects, reads the accept that
\* attaches it, sends its frame, goes on with the attach, or stays.
LEMMA CallMoves ==
    ASSUME TypeOK, [Next]_vars
    PROVE  \/ pc' = "idle"
           \/ pc' = "dial" /\ trip' = trip + 1 /\ trip < MaxTrips
           \/ Accepted /\ pc' = "attached" /\ trip' = trip /\ pc # "idle"
                /\ attached' = Head(toClient).session
           \/ SendFrame /\ pc' = "await" /\ pc = "attached" /\ trip' = trip
                /\ attached' = attached
           \/ pc' \in {"attach", "resume", "greet", "hello"} /\ pc # "idle" /\ trip' = trip
           \/ UNCHANGED <<pc, trip, attached>>
<1> USE DEF TypeOK
<1>1. CASE UNCHANGED vars
  BY <1>1 DEF vars, call
<1>2. ASSUME (\E w \in Waits : Call(w)) \/ Dials
      PROVE  \/ pc' = "idle"
             \/ pc' = "dial" /\ trip' = trip + 1 /\ trip < MaxTrips
             \/ pc' = "attach" /\ pc # "idle" /\ trip' = trip
  BY <1>2 DEF Call, Dials, Connect, ConnectFails, Fail, Return
<1>3. CASE Opens
  BY <1>3 DEF Opens, SendResume, SendHello, SendFrame, SendFails, Enter, Fail, Return
<1>4. ASSUME NEW a, NEW ev, NEW dg, AfterOutcome(a, ev, dg)
      PROVE  pc' = "idle" \/ UNCHANGED <<pc, trip, attached>>
  BY <1>4 DEF AfterOutcome, Return
<1>5. CASE Reads
  <2>1. CASE StartRead \/ HelloIgnores
    BY <2>1 DEF StartRead, HelloIgnores
  <2>2. CASE ReadTooLate \/ ReadBroken \/ ReadBad \/ HelloRejected \/ AwaitReject
    BY <2>2 DEF ReadTooLate, ReadBroken, ReadBad, HelloRejected, AwaitReject,
                ReadError, Fail, Return
  <2>3. CASE Accepted
    BY <2>3 DEF Accepted, Enter, Got
  <2>4. CASE ResumeRejected \/ ResumeUnanswered
    BY <2>4 DEF ResumeRejected, ResumeUnanswered, Enter, Got
  <2>5. CASE AwaitAck \/ AwaitRecord \/ AwaitSealed \/ AwaitIgnored
    BY <1>4, <2>5 DEF AwaitAck, AwaitRecord, AwaitSealed, AwaitIgnored
  <2>6. CASE AwaitProjection
    BY <1>4, <2>6 DEF AwaitProjection, Return
  <2>7. CASE AwaitDirectory
    BY <1>4, <2>7 DEF AwaitDirectory, Return
  <2> QED
    BY <1>5, <2>1, <2>2, <2>3, <2>4, <2>5, <2>6, <2>7 DEF Reads, ReadsOn
<1>6. CASE Gateway
  BY <1>6 DEF Gateway, GatewayAnswersResume, GatewayAnswersHello,
      GatewayAnswersFrame, GatewayReads, GatewayRefusesTaken, GatewayPushes,
      GatewayPushesProjection, GatewayMayPush, GatewayCloses, GatewayRestarts, call
<1>7. CASE ReadNonText \/ DeadlinePasses
  BY <1>7 DEF ReadNonText, DeadlinePasses
<1> QED
  BY <1>1, <1>2, <1>3, <1>5, <1>6, <1>7 DEF Next

\* The frame number and the session stay fit to be sent.
LEMMA UnderwayStep == TypeInv /\ [Next]_vars => Underway'
<1> SUFFICES ASSUME TypeInv, [Next]_vars PROVE Underway'
  OBVIOUS
<1> USE DEF TypeInv
<1>1. trip \in 0..MaxTrips
  BY DEF TypeOK, CallOK
<1>2. CASE pc' = "idle"
  BY <1>2 DEF Underway
<1>3. CASE pc' = "dial" /\ trip' = trip + 1 /\ trip < MaxTrips
  BY <1>1, <1>3 DEF Underway, Frames
<1>4. CASE Accepted /\ pc' = "attached" /\ trip' = trip /\ pc # "idle"
            /\ attached' = Head(toClient).session
  <2>1. Head(toClient) \in GatewayMsg /\ Head(toClient).type = "accept"
    BY <1>4, GotType DEF Accepted, TypeOK
  <2>2. Head(toClient).session \in Sessions
    BY <1>4, <2>1, NoteAcceptType DEF Accepted
  <2> QED
    BY <1>4, <2>2 DEF Underway
<1>5. CASE SendFrame /\ pc' = "await" /\ pc = "attached" /\ trip' = trip
            /\ attached' = attached
  BY <1>5 DEF Underway
<1>6. CASE pc' \in {"attach", "resume", "greet", "hello"} /\ pc # "idle" /\ trip' = trip
  BY <1>6 DEF Underway
<1>7. CASE UNCHANGED <<pc, trip, attached>>
  BY <1>7 DEF Underway
<1> QED
  BY <1>2, <1>3, <1>4, <1>5, <1>6, <1>7, CallMoves

LEMMA TypeStep == TypeInv /\ [Next]_vars => TypeOK'
<1> SUFFICES ASSUME TypeInv, [Next]_vars PROVE TypeOK'
  OBVIOUS
<1>1. TypeOK
  BY DEF TypeInv
<1>2. CASE UNCHANGED vars
  BY <1>1, <1>2, StateSame, CallSame, ReportSame, SocketSame, GatewaySame
  DEF TypeOK, vars
<1>3. CASE Next
  BY <1>1, <1>3, ConnectType, OpensType, ReadsType, GatewayType, ClockType DEF Next
<1> QED
  BY <1>2, <1>3

\* Every reachable state is well typed: no interleaving of calls, gateway and
\* clock makes the transport send a frame without a number or a session.
THEOREM TypeCorrect == Spec => []TypeOK
<1>1. Init => TypeInv
  BY InitType DEF TypeInv, Init, Underway
<1>2. TypeInv /\ [Next]_vars => TypeInv'
  BY TypeStep, UnderwayStep DEF TypeInv
<1>3. TypeInv => TypeOK
  BY DEF TypeInv
<1> QED
  BY <1>1, <1>2, <1>3, PTL DEF Spec

-----------------------------------------------------------------------------
(* Soundness: what the CLI reports and claims is what the gateway did. *)

EdgeInv ==
    /\ TypeInv
    /\ RepliesSound /\ RequestsSound /\ AckSound /\ IdleQuiet
    /\ CursorWithinGateway
    /\ FrameUnderGrantedSession
    /\ PublishMeansTaken

\* The elements of a queue after it is read from and written to.
LEMMA TailElements ==
    ASSUME NEW M, NEW q \in Seq(M), q # <<>>, NEW i \in 1..Len(Tail(q))
    PROVE  i + 1 \in 1..Len(q) /\ Tail(q)[i] = q[i + 1]
OBVIOUS

LEMMA AppendElements ==
    ASSUME NEW M, NEW q \in Seq(M), NEW m \in M, NEW i \in 1..Len(Append(q, m))
    PROVE  \/ i \in 1..Len(q) /\ Append(q, m)[i] = q[i]
           \/ Append(q, m)[i] = m
OBVIOUS

\* A sound message stays sound while the gateway grants, takes in and publishes
\* more: it retracts none of them during a call.
Grows(gr, gr2, tk, tk2, no, no2, pub, pub2) ==
    /\ gr \subseteq gr2 /\ tk \subseteq tk2 /\ no \subseteq no2
    /\ pub \in Cursors /\ pub2 \in Cursors /\ \A c \in Channels : pub[c] <= pub2[c]

LEMMA SoundGrows ==
    ASSUME NEW tr, NEW gr, NEW gr2, NEW tk, NEW tk2, NEW no, NEW no2, NEW pub, NEW pub2,
           Grows(gr, gr2, tk, tk2, no, no2, pub, pub2)
    PROVE  /\ \A claims \in Claims :
                 ClaimsSound(claims, tk, pub) => ClaimsSound(claims, tk2, pub2)
           /\ \A m \in GatewayMsg :
                 ReplySound(m, tr, gr, tk, no, pub) => ReplySound(m, tr, gr2, tk2, no2, pub2)
           /\ \A m \in ClientMsg :
                 RequestSound(m, tr, tk, pub) => RequestSound(m, tr, tk2, pub2)
<1> USE DEF Grows
<1>1. ASSUME NEW claims \in Claims, ClaimsSound(claims, tk, pub)
      PROVE  ClaimsSound(claims, tk2, pub2)
  <2>1. ASSUME NEW c \in Channels PROVE claims.revs[c] <= pub2[c]
    <3>1. claims.revs[c] \in Nat /\ pub[c] \in Nat /\ pub2[c] \in Nat
      BY <2>1 DEF Claims, Cursors, Revisions
    <3> QED
      BY <1>1, <2>1, <3>1 DEF ClaimsSound
  <2> QED
    BY <1>1, <2>1 DEF ClaimsSound
<1>2. ASSUME NEW m \in GatewayMsg, ReplySound(m, tr, gr, tk, no, pub)
      PROVE  ReplySound(m, tr, gr2, tk2, no2, pub2)
  <2>1. CASE m.type = "accept"
    <3>1. m \in [type : {"accept"}, session : Sessions, claims : Claims]
      BY <2>1 DEF GatewayMsg, PlainRecord
    <3> QED
      BY <1>1, <1>2, <2>1, <3>1 DEF ReplySound
  <2>2. CASE m.type = "projection"
    <3>1. m \in [type : {"projection"}, channel : Channels, rev : Revisions]
      BY <2>2 DEF GatewayMsg, PlainRecord
    <3>2. m.rev \in Nat /\ pub[m.channel] \in Nat /\ pub2[m.channel] \in Nat
      BY <3>1 DEF Cursors, Revisions
    <3>3. m.rev <= pub2[m.channel]
      BY <1>2, <2>2, <3>1, <3>2 DEF ReplySound
    <3> QED
      BY <2>2, <3>3 DEF ReplySound
  <2>3. CASE m.type \notin {"accept", "projection"}
    BY <1>2, <2>3 DEF ReplySound
  <2> QED
    BY <2>1, <2>2, <2>3
<1>3. ASSUME NEW m \in ClientMsg, RequestSound(m, tr, tk, pub)
      PROVE  RequestSound(m, tr, tk2, pub2)
  <2>1. CASE m.type \in {"resume", "hello"}
    <3>1. m.claims \in Claims
      BY <2>1 DEF ClientMsg
    <3> QED
      BY <1>1, <1>3, <2>1, <3>1 DEF RequestSound
  <2>2. CASE m.type \notin {"resume", "hello"}
    BY <1>3, <2>2 DEF RequestSound
  <2> QED
    BY <2>1, <2>2
<1> QED
  BY <1>1, <1>2, <1>3

\* What a read step touches: never the gateway or what was sent to it, and of
\* the replies only the first.
LEMMA ReadsShape ==
    ASSUME Reads
    PROVE  /\ UNCHANGED <<gateway, trip, toGateway>>
           /\ pc \notin {"idle", "dial"}
           /\ \/ UNCHANGED <<toClient, up>> /\ pc' = pc
              \/ toClient # <<>> /\ toClient' = Tail(toClient) /\ pc' \notin {"idle", "dial"}
              \/ pc' = "idle" /\ up' = FALSE /\ toClient' = <<>>
<1>1. ASSUME NEW a, NEW ev, NEW dg, AfterOutcome(a, ev, dg)
      PROVE  /\ UNCHANGED <<trip, toGateway>>
             /\ \/ toClient' = Tail(toClient) /\ pc' = pc
                \/ pc' = "idle" /\ up' = FALSE /\ toClient' = <<>>
  BY <1>1 DEF AfterOutcome, Return, Consume
<1>2. CASE StartRead \/ HelloIgnores
  BY <1>2 DEF StartRead, HelloIgnores, socket, Reading, Consume, Got
<1>3. CASE ReadTooLate \/ ReadBroken \/ ReadBad \/ HelloRejected \/ AwaitReject
  BY <1>3 DEF ReadTooLate, ReadBroken, ReadBad, HelloRejected, AwaitReject,
              ReadError, Fail, Return, Reading, Got
<1>4. CASE Accepted \/ ResumeRejected \/ ResumeUnanswered
  BY <1>4 DEF Accepted, ResumeRejected, ResumeUnanswered, Enter, Got, Consume
<1>5. CASE AwaitAck \/ AwaitRecord \/ AwaitSealed \/ AwaitIgnored
  BY <1>1, <1>5 DEF AwaitAck, AwaitRecord, AwaitSealed, AwaitIgnored, Got
<1>6. CASE AwaitProjection \/ AwaitDirectory
  BY <1>1, <1>6 DEF AwaitProjection, AwaitDirectory, Got, Return
<1> QED
  BY <1>2, <1>3, <1>4, <1>5, <1>6 DEF Reads, ReadsOn

\* A call begins, and its socket is opened, with empty queues.
LEMMA ConnectSound ==
    ASSUME EdgeInv, (\E w \in Waits : Call(w)) \/ Dials
    PROVE  /\ RepliesSound' /\ RequestsSound' /\ AckSound' /\ IdleQuiet'
           /\ CursorWithinGateway' /\ FrameUnderGrantedSession' /\ PublishMeansTaken'
<1>1. /\ UNCHANGED <<acked, revs, taken, refused, barred, published>>
      /\ toClient' = <<>>
      /\ pc' \in {"idle", "dial"} => up' = FALSE
      /\ pc' \notin {"attached", "await"}
  BY DEF EdgeInv, IdleQuiet, Call, Dials, Connect, ConnectFails, Fail, Return, state, gateway
<1>2. RequestsSound'
  <2>1. CASE toGateway' = <<>>
    BY <2>1 DEF RequestsSound
  <2>2. CASE UNCHANGED <<toGateway, trip>>
    BY <1>1, <2>2 DEF EdgeInv, RequestsSound
  <2> QED
    BY <2>1, <2>2 DEF Call, Dials, Connect, ConnectFails, Fail, Return
<1>3. AckSound' /\ PublishMeansTaken'
  BY DEF EdgeInv, AckSound, PublishMeansTaken, Call, Dials, Connect, ConnectFails, Fail, Return,
         report, gateway
<1>4. CursorWithinGateway'
  BY <1>1 DEF EdgeInv, CursorWithinGateway, Progress
<1> QED
  BY <1>1, <1>2, <1>3, <1>4 DEF RepliesSound, IdleQuiet, FrameUnderGrantedSession

\* A resume or hello claims the cursor the CLI holds, a frame message carries
\* this call's frame.
LEMMA OpensSound ==
    ASSUME EdgeInv, Opens
    PROVE  /\ RepliesSound' /\ RequestsSound' /\ AckSound' /\ IdleQuiet'
           /\ CursorWithinGateway' /\ FrameUnderGrantedSession' /\ PublishMeansTaken'
<1> USE DEF EdgeInv
<1>1. UNCHANGED <<gateway, state, trip, ack>>
  BY DEF Opens, SendResume, SendHello, SendFrame, SendFails, Enter, Fail, Return, report
<1>2. UNCHANGED <<taken, published, granted, sid, acked, revs>> /\ Denied' = Denied
  BY <1>1 DEF gateway, state, Denied
<1>3. CASE SendFails
  <2>1. /\ pc' = "idle" /\ result' = "error" /\ up' = FALSE
        /\ toClient' = <<>> /\ toGateway' = toGateway
    BY <1>3 DEF SendFails, Fail, Return
  <2>2. RepliesSound' /\ RequestsSound'
    BY <1>1, <1>2, <2>1 DEF RepliesSound, RequestsSound
  <2>3. AckSound' /\ CursorWithinGateway'
    BY <1>1, <1>2 DEF AckSound, CursorWithinGateway, Progress
  <2> QED
    BY <2>1, <2>2, <2>3 DEF IdleQuiet, FrameUnderGrantedSession, PublishMeansTaken
<1>4. ASSUME NEW m \in ClientMsg, Send(m), RequestSound(m, trip, taken, published),
             UNCHANGED <<toClient, result>>, pc' \notin {"idle", "dial"},
             FrameUnderGrantedSession'
      PROVE  /\ RepliesSound' /\ RequestsSound' /\ AckSound' /\ IdleQuiet'
             /\ CursorWithinGateway' /\ PublishMeansTaken'
  <2>1. RequestsSound'
    <3>1. toGateway \in Seq(ClientMsg) /\ toGateway' = Append(toGateway, m)
      BY <1>4 DEF Send, TypeInv, TypeOK, SocketOK
    <3>2. ASSUME NEW i \in 1..Len(toGateway')
          PROVE  RequestSound(toGateway'[i], trip, taken, published)
      BY <1>4, <3>1, <3>2, AppendElements DEF RequestsSound
    <3> QED
      BY <1>1, <1>2, <3>2 DEF RequestsSound
  <2>2. RepliesSound' /\ AckSound' /\ CursorWithinGateway'
    BY <1>1, <1>2, <1>4 DEF RepliesSound, AckSound, CursorWithinGateway, Progress
  <2>3. IdleQuiet' /\ PublishMeansTaken'
    BY <1>1, <1>2, <1>4 DEF IdleQuiet, PublishMeansTaken
  <2> QED
    BY <2>1, <2>2, <2>3
<1>5. CASE SendResume
  <2> DEFINE m == [type |-> "resume", session |-> sid, claims |-> Progress, frame |-> trip]
  <2>1. m \in ClientMsg
    BY <1>5, ProgressType DEF SendResume, ClientMsg, StateOK, TypeInv, TypeOK, Underway
  <2>2. RequestSound(m, trip, taken, published)
    BY DEF RequestSound, CursorWithinGateway
  <2>3. /\ Send(m) /\ UNCHANGED <<toClient, result>> /\ pc' = "resume"
    BY <1>5 DEF SendResume, Enter, report
  <2> QED
    BY <1>4, <2>1, <2>2, <2>3 DEF FrameUnderGrantedSession
<1>6. CASE SendHello
  <2> DEFINE m == [type |-> "hello", claims |-> Progress, frame |-> trip]
  <2>1. m \in ClientMsg
    BY <1>6, ProgressType DEF SendHello, ClientMsg, TypeInv, TypeOK, Underway
  <2>2. RequestSound(m, trip, taken, published)
    BY DEF RequestSound, CursorWithinGateway
  <2>3. /\ Send(m) /\ UNCHANGED <<toClient, result>> /\ pc' = "hello"
    BY <1>6 DEF SendHello, Enter, report
  <2> QED
    BY <1>4, <2>1, <2>2, <2>3 DEF FrameUnderGrantedSession
<1>7. CASE SendFrame
  <2> DEFINE m == [type |-> "frame", session |-> attached, frame |-> trip]
  <2>1. m \in ClientMsg
    BY <1>7 DEF SendFrame, ClientMsg, TypeInv, Underway
  <2>2. RequestSound(m, trip, taken, published)
    BY DEF RequestSound
  <2>3. /\ Send(m) /\ UNCHANGED <<toClient, result, attached>>
        /\ pc = "attached" /\ pc' = "await"
    BY <1>7 DEF SendFrame, Enter, report
  <2>4. FrameUnderGrantedSession'
    BY <1>2, <2>3 DEF FrameUnderGrantedSession
  <2> QED
    BY <1>4, <2>1, <2>2, <2>3, <2>4
<1> QED
  BY <1>3, <1>5, <1>6, <1>7 DEF Opens

\* What the CLI does with an outcome rests on the soundness of the first reply.
LEMMA ReadsSound ==
    ASSUME EdgeInv, Reads
    PROVE  /\ RepliesSound' /\ RequestsSound' /\ AckSound' /\ IdleQuiet'
           /\ CursorWithinGateway' /\ FrameUnderGrantedSession' /\ PublishMeansTaken'
<1> USE DEF EdgeInv
<1> DEFINE m == Head(toClient)
<1>1. TypeOK /\ CallOK /\ ReportOK /\ StateOK /\ SocketOK /\ GatewayOK
  BY DEF TypeInv, TypeOK
<1>2. /\ UNCHANGED <<taken, published, granted, trip, toGateway>> /\ Denied' = Denied
      /\ pc \notin {"idle", "dial"}
  BY ReadsShape DEF gateway, Denied
<1>3. RequestsSound'
  BY <1>2 DEF RequestsSound
<1>4. RepliesSound'
  <2>1. CASE toClient' = toClient
    BY <1>2, <2>1 DEF RepliesSound
  <2>2. CASE toClient' = <<>>
    BY <2>2 DEF RepliesSound
  <2>3. CASE toClient # <<>> /\ toClient' = Tail(toClient)
    <3>1. toClient \in Seq(GatewayMsg)
      BY <1>1 DEF SocketOK
    <3>2. ASSUME NEW i \in 1..Len(toClient')
          PROVE  ReplySound(toClient'[i], trip, granted, taken, Denied, published)
      BY <2>3, <3>1, <3>2, TailElements DEF RepliesSound
    <3> QED
      BY <1>2, <3>2 DEF RepliesSound
  <2> QED
    BY <2>1, <2>2, <2>3, ReadsShape
<1>5. IdleQuiet'
  BY <1>2, ReadsShape DEF IdleQuiet
<1>6. ASSUME toClient # <<>>
      PROVE  m \in GatewayMsg /\ ReplySound(m, trip, granted, taken, Denied, published)
  BY <1>1, <1>6, QueueType DEF SocketOK, RepliesSound
\* An ack: it is of this frame, and its target was taken in.
<1>7. ASSUME NEW a \in {NoFrame, ack}, NEW ev, NEW dg, AfterOutcome(a, ev, dg)
      PROVE  AckSound' /\ PublishMeansTaken'
  <2>1. ack' = a /\ AckSound'
    BY <1>2, <1>7 DEF AckSound, AfterOutcome
  <2>2. result' \in {"publish", "ack"} => a # NoFrame \/ result' = result
    BY <1>7 DEF AfterOutcome, Converged, Return
  <2>3. a # NoFrame => trip \in taken
    BY <1>7 DEF AckSound
  <2> QED
    BY <1>2, <2>1, <2>2, <2>3 DEF PublishMeansTaken
<1>8. CASE AwaitAck
  <2>1. m \in GatewayMsg /\ m.type = "ack" /\ ReplySound(m, trip, granted, taken, Denied, published)
    BY <1>6, <1>8 DEF AwaitAck, Got
  <2>2. m.frame = trip /\ trip \in taken /\ AckNames(m) \in {NoFrame} \cup taken
    BY <2>1 DEF ReplySound
  <2>3. AckSound' /\ PublishMeansTaken'
    BY <1>2, <1>8, <2>2 DEF AwaitAck, AckSound, PublishMeansTaken, AfterOutcome, Return
  <2>4. CursorWithinGateway'
    BY <1>2, <1>8, <2>2
    DEF AwaitAck, NoteAck, CursorWithinGateway, ClaimsSound, Progress
  <2>5. FrameUnderGrantedSession'
    BY <1>2, <1>8 DEF AwaitAck, NoteAck, AfterOutcome, Return, FrameUnderGrantedSession
  <2> QED
    BY <1>3, <1>4, <1>5, <2>3, <2>4, <2>5
\* A projection: its revision was published.
<1>9. CASE AwaitProjection
  <2>1. /\ m \in GatewayMsg /\ m.type = "projection"
        /\ ReplySound(m, trip, granted, taken, Denied, published)
    BY <1>6, <1>9 DEF AwaitProjection, Got
  <2>2. m \in [type : {"projection"}, channel : Channels, rev : Revisions]
    BY <2>1 DEF GatewayMsg, PlainRecord
  <2>3. m.rev <= published[m.channel]
    BY <2>1 DEF ReplySound
  <2>4. ASSUME NEW c \in Channels PROVE revs'[c] <= published[c]
    BY <1>1, <1>9, <2>2, <2>3, <2>4
    DEF AwaitProjection, NoteProjection, CursorWithinGateway, ClaimsSound, Progress,
        StateOK, Cursors
  <2>5. CursorWithinGateway'
    BY <1>2, <1>9, <2>4
    DEF AwaitProjection, NoteProjection, CursorWithinGateway, ClaimsSound, Progress
  <2>6. AckSound' /\ PublishMeansTaken'
    BY <1>2, <1>7, <1>9 DEF AwaitProjection, AckSound, PublishMeansTaken, Return
  <2>7. FrameUnderGrantedSession'
    BY <1>2, <1>9
    DEF AwaitProjection, NoteProjection, AfterOutcome, Return, FrameUnderGrantedSession
  <2> QED
    BY <1>3, <1>4, <1>5, <2>5, <2>6, <2>7
\* An accept: its session was granted on this socket and its claims are sound.
<1>10. CASE Accepted
  <2>1. m \in GatewayMsg /\ m.type = "accept" /\ ReplySound(m, trip, granted, taken, Denied, published)
    BY <1>6, <1>10 DEF Accepted, Got
  <2>2. m.session \in granted /\ ClaimsSound(m.claims, taken, published)
    BY <2>1 DEF ReplySound
  <2>3. sid' = m.session /\ attached' = m.session
        /\ acked' = m.claims.acked /\ revs' = m.claims.revs
    BY <1>10 DEF Accepted, NoteAccept
  <2>4. CursorWithinGateway'
    BY <1>2, <2>2, <2>3 DEF CursorWithinGateway, ClaimsSound, Progress
  <2>5. FrameUnderGrantedSession'
    BY <1>2, <2>2, <2>3 DEF FrameUnderGrantedSession
  <2>6. AckSound' /\ PublishMeansTaken'
    BY <1>2, <1>10 DEF Accepted, AckSound, PublishMeansTaken, report
  <2> QED
    BY <1>3, <1>4, <1>5, <2>4, <2>5, <2>6
\* The other steps leave the cursor where it is.
<1>11. CASE Reads /\ ~AwaitAck /\ ~AwaitProjection /\ ~Accepted
  <2>1. UNCHANGED <<acked, revs>>
    BY <1>11 DEF Reads, ReadsOn, StartRead, ReadTooLate, ReadBroken, ReadBad, ResumeRejected,
        ClearSession, ResumeUnanswered, HelloRejected, HelloIgnores, AwaitReject,
        AwaitDirectory, AwaitRecord, AwaitSealed, AwaitIgnored, state
  <2>2. CursorWithinGateway'
    BY <1>2, <2>1 DEF CursorWithinGateway, Progress
  <2>3. FrameUnderGrantedSession'
    <3>1. CASE ResumeRejected
      BY <3>1 DEF ResumeRejected, Enter, FrameUnderGrantedSession
    <3>2. CASE ResumeUnanswered
      BY <3>2 DEF ResumeUnanswered, Enter, FrameUnderGrantedSession
    <3>3. CASE ~ResumeRejected /\ ~ResumeUnanswered
      <4>1. sid' = sid /\ (pc' = "idle" \/ UNCHANGED <<pc, attached>>)
        BY <1>11, <3>3 DEF Reads, ReadsOn, StartRead, ReadTooLate, ReadBroken, ReadBad,
            ReadError, HelloRejected, HelloIgnores, AwaitReject, AwaitDirectory,
            AwaitRecord, AwaitSealed, AwaitIgnored, AfterOutcome, Fail, Return, state
      <4> QED
        BY <1>2, <4>1 DEF FrameUnderGrantedSession
    <3> QED
      BY <3>1, <3>2, <3>3
  <2>4. AckSound' /\ PublishMeansTaken'
    <3>1. CASE AwaitDirectory \/ AwaitRecord \/ AwaitSealed \/ AwaitIgnored
      BY <1>2, <1>7, <3>1 DEF AwaitDirectory, AwaitRecord, AwaitSealed, AwaitIgnored,
          AckSound, PublishMeansTaken, Return
    <3>2. CASE ReadError
      BY <1>2, <3>2 DEF ReadError, Fail, Return, AckSound, PublishMeansTaken
    <3>3. CASE AwaitReject \/ HelloRejected
      BY <1>2, <3>3 DEF AwaitReject, HelloRejected, Fail, Return, AckSound, PublishMeansTaken
    <3>4. CASE UNCHANGED report
      BY <1>2, <3>4 DEF report, AckSound, PublishMeansTaken
    <3>5. \/ AwaitDirectory \/ AwaitRecord \/ AwaitSealed \/ AwaitIgnored \/ ReadError
          \/ AwaitReject \/ HelloRejected \/ UNCHANGED report
      BY <1>11 DEF Reads, ReadsOn, StartRead, ReadTooLate, ReadBroken, ReadBad, ResumeRejected,
          ResumeUnanswered, HelloIgnores, report
    <3> QED
      BY <3>1, <3>2, <3>3, <3>4, <3>5
  <2> QED
    BY <1>3, <1>4, <1>5, <2>2, <2>3, <2>4
<1> QED
  BY <1>8, <1>9, <1>10, <1>11

\* The cursor of an accept is one the gateway could hold.
LEMMA EchoesSound ==
    ASSUME NEW claims \in Claims, ClaimsSound(claims, taken, published),
           NEW c \in Echoes(claims)
    PROVE  c \in Claims /\ ClaimsSound(c, taken, published)
BY DEF Echoes

LEMMA EchoesType ==
    ASSUME NEW claims \in Claims, NEW c \in Echoes(claims)
    PROVE  c \in Claims
BY DEF Echoes

\* The gateway answers truly: this is how the model of it is written, and what
\* the proof adds is that its answers stay true until they are read.
LEMMA GatewaySound ==
    ASSUME EdgeInv, Gateway
    PROVE  /\ RepliesSound' /\ RequestsSound' /\ AckSound' /\ IdleQuiet'
           /\ CursorWithinGateway' /\ FrameUnderGrantedSession' /\ PublishMeansTaken'
<1> USE DEF EdgeInv
<1> DEFINE m == Head(toGateway)
<1>1. TypeOK /\ StateOK /\ SocketOK /\ GatewayOK
  BY DEF TypeInv, TypeOK
<1>2. /\ UNCHANGED <<state, call, report>>
      /\ granted \subseteq granted' /\ taken \subseteq taken'
      /\ Denied \subseteq Denied'
      /\ up' = up \/ up' = FALSE
  BY DEF Gateway, GatewayAnswersResume, GatewayAnswersHello, GatewayAnswersFrame,
      GatewayReads, GatewayRefusesTaken, GatewayPushes, GatewayPushesProjection,
      GatewayMayPush, GatewayCloses, GatewayRestarts, gateway, Denied
<1>3. UNCHANGED <<sid, acked, revs, pc, trip, attached, ack, result>>
  BY <1>2 DEF state, call, report
<1>4. published \in Cursors /\ published' \in Cursors
  BY <1>1, GatewayType DEF TypeOK, GatewayOK
<1>5. ASSUME NEW c \in Channels PROVE published[c] <= published'[c]
  <2>1. published[c] \in Nat
    BY <1>4 DEF Cursors, Revisions
  <2>2. CASE published' = published
    BY <2>1, <2>2
  <2>3. CASE GatewayPushesProjection
    <3>1. PICK d \in Channels :
            \E r \in Sendable(d) :
              published' = IF r > published[d] THEN [published EXCEPT ![d] = r] ELSE published
      BY <2>3 DEF GatewayPushesProjection
    <3>2. PICK r \in Revisions :
            published' = IF r > published[d] THEN [published EXCEPT ![d] = r] ELSE published
      BY <1>1, <3>1, SendableType
    <3> QED
      BY <1>4, <2>1, <3>2 DEF Cursors, Revisions
  <2> QED
    BY <2>2, <2>3 DEF Gateway, GatewayAnswersResume, GatewayAnswersHello,
        GatewayAnswersFrame, GatewayRefusesTaken, GatewayPushes, GatewayCloses,
        GatewayRestarts, gateway
\* What was said and claimed before the step is still true after it.
<1>6. /\ \A claims \in Claims : ClaimsSound(claims, taken, published)
                               => ClaimsSound(claims, taken', published')
      /\ \A r \in GatewayMsg : ReplySound(r, trip, granted, taken, Denied, published)
                               => ReplySound(r, trip, granted', taken', Denied', published')
      /\ \A r \in ClientMsg : RequestSound(r, trip, taken, published)
                              => RequestSound(r, trip, taken', published')
  <2>1. Grows(granted, granted', taken, taken', Denied, Denied', published, published')
    BY <1>2, <1>4, <1>5 DEF Grows
  <2> QED
    BY <2>1, SoundGrows
<1>7. toClient \in Seq(GatewayMsg) /\ toGateway \in Seq(ClientMsg)
  BY <1>1 DEF SocketOK
<1>8. CursorWithinGateway'
  <2>1. Progress' = Progress
    BY <1>3 DEF Progress
  <2>2. Progress \in Claims
    BY <1>1, ProgressType
  <2> QED
    BY <1>6, <2>1, <2>2 DEF CursorWithinGateway
<1>9. RequestsSound'
  <2>1. \/ toGateway' = toGateway
        \/ toGateway' = <<>>
        \/ toGateway # <<>> /\ toGateway' = Tail(toGateway)
    BY DEF Gateway, GatewayAnswersResume, GatewayAnswersHello, GatewayAnswersFrame,
        GatewayReads, GatewayRefusesTaken, GatewayPushes, GatewayPushesProjection,
        GatewayMayPush, GatewayCloses, GatewayRestarts
  <2>2. ASSUME NEW i \in 1..Len(toGateway')
        PROVE  toGateway'[i] \in ClientMsg /\ RequestSound(toGateway'[i], trip, taken, published)
    <3>1. CASE toGateway' = toGateway
      BY <1>7, <2>2, <3>1 DEF RequestsSound
    <3>2. CASE toGateway' = <<>>
      BY <2>2, <3>2
    <3>3. CASE toGateway # <<>> /\ toGateway' = Tail(toGateway)
      BY <1>7, <2>2, <3>3, TailElements DEF RequestsSound
    <3> QED
      BY <2>1, <3>1, <3>2, <3>3
  <2> QED
    BY <1>3, <1>6, <2>2 DEF RequestsSound
<1>10. AckSound' /\ FrameUnderGrantedSession' /\ PublishMeansTaken'
  BY <1>2, <1>3 DEF AckSound, FrameUnderGrantedSession, PublishMeansTaken
<1>11. ASSUME NEW r \in GatewayMsg, Reply(r),
              ReplySound(r, trip, granted', taken', Denied', published')
       PROVE  RepliesSound' /\ (pc \in {"idle", "dial"} => toClient' = toClient)
  <2>1. toClient' = toClient \/ (up /\ toClient' = Append(toClient, r))
    BY <1>11 DEF Reply
  <2>2. ASSUME NEW i \in 1..Len(toClient')
        PROVE  ReplySound(toClient'[i], trip, granted', taken', Denied', published')
    <3>1. CASE toClient' = toClient
      BY <1>6, <1>7, <2>2, <3>1 DEF RepliesSound
    <3>2. CASE toClient' = Append(toClient, r)
      <4>1. \/ i \in 1..Len(toClient) /\ toClient'[i] = toClient[i]
            \/ toClient'[i] = r
        BY <1>7, <2>2, <3>2, AppendElements
      <4> QED
        BY <1>6, <1>7, <1>11, <4>1 DEF RepliesSound
    <3> QED
      BY <2>1, <3>1, <3>2
  <2> QED
    BY <1>3, <2>1, <2>2 DEF RepliesSound, IdleQuiet
<1>12. RepliesSound' /\ (pc \in {"idle", "dial"} => toClient' = toClient)
  <2>1. ASSUME NEW type, GatewayReads(type)
        PROVE  m \in ClientMsg /\ m.type = type /\ RequestSound(m, trip, taken, published)
    BY <1>7, <2>1, QueueType DEF GatewayReads, RequestsSound
  <2>2. CASE GatewayAnswersResume
    <3>1. GatewayReads("resume")
      BY <2>2 DEF GatewayAnswersResume
    <3>2. /\ m \in [type : {"resume"}, session : Sessions, claims : Claims, frame : Frames]
          /\ m.frame = trip
      BY <2>1, <3>1 DEF ClientMsg, RequestSound
    <3>3. ASSUME NEW c \in Echoes(m.claims)
          PROVE  c \in Claims /\ ClaimsSound(c, taken', published')
      BY <1>6, <2>1, <3>1, <3>2, <3>3, EchoesSound DEF RequestSound
    <3>4. ASSUME NEW c \in Echoes(m.claims),
                 Reply([type |-> "accept", session |-> m.session, claims |-> c]),
                 granted' = granted \cup {m.session}
          PROVE  RepliesSound' /\ (pc \in {"idle", "dial"} => toClient' = toClient)
      <4> DEFINE r == [type |-> "accept", session |-> m.session, claims |-> c]
      <4>1. r \in GatewayMsg
            /\ ReplySound(r, trip, granted', taken', Denied', published')
        BY <3>2, <3>3, <3>4 DEF GatewayMsg, ReplySound
      <4> QED
        BY <1>11, <3>4, <4>1
    <3>5. CASE Reply([type |-> "reject", of |-> "resume"]) /\ barred' = barred \cup {m.frame}
      <4> DEFINE r == [type |-> "reject", of |-> "resume"]
      <4>1. r \in GatewayMsg
            /\ ReplySound(r, trip, granted', taken', Denied', published')
        BY <3>2, <3>5 DEF GatewayMsg, ReplySound, Denied
      <4> QED
        BY <1>11, <3>5, <4>1
    <3> QED
      BY <2>2, <3>4, <3>5 DEF GatewayAnswersResume
  <2>3. CASE GatewayAnswersHello
    <3>1. GatewayReads("hello")
      BY <2>3 DEF GatewayAnswersHello
    <3>2. m \in [type : {"hello"}, claims : Claims, frame : Frames] /\ m.frame = trip
      BY <2>1, <3>1 DEF ClientMsg, RequestSound
    <3>3. ASSUME NEW c \in Echoes(m.claims)
          PROVE  c \in Claims /\ ClaimsSound(c, taken', published')
      BY <1>6, <2>1, <3>1, <3>2, <3>3, EchoesSound DEF RequestSound
    <3>4. ASSUME NEW c \in Echoes(m.claims),
                 Reply([type |-> "accept", session |-> minted + 1, claims |-> c]),
                 minted + 1 \in Sessions,
                 granted' = granted \cup {minted + 1}
          PROVE  RepliesSound' /\ (pc \in {"idle", "dial"} => toClient' = toClient)
      <4> DEFINE r == [type |-> "accept", session |-> minted + 1, claims |-> c]
      <4>1. r \in GatewayMsg
            /\ ReplySound(r, trip, granted', taken', Denied', published')
        BY <3>2, <3>3, <3>4 DEF GatewayMsg, ReplySound
      <4> QED
        BY <1>11, <3>4, <4>1
    <3>5. CASE Reply([type |-> "reject", of |-> "hello"]) /\ barred' = barred \cup {m.frame}
      <4> DEFINE r == [type |-> "reject", of |-> "hello"]
      <4>1. r \in GatewayMsg
            /\ ReplySound(r, trip, granted', taken', Denied', published')
        BY <3>2, <3>5 DEF GatewayMsg, ReplySound, Denied
      <4> QED
        BY <1>11, <3>5, <4>1
    <3> QED
      BY <2>3, <3>4, <3>5 DEF GatewayAnswersHello
  <2>4. ASSUME trip \in refused'
        PROVE  /\ [type |-> "reject", of |-> "frame"] \in GatewayMsg
               /\ ReplySound([type |-> "reject", of |-> "frame"],
                             trip, granted', taken', Denied', published')
    BY <2>4 DEF GatewayMsg, ReplySound, Denied
  <2>5. CASE GatewayAnswersFrame
    <3>1. GatewayReads("frame")
      BY <2>5 DEF GatewayAnswersFrame
    <3>2. m \in [type : {"frame"}, session : Sessions, frame : Frames] /\ m.frame = trip
      BY <2>1, <3>1 DEF ClientMsg, RequestSound
    <3>3. CASE taken' = taken \cup {m.frame} /\ \E target, correlation \in {NoFrame, m.frame} :
                  Reply([type |-> "ack", frame |-> m.frame, target |-> target,
                         correlation |-> correlation])
      <4>1. PICK target \in {NoFrame, m.frame}, correlation \in {NoFrame, m.frame} :
              Reply([type |-> "ack", frame |-> m.frame, target |-> target,
                     correlation |-> correlation])
        BY <3>3
      <4> DEFINE r == [type |-> "ack", frame |-> m.frame, target |-> target,
                       correlation |-> correlation]
      <4>2. r \in GatewayMsg
            /\ ReplySound(r, trip, granted', taken', Denied', published')
        BY <3>2, <3>3 DEF GatewayMsg, ReplySound, AckNames
      <4> QED
        BY <1>11, <4>1, <4>2
    <3>4. CASE Reply([type |-> "reject", of |-> "frame"]) /\ refused' = refused \cup {m.frame}
      BY <1>11, <2>4, <3>2, <3>4
    <3> QED
      BY <2>5, <3>3, <3>4 DEF GatewayAnswersFrame
  <2>6. CASE GatewayRefusesTaken
    BY <1>11, <2>4, <2>6 DEF GatewayRefusesTaken
  <2>7. CASE GatewayPushes
    <3>1. PICK k \in Pushed : Reply([type |-> k])
      BY <2>7 DEF GatewayPushes
    <3>2. [type |-> k] \in GatewayMsg /\ ReplySound([type |-> k], trip, granted', taken', Denied', published')
      BY DEF GatewayMsg, PlainRecord, ReplySound
    <3> QED
      BY <1>11, <3>1, <3>2
  <2>8. CASE GatewayPushesProjection
    <3>1. PICK c \in Channels, r \in Revisions :
            /\ Reply([type |-> "projection", channel |-> c, rev |-> r])
            /\ published' = IF r > published[c] THEN [published EXCEPT ![c] = r]
                            ELSE published
      BY <1>1, <2>8, SendableType DEF GatewayPushesProjection
    <3>2. r <= published'[c]
      BY <1>4, <3>1 DEF Cursors, Revisions
    <3>3. /\ [type |-> "projection", channel |-> c, rev |-> r] \in GatewayMsg
          /\ ReplySound([type |-> "projection", channel |-> c, rev |-> r],
                        trip, granted', taken', Denied', published')
      BY <3>2 DEF GatewayMsg, ReplySound
    <3> QED
      BY <1>11, <3>1, <3>3
  <2>9. CASE GatewayCloses \/ GatewayRestarts
    <3>1. toClient' = toClient
      BY <2>9 DEF GatewayCloses, GatewayRestarts
    <3> QED
      BY <1>3, <1>6, <1>7, <3>1 DEF RepliesSound
  <2> QED
    BY <2>2, <2>3, <2>5, <2>6, <2>7, <2>8, <2>9 DEF Gateway
<1>13. IdleQuiet'
  BY <1>2, <1>3, <1>12 DEF IdleQuiet
<1> QED
  BY <1>8, <1>9, <1>10, <1>12, <1>13

LEMMA EdgeInvStep == EdgeInv /\ [Next]_vars => EdgeInv'
<1> SUFFICES ASSUME EdgeInv, [Next]_vars PROVE EdgeInv'
  OBVIOUS
<1>1. TypeInv'
  BY TypeStep, UnderwayStep DEF EdgeInv, TypeInv
<1>2. CASE (\E w \in Waits : Call(w)) \/ Dials
  BY <1>1, <1>2, ConnectSound DEF EdgeInv
<1>3. CASE Opens
  BY <1>1, <1>3, OpensSound DEF EdgeInv
<1>4. CASE Reads
  BY <1>1, <1>4, ReadsSound DEF EdgeInv
<1>5. CASE Gateway
  BY <1>1, <1>5, GatewaySound DEF EdgeInv
<1>6. CASE ReadNonText \/ DeadlinePasses \/ UNCHANGED vars
  <2>1. UNCHANGED <<sid, acked, revs, pc, trip, attached, ack, result, up, toGateway,
                    toClient, granted, taken, published>> /\ Denied' = Denied
    BY <1>6 DEF ReadNonText, DeadlinePasses, vars, state, call, report, socket, gateway, Denied
  <2>2. RepliesSound' /\ RequestsSound'
    BY <2>1 DEF EdgeInv, RepliesSound, RequestsSound
  <2>3. CursorWithinGateway'
    BY <2>1 DEF EdgeInv, CursorWithinGateway, Progress
  <2>4. AckSound' /\ IdleQuiet' /\ FrameUnderGrantedSession' /\ PublishMeansTaken'
    BY <2>1 DEF EdgeInv, AckSound, IdleQuiet, FrameUnderGrantedSession, PublishMeansTaken
  <2> QED
    BY <1>1, <2>2, <2>3, <2>4 DEF EdgeInv
<1> QED
  BY <1>2, <1>3, <1>4, <1>5, <1>6 DEF Next

LEMMA EdgeInvAlways == Spec => []EdgeInv
<1>1. ASSUME Init PROVE EdgeInv
  <2>1. TypeInv
    BY <1>1, InitType DEF TypeInv, Init, Underway
  <2>2. RepliesSound /\ RequestsSound
    BY <1>1 DEF Init, RepliesSound, RequestsSound
  <2>3. CursorWithinGateway
    BY <1>1 DEF Init, CursorWithinGateway, ClaimsSound, Progress
  <2>4. AckSound /\ IdleQuiet /\ FrameUnderGrantedSession /\ PublishMeansTaken
    BY <1>1 DEF Init, AckSound, IdleQuiet, FrameUnderGrantedSession, PublishMeansTaken
  <2> QED
    BY <2>1, <2>2, <2>3, <2>4 DEF EdgeInv
<1> QED
  BY <1>1, EdgeInvStep, PTL DEF Spec

\* Whatever the gateway pushes, drops or restarts and whatever the clock does, a
\* caller told of a publish or an ack sent a frame the gateway took in, and it
\* is the very frame of that call.
THEOREM PublishSound == Spec => []PublishMeansTaken
<1>1. EdgeInv => PublishMeansTaken
  BY DEF EdgeInv
<1> QED
  BY <1>1, EdgeInvAlways, PTL

\* No frame leaves under a session the gateway has not accepted on its socket,
\* even when a pushed record makes the CLI attach twice.
THEOREM SessionSound == Spec => []FrameUnderGrantedSession
<1>1. EdgeInv => FrameUnderGrantedSession
  BY DEF EdgeInv
<1> QED
  BY <1>1, EdgeInvAlways, PTL

\* The cursor sent with a resume never runs ahead of the gateway.
THEOREM CursorSound == Spec => []CursorWithinGateway
<1>1. EdgeInv => CursorWithinGateway
  BY DEF EdgeInv
<1> QED
  BY <1>1, EdgeInvAlways, PTL

-----------------------------------------------------------------------------
(* One call: when it has an ack, and when an answer *)

Answered ==
    /\ pc # "idle" => result = "none"
    /\ pc = "idle" /\ trip # 0 => result # "none"

AckAwaited == pc \notin {"idle", "await"} => ack = NoFrame

CallInv == Answered /\ AckAwaited /\ IntakeNotLost

\* What follows an outcome of the await loop: it reads on, or it returns an
\* answer, which names the ack if the call is a publish that has one.
LEMMA AfterOutcomeTells ==
    ASSUME NEW a, NEW ev, NEW dg, AfterOutcome(a, ev, dg)
    PROVE  /\ ack' = a /\ wait' = wait /\ trip' = trip
           /\ \/ pc' = pc /\ result' = result
              \/ /\ pc' = "idle" /\ result' \in {"publish", "ack", "error"}
                 /\ wait = "publish" /\ a # NoFrame => result' = "publish"
BY DEF AfterOutcome, Converged, Return

LEMMA ReadErrorTells ==
    ASSUME ReadError
    PROVE  /\ ack' = ack /\ wait' = wait /\ trip' = trip
           /\ pc' = "idle" /\ result' \in {"publish", "error"}
           /\ pc = "await" /\ wait = "publish" /\ ack # NoFrame => result' = "publish"
BY DEF ReadError, Fail, Return

\* How a read step ends a call or goes on with it.
LEMMA ReadsTell ==
    ASSUME Reads
    PROVE  /\ wait' = wait /\ trip' = trip
           /\ \/ /\ pc' # "idle" /\ result' = result
                 /\ ack' = ack \/ pc' = "await"
                 /\ pc = "await" <=> pc' = "await"
              \/ /\ pc' = "idle" /\ result' \in Results \ {"none"}
                 /\ pc = "await" \/ ack' = ack
                 /\ pc = "await" /\ wait = "publish" /\ ack' # NoFrame
                    => result' \in {"publish", "rejected"}
<1>1. CASE StartRead \/ HelloIgnores
  BY <1>1 DEF StartRead, HelloIgnores, Reading, Got, report
<1>2. CASE ReadTooLate \/ ReadBroken \/ ReadBad
  <2>1. pc # "idle" /\ ReadError
    BY <1>2 DEF ReadTooLate, ReadBroken, ReadBad, Reading
  <2> QED
    BY <2>1, ReadErrorTells DEF Results
<1>3. CASE HelloRejected \/ AwaitReject
  BY <1>3 DEF HelloRejected, AwaitReject, Fail, Return, Got, Results
<1>4. CASE Accepted \/ ResumeRejected \/ ResumeUnanswered
  BY <1>4 DEF Accepted, ResumeRejected, ResumeUnanswered, Enter, Got, report
<1>5. CASE AwaitAck \/ AwaitRecord \/ AwaitSealed \/ AwaitIgnored
  <2>1. pc = "await" /\ \E a, ev, dg : AfterOutcome(a, ev, dg)
    BY <1>5 DEF AwaitAck, AwaitRecord, AwaitSealed, AwaitIgnored, Got
  <2> QED
    BY <2>1, AfterOutcomeTells DEF Results
<1>6. CASE AwaitProjection \/ AwaitDirectory
  <2>1. pc = "await"
    BY <1>6 DEF AwaitProjection, AwaitDirectory, Got
  <2>2. CASE \E a, ev, dg : AfterOutcome(a, ev, dg)
    BY <2>1, <2>2, AfterOutcomeTells DEF Results
  <2>3. CASE wait # "publish" /\ (Return("projection") \/ Return("directory"))
    BY <2>1, <2>3 DEF Return, Results
  <2> QED
    BY <1>6, <2>2, <2>3 DEF AwaitProjection, AwaitDirectory
<1> QED
  BY <1>1, <1>2, <1>3, <1>4, <1>5, <1>6 DEF Reads, ReadsOn

LEMMA CallInvStep == EdgeInv /\ CallInv /\ [Next]_vars => CallInv'
<1> SUFFICES ASSUME EdgeInv, CallInv, [Next]_vars PROVE CallInv'
  OBVIOUS
<1> USE DEF CallInv, Answered, AckAwaited, IntakeNotLost
<1>1. trip \in 0..MaxTrips /\ MaxTrips \in Nat
  BY DEF EdgeInv, TypeInv, TypeOK, CallOK
<1>2. ASSUME NEW w \in Waits, Call(w) PROVE CallInv'
  BY <1>1, <1>2 DEF Call
<1>6. CASE Dials
  BY <1>1, <1>6 DEF Dials, Connect, ConnectFails, Fail, Return, report
<1>3. CASE Opens
  BY <1>3 DEF Opens, SendResume, SendHello, SendFrame, SendFails, Fail, Return, Enter, report,
              Sending
<1>4. CASE Reads
  <2>1. pc # "idle"
    BY <1>4, ReadsShape
  <2>2. result = "none"
    BY <2>1
  <2> QED
    BY <1>4, <2>1, <2>2, ReadsTell
<1>5. CASE Gateway \/ ReadNonText \/ DeadlinePasses \/ UNCHANGED vars
  <2>1. UNCHANGED <<pc, wait, trip, ack, result>>
    BY <1>5 DEF Gateway, GatewayAnswersResume, GatewayAnswersHello, GatewayAnswersFrame,
        GatewayReads, GatewayRefusesTaken, GatewayPushes, GatewayPushesProjection,
        GatewayMayPush, GatewayCloses, GatewayRestarts, ReadNonText, DeadlinePasses,
        vars, call, report
  <2> QED
    BY <2>1
<1> QED
  BY <1>2, <1>3, <1>4, <1>5, <1>6 DEF Next

LEMMA CallInvAlways == Spec => []CallInv
<1>1. Init => CallInv
  BY DEF Init, CallInv, Answered, AckAwaited, IntakeNotLost
<1> QED
  BY <1>1, CallInvStep, EdgeInvAlways, PTL DEF Spec

\* Once a publish has its intake ack, no close, timeout or malformed record makes
\* the call return an error.
THEOREM IntakeKept == Spec => []IntakeNotLost
<1>1. CallInv => IntakeNotLost
  BY DEF CallInv
<1> QED
  BY <1>1, CallInvAlways, PTL

-----------------------------------------------------------------------------
(* A gateway that answers an attach before it says anything else *)

In(q) == {q[i] : i \in 1..Len(q)}

LEMMA InTail ==
    ASSUME NEW M, NEW q \in Seq(M), q # <<>>
    PROVE  In(Tail(q)) \subseteq In(q) /\ Head(q) \in In(q) /\ In(q) \subseteq M
BY DEF In

Extends(longer, q, m) == longer = Append(q, m)

LEMMA InAppend ==
    ASSUME NEW M, NEW q \in Seq(M), NEW m \in M, NEW longer, Extends(longer, q, m)
    PROVE  In(longer) = In(q) \cup {m}
<1>1. longer = Append(q, m)
  BY DEF Extends
<1>2. ASSUME NEW i \in 1..Len(longer) PROVE longer[i] \in In(q) \cup {m}
  BY <1>1, <1>2, AppendElements DEF In
<1>3. ASSUME NEW i \in 1..Len(q) PROVE q[i] \in In(longer)
  BY <1>1, <1>3 DEF In
<1>4. m \in In(longer)
  <2>1. Len(q) + 1 \in 1..Len(longer) /\ longer[Len(q) + 1] = m
    BY <1>1
  <2> QED
    BY <2>1 DEF In
<1> QED
  BY <1>2, <1>3, <1>4 DEF In

LEMMA InEmpty == In(<<>>) = {}
BY DEF In

LEMMA AppendToEmpty ==
    ASSUME NEW M, NEW m \in M, NEW longer, longer = Append(<<>>, m)
    PROVE  /\ longer # <<>> /\ Tail(longer) = <<>>
           /\ Head(longer) = m /\ In(longer) = {m}
<1>1. longer = <<m>>
  OBVIOUS
<1>2. Len(longer) = 1 /\ longer[1] = m
  BY <1>1
<1> QED
  BY <1>1, <1>2 DEF In

LEMMA AppendToMore ==
    ASSUME NEW M, NEW q \in Seq(M), q # <<>>, NEW m \in M, NEW longer, longer = Append(q, m)
    PROVE  /\ longer # <<>> /\ Head(longer) = Head(q)
           /\ In(Tail(longer)) = In(Tail(q)) \cup {m}
<1>1. Tail(longer) = Append(Tail(q), m) /\ Tail(q) \in Seq(M)
  OBVIOUS
<1>2. PICK t \in Seq(M) : t = Tail(q)
  BY <1>1
<1>3. PICK u : u = Tail(longer)
  OBVIOUS
<1>4. Extends(u, t, m)
  BY <1>1, <1>2, <1>3 DEF Extends
<1>5. In(u) = In(t) \cup {m}
  BY <1>4, InAppend
<1>6. longer # <<>> /\ Head(longer) = Head(q)
  OBVIOUS
<1> QED
  BY <1>2, <1>3, <1>5, <1>6

\* Requests in a call's own socket can still be answered there.
Wired == pc # "idle" /\ toGateway # <<>> => up

Silent == toGateway = <<>> /\ toClient = <<>> /\ granted = {}

\* One request is open, or its answer is the first thing to read.
OneAnswer ==
    /\ \A m \in In(toGateway) : m.type = pc
    /\ toGateway # <<>> => Tail(toGateway) = <<>> /\ toClient = <<>> /\ granted = {}
    /\ granted = {} /\ toClient # <<>> =>
          Head(toClient) = [type |-> "reject", of |-> pc] /\ Tail(toClient) = <<>>
    /\ granted # {} => /\ toClient # <<>> /\ Head(toClient).type = "accept"
                       /\ \A m \in In(Tail(toClient)) : m.type \notin {"accept", "reject"}

\* The attach is over: it is neither asked nor answered again.
FrameOnly ==
    /\ \A m \in In(toGateway) : m.type = "frame"
    /\ \A m \in In(toClient) : m.type # "accept"

Orderly ==
    /\ Wired
    /\ pc \in {"dial", "attach", "greet"} => Silent
    /\ pc \in {"resume", "hello"} => OneAnswer
    /\ pc \in {"attached", "await"} => FrameOnly

LEMMA OrderlyOpens ==
    ASSUME EdgeInv, Orderly, Opens
    PROVE  Orderly'
<1> USE DEF Orderly
<1>1. TypeOK /\ toGateway \in Seq(ClientMsg) /\ Underway
  BY DEF EdgeInv, TypeInv, TypeOK, SocketOK
<1>2. UNCHANGED granted
  BY DEF Opens, SendResume, SendHello, SendFrame, SendFails, gateway
<1>3. CASE SendFails
  BY <1>3 DEF SendFails, Fail, Return, Wired
<1>4. CASE SendResume
  <2> DEFINE r == [type |-> "resume", session |-> sid, claims |-> Progress, frame |-> trip]
  <2>1. r \in ClientMsg
    BY <1>1, <1>4, ProgressType DEF SendResume, ClientMsg, TypeOK, StateOK, Underway
  <2>2. Silent
    BY <1>4 DEF SendResume
  <2>3. toGateway' = Append(<<>>, r) /\ up' = TRUE /\ toClient' = <<>> /\ pc' = "resume"
    BY <1>4, <2>2 DEF SendResume, Send, Enter, Silent
  <2>4. In(toGateway') = {r} /\ Tail(toGateway') = <<>>
    BY <2>1, <2>3, AppendToEmpty
  <2> QED
    BY <1>2, <2>2, <2>3, <2>4 DEF Wired, OneAnswer, Silent
<1>5. CASE SendHello
  <2> DEFINE r == [type |-> "hello", claims |-> Progress, frame |-> trip]
  <2>1. r \in ClientMsg
    BY <1>1, <1>5, ProgressType DEF SendHello, ClientMsg, TypeOK, Underway
  <2>2. Silent
    BY <1>5 DEF SendHello
  <2>3. toGateway' = Append(<<>>, r) /\ up' = TRUE /\ toClient' = <<>> /\ pc' = "hello"
    BY <1>5, <2>2 DEF SendHello, Send, Enter, Silent
  <2>4. In(toGateway') = {r} /\ Tail(toGateway') = <<>>
    BY <2>1, <2>3, AppendToEmpty
  <2> QED
    BY <1>2, <2>2, <2>3, <2>4 DEF Wired, OneAnswer, Silent
<1>6. CASE SendFrame
  <2> DEFINE r == [type |-> "frame", session |-> attached, frame |-> trip]
  <2>1. r \in ClientMsg
    BY <1>1, <1>6 DEF SendFrame, ClientMsg, Underway
  <2>2. toGateway' = Append(toGateway, r) /\ up' = TRUE /\ toClient' = toClient /\ pc' = "await"
    BY <1>6 DEF SendFrame, Send, Enter
  <2>3. In(toGateway') = In(toGateway) \cup {r}
    <3>1. Extends(toGateway', toGateway, r)
      BY <2>2 DEF Extends
    <3> QED
      BY <1>1, <2>1, <3>1, InAppend
  <2>4. FrameOnly
    BY <1>6 DEF SendFrame
  <2> QED
    BY <1>2, <2>2, <2>3, <2>4 DEF Wired, FrameOnly
<1> QED
  BY <1>3, <1>4, <1>5, <1>6 DEF Opens

\* Only an answer to the attach is read while one is awaited, and it is the only
\* one there is.
LEMMA OrderlyAttach ==
    ASSUME EdgeInv, Orderly, pc \in {"resume", "hello"}, toClient # <<>>
    PROVE  /\ toGateway = <<>>
           /\ \/ Head(toClient).type = "accept"
              \/ Head(toClient) = [type |-> "reject", of |-> pc] /\ Tail(toClient) = <<>>
                    /\ granted = {}
BY DEF Orderly, OneAnswer

LEMMA OrderlyReads ==
    ASSUME EdgeInv, Orderly, Reads
    PROVE  Orderly'
<1> USE DEF Orderly
<1>1. UNCHANGED <<granted, toGateway>> /\ pc # "idle"
  BY ReadsShape DEF gateway
<1>2. toClient \in Seq(GatewayMsg)
  BY DEF EdgeInv, TypeInv, TypeOK, SocketOK
<1>3. CASE pc' = "idle"
  BY <1>3 DEF Wired
<1>4. CASE Accepted
  <2>1. pc \in {"resume", "hello"} /\ toClient # <<>> /\ Head(toClient).type = "accept"
    BY <1>4 DEF Accepted, Got
  <2>2. toGateway = <<>> /\ granted # {}
    BY <2>1, OrderlyAttach DEF OneAnswer
  <2>3. pc' = "attached" /\ toClient' = Tail(toClient)
    BY <1>4 DEF Accepted, Enter, Consume
  <2> QED
    BY <1>1, <2>1, <2>2, <2>3, InEmpty DEF OneAnswer, FrameOnly, Wired
<1>5. CASE ResumeRejected
  <2>1. pc = "resume" /\ toClient # <<>> /\ Head(toClient).type = "reject"
    BY <1>5 DEF ResumeRejected, Got
  <2>2. toGateway = <<>> /\ Tail(toClient) = <<>> /\ granted = {}
    BY <2>1, OrderlyAttach
  <2>3. pc' = "greet" /\ toClient' = Tail(toClient)
    BY <1>5 DEF ResumeRejected, Enter, Consume
  <2> QED
    BY <1>1, <2>2, <2>3 DEF Wired, Silent
<1>6. CASE ResumeUnanswered \/ HelloIgnores
  <2>1. pc \in {"resume", "hello"} /\ toClient # <<>>
        /\ Head(toClient).type \in {"ack", "projection"} \cup (PlainRecord \ {"bad"})
    BY <1>6 DEF ResumeUnanswered, HelloIgnores, Got
  <2> QED
    BY <2>1, OrderlyAttach DEF PlainRecord
<1>7. CASE StartRead
  <2>1. UNCHANGED <<pc, up, toClient>>
    BY <1>7 DEF StartRead, socket
  <2> QED
    BY <1>1, <2>1 DEF Wired, Silent, OneAnswer, FrameOnly
<1>8. CASE pc = "await" /\ pc' = "await" /\ toClient # <<>> /\ toClient' = Tail(toClient) /\ up' = up
  <2>1. In(toClient') \subseteq In(toClient)
    BY <1>2, <1>8, InTail
  <2> QED
    BY <1>1, <1>8, <2>1 DEF FrameOnly, Wired
<1>9. ASSUME NEW a, NEW ev, NEW dg, AfterOutcome(a, ev, dg), pc' # "idle"
      PROVE  pc' = pc /\ toClient' = Tail(toClient) /\ up' = up
  BY <1>9 DEF AfterOutcome, Return, Consume
<1>10. CASE pc' # "idle" /\ (AwaitAck \/ AwaitProjection \/ AwaitDirectory \/ AwaitRecord
                               \/ AwaitSealed \/ AwaitIgnored)
  <2>1. pc = "await" /\ toClient # <<>>
    BY <1>10 DEF AwaitAck, AwaitProjection, AwaitDirectory, AwaitRecord, AwaitSealed,
        AwaitIgnored, Got
  <2>2. \E a, ev, dg : AfterOutcome(a, ev, dg)
    BY <1>10 DEF AwaitAck, AwaitProjection, AwaitDirectory, AwaitRecord, AwaitSealed,
        AwaitIgnored, Return
  <2> QED
    BY <1>8, <1>9, <1>10, <2>1, <2>2
<1>11. ReadTooLate \/ ReadBroken \/ ReadBad \/ HelloRejected \/ AwaitReject => pc' = "idle"
  BY ReadErrorTells DEF ReadTooLate, ReadBroken, ReadBad, HelloRejected, AwaitReject, Fail, Return
<1> QED
  BY <1>3, <1>4, <1>5, <1>6, <1>7, <1>10, <1>11 DEF Reads, ReadsOn

LEMMA OrderlyGateway ==
    ASSUME ~EarlyPush, EdgeInv, Orderly, Gateway
    PROVE  Orderly'
<1> USE DEF Orderly
<1>1. toClient \in Seq(GatewayMsg) /\ toGateway \in Seq(ClientMsg)
  BY DEF EdgeInv, TypeInv, TypeOK, SocketOK
<1>2. UNCHANGED pc
  BY DEF Gateway, GatewayAnswersResume, GatewayAnswersHello, GatewayAnswersFrame,
      GatewayReads, GatewayRefusesTaken, GatewayPushes, GatewayPushesProjection,
      GatewayMayPush, GatewayCloses, GatewayRestarts, gateway, call
<1>3. CASE pc = "idle"
  BY <1>2, <1>3 DEF Wired
<1>4. CASE GatewayCloses \/ GatewayRestarts
  <2>1. toGateway' = <<>> /\ UNCHANGED <<toClient, granted>>
    BY <1>4 DEF GatewayCloses, GatewayRestarts, gateway
  <2> QED
    BY <1>2, <2>1, InEmpty DEF Wired, Silent, OneAnswer, FrameOnly
\* A request is taken off the queue.
<1>5. ASSUME NEW type, GatewayReads(type), pc # "idle"
      PROVE  /\ up' = up /\ up /\ toGateway # <<>> /\ toGateway' = Tail(toGateway)
             /\ In(toGateway') \subseteq In(toGateway)
             /\ Head(toGateway) \in ClientMsg /\ Head(toGateway).type = type
             /\ type # "frame" => pc = type /\ toClient = <<>> /\ toGateway' = <<>> /\ granted = {}
             /\ type = "frame" => pc \in {"attached", "await"}
  <2>1. toGateway # <<>> /\ toGateway' = Tail(toGateway) /\ Head(toGateway).type = type /\ up' = up
    BY <1>5 DEF GatewayReads
  <2>2. In(toGateway') \subseteq In(toGateway) /\ Head(toGateway) \in In(toGateway)
        /\ Head(toGateway) \in ClientMsg
    BY <1>1, <2>1, InTail
  <2>3. up /\ pc \notin {"dial", "attach", "greet"}
    BY <1>5, <2>1 DEF Wired, Silent
  <2>4. pc \in Steps /\ type \in {"resume", "hello", "frame"}
    BY <2>1, <2>2 DEF EdgeInv, TypeInv, TypeOK, CallOK, ClientMsg
  <2> QED
    BY <1>5, <2>1, <2>2, <2>3, <2>4 DEF OneAnswer, FrameOnly, Steps
\* The answer to the attach is the first thing on the socket.
<1>6. ASSUME NEW r \in GatewayMsg, NEW gr, Reply(r), granted' = gr, pc \in {"resume", "hello"},
             up, up' = up, toClient = <<>>, toGateway' = <<>>,
             \/ r.type = "accept" /\ gr # {}
             \/ r = [type |-> "reject", of |-> pc] /\ gr = {}
      PROVE  Orderly'
  <2>1. toClient' = Append(<<>>, r)
    BY <1>6 DEF Reply
  <2>2. toClient' # <<>> /\ Head(toClient') = r /\ Tail(toClient') = <<>>
    BY <1>6, <2>1, AppendToEmpty
  <2> QED
    BY <1>2, <1>6, <2>2, InEmpty DEF Wired, OneAnswer
<1>7. CASE GatewayAnswersResume /\ pc # "idle"
  <2> DEFINE m == Head(toGateway)
  <2>1. GatewayReads("resume")
    BY <1>7 DEF GatewayAnswersResume
  <2>2. up' = up /\ up /\ pc = "resume" /\ toClient = <<>> /\ toGateway' = <<>> /\ granted = {}
    BY <1>5, <1>7, <2>1
  <2>3. m.session \in Sessions /\ m.claims \in Claims
    BY <1>5, <1>7, <2>1 DEF ClientMsg
  <2>4. ASSUME NEW c \in Echoes(m.claims), granted' = granted \cup {m.session},
               Reply([type |-> "accept", session |-> m.session, claims |-> c])
        PROVE  Orderly'
    <3>1. [type |-> "accept", session |-> m.session, claims |-> c] \in GatewayMsg
      BY <2>3, <2>4, EchoesType DEF GatewayMsg
    <3> QED
      BY <1>6, <2>2, <2>4, <3>1
  <2>5. CASE Reply([type |-> "reject", of |-> "resume"]) /\ granted' = granted
    <3>1. [type |-> "reject", of |-> "resume"] \in GatewayMsg
      BY DEF GatewayMsg
    <3> QED
      BY <1>6, <2>2, <2>5, <3>1
  <2> QED
    BY <1>7, <2>4, <2>5 DEF GatewayAnswersResume
<1>8. CASE GatewayAnswersHello /\ pc # "idle"
  <2> DEFINE m == Head(toGateway)
  <2>1. GatewayReads("hello")
    BY <1>8 DEF GatewayAnswersHello
  <2>2. up' = up /\ up /\ pc = "hello" /\ toClient = <<>> /\ toGateway' = <<>> /\ granted = {}
    BY <1>5, <1>8, <2>1
  <2>3. m.claims \in Claims
    BY <1>5, <1>8, <2>1 DEF ClientMsg
  <2>4. ASSUME NEW c \in Echoes(m.claims), minted + 1 \in Sessions,
               granted' = granted \cup {minted + 1},
               Reply([type |-> "accept", session |-> minted + 1, claims |-> c])
        PROVE  Orderly'
    <3>1. [type |-> "accept", session |-> minted + 1, claims |-> c] \in GatewayMsg
      BY <2>3, <2>4, EchoesType DEF GatewayMsg
    <3> QED
      BY <1>6, <2>2, <2>4, <3>1
  <2>5. CASE Reply([type |-> "reject", of |-> "hello"]) /\ granted' = granted
    <3>1. [type |-> "reject", of |-> "hello"] \in GatewayMsg
      BY DEF GatewayMsg
    <3> QED
      BY <1>6, <2>2, <2>5, <3>1
  <2> QED
    BY <1>8, <2>4, <2>5 DEF GatewayAnswersHello
\* Once the attach is over nothing is accepted.
<1>9. ASSUME NEW r \in GatewayMsg, Reply(r), pc \in {"attached", "await"}, up' = up,
             In(toGateway') \subseteq In(toGateway), toGateway' # <<>> => up,
             r.type # "accept"
      PROVE  Orderly'
  <2>1. In(toClient') \subseteq In(toClient) \cup {r}
    <3>1. toClient' = toClient \/ Extends(toClient', toClient, r)
      BY <1>9 DEF Reply, Extends
    <3> QED
      BY <1>1, <3>1, InAppend
  <2> QED
    BY <1>2, <1>9, <2>1 DEF Wired, FrameOnly
<1>10. CASE GatewayAnswersFrame /\ pc # "idle"
  <2> DEFINE m == Head(toGateway)
  <2>1. GatewayReads("frame")
    BY <1>10 DEF GatewayAnswersFrame
  <2>2. up' = up /\ up /\ pc \in {"attached", "await"} /\ In(toGateway') \subseteq In(toGateway)
    BY <1>5, <1>10, <2>1
  <2>3. m.frame \in Frames
    BY <1>5, <1>10, <2>1 DEF ClientMsg
  <2>4. ASSUME NEW target \in {NoFrame, m.frame}, NEW correlation \in {NoFrame, m.frame},
               Reply([type |-> "ack", frame |-> m.frame, target |-> target,
                      correlation |-> correlation])
        PROVE  Orderly'
    <3>1. [type |-> "ack", frame |-> m.frame, target |-> target,
           correlation |-> correlation] \in GatewayMsg
      BY <2>3, <2>4 DEF GatewayMsg
    <3> QED
      BY <1>9, <2>2, <2>4, <3>1
  <2>5. CASE Reply([type |-> "reject", of |-> "frame"])
    <3>1. [type |-> "reject", of |-> "frame"] \in GatewayMsg
      BY DEF GatewayMsg
    <3> QED
      BY <1>9, <2>2, <2>5, <3>1
  <2> QED
    BY <1>10, <2>4, <2>5 DEF GatewayAnswersFrame
<1>11. CASE GatewayRefusesTaken
  <2>1. /\ pc = "await" /\ up' = up /\ up /\ toGateway' = toGateway
        /\ Reply([type |-> "reject", of |-> "frame"])
    BY <1>11 DEF GatewayRefusesTaken
  <2>2. [type |-> "reject", of |-> "frame"] \in GatewayMsg
    BY DEF GatewayMsg
  <2> QED
    BY <1>9, <2>1, <2>2
\* What is pushed comes after the answer to the attach.
<1>12. ASSUME NEW r \in GatewayMsg, Reply(r), GatewayMayPush, r.type \notin {"accept", "reject"},
              pc # "idle"
       PROVE  Orderly'
  <2>1. up /\ up' = up /\ granted # {} /\ UNCHANGED <<toGateway, granted>>
    BY <1>12 DEF GatewayMayPush
  <2>2. CASE pc \in {"attached", "await"}
    BY <1>9, <1>12, <2>1, <2>2
  <2>3. CASE pc \in {"resume", "hello"}
    <3>1. toClient # <<>> /\ Head(toClient).type = "accept"
          /\ \A m \in In(Tail(toClient)) : m.type \notin {"accept", "reject"}
      BY <2>1, <2>3 DEF OneAnswer
    <3>2. toClient' = Append(toClient, r)
      BY <1>12, <2>1 DEF Reply
    <3>3. /\ toClient' # <<>> /\ Head(toClient') = Head(toClient)
          /\ In(Tail(toClient')) = In(Tail(toClient)) \cup {r}
      BY <1>1, <3>1, <3>2, AppendToMore
    <3> QED
      BY <1>2, <1>12, <2>1, <2>3, <3>1, <3>3 DEF Wired, OneAnswer
  <2>4. pc \in Steps /\ pc \notin {"dial", "attach", "greet"}
    BY <2>1 DEF EdgeInv, TypeInv, TypeOK, CallOK, Silent
  <2> QED
    BY <1>12, <2>2, <2>3, <2>4 DEF Steps
<1>13. CASE GatewayPushes /\ pc # "idle"
  <2>1. PICK k \in Pushed : Reply([type |-> k])
    BY <1>13 DEF GatewayPushes
  <2>2. [type |-> k] \in GatewayMsg /\ k \notin {"accept", "reject"}
    BY DEF GatewayMsg, PlainRecord
  <2> QED
    BY <1>12, <1>13, <2>1, <2>2 DEF GatewayPushes
<1>14. CASE GatewayPushesProjection /\ pc # "idle"
  <2>1. PICK c \in Channels, r \in Revisions :
          Reply([type |-> "projection", channel |-> c, rev |-> r])
    <3>1. TypeOK
      BY DEF EdgeInv, TypeInv
    <3> QED
      BY <1>14, <3>1, SendableType DEF GatewayPushesProjection
  <2>2. [type |-> "projection", channel |-> c, rev |-> r] \in GatewayMsg
    BY DEF GatewayMsg
  <2> QED
    BY <1>12, <1>14, <2>1, <2>2 DEF GatewayPushesProjection
<1> QED
  BY <1>3, <1>4, <1>7, <1>8, <1>10, <1>11, <1>13, <1>14 DEF Gateway

LEMMA OrderlyStep ==
    ASSUME ~EarlyPush, EdgeInv, Orderly, [Next]_vars
    PROVE  Orderly'
<1>1. ASSUME NEW w \in Waits, Call(w) PROVE Orderly'
  BY <1>1 DEF Call, Orderly, Wired, Silent, EdgeInv, IdleQuiet
<1>2. CASE Dials
  BY <1>2 DEF Dials, Connect, ConnectFails, Fail, Return, gateway, Orderly, Wired, Silent
<1>3. CASE ReadNonText \/ DeadlinePasses \/ UNCHANGED vars
  <2>1. UNCHANGED <<pc, up, toGateway, toClient, granted>>
    BY <1>3 DEF ReadNonText, DeadlinePasses, vars, call, socket, gateway
  <2> QED
    BY <2>1 DEF Orderly, Wired, Silent, OneAnswer, FrameOnly
<1> QED
  BY <1>1, <1>2, <1>3, OrderlyOpens, OrderlyReads, OrderlyGateway DEF Next

LEMMA OrderlyAlways == ASSUME ~EarlyPush PROVE Spec => []Orderly
<1>1. Init => Orderly
  BY DEF Init, Orderly, Wired
<1>2. EdgeInv /\ Orderly /\ [Next]_vars => Orderly'
  BY OrderlyStep
<1> QED
  BY <1>1, <1>2, EdgeInvAlways, PTL DEF Spec

-----------------------------------------------------------------------------
(* Calls implement FrameFate *)

LEMMA FateCall ==
    ASSUME CallInv, NEW w \in Waits, Call(w)
    PROVE  Fate!Submit
<1>1. pc = "idle" /\ trip < MaxTrips /\ trip' = trip + 1 /\ result' = "none"
      /\ taken' = taken /\ Denied' = Denied
  BY DEF Call, Denied
<1>2. trip = 0 \/ result # "none"
  BY <1>1 DEF CallInv, Answered
<1> QED
  BY <1>1, <1>2 DEF Fate!Submit

\* A call that cannot go on tells an error.
LEMMA FateFails ==
    ASSUME EdgeInv, CallInv, ConnectFails \/ SendFails
    PROVE  Fate!Tells
<1>1. trip # 0 /\ result = "none"
  BY DEF ConnectFails, SendFails, Sending, EdgeInv, TypeInv, Underway, Frames, CallInv, Answered
<1>2. result' = "error" /\ UNCHANGED <<trip, taken>> /\ Denied' = Denied
  BY DEF ConnectFails, SendFails, Fail, Return, gateway, Denied
<1>3. Fate!Tell("error")
  BY <1>1, <1>2 DEF Fate!Tell
<1> QED
  BY <1>3 DEF Fate!Tells, Fate!Answers

\* A step that ends the call tells its answer: a claim of a publish or an ack is
\* true by PublishMeansTaken, one of a reject because every reject on the socket
\* is about this call.
LEMMA FateReads ==
    ASSUME EdgeInv, EdgeInv', CallInv, Reads
    PROVE  Fate!Tells \/ (UNCHANGED <<trip, taken, result>> /\ Denied' = Denied)
<1>1. UNCHANGED <<trip, taken>> /\ Denied' = Denied /\ pc # "idle"
  BY ReadsShape DEF gateway, Denied
<1>2. CASE pc' # "idle"
  BY <1>1, <1>2, ReadsTell
<1>3. CASE pc' = "idle"
  <2>1. result' \in Fate!Answers
    BY <1>3, ReadsTell DEF Results, Fate!Answers
  <2>2. trip # 0 /\ result = "none"
    BY <1>1 DEF EdgeInv, TypeInv, Underway, Frames, CallInv, Answered
  <2>3. result' \in {"publish", "ack"} => trip \in taken
    BY <1>1 DEF EdgeInv, PublishMeansTaken
  <2>4. result' = "rejected" => trip \in Denied
    <3>1. CASE AwaitReject \/ HelloRejected
      <4>1. toClient # <<>> /\ Head(toClient).type = "reject"
        BY <3>1 DEF AwaitReject, HelloRejected, Got
      <4>2. toClient \in Seq(GatewayMsg)
        BY DEF EdgeInv, TypeInv, TypeOK, SocketOK
      <4>3. 1 \in 1..Len(toClient) /\ Head(toClient) = toClient[1]
        BY <4>1, <4>2
      <4> QED
        BY <4>1, <4>3 DEF EdgeInv, RepliesSound, ReplySound
    <3>2. CASE ~AwaitReject /\ ~HelloRejected
      <4>1. ASSUME NEW a, NEW ev, NEW dg, AfterOutcome(a, ev, dg) PROVE result' # "rejected"
        BY <2>2, <4>1, AfterOutcomeTells
      <4>2. ReadError => result' # "rejected"
        BY ReadErrorTells
      <4> QED
        BY <1>3, <2>2, <3>2, <4>1, <4>2 DEF Reads, ReadsOn, StartRead, ReadTooLate, ReadBroken, ReadBad,
            Accepted, ResumeRejected, ResumeUnanswered, HelloIgnores, AwaitAck,
            AwaitProjection, AwaitDirectory, AwaitRecord, AwaitSealed, AwaitIgnored, Fail, Return,
            report
    <3> QED
      BY <3>1, <3>2
  <2>5. Fate!Tell(result')
    BY <1>1, <2>2, <2>3, <2>4 DEF Fate!Tell
  <2> QED
    BY <2>1, <2>5 DEF Fate!Tells
<1> QED
  BY <1>2, <1>3

\* The gateway decides about the attach and the frame of this call only.
LEMMA FateGateway ==
    ASSUME EdgeInv, Gateway
    PROVE  \/ \E f \in Fate!Frames : Fate!Take(f) \/ Fate!Refuse(f)
           \/ UNCHANGED <<trip, taken, result>> /\ Denied' = Denied
<1>1. UNCHANGED <<trip, result>>
  BY DEF Gateway, GatewayAnswersResume, GatewayAnswersHello, GatewayAnswersFrame,
      GatewayReads, GatewayRefusesTaken, GatewayPushes, GatewayPushesProjection,
      GatewayMayPush, GatewayCloses, GatewayRestarts, gateway, call, report
<1>2. CASE GatewayAnswersResume \/ GatewayAnswersHello \/ GatewayAnswersFrame
  <2> DEFINE m == Head(toGateway)
  <2>1. toGateway # <<>> /\ toGateway \in Seq(ClientMsg)
    BY <1>2 DEF GatewayAnswersResume, GatewayAnswersHello, GatewayAnswersFrame, GatewayReads,
        EdgeInv, TypeInv, TypeOK, SocketOK
  <2>2. m \in ClientMsg
    BY <2>1, QueueType
  <2>3. m.frame \in Fate!Frames
    BY <2>2 DEF ClientMsg, Frames, Fate!Frames
  <2>4. CASE GatewayAnswersResume \/ GatewayAnswersHello
    <3>1. UNCHANGED <<taken, refused>> /\ (barred' = barred \/ barred' = barred \cup {m.frame})
      BY <2>4 DEF GatewayAnswersResume, GatewayAnswersHello
    <3>2. (taken' = taken /\ Denied' = Denied) \/ Fate!Refuse(m.frame)
      BY <1>1, <2>3, <3>1 DEF Fate!Refuse, Denied
    <3> QED
      BY <1>1, <2>3, <3>2
  <2>5. CASE GatewayAnswersFrame
    <3>1. Fate!Take(m.frame) \/ Fate!Refuse(m.frame)
      BY <1>1, <2>3, <2>5 DEF GatewayAnswersFrame, Fate!Take, Fate!Refuse, Denied
    <3> QED
      BY <2>3, <3>1
  <2> QED
    BY <1>2, <2>4, <2>5
<1>3. CASE GatewayRefusesTaken
  <2>1. trip \in Fate!Frames
    BY <1>3 DEF GatewayRefusesTaken, EdgeInv, TypeInv, TypeOK, GatewayOK, Frames, Fate!Frames
  <2>2. Fate!Refuse(trip)
    BY <1>1, <1>3, <2>1 DEF GatewayRefusesTaken, Fate!Refuse, Denied
  <2> QED
    BY <2>1, <2>2
<1>4. CASE GatewayPushes \/ GatewayPushesProjection \/ GatewayCloses \/ GatewayRestarts
  BY <1>1, <1>4 DEF GatewayPushes, GatewayPushesProjection, GatewayMayPush, GatewayCloses,
      GatewayRestarts, gateway, Denied
<1> QED
  BY <1>2, <1>3, <1>4 DEF Gateway

LEMMA FateStep ==
    ASSUME EdgeInv, CallInv, [Next]_vars
    PROVE  [Fate!Next]_(Fate!vars)
<1>1. EdgeInv'
  BY EdgeInvStep
<1>2. ASSUME NEW w \in Waits, Call(w) PROVE Fate!Next
  BY <1>2, FateCall DEF Fate!Next
<1>3. CASE ConnectFails \/ SendFails
  BY <1>3, FateFails DEF Fate!Next
<1>4. CASE Reads
  BY <1>1, <1>4, FateReads DEF Fate!Next, Fate!vars
<1>5. CASE Gateway
  BY <1>5, FateGateway DEF Fate!Next, Fate!vars
<1>6. CASE \/ Connect \/ SendResume \/ SendHello \/ SendFrame
           \/ ReadNonText \/ DeadlinePasses \/ UNCHANGED vars
  <2>1. UNCHANGED <<trip, taken, result>> /\ Denied' = Denied
    BY <1>6 DEF Connect, SendResume, SendHello, SendFrame, Enter, ReadNonText, DeadlinePasses,
        vars, call, gateway, report, Denied
  <2> QED
    BY <2>1 DEF Fate!vars
<1> QED
  BY <1>2, <1>3, <1>4, <1>5, <1>6 DEF Next, Dials, Opens

\* Calls implement the abstract promise of one true answer for each call, whatever
\* the gateway sends and when.
THEOREM FateImplemented == Spec => ImplementsFate
<1>1. Init => Fate!Init
  BY DEF Init, Fate!Init, Denied
<1>2. EdgeInv /\ CallInv /\ [Next]_vars => [Fate!Next]_(Fate!vars)
  BY FateStep
<1> QED
  BY <1>1, <1>2, EdgeInvAlways, CallInvAlways, PTL DEF Spec, ImplementsFate, Fate!Spec

-----------------------------------------------------------------------------
(* A refused session is forgotten *)

\* What the gateway can accept while an attach is open: the session whose resume
\* is asked for, or one it has just issued.
Acceptable(m) ==
    /\ pc = "resume" => m.session = sid
    /\ pc = "hello" => m.session \in (1..minted) \ retired

Numbered ==
    /\ sid \in 0..minted /\ retired \subseteq 1..minted /\ sid \notin retired
    /\ pc = "resume" => sid # NoSession
    /\ \A m \in In(toClient) : m.type = "accept" => Acceptable(m)
    /\ pc = "resume" => \A m \in In(toGateway) : m.type = "resume" => m.session = sid

\* The variables of Numbered but for the replies in flight.
LEMMA NumberedSame ==
    ASSUME Numbered, UNCHANGED <<sid, minted, retired, pc>>,
           In(toClient') \subseteq In(toClient), In(toGateway') \subseteq In(toGateway)
    PROVE  Numbered'
BY DEF Numbered, Acceptable

\* The accept read in an attach is the one answer to it.
LEMMA NumberedReads ==
    ASSUME EdgeInv, Orderly, Numbered, Reads
    PROVE  Numbered'
<1>1. UNCHANGED <<minted, toGateway>>
  BY ReadsShape DEF gateway
<1>2. toClient \in Seq(GatewayMsg) /\ minted \in Nat
  BY DEF EdgeInv, TypeInv, TypeOK, SocketOK, GatewayOK
<1>3. In(toClient') \subseteq In(toClient)
  BY <1>2, InTail, InEmpty, ReadsShape
<1>4. CASE Accepted
  <2> DEFINE m == Head(toClient)
  <2>1. pc \in {"resume", "hello"} /\ toClient # <<>> /\ m.type = "accept" /\ sid' = m.session
    BY <1>4 DEF Accepted, Got, NoteAccept
  <2>2. m \in In(toClient)
    BY <1>2, <2>1, InTail
  <2>3. m.session \in (1..minted) \ retired
    BY <1>2, <2>1, <2>2 DEF Numbered, Acceptable
  <2>4. pc' = "attached" /\ retired' = retired
    BY <1>4 DEF Accepted, Enter
  <2> QED
    BY <1>1, <1>2, <2>1, <2>3, <2>4 DEF Numbered, Acceptable
<1>5. CASE ResumeRejected
  <2>1. sid' = NoSession /\ retired' = retired \cup ({sid} \cap Sessions) /\ pc' = "greet"
    BY <1>5 DEF ResumeRejected, ClearSession, Retire, Enter
  <2>2. retired' \subseteq 1..minted /\ 0 \in 0..minted
    BY <1>2, <2>1 DEF Numbered, Sessions
  <2> QED
    BY <1>1, <2>1, <2>2 DEF Numbered, Acceptable
<1>6. CASE ResumeUnanswered \/ HelloIgnores
  <2>1. pc \in {"resume", "hello"} /\ toClient # <<>>
        /\ Head(toClient).type \in {"ack", "projection"} \cup (PlainRecord \ {"bad"})
    BY <1>6 DEF ResumeUnanswered, HelloIgnores, Got
  <2> QED
    BY <2>1, OrderlyAttach DEF PlainRecord
<1>7. CASE HelloRejected
  <2>1. pc = "hello" /\ toClient # <<>> /\ Head(toClient).type = "reject"
    BY <1>7 DEF HelloRejected, Got
  <2>2. Head(toClient).of # "resume"
    BY <2>1, OrderlyAttach
  <2>3. UNCHANGED <<sid, retired>> /\ pc' = "idle"
    BY <1>7, <2>2 DEF HelloRejected, Return, state
  <2> QED
    BY <1>1, <2>3 DEF Numbered, Acceptable
<1>8. CASE ~Accepted /\ ~ResumeRejected /\ ~ResumeUnanswered /\ ~HelloIgnores /\ ~HelloRejected
  <2>1. UNCHANGED <<sid, retired>> /\ (pc' = pc \/ pc' = "idle")
    BY <1>8, ReadErrorTells, AfterOutcomeTells DEF Reads, ReadsOn, StartRead, ReadTooLate, ReadBroken,
        ReadBad, AwaitAck, NoteAck, AwaitReject, AwaitProjection, NoteProjection,
        AwaitDirectory, AwaitRecord, AwaitSealed, AwaitIgnored, Return, state
  <2> QED
    BY <1>1, <1>3, <2>1 DEF Numbered, Acceptable
<1> QED
  BY <1>4, <1>5, <1>6, <1>7, <1>8

LEMMA NumberedGateway ==
    ASSUME EdgeInv, Orderly, Numbered, Gateway
    PROVE  Numbered'
<1>1. UNCHANGED <<sid, pc, retired>>
  BY DEF Gateway, GatewayAnswersResume, GatewayAnswersHello, GatewayAnswersFrame,
      GatewayReads, GatewayRefusesTaken, GatewayPushes, GatewayPushesProjection,
      GatewayMayPush, GatewayCloses, GatewayRestarts, gateway, call, state
<1>2. /\ toClient \in Seq(GatewayMsg) /\ toGateway \in Seq(ClientMsg) /\ minted \in Nat
      /\ pc \in Steps
  BY DEF EdgeInv, TypeInv, TypeOK, SocketOK, GatewayOK, CallOK
<1>3. In(toGateway') \subseteq In(toGateway)
  BY <1>2, InTail, InEmpty DEF Gateway, GatewayAnswersResume, GatewayAnswersHello,
      GatewayAnswersFrame, GatewayReads, GatewayRefusesTaken, GatewayPushes,
      GatewayPushesProjection, GatewayMayPush, GatewayCloses, GatewayRestarts
<1>4. minted' \in Nat /\ minted <= minted'
  BY <1>2 DEF Gateway, GatewayAnswersResume, GatewayAnswersHello, GatewayAnswersFrame,
      GatewayRefusesTaken, GatewayPushes, GatewayPushesProjection, GatewayMayPush,
      GatewayCloses, GatewayRestarts, gateway
\* It is enough that what is answered can be accepted.
<1>5. ASSUME NEW r \in GatewayMsg, Reply(r), pc # "idle", r.type = "accept" => Acceptable(r)'
      PROVE  Numbered'
  <2>1. toClient' = toClient \/ Extends(toClient', toClient, r)
    BY <1>5 DEF Reply, Extends
  <2>2. In(toClient') \subseteq In(toClient) \cup {r}
    BY <1>2, <2>1, InAppend
  <2>3. \A m \in In(toClient) : m.type = "accept" => Acceptable(m)'
    BY <1>1, <1>2, <1>4 DEF Numbered, Acceptable
  <2> QED
    BY <1>1, <1>2, <1>3, <1>4, <1>5, <2>2, <2>3 DEF Numbered
<1>6. CASE pc \in {"idle", "dial"}
  <2>1. toClient' = toClient
    BY <1>6 DEF EdgeInv, IdleQuiet, Gateway, GatewayAnswersResume, GatewayAnswersHello,
        GatewayAnswersFrame, GatewayReads, GatewayRefusesTaken, GatewayPushes,
        GatewayPushesProjection, GatewayMayPush, GatewayCloses, GatewayRestarts, Reply
  <2> QED
    BY <1>1, <1>2, <1>3, <1>4, <1>6, <2>1 DEF Numbered, Acceptable
<1>7. CASE GatewayAnswersResume /\ pc # "idle"
  <2> DEFINE m == Head(toGateway)
  <2>1. toGateway # <<>> /\ m.type = "resume"
    BY <1>7 DEF GatewayAnswersResume, GatewayReads
  <2>2. m \in In(toGateway) /\ m \in ClientMsg
    BY <1>2, <2>1, InTail
  <2>3. pc = "resume"
    BY <1>2, <1>7, <2>1, <2>2 DEF Orderly, Silent, OneAnswer, FrameOnly, Steps
  <2>4. m.session \in Sessions /\ m.claims \in Claims /\ m.session = sid
    BY <2>1, <2>2, <2>3 DEF ClientMsg, Numbered
  <2>5. ASSUME NEW c \in Echoes(m.claims),
               Reply([type |-> "accept", session |-> m.session, claims |-> c])
        PROVE  Numbered'
    <3>0. [type |-> "accept", session |-> m.session, claims |-> c] \in GatewayMsg
      BY <2>4, <2>5, EchoesType DEF GatewayMsg
    <3>1. PICK r \in GatewayMsg : Reply(r) /\ r.session = sid
      BY <2>4, <2>5, <3>0
    <3>2. Acceptable(r)'
      BY <1>1, <2>3, <3>1 DEF Acceptable
    <3> QED
      BY <1>5, <1>7, <3>1, <3>2
  <2>6. CASE Reply([type |-> "reject", of |-> "resume"])
    <3>1. [type |-> "reject", of |-> "resume"] \in GatewayMsg
      BY DEF GatewayMsg
    <3> QED
      BY <1>5, <1>7, <2>6, <3>1
  <2> QED
    BY <1>7, <2>5, <2>6 DEF GatewayAnswersResume
<1>8. CASE GatewayAnswersHello /\ pc # "idle"
  <2> DEFINE m == Head(toGateway)
  <2>1. toGateway # <<>> /\ m.type = "hello"
    BY <1>8 DEF GatewayAnswersHello, GatewayReads
  <2>2. m \in In(toGateway) /\ m \in ClientMsg
    BY <1>2, <2>1, InTail
  <2>3. pc = "hello"
    BY <1>2, <1>8, <2>1, <2>2 DEF Orderly, Silent, OneAnswer, FrameOnly, Steps
  <2>4. ASSUME NEW c \in Echoes(m.claims), minted + 1 \in Sessions, minted' = minted + 1,
               Reply([type |-> "accept", session |-> minted + 1, claims |-> c])
        PROVE  Numbered'
    <3>0. [type |-> "accept", session |-> minted + 1, claims |-> c] \in GatewayMsg
      BY <2>1, <2>2, <2>4, EchoesType DEF GatewayMsg, ClientMsg
    <3>1. PICK r \in GatewayMsg : Reply(r) /\ r.session = minted'
      BY <2>4, <3>0
    <3>2. Acceptable(r)'
      BY <1>1, <1>2, <2>3, <2>4, <3>1 DEF Acceptable, Numbered
    <3> QED
      BY <1>5, <1>8, <3>1, <3>2
  <2>5. CASE Reply([type |-> "reject", of |-> "hello"])
    <3>1. [type |-> "reject", of |-> "hello"] \in GatewayMsg
      BY DEF GatewayMsg
    <3> QED
      BY <1>5, <1>8, <2>5, <3>1
  <2> QED
    BY <1>8, <2>4, <2>5 DEF GatewayAnswersHello
<1>9. CASE GatewayAnswersFrame /\ pc # "idle"
  <2> DEFINE m == Head(toGateway)
  <2>1. toGateway # <<>> /\ m.type = "frame" /\ m \in ClientMsg
    BY <1>2, <1>9, InTail DEF GatewayAnswersFrame, GatewayReads
  <2>2. m.frame \in Frames
    BY <2>1 DEF ClientMsg
  <2>3. PICK r \in [type : {"ack"}, frame : Frames, target : {NoFrame} \cup Frames,
                     correlation : {NoFrame} \cup Frames]
                     \cup [type : {"reject"}, of : {"resume", "hello", "frame"}] : Reply(r)
    BY <1>9, <2>2 DEF GatewayAnswersFrame
  <2> QED
    BY <1>5, <1>9, <2>3 DEF GatewayMsg
<1>10. CASE GatewayRefusesTaken
  <2>1. [type |-> "reject", of |-> "frame"] \in GatewayMsg /\ pc # "idle"
    BY <1>10 DEF GatewayMsg, GatewayRefusesTaken
  <2> QED
    BY <1>5, <1>10, <2>1 DEF GatewayRefusesTaken
<1>11. CASE GatewayPushes /\ pc # "idle"
  <2>1. PICK k \in Pushed : Reply([type |-> k])
    BY <1>11 DEF GatewayPushes
  <2>2. [type |-> k] \in GatewayMsg /\ k # "accept"
    BY DEF GatewayMsg, PlainRecord
  <2> QED
    BY <1>5, <1>11, <2>1, <2>2
<1>12. CASE GatewayPushesProjection /\ pc # "idle"
  <2>1. PICK c \in Channels, r \in Revisions :
          Reply([type |-> "projection", channel |-> c, rev |-> r])
    <3>1. TypeOK
      BY DEF EdgeInv, TypeInv
    <3> QED
      BY <1>12, <3>1, SendableType DEF GatewayPushesProjection
  <2>2. [type |-> "projection", channel |-> c, rev |-> r] \in GatewayMsg
    BY DEF GatewayMsg
  <2> QED
    BY <1>5, <1>12, <2>1, <2>2
<1>13. CASE GatewayCloses \/ GatewayRestarts
  <2>1. UNCHANGED <<toClient, minted>>
    BY <1>13 DEF GatewayCloses, GatewayRestarts, gateway
  <2> QED
    BY <1>1, <1>3, <2>1, NumberedSame
<1> QED
  BY <1>6, <1>7, <1>8, <1>9, <1>10, <1>11, <1>12, <1>13 DEF Gateway

LEMMA NumberedStep ==
    ASSUME EdgeInv, Orderly, Numbered, [Next]_vars
    PROVE  Numbered'
<1>1. CASE (\E w \in Waits : Call(w)) \/ Dials
  <2>1. UNCHANGED <<sid, minted, retired>> /\ pc' \in {"dial", "attach", "idle"} /\ toClient' = <<>>
    BY <1>1 DEF Call, Dials, Connect, ConnectFails, Fail, Return, state, gateway, EdgeInv, IdleQuiet
  <2> QED
    BY <2>1, InEmpty DEF Numbered
<1>2. CASE Opens
  <2>1. UNCHANGED <<sid, minted, retired>>
    BY <1>2 DEF Opens, SendResume, SendHello, SendFrame, SendFails, state, gateway
  <2>2. CASE SendResume
    <3> DEFINE r == [type |-> "resume", session |-> sid, claims |-> Progress, frame |-> trip]
    <3>1. Silent /\ sid # NoSession
      BY <2>2 DEF SendResume, Orderly
    <3>2. toGateway' = Append(<<>>, r) /\ toClient' = <<>> /\ pc' = "resume"
      BY <2>2, <3>1 DEF SendResume, Send, Enter, Silent
    <3>3. r \in ClientMsg
      BY <2>2, <3>1, ProgressType
      DEF SendResume, ClientMsg, EdgeInv, TypeInv, TypeOK, StateOK, Underway
    <3>4. In(toGateway') = {r}
      BY <3>2, <3>3, AppendToEmpty
    <3> QED
      BY <2>1, <3>1, <3>2, <3>4, InEmpty DEF Numbered
  <2>3. CASE SendHello
    <3>1. toClient' = <<>> /\ pc' = "hello"
      BY <2>3 DEF SendHello, Enter, Orderly, Silent
    <3> QED
      BY <2>1, <3>1, InEmpty DEF Numbered
  <2>4. CASE SendFrame \/ SendFails
    <3>1. pc' \in {"await", "idle"} /\ (toClient' = toClient \/ toClient' = <<>>)
      BY <2>4 DEF SendFrame, SendFails, Enter, Fail, Return
    <3> QED
      BY <2>1, <3>1, InEmpty DEF Numbered, Acceptable
  <2> QED
    BY <1>2, <2>2, <2>3, <2>4 DEF Opens
<1>3. CASE ReadNonText \/ DeadlinePasses \/ UNCHANGED vars
  <2>1. UNCHANGED <<sid, minted, retired, pc, toClient, toGateway>>
    BY <1>3 DEF ReadNonText, DeadlinePasses, vars, state, call, socket, gateway
  <2> QED
    BY <2>1, NumberedSame
<1> QED
  BY <1>1, <1>2, <1>3, NumberedReads, NumberedGateway DEF Next

\* A gateway that answers an attach first, and has refused to resume a session,
\* is not asked to resume it by any later call.
THEOREM RetiredForgotten == Spec => []RetiredSessionForgotten
<1>1. CASE EarlyPush
  <2>1. RetiredSessionForgotten
    BY <1>1 DEF RetiredSessionForgotten
  <2> QED
    BY <2>1, PTL
<1>2. CASE ~EarlyPush
  <2>1. Init => Numbered
    BY InEmpty DEF Init, Numbered
  <2>2. EdgeInv /\ Orderly /\ Numbered /\ [Next]_vars => Numbered'
    BY NumberedStep
  <2>3. Numbered => RetiredSessionForgotten
    BY DEF Numbered, RetiredSessionForgotten
  <2>4. Spec => []Orderly
    BY <1>2, OrderlyAlways
  <2> QED
    BY <2>1, <2>2, <2>3, <2>4, EdgeInvAlways, PTL DEF Spec
<1> QED
  BY <1>1, <1>2

-----------------------------------------------------------------------------
(* The cursor only advances, if the gateway does not rewind *)

Attaching == {"dial", "attach", "resume", "greet", "hello"}

\* Of two projections of one channel the later has the later revision, if any.
Follows(a, b) ==
    a.type = "projection" /\ b.type = "projection" /\ a.channel = b.channel /\ b.rev # NoRev
    => a.rev <= b.rev

InOrder(q) == \A i, j \in 1..Len(q) : i < j => Follows(q[i], q[j])

\* A reply in flight takes the cursor no way but forward.
Advances(m) ==
    /\ m.type = "accept" /\ pc \in Attaching => m.claims = Progress
    /\ m.type = "ack" => AckNames(m) \in {NoFrame, trip}
    /\ m.type = "projection" /\ m.rev # NoRev => revs[m.channel] <= m.rev

Advancing ==
    /\ acked <= trip
    /\ pc \in Attaching => \A m \in In(toGateway) : m.type \in {"resume", "hello"} => m.claims = Progress
    /\ \A m \in In(toClient) : Advances(m)
    /\ InOrder(toClient)

CursorForward == acked' >= acked /\ \A c \in Channels : revs'[c] >= revs[c]

LEMMA OrderTail ==
    ASSUME NEW M, NEW q \in Seq(M), q # <<>>, InOrder(q)
    PROVE  InOrder(Tail(q)) /\ \A m \in In(Tail(q)) : Follows(Head(q), m)
<1>1. ASSUME NEW i \in 1..Len(Tail(q))
      PROVE  i + 1 \in 1..Len(q) /\ Tail(q)[i] = q[i + 1]
  BY <1>1, TailElements
<1>2. ASSUME NEW i \in 1..Len(Tail(q)), NEW j \in 1..Len(Tail(q)), i < j
      PROVE  Follows(Tail(q)[i], Tail(q)[j])
  BY <1>1, <1>2 DEF InOrder
<1>3. ASSUME NEW i \in 1..Len(Tail(q)) PROVE Follows(Head(q), Tail(q)[i])
  <2>1. 1 \in 1..Len(q) /\ Head(q) = q[1] /\ 1 < i + 1
    OBVIOUS
  <2> QED
    BY <1>1, <1>3, <2>1 DEF InOrder
<1> QED
  BY <1>2, <1>3 DEF InOrder, In

LEMMA OrderAppend ==
    ASSUME NEW M, NEW q \in Seq(M), NEW r \in M, NEW longer, Extends(longer, q, r),
           InOrder(q), \A m \in In(q) : Follows(m, r)
    PROVE  InOrder(longer)
<1>1. /\ longer = Append(q, r) /\ Len(longer) = Len(q) + 1 /\ Len(q) \in Nat
      /\ longer[Len(q) + 1] = r /\ \A i \in 1..Len(q) : longer[i] = q[i]
  BY DEF Extends
<1>2. ASSUME NEW i \in 1..Len(longer), NEW j \in 1..Len(longer), i < j
      PROVE  Follows(longer[i], longer[j])
  <2>1. i \in 1..Len(q) /\ longer[i] = q[i] /\ q[i] \in In(q)
    BY <1>1, <1>2 DEF In
  <2>2. CASE j \in 1..Len(q)
    BY <1>1, <1>2, <2>1, <2>2 DEF InOrder
  <2>3. CASE j = Len(q) + 1
    BY <1>1, <2>1, <2>3
  <2> QED
    BY <1>1, <1>2, <2>2, <2>3
<1> QED
  BY <1>2 DEF InOrder

\* What a step that leaves the cursor, or has done with the attach, leaves of it.
LEMMA AdvancingSame ==
    ASSUME Advancing, UNCHANGED <<acked, revs, trip>>, pc' \in Attaching => pc \in Attaching,
           In(toClient') \subseteq In(toClient), InOrder(toClient'),
           In(toGateway') \subseteq In(toGateway)
    PROVE  Advancing'
BY DEF Advancing, Advances, Progress

LEMMA CursorTypes ==
    ASSUME EdgeInv
    PROVE  /\ acked \in Nat /\ trip \in Nat /\ revs \in Cursors /\ published \in Cursors
           /\ toClient \in Seq(GatewayMsg) /\ toGateway \in Seq(ClientMsg)
           /\ \A c \in Channels : revs[c] \in Nat /\ published[c] \in Nat
BY DEF EdgeInv, TypeInv, TypeOK, StateOK, CallOK, SocketOK, GatewayOK, Frames, Cursors, Revisions

LEMMA AdvancingReads ==
    ASSUME EdgeInv, Advancing, Reads
    PROVE  CursorForward /\ Advancing'
<1> DEFINE m == Head(toClient)
<1>1. UNCHANGED <<trip, toGateway>> /\ pc # "idle"
  BY ReadsShape
<1>2. /\ acked \in Nat /\ trip \in Nat /\ revs \in Cursors /\ toClient \in Seq(GatewayMsg)
      /\ \A c \in Channels : revs[c] \in Nat
  BY CursorTypes
<1>3. In(toClient') \subseteq In(toClient) /\ InOrder(toClient')
  <2>1. CASE toClient' = toClient
    BY <2>1 DEF Advancing
  <2>2. CASE toClient' = <<>>
    BY <2>2, InEmpty DEF InOrder
  <2>3. CASE toClient # <<>> /\ toClient' = Tail(toClient)
    BY <1>2, <2>3, InTail, OrderTail DEF Advancing
  <2> QED
    BY <2>1, <2>2, <2>3, ReadsShape
<1>4. toClient # <<>> => m \in GatewayMsg /\ Advances(m)
  BY <1>2, InTail DEF Advancing
<1>5. CASE Accepted
  <2>1. m.type = "accept" /\ pc \in Attaching /\ toClient # <<>> /\ pc' = "attached"
        /\ acked' = m.claims.acked /\ revs' = m.claims.revs
    BY <1>5 DEF Accepted, Got, NoteAccept, Attaching, Enter
  <2>2. UNCHANGED <<acked, revs>>
    BY <1>4, <2>1 DEF Advances, Progress
  <2> QED
    BY <1>1, <1>2, <1>3, <2>1, <2>2, AdvancingSame DEF CursorForward, Attaching
<1>6. CASE AwaitAck
  <2>1. m.type = "ack" /\ toClient # <<>> /\ pc = "await" /\ pc' \in {"await", "idle"}
        /\ acked' = (IF AckNames(m) = NoFrame THEN acked ELSE AckNames(m)) /\ revs' = revs
    BY <1>6, AfterOutcomeTells DEF AwaitAck, Got, NoteAck
  <2>2. acked' \in {acked, trip}
    BY <1>4, <2>1 DEF Advances
  <2>3. acked <= acked' /\ acked' <= trip
    BY <1>2, <2>2 DEF Advancing
  <2> QED
    BY <1>1, <1>2, <1>3, <2>1, <2>3 DEF CursorForward, Advancing, Advances, Attaching
<1>7. CASE AwaitProjection
  <2>1. m.type = "projection" /\ toClient # <<>> /\ pc = "await" /\ pc' \in {"await", "idle"}
        /\ acked' = acked
        /\ revs' = (IF m.rev = NoRev THEN revs ELSE [revs EXCEPT ![m.channel] = m.rev])
    BY <1>7, AfterOutcomeTells DEF AwaitProjection, Got, NoteProjection, Return
  <2>2. m \in [type : {"projection"}, channel : Channels, rev : Revisions]
    BY <1>4, <2>1 DEF GatewayMsg, PlainRecord
  <2>3. m.rev \in Nat /\ (m.rev # NoRev => revs[m.channel] <= m.rev)
    BY <1>4, <2>1, <2>2 DEF Advances, Revisions
  <2>4. \A c \in Channels : revs'[c] >= revs[c]
    BY <1>2, <2>1, <2>2, <2>3 DEF Cursors
  <2>5. toClient' = Tail(toClient) \/ toClient' = <<>>
    BY <1>7 DEF AwaitProjection, AfterOutcome, Return, Consume
  <2>6. ASSUME NEW n \in In(toClient') PROVE Advances(n)'
    <3>1. Advances(n) /\ n \in GatewayMsg /\ Follows(m, n)
      BY <1>2, <1>3, <2>1, <2>5, <2>6, InTail, InEmpty, OrderTail DEF Advancing
    <3>2. CASE n.type = "projection" /\ n.rev # NoRev
      <4>1. n \in [type : {"projection"}, channel : Channels, rev : Revisions]
        BY <3>1, <3>2 DEF GatewayMsg, PlainRecord
      <4>2. revs'[n.channel] <= n.rev
        BY <1>2, <2>1, <2>2, <3>1, <3>2, <4>1 DEF Follows, Advances, Cursors
      <4> QED
        BY <1>1, <3>2, <4>2 DEF Advances
    <3>3. CASE ~(n.type = "projection" /\ n.rev # NoRev)
      BY <1>1, <2>1, <3>1, <3>3 DEF Advances, Attaching
    <3> QED
      BY <3>2, <3>3
  <2> QED
    BY <1>1, <1>2, <1>3, <2>1, <2>4, <2>6 DEF CursorForward, Advancing, Attaching
<1>8. CASE ~Accepted /\ ~AwaitAck /\ ~AwaitProjection
  <2>1. UNCHANGED <<acked, revs>>
    BY <1>8 DEF Reads, ReadsOn, StartRead, ReadTooLate, ReadBroken, ReadBad, ResumeRejected,
        ClearSession, ResumeUnanswered, HelloRejected, HelloIgnores, AwaitReject,
        AwaitDirectory, AwaitRecord, AwaitSealed, AwaitIgnored, state
  <2>2. pc' \in Attaching => pc \in Attaching
    BY <1>8, ReadErrorTells, AfterOutcomeTells DEF Reads, ReadsOn, StartRead, ReadTooLate, ReadBroken,
        ReadBad, ResumeRejected, ResumeUnanswered, HelloRejected, HelloIgnores, AwaitReject,
        AwaitDirectory, AwaitRecord, AwaitSealed, AwaitIgnored, Got, Enter, Fail, Return, Attaching
  <2> QED
    BY <1>1, <1>2, <1>3, <2>1, <2>2, AdvancingSame DEF CursorForward
<1> QED
  BY <1>5, <1>6, <1>7, <1>8

LEMMA AdvancingGateway ==
    ASSUME ~Rewinds, EdgeInv, Advancing, Gateway
    PROVE  CursorForward /\ Advancing'
<1>1. UNCHANGED <<acked, revs, pc, trip>>
  BY DEF Gateway, GatewayAnswersResume, GatewayAnswersHello, GatewayAnswersFrame,
      GatewayReads, GatewayRefusesTaken, GatewayPushes, GatewayPushesProjection,
      GatewayMayPush, GatewayCloses, GatewayRestarts, call, state
<1>2. /\ acked \in Nat /\ revs \in Cursors /\ published \in Cursors
      /\ toClient \in Seq(GatewayMsg) /\ toGateway \in Seq(ClientMsg)
      /\ \A c \in Channels : revs[c] \in Nat /\ published[c] \in Nat
  BY CursorTypes
<1>3. CursorForward
  BY <1>1, <1>2 DEF CursorForward
<1>4. In(toGateway') \subseteq In(toGateway)
  BY <1>2, InTail, InEmpty DEF Gateway, GatewayAnswersResume, GatewayAnswersHello,
      GatewayAnswersFrame, GatewayReads, GatewayRefusesTaken, GatewayPushes,
      GatewayPushesProjection, GatewayMayPush, GatewayCloses, GatewayRestarts
\* It is enough that what is sent advances the cursor and follows what was sent.
<1>5. ASSUME NEW r \in GatewayMsg, Reply(r), Advances(r), \A n \in In(toClient) : Follows(n, r)
      PROVE  Advancing'
  <2>1. toClient' = toClient \/ Extends(toClient', toClient, r)
    BY <1>5 DEF Reply, Extends
  <2>2. In(toClient') \subseteq In(toClient) \cup {r} /\ InOrder(toClient')
    BY <1>2, <1>5, <2>1, InAppend, OrderAppend DEF Advancing
  <2>3. \A n \in In(toClient') : Advances(n)
    BY <1>5, <2>2 DEF Advancing
  <2>4. \A n \in In(toClient') : Advances(n)'
    BY <1>1, <2>3 DEF Advances, Progress
  <2> QED
    BY <1>1, <1>4, <2>2, <2>4 DEF Advancing, Progress
<1>6. ASSUME NEW r \in GatewayMsg, Reply(r), Advances(r), r.type # "projection"
      PROVE  Advancing'
  BY <1>5, <1>6 DEF Follows
<1>7. ASSUME NEW type, GatewayReads(type)
      PROVE  Head(toGateway) \in In(toGateway) /\ Head(toGateway) \in ClientMsg
             /\ Head(toGateway).type = type
  BY <1>2, <1>7, InTail DEF GatewayReads
<1>8. CASE GatewayAnswersResume \/ GatewayAnswersHello
  <2> DEFINE m == Head(toGateway)
  <2>1. /\ m \in In(toGateway) /\ m \in ClientMsg /\ m.type \in {"resume", "hello"}
    BY <1>7, <1>8 DEF GatewayAnswersResume, GatewayAnswersHello
  <2>2. m.claims \in Claims /\ (pc \in Attaching => m.claims = Progress)
    BY <2>1 DEF ClientMsg, Advancing
  <2>0. Echoes(m.claims) = {m.claims}
    BY DEF Echoes
  <2>3. CASE \E s \in Sessions : Reply([type |-> "accept", session |-> s, claims |-> m.claims])
    <3>1. PICK s \in Sessions : Reply([type |-> "accept", session |-> s, claims |-> m.claims])
      BY <2>3
    <3>2. [type |-> "accept", session |-> s, claims |-> m.claims] \in GatewayMsg
      BY <2>2 DEF GatewayMsg
    <3>3. Advances([type |-> "accept", session |-> s, claims |-> m.claims])
      BY <2>2 DEF Advances
    <3> QED
      BY <1>3, <1>6, <3>1, <3>2, <3>3
  <2>4. CASE \E k \in {"resume", "hello"} : Reply([type |-> "reject", of |-> k])
    <3>1. PICK k \in {"resume", "hello"} : Reply([type |-> "reject", of |-> k])
      BY <2>4
    <3>2. [type |-> "reject", of |-> k] \in GatewayMsg /\ Advances([type |-> "reject", of |-> k])
      BY DEF GatewayMsg, Advances
    <3> QED
      BY <1>3, <1>6, <3>1, <3>2
  <2>5. GatewayAnswersResume => m.session \in Sessions
    BY <1>7 DEF GatewayAnswersResume, ClientMsg
  <2> QED
    BY <1>3, <1>8, <2>0, <2>3, <2>4, <2>5 DEF GatewayAnswersResume, GatewayAnswersHello
<1>9. [type |-> "reject", of |-> "frame"] \in GatewayMsg
      /\ Advances([type |-> "reject", of |-> "frame"])
  BY DEF GatewayMsg, Advances
<1>10. CASE GatewayAnswersFrame
  <2> DEFINE m == Head(toGateway)
  <2>1. m \in ClientMsg /\ m.type = "frame" /\ toGateway # <<>>
    BY <1>7, <1>10 DEF GatewayAnswersFrame, GatewayReads
  <2>2. m.frame = trip /\ m.frame \in Frames
    <3>1. 1 \in 1..Len(toGateway) /\ m = toGateway[1]
      BY <1>2, <2>1
    <3> QED
      BY <2>1, <3>1 DEF EdgeInv, RequestsSound, RequestSound, ClientMsg
  <2>3. ASSUME NEW target \in {NoFrame, m.frame}, NEW correlation \in {NoFrame, m.frame},
               Reply([type |-> "ack", frame |-> m.frame, target |-> target,
                      correlation |-> correlation])
        PROVE  Advancing'
    <3> DEFINE r == [type |-> "ack", frame |-> m.frame, target |-> target,
                     correlation |-> correlation]
    <3>1. r \in GatewayMsg
      BY <2>2, <2>3 DEF GatewayMsg
    <3>2. Advances(r)
      BY <2>2, <2>3 DEF Advances, AckNames
    <3> QED
      BY <1>6, <2>3, <3>1, <3>2
  <2> QED
    BY <1>3, <1>6, <1>9, <1>10, <2>3 DEF GatewayAnswersFrame
<1>11. CASE GatewayRefusesTaken
  BY <1>3, <1>6, <1>9, <1>11 DEF GatewayRefusesTaken
<1>12. CASE GatewayPushes
  <2>1. PICK k \in Pushed : Reply([type |-> k])
    BY <1>12 DEF GatewayPushes
  <2>2. [type |-> k] \in GatewayMsg /\ k \notin {"accept", "ack", "projection"}
    BY DEF GatewayMsg, PlainRecord
  <2>3. Advances([type |-> k])
    BY <2>2 DEF Advances
  <2> QED
    BY <1>3, <1>6, <2>1, <2>2, <2>3
\* A revision pushed is no older than what was published, nor that than the
\* cursor and what is in flight.
<1>13. CASE GatewayPushesProjection
  <2>0. PICK c \in Channels : \E r \in {NoRev, published[c], published[c] + 1} \cap Revisions :
          Reply([type |-> "projection", channel |-> c, rev |-> r])
    BY <1>13 DEF GatewayPushesProjection, Sendable
  <2>1. PICK r \in {NoRev, published[c], published[c] + 1} \cap Revisions :
          Reply([type |-> "projection", channel |-> c, rev |-> r])
    BY <2>0
  <2> DEFINE p == [type |-> "projection", channel |-> c, rev |-> r]
  <2>2. p \in GatewayMsg
    BY <2>1 DEF GatewayMsg
  <2>3. r # NoRev => published[c] <= r /\ r \in Nat
    BY <1>2, <2>1 DEF Revisions
  <2>4. revs[c] <= published[c]
    BY DEF EdgeInv, CursorWithinGateway, ClaimsSound, Progress
  <2>5. Advances(p)
    BY <1>2, <2>3, <2>4 DEF Advances
  <2>6. ASSUME NEW n \in In(toClient) PROVE Follows(n, p)
    <3>1. n \in GatewayMsg /\ ReplySound(n, trip, granted, taken, Denied, published)
      BY <1>2, <2>6 DEF EdgeInv, RepliesSound, In
    <3>2. CASE n.type = "projection" /\ n.channel = c /\ r # NoRev
      <4>1. n \in [type : {"projection"}, channel : Channels, rev : Revisions]
        BY <3>1, <3>2 DEF GatewayMsg, PlainRecord
      <4>2. n.rev <= published[c] /\ n.rev \in Nat
        BY <3>1, <3>2, <4>1 DEF ReplySound, Revisions
      <4> QED
        BY <1>2, <2>3, <3>2, <4>2 DEF Follows
    <3> QED
      BY <3>2 DEF Follows
  <2> QED
    BY <1>3, <1>5, <2>1, <2>2, <2>5, <2>6
<1>14. CASE GatewayCloses \/ GatewayRestarts
  <2>1. toClient' = toClient
    BY <1>14 DEF GatewayCloses, GatewayRestarts
  <2> QED
    BY <1>1, <1>3, <1>4, <2>1, AdvancingSame DEF Advancing
<1> QED
  BY <1>8, <1>10, <1>11, <1>12, <1>13, <1>14 DEF Gateway

LEMMA AdvancingStep ==
    ASSUME ~Rewinds, EdgeInv, Advancing, [Next]_vars
    PROVE  CursorForward /\ Advancing'
<1>1. /\ acked \in Nat /\ trip \in Nat /\ \A c \in Channels : revs[c] \in Nat
      /\ toGateway \in Seq(ClientMsg)
  BY CursorTypes
<1>2. ASSUME NEW w \in Waits, Call(w) PROVE CursorForward /\ Advancing'
  <2>1. /\ UNCHANGED <<acked, revs>> /\ trip' = trip + 1
        /\ toClient' = <<>> /\ toGateway' = <<>>
    BY <1>2 DEF Call, state, EdgeInv, IdleQuiet
  <2> QED
    BY <1>1, <2>1, InEmpty DEF CursorForward, Advancing, InOrder
<1>5. CASE Dials
  <2>1. /\ UNCHANGED <<acked, revs, trip, toGateway>> /\ toClient' = <<>>
        /\ pc = "dial"
    BY <1>5 DEF Dials, Connect, ConnectFails, Fail, Return, state, EdgeInv, IdleQuiet
  <2>2. In(toClient') \subseteq In(toClient) /\ InOrder(toClient')
    BY <2>1, InEmpty DEF InOrder
  <2> QED
    BY <1>1, <2>1, <2>2, AdvancingSame DEF CursorForward, Attaching
<1>3. CASE Opens
  <2>1. UNCHANGED <<acked, revs, trip>>
    BY <1>3 DEF Opens, SendResume, SendHello, SendFrame, SendFails, Enter, Fail, Return, state
  <2>2. CASE SendFrame \/ SendFails
    <3>1. pc' \in {"await", "idle"} /\ (toClient' = toClient \/ toClient' = <<>>)
      BY <2>2 DEF SendFrame, SendFails, Enter, Fail, Return
    <3> QED
      BY <1>1, <2>1, <3>1, InEmpty
      DEF CursorForward, Advancing, Advances, InOrder, Attaching
  <2>3. ASSUME NEW r \in ClientMsg, Send(r), r.claims = Progress, toClient' = toClient,
               pc \in Attaching
        PROVE  CursorForward /\ Advancing'
    <3>1. Extends(toGateway', toGateway, r)
      BY <2>3 DEF Send, Extends
    <3>2. In(toGateway') = In(toGateway) \cup {r}
      BY <1>1, <3>1, InAppend
    <3> QED
      BY <1>1, <2>1, <2>3, <3>2 DEF CursorForward, Advancing, Advances, Progress
  <2>4. CASE SendResume
    <3>1. [type |-> "resume", session |-> sid, claims |-> Progress, frame |-> trip] \in ClientMsg
      BY <2>4, ProgressType
      DEF SendResume, ClientMsg, EdgeInv, TypeInv, TypeOK, StateOK, Underway
    <3> QED
      BY <2>3, <2>4, <3>1 DEF SendResume, Attaching
  <2>5. CASE SendHello
    <3>1. [type |-> "hello", claims |-> Progress, frame |-> trip] \in ClientMsg
      BY <2>5, ProgressType DEF SendHello, ClientMsg, EdgeInv, TypeInv, TypeOK, Underway
    <3> QED
      BY <2>3, <2>5, <3>1 DEF SendHello, Attaching
  <2> QED
    BY <1>3, <2>2, <2>4, <2>5 DEF Opens
<1>4. CASE ReadNonText \/ DeadlinePasses \/ UNCHANGED vars
  <2>1. UNCHANGED <<acked, revs, trip, pc, toClient, toGateway>>
    BY <1>4 DEF ReadNonText, DeadlinePasses, vars, state, call, socket
  <2> QED
    BY <1>1, <2>1, AdvancingSame DEF CursorForward, Advancing
<1> QED
  BY <1>2, <1>3, <1>4, <1>5, AdvancingReads, AdvancingGateway DEF Next

\* A gateway that does not rewind (it echoes the cursor claimed and sends the
\* revisions of a channel in order) moves the resume cursor forward only, over any
\* number of calls, closes, refusals and restarts, also when two answers to an
\* attach are open and records come before and after them: the order among accepts,
\* acks and the records of several channels does not matter, that within a channel
\* does.
THEOREM CursorAdvances == Spec => CursorNeverRegresses
<1>1. CASE Rewinds
  <2>1. [~Rewinds => acked' >= acked /\ \A c \in Channels : revs'[c] >= revs[c]]_<<acked, revs>>
    BY <1>1
  <2> QED
    BY <2>1, PTL DEF CursorNeverRegresses
<1>2. CASE ~Rewinds
  <2>1. Init => Advancing
    BY InEmpty DEF Init, Advancing, InOrder
  <2>2. EdgeInv /\ Advancing /\ [Next]_vars => Advancing'
    BY <1>2, AdvancingStep
  <2>3. EdgeInv /\ Advancing /\ [Next]_vars
        => [~Rewinds => acked' >= acked /\ \A c \in Channels : revs'[c] >= revs[c]]_<<acked, revs>>
    BY <1>2, AdvancingStep DEF CursorForward
  <2> QED
    BY <2>1, <2>2, <2>3, EdgeInvAlways, PTL DEF Spec, CursorNeverRegresses
<1> QED
  BY <1>1, <1>2

-----------------------------------------------------------------------------
(* A call ends *)

\* The steps a call can go to from one it is in; it never comes back to it.
After(step) ==
    CASE step = "dial"     -> {"attach", "idle"}
      [] step = "attach"   -> {"resume", "hello", "idle"}
      [] step = "resume"   -> {"greet", "attached", "idle"}
      [] step = "greet"    -> {"hello", "idle"}
      [] step = "hello"    -> {"attached", "idle"}
      [] step = "attached" -> {"await", "idle"}
      [] step = "await"    -> {"idle"}

\* What follows an outcome of the await loop past the deadline: the end.
LEMMA AfterOutcomeGoes ==
    ASSUME NEW a, NEW ev, NEW dg, AfterOutcome(a, ev, dg)
    PROVE  (pc' = pc /\ late' = late /\ ~late) \/ pc' = "idle"
BY DEF AfterOutcome, Return

LEMMA ReadErrorGoes == ReadError => pc' = "idle"
BY DEF ReadError, Fail, Return

\* Reads in the two attach steps and in the await loop.
LEMMA ReadsGo ==
    ASSUME Reads
    PROVE  /\ pc \in Reading
           /\ pc' = pc \/ pc' \in After(pc)
           /\ late /\ pc' = pc => late' /\ blocked /\ ~blocked'
<1>1. CASE StartRead
  BY <1>1 DEF StartRead
<1>2. CASE ReadTooLate \/ ReadBroken \/ ReadBad
  <2>1. pc \in Reading /\ pc' = "idle"
    BY <1>2, ReadErrorGoes DEF ReadTooLate, ReadBroken, ReadBad
  <2> QED BY <2>1 DEF Reading, After
<1>3. CASE Accepted
  BY <1>3 DEF Accepted, Got, Enter, Reading, After
<1>4. CASE ResumeRejected \/ ResumeUnanswered
  BY <1>4 DEF ResumeRejected, ResumeUnanswered, Got, Enter, Reading, After
<1>5. CASE HelloRejected
  BY <1>5 DEF HelloRejected, Got, Return, Reading, After
<1>6. CASE HelloIgnores
  BY <1>6 DEF HelloIgnores, Got, Reading, After
<1>7. CASE \/ AwaitAck \/ AwaitReject \/ AwaitProjection \/ AwaitDirectory
           \/ AwaitRecord \/ AwaitSealed \/ AwaitIgnored
  <2>1. pc = "await"
    BY <1>7 DEF AwaitAck, AwaitReject, AwaitProjection, AwaitDirectory, AwaitRecord, AwaitSealed,
                AwaitIgnored, Got
  <2>2. pc' = "idle" \/ (pc' = pc /\ late' = late /\ ~late)
    BY <1>7, AfterOutcomeGoes
       DEF AwaitAck, AwaitReject, AwaitProjection, AwaitDirectory, AwaitRecord, AwaitSealed,
           AwaitIgnored, Return
  <2> QED BY <2>1, <2>2 DEF Reading, After
<1> QED
  BY <1>1, <1>2, <1>3, <1>4, <1>5, <1>6, <1>7 DEF Reads, ReadsOn

\* Sending what is next, or finding that the gateway has hung up.
LEMMA OpensGo ==
    ASSUME Opens
    PROVE  pc \in Sending /\ pc' \in After(pc)
BY DEF Opens, SendResume, SendHello, SendFrame, SendFails, Enter, Fail, Return, After, Sending

LEMMA DialsGo ==
    ASSUME Dials
    PROVE  pc = "dial" /\ pc' \in After(pc)
BY DEF Dials, Connect, ConnectFails, Fail, Return, After

\* Where a call is when a step of its own can be taken: in connect(), at a write,
\* in a read that has something to give or a deadline to look at, in a read that
\* has nothing to give, and before its deadline.
Dialling == pc = "dial"
Writing  == pc \in Sending
AtWork   == pc \in Reading /\ (~blocked \/ toClient # <<>>)
Waiting  == pc \in Reading /\ blocked /\ toClient = <<>>
Timed    == pc \in Reading /\ ~late

\* Fairness with what its ENABLED says written out, ENABLED being beyond the provers:
\* ProgramSteps for ProgramGoesOn, SocketSteps for SocketCallsReturn.
ProgramSteps ==
    /\ []<>~AtWork \/ []<><<ReadsOn>>_vars
    /\ []<>~Timed \/ []<><<DeadlinePasses>>_vars

SocketSteps ==
    /\ []<>~Dialling \/ []<><<Dials>>_vars
    /\ []<>~Writing \/ []<><<Opens>>_vars
    /\ []<>~Waiting \/ []<><<ReadBroken>>_vars

CallsGoOn == ProgramSteps /\ SocketSteps

\* A message that has come stays until it is read, or the read is left.
LEMMA WorkStays ==
    ASSUME late, AtWork, [Next]_vars, pc' = pc
    PROVE  AtWork'
<1>1. pc \in Reading /\ pc \notin {"idle", "dial"} /\ pc \notin Sending
  BY DEF AtWork, Reading, Sending
<1>2. CASE (\E w \in Waits : Call(w)) \/ Dials \/ Opens
  BY <1>1, <1>2, OpensGo, DialsGo DEF Call
<1>3. CASE Reads
  <2>1. ~blocked'
    BY <1>3, ReadsGo
  <2> QED
    BY <1>1, <2>1 DEF AtWork
<1>4. CASE ReadNonText
  BY <1>1, <1>4 DEF ReadNonText, AtWork
<1>5. CASE Gateway
  <2>1. blocked' = blocked
    BY <1>5 DEF Gateway, GatewayAnswersResume, GatewayAnswersHello, GatewayAnswersFrame, GatewayReads,
              GatewayRefusesTaken, GatewayPushes, GatewayPushesProjection, GatewayMayPush,
              GatewayCloses, GatewayRestarts, call
  <2>2. toClient' = toClient \/ \E m : toClient' = Append(toClient, m)
    BY <1>5 DEF Gateway, GatewayAnswersResume, GatewayAnswersHello, GatewayAnswersFrame,
              GatewayRefusesTaken, GatewayPushes, GatewayPushesProjection,
              GatewayCloses, GatewayRestarts, Reply
  <2>3. \A m : Append(toClient, m) # <<>>
    OBVIOUS
  <2> QED
    BY <1>1, <2>1, <2>2, <2>3 DEF AtWork
<1>6. CASE DeadlinePasses \/ UNCHANGED vars
  BY <1>1, <1>6 DEF DeadlinePasses, vars, call, socket, AtWork
<1> QED
  BY <1>2, <1>3, <1>4, <1>5, <1>6 DEF Next

\* Whatever happens in a step of a call, it stays there, with its deadline, or goes
\* on; a call past its deadline starts no other read.
LEMMA CallGoesOn ==
    ASSUME pc # "idle", [Next]_vars
    PROVE  \/ pc' \in After(pc)
           \/ /\ pc' = pc
              /\ late => late'
              /\ late /\ ~blocked => ~blocked'
<1>1. CASE \E w \in Waits : Call(w)
  BY <1>1 DEF Call
<1>2. CASE Opens \/ Dials
  BY <1>2, OpensGo, DialsGo
<1>3. CASE Reads
  BY <1>3, ReadsGo
<1>4. CASE ReadNonText
  BY <1>4 DEF ReadNonText
<1>5. CASE Gateway
  BY <1>5 DEF Gateway, GatewayAnswersResume, GatewayAnswersHello, GatewayAnswersFrame, GatewayReads,
              GatewayRefusesTaken, GatewayPushes, GatewayPushesProjection, GatewayMayPush,
              GatewayCloses, GatewayRestarts, call
<1>6. CASE DeadlinePasses
  BY <1>6 DEF DeadlinePasses
<1>7. CASE UNCHANGED vars
  BY <1>7 DEF vars, call
<1> QED
  BY <1>1, <1>2, <1>3, <1>4, <1>5, <1>6, <1>7 DEF Next

\* A read loop that is not over by its deadline returns to the test of the
\* deadline, by an outcome or by a message that is no text, and ends there; or
\* nothing comes, and the read ends by itself.
LEMMA ReadingSteps ==
    ASSUME NEW s \in Reading
    PROVE  /\ pc = s /\ [Next]_vars => (pc = s)' \/ (pc \in After(s))'
           /\ pc = s /\ late /\ [Next]_vars => late' \/ (pc \in After(s))'
           /\ pc = s /\ late /\ ~blocked /\ [Next]_vars => (~blocked)' \/ (pc \in After(s))'
           /\ pc = s /\ late /\ AtWork /\ [Next]_vars => AtWork' \/ (pc \in After(s))'
           /\ pc = s /\ late /\ <<ReadsOn>>_vars => (~blocked)' \/ (pc \in After(s))'
           /\ pc = s /\ late /\ ~blocked /\ <<ReadsOn>>_vars => (pc \in After(s))'
           /\ pc = s /\ <<ReadBroken>>_vars => (pc \in After(s))'
           /\ pc = s => AtWork \/ Waiting
           /\ pc = s /\ ~blocked => AtWork
           /\ pc = s /\ ~late => Timed
<1> s # "idle"
  BY DEF Reading
<1>1. ASSUME pc = s, [Next]_vars
      PROVE  \/ (pc \in After(s))'
             \/ (pc = s)' /\ (late => late') /\ (late /\ ~blocked => ~blocked')
                /\ (late /\ AtWork => AtWork')
  BY <1>1, CallGoesOn, WorkStays
<1>2. ASSUME pc = s, late, <<ReadsOn>>_vars
      PROVE  (pc \in After(s))' \/ (blocked /\ ~blocked')
  BY <1>2, ReadsGo DEF Reads
<1>3. ASSUME pc = s, ReadBroken PROVE (pc \in After(s))'
  <2>1. pc' = "idle"
    BY <1>3, ReadErrorGoes DEF ReadBroken
  <2> QED
    BY <1>3, <2>1 DEF Reading, After
<1>4. /\ pc = s => AtWork \/ Waiting
      /\ pc = s /\ ~blocked => AtWork
      /\ pc = s /\ ~late => Timed
  BY DEF AtWork, Waiting, Timed
<1> QED
  BY <1>1, <1>2, <1>3, <1>4

LEMMA OpeningSteps ==
    ASSUME NEW s \in Sending
    PROVE  /\ pc = s /\ [Next]_vars => (pc = s)' \/ (pc \in After(s))'
           /\ pc = s /\ <<Opens>>_vars => (pc \in After(s))'
           /\ pc = s => Writing
<1> s # "idle"
  BY DEF Sending
<1>1. pc = s /\ [Next]_vars => (pc = s)' \/ (pc \in After(s))'
  BY CallGoesOn
<1>2. pc = s /\ <<Opens>>_vars => (pc \in After(s))'
  BY OpensGo
<1> QED
  BY <1>1, <1>2 DEF Writing

\* Whatever the gateway sends, withholds or drops, a call ends, unless the socket
\* holds it: each of the seven steps it can be in ends, and leads on.
LEMMA CallEnds == Spec /\ CallsGoOn => (pc # "idle" ~> pc = "idle")
<1>0. <<DeadlinePasses>>_vars => late'
  BY DEF DeadlinePasses
<1>d. Spec /\ CallsGoOn => (pc = "dial" ~> pc \in After("dial"))
  <2>1. /\ pc = "dial" /\ [Next]_vars => (pc = "dial")' \/ (pc \in After("dial"))'
        /\ pc = "dial" /\ <<Dials>>_vars => (pc \in After("dial"))'
        /\ pc = "dial" => Dialling
    BY CallGoesOn, DialsGo DEF Dialling
  <2> QED BY <2>1, PTL DEF Spec, CallsGoOn, ProgramSteps, SocketSteps
<1>s. "attach" \in Sending /\ "greet" \in Sending /\ "attached" \in Sending
  BY DEF Sending
<1>1. Spec /\ CallsGoOn => (pc = "attach" ~> pc \in After("attach"))
  <2>1. /\ pc = "attach" /\ [Next]_vars => (pc = "attach")' \/ (pc \in After("attach"))'
        /\ pc = "attach" /\ <<Opens>>_vars => (pc \in After("attach"))'
        /\ pc = "attach" => Writing
    BY <1>s, OpeningSteps
  <2> QED BY <2>1, PTL DEF Spec, CallsGoOn, ProgramSteps, SocketSteps
<1>2. Spec /\ CallsGoOn => (pc = "resume" ~> pc \in After("resume"))
  <2>1. "resume" \in Reading
    BY DEF Reading
  <2>2. /\ pc = "resume" /\ [Next]_vars => (pc = "resume")' \/ (pc \in After("resume"))'
        /\ pc = "resume" /\ late /\ [Next]_vars => late' \/ (pc \in After("resume"))'
        /\ pc = "resume" /\ late /\ ~blocked /\ [Next]_vars => (~blocked)' \/ (pc \in After("resume"))'
        /\ pc = "resume" /\ late /\ AtWork /\ [Next]_vars => AtWork' \/ (pc \in After("resume"))'
        /\ pc = "resume" /\ late /\ <<ReadsOn>>_vars => (~blocked)' \/ (pc \in After("resume"))'
        /\ pc = "resume" /\ late /\ ~blocked /\ <<ReadsOn>>_vars => (pc \in After("resume"))'
        /\ pc = "resume" /\ <<ReadBroken>>_vars => (pc \in After("resume"))'
        /\ pc = "resume" => AtWork \/ Waiting
        /\ pc = "resume" /\ ~blocked => AtWork
        /\ pc = "resume" /\ ~late => Timed
    BY <2>1, ReadingSteps
  <2> QED BY <1>0, <2>2, PTL DEF Spec, CallsGoOn, ProgramSteps, SocketSteps
<1>3. Spec /\ CallsGoOn => (pc = "greet" ~> pc \in After("greet"))
  <2>1. /\ pc = "greet" /\ [Next]_vars => (pc = "greet")' \/ (pc \in After("greet"))'
        /\ pc = "greet" /\ <<Opens>>_vars => (pc \in After("greet"))'
        /\ pc = "greet" => Writing
    BY <1>s, OpeningSteps
  <2> QED BY <2>1, PTL DEF Spec, CallsGoOn, ProgramSteps, SocketSteps
<1>4. Spec /\ CallsGoOn => (pc = "hello" ~> pc \in After("hello"))
  <2>1. "hello" \in Reading
    BY DEF Reading
  <2>2. /\ pc = "hello" /\ [Next]_vars => (pc = "hello")' \/ (pc \in After("hello"))'
        /\ pc = "hello" /\ late /\ [Next]_vars => late' \/ (pc \in After("hello"))'
        /\ pc = "hello" /\ late /\ ~blocked /\ [Next]_vars => (~blocked)' \/ (pc \in After("hello"))'
        /\ pc = "hello" /\ late /\ AtWork /\ [Next]_vars => AtWork' \/ (pc \in After("hello"))'
        /\ pc = "hello" /\ late /\ <<ReadsOn>>_vars => (~blocked)' \/ (pc \in After("hello"))'
        /\ pc = "hello" /\ late /\ ~blocked /\ <<ReadsOn>>_vars => (pc \in After("hello"))'
        /\ pc = "hello" /\ <<ReadBroken>>_vars => (pc \in After("hello"))'
        /\ pc = "hello" => AtWork \/ Waiting
        /\ pc = "hello" /\ ~blocked => AtWork
        /\ pc = "hello" /\ ~late => Timed
    BY <2>1, ReadingSteps
  <2> QED BY <1>0, <2>2, PTL DEF Spec, CallsGoOn, ProgramSteps, SocketSteps
<1>5. Spec /\ CallsGoOn => (pc = "attached" ~> pc \in After("attached"))
  <2>1. /\ pc = "attached" /\ [Next]_vars => (pc = "attached")' \/ (pc \in After("attached"))'
        /\ pc = "attached" /\ <<Opens>>_vars => (pc \in After("attached"))'
        /\ pc = "attached" => Writing
    BY <1>s, OpeningSteps
  <2> QED BY <2>1, PTL DEF Spec, CallsGoOn, ProgramSteps, SocketSteps
<1>6. Spec /\ CallsGoOn => (pc = "await" ~> pc \in After("await"))
  <2>1. "await" \in Reading
    BY DEF Reading
  <2>2. /\ pc = "await" /\ [Next]_vars => (pc = "await")' \/ (pc \in After("await"))'
        /\ pc = "await" /\ late /\ [Next]_vars => late' \/ (pc \in After("await"))'
        /\ pc = "await" /\ late /\ ~blocked /\ [Next]_vars => (~blocked)' \/ (pc \in After("await"))'
        /\ pc = "await" /\ late /\ AtWork /\ [Next]_vars => AtWork' \/ (pc \in After("await"))'
        /\ pc = "await" /\ late /\ <<ReadsOn>>_vars => (~blocked)' \/ (pc \in After("await"))'
        /\ pc = "await" /\ late /\ ~blocked /\ <<ReadsOn>>_vars => (pc \in After("await"))'
        /\ pc = "await" /\ <<ReadBroken>>_vars => (pc \in After("await"))'
        /\ pc = "await" => AtWork \/ Waiting
        /\ pc = "await" /\ ~blocked => AtWork
        /\ pc = "await" /\ ~late => Timed
    BY <2>1, ReadingSteps
  <2> QED BY <1>0, <2>2, PTL DEF Spec, CallsGoOn, ProgramSteps, SocketSteps
<1>7. /\ pc \in After("dial") => pc = "attach" \/ pc = "idle"
      /\ pc \in After("attach") => pc = "resume" \/ pc = "hello" \/ pc = "idle"
      /\ pc \in After("resume") => pc = "greet" \/ pc = "attached" \/ pc = "idle"
      /\ pc \in After("greet") => pc = "hello" \/ pc = "idle"
      /\ pc \in After("hello") => pc = "attached" \/ pc = "idle"
      /\ pc \in After("attached") => pc = "await" \/ pc = "idle"
      /\ pc \in After("await") => pc = "idle"
  BY DEF After
<1>8. TypeOK => \/ pc = "idle" \/ pc = "dial" \/ pc = "attach" \/ pc = "resume" \/ pc = "greet"
                \/ pc = "hello" \/ pc = "attached" \/ pc = "await"
  BY DEF TypeOK, CallOK, Steps
<1> QED
  BY <1>d, <1>1, <1>2, <1>3, <1>4, <1>5, <1>6, <1>7, <1>8, TypeCorrect, PTL

\* If each handshake, each write and each read that gives nothing ends (SocketSteps),
\* every call is told its one true answer, for any number of calls, channels and
\* pushes: no gateway that keeps the reads going, with records nobody waits for or
\* messages that are no text, holds a call beyond its deadlines.  The code sets no
\* timeout on a handshake, and one on reads and writes only for a plain socket, so
\* that without SocketSteps a call may stand.
THEOREM EveryFrameAnswered == Spec /\ CallsGoOn => EndsWithAnAnswer
<1>1. Spec => Fate!Spec
  BY FateImplemented DEF ImplementsFate
<1>2. CallInv /\ pc = "idle" => trip = 0 \/ result # "none"
  BY DEF CallInv, Answered
<1>3. Spec /\ CallsGoOn => []<>(pc = "idle")
  <2>1. pc # "idle" \/ pc = "idle"
    OBVIOUS
  <2> QED BY <2>1, CallEnds, PTL
<1> QED
  BY <1>1, <1>2, <1>3, CallInvAlways, PTL DEF EndsWithAnAnswer, Fate!FairSpec

-----------------------------------------------------------------------------
(* What the promise of FrameFate gives a caller *)

\* An answer that claims a decision of the gateway has that decision behind it.
AnsweredTruly ==
    /\ result \in {"publish", "ack"} => trip \in taken
    /\ result = "rejected" => trip \in Denied

\* What the gateway has decided of a call, and what a call was told, stands
\* until the next call.
Stands ==
    /\ taken \subseteq taken' /\ Denied \subseteq Denied'
    /\ trip' # trip => trip' = trip + 1 /\ result' = "none"
    /\ trip' = trip /\ result # "none" => result' = result

LEMMA FatePromise ==
    ASSUME AnsweredTruly, trip \in Nat, [Fate!Next]_(Fate!vars)
    PROVE  AnsweredTruly' /\ [Stands]_(Fate!vars)
<1> USE DEF AnsweredTruly, Stands, Fate!vars
<1>1. CASE UNCHANGED Fate!vars
  BY <1>1
<1>2. CASE Fate!Submit
  BY <1>2 DEF Fate!Submit
<1>3. ASSUME NEW f \in Fate!Frames, Fate!Take(f) \/ Fate!Refuse(f)
      PROVE  AnsweredTruly' /\ [Stands]_(Fate!vars)
  BY <1>3 DEF Fate!Take, Fate!Refuse
<1>4. CASE Fate!Tells
  <2>1. PICK answer \in Fate!Answers : Fate!Tell(answer)
    BY <1>4 DEF Fate!Tells
  <2>2. /\ result = "none" /\ result' = answer
        /\ UNCHANGED <<trip, taken>> /\ Denied' = Denied
        /\ answer \in {"publish", "ack"} => trip \in taken
        /\ answer = "rejected" => trip \in Denied
    BY <2>1 DEF Fate!Tell
  <2> QED
    BY <2>2
<1> QED
  BY <1>1, <1>2, <1>3, <1>4 DEF Fate!Next

\* From FrameFate alone, with nothing said of sockets and sessions: a call
\* that is told "published" or "acknowledged" has had its frame taken in, one
\* that is told "rejected" has itself been refused, its frame or the attach it was
\* to go out under, an answer is never taken back, and each call's frame is a new
\* one that waits for its answer.
THEOREM AnswersInherited == Spec => []AnsweredTruly /\ [][Stands]_(Fate!vars)
<1>1. Fate!Init => AnsweredTruly
  BY DEF Fate!Init, AnsweredTruly
<1>2. TypeOK => trip \in Nat
  BY DEF TypeOK, CallOK
<1>3. AnsweredTruly /\ trip \in Nat /\ [Fate!Next]_(Fate!vars)
        => AnsweredTruly' /\ [Stands]_(Fate!vars)
  BY FatePromise
<1>4. Spec => ImplementsFate
  BY FateImplemented
<1> QED
  BY <1>1, <1>2, <1>3, <1>4, TypeCorrect, PTL DEF ImplementsFate, Fate!Spec

-----------------------------------------------------------------------------
(* A session that can be resumed is resumed *)

\* A hello goes out only when there is no session to resume.
GreetsWithoutSession == pc \in {"greet", "hello"} => sid = NoSession

LEMMA GreetsStep ==
    ASSUME EdgeInv, Orderly, GreetsWithoutSession, [Next]_vars
    PROVE  GreetsWithoutSession'
<1> USE DEF GreetsWithoutSession
<1>1. CASE (\E w \in Waits : Call(w)) \/ Dials
  BY <1>1 DEF Call, Dials, Connect, ConnectFails, Fail, Return
<1>2. CASE Opens
  BY <1>2 DEF Opens, SendResume, SendHello, SendFrame, SendFails, Enter, Fail, Return, state
<1>3. CASE Reads
  <2>1. CASE StartRead \/ ReadTooLate \/ ReadBroken \/ ReadBad \/ HelloRejected
    BY <2>1 DEF StartRead, ReadTooLate, ReadBroken, ReadBad, HelloRejected, ReadError, Fail,
                Return, state
  <2>2. CASE Accepted
    BY <2>2 DEF Accepted, Enter
  <2>3. CASE ResumeRejected
    BY <2>3 DEF ResumeRejected, ClearSession
  <2>4. CASE ResumeUnanswered
    <3>1. pc = "resume" /\ toClient # <<>>
          /\ Head(toClient).type \in {"ack", "projection"} \cup (PlainRecord \ {"bad"})
      BY <2>4 DEF ResumeUnanswered, Got
    <3>2. Head(toClient).type \notin {"accept", "reject"}
      BY <3>1 DEF PlainRecord
    <3> QED
      BY <3>1, <3>2, OrderlyAttach
  <2>5. CASE HelloIgnores
    BY <2>5 DEF HelloIgnores, state
  <2>6. CASE AwaitAck \/ AwaitReject \/ AwaitProjection \/ AwaitDirectory
                \/ AwaitRecord \/ AwaitSealed \/ AwaitIgnored
    BY <2>6 DEF AwaitAck, AwaitReject, AwaitProjection, AwaitDirectory, AwaitRecord,
                AwaitSealed, AwaitIgnored, AfterOutcome, Return, Got
  <2> QED
    BY <1>3, <2>1, <2>2, <2>3, <2>4, <2>5, <2>6 DEF Reads, ReadsOn
<1>4. CASE Gateway
  BY <1>4 DEF Gateway, GatewayAnswersResume, GatewayAnswersHello, GatewayAnswersFrame,
      GatewayReads, GatewayRefusesTaken, GatewayPushes, GatewayPushesProjection,
      GatewayMayPush, GatewayCloses, GatewayRestarts, state, call
<1>5. CASE ReadNonText \/ DeadlinePasses \/ UNCHANGED vars
  BY <1>5 DEF ReadNonText, DeadlinePasses, vars, state, call
<1> QED
  BY <1>1, <1>2, <1>3, <1>4, <1>5 DEF Next

\* For any bounds: as long as the gateway answers an attach before it says anything
\* else, no hello is sent beside a session it has accepted the resume of (whether
\* the session would be kept all the same is not the question: the attach is asked
\* for twice).
THEOREM ResumeKept == ASSUME ~EarlyPush PROVE Spec => []ResumesWhenPossible
<1>1. Init => GreetsWithoutSession
  BY DEF Init, GreetsWithoutSession
<1>2. EdgeInv /\ Orderly /\ GreetsWithoutSession /\ [Next]_vars => GreetsWithoutSession'
  BY GreetsStep
<1>3. EdgeInv /\ GreetsWithoutSession => ResumesWhenPossible
  <2> SUFFICES ASSUME EdgeInv, GreetsWithoutSession, pc = "hello" PROVE sid \notin granted
    BY DEF ResumesWhenPossible
  <2>1. sid = NoSession /\ granted \subseteq Sessions
    BY DEF GreetsWithoutSession, EdgeInv, TypeInv, TypeOK, GatewayOK
  <2> QED
    BY <2>1, EdgeAssumption DEF NoSession, Sessions
<1>4. Spec => []Orderly
  BY OrderlyAlways
<1> QED
  BY <1>1, <1>2, <1>3, <1>4, EdgeInvAlways, PTL DEF Spec

-----------------------------------------------------------------------------
(* When an accepted observation is told as an error *)

\* After the frame has gone out every read gives an outcome.
ReadsGive == pc = "await" => ~(ReadTooLate \/ ReadBroken \/ ReadBad)

\* The other ends of a call tell of the ack, if there is one.
LEMMA AwaitTells ==
    ASSUME pc = "await",
           \/ AwaitAck \/ AwaitReject \/ AwaitProjection \/ AwaitDirectory
           \/ AwaitRecord \/ AwaitSealed \/ AwaitIgnored
    PROVE  /\ wait' = wait
           /\ pc' = "idle" /\ ack' # NoFrame => result' # "error"
<1>1. \A a, ev, dg : AfterOutcome(a, ev, dg) =>
        wait' = wait /\ (pc' = "idle" /\ ack' # NoFrame => result' # "error")
  BY DEF AfterOutcome, Return
<1>2. CASE AwaitReject
  BY <1>2 DEF AwaitReject, Return
<1>3. CASE AwaitProjection \/ AwaitDirectory
  BY <1>1, <1>3 DEF AwaitProjection, AwaitDirectory, Return
<1>4. CASE AwaitAck \/ AwaitRecord \/ AwaitSealed \/ AwaitIgnored
  BY <1>1, <1>4 DEF AwaitAck, AwaitRecord, AwaitSealed, AwaitIgnored
<1> QED
  BY <1>2, <1>3, <1>4

LEMMA SaysSoStep ==
    ASSUME EdgeInv, CallInv, AcceptedObservationSaysSo, [Next]_vars, [ReadsGive]_vars
    PROVE  AcceptedObservationSaysSo'
<1> USE DEF AcceptedObservationSaysSo
<1>1. pc \notin {"idle", "await"} => ack = NoFrame
  BY DEF CallInv, AckAwaited
<1>2. CASE \E w \in Waits : Call(w)
  BY <1>2 DEF Call
<1>6. CASE Dials
  BY <1>1, <1>6 DEF Dials, Connect, ConnectFails, Fail, Return, report
<1>3. CASE Opens
  BY <1>1, <1>3 DEF Opens, SendResume, SendHello, SendFrame, SendFails, Fail, Return, Enter,
                    report, Sending
<1>4. CASE Reads
  <2>1. pc # "idle"
    BY <1>4, ReadsShape
  <2>2. CASE pc # "await"
    BY <1>1, <1>4, <2>1, <2>2, ReadsTell
  <2>3. CASE pc = "await"
    <3>1. CASE ReadTooLate \/ ReadBroken \/ ReadBad
      <4>1. pc' = "idle"
        BY <3>1, ReadErrorTells DEF ReadTooLate, ReadBroken, ReadBad
      <4>2. vars' # vars
        BY <2>3, <4>1 DEF vars, call
      <4> QED
        BY <2>3, <3>1, <4>2 DEF ReadsGive
    <3>2. CASE ~(ReadTooLate \/ ReadBroken \/ ReadBad)
      <4>1. \/ StartRead
            \/ AwaitAck \/ AwaitReject \/ AwaitProjection \/ AwaitDirectory
            \/ AwaitRecord \/ AwaitSealed \/ AwaitIgnored
        BY <1>4, <2>3, <3>2 DEF Reads, ReadsOn, Accepted, ResumeRejected, ResumeUnanswered,
                                HelloRejected, HelloIgnores, Got
      <4>2. CASE StartRead
        BY <2>3, <4>2 DEF StartRead
      <4> QED
        BY <2>3, <4>1, <4>2, AwaitTells
    <3> QED
      BY <3>1, <3>2
  <2> QED
    BY <2>2, <2>3
<1>5. CASE Gateway \/ ReadNonText \/ DeadlinePasses \/ UNCHANGED vars
  <2>1. UNCHANGED <<pc, wait, ack, result>>
    BY <1>5 DEF Gateway, GatewayAnswersResume, GatewayAnswersHello, GatewayAnswersFrame,
        GatewayReads, GatewayRefusesTaken, GatewayPushes, GatewayPushesProjection,
        GatewayMayPush, GatewayCloses, GatewayRestarts, ReadNonText, DeadlinePasses,
        vars, call, report
  <2> QED
    BY <2>1
<1> QED
  BY <1>2, <1>3, <1>4, <1>5, <1>6 DEF Next

\* An observation that was acked is told as an error only by a read that fails
\* after its frame has gone out: a deadline found before the read, a close or the
\* socket's timeout in it, or a malformed record.  As long as none of these
\* happens, each end of edge_round_trip, the test of the deadline after an outcome
\* included, says that the observation was accepted, whatever the gateway sends
\* and when.  The arm for read errors is thus all that the run edge_observation
\* finds wanting.
THEOREM AckHiddenByFailedRead ==
    Spec /\ [][ReadsGive]_vars => []AcceptedObservationSaysSo
<1>1. Init => AcceptedObservationSaysSo
  BY DEF Init, AcceptedObservationSaysSo
<1>2. EdgeInv /\ CallInv /\ AcceptedObservationSaysSo /\ [Next]_vars /\ [ReadsGive]_vars
        => AcceptedObservationSaysSo'
  BY SaysSoStep
<1> QED
  BY <1>1, <1>2, EdgeInvAlways, CallInvAlways, PTL DEF Spec
=============================================================================
