---------------------------- MODULE EdgeSession ----------------------------
(***************************************************************************)
(* The swarm edge transport: LiveTransport of src/src/transport.rs.  One   *)
(* transport serves a whole CLI invocation.  Each call opens a socket of   *)
(* its own, resumes or opens a session on it, sends one frame and reads    *)
(* until the records asked for arrive, the gateway refuses or closes, or   *)
(* the deadline passes.  Only EdgeSessionState (session, last acked frame, *)
(* last projection revisions) survives from one call to the next.          *)
(*                                                                         *)
(* A frame is named by the number of the call that sends it.  The gateway  *)
(* is not under src/: it is modelled from the answers the code expects.    *)
(***************************************************************************)
EXTENDS Naturals, Sequences

CONSTANTS
    Channels,   \* projection channels
    MaxTrips,   \* calls made on the transport (bound)
    MaxRev,     \* highest projection revision the gateway reaches (bound)
    MaxPush,    \* records the gateway sends unasked on one socket (bound)
    MaxInbox,   \* messages in flight to the CLI (bound)
    Pushed,     \* kinds of plain record the gateway pushes
    EarlyPush,  \* whether the gateway may push before it answers the attach
    Rewinds     \* whether the gateway may answer an attach with another cursor
                \* than was claimed, and send old revisions again

ASSUME EdgeAssumption ==
    /\ MaxTrips \in Nat
    /\ MaxRev \in Nat
    /\ MaxPush \in Nat
    /\ MaxInbox \in Nat
    /\ Pushed \subseteq {"directory", "route", "service", "plan", "sealed",
                      "other", "bad"}
    /\ EarlyPush \in BOOLEAN
    /\ Rewinds \in BOOLEAN

VARIABLES
    \* EdgeSessionState, kept for the life of the transport
    sid,        \* session_id, NoSession when None
    acked,      \* last_acked_frame_id, NoFrame when None
    revs,       \* last_projection_revisions, NoRev for a channel not in the map
    \* the call in progress
    pc, wait, trip,
    attached,   \* the session open_edge_session returned
    late,       \* the deadline of the present read loop has passed
    blocked,    \* inside socket.read(), the deadline check is behind
    ack,        \* accepted_ack (and frame_intake_ack of a publish)
    evidence,   \* the records EdgePublishReport holds
    diags,      \* its diagnostics
    result,     \* the EdgeRoundTripResult of the last call
    \* the socket
    up, toGateway, toClient,
    \* the gateway
    issued,     \* sessions it knows
    minted,     \* sessions it has issued so far
    granted,    \* sessions it accepted on the present socket
    taken,      \* frames it acked
    refused,    \* frames it rejected
    barred,     \* calls whose resume or hello it rejected
    published,  \* revision of each channel
    pushes,     \* records pushed on the present socket
    \* history: sessions whose resume the CLI has seen refused
    retired

state   == <<sid, acked, revs>>
report  == <<ack, evidence, diags, result>>
call    == <<pc, wait, trip, attached, late, blocked>>
socket  == <<up, toGateway, toClient>>
gateway == <<issued, minted, granted, taken, refused, barred, published, pushes>>
vars    == <<state, call, report, socket, gateway, retired>>

-----------------------------------------------------------------------------
NoSession == 0
NoFrame   == 0
NoRev     == 0

Frames    == 1..MaxTrips
Sessions  == 1..MaxTrips
Revisions == NoRev..MaxRev
Cursors   == [Channels -> Revisions]

Waits     == {"publish", "directory", "projection"}
Evidence  == {"route", "service", "plan", "projection"}
Diags     == {"sealed", "readClosed", "convergenceTimeout"}
Results   == {"none", "publish", "ack", "projection", "directory",
              "rejected", "error"}
Steps     == {"idle", "dial", "attach", "resume", "greet", "hello", "attached", "await"}
Sending   == {"attach", "greet", "attached"}
Reading   == {"resume", "hello", "await"}

\* What a resume or a hello tells the gateway of the CLI's progress, and what
\* the accept echoes (accept_from_edge_record in the tests).
Claims == [acked : {NoFrame} \cup Frames, revs : Cursors]

\* Every request carries the frame of its call; only a frame message shows it to
\* the gateway.
ClientMsg ==
    [type : {"resume"}, session : Sessions, claims : Claims, frame : Frames]
        \cup [type : {"hello"}, claims : Claims, frame : Frames]
        \cup [type : {"frame"}, session : Sessions, frame : Frames]

\* One EdgeWireOutcome each; "bad" is text that read_edge_outcome turns into an
\* error.  An ack names the frame it acks in its acked_frame_id (target), in its
\* correlation_id, in both or in neither; a projection whose record carries no
\* usable id and revision has rev NoRev.
PlainRecord == {"directory", "route", "service", "plan", "sealed", "other", "bad"}
GatewayMsg ==
    [type : {"accept"}, session : Sessions, claims : Claims]
        \cup [type : {"ack"}, frame : Frames, target : {NoFrame} \cup Frames,
              correlation : {NoFrame} \cup Frames]
        \cup [type : {"reject"}, of : {"resume", "hello", "frame"}]
        \cup [type : {"projection"}, channel : Channels, rev : Revisions]
        \cup [type : PlainRecord]

StateOK ==
    /\ sid \in {NoSession} \cup Sessions
    /\ acked \in {NoFrame} \cup Frames
    /\ revs \in Cursors

CallOK ==
    /\ pc \in Steps
    /\ wait \in Waits
    /\ trip \in 0..MaxTrips
    /\ attached \in {NoSession} \cup Sessions
    /\ late \in BOOLEAN
    /\ blocked \in BOOLEAN

ReportOK ==
    /\ ack \in {NoFrame} \cup Frames
    /\ evidence \subseteq Evidence
    /\ diags \subseteq Diags
    /\ result \in Results

SocketOK ==
    /\ up \in BOOLEAN
    /\ toGateway \in Seq(ClientMsg)
    /\ toClient \in Seq(GatewayMsg)

GatewayOK ==
    /\ issued \subseteq Sessions
    /\ minted \in 0..MaxTrips
    /\ granted \subseteq Sessions
    /\ taken \subseteq Frames
    /\ refused \subseteq Frames
    /\ barred \subseteq Frames
    /\ published \in Cursors
    /\ pushes \in 0..MaxPush

\* Every variable ranges over the values the code can give it.
TypeOK ==
    /\ StateOK
    /\ CallOK
    /\ ReportOK
    /\ SocketOK
    /\ GatewayOK
    /\ retired \subseteq Sessions

Init ==
    /\ sid = NoSession
    /\ acked = NoFrame
    /\ revs = [c \in Channels |-> NoRev]
    /\ pc = "idle"
    /\ wait = "publish"
    /\ trip = 0
    /\ attached = NoSession
    /\ late = FALSE
    /\ blocked = FALSE
    /\ ack = NoFrame
    /\ evidence = {}
    /\ diags = {}
    /\ result = "none"
    /\ up = FALSE
    /\ toGateway = <<>>
    /\ toClient = <<>>
    /\ issued = {}
    /\ minted = 0
    /\ granted = {}
    /\ taken = {}
    /\ refused = {}
    /\ barred = {}
    /\ published = [c \in Channels |-> NoRev]
    /\ pushes = 0
    /\ retired = {}

-----------------------------------------------------------------------------
(* The state kept between calls *)

NoteAccept(m) ==
    /\ sid' = m.session
    /\ acked' = m.claims.acked
    /\ revs' = m.claims.revs

\* The frame an ack names, its correlation id if there is no acked frame id.
AckNames(m) == IF m.target # NoFrame THEN m.target ELSE m.correlation

NoteAck(m) ==
    /\ acked' = IF AckNames(m) = NoFrame THEN acked ELSE AckNames(m)
    /\ UNCHANGED <<sid, revs>>

\* Mutant: the revision wanted next is kept in place of the one seen.
NoteProjectionNext(m) ==
    /\ revs' = [revs EXCEPT ![m.channel] = m.rev + 1]
    /\ UNCHANGED <<sid, acked>>

NoteProjection(m) ==
    /\ revs' = IF m.rev = NoRev THEN revs ELSE [revs EXCEPT ![m.channel] = m.rev]
    /\ UNCHANGED <<sid, acked>>

\* Mutant: nothing is cleared.
ClearsNothing == UNCHANGED state

ClearSession ==
    /\ sid' = NoSession
    /\ UNCHANGED <<acked, revs>>

-----------------------------------------------------------------------------
(* Opening the socket and the session *)

\* Mutant: the ack of the call before is still there.
CallKeepsAck(w) ==
    /\ pc = "idle"
    /\ trip < MaxTrips
    /\ pc' = "dial"
    /\ wait' = w
    /\ trip' = trip + 1
    /\ attached' = NoSession
    /\ evidence' = {}
    /\ diags' = {}
    /\ result' = "none"
    /\ toGateway' = <<>>
    /\ granted' = {}
    /\ pushes' = 0
    /\ UNCHANGED <<state, late, blocked, ack, up, toClient, issued, minted,
                   taken, refused, barred, published, retired>>

\* A call begins, with nothing of the one before it but EdgeSessionState.
Call(w) ==
    /\ pc = "idle"
    /\ trip < MaxTrips
    /\ pc' = "dial"
    /\ wait' = w
    /\ trip' = trip + 1
    /\ attached' = NoSession
    /\ ack' = NoFrame
    /\ evidence' = {}
    /\ diags' = {}
    /\ result' = "none"
    /\ toGateway' = <<>>
    /\ granted' = {}
    /\ pushes' = 0
    /\ UNCHANGED <<state, late, blocked, up, toClient, issued, minted,
                   taken, refused, barred, published, retired>>

\* connect() returns a socket: the TCP, TLS and websocket handshakes are over.
\* No timeout is set before this.
Connect ==
    /\ pc = "dial"
    /\ pc' = "attach"
    /\ up' = TRUE
    /\ UNCHANGED <<state, wait, trip, attached, late, blocked, report,
                   toGateway, toClient, gateway, retired>>

\* The call returns and drops its socket; the gateway may still be reading
\* what was sent.
Return(r) ==
    /\ pc' = "idle"
    /\ result' = r
    /\ late' = FALSE
    /\ blocked' = FALSE
    /\ up' = FALSE
    /\ toClient' = <<>>
    /\ UNCHANGED <<wait, trip, attached, toGateway>>

Fail ==
    /\ Return("error")
    /\ UNCHANGED <<ack, evidence, diags>>

\* The frame is not valid, the profile has no edge, or connect() fails: there is
\* no socket, the session state is as it was.
ConnectFails ==
    /\ pc = "dial"
    /\ Fail
    /\ UNCHANGED <<state, gateway, retired>>

Send(m) == up /\ toGateway' = Append(toGateway, m)

\* A read loop starts with a deadline of its own.
Enter(step) ==
    /\ pc' = step
    /\ late' = FALSE
    /\ blocked' = FALSE
    /\ UNCHANGED <<wait, trip>>

Progress == [acked |-> acked, revs |-> revs]

SendResume ==
    /\ pc = "attach"
    /\ sid # NoSession
    /\ Send([type |-> "resume", session |-> sid, claims |-> Progress, frame |-> trip])
    /\ Enter("resume")
    /\ UNCHANGED <<state, attached, report, up, toClient, gateway, retired>>

SendHello ==
    /\ \/ pc = "greet"
       \/ pc = "attach" /\ sid = NoSession
    /\ Send([type |-> "hello", claims |-> Progress, frame |-> trip])
    /\ Enter("hello")
    /\ UNCHANGED <<state, attached, report, up, toClient, gateway, retired>>

\* Mutant: the frame counts as acked once it is sent.
SendFrameCountsAsAck ==
    /\ pc = "attached"
    /\ Send([type |-> "frame", session |-> attached, frame |-> trip])
    /\ Enter("await")
    /\ acked' = trip
    /\ UNCHANGED <<sid, revs, attached, report, up, toClient, gateway, retired>>

SendFrame ==
    /\ pc = "attached"
    /\ Send([type |-> "frame", session |-> attached, frame |-> trip])
    /\ Enter("await")
    /\ UNCHANGED <<state, attached, report, up, toClient, gateway, retired>>

\* What was to be sent cannot be built (no device secret, a poisoned state, a
\* record that fails its own check) or written (the gateway has hung up).
SendFails ==
    /\ pc \in Sending
    /\ Fail
    /\ UNCHANGED <<state, gateway, retired>>

-----------------------------------------------------------------------------
(* read_edge_outcome *)

\* Mutant: a read error is an error, ack or no ack.
ReadErrorDropsReport == Fail

\* A read that cannot give an outcome ends the call, unless it is a publish
\* that already has its frame-intake ack: then the report goes back with a
\* diagnostic.
ReadError ==
    IF pc = "await" /\ wait = "publish" /\ ack # NoFrame
    THEN /\ diags' = diags \cup {"readClosed"}
         /\ Return("publish")
         /\ UNCHANGED <<ack, evidence>>
    ELSE Fail

\* Mutant: the read loop does not look at its deadline.
StartReadUndated ==
    /\ pc \in Reading
    /\ ~blocked
    /\ blocked' = TRUE
    /\ UNCHANGED <<state, pc, wait, trip, attached, late, report, socket, gateway, retired>>

\* The deadline is looked at only before the blocking read.
StartRead ==
    /\ pc \in Reading
    /\ ~blocked
    /\ ~late
    /\ blocked' = TRUE
    /\ UNCHANGED <<state, pc, wait, trip, attached, late, report, socket, gateway, retired>>

ReadTooLate ==
    /\ pc \in Reading
    /\ ~blocked
    /\ late
    /\ ReadError
    /\ UNCHANGED <<state, gateway, retired>>

\* A read that gives nothing ends: the socket is closed, its read timeout passes
\* (set on a plain socket only), or a part of a message never becomes whole.
ReadBroken ==
    /\ pc \in Reading
    /\ blocked
    /\ toClient = <<>>
    /\ ReadError
    /\ UNCHANGED <<state, gateway, retired>>

\* A message that is not text sends the loop back to its deadline check.
ReadNonText ==
    /\ pc \in Reading
    /\ blocked
    /\ up
    /\ blocked' = FALSE
    /\ UNCHANGED <<state, pc, wait, trip, attached, late, report, socket, gateway, retired>>

ReadBad ==
    /\ pc \in Reading
    /\ blocked
    /\ toClient # <<>>
    /\ Head(toClient).type = "bad"
    /\ ReadError
    /\ UNCHANGED <<state, gateway, retired>>

\* The outcome m is read off the socket in step s.
Got(s, types) ==
    /\ pc = s
    /\ blocked
    /\ toClient # <<>>
    /\ Head(toClient).type \in types

Consume == toClient' = Tail(toClient)

-----------------------------------------------------------------------------
(* open_edge_session *)

\* History: the CLI has read that the resume of its session is refused.
Retire == retired \cup ({sid} \cap Sessions)

Accepted ==
    /\ \/ Got("resume", {"accept"})
       \/ Got("hello", {"accept"})
    /\ NoteAccept(Head(toClient))
    /\ attached' = Head(toClient).session
    /\ Enter("attached")
    /\ Consume
    /\ UNCHANGED <<report, up, toGateway, gateway, retired>>

ResumeRejected ==
    /\ Got("resume", {"reject"})
    /\ retired' = Retire
    /\ ClearSession
    /\ Enter("greet")
    /\ Consume
    /\ UNCHANGED <<attached, report, up, toGateway, gateway>>

\* Mutant: an answer that is neither accept nor reject counts as an accept.
ResumeUnansweredAttaches ==
    /\ Got("resume", {"ack", "projection"} \cup (PlainRecord \ {"bad"}))
    /\ attached' = sid
    /\ Enter("attached")
    /\ Consume
    /\ UNCHANGED <<state, report, up, toGateway, gateway, retired>>

\* Any other outcome is dropped and the call goes on to a hello, the session
\* still set.
ResumeUnanswered ==
    /\ Got("resume", {"ack", "projection"} \cup (PlainRecord \ {"bad"}))
    /\ Enter("greet")
    /\ Consume
    /\ UNCHANGED <<state, attached, report, up, toGateway, gateway, retired>>

\* A refused attach is told in the words of a refused frame (into_error).
HelloRejected ==
    /\ Got("hello", {"reject"})
    /\ retired' = IF Head(toClient).of = "resume" THEN Retire ELSE retired
    /\ Return("rejected")
    /\ UNCHANGED <<state, ack, evidence, diags, gateway>>

HelloIgnores ==
    /\ Got("hello", {"ack", "projection"} \cup (PlainRecord \ {"bad"}))
    /\ blocked' = FALSE
    /\ Consume
    /\ UNCHANGED <<state, pc, wait, trip, attached, late, report, up, toGateway, gateway, retired>>

-----------------------------------------------------------------------------
(* edge_round_trip: the loop after the frame is sent *)

\* Mutant: evidence alone ends a publish.
ConvergedWithoutAck(a, ev) == wait = "publish" /\ ev # {}

\* What follows every outcome that does not return by itself: a converged
\* publish returns, then the deadline is looked at, else the loop reads on.
Converged(a, ev) == wait = "publish" /\ a # NoFrame /\ ev # {}

AfterOutcome(a, ev, dg) ==
    /\ ack' = a
    /\ evidence' = ev
    /\ \/ /\ Converged(a, ev)
          /\ Return("publish")
          /\ diags' = dg
       \/ /\ ~Converged(a, ev)
          /\ late
          /\ wait = "publish" /\ a # NoFrame
          /\ Return("publish")
          /\ diags' = dg \cup {"convergenceTimeout"}
       \/ /\ ~Converged(a, ev)
          /\ late
          /\ ~(wait = "publish" /\ a # NoFrame)
          /\ Return(IF a # NoFrame THEN "ack" ELSE "error")
          /\ diags' = dg
       \/ /\ ~Converged(a, ev)
          /\ ~late
          /\ blocked' = FALSE
          /\ Consume
          /\ diags' = dg
          /\ UNCHANGED <<pc, wait, trip, attached, late, result, up, toGateway>>

AwaitAck ==
    /\ Got("await", {"ack"})
    /\ NoteAck(Head(toClient))
    /\ AfterOutcome(Head(toClient).frame, evidence, diags)
    /\ UNCHANGED <<gateway, retired>>

AwaitReject ==
    /\ Got("await", {"reject"})
    /\ Return("rejected")
    /\ UNCHANGED <<state, ack, evidence, diags, gateway, retired>>

AwaitProjection ==
    /\ Got("await", {"projection"})
    /\ NoteProjection(Head(toClient))
    /\ IF wait = "projection"
       THEN Return("projection") /\ UNCHANGED <<ack, evidence, diags>>
       ELSE AfterOutcome(ack,
                IF wait = "publish" THEN evidence \cup {"projection"} ELSE evidence,
                diags)
    /\ UNCHANGED <<gateway, retired>>

AwaitDirectory ==
    /\ Got("await", {"directory"})
    /\ IF wait = "directory"
       THEN Return("directory") /\ UNCHANGED <<ack, evidence, diags>>
       ELSE AfterOutcome(ack, evidence, diags)
    /\ UNCHANGED <<state, gateway, retired>>

AwaitRecord ==
    /\ Got("await", {"route", "service", "plan"})
    /\ AfterOutcome(ack,
           IF wait = "publish" THEN evidence \cup {Head(toClient).type} ELSE evidence,
           diags)
    /\ UNCHANGED <<state, gateway, retired>>

AwaitSealed ==
    /\ Got("await", {"sealed"})
    /\ AfterOutcome(ack, evidence,
           IF wait = "publish" THEN diags \cup {"sealed"} ELSE diags)
    /\ UNCHANGED <<state, gateway, retired>>

\* Mutant: an accept that comes late still replaces the state.
AwaitIgnoredButAccept ==
    /\ Got("await", {"accept", "other"})
    /\ IF Head(toClient).type = "accept" THEN NoteAccept(Head(toClient)) ELSE UNCHANGED state
    /\ AfterOutcome(ack, evidence, diags)
    /\ UNCHANGED <<gateway, retired>>

AwaitIgnored ==
    /\ Got("await", {"accept", "other"})
    /\ AfterOutcome(ack, evidence, diags)
    /\ UNCHANGED <<state, gateway, retired>>

-----------------------------------------------------------------------------
(* The gateway and the clock *)

\* Answers go into a socket the CLI still holds, or nowhere.
Reply(m) ==
    /\ up => Len(toClient) < MaxInbox
    /\ toClient' = IF up THEN Append(toClient, m) ELSE toClient

GatewayReads(type) ==
    /\ toGateway # <<>>
    /\ Head(toGateway).type = type
    /\ toGateway' = Tail(toGateway)
    /\ UNCHANGED <<state, call, report, up, retired>>

\* A cursor the gateway could hold: no frame it has not taken in, no revision it
\* has not published.
ClaimsSound(claims, tk, pub) ==
    /\ claims.acked \in {NoFrame} \cup tk
    /\ \A c \in Channels : claims.revs[c] <= pub[c]

\* The cursor an accept carries: the one claimed, or any other that is true.
Echoes(claims) ==
    IF Rewinds THEN {c \in Claims : ClaimsSound(c, taken, published)} ELSE {claims}

GatewayAnswersResume ==
    LET m == Head(toGateway) IN
    /\ GatewayReads("resume")
    /\ \/ /\ m.session \in issued
          /\ \E c \in Echoes(m.claims) :
                Reply([type |-> "accept", session |-> m.session, claims |-> c])
          /\ granted' = granted \cup {m.session}
          /\ UNCHANGED barred
       \/ /\ Reply([type |-> "reject", of |-> "resume"])
          /\ barred' = barred \cup {m.frame}
          /\ UNCHANGED granted
    /\ UNCHANGED <<issued, minted, taken, refused, published, pushes>>

GatewayAnswersHello ==
    LET m == Head(toGateway)
        s == minted + 1
    IN
    /\ GatewayReads("hello")
    /\ \/ /\ s \in Sessions
          /\ \E c \in Echoes(m.claims) :
                Reply([type |-> "accept", session |-> s, claims |-> c])
          /\ minted' = s
          /\ issued' = issued \cup {s}
          /\ granted' = granted \cup {s}
          /\ UNCHANGED barred
       \/ /\ Reply([type |-> "reject", of |-> "hello"])
          /\ barred' = barred \cup {m.frame}
          /\ UNCHANGED <<minted, issued, granted>>
    /\ UNCHANGED <<taken, refused, published, pushes>>

\* A frame is taken in under a session the gateway knows, or refused.
GatewayAnswersFrame ==
    LET m == Head(toGateway) IN
    /\ GatewayReads("frame")
    /\ \/ /\ m.session \in issued
          /\ taken' = taken \cup {m.frame}
          /\ \E target, correlation \in {NoFrame, m.frame} :
                Reply([type |-> "ack", frame |-> m.frame, target |-> target,
                       correlation |-> correlation])
          /\ UNCHANGED refused
       \/ /\ refused' = refused \cup {m.frame}
          /\ Reply([type |-> "reject", of |-> "frame"])
          /\ UNCHANGED taken
    /\ UNCHANGED <<issued, minted, granted, barred, published, pushes>>

\* A frame that was taken in fails later, at the policy of the service.
GatewayRefusesTaken ==
    /\ up
    /\ pc = "await"
    /\ trip \in taken \ refused
    /\ Reply([type |-> "reject", of |-> "frame"])
    /\ refused' = refused \cup {trip}
    /\ UNCHANGED <<state, call, report, up, toGateway, issued, minted, granted,
                   taken, barred, published, pushes, retired>>

GatewayMayPush ==
    /\ up
    /\ pushes < MaxPush
    /\ EarlyPush \/ granted # {}
    /\ pushes' = pushes + 1
    /\ UNCHANGED <<state, call, report, up, toGateway, issued, minted, granted,
                   taken, refused, barred, retired>>

GatewayPushes ==
    /\ GatewayMayPush
    /\ \E r \in Pushed : Reply([type |-> r])
    /\ UNCHANGED published

\* The revisions the gateway may send of a channel: a snapshot of the present
\* one, a delta that brings the next, none that is usable, or an old one.
Sendable(c) ==
    ({NoRev, published[c], published[c] + 1} \cap Revisions)
        \cup (IF Rewinds THEN NoRev..published[c] ELSE {})

GatewayPushesProjection ==
    /\ GatewayMayPush
    /\ \E c \in Channels :
        \E r \in Sendable(c) :
            /\ Reply([type |-> "projection", channel |-> c, rev |-> r])
            /\ published' = IF r > published[c] THEN [published EXCEPT ![c] = r]
                            ELSE published

\* What was sent to the CLI can still be read; what it sent is lost.
GatewayCloses ==
    /\ up
    /\ up' = FALSE
    /\ toGateway' = <<>>
    /\ UNCHANGED <<state, call, report, toClient, gateway, retired>>

\* A restarted gateway knows no session.
GatewayRestarts ==
    /\ issued # {}
    /\ issued' = {}
    /\ up' = FALSE
    /\ toGateway' = <<>>
    /\ UNCHANGED <<state, call, report, toClient, minted, granted, taken,
                   refused, barred, published, pushes, retired>>

DeadlinePasses ==
    /\ pc \in Reading
    /\ ~late
    /\ late' = TRUE
    /\ UNCHANGED <<state, pc, wait, trip, attached, blocked, report, socket, gateway, retired>>

-----------------------------------------------------------------------------
Dials == Connect \/ ConnectFails

Opens == SendResume \/ SendHello \/ SendFrame \/ SendFails

\* What the CLI does with what it has: the test of the deadline, the outcome
\* that has arrived.
ReadsOn ==
    \/ StartRead \/ ReadTooLate \/ ReadBad
    \/ Accepted \/ ResumeRejected \/ ResumeUnanswered
    \/ HelloRejected \/ HelloIgnores
    \/ AwaitAck \/ AwaitReject \/ AwaitProjection \/ AwaitDirectory
    \/ AwaitRecord \/ AwaitSealed \/ AwaitIgnored

Reads == ReadsOn \/ ReadBroken

Gateway ==
    \/ GatewayAnswersResume \/ GatewayAnswersHello \/ GatewayAnswersFrame
    \/ GatewayRefusesTaken \/ GatewayPushes \/ GatewayPushesProjection
    \/ GatewayCloses \/ GatewayRestarts

Next ==
    \/ \E w \in Waits : Call(w)
    \/ Dials
    \/ Opens
    \/ Reads
    \/ ReadNonText
    \/ Gateway
    \/ DeadlinePasses

Spec == Init /\ [][Next]_vars

\* The CLI goes on and its clock advances.
ProgramGoesOn == WF_vars(ReadsOn) /\ WF_vars(DeadlinePasses)

\* An assumption about the peer, which the code does not enforce: each handshake,
\* each write and each read that gives nothing ends.  connect() has no timeout;
\* only a plain socket has one for its reads and writes, and it is per read, so
\* that a message that trickles in keeps socket.read() from returning.
SocketCallsReturn == WF_vars(Dials) /\ WF_vars(Opens) /\ WF_vars(ReadBroken)

Fairness == ProgramGoesOn /\ SocketCallsReturn

FairSpec == Spec /\ Fairness

-----------------------------------------------------------------------------
(* Properties *)

\* Between connecting and returning a frame is being worked on, and from the
\* accept on it has a session to go out under.
Underway ==
    /\ pc # "idle" => trip \in Frames
    /\ pc \in {"attached", "await"} => attached \in Sessions

\* A caller that is told its frame was published (or acknowledged) is told so
\* of a frame the gateway did take in: this call's, never an earlier one's.
\* Evidence alone, in whatever order it arrives, does not make a publish.
PublishMeansTaken == result \in {"publish", "ack"} => trip \in taken

\* Whatever goes wrong after a publish got its intake ack (a close, a timeout, a
\* malformed record), the ack is reported; only a reject may replace it.
IntakeNotLost ==
    pc = "idle" /\ wait = "publish" /\ ack # NoFrame
        => result \in {"publish", "rejected"}

\* The frame goes out under the session the gateway accepted on this very
\* socket, which is also the one the next call will resume.
FrameUnderGrantedSession ==
    pc \in {"attached", "await"} => attached \in granted /\ sid = attached

\* The resume cursor (last acked frame, revision of each channel) never moves
\* back over the calls, resumes, refusals and restarts, as long as the gateway
\* echoes what was claimed and sends the revisions of a channel in order.  Nothing
\* in the CLI guards it: an accept overwrites the cursor and a revision replaces
\* the one held, so that a gateway which Rewinds moves it back.
CursorNeverRegresses ==
    [][~Rewinds => acked' >= acked /\ \A c \in Channels : revs'[c] >= revs[c]
      ]_<<acked, revs>>

\* The cursor claims no frame the gateway has not taken in and no revision it
\* has not published, even if the gateway Rewinds: a claim ahead of the gateway
\* would make it skip records.
CursorWithinGateway == ClaimsSound(Progress, taken, published)

\* A session whose resume was refused is not resumed again by a later call, as
\* long as the gateway answers an attach before it says anything else: a record
\* ahead of the refusal sends the call on to a hello, and the refusal, read
\* there, ends the call with the session still set.
RetiredSessionForgotten == ~EarlyPush => sid \notin retired

\* The calls the gateway has rejected, their attach or their frame.
Denied == refused \cup barred

Fate == INSTANCE FrameFate WITH
            MaxFrames <- MaxTrips, current <- trip, told <- result,
            refused <- Denied

\* The call keeps the promise of FrameFate: one answer for each frame, and no
\* answer that claims a decision the gateway has not made about this very call.
\* What it calls a rejected frame may be a refused attach (see
\* RejectedMeansFrameRefused).
ImplementsFate == Fate!Spec

\* Every call returns with an answer if each handshake, each write and each
\* read that gives nothing ends (SocketCallsReturn): a gateway that keeps sending,
\* be it records nobody waits for or messages that are no text, holds no call
\* beyond its deadlines, nor does one that answers nothing at all.
EndsWithAnAnswer == Fate!FairSpec

\* "swarm edge rejected frame" (transport.rs:356): a caller that is told so has had
\* its frame rejected.
RejectedMeansFrameRefused == result = "rejected" => trip \in refused

\* live_edge_resumes_existing_session_when_possible (transport.rs:2431): when the
\* gateway has accepted the resume of a session, no hello is sent beside it.
ResumesWhenPossible == ~(pc = "hello" /\ sid \in granted)

\* "live projection observation was accepted but no projection snapshot
\* arrived" (transport.rs:269): an observation that was acked does not end in
\* an error that hides the ack.
AcceptedObservationSaysSo ==
    pc = "idle" /\ wait = "projection" /\ ack # NoFrame => result # "error"

-----------------------------------------------------------------------------
(* Why the safety properties hold: what is in flight is true of the gateway. *)

ReplySound(m, tr, gr, tk, no, pub) ==
    /\ m.type = "accept" => m.session \in gr /\ ClaimsSound(m.claims, tk, pub)
    /\ m.type = "ack" => /\ m.frame = tr
                         /\ m.frame \in tk
                         /\ AckNames(m) \in {NoFrame} \cup tk
    /\ m.type = "reject" => tr \in no
    /\ m.type = "projection" => m.rev <= pub[m.channel]

RequestSound(m, tr, tk, pub) ==
    /\ m.type \in {"resume", "hello"} => ClaimsSound(m.claims, tk, pub)
    /\ m.frame = tr

RepliesSound ==
    \A i \in 1..Len(toClient) :
        ReplySound(toClient[i], trip, granted, taken, Denied, published)
RequestsSound ==
    \A i \in 1..Len(toGateway) :
        RequestSound(toGateway[i], trip, taken, published)
AckSound == ack # NoFrame => ack = trip /\ ack \in taken
IdleQuiet == pc \in {"idle", "dial"} => ~up /\ toClient = <<>>

\* Every reply the CLI may still read is true: of the socket's sessions, of
\* this call's frame or attach, of the revisions published; every request the
\* gateway may still read is about this call.  An ack noted is an ack of this
\* frame, and no reply outlives the call it answers.
InFlightSound == RepliesSound /\ RequestsSound /\ AckSound /\ IdleQuiet
=============================================================================
