------------------------------ MODULE Pairing ------------------------------
(***************************************************************************)
(* `auth wait`: wait_for_pairing of src/src/pairing.rs.  One observer      *)
(* thread per relay filters the relay's events into an mpsc channel; the   *)
(* waiting thread answers each claim of its pairing code with a signed     *)
(* pair request, sent on that same thread to one relay after another, and  *)
(* takes the first approval.  A wait that fails can be run again, by a     *)
(* process that remembers nothing of the earlier one.                      *)
(*                                                                         *)
(* The device and its code are those of one pending enrollment.  A claim   *)
(* is named by its identity, code hash and claim id together.  Relays and  *)
(* the account's device are not under src/.                                *)
(***************************************************************************)
EXTENDS Naturals, Sequences

CONSTANTS
    Relays,
    Claims,     \* claims the account can post
    MaxWaits,   \* runs of `auth wait` (bound)
    MaxQueue    \* observations in the channel (bound)

ASSUME PairingAssumption == MaxWaits \in Nat /\ MaxQueue \in Nat

VARIABLES
    pc,         \* "idle", "head" of the loop, inside "recv" or "publish"
    result,     \* what the last wait returned
    late,       \* its deadline has passed
    published,  \* published_claims of this wait
    observer,   \* thread of each relay
    queue,      \* the channel
    answering,  \* the claim whose request is being published, as a set
    reached,    \* that request has been delivered to a relay
    waits,      \* waits begun
    expired,    \* expires_at of the pairing code has passed
    \* history
    requests,   \* number of pair requests delivered for each claim in this wait
    heard,      \* an observer of this wait has sent on an approval for us
    lapsed      \* a request went out after the code had expired

sending == <<answering, reached>>
wait == <<pc, result, late, published, observer, queue, sending, waits>>
past == <<requests, heard, lapsed>>
vars == <<wait, expired, past>>

-----------------------------------------------------------------------------
\* What an approval opens to: an identity, a JSON without identityId, or
\* nothing (decrypt_nip04 or the parser fails).
Bodies == {"identity", "noIdentity", "sealed"}

\* `ours`: the claim carries the hash of our code, the approval our device key.
Event ==
    [type : {"pair_claim"}, claim : Claims, ours : BOOLEAN]
        \cup [type : {"pair_approve"}, body : Bodies, ours : BOOLEAN]

Threads == {"off", "reading", "stopped"}
Results == {"none", "approved", "expired", "timedOut", "observersStopped",
            "notDelivered", "badApproval"}

TypeOK ==
    /\ pc \in {"idle", "head", "recv", "publish"}
    /\ result \in Results
    /\ late \in BOOLEAN
    /\ published \subseteq Claims
    /\ observer \in [Relays -> Threads]
    /\ queue \in Seq(Event)
    /\ answering \subseteq Claims
    /\ reached \in BOOLEAN
    /\ waits \in 0..MaxWaits
    /\ expired \in BOOLEAN
    /\ requests \in [Claims -> Nat]
    /\ heard \in BOOLEAN
    /\ lapsed \in BOOLEAN

Init ==
    /\ pc = "idle"
    /\ result = "none"
    /\ late = FALSE
    /\ published = {}
    /\ observer = [r \in Relays |-> "off"]
    /\ queue = <<>>
    /\ answering = {}
    /\ reached = FALSE
    /\ waits = 0
    /\ expired = FALSE
    /\ requests = [c \in Claims |-> 0]
    /\ heard = FALSE
    /\ lapsed = FALSE

-----------------------------------------------------------------------------
(* Starting and ending a wait *)

StartWait ==
    /\ pc = "idle"
    /\ result # "approved"
    /\ waits < MaxWaits
    /\ Relays # {}
    /\ ~expired
    /\ waits' = waits + 1
    /\ pc' = "head"
    /\ result' = "none"
    /\ late' = FALSE
    /\ published' = {}
    /\ observer' = [r \in Relays |-> "reading"]
    /\ queue' = <<>>
    /\ requests' = [c \in Claims |-> 0]
    /\ heard' = FALSE
    /\ UNCHANGED <<sending, expired, lapsed>>

StartExpired ==
    /\ pc = "idle"
    /\ result # "approved"
    /\ waits < MaxWaits
    /\ expired
    /\ waits' = waits + 1
    /\ result' = "expired"
    /\ UNCHANGED <<pc, late, published, observer, queue, sending, expired, past>>

\* The process ends, and its observer threads with it.
Return(r) ==
    /\ pc' = "idle"
    /\ result' = r
    /\ observer' = [q \in Relays |-> "off"]
    /\ UNCHANGED <<late, waits>>

-----------------------------------------------------------------------------
(* observe_relay *)

\* Mutant: an approval for another device is sent on.
ConcernsAnyDevice(e) == e.type = "pair_approve" \/ e.ours

Concerns(e) == e.ours

\* A relay sends any event, and the same one as often as it likes: it stores
\* them, and shows every device those of the others.
Observe(r) ==
    /\ observer[r] = "reading"
    /\ Len(queue) < MaxQueue
    /\ \E e \in Event :
        /\ Concerns(e)
        /\ queue' = Append(queue, e)
        /\ heard' = (heard \/ (e.type = "pair_approve" /\ e.ours))
    /\ UNCHANGED <<pc, result, late, published, observer, sending, waits, expired, requests, lapsed>>

\* connect or read fails, or a frame does not parse: this relay is heard no more.
ObserverStops(r) ==
    /\ observer[r] = "reading"
    /\ observer' = [observer EXCEPT ![r] = "stopped"]
    /\ UNCHANGED <<pc, result, late, published, queue, sending, waits, expired, past>>

-----------------------------------------------------------------------------
(* The loop of wait_for_pairing *)

Proceed ==
    /\ pc = "head"
    /\ ~late
    /\ pc' = "recv"
    /\ UNCHANGED <<result, late, published, observer, queue, sending, waits, expired, past>>

TimeOut ==
    /\ pc = "head"
    /\ late
    /\ Return("timedOut")
    /\ UNCHANGED <<published, queue, sending, expired, past>>

\* Mutant: recv() in place of recv_timeout().
RecvNeverTimesOut == FALSE /\ UNCHANGED vars

\* recv_timeout gives up after five seconds or at the deadline.
RecvTimesOut ==
    /\ pc = "recv"
    /\ queue = <<>>
    /\ pc' = "head"
    /\ UNCHANGED <<result, late, published, observer, queue, sending, waits, expired, past>>

\* Mutant: the threads are joined before the channel is drained.
RecvJoins ==
    /\ pc = "recv"
    /\ \A r \in Relays : observer[r] = "stopped"
    /\ Return("observersStopped")
    /\ UNCHANGED <<published, queue, sending, expired, past>>

\* Every sender is gone and the channel is drained.
RecvDisconnected ==
    /\ pc = "recv"
    /\ queue = <<>>
    /\ \A r \in Relays : observer[r] = "stopped"
    /\ Return("observersStopped")
    /\ UNCHANGED <<published, queue, sending, expired, past>>

Received(type) ==
    /\ pc = "recv"
    /\ queue # <<>>
    /\ Head(queue).type = type
    /\ queue' = Tail(queue)

RecvKnownClaim ==
    /\ Received("pair_claim")
    /\ Head(queue).claim \in published
    /\ pc' = "head"
    /\ UNCHANGED <<result, late, published, observer, sending, waits, expired, past>>

\* The waiting thread goes into publish_pair_request.
Publish(claim) ==
    /\ pc' = "publish"
    /\ answering' = {claim}
    /\ UNCHANGED <<result, late, observer, reached, waits, expired, past>>

\* Mutant: the claim is not remembered.
RecvClaimForgets ==
    /\ Received("pair_claim")
    /\ Publish(Head(queue).claim)
    /\ UNCHANGED published

RecvNewClaim ==
    /\ Received("pair_claim")
    /\ Head(queue).claim \notin published
    /\ published' = published \cup {Head(queue).claim}
    /\ Publish(Head(queue).claim)

\* Mutant: what the approval opens to is returned unread.
RecvApprovalUnread ==
    /\ Received("pair_approve")
    /\ Return(Head(queue).body)
    /\ UNCHANGED <<published, sending, expired, past>>

RecvApproval ==
    /\ Received("pair_approve")
    /\ Return(IF Head(queue).ours /\ Head(queue).body = "identity"
              THEN "approved" ELSE "badApproval")
    /\ UNCHANGED <<published, sending, expired, past>>

-----------------------------------------------------------------------------
(* publish_pair_request *)

\* connect to one of the relays returns and the frame is written.
RelayTakes ==
    /\ pc = "publish"
    /\ reached' = TRUE
    /\ requests' = [c \in Claims |->
                      IF c \in answering /\ ~reached THEN requests[c] + 1 ELSE requests[c]]
    /\ lapsed' = (lapsed \/ expired)
    /\ UNCHANGED <<pc, result, late, published, observer, queue, answering, waits, expired, heard>>

\* Every relay has been tried.
Published ==
    /\ pc = "publish"
    /\ answering' = {}
    /\ reached' = FALSE

PublishDelivered ==
    /\ Published
    /\ reached
    /\ pc' = "head"
    /\ UNCHANGED <<result, late, published, observer, queue, waits, expired, past>>

\* No relay took the request: the wait is given up.
PublishUndelivered ==
    /\ Published
    /\ ~reached
    /\ Return("notDelivered")
    /\ UNCHANGED <<published, queue, expired, past>>

PublishReturns == PublishDelivered \/ PublishUndelivered

-----------------------------------------------------------------------------
(* The clock *)

DeadlinePasses ==
    /\ pc # "idle"
    /\ ~late
    /\ late' = TRUE
    /\ UNCHANGED <<pc, result, published, observer, queue, sending, waits, expired, past>>

CodeExpires ==
    /\ ~expired
    /\ expired' = TRUE
    /\ UNCHANGED <<wait, past>>

-----------------------------------------------------------------------------
Loop ==
    \/ Proceed \/ TimeOut \/ RecvTimesOut \/ RecvDisconnected
    \/ RecvKnownClaim \/ RecvNewClaim \/ RecvApproval

Next ==
    \/ StartWait
    \/ StartExpired
    \/ \E r \in Relays : Observe(r) \/ ObserverStops(r)
    \/ Loop
    \/ RelayTakes \/ PublishReturns
    \/ DeadlinePasses
    \/ CodeExpires

Spec == Init /\ [][Next]_vars

\* The waiting thread runs on and its clock advances.  Nothing is assumed of
\* the observers: a read from a silent relay never returns.
ProgramGoesOn == WF_vars(Loop) /\ WF_vars(DeadlinePasses)

\* An assumption about the relays, and nothing the code enforces: connect and
\* send have no timeout, so a relay silent in its handshake would hold
\* publish_pair_request, and with it the waiting thread, past the deadline.
RelaysLetGo == WF_vars(PublishReturns)

Fairness == ProgramGoesOn /\ RelaysLetGo

FairSpec == Spec /\ Fairness

-----------------------------------------------------------------------------
(* Properties *)

\* However many relays repeat a claim, in whatever order, one wait sends at
\* most one pair request for it.
RequestOncePerClaim == \A c \in Claims : requests[c] <= 1

\* "observers stopped before approval" is said only if none of them had sent
\* an approval on: what is still in the channel when the last relay fails is
\* read first.
StoppedMeansNoneHeard == result = "observersStopped" => ~heard

\* An approval meant for another device, which every relay shows to every
\* waiting device, neither pairs this one nor ends its wait.
WaitIgnoresOthers ==
    result \in {"approved", "badApproval"} => heard

\* A wait ends, even if every observer's relay is silent and however many
\* claims the others send, as long as each publishing of a request comes back.
WaitEnds == pc # "idle" ~> pc = "idle"

\* "pairing code expired" (pairing.rs:104): an expired code is not used for
\* enrollment.
ExpiredCodeUnused == ~lapsed

-----------------------------------------------------------------------------
(* Why they hold *)

\* A claim is remembered before the request for it goes out.
RequestsRemembered ==
    \A c \in Claims :
        /\ requests[c] <= 1
        /\ c \notin published => requests[c] = 0
        /\ c \in answering => c \in published
        /\ c \in answering /\ ~reached => requests[c] = 0

\* A request is under way only inside publish_pair_request.
SendingInPublish == pc # "publish" => answering = {} /\ ~reached

\* Observers live as long as the wait.
ObserversOff == pc = "idle" => \A r \in Relays : observer[r] = "off"

\* A wait under way has told nothing yet.
NoResultYet == pc # "idle" => result = "none"

\* An approval in the channel has been heard, and during a wait one that has
\* been heard is in the channel: the first one received ends the wait.
QueueHeard ==
    \A i \in DOMAIN queue :
        queue[i].ours /\ (queue[i].type = "pair_approve" => heard)

HeardQueued ==
    pc # "idle" /\ heard =>
        \E i \in DOMAIN queue : queue[i].type = "pair_approve"

PairInv ==
    /\ TypeOK
    /\ RequestsRemembered
    /\ SendingInPublish
    /\ ObserversOff
    /\ NoResultYet
    /\ QueueHeard
    /\ HeardQueued
    /\ StoppedMeansNoneHeard
    /\ WaitIgnoresOthers
=============================================================================
