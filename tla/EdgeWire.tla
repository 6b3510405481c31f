------------------------------ MODULE EdgeWire ------------------------------
(***************************************************************************)
(* What the CLI makes of one text message of the swarm edge:               *)
(* edge_outcome_from_value of src/src/transport.rs and the openers and     *)
(* extractors under it.  While it attaches, the CLI reads without the      *)
(* device's secret; once attached, with it.  EdgeSession starts from the   *)
(* outcomes this module ends with.                                         *)
(*                                                                         *)
(* A JSON value is what the extractors find in it, under whichever of the  *)
(* keys they try.  The gateway, the parsers and the cipher are not under   *)
(* src/.                                                                   *)
(***************************************************************************)
VARIABLES
    phase,      \* "attach": no secret; "await": with it; "closed"
    message,    \* the last message read
    outcome,    \* its EdgeWireOutcome, "error" for Err
    told        \* where the code of a reject came from

vars == <<phase, message, outcome, told>>

-----------------------------------------------------------------------------
\* A record that is looked for: not there, valid, or there and invalid.
Found == {"none", "good", "bad"}

Content == [directory : Found, projection : BOOLEAN, route : Found,
            service : BOOLEAN, plan : BOOLEAN]

Nothing == [directory |-> "none", projection |-> FALSE, route |-> "none",
            service |-> FALSE, plan |-> FALSE]

\* SwarmFrameBody: in the clear, sealed for this device, sealed so that it does
\* not open (for others, expired, no envelope of this version), or empty: no
\* payload, no envelope, another encoding.
Seals  == {"public", "ours", "sealed", "empty"}
Kinds  == {"ack", "reject", "snapshot", "delta", "route", "service", "plan", "other"}

Body == [seal : Seals, content : Content]

\* coded: the error in the message, or in its body, has a code; reason: the
\* frame's ack has one.  fit: the frame parses and validate_swarm_frame accepts it.
Fits == {"missing", "unparsed", "invalid", "valid"}

Message ==
    [type : {"notJson"}]
        \cup [type : {"reject"}, coded : BOOLEAN]
        \cup [type : {"accept"}, good : BOOLEAN]
        \cup [type : {"directory"}, directory : Found \ {"none"}]
        \cup [type : {"frame"}, fit : Fits, kind : Kinds, reason : BOOLEAN,
              coded : BOOLEAN, body : Body]
        \* of no type the CLI knows: a bare record, or one in a payload or a frame
        \cup [type : {"bare"}, top : Content, carries : {"nothing", "payload"},
              content : Content]
        \cup [type : {"carrier"}, top : Content, fit : Fits \ {"missing"}, body : Body]

Control  == {"accept", "ack", "reject"}
Outcomes == Control \cup {"directory", "projection", "route", "service", "plan",
                          "sealed", "other", "error"}

-----------------------------------------------------------------------------
(* opened_frame_payload *)

\* Mutant: a body that cannot be opened is an error.
OpenOrFail(body, secret) ==
    IF body.seal = "public" \/ (body.seal = "ours" /\ secret) THEN "opened"
    ELSE IF body.seal = "empty" THEN "nothing"
    ELSE "failed"

Open(body, secret) ==
    IF body.seal = "public" \/ (body.seal = "ours" /\ secret) THEN "opened"
    ELSE IF body.seal = "empty" THEN "nothing"
    ELSE "sealed"

-----------------------------------------------------------------------------
(* edge_outcome_from_frame_value *)

DirectoryOutcome(found) == IF found = "bad" THEN "error" ELSE "directory"
RouteOutcome(found)     == IF found = "bad" THEN "error" ELSE "route"

\* What a frame of the kind carries in its opened payload.
RecordOf(kind, content) ==
    CASE kind \in {"snapshot", "delta"} ->
            IF content.directory # "none" THEN DirectoryOutcome(content.directory)
            ELSE IF content.projection THEN "projection" ELSE "other"
      [] kind = "route" ->
            IF content.route # "none" THEN RouteOutcome(content.route) ELSE "other"
      [] kind = "service" -> IF content.service THEN "service" ELSE "other"
      [] kind = "plan"    -> IF content.plan THEN "plan" ELSE "other"

OpenedOutcome(kind, body, secret) ==
    CASE Open(body, secret) = "opened"  -> RecordOf(kind, body.content)
      [] Open(body, secret) = "sealed"  -> "sealed"
      [] Open(body, secret) = "nothing" -> "other"
      [] Open(body, secret) = "failed"  -> "error"

\* Mutant: the body is opened before the kind is looked at.
FrameOpenedFirst(m, secret) ==
    CASE m.fit # "valid" -> "error"
      [] m.fit = "valid" /\ Open(m.body, secret) = "sealed" -> "sealed"
      [] m.fit = "valid" /\ Open(m.body, secret) # "sealed" ->
            CASE m.kind \in {"ack", "reject", "other"} -> m.kind
              [] m.kind \notin {"ack", "reject", "other"} ->
                    OpenedOutcome(m.kind, m.body, secret)

\* Mutant: every frame is told by its kind.
FrameByKind(m, secret) == IF m.fit = "valid" THEN m.kind ELSE "error"

\* Acks and rejects by their kind alone, whatever their body.
FrameOutcome(m, secret) ==
    CASE m.fit # "valid" -> "error"
      [] m.fit = "valid" /\ m.kind \in {"ack", "reject", "other"} -> m.kind
      [] m.fit = "valid" /\ m.kind \notin {"ack", "reject", "other"} ->
            OpenedOutcome(m.kind, m.body, secret)

-----------------------------------------------------------------------------
(* edge_outcome_from_value *)

\* message_payload of a message of no known type: its frame is opened without
\* being validated.
Payload(m, secret) ==
    CASE m.type = "bare"    -> IF m.carries = "payload" THEN m.content ELSE Nothing
      [] m.type = "carrier" -> IF Open(m.body, secret) = "opened" THEN m.body.content
                               ELSE Nothing

Unreadable(m) == m.type = "carrier" /\ m.fit = "unparsed"

\* Directories and projections are looked for at the top, then in the payload;
\* the other records at the top only.
UntypedOutcome(m, secret) ==
    LET payload == Payload(m, secret)
    IN
    CASE m.top.directory # "none" -> DirectoryOutcome(m.top.directory)
      [] m.top.directory = "none" /\ Unreadable(m) -> "error"
      [] m.top.directory = "none" /\ ~Unreadable(m) ->
            CASE payload.directory # "none" -> DirectoryOutcome(payload.directory)
              [] payload.directory = "none" ->
                    IF m.top.projection \/ payload.projection THEN "projection"
                    ELSE IF m.top.route # "none" THEN RouteOutcome(m.top.route)
                    ELSE IF m.top.service THEN "service"
                    ELSE IF m.top.plan THEN "plan"
                    ELSE "other"

Outcome(m, secret) ==
    CASE m.type = "notJson"   -> "error"
      [] m.type = "accept"    -> IF m.good THEN "accept" ELSE "error"
      [] m.type = "reject"    -> "reject"
      [] m.type = "directory" -> DirectoryOutcome(m.directory)
      [] m.type = "frame"     -> FrameOutcome(m, secret)
      [] m.type \in {"bare", "carrier"} -> UntypedOutcome(m, secret)

\* Mutant: the reason of a frame's ack is asked for only when its body opens.
ToldOpened(m, secret) ==
    IF m.type = "frame" /\ Open(m.body, secret) = "opened"
    THEN IF m.coded THEN "code" ELSE "reason"
    ELSE "default"

\* reject_from_value, reject_from_frame: the code of the error, else the reason
\* of the frame's ack, else a default.
Told(m, secret) ==
    IF m.coded /\ (m.type = "frame" => Open(m.body, secret) = "opened") THEN "code"
    ELSE IF m.type = "frame" /\ m.reason THEN "reason"
    ELSE "default"

-----------------------------------------------------------------------------
NoMessage == [type |-> "none"]

Init ==
    /\ phase = "attach"
    /\ message = NoMessage
    /\ outcome = "other"
    /\ told = "default"

HasSecret == phase = "await"

\* A message is read and classified.
Read ==
    /\ phase # "closed"
    /\ message = NoMessage
    /\ message' \in Message
    /\ outcome' = Outcome(message', HasSecret)
    /\ told' = IF outcome' = "reject" THEN Told(message', HasSecret) ELSE "default"
    /\ UNCHANGED phase

\* The read loop it was read in takes it: an accept ends the attaching, an error
\* the call.
Take ==
    /\ phase # "closed"
    /\ message # NoMessage
    /\ phase' = CASE outcome = "error" -> "closed"
                  [] outcome = "accept" -> "await"
                  [] outcome \notin {"error", "accept"} -> phase
    /\ message' = NoMessage
    /\ UNCHANGED <<outcome, told>>

Next == Read \/ Take

Spec == Init /\ [][Next]_vars

-----------------------------------------------------------------------------
(* Properties *)

TypeOK ==
    /\ phase \in {"attach", "await", "closed"}
    /\ message \in Message \cup {NoMessage}
    /\ outcome \in Outcomes
    /\ told \in {"code", "reason", "default"}

\* Accepts, acks and rejects are told the same with the device's secret and
\* without it: attaching, which reads without, sees every control message that
\* the read after it would see.
ControlNeedsNoSecret ==
    message # NoMessage =>
        \A known \in BOOLEAN :
            outcome \in Control \/ Outcome(message, known) \in Control
            => outcome = Outcome(message, known)

\* A valid frame that cannot be opened, for want of the secret or for good, is never
\* taken for a malformed record, and never for another record than the one the secret
\* would show: it is a diagnostic, is passed over, or is the reject it says it is.
SealedIsDiagnosed ==
    message # NoMessage /\ message.type = "frame" /\ message.fit = "valid" =>
        \A known \in BOOLEAN :
            LET other == Outcome(message, known) IN
            /\ Open(message.body, HasSecret) = "sealed" => outcome # "error"
            /\ outcome # other => "sealed" \in {outcome, other}

\* A reject whose frame gives a reason is told with a reason, although its body
\* is sealed and, while attaching, cannot be opened.
ReasonSurvivesSeal ==
    /\ message # NoMessage
    /\ outcome = "reject"
    /\ message.type = "frame"
    /\ message.reason
    => told # "default"

-----------------------------------------------------------------------------
(* Why they hold *)

\* The secret is the same when a message is taken as when it was read.
Classified ==
    message # NoMessage =>
        /\ message \in Message
        /\ outcome = Outcome(message, HasSecret)
        /\ outcome = "reject" => told = Told(message, HasSecret)
=============================================================================
