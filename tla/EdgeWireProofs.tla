--------------------------- MODULE EdgeWireProofs ---------------------------
(***************************************************************************)
(* Proofs about EdgeWire: what the device's secret changes in the reading  *)
(* of a message, and what it does not.                                     *)
(***************************************************************************)
EXTENDS EdgeWire, TLAPS

-----------------------------------------------------------------------------
(* Classification *)

\* Opening a body ends in one of three ways.
LEMMA OpenCases ==
    ASSUME NEW body \in Body, NEW s \in BOOLEAN
    PROVE  Open(body, s) \in {"opened", "sealed", "nothing"}
BY DEF Open

\* An opened payload gives a record of the frame's kind, nothing, or an error.
LEMMA RecordCases ==
    ASSUME NEW kind \in Kinds \ {"ack", "reject", "other"}, NEW content \in Content
    PROVE  RecordOf(kind, content) \in Outcomes \ (Control \cup {"sealed"})
BY DEF RecordOf, Kinds, Outcomes, Control, DirectoryOutcome, RouteOutcome

\* A frame that is not a control frame is never told as one.
LEMMA OpenedCases ==
    ASSUME NEW kind \in Kinds \ {"ack", "reject", "other"}, NEW body \in Body,
           NEW s \in BOOLEAN
    PROVE  OpenedOutcome(kind, body, s) \in Outcomes \ Control
<1>1. body.content \in Content
  BY DEF Body
<1>2. CASE Open(body, s) = "opened"
  BY <1>1, <1>2, RecordCases DEF OpenedOutcome
<1>3. CASE Open(body, s) = "sealed"
  BY <1>3 DEF OpenedOutcome, Outcomes, Control
<1>4. CASE Open(body, s) = "nothing"
  BY <1>4 DEF OpenedOutcome, Outcomes, Control
<1> QED
  BY <1>2, <1>3, <1>4, OpenCases

\* A message of no known type is never taken for a control message.
LEMMA UntypedCases ==
    ASSUME NEW m \in Message, m.type \in {"bare", "carrier"}, NEW s \in BOOLEAN
    PROVE  UntypedOutcome(m, s) \in Outcomes \ (Control \cup {"sealed"})
BY DEF UntypedOutcome, Outcomes, Control, DirectoryOutcome, RouteOutcome

\* The types of message.
LEMMA MessageTypes ==
    ASSUME NEW m \in Message
    PROVE  /\ m.type \in {"notJson", "reject", "accept", "directory", "frame", "bare", "carrier"}
           /\ m.type = "directory" => m.directory \in Found
           /\ m.type = "frame" => m.kind \in Kinds /\ m.body \in Body /\ m.fit \in Fits
BY DEF Message

\* A control outcome is the same with the secret and without.
LEMMA ControlSame ==
    ASSUME NEW m \in Message, NEW s \in BOOLEAN, NEW t \in BOOLEAN,
           Outcome(m, s) \in Control
    PROVE  Outcome(m, t) = Outcome(m, s)
<1>1. CASE m.type \in {"notJson", "reject", "accept", "directory"}
  BY <1>1 DEF Outcome
<1>2. CASE m.type = "frame"
  <2>1. /\ Outcome(m, s) = FrameOutcome(m, s) /\ Outcome(m, t) = FrameOutcome(m, t)
        /\ m.kind \in Kinds /\ m.body \in Body
    BY <1>2, MessageTypes DEF Outcome
  <2>2. CASE m.fit # "valid" \/ m.kind \in {"ack", "reject", "other"}
    BY <2>1, <2>2 DEF FrameOutcome
  <2>3. CASE m.fit = "valid" /\ m.kind \notin {"ack", "reject", "other"}
    BY <2>1, <2>3, OpenedCases DEF FrameOutcome
  <2> QED
    BY <2>2, <2>3
<1>3. CASE m.type \in {"bare", "carrier"}
  BY <1>3, UntypedCases DEF Outcome
<1> QED
  BY <1>1, <1>2, <1>3, MessageTypes

\* Every message has an outcome.
LEMMA OutcomeCases ==
    ASSUME NEW m \in Message, NEW s \in BOOLEAN
    PROVE  Outcome(m, s) \in Outcomes
<1>1. CASE m.type \in {"notJson", "reject", "accept", "directory"}
  BY <1>1 DEF Outcome, Outcomes, Control, DirectoryOutcome
<1>2. CASE m.type = "frame"
  <2>1. Outcome(m, s) = FrameOutcome(m, s) /\ m.kind \in Kinds /\ m.body \in Body
    BY <1>2, MessageTypes DEF Outcome
  <2>2. CASE m.fit # "valid" \/ m.kind \in {"ack", "reject", "other"}
    BY <2>1, <2>2 DEF FrameOutcome, Outcomes, Control
  <2>3. CASE m.fit = "valid" /\ m.kind \notin {"ack", "reject", "other"}
    BY <2>1, <2>3, OpenedCases DEF FrameOutcome
  <2> QED
    BY <2>2, <2>3
<1>3. CASE m.type \in {"bare", "carrier"}
  BY <1>3, UntypedCases DEF Outcome
<1> QED
  BY <1>1, <1>2, <1>3, MessageTypes

\* A valid frame's outcome changes with the secret only to or from a diagnostic,
\* and a body that stays sealed is no error.
LEMMA SealedSame ==
    ASSUME NEW m \in Message, m.type = "frame", m.fit = "valid",
           NEW s \in BOOLEAN, NEW t \in BOOLEAN
    PROVE  /\ Open(m.body, s) = "sealed" => Outcome(m, s) # "error"
           /\ Outcome(m, s) # Outcome(m, t) => "sealed" \in {Outcome(m, s), Outcome(m, t)}
<1>1. /\ Outcome(m, s) = FrameOutcome(m, s) /\ Outcome(m, t) = FrameOutcome(m, t)
      /\ m.kind \in Kinds /\ m.body \in Body
  BY MessageTypes DEF Outcome
<1>2. CASE m.kind \in {"ack", "reject", "other"}
  BY <1>1, <1>2 DEF FrameOutcome
<1>3. CASE m.kind \notin {"ack", "reject", "other"}
  <2>1. /\ Outcome(m, s) = OpenedOutcome(m.kind, m.body, s)
        /\ Outcome(m, t) = OpenedOutcome(m.kind, m.body, t)
    BY <1>1, <1>3 DEF FrameOutcome
  <2>2. /\ Open(m.body, s) = "sealed" => Outcome(m, s) = "sealed"
        /\ Open(m.body, t) = "sealed" => Outcome(m, t) = "sealed"
    BY <2>1 DEF OpenedOutcome
  <2>3. Open(m.body, s) = Open(m.body, t) \/ "sealed" \in {Open(m.body, s), Open(m.body, t)}
    BY DEF Open
  <2>4. Open(m.body, s) = Open(m.body, t) => Outcome(m, s) = Outcome(m, t)
    BY <2>1 DEF OpenedOutcome
  <2> QED
    BY <2>2, <2>3, <2>4
<1> QED
  BY <1>2, <1>3

-----------------------------------------------------------------------------
(* The reader *)

LEMMA ReaderStep == (TypeOK /\ Classified) /\ [Next]_vars => (TypeOK /\ Classified)'
<1> SUFFICES ASSUME TypeOK, Classified, [Next]_vars PROVE (TypeOK /\ Classified)'
  OBVIOUS
<1>1. NoMessage \notin Message
  BY MessageTypes DEF NoMessage
<1>2. CASE Read
  <2>1. /\ message' \in Message /\ HasSecret' = HasSecret
        /\ outcome' = Outcome(message', HasSecret) /\ phase' = phase
        /\ told' = IF outcome' = "reject" THEN Told(message', HasSecret) ELSE "default"
    BY <1>2 DEF Read, HasSecret
  <2>2. HasSecret \in BOOLEAN
    BY DEF HasSecret
  <2>3. outcome' \in Outcomes
    BY <2>1, <2>2, OutcomeCases
  <2>4. told' \in {"code", "reason", "default"}
    BY <2>1 DEF Told
  <2> QED
    BY <2>1, <2>3, <2>4 DEF TypeOK, Classified
<1>3. CASE Take
  BY <1>3 DEF Take, TypeOK, Classified
<1>4. CASE UNCHANGED vars
  BY <1>4 DEF vars, TypeOK, Classified, HasSecret
<1> QED
  BY <1>2, <1>3, <1>4 DEF Next

LEMMA ReaderAlways == Spec => [](TypeOK /\ Classified)
<1>1. Init => TypeOK /\ Classified
  BY DEF Init, TypeOK, Classified, Outcomes
<1> QED
  BY <1>1, ReaderStep, PTL DEF Spec

\* Every outcome is one EdgeSession provides for.
THEOREM TypeCorrect == Spec => []TypeOK
<1> QED
  BY ReaderAlways, PTL

\* Accepts, acks and rejects are told the same while attaching and after.
THEOREM ControlSound == Spec => []ControlNeedsNoSecret
<1>1. TypeOK /\ Classified => ControlNeedsNoSecret
  <2> SUFFICES ASSUME TypeOK, Classified, message # NoMessage, NEW known \in BOOLEAN,
                      outcome \in Control \/ Outcome(message, known) \in Control
               PROVE  outcome = Outcome(message, known)
    BY DEF ControlNeedsNoSecret
  <2>1. message \in Message /\ outcome = Outcome(message, HasSecret)
    BY DEF Classified
  <2>2. HasSecret \in BOOLEAN
    BY DEF HasSecret
  <2> QED
    BY <2>1, <2>2, ControlSame
<1> QED
  BY <1>1, ReaderAlways, PTL

\* A valid frame that does not open is a diagnostic, and the secret never turns
\* one record into another.
THEOREM SealedSound == Spec => []SealedIsDiagnosed
<1>1. TypeOK /\ Classified => SealedIsDiagnosed
  <2> SUFFICES ASSUME TypeOK, Classified, message # NoMessage,
                      message.type = "frame", message.fit = "valid", NEW known \in BOOLEAN
               PROVE  /\ Open(message.body, HasSecret) = "sealed" => outcome # "error"
                      /\ outcome # Outcome(message, known) =>
                            "sealed" \in {outcome, Outcome(message, known)}
    BY DEF SealedIsDiagnosed
  <2>1. message \in Message /\ outcome = Outcome(message, HasSecret)
    BY DEF Classified
  <2>2. HasSecret \in BOOLEAN
    BY DEF HasSecret
  <2> QED
    BY <2>1, <2>2, SealedSame
<1> QED
  BY <1>1, ReaderAlways, PTL

\* A reject frame's reason is told although its body stays sealed.
THEOREM ReasonSound == Spec => []ReasonSurvivesSeal
<1>1. Classified => ReasonSurvivesSeal
  BY DEF Classified, ReasonSurvivesSeal, Told
<1> QED
  BY <1>1, ReaderAlways, PTL
=============================================================================
