----------------------------- MODULE FrameFate -----------------------------
(***************************************************************************)
(* What the swarm edge transport promises its callers, without sockets or  *)
(* sessions: each call submits one frame, the gateway may take the frame   *)
(* in and may refuse the call, and the caller is told one answer, once.  An*)
(* answer that claims a decision of the gateway is given only after the    *)
(* gateway has made that decision about that very call.                    *)
(***************************************************************************)
EXTENDS Naturals

CONSTANT MaxFrames

VARIABLES
    current,   \* the frame last submitted, 0 before the first
    taken,     \* frames the gateway has taken in
    refused,   \* calls the gateway has refused: their frame, or the attach it
               \* was to go out under
    told       \* the answer to the current frame, "none" while it is awaited

vars == <<current, taken, refused, told>>

Frames  == 1..MaxFrames
Answers == {"publish", "ack", "projection", "directory", "rejected", "error"}

Init ==
    /\ current = 0
    /\ taken = {}
    /\ refused = {}
    /\ told = "none"

\* One frame at a time.
Submit ==
    /\ current = 0 \/ told # "none"
    /\ current < MaxFrames
    /\ current' = current + 1
    /\ told' = "none"
    /\ UNCHANGED <<taken, refused>>

Take(f) ==
    /\ f \in Frames
    /\ taken' = taken \cup {f}
    /\ UNCHANGED <<current, refused, told>>

Refuse(f) ==
    /\ f \in Frames
    /\ refused' = refused \cup {f}
    /\ UNCHANGED <<current, taken, told>>

Tell(answer) ==
    /\ current # 0
    /\ told = "none"
    /\ answer \in {"publish", "ack"} => current \in taken
    /\ answer = "rejected" => current \in refused
    /\ told' = answer
    /\ UNCHANGED <<current, taken, refused>>

Tells == \E answer \in Answers : Tell(answer)

Next ==
    \/ Submit
    \/ \E f \in Frames : Take(f) \/ Refuse(f)
    \/ Tells

Spec == Init /\ [][Next]_vars

\* Every submitted frame gets its answer.
FairSpec == Spec /\ []<>(current = 0 \/ told # "none")
=============================================================================
