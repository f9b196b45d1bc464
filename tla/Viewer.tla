-------------------------------- MODULE Viewer --------------------------------
(***************************************************************************)
(* What a viewer is promised, in the terms of the protocol: it connects,   *)
(* asks for a channel, is answered once, and is sent frames when the       *)
(* answer has been sent; whoever leaves or is refused is sent nothing      *)
(* more, and is gone when what was being sent to it has come back.  One    *)
(* callback of the server may move and serve many viewers.                 *)
(***************************************************************************)
EXTENDS Naturals

CONSTANT Clients

VARIABLES
    phase,      \* where each viewer is
    sending     \* frames being sent to it

Here == {"connected", "asked", "answered", "watching", "refused"}

Init ==
    /\ phase = [c \in Clients |-> "away"]
    /\ sending = [c \in Clients |-> 0]

Moves(c, from, to) ==
    /\ phase[c] \in from /\ phase'[c] \in to
    /\ sending'[c] = sending[c]

Connect(c) == Moves(c, {"away"}, {"connected", "leaving"})

\* The answer may be at once, or none may come (a refusal that is not sent).
Ask(c) == Moves(c, {"connected"}, {"connected", "asked", "answered", "refused"})

Answer(c) == Moves(c, {"asked"}, {"answered"})

AnswerSent(c) == Moves(c, {"answered"}, {"watching"})

SendFrame(c) ==
    /\ phase[c] = "watching" /\ phase'[c] = "watching"
    /\ sending'[c] = sending[c] + 1

\* A frame that cannot be sent makes the viewer leave.
FrameSent(c) ==
    /\ sending[c] > 0 /\ sending'[c] = sending[c] - 1
    /\ \/ phase'[c] = phase[c]
       \/ phase[c] = "watching" /\ phase'[c] = "leaving"

Leave(c) == Moves(c, Here, {"leaving"})

Gone(c) == sending[c] = 0 /\ Moves(c, {"leaving"}, {"away"})

Stay(c) == phase'[c] = phase[c] /\ sending'[c] = sending[c]

Next ==
    /\ phase' \in [Clients -> Here \cup {"away", "leaving"}]
    /\ sending' \in [Clients -> Nat]
    /\ \A c \in Clients :
        \/ Connect(c) \/ Ask(c) \/ Answer(c) \/ AnswerSent(c)
        \/ SendFrame(c) \/ FrameSent(c)
        \/ Leave(c) \/ Gone(c) \/ Stay(c)

Spec == Init /\ [][Next]_<<phase, sending>>
===============================================================================
