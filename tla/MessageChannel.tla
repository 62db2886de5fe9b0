----------------------------- MODULE MessageChannel -----------------------------
(***************************************************************************)
(* What sendMsg and recvMsg promise together: messages given to one end    *)
(* come out of the other whole, in order and at most once, until the       *)
(* channel ends.  It may end at any time, and a message not delivered by   *)
(* then is never delivered.                                                *)
(***************************************************************************)
EXTENDS Naturals, Sequences

CONSTANT Messages

VARIABLES
    sent,       \* the messages given to the channel
    received,   \* the messages that came out
    ended       \* has a call reported that the channel ended?

vars == <<sent, received, ended>>

Init == sent = <<>> /\ received = <<>> /\ ended = FALSE

Send(msg) ==
    /\ sent' = Append(sent, msg)
    /\ UNCHANGED <<received, ended>>

Deliver ==
    /\ ~ended
    /\ Len(received) < Len(sent)
    /\ received' = Append(received, sent[Len(received) + 1])
    /\ UNCHANGED <<sent, ended>>

End ==
    /\ ended' = TRUE
    /\ UNCHANGED <<sent, received>>

Next == (\E msg \in Messages : Send(msg)) \/ Deliver \/ End

Spec == Init /\ [][Next]_vars
===============================================================================
